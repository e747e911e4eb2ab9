-------------------------- MODULE NotificationsProofs --------------------------
(* Proofs about the delivery of messages, for every number of users,       *)
(* bookings, polls and failures.                                           *)
EXTENDS NotificationsProperties, FiniteSetTheorems, TLAPS

(* All actions of Next with their parameters bound. *)
Actions ==
    \/ \E b \in Bookings, start \in Starts : createPendingBooking(b, start)
    \/ \E b \in Bookings, start \in Starts : adminMoveBooking(b, start)
    \/ \E b \in Bookings : adminConfirmBooking(b)
    \/ \E b \in Bookings : adminCancelBooking(b)
    \/ \E b \in Bookings : cancelOwnBooking(b)
    \/ \E u \in Users, status \in {"active", "blocked", "deleted"} : SetStatus(u, status)
    \/ Tick
    \/ \E p \in Polls : runTick(p)
    \/ \E p \in Polls : ListDue(p)
    \/ \E p \in Polls : NextDue(p)
    \/ \E p \in Polls : createReminderRequest(p)
    \/ \E p \in Polls : listNotificationRequestLogs(p)
    \/ \E p \in Polls : ListRecipients(p)
    \/ \E p \in Polls : AnswerPoll(p)
    \/ \E p \in Polls : FailPoll(p)
    \/ GiveUp
    \/ \E k \in bot.batch, told \in BOOLEAN : SendArrives(k, told)
    \/ \E k \in bot.batch : SendFails(k)
    \/ \E told \in BOOLEAN : ReportDelivered(told)
    \/ ReportLost
    \/ safeReportFailure
    \/ Crash
    \/ \E k \in orphans : OrphanArrives(k)

LEMMA NextSplits == Next => Actions
BY Zenon DEF Next, Actions, Club, PollNext, Work

(* What a page is, whichever keys it is taken from. *)
LEMMA PageWithin == \A keys : \A page \in PageOf(keys) : page \subseteq keys
BY DEF PageOf

(* A poll that is about to write a reminder knows the booking, and a worker *)
(* that has tried a message holds its key.                                  *)
HandsFull ==
    /\ \A p \in Polls : api[p].step = "create" => api[p].booking \in Bookings
    /\ bot.step \in {"reporting", "failing"} => bot.key \in bot.batch

TypeInv == NotificationsTypeOK /\ HandsFull

LEMMA InitTypes == Init => TypeInv
  BY NotificationsAssumption
  DEF Init, TypeInv, NotificationsTypeOK, HandsFull, FreePoll, IdleBot, PollSteps, BotSteps,
      Request, PollState, BotState

(* Whatever a poll read, it answers with keys. *)
LEMMA PendingKeys ==
    ASSUME TypeInv, NEW p \in Polls, NEW page \in PageOf(Pending(api[p]))
    PROVE  page \subseteq Key /\ page \cap delivered = {}
  <1>1. api[p].window \in Nat
    BY DEF TypeInv, NotificationsTypeOK, PollState
  <1>2. Candidates(api[p]) \subseteq Key
    BY <1>1 DEF Candidates, Key
  <1> QED BY <1>2, PageWithin DEF Pending

(* The club writes requests that are well formed. *)
LEMMA ChangeTypes ==
    ASSUME TypeInv, NEW b \in Bookings, NEW status \in {"pending", "confirmed", "cancelled"},
           NEW start \in Starts \cup {0}, NEW kind \in Kinds, NEW u \in Users \cup {None},
           Change(b, status, start, kind, u)
    PROVE  TypeInv'
  <1>1. [kind |-> kind, booking |-> b, to |-> u] \in Request
    BY DEF Request
  <1>2. log' \in Seq(Request)
    BY <1>1 DEF Change, Post, TypeInv, NotificationsTypeOK
  <1>3. bookings' \in [Bookings -> [status: {"none", "pending", "confirmed", "cancelled"},
                                    start: Starts \cup {0}]]
    BY DEF Change, TypeInv, NotificationsTypeOK
  <1> QED BY <1>2, <1>3 DEF Change, TypeInv, NotificationsTypeOK, HandsFull, seen

(* A step of one poll that leaves the worker alone. *)
LEMMA StepTypes ==
    ASSUME TypeInv, NEW p \in Polls, UNCHANGED <<log, bot>>,
           NEW new \in PollState,
           new.step = "create" => new.booking \in Bookings,
           Step(p, new)
    PROVE  TypeInv'
  BY DEF Step, TypeInv, NotificationsTypeOK, HandsFull, club, seen

LEMMA Resting == /\ FreePoll \in PollState /\ FreePoll.step = "free"
                 /\ IdleBot \in BotState /\ IdleBot.step = "idle"
  BY DEF FreePoll, PollState, PollSteps, IdleBot, BotState, BotSteps

(* The worker takes a key of its batch, or goes on with the next one. *)
LEMMA BotTypes ==
    ASSUME TypeInv, NEW step \in BotSteps, NEW k \in bot.batch, Bot(step, k)
    PROVE  bot' \in BotState /\ bot'.key \in bot'.batch /\ bot'.batch = bot.batch
  BY DEF Bot, TypeInv, NotificationsTypeOK, BotState

LEMMA NextKeyTypes ==
    ASSUME TypeInv, NextKey
    PROVE  bot' \in BotState /\ bot'.step \in {"idle", "sending"}
  BY Resting DEF NextKey, TypeInv, NotificationsTypeOK, BotState, BotSteps

LEMMA NextTypes == TypeInv /\ [Next]_vars => TypeInv'
  <1> SUFFICES ASSUME TypeInv, [Next]_vars PROVE TypeInv'
    OBVIOUS
  <1>1. CASE UNCHANGED vars
    BY <1>1 DEF vars, club, rows, seen, TypeInv, NotificationsTypeOK, HandsFull
  <1>2. ASSUME NEW b \in Bookings, NEW start \in Starts,
               createPendingBooking(b, start) \/ adminMoveBooking(b, start)
        PROVE  TypeInv'
    <2>1. CASE createPendingBooking(b, start)
      BY <2>1, ChangeTypes DEF createPendingBooking, Kinds
    <2>2. CASE adminMoveBooking(b, start)
      BY <2>2, ChangeTypes, NotificationsAssumption DEF adminMoveBooking, Kinds
    <2> QED BY <1>2, <2>1, <2>2
  <1>3. ASSUME NEW b \in Bookings, adminConfirmBooking(b) \/ adminCancelBooking(b)
        PROVE  TypeInv'
    <2>1. bookings[b].start \in Starts \cup {0} /\ OwnerOf[b] \in Users \cup {None}
      BY NotificationsAssumption DEF TypeInv, NotificationsTypeOK
    <2>2. CASE adminConfirmBooking(b)
      BY <2>1, <2>2, ChangeTypes DEF adminConfirmBooking, Kinds
    <2>3. CASE adminCancelBooking(b)
      BY <2>1, <2>3, ChangeTypes DEF adminCancelBooking, Kinds
    <2> QED BY <1>3, <2>2, <2>3
  <1>4. ASSUME NEW b \in Bookings, cancelOwnBooking(b)
        PROVE  TypeInv'
    BY <1>4 DEF cancelOwnBooking, TypeInv, NotificationsTypeOK, HandsFull, rows, seen
  <1>5. ASSUME NEW u \in Users, NEW status \in {"active", "blocked", "deleted"},
               SetStatus(u, status)
        PROVE  TypeInv'
    BY <1>5 DEF SetStatus, TypeInv, NotificationsTypeOK, HandsFull, rows, seen
  <1>6. CASE Tick
    BY <1>6 DEF Tick, TypeInv, NotificationsTypeOK, HandsFull, rows, seen
  <1>7. ASSUME NEW p \in Polls, runTick(p)
        PROVE  TypeInv'
    <2>1. [api[p] EXCEPT !.step = "due"] \in PollState
      BY DEF TypeInv, NotificationsTypeOK, PollState, PollSteps
    <2>2. api' = [api EXCEPT ![p] = [api[p] EXCEPT !.step = "due"]]
      BY <1>7 DEF runTick, TypeInv, NotificationsTypeOK
    <2>3. bot' \in BotState /\ bot'.step = "fetching"
      BY <1>7 DEF runTick, IdleBot, BotState, BotSteps
    <2>4. api' \in [Polls -> PollState] /\ \A q \in Polls \ {p} : api'[q] = api[q]
      BY <2>1, <2>2 DEF TypeInv, NotificationsTypeOK
    <2>5. api'[p].step = "due"
      BY <2>2 DEF TypeInv, NotificationsTypeOK, PollState
    <2>6. HandsFull'
      BY <2>3, <2>4, <2>5 DEF TypeInv, HandsFull
    <2> QED BY <1>7, <2>3, <2>4, <2>6 DEF runTick, TypeInv, NotificationsTypeOK, rows, club, seen
  <1>8. ASSUME NEW p \in Polls, ListDue(p)
        PROVE  TypeInv'
    <2>1. PICK due \in SUBSET Due : Step(p, [api[p] EXCEPT !.step = "exists", !.due = due])
      BY <1>8 DEF ListDue
    <2> DEFINE new == [api[p] EXCEPT !.step = "exists", !.due = due]
    <2>2. new \in PollState /\ new.step = "exists"
      BY DEF Due, TypeInv, NotificationsTypeOK, PollState, PollSteps
    <2> HIDE DEF new
    <2> QED BY <1>8, <2>1, <2>2, StepTypes DEF ListDue, new
  <1>9. ASSUME NEW p \in Polls, NextDue(p)
        PROVE  TypeInv'
    <2>1. CASE Step(p, [api[p] EXCEPT !.step = "logs"])
      <3> DEFINE new == [api[p] EXCEPT !.step = "logs"]
      <3>1. new \in PollState /\ new.step = "logs"
        BY DEF TypeInv, NotificationsTypeOK, PollState, PollSteps
      <3>2. Step(p, new)
        BY <2>1
      <3> HIDE DEF new
      <3> QED BY <1>9, <3>1, <3>2, StepTypes DEF NextDue
    <2>2. ASSUME NEW b \in api[p].due, Step(p, [api[p] EXCEPT !.due = @ \ {b}])
          PROVE  TypeInv'
      <3> DEFINE new == [api[p] EXCEPT !.due = @ \ {b}]
      <3>1. new \in PollState /\ new.step = "exists"
        BY <1>9 DEF NextDue, TypeInv, NotificationsTypeOK, PollState, PollSteps
      <3>2. Step(p, new)
        BY <2>2
      <3> HIDE DEF new
      <3> QED BY <1>9, <3>1, <3>2, StepTypes DEF NextDue
    <2>3. ASSUME NEW b \in api[p].due,
                 Step(p, [api[p] EXCEPT !.step = "create", !.booking = b])
          PROVE  TypeInv'
      <3> DEFINE new == [api[p] EXCEPT !.step = "create", !.booking = b]
      <3>1. new \in PollState /\ new.booking \in Bookings
        BY DEF TypeInv, NotificationsTypeOK, PollState, PollSteps
      <3>2. Step(p, new)
        BY <2>3
      <3> HIDE DEF new
      <3> QED BY <1>9, <3>1, <3>2, StepTypes DEF NextDue
    <2> QED BY <1>9, <2>1, <2>2, <2>3 DEF NextDue
  <1>10. ASSUME NEW p \in Polls, createReminderRequest(p)
         PROVE  TypeInv'
    <2> DEFINE b == api[p].booking
               new == [api[p] EXCEPT !.step = "exists", !.due = @ \ {b}, !.booking = None]
    <2>1. b \in Bookings
      BY <1>10 DEF createReminderRequest, TypeInv, HandsFull
    <2>2. [kind |-> "booking_reminder_user", booking |-> b, to |-> OwnerOf[b]] \in Request
      BY <2>1, NotificationsAssumption DEF Request, Kinds
    <2>3. log' \in Seq(Request)
      BY <1>10, <2>2 DEF createReminderRequest, Post, TypeInv, NotificationsTypeOK
    <2>4. api' = [api EXCEPT ![p] = new] /\ UNCHANGED <<club, delivered, failed, orphans, seen, bot>>
      BY <1>10 DEF createReminderRequest, Step
    <2>5. new \in PollState /\ new.step = "exists"
      BY DEF TypeInv, NotificationsTypeOK, PollState, PollSteps
    <2> HIDE DEF new
    <2> QED BY <2>3, <2>4, <2>5 DEF TypeInv, NotificationsTypeOK, HandsFull, club, seen
  <1>11. ASSUME NEW p \in Polls, listNotificationRequestLogs(p)
         PROVE  TypeInv'
    <2> DEFINE new == [api[p] EXCEPT !.step = "recipients",
                                     !.window = MinOf(Len(log), RequestWindow)]
    <2>1. Len(log) \in Nat /\ RequestWindow \in Nat
      BY NotificationsAssumption DEF RequestWindow, MaxOf, TypeInv, NotificationsTypeOK
    <2>2. MinOf(Len(log), RequestWindow) \in Nat
      BY <2>1 DEF MinOf
    <2>3. new \in PollState /\ new.step = "recipients"
      BY <2>2 DEF TypeInv, NotificationsTypeOK, PollState, PollSteps
    <2>4. Step(p, new)
      BY <1>11 DEF listNotificationRequestLogs
    <2> HIDE DEF new
    <2> QED BY <1>11, <2>3, <2>4, StepTypes DEF listNotificationRequestLogs
  <1>12. ASSUME NEW p \in Polls, ListRecipients(p)
         PROVE  TypeInv'
    <2> DEFINE new == [api[p] EXCEPT !.step = "delivered", !.admins = AdminRecipients,
                                     !.live = LiveUsers]
    <2>1. AdminRecipients \subseteq Users /\ LiveUsers \subseteq Users
      BY NotificationsAssumption DEF AdminRecipients, LiveUsers
    <2>2. new \in PollState /\ new.step = "delivered"
      BY <2>1 DEF TypeInv, NotificationsTypeOK, PollState, PollSteps
    <2>3. Step(p, new)
      BY <1>12 DEF ListRecipients
    <2> HIDE DEF new
    <2> QED BY <1>12, <2>2, <2>3, StepTypes DEF ListRecipients
  <1>13. ASSUME NEW p \in Polls, AnswerPoll(p)
         PROVE  TypeInv'
    <2>1. Step(p, FreePoll) /\ log' = log
      BY <1>13 DEF AnswerPoll
    <2>2. CASE bot' = bot \/ bot' = IdleBot
      BY <2>1, <2>2, Resting DEF Step, TypeInv, NotificationsTypeOK, HandsFull, club, seen
    <2>3. ASSUME NEW page \in PageOf(Pending(api[p])),
                 bot' = [IdleBot EXCEPT !.step = "sending", !.batch = page]
          PROVE  TypeInv'
      <3>1. bot' \in BotState /\ bot'.step = "sending"
        BY <2>3, PendingKeys DEF IdleBot, BotState, BotSteps
      <3> QED BY <2>1, <3>1, Resting DEF Step, TypeInv, NotificationsTypeOK, HandsFull, club, seen
    <2> QED BY <1>13, <2>2, <2>3 DEF AnswerPoll
  <1>14. ASSUME NEW p \in Polls, FailPoll(p)
         PROVE  TypeInv'
    <2>1. Step(p, FreePoll) /\ log' = log /\ (bot' = bot \/ bot' = IdleBot)
      BY <1>14 DEF FailPoll
    <2> QED BY <2>1, Resting DEF Step, TypeInv, NotificationsTypeOK, HandsFull, club, seen
  <1>15. ASSUME NEW k \in bot.batch, NEW told \in BOOLEAN, SendArrives(k, told)
         PROVE  TypeInv'
    <2>1. k \in Key
      BY DEF TypeInv, NotificationsTypeOK, BotState
    <2>2. bot' \in BotState /\ bot'.key \in bot'.batch
      BY <1>15, BotTypes DEF SendArrives, BotSteps
    <2> QED BY <1>15, <2>1, <2>2 DEF SendArrives, TypeInv, NotificationsTypeOK, HandsFull, club,
        rows
  <1>16. ASSUME NEW k \in bot.batch, SendFails(k)
         PROVE  TypeInv'
    <2>1. k \in Key
      BY DEF TypeInv, NotificationsTypeOK, BotState
    <2>2. bot' \in BotState /\ bot'.key \in bot'.batch
      BY <1>16, BotTypes DEF SendFails, BotSteps
    <2> QED BY <1>16, <2>1, <2>2 DEF SendFails, TypeInv, NotificationsTypeOK, HandsFull, club,
        rows
  <1>17. ASSUME NEW told \in BOOLEAN, ReportDelivered(told)
         PROVE  TypeInv'
    <2>1. bot.key \in Key /\ bot.key \in bot.batch
      BY <1>17 DEF ReportDelivered, TypeInv, NotificationsTypeOK, HandsFull, BotState
    <2>2. UNCHANGED <<club, log, failed, api, orphans, seen>> /\ delivered' \subseteq Key
      BY <1>17, <2>1 DEF ReportDelivered, TypeInv, NotificationsTypeOK
    <2>3. CASE NextKey
      BY <2>2, <2>3, NextKeyTypes DEF TypeInv, NotificationsTypeOK, HandsFull, club, seen
    <2>4. CASE Bot("failing", bot.key)
      <3>1. bot' \in BotState /\ bot'.key \in bot'.batch
        BY <2>1, <2>4, BotTypes DEF BotSteps
      <3> QED BY <2>2, <3>1 DEF TypeInv, NotificationsTypeOK, HandsFull, club, seen
    <2> QED BY <1>17, <2>3, <2>4 DEF ReportDelivered
  <1>18. CASE ReportLost
    <2>1. bot' \in BotState /\ bot'.key \in bot'.batch
      BY <1>18, BotTypes DEF ReportLost, BotSteps, TypeInv, HandsFull
    <2>2. orphans' \subseteq Key
      BY <1>18 DEF ReportLost, TypeInv, NotificationsTypeOK, HandsFull, BotState
    <2> QED BY <1>18, <2>1, <2>2 DEF ReportLost, TypeInv, NotificationsTypeOK, HandsFull, club,
        rows, seen
  <1>19. CASE safeReportFailure
    <2>1. bot.key \in Key
      BY <1>19 DEF safeReportFailure, TypeInv, NotificationsTypeOK, HandsFull, BotState
    <2>2. failed' \subseteq Key
      BY <1>19, <2>1 DEF safeReportFailure, FailureRows, TypeInv, NotificationsTypeOK
    <2> QED BY <1>19, <2>2, NextKeyTypes DEF safeReportFailure, TypeInv, NotificationsTypeOK,
        HandsFull, club, seen
  <1>20. CASE Crash
    <2>1. orphans' \subseteq Key
      BY <1>20 DEF Crash, TypeInv, NotificationsTypeOK, HandsFull, BotState
    <2> QED BY <1>20, <2>1, Resting DEF Crash, TypeInv, NotificationsTypeOK, HandsFull, club,
        rows, seen
  <1>21. ASSUME NEW k \in orphans, OrphanArrives(k)
         PROVE  TypeInv'
    BY <1>21 DEF OrphanArrives, TypeInv, NotificationsTypeOK, HandsFull, club, seen
  <1>22. CASE GiveUp
    BY <1>22, Resting DEF GiveUp, TypeInv, NotificationsTypeOK, HandsFull, club, rows, seen
  <1> QED
    BY <1>1, <1>2, <1>3, <1>4, <1>5, <1>6, <1>7, <1>8, <1>9, <1>10, <1>11, <1>12, <1>13, <1>14,
       <1>15, <1>16, <1>17, <1>18, <1>19, <1>20, <1>21, <1>22, NextSplits DEF Actions

(* Every variable has its type, for every number of users, bookings, polls  *)
(* and failures (NotificationsTypeOK).                                      *)
THEOREM NotificationsTypeCorrect == Spec => []NotificationsTypeOK
  <1>1. Spec => []TypeInv
    BY InitTypes, NextTypes, PTL DEF Spec
  <1>2. TypeInv => NotificationsTypeOK
    BY DEF TypeInv
  <1> QED BY <1>1, <1>2, PTL

LEMMA TypesKept == Spec => []TypeInv
  BY InitTypes, NextTypes, PTL DEF Spec

-----------------------------------------------------------------------------
(* What has been reported has arrived. *)

(* The worker reports what Telegram has taken. *)
ArrivalInv == ReportedHasArrived /\ (bot.step = "reporting" => bot.key \in sent)

LEMMA InitArrival == Init => ArrivalInv
  BY DEF Init, ArrivalInv, ReportedHasArrived, IdleBot

LEMMA NextArrival == TypeInv /\ ArrivalInv /\ [Next]_vars => ArrivalInv'
  <1> SUFFICES ASSUME TypeInv, ArrivalInv, [Next]_vars PROVE ArrivalInv'
    OBVIOUS
  <1> USE DEF ArrivalInv, ReportedHasArrived
  <1>1. CASE UNCHANGED <<bot, delivered, orphans, sent>>
    BY <1>1
  <1>2. ASSUME UNCHANGED <<delivered, orphans, sent>>, bot'.step \in {"idle", "sending", "fetching"}
        PROVE  ArrivalInv'
    BY <1>2
  <1>3. ASSUME NEW p \in Polls, runTick(p) \/ AnswerPoll(p) \/ FailPoll(p)
        PROVE  ArrivalInv'
    <2>1. bot' = bot \/ bot'.step \in {"idle", "sending", "fetching"}
      <3>1. CASE runTick(p)
        BY <3>1 DEF runTick, IdleBot
      <3>2. CASE AnswerPoll(p)
        <4>1. \/ bot' = bot \/ bot' = IdleBot
              \/ \E page \in PageOf(Pending(api[p])) :
                   bot' = [IdleBot EXCEPT !.step = "sending", !.batch = page]
          BY <3>2 DEF AnswerPoll
        <4>2. \A page : [IdleBot EXCEPT !.step = "sending", !.batch = page].step = "sending"
          BY DEF IdleBot
        <4> QED BY <4>1, <4>2, Resting
      <3>3. CASE FailPoll(p)
        BY <3>3 DEF FailPoll, IdleBot
      <3> QED BY <1>3, <3>1, <3>2, <3>3
    <2>2. UNCHANGED <<delivered, orphans, sent>>
      BY <1>3 DEF runTick, AnswerPoll, FailPoll, Step, rows, seen
    <2> QED BY <1>1, <1>2, <2>1, <2>2
  <1>4. ASSUME NEW k \in bot.batch, NEW told \in BOOLEAN, SendArrives(k, told)
        PROVE  ArrivalInv'
    <2>1. bot'.key = k /\ k \in sent'
      BY <1>4 DEF SendArrives, Bot, TypeInv, NotificationsTypeOK, BotState
    <2> QED BY <1>4, <2>1 DEF SendArrives, rows
  <1>5. ASSUME NEW k \in bot.batch, SendFails(k)
        PROVE  ArrivalInv'
    <2>1. bot'.step = "failing"
      BY <1>5 DEF SendFails, Bot, TypeInv, NotificationsTypeOK, BotState
    <2> QED BY <1>5, <2>1 DEF SendFails, rows
  <1>6. ASSUME NEW told \in BOOLEAN, ReportDelivered(told)
        PROVE  ArrivalInv'
    <2>1. bot'.step \in {"idle", "sending", "failing"}
      BY <1>6, NextKeyTypes DEF ReportDelivered, Bot, TypeInv, NotificationsTypeOK, BotState
    <2> QED BY <1>6, <2>1 DEF ReportDelivered, seen
  <1>7. CASE ReportLost
    <2>1. bot'.step = "failing"
      BY <1>7 DEF ReportLost, Bot, TypeInv, NotificationsTypeOK, BotState
    <2> QED BY <1>7, <2>1 DEF ReportLost, rows, seen
  <1>8. CASE safeReportFailure
    BY <1>8, NextKeyTypes DEF safeReportFailure, seen
  <1>9. CASE Crash \/ GiveUp
    BY <1>9, Resting DEF Crash, GiveUp, rows, seen
  <1>10. ASSUME NEW k \in orphans, OrphanArrives(k)
         PROVE  ArrivalInv'
    BY <1>10 DEF OrphanArrives, seen
  <1>11. CASE Club
    BY <1>11, <1>1 DEF Club, createPendingBooking, adminMoveBooking, adminConfirmBooking,
       adminCancelBooking, cancelOwnBooking, SetStatus, Tick, Change, rows, seen
  <1>12. ASSUME NEW p \in Polls, PollNext(p), ~ AnswerPoll(p)
         PROVE  ArrivalInv'
    BY <1>12, <1>1 DEF PollNext, ListDue, NextDue, createReminderRequest,
       listNotificationRequestLogs, ListRecipients, Step, seen
  <1>13. CASE UNCHANGED vars
    BY <1>1, <1>13 DEF vars, rows, seen
  <1> QED
    BY <1>3, <1>4, <1>5, <1>6, <1>7, <1>8, <1>9, <1>10, <1>11, <1>12, <1>13 DEF Next, Work

(* The audit log never claims a delivery that did not happen, whatever is  *)
(* lost and however often the bot dies (ReportedHasArrived).               *)
THEOREM ReportsAreTrue == Spec => []ReportedHasArrived
  <1>1. Spec => []ArrivalInv
    BY TypesKept, InitArrival, NextArrival, PTL DEF Spec
  <1>2. ArrivalInv => ReportedHasArrived
    BY DEF ArrivalInv
  <1> QED BY <1>1, <1>2, PTL

-----------------------------------------------------------------------------
(* Nothing is sent again once its delivery is on record. *)

(* While the worker holds a key, the rest of its batch is as it was. *)
AgainInv ==
    /\ NothingSentAgain
    /\ bot.step \in {"reporting", "failing"} => (bot.batch \ {bot.key}) \cap delivered \subseteq orphans

LEMMA InitAgain == Init => AgainInv
  BY DEF Init, AgainInv, NothingSentAgain, IdleBot

(* The worker goes on after the key in hand was recorded or not. *)
LEMMA NextKeyAgain ==
    ASSUME TypeInv, AgainInv, bot.step \in {"reporting", "failing"}, NextKey,
           delivered' \subseteq delivered \cup {bot.key}, orphans' = orphans
    PROVE  AgainInv'
  <1>1. CASE bot' = IdleBot
    BY <1>1, Resting DEF AgainInv, NothingSentAgain
  <1>2. CASE bot' = [bot EXCEPT !.step = "sending", !.batch = bot.batch \ {bot.key}, !.key = None]
    <2>1. bot'.step = "sending" /\ bot'.batch = bot.batch \ {bot.key}
      BY <1>2 DEF TypeInv, NotificationsTypeOK, BotState
    <2> QED BY <2>1 DEF AgainInv, NothingSentAgain
  <1> QED BY <1>1, <1>2 DEF NextKey

LEMMA NextAgain == TypeInv /\ AgainInv /\ [Next]_vars => AgainInv'
  <1> SUFFICES ASSUME TypeInv, AgainInv, [Next]_vars PROVE AgainInv'
    OBVIOUS
  <1>1. ASSUME UNCHANGED <<bot, delivered, orphans>>
        PROVE  AgainInv'
    BY <1>1 DEF AgainInv, NothingSentAgain
  <1>2. ASSUME bot'.step \in {"idle", "fetching"}
        PROVE  AgainInv'
    BY <1>2 DEF AgainInv, NothingSentAgain
  <1>3. ASSUME NEW p \in Polls, AnswerPoll(p)
        PROVE  AgainInv'
    <2>1. UNCHANGED <<delivered, orphans>>
      BY <1>3 DEF AnswerPoll, Step
    <2>2. CASE bot' = bot \/ bot' = IdleBot
      BY <1>1, <1>2, <2>1, <2>2, Resting
    <2>3. ASSUME NEW page \in PageOf(Pending(api[p])),
                 bot' = [IdleBot EXCEPT !.step = "sending", !.batch = page]
          PROVE  AgainInv'
      <3>1. bot'.step = "sending" /\ bot'.batch = page
        BY <2>3 DEF IdleBot
      <3> QED BY <2>1, <3>1, PendingKeys DEF AgainInv, NothingSentAgain
    <2> QED BY <1>3, <2>2, <2>3 DEF AnswerPoll
  <1>4. ASSUME NEW p \in Polls, runTick(p) \/ FailPoll(p)
        PROVE  AgainInv'
    <2>1. UNCHANGED <<delivered, orphans>>
      BY <1>4 DEF runTick, FailPoll, Step, rows
    <2>2. CASE runTick(p)
      BY <1>2, <2>2 DEF runTick, IdleBot
    <2>3. CASE FailPoll(p)
      BY <1>1, <1>2, <2>1, <2>3, Resting DEF FailPoll
    <2> QED BY <1>4, <2>2, <2>3
  <1>5. ASSUME NEW k \in bot.batch, NEW step \in {"reporting", "failing"}, Bot(step, k),
               bot.step = "sending", UNCHANGED <<delivered, orphans>>
        PROVE  AgainInv'
    <2>1. bot'.step = step /\ bot'.batch = bot.batch
      BY <1>5 DEF Bot, TypeInv, NotificationsTypeOK, BotState
    <2> QED BY <1>5, <2>1 DEF AgainInv, NothingSentAgain
  <1>6. ASSUME NEW k \in bot.batch, NEW told \in BOOLEAN, SendArrives(k, told)
        PROVE  AgainInv'
    BY <1>5, <1>6 DEF SendArrives, rows
  <1>7. ASSUME NEW k \in bot.batch, SendFails(k)
        PROVE  AgainInv'
    BY <1>5, <1>7 DEF SendFails, rows
  <1>8. ASSUME Bot("failing", bot.key), bot.step = "reporting",
               delivered' \subseteq delivered \cup {bot.key}, orphans \subseteq orphans'
        PROVE  AgainInv'
    <2>1. bot'.step = "failing" /\ bot'.batch = bot.batch /\ bot'.key = bot.key
      BY <1>8 DEF Bot, TypeInv, NotificationsTypeOK, BotState
    <2> QED BY <1>8, <2>1 DEF AgainInv, NothingSentAgain
  <1>9. ASSUME NEW told \in BOOLEAN, ReportDelivered(told)
        PROVE  AgainInv'
    BY <1>8, <1>9, NextKeyAgain DEF ReportDelivered
  <1>10. CASE ReportLost
    BY <1>8, <1>10 DEF ReportLost, rows
  <1>11. CASE safeReportFailure
    BY <1>11, NextKeyAgain DEF safeReportFailure
  <1>12. CASE Crash \/ GiveUp
    BY <1>2, <1>12, Resting DEF Crash, GiveUp
  <1>13. ASSUME NEW k \in orphans, OrphanArrives(k)
         PROVE  AgainInv'
    BY <1>13 DEF OrphanArrives, AgainInv, NothingSentAgain
  <1>14. CASE Club
    BY <1>14, <1>1 DEF Club, createPendingBooking, adminMoveBooking, adminConfirmBooking,
       adminCancelBooking, cancelOwnBooking, SetStatus, Tick, Change, rows
  <1>15. ASSUME NEW p \in Polls, PollNext(p), ~ AnswerPoll(p)
         PROVE  AgainInv'
    BY <1>15, <1>1 DEF PollNext, ListDue, NextDue, createReminderRequest,
       listNotificationRequestLogs, ListRecipients, Step
  <1>16. CASE UNCHANGED vars
    BY <1>1, <1>16 DEF vars, rows
  <1> QED
    BY <1>3, <1>4, <1>6, <1>7, <1>9, <1>10, <1>11, <1>12, <1>13, <1>14, <1>15, <1>16
    DEF Next, Work

(* The worker never sends what the audit log calls delivered, but for      *)
(* reports that outlived a dead bot (NothingSentAgain).                    *)
THEOREM RecordedIsNotSentAgain == Spec => []NothingSentAgain
  <1>1. Spec => []AgainInv
    BY TypesKept, InitAgain, NextAgain, PTL DEF Spec
  <1>2. AgainInv => NothingSentAgain
    BY DEF AgainInv
  <1> QED BY <1>1, <1>2, PTL

-----------------------------------------------------------------------------
(* One reminder for each of the polls that overlap. *)

LEMMA InitReminder == Init => RemindersAreRaces
  BY DEF Init, RemindersAreRaces, Reminders

LEMMA Counts ==
    ASSUME TypeInv, NEW b
    PROVE  /\ IsFiniteSet(Reminders(b)) /\ Cardinality(Reminders(b)) \in Nat
           /\ IsFiniteSet(Inserting(b)) /\ Cardinality(Inserting(b)) \in Nat
           /\ Cardinality(Inserting(b)) <= Cardinality(Polls) /\ Cardinality(Polls) \in Nat
  <1>1. Reminders(b) \subseteq 1 .. Len(log) /\ Len(log) \in Nat
    BY DEF Reminders, TypeInv, NotificationsTypeOK
  <1>2. IsFiniteSet(1 .. Len(log))
    BY <1>1, FS_Interval
  <1>3. IsFiniteSet(Reminders(b))
    BY <1>1, <1>2, FS_Subset
  <1>4. Inserting(b) \subseteq Polls /\ IsFiniteSet(Polls)
    BY NotificationsAssumption DEF Inserting
  <1>5. IsFiniteSet(Inserting(b)) /\ Cardinality(Inserting(b)) <= Cardinality(Polls)
    BY <1>4, FS_Subset
  <1> QED BY <1>3, <1>4, <1>5, FS_CardinalityType

(* No reminder is added, and no poll is about to add one that was not      *)
(* before, but for bookings that have none.                                *)
LEMMA NoReminder ==
    ASSUME TypeInv, TypeInv', RemindersAreRaces,
           \A b \in Bookings : /\ Reminders(b)' = Reminders(b)
                               /\ Inserting(b)' \subseteq Inserting(b) \/ Reminders(b) = {}
    PROVE  RemindersAreRaces'
  <1> SUFFICES ASSUME NEW b \in Bookings, Reminders(b)' # {}
               PROVE  Cardinality(Reminders(b)') + Cardinality(Inserting(b)') <= Cardinality(Polls)
    BY DEF RemindersAreRaces
  <1>1. /\ Reminders(b)' = Reminders(b) /\ Inserting(b)' \subseteq Inserting(b)
        /\ Cardinality(Reminders(b)) + Cardinality(Inserting(b)) <= Cardinality(Polls)
    BY DEF RemindersAreRaces
  <1>2. Cardinality(Inserting(b)') <= Cardinality(Inserting(b)) /\ Cardinality(Inserting(b)') \in Nat
    BY <1>1, Counts, FS_Subset, FS_CardinalityType
  <1>3. Cardinality(Reminders(b)') = Cardinality(Reminders(b))
    BY <1>1
  <1> QED BY <1>1, <1>2, <1>3, Counts

(* What the log is after one more request. *)
LEMMA LogGrows ==
    ASSUME log \in Seq(Request), NEW row, log' = Append(log, row)
    PROVE  \A i \in 1 .. Len(log') :
             \/ i \in 1 .. Len(log) /\ log'[i] = log[i]
             \/ i = Len(log) + 1 /\ log'[i] = row
  <1>1. Len(log) \in Nat /\ Len(log') = Len(log) + 1
    BY SMT
  <1>2. ASSUME NEW i \in 1 .. Len(log) + 1
        PROVE  log'[i] = IF i = Len(log) + 1 THEN row ELSE log[i]
    BY SMT
  <1> QED BY <1>1, <1>2

LEMMA OldStays ==
    ASSUME log \in Seq(Request), NEW row, log' = Append(log, row)
    PROVE  \A i \in 1 .. Len(log) : i \in 1 .. Len(log') /\ log'[i] = log[i]
  <1>1. Len(log) \in Nat /\ Len(log') = Len(log) + 1
    BY SMT
  <1> QED BY <1>1, SMT

(* A request of another kind changes nothing. *)
LEMMA ChangeReminder ==
    ASSUME TypeInv, TypeInv', RemindersAreRaces, NEW b, NEW status, NEW start, NEW kind, NEW u,
           kind # "booking_reminder_user", Change(b, status, start, kind, u)
    PROVE  RemindersAreRaces'
  <1> DEFINE row == [kind |-> kind, booking |-> b, to |-> u]
  <1>1. log \in Seq(Request)
    BY DEF TypeInv, NotificationsTypeOK
  <1>2. log' = Append(log, row) /\ api' = api
    BY DEF Change, Post
  <1>3. row.kind # "booking_reminder_user"
    OBVIOUS
  <1> HIDE DEF row
  <1>4. \A i \in 1 .. Len(log') :
          \/ i \in 1 .. Len(log) /\ log'[i] = log[i]
          \/ i = Len(log) + 1 /\ log'[i] = row
    BY <1>1, <1>2, LogGrows
  <1>5. \A i \in 1 .. Len(log) : i \in 1 .. Len(log') /\ log'[i] = log[i]
    BY <1>1, <1>2, OldStays
  <1>6. \A c : Reminders(c)' = Reminders(c) /\ Inserting(c)' = Inserting(c)
    BY <1>2, <1>3, <1>4, <1>5 DEF Reminders, Inserting
  <1> QED BY <1>6, NoReminder

(* The insert: one reminder more, and one poll less that is about to. *)
LEMMA CreateReminder ==
    ASSUME TypeInv, TypeInv', RemindersAreRaces, NEW p \in Polls, createReminderRequest(p)
    PROVE  RemindersAreRaces'
  <1> DEFINE b == api[p].booking
             row == [kind |-> "booking_reminder_user", booking |-> b, to |-> OwnerOf[b]]
             n == Len(log) + 1
  <1>1. log \in Seq(Request) /\ n \notin 1 .. Len(log)
    BY DEF TypeInv, NotificationsTypeOK
  <1>2. log' = Append(log, row) /\ api[p].step = "create"
    BY DEF createReminderRequest, Post
  <1>3. row.booking = b /\ row.kind = "booking_reminder_user"
    OBVIOUS
  <1>4. api'[p].step = "exists" /\ \A q \in Polls \ {p} : api'[q] = api[q]
    BY DEF createReminderRequest, Step, TypeInv, NotificationsTypeOK, PollState
  <1> HIDE DEF row
  <1>5. \A i \in 1 .. Len(log') : \/ i \in 1 .. Len(log) /\ log'[i] = log[i]
                                  \/ i = n /\ log'[i] = row
    BY <1>1, <1>2, LogGrows
  <1>6. \A i \in 1 .. Len(log) : i \in 1 .. Len(log') /\ log'[i] = log[i]
    BY <1>1, <1>2, OldStays
  <1>7. n \in 1 .. Len(log') /\ log'[n] = row
    BY <1>1, <1>2, SMT
  <1> SUFFICES ASSUME NEW c \in Bookings, Reminders(c)' # {}
               PROVE  Cardinality(Reminders(c)') + Cardinality(Inserting(c)') <= Cardinality(Polls)
    BY DEF RemindersAreRaces
  <1>8. CASE c # b
    <2>1. Reminders(c)' = Reminders(c)
      BY <1>3, <1>5, <1>6, <1>8 DEF Reminders
    <2>2. Inserting(c)' = Inserting(c)
      BY <1>4, <1>8 DEF Inserting
    <2> QED BY <2>1, <2>2 DEF RemindersAreRaces
  <1>9. CASE c = b
    <2>1. Reminders(c)' = Reminders(c) \cup {n}
      BY <1>3, <1>5, <1>6, <1>7, <1>9 DEF Reminders
    <2>2. n \notin Reminders(c)
      BY <1>1 DEF Reminders
    <2>3. p \in Inserting(c) /\ Inserting(c)' = Inserting(c) \ {p}
      BY <1>2, <1>4, <1>9 DEF Inserting
    <2>4. Cardinality(Reminders(c)') = Cardinality(Reminders(c)) + 1
      BY <2>1, <2>2, Counts, FS_AddElement
    <2>5. Cardinality(Inserting(c)') = Cardinality(Inserting(c)) - 1
      BY <2>3, Counts, FS_RemoveElement
    <2>6. Cardinality(Reminders(c)) + Cardinality(Inserting(c)) <= Cardinality(Polls)
      <3>1. CASE Reminders(c) = {}
        <4>1. Cardinality(Reminders(c)) = 0
          BY <3>1, FS_EmptySet
        <4> QED BY <4>1, Counts
      <3>2. CASE Reminders(c) # {}
        BY <3>2 DEF RemindersAreRaces
      <3> QED BY <3>1, <3>2
    <2> QED BY <2>4, <2>5, <2>6, Counts
  <1> QED BY <1>8, <1>9

LEMMA NextReminder ==
    TypeInv /\ TypeInv' /\ RemindersAreRaces /\ [Next]_vars => RemindersAreRaces'
  <1> SUFFICES ASSUME TypeInv, TypeInv', RemindersAreRaces, [Next]_vars
               PROVE  RemindersAreRaces'
    OBVIOUS
  <1>1. ASSUME UNCHANGED log,
               \A p \in Polls : api'[p].step = "create" => api[p].step = "create"
                                                          /\ api'[p].booking = api[p].booking
        PROVE  RemindersAreRaces'
    BY <1>1, NoReminder DEF Reminders, Inserting
  <1>2. ASSUME UNCHANGED <<log, api>>
        PROVE  RemindersAreRaces'
    BY <1>2, NoReminder DEF Reminders, Inserting
  <1>3. CASE Club
    <2>1. ASSUME NEW b \in Bookings, NEW start \in Starts,
                 createPendingBooking(b, start) \/ adminMoveBooking(b, start)
          PROVE  RemindersAreRaces'
      <3>1. CASE createPendingBooking(b, start)
        BY <3>1, ChangeReminder DEF createPendingBooking
      <3>2. CASE adminMoveBooking(b, start)
        BY <3>2, ChangeReminder DEF adminMoveBooking
      <3> QED BY <2>1, <3>1, <3>2
    <2>2. ASSUME NEW b \in Bookings, adminConfirmBooking(b) \/ adminCancelBooking(b)
          PROVE  RemindersAreRaces'
      <3>1. CASE adminConfirmBooking(b)
        BY <3>1, ChangeReminder DEF adminConfirmBooking
      <3>2. CASE adminCancelBooking(b)
        BY <3>2, ChangeReminder DEF adminCancelBooking
      <3> QED BY <2>2, <3>1, <3>2
    <2> QED BY <1>2, <1>3, <2>1, <2>2 DEF Club, cancelOwnBooking, SetStatus, Tick, rows
  <1>4. ASSUME NEW p \in Polls, NEW new, Step(p, new), UNCHANGED log, new.step # "create"
        PROVE  RemindersAreRaces'
    <2>1. api'[p].step # "create" /\ \A q \in Polls \ {p} : api'[q] = api[q]
      BY <1>4 DEF Step, TypeInv, NotificationsTypeOK
    <2> QED BY <1>1, <1>4, <2>1
  <1>6. ASSUME NEW p \in Polls, NextDue(p)
        PROVE  RemindersAreRaces'
    <2>1. CASE Step(p, [api[p] EXCEPT !.step = "logs"])
      <3>1. [api[p] EXCEPT !.step = "logs"].step = "logs"
        BY DEF TypeInv, NotificationsTypeOK, PollState
      <3> QED BY <1>4, <1>6, <2>1, <3>1 DEF NextDue
    <2>2. ASSUME NEW b \in api[p].due, Step(p, [api[p] EXCEPT !.due = @ \ {b}])
          PROVE  RemindersAreRaces'
      <3>1. [api[p] EXCEPT !.due = @ \ {b}].step = "exists"
        BY <1>6 DEF NextDue, TypeInv, NotificationsTypeOK, PollState
      <3> QED BY <1>4, <1>6, <2>2, <3>1 DEF NextDue
    <2>3. ASSUME NEW b \in api[p].due, ~ hasReminderRequest(b),
                 Step(p, [api[p] EXCEPT !.step = "create", !.booking = b])
          PROVE  RemindersAreRaces'
      <3>1. api'[p].booking = b /\ \A q \in Polls \ {p} : api'[q] = api[q]
        BY <2>3 DEF Step, TypeInv, NotificationsTypeOK, PollState
      <3>2. \A c : Reminders(c)' = Reminders(c)
        BY <1>6 DEF NextDue, Reminders
      <3>3. Reminders(b) = {}
        BY <2>3 DEF hasReminderRequest, Reminders
      <3>4. \A c \in Bookings \ {b} : Inserting(c)' \subseteq Inserting(c)
        BY <3>1 DEF Inserting
      <3> QED BY <3>2, <3>3, <3>4, NoReminder
    <2> QED BY <1>6, <2>1, <2>2, <2>3 DEF NextDue
  <1>7. ASSUME NEW p \in Polls, ListDue(p) \/ listNotificationRequestLogs(p) \/ ListRecipients(p)
        PROVE  RemindersAreRaces'
    <2>1. api[p] \in PollState
      BY DEF TypeInv, NotificationsTypeOK
    <2>2. CASE ListDue(p)
      <3>1. PICK due \in SUBSET Due : Step(p, [api[p] EXCEPT !.step = "exists", !.due = due])
        BY <2>2 DEF ListDue
      <3>2. [api[p] EXCEPT !.step = "exists", !.due = due].step = "exists"
        BY <2>1 DEF PollState
      <3> QED BY <1>4, <2>2, <3>1, <3>2 DEF ListDue
    <2>3. CASE listNotificationRequestLogs(p)
      <3>1. [api[p] EXCEPT !.step = "recipients",
                           !.window = MinOf(Len(log), RequestWindow)].step = "recipients"
        BY <2>1 DEF PollState
      <3> QED BY <1>4, <2>3, <3>1 DEF listNotificationRequestLogs
    <2>4. CASE ListRecipients(p)
      <3>1. [api[p] EXCEPT !.step = "delivered", !.admins = AdminRecipients,
                           !.live = LiveUsers].step = "delivered"
        BY <2>1 DEF PollState
      <3> QED BY <1>4, <2>4, <3>1 DEF ListRecipients
    <2> QED BY <1>7, <2>2, <2>3, <2>4
  <1>8. ASSUME NEW p \in Polls, AnswerPoll(p) \/ FailPoll(p)
        PROVE  RemindersAreRaces'
    BY <1>4, <1>8, Resting DEF AnswerPoll, FailPoll
  <1>9. ASSUME NEW p \in Polls, runTick(p)
        PROVE  RemindersAreRaces'
    <2>1. api'[p].step = "due" /\ \A q \in Polls \ {p} : api'[q] = api[q]
      BY <1>9 DEF runTick, TypeInv, NotificationsTypeOK, PollState
    <2> QED BY <1>1, <1>9, <2>1 DEF runTick, rows
  <1>10. CASE Work
    BY <1>2, <1>10 DEF Work, SendArrives, SendFails, ReportDelivered, ReportLost,
       safeReportFailure, rows
  <1>11. CASE Crash \/ GiveUp \/ \E k \in orphans : OrphanArrives(k)
    BY <1>2, <1>11 DEF Crash, GiveUp, OrphanArrives, rows
  <1>12. CASE UNCHANGED vars
    BY <1>2, <1>12 DEF vars, rows
  <1> QED
    BY <1>3, <1>6, <1>7, <1>8, <1>9, <1>10, <1>11, <1>12, CreateReminder DEF Next, PollNext

(* However often the bot gives up a poll and begins the next, a booking is *)
(* announced by no more reminders than polls ran at the same time: one, if *)
(* no two of them did (RemindersAreRaces).                                 *)
THEOREM OneReminderAPoll == Spec => []RemindersAreRaces
  <1>1. TypeInv /\ TypeInv' /\ RemindersAreRaces /\ [Next]_vars => RemindersAreRaces'
    BY NextReminder
  <1> QED BY <1>1, TypesKept, InitReminder, PTL DEF Spec

-----------------------------------------------------------------------------
(* Messages to one user are tried in the order of their requests. *)

(* The messages to the same user that come before k are all in keys. *)
Before(k, keys) ==
    \A i \in 1 .. k.request : log[i].to = k.to => [request |-> i, to |-> k.to] \in keys

(* What a poll has read is part of the log, and an active member of the    *)
(* staff is not deleted; that a request to the staff names nobody makes    *)
(* sure that no earlier message to a user is left out of a page.           *)
ReadInv ==
    /\ \A i \in 1 .. Len(log) : log[i].kind = "new_booking_request_admin" => log[i].to = None
    /\ \A p \in Polls : api[p].window <= Len(log) /\ api[p].admins \subseteq api[p].live

(* What the worker has tried and what it is about to try are each without  *)
(* gaps, so a key of the batch that is the oldest leaves none.             *)
OrderInv ==
    /\ sent \subseteq tried
    /\ bot.step \in {"reporting", "failing"} => bot.key \in tried
    /\ \A k \in tried \cup bot.batch : k.request <= Len(log)
    /\ \A k \in tried : Before(k, tried)
    /\ \A k \in bot.batch : Before(k, tried \cup bot.batch)

LEMMA InitRead == Init => ReadInv
  BY NotificationsAssumption DEF Init, ReadInv, FreePoll

LEMMA InitOrder == Init => OrderInv
  BY DEF Init, OrderInv, IdleBot

(* A request that is added changes nothing that was read before. *)
LEMMA GrowsRead ==
    ASSUME TypeInv, ReadInv, NEW row, log' = Append(log, row),
           row.kind = "new_booking_request_admin" => row.to = None,
           \A p \in Polls : /\ api'[p].window = api[p].window
                            /\ api'[p].admins = api[p].admins /\ api'[p].live = api[p].live
    PROVE  ReadInv'
  <1>1. log \in Seq(Request)
    BY DEF TypeInv, NotificationsTypeOK
  <1>2. \A i \in 1 .. Len(log') : \/ i \in 1 .. Len(log) /\ log'[i] = log[i]
                                  \/ i = Len(log) + 1 /\ log'[i] = row
    BY <1>1, LogGrows
  <1>3. Len(log) \in Nat /\ Len(log') = Len(log) + 1
    BY <1>1, SMT
  <1>4. \A i \in 1 .. Len(log') : log'[i].kind = "new_booking_request_admin" => log'[i].to = None
    BY <1>2 DEF ReadInv
  <1>5. \A n \in Nat : n <= Len(log) => n <= Len(log')
    BY <1>3, SMT
  <1>6. \A p \in Polls : api[p].window \in Nat
    BY DEF TypeInv, NotificationsTypeOK, PollState
  <1>7. \A p \in Polls : api'[p].window <= Len(log') /\ api'[p].admins \subseteq api'[p].live
    BY <1>5, <1>6 DEF ReadInv
  <1> QED BY <1>4, <1>7 DEF ReadInv

(* Nor does it come before what has been tried. *)
LEMMA GrowsOrder ==
    ASSUME TypeInv, OrderInv, NEW row, log' = Append(log, row), UNCHANGED <<bot, sent, tried>>
    PROVE  OrderInv'
  <1>1. log \in Seq(Request) /\ tried \cup bot.batch \subseteq Key
    BY DEF TypeInv, NotificationsTypeOK, BotState
  <1>2. Len(log) \in Nat /\ Len(log') = Len(log) + 1
    BY <1>1, SMT
  <1>3. \A i \in 1 .. Len(log) : log'[i] = log[i]
    BY <1>1, SMT
  <1>4. ASSUME NEW k \in tried \cup bot.batch
        PROVE  /\ k.request <= Len(log')
               /\ \A i \in 1 .. k.request : log'[i] = log[i]
    <2>1. k.request \in Nat /\ k.request <= Len(log)
      BY <1>1 DEF Key, OrderInv
    <2>2. k.request <= Len(log') /\ 1 .. k.request \subseteq 1 .. Len(log)
      BY <1>2, <2>1
    <2> QED BY <1>3, <2>2
  <1> QED BY <1>4 DEF OrderInv, Before

(* A page leaves out nothing that comes before one of its keys.            *)
LEMMA PageOrder ==
    ASSUME TypeInv, ArrivalInv, ReadInv, OrderInv,
           NEW p \in Polls, NEW page \in PageOf(Pending(api[p])), NEW k \in page
    PROVE  k.request <= Len(log) /\ Before(k, tried \cup page)
  <1>1. /\ api[p].window \in Nat /\ api[p].window <= Len(log) /\ Len(log) \in Nat
        /\ api[p].admins \subseteq api[p].live /\ log \in Seq(Request)
    BY DEF ReadInv, TypeInv, NotificationsTypeOK, PollState
  <1>2. k \in Candidates(api[p])
    BY PageWithin DEF Pending
  <1>3. /\ k.request \in 1 .. api[p].window /\ k.to \in Users
        /\ k.to \in Recipients(k.request, api[p].admins, api[p].live)
        /\ k = [request |-> k.request, to |-> k.to]
    BY <1>2 DEF Candidates
  <1>4. k.to \in api[p].live
    BY <1>1, <1>3 DEF Recipients
  <1>5. k.request <= Len(log) /\ 1 .. k.request \subseteq 1 .. api[p].window
        /\ 1 .. k.request \subseteq 1 .. Len(log)
    BY <1>1, <1>3
  <1>6. ASSUME NEW i \in 1 .. k.request, log[i].to = k.to
        PROVE  [request |-> i, to |-> k.to] \in tried \cup page
    <2> DEFINE other == [request |-> i, to |-> k.to]
    <2>1. log[i].kind # "new_booking_request_admin"
      BY <1>3, <1>5, <1>6, NotificationsAssumption DEF ReadInv
    <2>2. other \in Candidates(api[p])
      BY <1>3, <1>4, <1>5, <1>6, <2>1 DEF Candidates, Recipients
    <2>3. CASE other \in delivered
      BY <2>3 DEF ArrivalInv, ReportedHasArrived, OrderInv
    <2>4. CASE other \in Pending(api[p]) \ page
      <3>1. k.request <= other.request
        BY <2>4 DEF PageOf
      <3>2. other.request = i /\ other.to = k.to
        OBVIOUS
      <3>3. i = k.request
        BY <1>3, <3>1, <3>2
      <3> QED BY <1>3, <3>3
    <2> QED BY <2>2, <2>3, <2>4 DEF Pending
  <1> QED BY <1>5, <1>6 DEF Before

(* The oldest key of the batch is tried. *)
LEMMA TriesOrder ==
    ASSUME TypeInv, OrderInv, NEW k \in Oldest(bot.batch), NEW step \in BotSteps, Bot(step, k),
           tried' = tried \cup {k}, sent' \subseteq sent \cup {k}, log' = log
    PROVE  OrderInv'
  <1>1. k \in bot.batch /\ k \in Key /\ bot.batch \subseteq Key /\ tried \subseteq Key
    BY DEF Oldest, TypeInv, NotificationsTypeOK, BotState
  <1>2. bot'.batch = bot.batch /\ bot'.key = k
    BY DEF Bot, TypeInv, NotificationsTypeOK, BotState
  <1>3. Before(k, tried')
    <2> SUFFICES ASSUME NEW i \in 1 .. k.request, log[i].to = k.to
                 PROVE  [request |-> i, to |-> k.to] \in tried'
      BY DEF Before
    <2> DEFINE other == [request |-> i, to |-> k.to]
    <2>1. other \in tried \cup bot.batch
      BY <1>1 DEF OrderInv, Before
    <2>2. ASSUME other \in bot.batch
          PROVE  other = k
      <3>1. k.request <= other.request
        BY <2>2 DEF Oldest
      <3>2. other.request = i /\ k = [request |-> k.request, to |-> k.to] /\ k.request \in Nat
        BY <1>1 DEF Key
      <3>3. i = k.request
        BY <3>1, <3>2
      <3> QED BY <3>2, <3>3
    <2> QED BY <2>1, <2>2
  <1>4. \A other \in tried' : Before(other, tried')
    BY <1>3 DEF OrderInv, Before
  <1>5. \A other \in bot'.batch : Before(other, tried' \cup bot'.batch)
    BY <1>2 DEF OrderInv, Before
  <1>6. \A other \in tried' \cup bot'.batch : other.request <= Len(log')
    BY <1>1, <1>2 DEF OrderInv
  <1>7. sent' \subseteq tried'
    BY DEF OrderInv
  <1> QED BY <1>2, <1>4, <1>5, <1>6, <1>7 DEF OrderInv, Before

(* The key in hand has been tried, so the batch may lose it. *)
LEMMA DropsOrder ==
    ASSUME TypeInv, OrderInv, bot.step \in {"reporting", "failing"},
           NextKey \/ Bot("failing", bot.key), UNCHANGED <<log, sent, tried>>
    PROVE  OrderInv'
  <1>1. CASE bot' = IdleBot
    BY <1>1, Resting DEF OrderInv, Before, IdleBot
  <1>2. CASE bot' = [bot EXCEPT !.step = "sending", !.batch = bot.batch \ {bot.key}, !.key = None]
    <2>1. bot'.step = "sending" /\ bot'.batch = bot.batch \ {bot.key}
      BY <1>2 DEF TypeInv, NotificationsTypeOK, BotState
    <2>2. tried \cup bot'.batch = tried \cup bot.batch
      BY <2>1 DEF OrderInv
    <2> QED BY <2>1, <2>2 DEF OrderInv, Before
  <1>3. CASE Bot("failing", bot.key)
    <2>1. bot'.step = "failing" /\ bot'.batch = bot.batch /\ bot'.key = bot.key
      BY <1>3 DEF Bot, TypeInv, NotificationsTypeOK, BotState
    <2> QED BY <2>1 DEF OrderInv, Before
  <1> QED BY <1>1, <1>2, <1>3 DEF NextKey

(* A poll reads the log and the accounts as they are. *)
LEMMA NextRead == TypeInv /\ ReadInv /\ [Next]_vars => ReadInv'
  <1> SUFFICES ASSUME TypeInv, ReadInv, [Next]_vars PROVE ReadInv'
    OBVIOUS
  <1>0. \A p \in Polls : api[p] \in PollState
    BY DEF TypeInv, NotificationsTypeOK
  <1>1. ASSUME UNCHANGED <<log, api>>
        PROVE  ReadInv'
    BY <1>1 DEF ReadInv
  <1>2. ASSUME NEW p \in Polls, NEW new, Step(p, new), UNCHANGED log,
               new.window = api[p].window, new.admins = api[p].admins, new.live = api[p].live
        PROVE  ReadInv'
    BY <1>2 DEF ReadInv, Step, TypeInv, NotificationsTypeOK
  <1>3. CASE Club
    <2>1. ASSUME NEW b, NEW status, NEW start, NEW kind, NEW u, Change(b, status, start, kind, u),
                 kind = "new_booking_request_admin" => u = None
          PROVE  ReadInv'
      BY <2>1, GrowsRead DEF Change, Post
    <2>2. ASSUME NEW b \in Bookings, NEW start \in Starts,
                 createPendingBooking(b, start) \/ adminMoveBooking(b, start)
          PROVE  ReadInv'
      BY <2>1, <2>2 DEF createPendingBooking, adminMoveBooking
    <2>3. ASSUME NEW b \in Bookings, adminConfirmBooking(b) \/ adminCancelBooking(b)
          PROVE  ReadInv'
      BY <2>1, <2>3 DEF adminConfirmBooking, adminCancelBooking
    <2> QED BY <1>1, <1>3, <2>2, <2>3 DEF Club, cancelOwnBooking, SetStatus, Tick, rows
  <1>4. ASSUME NEW p \in Polls, ListDue(p)
        PROVE  ReadInv'
    <2>1. PICK due \in SUBSET Due : Step(p, [api[p] EXCEPT !.step = "exists", !.due = due])
      BY <1>4 DEF ListDue
    <2> DEFINE new == [api[p] EXCEPT !.step = "exists", !.due = due]
    <2>2. new.window = api[p].window /\ new.admins = api[p].admins /\ new.live = api[p].live
      BY <1>0 DEF PollState
    <2> QED BY <1>2, <1>4, <2>1, <2>2 DEF ListDue
  <1>5. ASSUME NEW p \in Polls, NextDue(p)
        PROVE  ReadInv'
    <2>1. PICK new : /\ Step(p, new) /\ new.window = api[p].window
                     /\ new.admins = api[p].admins /\ new.live = api[p].live
      <3>1. CASE Step(p, [api[p] EXCEPT !.step = "logs"])
        BY <1>0, <3>1 DEF PollState
      <3>2. ASSUME NEW b, Step(p, [api[p] EXCEPT !.due = @ \ {b}])
            PROVE  \E new : /\ Step(p, new) /\ new.window = api[p].window
                            /\ new.admins = api[p].admins /\ new.live = api[p].live
        BY <1>0, <3>2 DEF PollState
      <3>3. ASSUME NEW b, Step(p, [api[p] EXCEPT !.step = "create", !.booking = b])
            PROVE  \E new : /\ Step(p, new) /\ new.window = api[p].window
                            /\ new.admins = api[p].admins /\ new.live = api[p].live
        <4> DEFINE created == [api[p] EXCEPT !.step = "create", !.booking = b]
        <4>1. /\ created.window = api[p].window
              /\ created.admins = api[p].admins /\ created.live = api[p].live
          BY <1>0 DEF PollState
        <4>2. Step(p, created)
          BY <3>3
        <4> HIDE DEF created
        <4> QED BY <4>1, <4>2
      <3> QED BY <1>5, <3>1, <3>2, <3>3 DEF NextDue
    <2> QED BY <1>2, <1>5, <2>1 DEF NextDue
  <1>6. ASSUME NEW p \in Polls, createReminderRequest(p)
        PROVE  ReadInv'
    <2> DEFINE b == api[p].booking
               new == [api[p] EXCEPT !.step = "exists", !.due = @ \ {b}, !.booking = None]
               row == [kind |-> "booking_reminder_user", booking |-> b, to |-> OwnerOf[b]]
    <2>1. log' = Append(log, row) /\ row.kind # "new_booking_request_admin"
      BY <1>6 DEF createReminderRequest, Post
    <2>2. new.window = api[p].window /\ new.admins = api[p].admins /\ new.live = api[p].live
      BY <1>0 DEF PollState
    <2>3. api' = [api EXCEPT ![p] = new]
      BY <1>6 DEF createReminderRequest, Step
    <2> HIDE DEF b, new, row
    <2>4. \A q \in Polls : /\ api'[q].window = api[q].window
                           /\ api'[q].admins = api[q].admins /\ api'[q].live = api[q].live
      BY <2>2, <2>3 DEF TypeInv, NotificationsTypeOK
    <2> QED BY <2>1, <2>4, GrowsRead
  <1>7. ASSUME NEW p \in Polls, listNotificationRequestLogs(p)
        PROVE  ReadInv'
    <2> DEFINE new == [api[p] EXCEPT !.step = "recipients",
                                     !.window = MinOf(Len(log), RequestWindow)]
    <2>1. Len(log) \in Nat /\ RequestWindow \in Nat
      BY NotificationsAssumption DEF RequestWindow, MaxOf, TypeInv, NotificationsTypeOK
    <2>2. MinOf(Len(log), RequestWindow) <= Len(log)
      BY <2>1 DEF MinOf
    <2>3. new.window = MinOf(Len(log), RequestWindow) /\ new.admins = api[p].admins
          /\ new.live = api[p].live
      BY <1>0 DEF PollState
    <2>4. api' = [api EXCEPT ![p] = new] /\ log' = log
      BY <1>7 DEF listNotificationRequestLogs, Step
    <2> HIDE DEF new
    <2> QED BY <2>2, <2>3, <2>4 DEF ReadInv, TypeInv, NotificationsTypeOK
  <1>8. ASSUME NEW p \in Polls, ListRecipients(p)
        PROVE  ReadInv'
    <2> DEFINE new == [api[p] EXCEPT !.step = "delivered", !.admins = AdminRecipients,
                                     !.live = LiveUsers]
    <2>1. AdminRecipients \subseteq LiveUsers
      BY NotificationsAssumption DEF AdminRecipients, LiveUsers
    <2>2. new.window = api[p].window /\ new.admins \subseteq new.live
      BY <1>0, <2>1 DEF PollState
    <2>3. api' = [api EXCEPT ![p] = new] /\ log' = log
      BY <1>8 DEF ListRecipients, Step
    <2> HIDE DEF new
    <2> QED BY <2>2, <2>3 DEF ReadInv, TypeInv, NotificationsTypeOK
  <1>9. ASSUME NEW p \in Polls, AnswerPoll(p) \/ FailPoll(p)
        PROVE  ReadInv'
    <2>1. api' = [api EXCEPT ![p] = FreePoll] /\ log' = log
      BY <1>9 DEF AnswerPoll, FailPoll, Step
    <2>2. FreePoll.window <= Len(log) /\ FreePoll.admins \subseteq FreePoll.live
      BY DEF FreePoll, TypeInv, NotificationsTypeOK
    <2> QED BY <2>1, <2>2 DEF ReadInv, TypeInv, NotificationsTypeOK
  <1>10. ASSUME NEW p \in Polls, runTick(p)
         PROVE  ReadInv'
    <2>1. \A q \in Polls : /\ api'[q].window = api[q].window
                           /\ api'[q].admins = api[q].admins /\ api'[q].live = api[q].live
      BY <1>10 DEF runTick, TypeInv, NotificationsTypeOK, PollState
    <2> QED BY <1>10, <2>1 DEF runTick, rows, ReadInv
  <1>11. CASE Work
    BY <1>1, <1>11 DEF Work, SendArrives, SendFails, ReportDelivered, ReportLost,
       safeReportFailure, rows
  <1>12. CASE Crash \/ GiveUp \/ \E k \in orphans : OrphanArrives(k)
    BY <1>1, <1>12 DEF Crash, GiveUp, OrphanArrives, rows
  <1>13. CASE UNCHANGED vars
    BY <1>1, <1>13 DEF vars, rows
  <1> QED
    BY <1>3, <1>4, <1>5, <1>6, <1>7, <1>8, <1>9, <1>10, <1>11, <1>12, <1>13 DEF Next, PollNext

LEMMA NextOrder ==
    TypeInv /\ ArrivalInv /\ ReadInv /\ OrderInv /\ [Next]_vars => OrderInv'
  <1> SUFFICES ASSUME TypeInv, ArrivalInv, ReadInv, OrderInv, [Next]_vars PROVE OrderInv'
    OBVIOUS
  <1>1. ASSUME UNCHANGED <<log, bot, sent, tried>>
        PROVE  OrderInv'
    BY <1>1 DEF OrderInv, Before
  <1>2. ASSUME UNCHANGED <<log, sent, tried>>, bot'.step \in {"idle", "fetching"}, bot'.batch = {}
        PROVE  OrderInv'
    BY <1>2 DEF OrderInv, Before
  <1>3. CASE Club
    <2>1. ASSUME NEW b, NEW status, NEW start, NEW kind, NEW u, Change(b, status, start, kind, u)
          PROVE  OrderInv'
      BY <2>1, GrowsOrder DEF Change, Post, seen
    <2> QED BY <1>1, <1>3, <2>1 DEF Club, createPendingBooking, adminMoveBooking,
            adminConfirmBooking, adminCancelBooking, cancelOwnBooking, SetStatus, Tick, rows, seen
  <1>4. ASSUME NEW p \in Polls, createReminderRequest(p)
        PROVE  OrderInv'
    BY <1>4, GrowsOrder DEF createReminderRequest, Post, Step, seen
  <1>5. ASSUME NEW p \in Polls,
               ListDue(p) \/ NextDue(p) \/ listNotificationRequestLogs(p) \/ ListRecipients(p)
        PROVE  OrderInv'
    BY <1>1, <1>5 DEF ListDue, NextDue, listNotificationRequestLogs, ListRecipients, Step, seen
  <1>6. ASSUME NEW p \in Polls, AnswerPoll(p)
        PROVE  OrderInv'
    <2>1. UNCHANGED <<log, sent, tried>>
      BY <1>6 DEF AnswerPoll, Step, seen
    <2>2. CASE bot' = bot \/ bot' = IdleBot
      BY <1>1, <1>2, <2>1, <2>2 DEF IdleBot
    <2>3. ASSUME NEW page \in PageOf(Pending(api[p])),
                 bot' = [IdleBot EXCEPT !.step = "sending", !.batch = page]
          PROVE  OrderInv'
      <3>1. bot'.step = "sending" /\ bot'.batch = page
        BY <2>3 DEF IdleBot
      <3>2. \A k \in page : k.request <= Len(log) /\ Before(k, tried \cup page)
        BY PageOrder
      <3> QED BY <2>1, <3>1, <3>2 DEF OrderInv, Before
    <2> QED BY <1>6, <2>2, <2>3 DEF AnswerPoll
  <1>7. ASSUME NEW p \in Polls, runTick(p) \/ FailPoll(p)
        PROVE  OrderInv'
    <2>1. CASE runTick(p)
      BY <1>2, <2>1 DEF runTick, IdleBot, rows, seen
    <2>2. CASE FailPoll(p)
      BY <1>1, <1>2, <2>2 DEF FailPoll, Step, IdleBot, seen
    <2> QED BY <1>7, <2>1, <2>2
  <1>8. ASSUME NEW k \in bot.batch, NEW told \in BOOLEAN, SendArrives(k, told)
        PROVE  OrderInv'
    BY <1>8, TriesOrder DEF SendArrives, BotSteps, rows
  <1>9. ASSUME NEW k \in bot.batch, SendFails(k)
        PROVE  OrderInv'
    BY <1>9, TriesOrder DEF SendFails, BotSteps, rows
  <1>10. ASSUME NEW told \in BOOLEAN, ReportDelivered(told)
         PROVE  OrderInv'
    BY <1>10, DropsOrder DEF ReportDelivered, seen
  <1>11. CASE ReportLost
    BY <1>11, DropsOrder DEF ReportLost, rows, seen
  <1>12. CASE safeReportFailure
    BY <1>12, DropsOrder DEF safeReportFailure, seen
  <1>13. CASE Crash \/ GiveUp
    BY <1>2, <1>13 DEF Crash, GiveUp, IdleBot, rows, seen
  <1>14. ASSUME NEW k \in orphans, OrphanArrives(k)
         PROVE  OrderInv'
    BY <1>1, <1>14 DEF OrphanArrives, seen
  <1>15. CASE UNCHANGED vars
    BY <1>1, <1>15 DEF vars, rows, seen
  <1> QED
    BY <1>3, <1>4, <1>5, <1>6, <1>7, <1>8, <1>9, <1>10, <1>11, <1>12, <1>13, <1>14, <1>15
    DEF Next, PollNext, Work

(* A user never gets a message while an earlier one has not been tried,    *)
(* whatever is paged, lost or sent again and however polls overlap         *)
(* (TriedInOrder).                                                         *)
THEOREM MessagesInOrder == Spec => []TriedInOrder
  <1>1. Spec => []ArrivalInv
    BY TypesKept, InitArrival, NextArrival, PTL DEF Spec
  <1>2. Spec => []ReadInv
    BY TypesKept, InitRead, NextRead, PTL DEF Spec
  <1>3. Spec => []OrderInv
    BY <1>1, <1>2, TypesKept, InitOrder, NextOrder, PTL DEF Spec
  <1>4. OrderInv => TriedInOrder
    BY DEF OrderInv, Before, TriedInOrder
  <1> QED BY <1>3, <1>4, PTL

-----------------------------------------------------------------------------
(* The mail box *)

(* Whom a poll has read to be of the staff is, and the batch holds only    *)
(* messages to those they are for.                                         *)
AddressInv ==
    /\ \A p \in Polls : api[p].admins \subseteq Staff
    /\ \A k \in bot.batch : k.request <= Len(log) /\ Mail!IsFor(k)

LEMMA InitAddress == Init => AddressInv
  BY DEF Init, AddressInv, FreePoll, IdleBot

(* A request that is added changes nothing for the older ones. *)
LEMMA GrowsAddress ==
    ASSUME TypeInv, AddressInv, NEW row, log' = Append(log, row), bot' = bot,
           \A p \in Polls : api'[p].admins = api[p].admins
    PROVE  AddressInv'
  <1>1. log \in Seq(Request) /\ bot.batch \subseteq Key
    BY DEF TypeInv, NotificationsTypeOK, BotState
  <1>2. Len(log) \in Nat /\ Len(log') = Len(log) + 1 /\ \A i \in 1 .. Len(log) : log'[i] = log[i]
    BY <1>1, SMT
  <1>3. ASSUME NEW k \in bot.batch
        PROVE  k.request <= Len(log') /\ Mail!IsFor(k)'
    <2>1. k.request \in 1 .. Len(log)
      BY <1>1, <1>2 DEF AddressInv, Key
    <2>2. k.request <= Len(log')
      BY <1>2, <2>1
    <2>3. log'[k.request] = log[k.request]
      BY <1>2, <2>1
    <2>4. Mail!IsFor(k)'
      BY <2>3 DEF AddressInv, Mail!IsFor
    <2> QED BY <2>2, <2>4
  <1> QED BY <1>3 DEF AddressInv

LEMMA PageAddress ==
    ASSUME TypeInv, ReadInv, AddressInv, NEW p \in Polls,
           NEW page \in PageOf(Pending(api[p])), NEW k \in page
    PROVE  k.request <= Len(log) /\ Mail!IsFor(k)
  <1>1. k \in Candidates(api[p])
    BY PageWithin DEF Pending
  <1>2. /\ k.request \in 1 .. api[p].window /\ k.to \in Users
        /\ k.to \in Recipients(k.request, api[p].admins, api[p].live)
    BY <1>1 DEF Candidates
  <1>3. /\ api[p].window \in Nat /\ api[p].window <= Len(log) /\ Len(log) \in Nat
        /\ api[p].admins \subseteq Staff
    BY DEF ReadInv, AddressInv, TypeInv, NotificationsTypeOK, PollState
  <1>4. k.request \in 1 .. Len(log)
    BY <1>2, <1>3
  <1>5. CASE log[k.request].kind = "new_booking_request_admin"
    <2>1. log[k.request].to = None /\ k.to \in Staff
      BY <1>2, <1>3, <1>4, <1>5 DEF ReadInv, Recipients
    <2> QED BY <1>4, <2>1 DEF Mail!IsFor
  <1>6. CASE log[k.request].kind # "new_booking_request_admin"
    <2>1. k.to = log[k.request].to /\ k.to # None
      BY <1>2, <1>6, NotificationsAssumption DEF Recipients
    <2> QED BY <1>4, <2>1 DEF Mail!IsFor
  <1> QED BY <1>5, <1>6

(* The worker's batch only shrinks while it works. *)
LEMMA AddressKept ==
    ASSUME AddressInv, log' = log, api' = api, bot'.batch \subseteq bot.batch
    PROVE  AddressInv'
  BY DEF AddressInv, Mail!IsFor

LEMMA NextAddress ==
    TypeInv /\ ReadInv /\ AddressInv /\ [Next]_vars => AddressInv'
  <1> SUFFICES ASSUME TypeInv, ReadInv, AddressInv, [Next]_vars PROVE AddressInv'
    OBVIOUS
  <1>0. \A p \in Polls : api[p] \in PollState
    BY DEF TypeInv, NotificationsTypeOK
  <1>1. ASSUME UNCHANGED <<log, bot>>, \A p \in Polls : api'[p].admins \subseteq Staff
        PROVE  AddressInv'
    BY <1>1 DEF AddressInv, Mail!IsFor
  <1>2. CASE Club
    <2>1. ASSUME NEW b, NEW status, NEW start, NEW kind, NEW u, Change(b, status, start, kind, u)
          PROVE  AddressInv'
      BY <2>1, GrowsAddress DEF Change, Post
    <2> QED BY <1>2, <2>1, AddressKept DEF Club, createPendingBooking, adminMoveBooking,
            adminConfirmBooking, adminCancelBooking, cancelOwnBooking, SetStatus, Tick, rows
  <1>3. ASSUME NEW p \in Polls, NEW new, Step(p, new), UNCHANGED <<log, bot>>,
               new.admins \subseteq Staff
        PROVE  AddressInv'
    <2>1. \A q \in Polls : api'[q].admins \subseteq Staff
      BY <1>3 DEF Step, AddressInv, TypeInv, NotificationsTypeOK
    <2> QED BY <1>1, <1>3, <2>1
  <1>4. ASSUME NEW p \in Polls, ListDue(p)
        PROVE  AddressInv'
    <2>1. PICK due \in SUBSET Due : Step(p, [api[p] EXCEPT !.step = "exists", !.due = due])
      BY <1>4 DEF ListDue
    <2> DEFINE new == [api[p] EXCEPT !.step = "exists", !.due = due]
    <2>2. new.admins \subseteq Staff
      BY <1>0 DEF PollState, AddressInv
    <2> QED BY <1>3, <1>4, <2>1, <2>2 DEF ListDue
  <1>5. ASSUME NEW p \in Polls, NextDue(p)
        PROVE  AddressInv'
    <2>1. PICK new : Step(p, new) /\ new.admins = api[p].admins
      <3>1. CASE Step(p, [api[p] EXCEPT !.step = "logs"])
        BY <1>0, <3>1 DEF PollState
      <3>2. ASSUME NEW b, Step(p, [api[p] EXCEPT !.due = @ \ {b}])
            PROVE  \E new : Step(p, new) /\ new.admins = api[p].admins
        BY <1>0, <3>2 DEF PollState
      <3>3. ASSUME NEW b, Step(p, [api[p] EXCEPT !.step = "create", !.booking = b])
            PROVE  \E new : Step(p, new) /\ new.admins = api[p].admins
        <4> DEFINE created == [api[p] EXCEPT !.step = "create", !.booking = b]
        <4>1. created.admins = api[p].admins
          BY <1>0 DEF PollState
        <4>2. Step(p, created)
          BY <3>3
        <4> HIDE DEF created
        <4> QED BY <4>1, <4>2
      <3> QED BY <1>5, <3>1, <3>2, <3>3 DEF NextDue
    <2> QED BY <1>3, <1>5, <2>1 DEF NextDue, AddressInv
  <1>6. ASSUME NEW p \in Polls, createReminderRequest(p)
        PROVE  AddressInv'
    <2> DEFINE b == api[p].booking
               new == [api[p] EXCEPT !.step = "exists", !.due = @ \ {b}, !.booking = None]
               row == [kind |-> "booking_reminder_user", booking |-> b, to |-> OwnerOf[b]]
    <2>1. log' = Append(log, row) /\ bot' = bot
      BY <1>6 DEF createReminderRequest, Post
    <2>2. new.admins = api[p].admins
      BY <1>0 DEF PollState
    <2>3. api' = [api EXCEPT ![p] = new]
      BY <1>6 DEF createReminderRequest, Step
    <2> HIDE DEF b, new, row
    <2>4. \A q \in Polls : api'[q].admins = api[q].admins
      BY <2>2, <2>3 DEF TypeInv, NotificationsTypeOK
    <2> QED BY <2>1, <2>4, GrowsAddress
  <1>7. ASSUME NEW p \in Polls, listNotificationRequestLogs(p)
        PROVE  AddressInv'
    <2> DEFINE new == [api[p] EXCEPT !.step = "recipients",
                                     !.window = MinOf(Len(log), RequestWindow)]
    <2>1. new.admins \subseteq Staff
      BY <1>0 DEF PollState, AddressInv
    <2>2. Step(p, new) /\ UNCHANGED <<log, bot>>
      BY <1>7 DEF listNotificationRequestLogs
    <2> HIDE DEF new
    <2> QED BY <1>3, <2>1, <2>2
  <1>8. ASSUME NEW p \in Polls, ListRecipients(p)
        PROVE  AddressInv'
    <2> DEFINE new == [api[p] EXCEPT !.step = "delivered", !.admins = AdminRecipients,
                                     !.live = LiveUsers]
    <2>1. new.admins \subseteq Staff
      BY <1>0 DEF PollState, AdminRecipients
    <2>2. Step(p, new) /\ UNCHANGED <<log, bot>>
      BY <1>8 DEF ListRecipients
    <2> HIDE DEF new
    <2> QED BY <1>3, <2>1, <2>2
  <1>9. ASSUME NEW p \in Polls, AnswerPoll(p) \/ FailPoll(p)
        PROVE  AddressInv'
    <2>1. api' = [api EXCEPT ![p] = FreePoll] /\ log' = log
      BY <1>9 DEF AnswerPoll, FailPoll, Step
    <2>2. \A q \in Polls : api'[q].admins \subseteq Staff
      BY <2>1 DEF AddressInv, TypeInv, NotificationsTypeOK, FreePoll
    <2>3. CASE bot' = bot
      BY <1>1, <2>1, <2>2, <2>3
    <2>4. CASE bot' = IdleBot
      BY <2>2, <2>4 DEF AddressInv, IdleBot
    <2>5. ASSUME NEW page \in PageOf(Pending(api[p])),
                 bot' = [IdleBot EXCEPT !.step = "sending", !.batch = page]
          PROVE  AddressInv'
      <3>1. bot'.batch = page
        BY <2>5 DEF IdleBot
      <3>2. \A k \in page : k.request <= Len(log) /\ Mail!IsFor(k)
        BY PageAddress
      <3> QED BY <2>1, <2>2, <3>1, <3>2 DEF AddressInv, Mail!IsFor
    <2> QED BY <1>9, <2>3, <2>4, <2>5 DEF AnswerPoll, FailPoll
  <1>10. ASSUME NEW p \in Polls, runTick(p)
         PROVE  AddressInv'
    <2>1. \A q \in Polls : api'[q].admins = api[q].admins
      BY <1>10 DEF runTick, TypeInv, NotificationsTypeOK, PollState
    <2> QED BY <1>10, <2>1 DEF runTick, rows, AddressInv, IdleBot
  <1>11. CASE Work
    <2>1. log' = log /\ api' = api
      BY <1>11 DEF Work, SendArrives, SendFails, ReportDelivered, ReportLost,
         safeReportFailure, rows
    <2>2. ASSUME NEW step, NEW k, Bot(step, k) PROVE bot'.batch = bot.batch
      BY <2>2 DEF Bot, TypeInv, NotificationsTypeOK, BotState
    <2>3. ASSUME NextKey PROVE bot'.batch \subseteq bot.batch
      BY <2>3 DEF NextKey, IdleBot, TypeInv, NotificationsTypeOK, BotState
    <2>4. bot'.batch \subseteq bot.batch
      BY <1>11, <2>2, <2>3 DEF Work, SendArrives, SendFails, ReportDelivered, ReportLost,
         safeReportFailure
    <2> QED BY <2>1, <2>4, AddressKept
  <1>12. CASE Crash \/ GiveUp
    BY <1>12, AddressKept DEF Crash, GiveUp, IdleBot, rows
  <1>13. CASE (\E k \in orphans : OrphanArrives(k)) \/ UNCHANGED vars
    BY <1>13, AddressKept DEF OrphanArrives, vars, rows
  <1> QED
    BY <1>2, <1>4, <1>5, <1>6, <1>7, <1>8, <1>9, <1>10, <1>11, <1>12, <1>13 DEF Next, PollNext

(* A message that is tried is for its recipient, in turn, and not on       *)
(* record, but for what outlived a dead worker.                            *)
LEMMA TriesAreMail ==
    ASSUME TypeInv, AgainInv, OrderInv, AddressInv,
           bot.step = "sending", NEW k \in Oldest(bot.batch),
           tried' = tried \cup {k}, sent' \in {sent, sent \cup {k}},
           UNCHANGED <<log, delivered, orphans>>
    PROVE  \E m \in Mail!Messages : Mail!Try(m)
  <1>1. k \in bot.batch /\ k \in Key /\ log \in Seq(Request)
    BY DEF Oldest, TypeInv, NotificationsTypeOK, BotState
  <1>2. k.request \in 1 .. Len(log) /\ k.request \in Nat /\ Mail!IsFor(k)
    BY <1>1 DEF AddressInv, Key
  <1>3. k \in Mail!Messages
    BY <1>1, <1>2 DEF Mail!Messages, Key
  <1>4. Mail!InTurn(k)
    <2> SUFFICES ASSUME NEW i \in 1 .. k.request, i < k.request, log[i].to = k.to
                 PROVE  [request |-> i, to |-> k.to] \in tried
      BY DEF Mail!InTurn
    <2> DEFINE other == [request |-> i, to |-> k.to]
    <2>1. other \in tried \cup bot.batch
      BY <1>1 DEF OrderInv, Before
    <2>2. other \notin bot.batch
      <3>1. other.request = i
        OBVIOUS
      <3>2. other \in bot.batch => k.request <= other.request
        BY DEF Oldest
      <3> QED BY <1>2, <3>1, <3>2
    <2> QED BY <2>1, <2>2
  <1>5. k \in delivered => k \in orphans
    BY <1>1 DEF AgainInv, NothingSentAgain
  <1>6. Mail!Try(k)
    BY <1>2, <1>4, <1>5 DEF Mail!Try
  <1> QED BY <1>3, <1>6

(* The parts of the mail box. *)
LEMMA MailStill ==
    ASSUME UNCHANGED <<log, sent, tried, delivered, orphans>>
    PROVE  UNCHANGED Mail!mail
  BY DEF Mail!mail

LEMMA MailGrows ==
    ASSUME TypeInv, TypeInv', NEW row, log' = Append(log, row),
           UNCHANGED <<sent, tried, delivered, orphans>>
    PROVE  Mail!Next
  <1>1. log \in Seq(Request) /\ log' \in Seq(Request)
    BY DEF TypeInv, NotificationsTypeOK
  <1>2. Len(log') = Len(log) + 1 /\ log'[Len(log) + 1] = row /\ Len(log) \in Nat
    BY <1>1, SMT
  <1>3. row \in Request
    BY <1>1, <1>2
  <1>4. Mail!Ask(row)
    BY DEF Mail!Ask
  <1> QED BY <1>3, <1>4 DEF Mail!Next

LEMMA MailStep ==
    TypeInv /\ TypeInv' /\ ArrivalInv /\ AgainInv /\ OrderInv /\ AddressInv /\ [Next]_vars
        => [Mail!Next]_(Mail!mail)
  <1> SUFFICES ASSUME TypeInv, TypeInv', ArrivalInv, AgainInv, OrderInv, AddressInv, [Next]_vars
               PROVE  Mail!Next \/ UNCHANGED Mail!mail
    OBVIOUS
  <1>1. CASE Club
    <2>1. ASSUME NEW b, NEW status, NEW start, NEW kind, NEW u, Change(b, status, start, kind, u)
          PROVE  Mail!Next
      BY <2>1, MailGrows DEF Change, Post, seen
    <2> QED BY <1>1, <2>1, MailStill DEF Club, createPendingBooking, adminMoveBooking,
            adminConfirmBooking, adminCancelBooking, cancelOwnBooking, SetStatus, Tick, rows, seen
  <1>2. ASSUME NEW p \in Polls, createReminderRequest(p)
        PROVE  Mail!Next
    BY <1>2, MailGrows DEF createReminderRequest, Post, Step, seen
  <1>3. ASSUME NEW p \in Polls,
               \/ runTick(p) \/ FailPoll(p) \/ ListDue(p) \/ NextDue(p)
               \/ listNotificationRequestLogs(p) \/ ListRecipients(p) \/ AnswerPoll(p)
        PROVE  UNCHANGED Mail!mail
    BY <1>3, MailStill DEF runTick, FailPoll, ListDue, NextDue, listNotificationRequestLogs,
       ListRecipients, AnswerPoll, Step, rows, seen
  <1>4. ASSUME NEW k \in bot.batch, SendFails(k) \/ \E told \in BOOLEAN : SendArrives(k, told)
        PROVE  Mail!Next
    BY <1>4, TriesAreMail DEF SendFails, SendArrives, rows, Mail!Next
  <1>5. ASSUME NEW told \in BOOLEAN, ReportDelivered(told)
        PROVE  Mail!Next
    <2>1. bot.key \in sent
      BY <1>5 DEF ReportDelivered, ArrivalInv
    <2>2. Mail!Record(bot.key)
      BY <1>5 DEF ReportDelivered, Mail!Record, seen
    <2> QED BY <2>1, <2>2 DEF Mail!Next
  <1>6. CASE safeReportFailure \/ GiveUp
    BY <1>6, MailStill DEF safeReportFailure, GiveUp, rows, seen
  <1>10. CASE ReportLost
    <2>1. bot.key \in sent
      BY <1>10 DEF ReportLost, ArrivalInv
    <2>2. CASE orphans' = orphans
      BY <1>10, <2>2, MailStill DEF ReportLost, rows, seen
    <2>3. CASE orphans' = orphans \cup {bot.key}
      <3>1. Mail!LoseSight(bot.key)
        BY <1>10, <2>3 DEF ReportLost, Mail!LoseSight, rows, seen
      <3> QED BY <2>1, <3>1 DEF Mail!Next
    <2> QED BY <1>10, <2>2, <2>3 DEF ReportLost
  <1>7. CASE Crash
    <2>1. CASE bot.step = "reporting"
      <3>1. bot.key \in sent
        BY <2>1 DEF ArrivalInv
      <3>2. Mail!LoseSight(bot.key)
        BY <1>7, <2>1 DEF Crash, Mail!LoseSight, rows, seen
      <3> QED BY <3>1, <3>2 DEF Mail!Next
    <2>2. CASE bot.step # "reporting"
      BY <1>7, <2>2, MailStill DEF Crash, rows, seen
    <2> QED BY <2>1, <2>2
  <1>8. ASSUME NEW k \in orphans, OrphanArrives(k)
        PROVE  Mail!Next
    <2>1. k \in sent
      BY <1>8 DEF ArrivalInv, ReportedHasArrived
    <2>2. Mail!Record(k)
      BY <1>8 DEF OrphanArrives, Mail!Record, seen
    <2> QED BY <2>1, <2>2 DEF Mail!Next
  <1>9. CASE UNCHANGED vars
    BY <1>9, MailStill DEF vars, rows, seen
  <1> QED
    BY <1>1, <1>2, <1>3, <1>4, <1>5, <1>6, <1>7, <1>8, <1>9, <1>10 DEF Next, PollNext, Work

(* Whatever fails and however polls overlap, the queue in the audit log    *)
(* and the worker together are a mail box: nobody is told what is meant    *)
(* for another, nothing is told out of turn or again once it is on record, *)
(* and only what has arrived is recorded (ImplementsMailbox).              *)
THEOREM DeliveryIsAMailbox == Spec => ImplementsMailbox
  <1>1. Spec => [](ArrivalInv /\ AgainInv /\ ReadInv)
    BY TypesKept, InitArrival, NextArrival, InitAgain, NextAgain, InitRead, NextRead, PTL DEF Spec
  <1>2. Spec => []OrderInv
    BY <1>1, TypesKept, InitOrder, NextOrder, PTL DEF Spec
  <1>3. Spec => []AddressInv
    BY <1>1, TypesKept, InitAddress, NextAddress, PTL DEF Spec
  <1>4. Init => Mail!Init
    BY DEF Init, Mail!Init
  <1> QED
    BY <1>1, <1>2, <1>3, <1>4, TypesKept, MailStep, PTL DEF Spec, ImplementsMailbox, Mail!Spec

===============================================================================
