---------------------------- MODULE Notifications ----------------------------
(***************************************************************************)
(* How messages about bookings reach Telegram: InternalBotService in the   *)
(* API keeps no queue of its own but reads the audit log, and the worker   *)
(* of the bot polls it, sends what it is given and reports back.           *)
(*                                                                         *)
(* A request is a row of the audit log, here an element of log; its id is  *)
(* its position, because pages are read in the order of creation.  A key   *)
(* names one message: a request and a recipient.  The poll is an API call  *)
(* of several statements, the worker a loop with one await per step.       *)
(***************************************************************************)
EXTENDS Naturals, Sequences, FiniteSets

CONSTANTS
    Bookings, Users,
    OwnerOf,      \* the user who made each booking
    Staff,        \* users with the role admin or owner
    Starts,       \* times at which bookings may start
    Polls,        \* poll calls that may run in the API at the same time
    PageLimit,    \* BOT_NOTIFICATION_BATCH_SIZE, the limit of a poll
    WindowFactor, \* a poll reads limit * 8 requests,
    WindowFloor,  \* but no fewer than 80
    DueLimit,     \* a poll looks at 200 due bookings
    LeadTime,     \* BOT_REMINDER_LEAD_MINUTES
    None

CONSTANTS
    Failures,     \* what may go wrong: "send", "report", "poll", "crash"
    Unreachable,  \* users who have blocked the bot
    MaxLog,       \* bound: requests beyond which bookings do not change
    MaxTime       \* bound: the clock

ASSUME NotificationsAssumption ==
    /\ OwnerOf \in [Bookings -> Users]
    /\ Staff \subseteq Users
    /\ Unreachable \subseteq Users
    /\ Starts \subseteq Nat
    /\ PageLimit \in Nat \ {0}
    /\ WindowFactor \in Nat \ {0}
    /\ WindowFloor \in Nat \ {0}
    /\ DueLimit \in Nat \ {0}
    /\ LeadTime \in Nat
    /\ MaxLog \in Nat
    /\ MaxTime \in Nat
    /\ IsFiniteSet(Bookings) /\ IsFiniteSet(Users) /\ IsFiniteSet(Polls)
    /\ None \notin Bookings /\ None \notin Users /\ None \notin Polls

Kinds == {"new_booking_request_admin", "booking_confirmed_user",
          "booking_cancelled_user", "booking_moved_user", "booking_reminder_user"}

(* The recipient of a request to the staff is not stored.                  *)
Request == [kind: Kinds, booking: Bookings, to: Users \cup {None}]

Key == [request: Nat \ {0}, to: Users]

(* All keys within the bounds: each poll may add a reminder of a booking. *)
Keys == [request: 1 .. MaxLog + Cardinality(Bookings) * Cardinality(Polls), to: Users]

PollSteps == {"free", "due", "exists", "create", "logs", "recipients", "delivered"}

BotSteps == {"idle", "fetching", "sending", "reporting", "failing"}

PollState == [step: PollSteps, due: SUBSET Bookings, booking: Bookings \cup {None},
              window: Nat, admins: SUBSET Users, live: SUBSET Users]

BotState == [step: BotSteps, batch: SUBSET Key, key: Key \cup {None},
             poll: Polls \cup {None}]

VARIABLES
    bookings,   \* status and start of each booking
    accounts,   \* users.status
    log,        \* requests in the audit log, oldest first
    delivered,  \* keys with a row booking.notification_delivered
    failed,     \* keys with a row booking.notification_failed
    now,        \* the clock
    api,        \* poll calls
    bot,        \* the worker: its step, its batch, the key in hand, its poll
    orphans     \* keys whose report was on its way when the bot gave it up

VARIABLES
    sent,       \* history: messages that Telegram has taken
    tried       \* history: keys that the worker has tried to send

club == <<bookings, accounts, now>>
rows == <<log, delivered, failed>>
seen == <<sent, tried>>
vars == <<club, rows, api, bot, orphans, seen>>

FreePoll == [step |-> "free", due |-> {}, booking |-> None, window |-> 0,
             admins |-> {}, live |-> {}]

IdleBot == [step |-> "idle", batch |-> {}, key |-> None, poll |-> None]

-----------------------------------------------------------------------------
(* What happens to bookings and accounts, as far as messages depend on it. *)
(* The commit of a change and its request are one step here; Booking shows *)
(* what happens when they come apart.                                      *)

(* Mutant of Post: the booking is stored as the recipient. *)
PostToBooking(kind, b, u) ==
    log' = Append(log, [kind |-> kind, booking |-> b, to |-> b])

Post(kind, b, u) == log' = Append(log, [kind |-> kind, booking |-> b, to |-> u])

Change(b, status, start, kind, u) ==
    /\ Len(log) < MaxLog
    /\ bookings' = [bookings EXCEPT ![b] = [status |-> status, start |-> start]]
    /\ Post(kind, b, u)
    /\ UNCHANGED <<accounts, now, delivered, failed, api, bot, orphans, seen>>

createPendingBooking(b, start) ==
    /\ bookings[b].status = "none"
    /\ start > now
    /\ Change(b, "pending", start, "new_booking_request_admin", None)

adminConfirmBooking(b) ==
    /\ bookings[b].status = "pending"
    /\ Change(b, "confirmed", bookings[b].start, "booking_confirmed_user", OwnerOf[b])

adminCancelBooking(b) ==
    /\ bookings[b].status \in {"pending", "confirmed"}
    /\ Change(b, "cancelled", bookings[b].start, "booking_cancelled_user", OwnerOf[b])

adminMoveBooking(b, start) ==
    /\ bookings[b].status \in {"pending", "confirmed"}
    /\ Change(b, bookings[b].status, start, "booking_moved_user", OwnerOf[b])

(* Users cancel without a message. *)
cancelOwnBooking(b) ==
    /\ bookings[b].status \in {"pending", "confirmed"}
    /\ bookings' = [bookings EXCEPT ![b].status = "cancelled"]
    /\ UNCHANGED <<accounts, now, rows, api, bot, orphans, seen>>

(* Blocked, unblocked, or deleted by hand: no code deletes an account, but  *)
(* the queries leave deleted ones out, and nobody is unblocked from there.  *)
SetStatus(u, status) ==
    /\ accounts[u] # "deleted"
    /\ accounts' = [accounts EXCEPT ![u] = status]
    /\ UNCHANGED <<bookings, now, rows, api, bot, orphans, seen>>

Tick ==
    /\ now < MaxTime
    /\ now' = now + 1
    /\ UNCHANGED <<bookings, accounts, rows, api, bot, orphans, seen>>

Club ==
    \/ \E b \in Bookings :
         \/ \E start \in Starts : createPendingBooking(b, start) \/ adminMoveBooking(b, start)
         \/ adminConfirmBooking(b) \/ adminCancelBooking(b) \/ cancelOwnBooking(b)
    \/ \E u \in Users, status \in {"active", "blocked", "deleted"} : SetStatus(u, status)
    \/ Tick

-----------------------------------------------------------------------------
(* GET /internal/bot/booking-notifications/pending *)

Step(p, new) ==
    /\ api' = [api EXCEPT ![p] = new]
    /\ UNCHANGED <<club, delivered, failed, orphans, seen>>

MinOf(a, b) == IF a < b THEN a ELSE b

MaxOf(a, b) == IF a > b THEN a ELSE b

(* listConfirmedBookingsDueForReminder: any DueLimit of them. *)
Due == {b \in Bookings : /\ bookings[b].status = "confirmed"
                         /\ now < bookings[b].start
                         /\ bookings[b].start <= now + LeadTime}

ListDue(p) ==
    /\ api[p].step = "due"
    /\ \E due \in SUBSET Due :
         /\ Cardinality(due) = MinOf(DueLimit, Cardinality(Due))
         /\ Step(p, [api[p] EXCEPT !.step = "exists", !.due = due])
    /\ UNCHANGED <<log, bot>>

(* Mutant of hasReminderRequest: the search misses what is there. *)
HasNoReminder(b) == FALSE

hasReminderRequest(b) ==
    \E i \in 1 .. Len(log) : log[i].kind = "booking_reminder_user" /\ log[i].booking = b

(* The loop over the due bookings; when it is through, the log is read.    *)
NextDue(p) ==
    /\ api[p].step = "exists"
    /\ IF api[p].due = {}
       THEN Step(p, [api[p] EXCEPT !.step = "logs"])
       ELSE \E b \in api[p].due :
              Step(p, IF hasReminderRequest(b)
                      THEN [api[p] EXCEPT !.due = @ \ {b}]
                      ELSE [api[p] EXCEPT !.step = "create", !.booking = b])
    /\ UNCHANGED <<log, bot>>

createReminderRequest(p) ==
    LET b == api[p].booking
    IN  /\ api[p].step = "create"
        /\ Post("booking_reminder_user", b, OwnerOf[b])
        /\ Step(p, [api[p] EXCEPT !.step = "exists", !.due = @ \ {b}, !.booking = None])
        /\ UNCHANGED bot

(* How many requests a poll reads, delivered or not. *)
RequestWindow == MaxOf(PageLimit * WindowFactor, WindowFloor)

(* The oldest requests. *)
listNotificationRequestLogs(p) ==
    /\ api[p].step = "logs"
    /\ Step(p, [api[p] EXCEPT !.step = "recipients",
                              !.window = MinOf(Len(log), RequestWindow)])
    /\ UNCHANGED <<log, bot>>

AdminRecipients == {u \in Staff : accounts[u] = "active"}

LiveUsers == {u \in Users : accounts[u] # "deleted"}

(* listAdminRecipients and listUsersByIds, one read in the model. *)
ListRecipients(p) ==
    /\ api[p].step = "recipients"
    /\ Step(p, [api[p] EXCEPT !.step = "delivered", !.admins = AdminRecipients,
                              !.live = LiveUsers])
    /\ UNCHANGED <<log, bot>>

(* parseNotificationRequest: who is told of the request i. *)
Recipients(i, admins, live) ==
    IF log[i].kind = "new_booking_request_admin" THEN admins ELSE {log[i].to} \cap live

Candidates(poll) ==
    {k \in [request: 1 .. poll.window, to: Users] :
        k.to \in Recipients(k.request, poll.admins, poll.live)}

(* Mutant of Pending: what has been delivered is given out again. *)
PendingAgain(poll) == Candidates(poll)

(* Mutant of Pending: what has failed is not given out again. *)
PendingUntried(poll) == Candidates(poll) \ (delivered \cup failed)

Pending(poll) == Candidates(poll) \ delivered

(* Mutant of PageOf: the page is not taken from the front. *)
PageOfAny(keys) == {page \in SUBSET keys :
                      Cardinality(page) = MinOf(PageLimit, Cardinality(keys))}

(* The first PageLimit keys; the staff is listed in no particular order.   *)
PageOf(keys) ==
    {page \in SUBSET keys :
        /\ Cardinality(page) = MinOf(PageLimit, Cardinality(keys))
        /\ \A k \in page, other \in keys \ page : k.request <= other.request}

(* Reads what has been delivered and answers.  The answer to a bot that    *)
(* has died or given up goes nowhere.                                      *)
AnswerPoll(p) ==
    /\ api[p].step = "delivered"
    /\ Step(p, FreePoll)
    /\ IF bot.poll = p
       THEN \E page \in PageOf(Pending(api[p])) :
              bot' = IF page = {} THEN IdleBot
                     ELSE [IdleBot EXCEPT !.step = "sending", !.batch = page]
       ELSE UNCHANGED bot
    /\ UNCHANGED log

(* A statement of the poll fails: the bot gets an error, the tick is over. *)
FailPoll(p) ==
    /\ "poll" \in Failures
    /\ api[p].step # "free"
    /\ Step(p, FreePoll)
    /\ bot' = IF bot.poll = p THEN IdleBot ELSE bot
    /\ UNCHANGED log

-----------------------------------------------------------------------------
(* The worker of the bot *)

(* The timer fires; isRunning is false. *)
runTick(p) ==
    /\ bot.step = "idle"
    /\ api[p].step = "free"
    /\ api' = [api EXCEPT ![p].step = "due"]
    /\ bot' = [IdleBot EXCEPT !.step = "fetching", !.poll = p]
    /\ UNCHANGED <<club, rows, orphans, seen>>

(* fetchPending throws before the answer is there: the connection breaks   *)
(* or fetch runs into its time limit.  Nothing stops the handler in the    *)
(* API, so the poll goes on, beside the one of the next tick.              *)
GiveUp ==
    /\ "poll" \in Failures
    /\ bot.step = "fetching"
    /\ bot' = IdleBot
    /\ UNCHANGED <<club, rows, api, orphans, seen>>

Oldest(keys) == {k \in keys : \A other \in keys : k.request <= other.request}

Bot(step, key) == bot' = [bot EXCEPT !.step = step, !.key = key]

(* sendMessage: Telegram takes the message; told says if the bot knows. *)
SendArrives(k, told) ==
    /\ bot.step = "sending"
    /\ k \in Oldest(bot.batch)
    /\ k.to \notin Unreachable
    /\ told \/ "send" \in Failures
    /\ sent' = sent \cup {k}
    /\ tried' = tried \cup {k}
    /\ Bot(IF told THEN "reporting" ELSE "failing", k)
    /\ UNCHANGED <<club, rows, api, orphans>>

SendFails(k) ==
    /\ bot.step = "sending"
    /\ k \in Oldest(bot.batch)
    /\ "send" \in Failures \/ k.to \in Unreachable
    /\ tried' = tried \cup {k}
    /\ Bot("failing", k)
    /\ UNCHANGED <<club, rows, api, orphans, sent>>

(* The loop goes on with the next key of the batch. *)
NextKey ==
    LET left == bot.batch \ {bot.key}
    IN  bot' = IF left = {} THEN IdleBot
               ELSE [bot EXCEPT !.step = "sending", !.batch = left, !.key = None]

(* Mutant of ReportDelivered: a failure is reported with the wrong status. *)
ReportAnything(told) ==
    /\ bot.step \in {"reporting", "failing"}
    /\ told \/ "report" \in Failures
    /\ delivered' = delivered \cup {bot.key}
    /\ IF told THEN NextKey ELSE Bot("failing", bot.key)
    /\ UNCHANGED <<club, log, failed, api, orphans, seen>>

(* The report is committed; told says if the bot hears of it.  If not, it  *)
(* takes the same way as after a failed send.                              *)
ReportDelivered(told) ==
    /\ bot.step = "reporting"
    /\ told \/ "report" \in Failures
    /\ delivered' = delivered \cup {bot.key}
    /\ IF told THEN NextKey ELSE Bot("failing", bot.key)
    /\ UNCHANGED <<club, log, failed, api, orphans, seen>>

(* The worker gives the report up before it is committed; it may be        *)
(* committed later all the same, or never.                                 *)
ReportLost ==
    /\ bot.step = "reporting"
    /\ "report" \in Failures
    /\ orphans' \in {orphans, orphans \cup {bot.key}}
    /\ Bot("failing", bot.key)
    /\ UNCHANGED <<club, rows, api, seen>>

(* What failed may be after a report of failure, which may get lost.  No   *)
(* query reads these rows, so that one comes late is not told apart.       *)
FailureRows(k) ==
    {failed \cup {k}} \cup (IF "report" \in Failures THEN {failed} ELSE {})

(* safeReportFailure: an error is logged and dropped. *)
safeReportFailure ==
    /\ bot.step = "failing"
    /\ failed' \in FailureRows(bot.key)
    /\ NextKey
    /\ UNCHANGED <<club, log, delivered, api, orphans, seen>>

(* The bot dies and starts again; a report under way may still arrive.     *)
Crash ==
    /\ "crash" \in Failures
    /\ bot.step # "idle"
    /\ orphans' = IF bot.step = "reporting" THEN orphans \cup {bot.key} ELSE orphans
    /\ bot' = IdleBot
    /\ UNCHANGED <<club, rows, api, seen>>

OrphanArrives(k) ==
    /\ k \in orphans \ delivered
    /\ delivered' = delivered \cup {k}
    /\ UNCHANGED <<club, log, failed, api, bot, orphans, seen>>

-----------------------------------------------------------------------------
Init ==
    /\ bookings \in [Bookings -> [status: {"none"}, start: {0}]]
    /\ accounts = [u \in Users |-> "active"]
    /\ now = 0
    /\ log = <<>> /\ delivered = {} /\ failed = {}
    /\ api = [p \in Polls |-> FreePoll]
    /\ bot = IdleBot
    /\ orphans = {} /\ sent = {} /\ tried = {}

PollNext(p) ==
    \/ ListDue(p) \/ NextDue(p) \/ createReminderRequest(p)
    \/ listNotificationRequestLogs(p) \/ ListRecipients(p) \/ AnswerPoll(p)

Work ==
    \/ \E k \in bot.batch : SendFails(k) \/ \E told \in BOOLEAN : SendArrives(k, told)
    \/ \E told \in BOOLEAN : ReportDelivered(told)
    \/ ReportLost
    \/ safeReportFailure

Next ==
    \/ Club
    \/ \E p \in Polls : runTick(p) \/ PollNext(p) \/ FailPoll(p)
    \/ GiveUp
    \/ Work
    \/ Crash
    \/ \E k \in orphans : OrphanArrives(k)

(***************************************************************************)
(* The timer of the bot fires again and again and what was begun goes on;  *)
(* at some time polls stop failing and the bot stops dying and giving them *)
(* up, and if the bot tries for ever, some of its messages and some of its *)
(* reports get through.  A poll that fails may look like one that answered *)
(* nothing, a crash like the end of a batch: those steps are not counted   *)
(* as failures.                                                            *)
(***************************************************************************)
Fairness ==
    /\ WF_vars(\E p \in Polls : runTick(p) \/ PollNext(p))
    /\ WF_vars(Work)
    /\ <>[][(Crash \/ GiveUp => Work) /\ \A p \in Polls : FailPoll(p) => AnswerPoll(p)]_vars
    /\ SF_vars(\E k \in bot.batch : SendArrives(k, TRUE))
    /\ SF_vars(ReportDelivered(TRUE))

Spec == Init /\ [][Next]_vars

FairSpec == Spec /\ Fairness

=============================================================================
