# A verification model of the club booking system

TLA+ modules, TLC runs and TLAPS proofs about the booking system in this
repository: a NestJS API on PostgreSQL (Prisma), a Telegram bot that delivers
its messages, and a Next.js front end. The modules are written from the code;
where the documents promise something else, a run shows it (see *Findings*).

## 1. The system

| Component | State it keeps | Operations | Interacts with |
|---|---|---|---|
| **bookings** (`apps/api/src/bookings`) | `bookings`, `booking_status_history`, `booking_rules`, audit rows | request, move, confirm, cancel (admin, user), change the rules; availability, queue, rules (reads) | reads users, consents, tables, closures, schedule; writes the notification requests that internal-bot reads |
| **rooms, tables, closures** (`rooms/`) | `rooms`, `club_tables`, `room_closures`, `table_closures` | create, change, switch off, close for a while | read by bookings |
| **schedule** (`schedule/`) | `club_working_hours`, `schedule_exceptions` | replace the week, add, change and delete exceptions | read by bookings |
| **auth** (`auth/`) | `users`, `user_roles`; JWTs outside | log in by Telegram, link the bot's user, authorise | creates the accounts every other part names |
| **me** (`me/`) | profile, deletion request | read and change the profile, ask for deletion | read by bookings (phone, status) |
| **owner** (`owner/`) | user status, roles, audit log | block, unblock, reveal a contact, read the log (roles are assigned by hand) | read by bookings (status) |
| **legal** (`legal/`) | documents, consents | publish (seed), accept, check required consents | read by bookings |
| **internal-bot** (`internal-bot/`) | notification requests and delivery reports, both audit rows | list pending messages, report deliveries, queue reminders | polled by the bot |
| **bot** (`apps/bot`) | in memory: is a poll running | poll, send, report; commands; webhook | API, Telegram |
| **web** (`apps/web`) | in memory: forms, lists, session | the booking flow, dashboard, admin pages | API |
| common, shared packages, seed, CI | none | logging, error format, health, set-up | all |

Hard behaviours. Every HTTP call is a coroutine that gives way at each `await`,
and several API processes may run; PostgreSQL runs at READ COMMITTED and the
schema has no exclusion constraint. So a handler that reads and then writes
can be overtaken between the two; a process may die after a commit and before
the write that should follow it; messages are sent, then reported, so they may
be sent again; and owners change what a handler has already checked.
`PROJECT.json` lists each such place with its line ("hazards").

What makes each component correct:

- bookings: no table is promised twice; a status only moves along the allowed
  changes; the history explains the status; a cancelled booking is over; limit
  and notice are kept; the user is told once of what an admin did.
- internal-bot and bot: every request is delivered or given up, at least once
  and in order; nobody's failure starves the others; one reminder per booking.
- schedule, resources: what is offered can be booked; an edit does not undo
  another one.
- accounts: one account per Telegram user; a deleted account stays deleted; a
  token tells the roles; consents are complete; the audit log explains a block.
- web: a button sends once, a page shows the answer to its last question and
  never acts on what it does not show, and no page waits for ever.

## 2. Modules

| Module | What it is |
|---|---|
| `Intervals` | time ranges: overlap, same day, alignment to the slot step |
| `Booking` | the bookings component, one action per database statement of each handler |
| `BookingProperties` | its type invariant and what holds whichever calls race |
| `BookingRaces` | `Booking` with two history variables, and what goes wrong in which races only |
| `BookingLedger` | the abstract specification: each operation is one step, with the sight its caller has |
| `Notifications`, `NotificationsProperties` | internal-bot's queue in the audit log, and the bot's worker |
| `Mailbox` | the abstract specification of the delivery, which `Notifications` implements |
| `Accounts`, `AccountsProperties` | login, tokens, profile, consents, blocking, emergency contact |
| `Club` | what owners edit: hours, exceptions, rooms, tables, closures |
| `Availability`, `AvailabilityProperties` | the query for free slots, composed with `Club` |
| `BookingFlow`, `BookingFlowProperties` | the booking page of the front end |
| `WebPages`, `WebPagesProperties` | the dashboard and the four admin pages |
| `MCBooking`, `MCNotifications`, `MCAccounts`, `MCClub`, `MCBookingFlow`, `MCWebPages` | small values of the constants for TLC |
| `BookingProofs` | types, life cycle, history |
| `BookingCallProofs` | admission, and what users are told |
| `BookingRaceProofs` | overlaps, overtaken moves, limit, lost signals, refinement |
| `NotificationsProofs`, `AccountsProofs`, `BookingFlowProofs`, `WebPagesProofs` | theorems about the module of that name |
| `ClubProofs` | theorems about `Club` and `Availability` |

### Booking

State: `bookings` (id to row or `None`), `history` (id to its status history
rows), `outbox` (id to the number of `booking.notification_requested` audit
rows of each signal), `club` (what owners edit: blocked users, resources out of
use, closures, opening hours, the active rule), and for each call in flight the
statement it is about to run (`pc`) and its local variables (`loc`).

A call is answered by `Reply`, and its slot is free for another one. Steps:

| Call | Statements |
|---|---|
| `POST /bookings/requests` | `createBookingRequest` (checks of the body, read of the rule), `CheckUser`, `CheckTable`, `resolveScheduleForDate`, `AnswerQuery` (count, closures, overlap, in any order), then the transaction: `TxOverlap`, `createPendingBooking` |
| `PATCH /admin/bookings/:id/move` | `adminMoveBooking`, `CheckTable`, `resolveScheduleForDate`, `AnswerQuery`, `TxStatus`, `TxOverlap`, `moveBookingForAdmin`, `tryCreateNotificationSignal` |
| `POST /admin/bookings/:id/confirm` | `adminConfirmBooking`, `ConfirmConflict`, `ReadStatus`, `transitionBookingStatus`, `tryCreateNotificationSignal` |
| `POST /admin/bookings/:id/cancel` | `adminCancelBooking`, `ReadStatus`, `transitionBookingStatus`, `tryCreateNotificationSignal` |
| `POST /bookings/:id/cancel` | `cancelOwnBooking`, `CancelNotice`, `ReadStatus`, `transitionBookingStatus` |

The writes of a transaction are one step because nothing of them is visible
before the commit; the reads before them are separate steps because a READ
COMMITTED statement sees what has been committed when it starts. `Abandon` is a
call that dies between two statements. `SetBlocked`, `SetInactive`,
`MoveTable`, `AddClosure`, `SetSchedule` and `updateBookingRules` are the owners:
one change each, of any size the constants allow.

Abstractions: instants are small numbers; the opening hours are the set of
ranges they admit; the slot step is fixed (the API refuses any other than 30); a
stored limit of 0 stands for `DefaultLimit`, which is 3 in the code; the three reads of the account (status, phone,
consents) are one; comments, reasons and actors of audit rows are left out; a
`Promise.all` answers when its first refusing query answers, which no property
can tell from answering when its last one does.

No call is held back: any number of calls of every kind run at once, and each
may end anywhere. Several of the documents' promises are then broken, as they
are in the code. `BookingRaces` says how far: it adds two history variables that
only record, and its properties name the race in which a promise may break.

- `missed[r][look]`: the bookings written since call `r` took a look, for as long
  as it relies on it. A call looks at its own booking (`own`: a move's status
  check in the transaction, a confirmation's read of the range), at the bookings
  it must not overlap (`others`: the query inside the transaction of a request or
  a move, the query before that of a confirmation) and at the user's active
  bookings (`count`).
- `lost[b][s]`: the calls that ended between their commit and its signal.

`DoubleBookingsAreRaces`, for one, says that two active bookings come to overlap
only when a request or a move commits over a booking that was written after its
transaction had looked. Nothing is assumed for it: a placement that trusts the
look made before its transaction breaks it. `BookingLedger` takes the same view
(`unseen`): each operation is one step by a caller who may not see what was
written since it looked, and `ImplementsLedger` says the handlers are no worse
than that.

### Notifications

There is no queue table: a request is an audit row, and a message is pending
while no `booking.notification_delivered` row bears its key (request and
recipient). State: `log` (the requests by creation), `delivered` and `failed`
(keys with such a row), `bookings` and `accounts` (what the requests and their
recipients depend on), `api` (each poll call: its statement and what it read),
`bot` (the worker: its step, its batch, the key in hand), `orphans` (reports
the bot gave up, or died over, that may still be committed), and the history variables `sent` and `tried`.

| Code | Actions |
|---|---|
| `GET /internal/bot/booking-notifications/pending` | `ListDue`, `NextDue`, `createReminderRequest`, `listNotificationRequestLogs`, `ListRecipients`, `AnswerPoll`; `FailPoll` when a statement fails |
| `fetchPending`, when the connection breaks or runs into its time limit | `GiveUp`: the handler in the API runs on, beside the poll of the next tick |
| `runTick`, `processNotification`, `safeReportFailure` | `runTick`, `SendArrives`, `SendFails`, `ReportDelivered`, `ReportLost`, `safeReportFailure` |
| the process of the bot | `Crash` (and restart), `OrphanArrives` |
| bookings and accounts | `createPendingBooking`, `adminConfirmBooking`, `adminCancelBooking`, `adminMoveBooking`, `cancelOwnBooking`, `SetStatus`, `Tick` |

Telegram may take a message without the bot hearing of it, and the API may
commit a report without the bot hearing of it (`told`); the worker then reports
a failure, and a report that it gave up may be committed later (`ReportLost`).
Abstractions: a booking change and its request are one step (what
happens between them is `Booking`'s subject); rows are created in the order of
their `createdAt`; the two reads of recipients are one, as they serve different
kinds of request; users always have a Telegram id; texts and keyboards are left
out. Accounts are `deleted` by hand only. `Failures` says what may go wrong in a
run, `Unreachable` who has blocked the bot.

`Mailbox` is what all this promises: a request is kept (`Ask`), a message is
tried for whom it is meant, after what came before it, and again only until it is
on record (`Try`), and only what has arrived is recorded (`Record`). `log`,
`sent`, `tried`, `delivered` and `orphans` are its state; polls, pages, batches
and failures are gone. `LoseSight` stands for a bot that dies or gives up with a
report under way, the one way in which something on record is sent again.

### Accounts

State: `account` (the row of each Telegram user, or `None`), `consents`,
`active` (the documents in force), `record` (the action of the last audit row
about a user's block), `reveals`, `tokens`, and for each call the statement it
is about to run and its locals. Owners' calls pass `canActivate`, which looks at
the token and never at the database; so a token keeps the roles it was issued
with.

| Call | Statements |
|---|---|
| `POST /auth/telegram`, `/auth/telegram-mini-app`, `/auth/telegram-bot/link` (`Enter`) | `findByTelegramId`, `createUser` (and for the link `findByTelegramId` again when the insert breaks the unique key; should it find nothing, the link fails) or `updateTelegramMetadata`, `RequiredDocuments`, `RequiredConsents`, `Conclude` |
| `POST /legal/consents` | `findActiveDocumentsByTypeVersion`, `createConsentRecords`, `RequiredDocuments`, `RequiredConsents`, `Conclude` |
| `PATCH /me/profile`, `/me/privacy` | `Read`, `updateProfile` (or a refusal, when another account has the e-mail address), `ReadAgain` |
| `POST /me/delete-request` | `Read`, `requestDeletion` |
| `POST /owner/users/:id/block`, `/unblock` | `Moderate` (one transaction), `writeUserModerationAudit` |
| `POST /admin/users/:id/emergency-contact-access` | `Read`, `writeEmergencyPhoneRevealAudit` |

`Abandon` is a call that dies between two statements. `SetRoles`, `Delete` and
`Publish` are done by hand, as no code does them; several documents of one type
may be active. History variables say which
races have happened: `overlapped` (two calls of one kind about one person),
`moved` (the status of a call's target changed meanwhile), `renewed` (a document
was published meanwhile), `grants` (how often roles changed). Names, the
Telegram signature (a pure function of the request) and the privacy switches,
which go the way of the phone, are left out.

### Club and Availability

State: `weekly`, `exceptions` (and `spent`, the ids given out), `rooms`,
`tables`, `closures`, `bookings`, and the owners' calls under way. `Club` has
every edit: `updateWorkingHours`; creating, merging and deleting exceptions;
creating, changing and taking out of use rooms and tables; closures of both. An
exception is merged with the row that was read (`mergedPayload`,
`normalizeExceptionPayload`); rooms and tables are written field by field
(`buildTableUpdateData`). As merged, a `PATCH` that only says "closed" on a day
with special hours is always refused, since the hours of the row come with it.

A booking in `Club` is a row that appears and goes: `BookingMade` lets bookings
overlap, as they may.

`Availability` runs `getAvailability` beside the edits: exception, weekly hours
(`resolveScheduleForDate`), the active rooms, their active tables (the two
statements of `listActiveRoomsWithTables`), then the three overlap queries in
any order, and `buildAvailableSlots`. What the three queries found is kept apart
(`RowsOf`: list, place and interval), as in the code; one row that two queries
return is two obstacles. Rooms and tables have ids of their own
(`IdAssumption`: both are uuids). Slots are counted from opening time, while
a request must be aligned to midnight (API_SPEC.md:899), so with opening hours
that do not fit the step none of the offered slots can be booked;
`OffersWhatCanBeBooked` says exactly that. What is offered is information only
(API_SPEC.md:858-860); `Booking` has the checks that count. Left out: names,
order, reasons, and the time zone (a constant offset).

### BookingFlow

The booking page: `view`, the selection `sel`, the offer `shown`, the submission
`sub`, the questions (`loads`) and requests (`posts`) under way. Choosing a day
cancels the question before it (the effect's `cancelled` flag), but the page
stays usable with the slots of the day before, as in the code. The API answers a
question or a request in one step: the races inside a request are `Booking`'s
subject. Answers come in any order, get lost, or say that the session is over.
In between other people book, and any booking, also the one the page has just
made, may be cancelled or moved (by the club, or by the visitor elsewhere), up to
`MaxOthers` such changes; `changed` remembers which. `OwnBookingNotOffered` is
about a booking to which that has not happened: once it has, the slots are free
and rightly offered.

### WebPages

One of the pages queue, users, resources, audit log, dashboard is open. State:
`view`, `rows` (what it shows), `busy` (the one button that is disabled),
`filter`, `demo`, the questions and calls under way, `server` (the rows at the
API) and `home` (the room of each table). A form says at the click whatever was
typed into it: a value, that a room or table is out of use (`"off"`), and for a
table one of the rooms shown. The lists of the resources page are three requests
at once and then one for the tables of each room found (`todo`), answered one by
one; where tables have no route (404), a room has no tables. The admin gate
(`claims`), the session and the role decide whether a page loads. An opening is a
page, a visitor, an API and how many changes others will make: `Today` (the
API of this repository, without `/auth/me`, `/bookings/my` and `/meetups`),
`Complete` (with all routes), `Layered` (answers with two layers of `data`),
`Tableless` (that without tables) and `Early` (before the owners' routes). The front end sends cookies while the API
wants a Bearer token; a gateway that turns one into the other is assumed, and
its verdict is `signedIn` and `role`. Rows others changed, lost answers and
overlapping calls on one row are remembered in `muddled`, reloads that crossed
in `crossed`, and calls whose mark another call took in `hopped`.

## 3. Runs

No bound is part of the code. `Booking`: `Requests` are calls in flight at once,
`BookingIds` the rows, `MaxHistory` the history rows of a booking that is still
moved, `MaxEdits` the changes made by owners, `MaxTime` the clock. Every race in
`Booking` is one of a look with one write, for which two calls and two rows are
enough, and three calls where two changes race for what a third has read; ranges
are chosen that touch, clash, or run past midnight (refused). `Notifications`:
`MaxLog` are the requests after which bookings stay as they are; the window and
the page of a poll are parameters, and 160 requests with a page of 20 (the
default) behave as 5 and 1: what matters is whether more requests exist than a
poll reads. `Calls`, `MaxStarts`, `MaxCalls`, `MaxQueries` are calls at once and
in all; `MaxLoads`, `MaxPosts` what a visitor causes; `MaxOthers`, `MaxChanges`,
and in `WebPages` the `changes` of an opening, what is done by hand or by other
people. Interchangeable values are symmetric where no liveness is checked. Some
runs have a `VIEW`: it leaves out what no later step and no property of that run
depends on (signals in runs that say nothing of them, the number of a booking
that no longer counts, a poll nobody waits for), and says so in the MC module.
`CHECK_DEADLOCK FALSE` is due to these bounds, and to calls and pages that may
simply be over.

| Run | Checks | Shows |
|---|---|---|
| `BookingRaces` | `TypeOK`, `ImplementsLedger`, `DoubleBookingsAreRaces`, `ConfirmedClashesAreRaces`, `LimitAsCounted` | two calls of any kind race for two bookings of one table and die anywhere; a limit of one, and a stored limit of 0 |
| `BookingLife` | `StatusHistoryChain`, `FollowUpOnce`, `SignalsAccounted`, `StatusFollowsLifecycle`, `HistoryTellsTheChange`, `EndedBookingsStay` | three calls of any kind race for one booking and die anywhere, before and after the notice is over |
| `BookingAdmissions` | `AdmissionSound` | owners make two changes anywhere in two calls: accounts, tables (in use, and their room), closures, hours, rules |
| `NotificationsCrashes` | `NotificationsTypeOK`, `NothingSentAgain`, `RemindersAreRaces`, `TriedInOrder`, `ImplementsMailbox` | everything fails, the bot gives polls up and dies at every step; two polls of the API run at once; pages of two keys, so a batch goes stale while it is worked through |
| `NotificationsQueue` | `EventuallyDelivered` | sends, reports and polls fail, the bot gives polls up, bookings and accounts change; pages of one key, so every batch is a queue |
| `Accounts` | `AccountsTypeOK`, `EnteringFailsInRaceOnly`, `TokenTellsRoles`, `ConsentsAreComplete`, `BlockIsExplained`, `DeletionTimeKept`, `DeletedIsFinal` | an owner and a newcomer, three calls of any kind of which two run at once, one change by hand; calls die; two versions of a document |
| `Club` | `ClubTypeOK`, `OffersAreFree`, `OffersWhatCanBeBooked`, `OnlyAskedChanges` | two edits and one query at once; two rooms, tables and exceptions; a day of eight units with a slot step of two, opening at 2 (fits) or 3 (does not) |
| `WebBooking` | `FlowTypeOK`, `ShowsChosenDay`, `SelectionIsOffered`, `OwnBookingNotOffered`, `SendsWhatIsSummarised` | two days, one table, three slots of which others want the middle one; two questions and two requests under way, one booking, cancellation or move by others, lost answers, an ending session |
| `WebPages` | `PagesTypeOK`, `ShownIsTrue`, `OneCallPerButton`, `LoadsEnd`, `ButtonsComeBack` | eighteen openings: every page, visitor and API that behave differently; three rows, two or three clicks, lost answers, and one change by others where the opening has it |

Fairness. `EventuallyDelivered` assumes `FairSpec` of `Notifications`: the
worker's interval fires for ever and what a call began goes on (`WF`, an event
loop runs what is ready); polls stop failing and the bot stops dying at some
time, and stops giving polls up (a failed poll that looks like one with nothing
to answer does not count);
and a bot that tries for ever is heard by Telegram and by the API sometimes
(`SF`). Nothing is assumed about bookings, accounts or the clock. It holds while
all requests fit the window of a poll and everybody can be reached; the first is
refuted below, the second is the same weakness of the page (a key that always
fails stays in front), which `Unreachable = {}` leaves out. `LoadsEnd` and `ButtonsComeBack` assume that the API
answers and that an answer, or the loss of it, reaches the page (`WF` on `Serve`
and `Arrive`: `fetch` leaves nothing pending for ever); nobody has to use the
page. The other runs assume no fairness.

`NotificationsQueue` has one poll of the API, so that a tick after `GiveUp` waits
for the poll that was given up; liveness with two is beyond TLC's time here, and
the safety of overlapping polls is the subject of `NotificationsCrashes`.

### Findings

Each is a run whose property a document of the repository promises and TLC
refutes for the code as it is.

| Run | Counterexample | Promise |
|---|---|---|
| `BookingDoublePlacement` | two requests pass the overlap query, both insert | README.md:614, CONTRIBUTING.md:346 |
| `NotificationsStarved` | nothing fails, but the requests that a poll reads are all delivered or without recipient, and the next one is never read | TASKS.md:1405 |
| `PagesOpen` | an owner's page of resources never shows its rows: `owner-resources-manager.tsx:295-297` takes `.data` of what `apiRequest` has already unwrapped; only the API `Layered` answers as it expects | TASKS.md:1259, 1270 |

The first is one of a family: looks and writes of the bookings service that
nothing orders. Two confirmations may commit over each other, although
API_SPEC.md:1032 wants the final check in a transaction; a move may reach a
booking that was just cancelled; a user may pass the limit with two requests at
once (API_SPEC.md:902); a move may leave a cancellation late (API_SPEC.md:964);
and a signal is lost with its process (TASKS.md:1405). `ConfirmedClashesAreRaces`,
`EndedBookingsStay`, `HistoryTellsTheChange`, `LimitAsCounted` and
`SignalsAccounted` name each of these races and exclude every other cause. The
late cancellation has no property: with moves excepted only the guard is left.

## 4. Proofs

Every invariant and every action property of the runs is proved; what is left to
TLC is liveness and the findings. Each theorem is about every value of the
constants that satisfies the assumptions of its module: any number of calls,
users, tables, rows, ranges, days, documents, polls and kinds of failure.

### Booking

From `ConstantsAssumption` (ranges are pairs of naturals, there are finitely
many rows and calls) and `NoneAssumption` (NULL differs from every value):

| Theorem | States |
|---|---|
| `TypeCorrect` | `Spec => []TypeOK` |
| `LifecycleKept` | `Spec => StatusFollowsLifecycle` |
| `HistoryExplainsStatus` | `Spec => []StatusHistoryChain` |
| `ToldOnce` | `Spec => []FollowUpOnce` |
| `PlacementsAdmitted` | `Spec => AdmissionSound` |
| `OnlyRacesDoubleBook` | `RaceSpec => DoubleBookingsAreRaces` |
| `OnlyRacesConfirmTwice` | `RaceSpec => ConfirmedClashesAreRaces` |
| `OnlyMovesMistell` | `RaceSpec => HistoryTellsTheChange` |
| `OnlyMovesReachTheEnded` | `RaceSpec => EndedBookingsStay` |
| `CountedWithinLimit` | `RaceSpec => LimitAsCounted` |
| `SignalsOrLosses` | `RaceSpec => []SignalsAccounted` |
| `CallsImplementLedger` | `RaceSpec => ImplementsLedger` |

`RaceSpec` is `Spec` with the two history variables, which no action reads. None
of the theorems restricts which calls overlap or which of them fail.

`TypeOK` alone is not inductive: a commit copies what the call remembered, so
the invariant `Inv` adds `CallsOK`, which says what a call knows at each
statement (its row exists, its target is allowed from the status it read, its
range is well formed). The compare-and-set of `transitionBookingStatus` then
gives the lifecycle and the chain of changes. The other properties relate what a
call has read to what is there when it writes, so each has an invariant that
says what of the reading is still true:

- `FollowInv`: a booking whose status admits the change has no signal of it, and
  at most one call owes one; a status that was left is not reached again.
- `Admitted`: a placement that got so far has seen all closures of its arrival,
  and its checks hold of the club as it was then (`seen`, `asOf`).
- `RaceInv`: what a call has seen is still so of every booking that is not in
  `missed`. `OwnSeen`: its booking has the status, or the table and range, it
  read; `OthersSeen`: nothing it would have found is in its way; `CountSeen`: the
  user's active bookings are fewer than the limit. Each is kept by every step,
  since a write goes into `missed` of all who rely on a look; each of the
  properties is then a matter of the one step that commits. A clash of two
  bookings is split by who moved into whom (`PlacementClash`,
  `ConfirmationClash`): a change of status never makes a booking active, so it is
  a placement, or a confirmation, that relied on its look.
- The refinement reads a commit as `Request`, `Relocate` or `ChangeStatus` of the
  ledger, with the sight that is left to the call (`FreeIsFree`), and every other
  step as a look (`NotedIsMissed`).
- `BalanceInv`: for each booking and signal, the audit rows, the losses and the
  calls that still owe one are together as many as the history rows that want one
  (`Balanced`).

### Notifications

From `NotificationsAssumption`:

| Theorem | States |
|---|---|
| `NotificationsTypeCorrect` | `Spec => []NotificationsTypeOK` |
| `ReportsAreTrue` | `Spec => []ReportedHasArrived` (no run lists it: the mail box implies it) |
| `RecordedIsNotSentAgain` | `Spec => []NothingSentAgain` |
| `MessagesInOrder` | `Spec => []TriedInOrder` |
| `DeliveryIsAMailbox` | `Spec => ImplementsMailbox` |
| `OneReminderAPoll` | `Spec => []RemindersAreRaces` |

Types need `HandsFull`: a worker that has tried a message holds a key of its
batch, a poll about to insert knows its booking. `ArrivalInv` adds that the worker
reports only what Telegram has taken. `AgainInv` follows the batch through the
loop: while a key is in hand the others are as undelivered as when the page was
computed, but for orphans. `RemindersAreRaces` is inductive by itself: a poll gets
to its insert only while there is no reminder, and each insert takes one poll out
of those about to insert. For the order, `ReadInv` says that what a poll has read
is a prefix of the log without gaps, and `OrderInv` that among the keys of one
user neither what has been tried nor the batch leaves an earlier one out, whether
the page was cut short or was computed before the last reports. The mail box needs
the types, `ArrivalInv`, `AgainInv`, these two, and `AddressInv`: a batch holds
only messages to those they are for, although the recipients were read some
statements before (`TriesAreMail`, `MailStep`).

### Accounts

From `AccountsAssumption`: `AccountsTyped`, `EnteringFails`, `TokensTell`,
`ConsentsComplete`, `BlocksExplained`, `DeletionTimesKept`, `DeletedStayDeleted`
state the properties of the run, and two more which no run lists:
`RefusalsWroteNothing` (a refused change of the profile was not made, unless the
account was blocked before the second check) and `RevealsRecorded` (no contact is
given out without its audit row). All follow from one inductive invariant `Inv`: the types; per
call what it knows at each statement (`CallOK`, `Enters`, `Knows`, `Consented`,
`Standing`, `Wishes`, `Revealed`); `RaceInv`, which says that two calls of one
group about one person are in `overlapped`; `TokenInv`; and `Explained`: record
and status agree, or a call under way owes the row. The history variables are
what makes the properties sharp: each exception is a race that did happen.

### Club and Availability

From `ClubAssumption`, `IdAssumption`, `AvailabilityAssumption` and
`NoneAssumption`:

| Theorem | States |
|---|---|
| `EditsDoWhatIsAsked` | `Spec => OnlyAskedChanges` |
| `ClubIsTyped` | `Spec => []ClubTypeOK` |
| `WhatIsOfferedIsFree` | `Spec => []OffersAreFree` |
| `AnswersAreRight` | `Spec => []OffersWhatCanBeBooked` |

`ClubInv` says that the rows of `places` and of the exceptions have their types,
two inserts never take one id, and that the row a call has merged agrees with
the exception it is about, unless the call was overtaken; ids of deleted
exceptions do not come back, so a row read under an id is never another's.
`TypedInv` adds the rows of the club (`RowsTyped`), one exception a day
(`OneExceptionADay`: the upsert and its unique index), and that the room of a
table exists (`RoomsExist`, `RoomKnown`). Per query, `QueryInv` says what it
knows at each step, `FreeInv` that an obstacle it could have seen from its first
statement on is among its obstacles once it has asked for that kind, and
`StillInv` that while nothing is edited what it has read is still there.

What `buildAvailableSlots` computes is a recursive function, and the induction
theorems of the library cannot be used here. `SlotsOfTable` (the loop offers
exactly the steps from opening time on that end by closing time and overlap no
obstacle) is proved by a least counterexample instead: a nonempty set of naturals
has a least element (`Least`, from the well-foundedness of `<`), and if the loop
were wrong from some cursor on, the one with the fewest steps to go would be
wrong only if the one after it is.

### BookingFlow

From `FlowAssumption`: `FlowTypes`, `ChosenDayShown`, `SelectionsAreOffered`,
`OwnSlotsAreGone` and `RequestsAreSummarised` state the five properties of the
run. `DayInv` says that a question which has not been cancelled is about the
chosen day; `OwnInv` that, until somebody cancels or moves it, the booking the page
knows of is there and no answer which still counts was computed before it, or
else the page is about to ask anew.

### WebPages

From `PagesAssumption` and `NoneAssumption` (null is no row, value or button), for
every opening, number of rows, questions and calls:

| Theorem | States |
|---|---|
| `PagesAreTyped` | `Spec => []PagesTypeOK` |
| `WhatIsShownIsTrue` | `Spec => []ShownIsTrue` |
| `ButtonsCallOnce` | `Spec => []OneCallPerButton` |

`NextSplits` sorts the thirty-odd handlers into ten kinds of steps (a click that
sends a call, a question asked, served or answered, a call served or answered,
...) and each part of the invariant `PagesInv` has one lemma per kind that can
disturb it:

- `Typed`: per page what a call may be about (`CallOK`), what a question has still
  to ask (`QuestionOK`), and that the room of a table is a room (`HomesOK`).
- `Marks`: a call whose button does not hold the busy mark is in `hopped`. With
  it `OneCallPerButton` is inductive.
- `Order`: the pages other than resources ask one question at a time, and none
  while or after they send calls: clicks need the rows, and no result reloads.
- `CallsFresh`: there, a row nobody else changed has at most one call, and what
  that call's answer says of the row is still so.
- `ListsFresh`: what was listed of a row is what the API has, or a served call
  will still tell (`Told`); of a question under way, so far as its requests have
  been served (`Served`). The step that needs thought is a call carried out
  between the listing and its answer: it is in `Told` until it is shown. On the
  resources page a table is listed only if its room was, so a table is compared
  where neither it nor its room was changed by others (`Clean`, `TablesOfNoRoom`).
- `LogFresh`: the audit log, which no call changes, shows what the filter asked for.

### Only model-checked

Liveness (`EventuallyDelivered`, `LoadsEnd`, `ButtonsComeBack`) rests on fairness
and `ENABLED`, which the prover does not reason about. The findings are
counterexamples, which TLC gives.

## 5. Not modelled

- Commands and webhook of the bot: text in, text out, one call of the API each,
  no state of their own.
- In the front end: the forms for profile and privacy (one call each), the
  completion form (which sends nothing), public pages, texts and layout.
- Logging, error formats, health checks, seed and CI: no state that a property
  could be about. The signature of the Telegram login is a pure function.
- Expiry: the statuses `completed` and `expired` are never set, and no document
  promises when they should be, so there is nothing to compare the code with.

## 6. Plan

Done: `Booking` with its ledger, `Notifications`, `Accounts`, `Club` with
`Availability`, `BookingFlow`, `WebPages`, and the proofs of section 4.

Left: the composition of `Booking`'s outbox with the log of `Notifications`.
