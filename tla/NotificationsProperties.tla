------------------------ MODULE NotificationsProperties ------------------------
(* What the delivery of messages promises. *)
EXTENDS Notifications

(* Every variable has its type. *)
NotificationsTypeOK ==
    /\ bookings \in [Bookings -> [status: {"none", "pending", "confirmed", "cancelled"},
                                  start: Starts \cup {0}]]
    /\ accounts \in [Users -> {"active", "blocked", "deleted"}]
    /\ log \in Seq(Request)
    /\ now \in Nat
    /\ api \in [Polls -> PollState]
    /\ bot \in BotState
    /\ delivered \subseteq Key /\ failed \subseteq Key /\ orphans \subseteq Key
    /\ sent \subseteq Key /\ tried \subseteq Key

(* What the worker is about to send has not been reported as delivered,    *)
(* unless the bot had died or given up when that report was committed: a   *)
(* message goes out again only while its report is missing.  The page was  *)
(* computed before the worker began to report its keys.                    *)
NothingSentAgain == bot.step = "sending" => bot.batch \cap delivered \subseteq orphans

(* A report says that a message arrived, so it has, also when the report   *)
(* is committed after the bot has died or given it up.                     *)
ReportedHasArrived == delivered \cup orphans \subseteq sent

(* Polls, pages, batches, failures and deaths taken away, what is left is   *)
(* a mail box: nobody is told what is meant for another, nothing is told   *)
(* out of turn or again once it is on record, and only what has arrived is *)
(* recorded.                                                               *)
Mail == INSTANCE Mailbox WITH Rows <- Request, requests <- log, arrived <- sent,
                              recorded <- delivered, late <- orphans

ImplementsMailbox == Mail!Spec

(* The reminders of a booking that are in the audit log. *)
Reminders(b) ==
    {i \in 1 .. Len(log) : log[i].kind = "booking_reminder_user" /\ log[i].booking = b}

(* The polls that have missed a reminder of b and are about to write one. *)
Inserting(b) == {p \in Polls : api[p].step = "create" /\ api[p].booking = b}

(* Looking for a reminder and writing it are two statements, and a poll    *)
(* that the bot has given up runs beside the next, so a booking may be     *)
(* announced twice; but not again at every tick: once the first reminder   *)
(* is there, only the polls that searched before it add theirs, and all of *)
(* them ran at the same time.                                              *)
RemindersAreRaces ==
    \A b \in Bookings :
        Reminders(b) # {} =>
            Cardinality(Reminders(b)) + Cardinality(Inserting(b)) <= Cardinality(Polls)

(* Messages to one user are tried in the order of their requests, whatever *)
(* is paged, sent again or lost.                                           *)
TriedInOrder ==
    \A k \in tried : \A i \in 1 .. k.request :
        log[i].to = k.to => [request |-> i, to |-> k.to] \in tried

Receives(k) ==
    k.request <= Len(log) /\ k.to \in Recipients(k.request, AdminRecipients, LiveUsers)

(* Every message is delivered in the end, unless its recipient goes away.  *)
(* It holds while there are no more requests than a poll reads.            *)
EventuallyDelivered ==
    \A k \in Keys :
        Receives(k) ~> (k \in delivered \/ ~ Receives(k))

=============================================================================
