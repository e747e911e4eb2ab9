---------------------------- MODULE MCNotifications ----------------------------
(* Small instances of the delivery of messages for TLC. *)
EXTENDS NotificationsProperties, TLC

CONSTANTS u1, u2

Booker == [b \in Bookings |-> u1]

Admins == {u2}

(* What the rest of a run depends on.  Nothing reads the rows of failures; *)
(* polls have no names; and of a poll that nobody waits for, once it has   *)
(* no reminder left to write, all that is to come is its end.              *)
Forgotten(p) ==
    /\ bot.poll # p
    /\ \/ api[p].step \in {"logs", "recipients", "delivered"}
       \/ api[p].step = "exists" /\ api[p].due = {}

PollView(p) == IF Forgotten(p) THEN [FreePoll EXCEPT !.step = "logs"] ELSE api[p]

OtherPolls == {p \in Polls : bot.poll # p}

Rest == <<bookings, accounts, now, log, delivered, orphans, sent, tried,
          bot.step, bot.batch, bot.key,
          IF bot.poll = None THEN None ELSE PollView(bot.poll),
          {<<PollView(p), Cardinality({q \in OtherPolls : PollView(q) = PollView(p)})>> :
             p \in OtherPolls}>>

=============================================================================
