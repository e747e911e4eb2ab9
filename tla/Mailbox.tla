------------------------------- MODULE Mailbox -------------------------------
(***************************************************************************)
(* What the delivery of messages promises, without polls, pages, batches   *)
(* or a worker: a request is kept, told only to those it is for, to each   *)
(* of them after what came before it, and told again only until it is on   *)
(* record that it arrived.  Notifications implements this, whatever fails. *)
(***************************************************************************)
EXTENDS Naturals, Sequences

CONSTANTS
    Rows,       \* requests; row.to is whom to tell, None for the staff
    Users, Staff, None

VARIABLES
    requests,   \* oldest first
    tried,      \* messages that were sent, with or without success
    arrived,    \* messages that were taken
    recorded,   \* messages that are on record as delivered
    late        \* messages whose sender gave up before it saw the record

mail == <<requests, tried, arrived, recorded, late>>

Messages == [request: 1 .. Len(requests), to: Users]

IsFor(k) ==
    LET to == requests[k.request].to
    IN  k.to \in IF to = None THEN Staff ELSE {to}

(* What was meant for the same user before has been tried. *)
InTurn(k) ==
    \A i \in 1 .. k.request :
        i < k.request /\ requests[i].to = k.to => [request |-> i, to |-> k.to] \in tried

Ask(row) ==
    /\ requests' = Append(requests, row)
    /\ UNCHANGED <<tried, arrived, recorded, late>>

Try(k) ==
    /\ IsFor(k) /\ InTurn(k)
    /\ k \in recorded => k \in late
    /\ tried' = tried \cup {k}
    /\ arrived' \in {arrived, arrived \cup {k}}
    /\ UNCHANGED <<requests, recorded, late>>

Record(k) ==
    /\ recorded' = recorded \cup {k}
    /\ UNCHANGED <<requests, tried, arrived, late>>

LoseSight(k) ==
    /\ late' = late \cup {k}
    /\ UNCHANGED <<requests, tried, arrived, recorded>>

Init ==
    /\ requests = <<>>
    /\ tried = {} /\ arrived = {} /\ recorded = {} /\ late = {}

Next ==
    \/ \E row \in Rows : Ask(row)
    \/ \E k \in Messages : Try(k)
    \/ \E k \in arrived : Record(k) \/ LoseSight(k)

Spec == Init /\ [][Next]_mail

=============================================================================
