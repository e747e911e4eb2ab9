------------------------- MODULE WebPagesProperties -------------------------
(* What the pages that list and act on rows promise.                       *)
EXTENDS WebPages

(* Type invariant of the page, the messages and the rows at the API.       *)
PagesTypeOK ==
    /\ page \in Pages /\ api \in Deployments
    /\ {claims, role} \subseteq Everyone \cup {"none"}
    /\ server \in [Rows -> Statuses[page]]
    /\ home \in [Rows -> Rows \cup {None}]
    /\ view \in {"checking", "gate error", "loading", "ready", "unauthorized",
                 "forbidden", "error"}
    /\ rows \in [Rows -> Statuses[page] \cup Filters \cup {None}]
    /\ filter \in Filters /\ demo \in BOOLEAN
    /\ busy # None => \E c \in calls : c.button = busy
    /\ \A l \in loads : l.n \in 1..asked
    /\ \A c \in calls : c.n \in 1..begun
    /\ muddled \subseteq Rows
    /\ hopped \subseteq {c.n : c \in calls}

(* What a settled page shows of a row is what the API has: each answer     *)
(* brings the row to its new status, whatever else was under way.  Not so  *)
(* for rows others changed, rows whose answer was lost, rows with two      *)
(* calls under way at once (their answers may arrive in the other order),  *)
(* and on the resources page after two reloads that crossed.               *)
ShownIsTrue ==
    view = "ready" /\ ~demo /\ loads = {} /\ (page = "resources" => ~crossed) =>
        \A r \in Rows :
            {r, home[r]} \cap (muddled \cup {c.row : c \in calls}) = {} =>
                \/ page = "audit" /\ rows[r] = filter
                \/ rows[r] = server[r]
                \/ rows[r] = None /\ ~IsListed(r)

(* One button never has two calls under way, unless another call took the  *)
(* page's only busy mark in between: a click elsewhere, or an answer to a  *)
(* call elsewhere, enables the button again.                               *)
OneCallPerButton ==
    \A a, b \in calls :
        a.n < b.n /\ SameMark(a.button, b.button) => a.n \in hopped

(* Every load ends, in rows, a message or a way to try again.              *)
LoadsEnd ==
    view \in {"checking", "loading"} ~> view \notin {"checking", "loading"}

(* Every button that a call disabled comes back, whatever the answer.      *)
ButtonsComeBack == busy # None ~> busy = None

(* An owner with a session who opens a page of the admin area gets to see  *)
(* it, while nothing fails: "Owner can manage rooms".                      *)
OwnersGetIn == role = "owner" /\ claims = "owner" /\ page \in AdminPages ~> view = "ready"

=============================================================================
