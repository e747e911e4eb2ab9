----------------------------- MODULE MCWebPages -----------------------------
(* Small values for TLC: who opens which page, on what API.                *)
EXTENDS WebPagesProperties, TLC

(* The API of this repository: no /auth/me, no /bookings/my, no /meetups.  *)
Today == [routes |-> AdminPages \cup {"tables"}, wrapped |-> 1]

(* An API with every route the front end asks for. *)
Complete == [routes |-> Pages \cup {"session", "tables"}, wrapped |-> 1]

(* An API whose answers carry two layers of `data`, as one page expects,   *)
(* and one that has no tables.                                             *)
Layered == [routes |-> Pages \cup {"session", "tables"}, wrapped |-> 2]

Tableless == [Layered EXCEPT !.routes = @ \ {"tables"}]

(* An API from before the owners' routes. *)
Early == [routes |-> {"queue", "resources"}, wrapped |-> 1]

Of == [queue |-> "booking", users |-> "user", audit |-> "event", dashboard |-> "booking"]

First == CHOOSE row \in Rows : TRUE

Second == CHOOSE row \in Rows \ {First} : TRUE

(* The first row, the second and the other ones. *)
Three(a, b, c) == [r \in Rows |-> CASE r = First -> a [] r = Second -> b [] OTHER -> c]

Open(on, of, as, claiming) ==
    [page |-> of, api |-> on, role |-> as, claims |-> claiming, changes |-> 1,
     kind |-> [r \in Rows |-> Of[of]], home |-> [r \in Rows |-> None],
     server |-> CASE of = "queue" -> Three("pending", "pending", "cancelled_by_user")
                  [] of = "users" -> Three("active", "blocked", "active")
                  [] of = "dashboard" -> Three("pending", "confirmed", "cancelled_by_user")
                  [] of = "audit" -> Three("logged", "logged", "logged")]

OpenResources(on, as, kinds, homes, values, changing) ==
    [page |-> "resources", api |-> on, role |-> as, claims |-> as, changes |-> changing,
     kind |-> kinds, home |-> homes, server |-> values]

(* Two rooms, and a table in the first. *)
RoomsAndTable(on, as) ==
    OpenResources(on, as, Three("room", "table", "room"), Three(None, First, None),
                  Three("v1", "v1", "v1"), 0)

RoomToCreate(on, as) ==
    OpenResources(on, as, Three("room", "table", "room"), Three(None, None, None),
                  Three("absent", "absent", "off"), 1)

HoursAndException(on, as) ==
    OpenResources(on, as, Three("hours", "exception", "exception"), Three(None, None, None),
                  Three("v1", "absent", "v1"), 0)

MCOpenings ==
    {Open(Today, "queue", "admin", "admin"),
     Open(Today, "queue", "user", "admin"),
     Open(Today, "queue", "none", "admin"),
     Open(Today, "queue", "owner", "none"),
     Open(Complete, "queue", "user", "none"),
     Open(Today, "users", "owner", "owner"),
     Open(Today, "users", "admin", "admin"),
     Open(Early, "users", "owner", "owner"),
     Open(Today, "audit", "owner", "owner"),
     Open(Early, "audit", "owner", "owner"),
     Open(Complete, "audit", "owner", "none"),
     Open(Today, "dashboard", "user", "none"),
     Open(Complete, "dashboard", "user", "none"),
     RoomsAndTable(Today, "owner"),
     RoomsAndTable(Layered, "owner"),
     RoomsAndTable(Tableless, "owner"),
     RoomToCreate(Layered, "owner"),
     HoursAndException(Layered, "owner")}

(* Two calls make answers and reloads cross; three make a call lose its    *)
(* busy mark to another row's before its own button is used again.         *)
TwoOrThree == [p \in Pages |-> IF p = "users" THEN 3 ELSE 2]

OwnerOpensResources == {RoomsAndTable(Today, "owner")}

=============================================================================
