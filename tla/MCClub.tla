------------------------------- MODULE MCClub -------------------------------
(* Small values for TLC: a day of eight units, a slot step of two; the     *)
(* club opens at 2 or at 3, which does not fit the step.                   *)
EXTENDS AvailabilityProperties, TLC

MCDayOf == [d \in Dates |-> CHOOSE day \in Days : TRUE]

Afternoon == {[start |-> 1, end |-> 3], [start |-> 4, end |-> 6],
              [start |-> 2, end |-> 5]}

ClosedDay == [isClosed |-> TRUE, opensAt |-> None, closesAt |-> None]

From(opens) == [isClosed |-> FALSE, opensAt |-> opens, closesAt |-> 6]

MissingOrOpen == {None, From(2)}

NoneOrSome == {None, ClosedDay, From(2), From(3)}

NoHours == [type |-> None, opensAt |-> None, closesAt |-> None]

SomeHours == {[NoHours EXCEPT !.opensAt = 3], [NoHours EXCEPT !.closesAt = 3],
              [NoHours EXCEPT !.type = "closed"],
              [type |-> "special_hours", opensAt |-> 2, closesAt |-> 6]}

NoTable == [room |-> None, number |-> None, capacity |-> None, isActive |-> None]

SomeTables == {[NoTable EXCEPT !.isActive = TRUE], [NoTable EXCEPT !.capacity = 4]} \cup
              {[NoTable EXCEPT !.room = r] : r \in Rooms}

(* The third asks for one and a half slots and is refused. *)
SomeQuestions == {[minutes |-> None, partySize |-> None, roomId |-> None],
                  [minutes |-> 4, partySize |-> 4, roomId |-> None],
                  [minutes |-> 3, partySize |-> None, roomId |-> None]} \cup
                 {[minutes |-> None, partySize |-> None, roomId |-> r] : r \in Rooms}

Alike == Permutations(Calls) \cup Permutations(Exceptions) \cup Permutations(Rooms)
             \cup Permutations(Tables)

=============================================================================
