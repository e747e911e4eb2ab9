------------------------- MODULE AccountsProperties -------------------------
(* What the accounts promise.                                              *)
EXTENDS Accounts

(* Type invariant of the rows, the tokens and the calls.                   *)
AccountsTypeOK ==
    /\ account \in [People -> Account \cup {None}]
    /\ consents \in [People -> SUBSET Docs]
    /\ active \subseteq Docs
    /\ record \in [People -> Notes \cup {None}]
    /\ reveals \subseteq Nat
    /\ tokens \subseteq [user: People, roles: SUBSET Roles, grant: Nat]
    /\ pc \in [Calls -> Steps]
    /\ loc \in [Calls -> Locals]
    /\ {starts, changes} \subseteq Nat
    /\ grants \in [People -> Nat]
    /\ moved \subseteq Calls /\ renewed \subseteq Calls

(* Entering fails only for a first login that another first contact of the *)
(* same person overtakes; the bot's link looks again and never fails.      *)
EnteringFailsInRaceOnly ==
    \A c \in Calls : loc[c].answer = "failed" =>
        loc[c].kind = "login" /\ <<"enter", loc[c].target>> \in overlapped

(* The roles in a token are those the account had when the login read it:  *)
(* while nobody changed them since, they are the account's roles.  (After  *)
(* a change the token keeps the old ones, even one issued after it.)       *)
TokenTellsRoles ==
    \A t \in tokens :
        /\ account[t.user] # None
        /\ t.grant = grants[t.user] => t.roles \cap Staff = account[t.user].roles \cap Staff

(* "No consent required" means: every required document that is active has *)
(* been accepted, unless one was published while the call was under way.   *)
ConsentsAreComplete ==
    \A c \in Calls \ renewed : loc[c].answer = "ok" /\ ~loc[c].required =>
        Required \subseteq {TypeOf[d] : d \in active \cap consents[loc[c].target]}

(* A change of the profile that is refused has not been made, unless the   *)
(* account was blocked between the write and the second check.             *)
RefusedWroteNothing ==
    \A c \in Calls : loc[c].answer = "forbidden" /\ loc[c].wrote => c \in moved

(* A wish to be deleted keeps its time: asking again does not renew it,    *)
(* unless two requests are under way at once.                              *)
DeletionTimeKept == [][
    \A p \in People : account[p] # None /\ account'[p] # None =>
        \/ account[p].deletion \in {None, account'[p].deletion}
        \/ <<"delete request", p>> \in overlapped]_vars

(* Nobody brings a deleted account back, unless it was deleted after a     *)
(* call that blocks or unblocks it had found it.                           *)
DeletedIsFinal == [][
    \A p \in People :
        account[p] # None /\ account[p].status = "deleted" /\ account'[p].status # "deleted"
            => \E c \in moved : loc[c].target = p /\ loc[c].kind \in Moderation]_vars

(* The audit log explains who is blocked: the last row about a user's      *)
(* block agrees with the status, unless two such calls overlapped or one   *)
(* died between the change and its row, or is under way.                   *)
BlockIsExplained ==
    \A p \in People : account[p] # None /\ account[p].status # "deleted" =>
        \/ (account[p].status = "blocked") = (record[p] = "user.block")
        \/ <<"moderate", p>> \in overlapped
        \/ \E c \in InFlight : loc[c].target = p /\ loc[c].kind \in Moderation

(* No emergency contact is given out without its row in the audit log.     *)
RevealIsRecorded ==
    \A c \in Calls : loc[c].kind = "reveal" /\ loc[c].answer = "ok" => loc[c].n \in reveals

=============================================================================
