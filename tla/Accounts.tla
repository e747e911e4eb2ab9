------------------------------ MODULE Accounts ------------------------------
(***************************************************************************)
(* The accounts of the API: entering by Telegram (AuthService), the own    *)
(* profile and the wish to be deleted (MeService), consents to the legal   *)
(* documents (LegalService), blocking and the emergency contact            *)
(* (OwnerService).  Every call is a coroutine that runs one database       *)
(* statement per step; statements of other calls fall in between.          *)
(***************************************************************************)
EXTENDS Naturals

CONSTANTS
    People,      \* Telegram users; telegramId is the unique key of an account
    Existing,    \* those of them who have an account from the start
    Boss,        \* the one of those who owns the club
    Grants,      \* sets of roles given or taken by hand
    Docs,        \* versions of legal documents
    TypeOf,      \* the type of each
    Required,    \* the types LEGAL_REQUIRED_DOCUMENT_TYPES names
    Calls,       \* calls in flight
    None,        \* null
    MaxStarts,   \* bound: calls made
    MaxChanges   \* bound: changes made by hand

Staff == {"admin", "owner"}

Answers == {"ok", "bad request", "forbidden", "missing", "conflict", "failed"}

Notes == {"user.block", "user.unblock"}

Roles == {"user", "admin", "owner"}

Statuses == {"active", "blocked", "deleted"}

Moderation == {"block", "unblock"}

Entering == {"login", "link"}

Mine == {"profile", "delete request", "consents"}

Kinds == Entering \cup Mine \cup Moderation \cup {"reveal"}

(* deletion is the number of the request, in place of its time.  The names *)
(* Telegram gives are left out: whether they have changed is a free choice. *)
Account == [status: Statuses, roles: SUBSET Roles, phone: BOOLEAN,
            deletion: Nat \cup {None}]

(* n is the number of the call, target whom it is about; roles and active  *)
(* are what it has read; wrote, required and answer its outcome.           *)
Locals == [n: Nat, kind: Kinds, target: People, docs: SUBSET Docs,
           roles: SUBSET Roles, grant: Nat, active: SUBSET Docs,
           wrote: BOOLEAN, required: BOOLEAN,
           answer: Answers \cup {None}]

ASSUME AccountsAssumption ==
    /\ None \notin Account \cup Answers \cup Notes
    /\ Existing \subseteq People /\ Boss \in Existing
    /\ \A d \in Docs : TypeOf[d] \in Required
    /\ Grants \subseteq SUBSET Staff
    /\ {MaxStarts, MaxChanges} \subseteq Nat

Steps == {"idle", "find", "find again", "create", "rename", "required documents",
          "required consents", "conclude", "find documents", "create consents", "read",
          "write", "read again", "audit", "answered"}

VARIABLES
    account,     \* the rows of users, None where there is none
    consents,    \* the documents each has accepted
    active,      \* the active documents
    record,      \* action of the last audit row about a block of each
    reveals,     \* calls with an audit row user.emergency_phone_reveal
    tokens,      \* access tokens given out: whose, with which roles
    pc,          \* the statement each call is about to run
    loc,         \* its local variables
    starts, changes,
    grants,      \* history: how often the roles of each have changed
    overlapped,  \* history: calls of one kind about one person that were
                 \* under way at once, or died
    moved,       \* history: calls whose target changed its status meanwhile
    renewed      \* history: calls during which the active documents changed

db == <<account, consents, active, record, reveals, tokens>>
bounds == <<starts, changes>>
history == <<grants, overlapped, moved, renewed>>
vars == <<account, consents, active, record, reveals, tokens, pc, loc, starts, changes,
          grants, overlapped, moved, renewed>>

Group(kind) ==
    IF kind \in Entering THEN "enter" ELSE IF kind \in Moderation THEN "moderate" ELSE kind

InFlight == {c \in Calls : pc[c] # "idle"}

Fresh == [status |-> "active", roles |-> {"user"}, phone |-> FALSE, deletion |-> None]

Nothing == [n |-> 0, kind |-> "login", target |-> Boss, docs |-> {}, roles |-> {},
            grant |-> 0, active |-> {}, wrote |-> FALSE, required |-> TRUE, answer |-> None]

Init ==
    /\ \E phone \in [Existing -> BOOLEAN] :
        account = [p \in People |->
            IF p \notin Existing THEN None
            ELSE [status |-> "active", deletion |-> None, phone |-> phone[p],
                  roles |-> IF p = Boss THEN {"user", "owner"} ELSE {"user"}]]
    /\ consents = [p \in People |-> {}]
    /\ active \in SUBSET Docs
    /\ record = [p \in People |-> None]
    /\ reveals = {}
    /\ tokens = {[user |-> p, roles |-> account[p].roles, grant |-> 0] : p \in Existing}
    /\ pc = [c \in Calls |-> "idle"]
    /\ loc = [c \in Calls |-> Nothing]
    /\ starts = 0 /\ changes = 0
    /\ grants = [p \in People |-> 0]
    /\ overlapped = {} /\ moved = {} /\ renewed = {}

-----------------------------------------------------------------------------
(* Steps of a call. *)

Goto(c, step) == pc' = [pc EXCEPT ![c] = step]

Answer(c, what) ==
    /\ Goto(c, "answered")
    /\ loc' = [loc EXCEPT ![c] = [@ EXCEPT !.answer = what]]

FirstStatement(kind) ==
    CASE kind \in Entering -> "find"
      [] kind = "consents" -> "find documents"
      [] OTHER -> "read"

Start(c, kind, target, docs) ==
    /\ pc[c] = "idle"
    /\ starts < MaxStarts
    /\ starts' = starts + 1
    /\ Goto(c, FirstStatement(kind))
    /\ loc' = [loc EXCEPT ![c] = [Nothing EXCEPT !.n = starts + 1, !.kind = kind,
                                    !.target = target, !.docs = docs]]
    /\ overlapped' = overlapped \cup
        {<<Group(kind), target>> : d \in {d \in InFlight :
            loc[d].target = target /\ Group(loc[d].kind) = Group(kind)}}
    /\ UNCHANGED <<db, changes, grants, moved, renewed>>

(* JwtAuthGuard and RolesGuard: the roles are those of the token.          *)
canActivate(t, kind) ==
    CASE kind \in Moderation -> "owner" \in t.roles
      [] kind = "reveal" -> t.roles \cap Staff # {}
      [] OTHER -> TRUE

Enter(c) ==
    \E kind \in Entering, p \in People : Start(c, kind, p, {})

Ask(c) ==
    \E t \in tokens, kind \in Kinds \ Entering :
        /\ canActivate(t, kind)
        /\ \E target \in IF kind \in Mine THEN {t.user} ELSE People,
              docs \in IF kind = "consents" THEN {{d} : d \in Docs} ELSE {{}} :
            Start(c, kind, target, docs)

(* A call's own status change does not count for itself. *)
Meanwhile(c, p) == {d \in InFlight \ {c} : loc[d].target = p}

-----------------------------------------------------------------------------
(* AuthService: authenticateIdentity and linkTelegramBotUser. *)

findByTelegramId(c) ==
    LET p == loc[c].target
    IN  /\ pc[c] \in {"find", "find again"}
        /\ \/ /\ account[p] = None
              /\ IF pc[c] = "find" THEN Goto(c, "create") /\ UNCHANGED loc
                                  ELSE Answer(c, "failed")
           \/ /\ account[p] # None
              /\ \/ Goto(c, "required documents")
                 \/ pc[c] = "find" /\ Goto(c, "rename")
              /\ loc' = [loc EXCEPT ![c] = [@ EXCEPT !.roles = account[p].roles, !.grant = grants[p]]]
        /\ UNCHANGED <<db, bounds, history>>

(* Mutant of createUser: a user who exists after all makes the link fail.  *)
CreateUserOrFail(c) ==
    LET p == loc[c].target
    IN  /\ pc[c] = "create"
        /\ \/ /\ account[p] = None
              /\ account' = [account EXCEPT ![p] = Fresh]
              /\ Goto(c, "required documents")
              /\ loc' = [loc EXCEPT ![c] = [@ EXCEPT !.roles = Fresh.roles, !.grant = grants[p]]]
           \/ /\ account[p] # None
              /\ Answer(c, "failed")
              /\ UNCHANGED account
        /\ UNCHANGED <<consents, active, record, reveals, tokens, bounds, history>>

(* createUserFromTelegramIdentity, createUserFromTelegramBotLink: with the *)
(* unique key taken, the bot's link looks again and the login fails.       *)
createUser(c) ==
    LET p == loc[c].target
    IN  /\ pc[c] = "create"
        /\ \/ /\ account[p] = None
              /\ account' = [account EXCEPT ![p] = Fresh]
              /\ Goto(c, "required documents")
              /\ loc' = [loc EXCEPT ![c] = [@ EXCEPT !.roles = Fresh.roles, !.grant = grants[p]]]
           \/ /\ account[p] # None /\ loc[c].kind = "link"
              /\ Goto(c, "find again")
              /\ UNCHANGED <<account, loc>>
           \/ /\ account[p] # None /\ loc[c].kind = "login"
              /\ Answer(c, "failed")
              /\ UNCHANGED account
        /\ UNCHANGED <<consents, active, record, reveals, tokens, bounds, history>>

updateTelegramMetadata(c) ==
    /\ pc[c] = "rename"
    /\ Goto(c, "required documents")
    /\ UNCHANGED <<db, loc, bounds, history>>

(* hasAcceptedRequiredConsents: the active documents, then the consents.   *)
RequiredDocuments(c) ==
    /\ pc[c] = "required documents"
    /\ loc' = [loc EXCEPT ![c] = [@ EXCEPT !.active = active]]
    /\ Goto(c, IF {TypeOf[d] : d \in active} = Required THEN "required consents"
                                                         ELSE "conclude")
    /\ UNCHANGED <<db, bounds, history>>

(* Mutant of RequiredConsents: any consent will do, of any version. *)
RequiredConsentsOfOld(c) ==
    /\ pc[c] = "required consents"
    /\ loc' = [loc EXCEPT ![c] = [@ EXCEPT !.required = consents[loc[c].target] = {}]]
    /\ Goto(c, "conclude")
    /\ UNCHANGED <<db, bounds, history>>

Unaccepted(c) ==
    ~(Required \subseteq {TypeOf[d] : d \in loc[c].active \cap consents[loc[c].target]})

RequiredConsents(c) ==
    /\ pc[c] = "required consents"
    /\ loc' = [loc EXCEPT ![c] = [@ EXCEPT !.required = Unaccepted(c)]]
    /\ Goto(c, "conclude")
    /\ UNCHANGED <<db, bounds, history>>

(* Mutant of mapDatabaseRolesToAppRoles: without a role one is a guest. *)
MapNoRoleToGuest(roles) == IF roles = {} THEN {"guest"} ELSE roles

mapDatabaseRolesToAppRoles(roles) == IF roles = {} THEN {"user"} ELSE roles

(* Mutant of issueAccessToken: everybody with a phone is staff. *)
IssueStaffToken(c) ==
    tokens \cup {[user |-> loc[c].target, roles |-> loc[c].roles \cup {"admin"},
                  grant |-> loc[c].grant]}

issueAccessToken(c) ==
    tokens \cup {[user |-> loc[c].target, grant |-> loc[c].grant,
                  roles |-> mapDatabaseRolesToAppRoles(loc[c].roles)]}

Conclude(c) ==
    /\ pc[c] = "conclude"
    /\ Answer(c, "ok")
    /\ tokens' = IF loc[c].kind = "login" THEN issueAccessToken(c) ELSE tokens
    /\ UNCHANGED <<account, consents, active, record, reveals, bounds, history>>

-----------------------------------------------------------------------------
(* LegalService.acceptConsents. *)

findActiveDocumentsByTypeVersion(c) ==
    /\ pc[c] = "find documents"
    /\ IF loc[c].docs \subseteq active
       THEN Goto(c, "create consents") /\ UNCHANGED loc
       ELSE Answer(c, "bad request")
    /\ UNCHANGED <<db, bounds, history>>

createConsentRecords(c) ==
    /\ pc[c] = "create consents"
    /\ consents' = [consents EXCEPT ![loc[c].target] = @ \cup loc[c].docs]
    /\ Goto(c, "required documents")
    /\ UNCHANGED <<account, active, record, reveals, tokens, loc, bounds, history>>

-----------------------------------------------------------------------------
(* MeService. *)

(* Mutant of AfterRead: a deleted account is found as well. *)
AfterAnyRead(kind, seen) ==
    IF seen = None THEN "missing"
    ELSE IF kind \in Mine /\ seen.status # "active" THEN "forbidden" ELSE "go on"

(* The first read of MeService and OwnerService, and what each makes of it. *)
AfterRead(kind, seen) ==
    CASE seen = None -> "missing"
      [] seen # None /\ kind \in Moderation /\ seen.status = "deleted" -> "missing"
      [] seen # None /\ kind \in Mine /\ seen.status # "active" -> "forbidden"
      [] seen # None /\ kind = "delete request" /\ seen.status = "active"
           /\ seen.deletion # None -> "ok"
      [] seen # None /\ kind = "reveal" /\ ~seen.phone -> "conflict"
      [] OTHER -> "go on"

Read(c) ==
    LET kind == loc[c].kind
        seen == account[loc[c].target]
        then == AfterRead(kind, seen)
    IN  /\ pc[c] = "read"
        /\ \/ /\ then = "go on"
              /\ Goto(c, IF kind = "reveal" THEN "audit" ELSE "write")
              /\ UNCHANGED loc
           \/ /\ then # "go on"
              /\ Answer(c, then)
        /\ UNCHANGED <<db, bounds, history>>

(* updateProfile and updatePrivacy write, read again and check again.  The *)
(* address a profile names may be another account's (mapPersistenceError). *)
updateProfile(c) ==
    /\ pc[c] = "write" /\ loc[c].kind = "profile"
    /\ \/ /\ \E phone \in BOOLEAN :
                account' = [account EXCEPT ![loc[c].target].phone = phone]
          /\ loc' = [loc EXCEPT ![c] = [@ EXCEPT !.wrote = TRUE]]
          /\ Goto(c, "read again")
       \/ /\ \E other \in People \ {loc[c].target} : account[other] # None
          /\ Answer(c, "conflict")
          /\ UNCHANGED account
    /\ UNCHANGED <<consents, active, record, reveals, tokens, bounds, history>>

ReadAgain(c) ==
    /\ pc[c] = "read again"
    /\ Answer(c, IF account[loc[c].target].status = "active" THEN "ok" ELSE "forbidden")
    /\ UNCHANGED <<db, bounds, history>>

requestDeletion(c) ==
    /\ pc[c] = "write" /\ loc[c].kind = "delete request"
    /\ account' = [account EXCEPT ![loc[c].target].deletion = loc[c].n]
    /\ Answer(c, "ok")
    /\ UNCHANGED <<consents, active, record, reveals, tokens, bounds, history>>

-----------------------------------------------------------------------------
(* OwnerService. *)

Moderate(c) ==
    LET p == loc[c].target
        status == IF loc[c].kind = "block" THEN "blocked" ELSE "active"
    IN  /\ pc[c] = "write" /\ loc[c].kind \in Moderation
        /\ account' = [account EXCEPT ![p].status = status]
        /\ moved' = IF status = account[p].status THEN moved ELSE moved \cup Meanwhile(c, p)
        /\ Goto(c, "audit")
        /\ UNCHANGED <<consents, active, record, reveals, tokens, loc, bounds, grants,
                       overlapped, renewed>>

(* Mutant of writeUserModerationAudit: lifting a block is not recorded. *)
RecordBlocksOnly(c) ==
    /\ pc[c] = "audit" /\ loc[c].kind \in Moderation
    /\ record' = [record EXCEPT ![loc[c].target] = IF loc[c].kind = "block"
                                                    THEN "user.block" ELSE @]
    /\ Answer(c, "ok")
    /\ UNCHANGED <<account, consents, active, reveals, tokens, bounds, history>>

writeUserModerationAudit(c) ==
    /\ pc[c] = "audit" /\ loc[c].kind \in Moderation
    /\ record' = [record EXCEPT ![loc[c].target] =
            IF loc[c].kind = "block" THEN "user.block" ELSE "user.unblock"]
    /\ Answer(c, "ok")
    /\ UNCHANGED <<account, consents, active, reveals, tokens, bounds, history>>

writeEmergencyPhoneRevealAudit(c) ==
    /\ pc[c] = "audit" /\ loc[c].kind = "reveal"
    /\ reveals' = reveals \cup {loc[c].n}
    /\ Answer(c, "ok")
    /\ UNCHANGED <<account, consents, active, record, tokens, bounds, history>>

-----------------------------------------------------------------------------
Forget(c) ==
    /\ moved' = moved \ {c}
    /\ renewed' = renewed \ {c}

Reply(c) ==
    /\ pc[c] = "answered"
    /\ Goto(c, "idle")
    /\ loc' = [loc EXCEPT ![c] = Nothing]
    /\ Forget(c)
    /\ UNCHANGED <<db, bounds, grants, overlapped>>

(* The process dies, or the database does not answer. *)
Abandon(c) ==
    /\ pc[c] \notin {"idle", "answered"}
    /\ Goto(c, "idle")
    /\ loc' = [loc EXCEPT ![c] = Nothing]
    /\ overlapped' = overlapped \cup {<<Group(loc[c].kind), loc[c].target>>}
    /\ Forget(c)
    /\ UNCHANGED <<db, bounds, grants>>

(* By hand, in the database: there is no route for these.                  *)
ChangeByHand ==
    /\ changes < MaxChanges
    /\ changes' = changes + 1
    /\ UNCHANGED <<consents, record, reveals, tokens, pc, loc, starts, overlapped>>

SetRoles(p, roles) ==
    /\ account[p] # None
    /\ account' = [account EXCEPT ![p].roles = roles]
    /\ grants' = [grants EXCEPT ![p] = @ + 1]
    /\ UNCHANGED <<active, moved, renewed>>
    /\ ChangeByHand

Delete(p) ==
    /\ account[p] # None
    /\ account' = [account EXCEPT ![p].status = "deleted"]
    /\ moved' = moved \cup {d \in InFlight : loc[d].target = p}
    /\ UNCHANGED <<active, grants, renewed>>
    /\ ChangeByHand

(* Nothing keeps a type from having several active documents, or none. *)
Publish(docs) ==
    /\ active' = docs
    /\ renewed' = renewed \cup InFlight
    /\ UNCHANGED <<account, grants, moved>>
    /\ ChangeByHand

Step(c) ==
    \/ findByTelegramId(c) \/ createUser(c) \/ updateTelegramMetadata(c)
    \/ RequiredDocuments(c) \/ RequiredConsents(c) \/ Conclude(c)
    \/ findActiveDocumentsByTypeVersion(c) \/ createConsentRecords(c)
    \/ Read(c) \/ updateProfile(c) \/ ReadAgain(c) \/ requestDeletion(c)
    \/ Moderate(c) \/ writeUserModerationAudit(c) \/ writeEmergencyPhoneRevealAudit(c)

Next ==
    \/ \E c \in Calls : Enter(c) \/ Ask(c) \/ Step(c) \/ Reply(c) \/ Abandon(c)
    \/ \E p \in People : Delete(p) \/ \E roles \in Grants : SetRoles(p, roles)
    \/ \E docs \in SUBSET Docs : Publish(docs)

Spec == Init /\ [][Next]_vars

=============================================================================
