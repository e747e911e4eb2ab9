---------------------------- MODULE AccountsProofs ----------------------------
(***************************************************************************)
(* Proofs about the accounts, for every number of people, documents, calls *)
(* and changes by hand.                                                    *)
(***************************************************************************)
EXTENDS AccountsProperties, TLAPS

Checking == {"required documents", "required consents", "conclude"}

(* Which calls reach which statement; rows are never removed, so a call    *)
(* that has found its account may go on to write it.                       *)
CallOK(c) ==
    /\ pc[c] \in {"find", "find again", "create", "rename"} => loc[c].kind \in Entering
    /\ pc[c] \in Checking => loc[c].kind \in Entering \cup {"consents"}
    /\ pc[c] \in {"find documents", "create consents"} => loc[c].kind = "consents"
    /\ pc[c] \in {"read", "write"} =>
         loc[c].kind \in {"profile", "delete request", "reveal"} \cup Moderation
    /\ pc[c] = "write" => loc[c].kind # "reveal"
    /\ pc[c] = "read again" => loc[c].kind = "profile"
    /\ pc[c] = "audit" => loc[c].kind \in Moderation \cup {"reveal"}
    /\ pc[c] \in {"write", "read again", "audit", "rename", "find again"} => account[loc[c].target] # None
    /\ pc[c] # "answered" => loc[c].answer = None
    /\ pc[c] \notin {"read again", "answered"} => ~loc[c].wrote
    /\ pc[c] \notin {"conclude", "answered"} => loc[c].required

(* A call about to create an account that another one has created since.   *)
Enters(c) ==
    /\ pc[c] = "create" /\ account[loc[c].target] # None =>
         <<"enter", loc[c].target>> \in overlapped
    /\ loc[c].answer = "failed" =>
         loc[c].kind = "login" /\ <<"enter", loc[c].target>> \in overlapped

(* The roles a call has read are those of the account as it was then.      *)
Knows(c) ==
    loc[c].kind \in Entering /\ pc[c] \in {"rename"} \cup Checking =>
        /\ account[loc[c].target] # None
        /\ loc[c].grant <= grants[loc[c].target]
        /\ loc[c].grant = grants[loc[c].target] => loc[c].roles = account[loc[c].target].roles

Complete(p) == Required \subseteq {TypeOf[d] : d \in active \cap consents[p]}

Consented(c) ==
    c \notin renewed =>
        /\ pc[c] = "required consents" => loc[c].active = active
        /\ ~loc[c].required => Complete(loc[c].target)

(* What a call has read of the status still holds, or c is in moved.       *)
Standing(c) ==
    c \notin moved =>
        /\ pc[c] = "write" /\ loc[c].kind \in Mine => account[loc[c].target].status = "active"
        /\ pc[c] = "write" /\ loc[c].kind \in Moderation =>
             account[loc[c].target].status # "deleted"
        /\ pc[c] = "read again" => account[loc[c].target].status = "active"
        /\ loc[c].answer = "forbidden" => ~loc[c].wrote

Wishes(c) ==
    pc[c] = "write" /\ loc[c].kind = "delete request" =>
        \/ account[loc[c].target].deletion = None
        \/ <<"delete request", loc[c].target>> \in overlapped

Revealed(c) == loc[c].kind = "reveal" /\ loc[c].answer = "ok" => loc[c].n \in reveals

CallInv(c) ==
    CallOK(c) /\ Enters(c) /\ Knows(c) /\ Consented(c) /\ Standing(c) /\ Wishes(c) /\ Revealed(c)

(* Calls of one kind about one person that run at once are remembered.     *)
Clash(c, d) ==
    /\ c # d /\ pc[c] # "idle" /\ pc[d] # "idle"
    /\ loc[c].target = loc[d].target
    /\ Group(loc[c].kind) = Group(loc[d].kind)

RaceInv == \A c, d \in Calls :
    Clash(c, d) => <<Group(loc[c].kind), loc[c].target>> \in overlapped

TokenInv == TokenTellsRoles /\ \A t \in tokens : t.grant <= grants[t.user]

(* Between the change of a status and its audit row, and otherwise.        *)
Auditing(c, p) ==
    pc[c] = "audit" /\ loc[c].kind \in Moderation /\ loc[c].target = p

StatusAfter(kind) == IF kind = "block" THEN "blocked" ELSE "active"

Agrees(p) == (account[p].status = "blocked") <=> (record[p] = "user.block")

Explained(p) ==
    /\ account[p] = None => record[p] # "user.block"
    /\ account[p] # None /\ account[p].status # "deleted"
         /\ <<"moderate", p>> \notin overlapped =>
            \/ \E c \in Calls : Auditing(c, p) /\ account[p].status = StatusAfter(loc[c].kind)
            \/ Agrees(p) /\ \A c \in Calls : ~Auditing(c, p)

Inv ==
    /\ AccountsTypeOK
    /\ \A c \in Calls : CallInv(c)
    /\ RaceInv
    /\ TokenInv
    /\ \A p \in People : Explained(p)

-----------------------------------------------------------------------------
LEMMA NothingType == Nothing \in Locals /\ Nothing.answer = None /\ ~Nothing.wrote /\ Nothing.required
  BY AccountsAssumption DEF Locals, Nothing, Kinds, Entering

LEMMA InitInv == Init => Inv
  <1> SUFFICES ASSUME Init PROVE Inv
    OBVIOUS
  <1>1. loc = [c \in Calls |-> Nothing]
    BY DEF Init
  <1>2. loc \in [Calls -> Locals]
    BY <1>1, NothingType
  <1>3. /\ account \in [People -> Account \cup {None}]
        /\ \A p \in Existing : account[p] \in Account
        /\ \A p \in People : account[p] = None \/ account[p].status = "active"
    <2>1. PICK phone \in [Existing -> BOOLEAN] : account = [p \in People |->
            IF p \notin Existing THEN None
            ELSE [status |-> "active", deletion |-> None, phone |-> phone[p],
                  roles |-> IF p = Boss THEN {"user", "owner"} ELSE {"user"}]]
      BY DEF Init
    <2>2. ASSUME NEW p \in People, p \in Existing
          PROVE  account[p] \in Account /\ account[p].status = "active"
      BY <2>1, <2>2 DEF Account, Roles, Statuses
    <2> QED BY <2>1, <2>2, AccountsAssumption
  <1>4. tokens = {[user |-> p, roles |-> account[p].roles, grant |-> 0] : p \in Existing}
    BY DEF Init
  <1>5. active \subseteq Docs
    BY DEF Init
  <1>6. /\ consents = [p \in People |-> {}] /\ record = [p \in People |-> None] /\ reveals = {}
        /\ pc = [c \in Calls |-> "idle"] /\ starts = 0 /\ changes = 0
        /\ grants = [p \in People |-> 0] /\ moved = {} /\ renewed = {}
    BY DEF Init
  <1>7. AccountsTypeOK
    <2>1. tokens \subseteq [user: People, roles: SUBSET Roles, grant: Nat]
      BY <1>3, <1>4, AccountsAssumption DEF Account
    <2> QED BY <1>2, <1>3, <1>5, <1>6, <2>1 DEF AccountsTypeOK, Steps
  <1>8. ASSUME NEW c \in Calls PROVE CallInv(c)
    BY <1>1, <1>6, NothingType, AccountsAssumption
    DEF CallInv, CallOK, Enters, Knows, Consented, Standing, Wishes, Revealed, Checking, Answers
  <1>9. RaceInv
    BY <1>6 DEF RaceInv, Clash
  <1>10. TokenInv
    BY <1>3, <1>4, <1>6, AccountsAssumption DEF TokenInv, TokenTellsRoles
  <1>11. ASSUME NEW p \in People PROVE Explained(p)
    BY <1>3, <1>6, AccountsAssumption DEF Explained, Auditing, Agrees, Notes
  <1> QED BY <1>7, <1>8, <1>9, <1>10, <1>11 DEF Inv

-----------------------------------------------------------------------------
(* Steps of calls. *)

(* Call c, which is under way, moves to a statement with local variables l *)
(* and stays the same call; the others stay where they are.                *)
Moves(c, step, l) ==
    /\ pc[c] # "idle"
    /\ pc' = [pc EXCEPT ![c] = step]
    /\ loc' = [loc EXCEPT ![c] = l]
    /\ l.kind = loc[c].kind /\ l.target = loc[c].target /\ l.n = loc[c].n

LEMMA Moved ==
    ASSUME Inv, NEW c \in Calls, NEW step \in Steps, NEW l \in Locals, Moves(c, step, l)
    PROVE  /\ pc' \in [Calls -> Steps] /\ loc' \in [Calls -> Locals]
           /\ pc'[c] = step /\ loc'[c] = l
           /\ \A d \in Calls \ {c} : pc'[d] = pc[d] /\ loc'[d] = loc[d]
           /\ \A d \in Calls : pc'[d] # "idle" => pc[d] # "idle"
           /\ \A d \in Calls : loc'[d].kind = loc[d].kind /\ loc'[d].target = loc[d].target
                               /\ loc'[d].n = loc[d].n
  BY DEF Inv, AccountsTypeOK, Moves

LEMMA RaceKept ==
    ASSUME Inv, NEW c \in Calls, NEW step \in Steps, NEW l \in Locals, Moves(c, step, l),
           overlapped \subseteq overlapped'
    PROVE  RaceInv'
  <1>1. \A d \in Calls : /\ pc'[d] # "idle" => pc[d] # "idle"
                         /\ loc'[d].kind = loc[d].kind /\ loc'[d].target = loc[d].target
    BY Moved
  <1>2. ASSUME NEW d \in Calls, NEW e \in Calls, Clash(d, e)'
        PROVE  Clash(d, e) /\ Group(loc[d].kind)' = Group(loc[d].kind)
    BY <1>1, <1>2 DEF Clash, Group
  <1> QED BY <1>1, <1>2 DEF Inv, RaceInv

(* A step that changes local variables only, and audits nothing.           *)
LEMMA QuietStep ==
    ASSUME Inv, NEW c \in Calls, NEW step \in Steps, NEW l \in Locals, Moves(c, step, l),
           pc[c] # "audit", step = "audit" => l.kind \notin Moderation,
           UNCHANGED <<db, bounds, history>>, CallInv(c)'
    PROVE  Inv'
  <1> USE Moved DEF db, bounds, history
  <1>1. AccountsTypeOK'
    BY DEF Inv, AccountsTypeOK
  <1>2. ASSUME NEW d \in Calls PROVE CallInv(d)'
    <2>1. CASE d = c
      BY <2>1
    <2>2. CASE d # c
      <3>1. CallInv(d) /\ pc'[d] = pc[d] /\ loc'[d] = loc[d]
        BY <2>2 DEF Inv
      <3>2. CallOK(d)'
        BY <3>1 DEF CallInv, CallOK
      <3>3. Enters(d)' /\ Knows(d)'
        BY <3>1 DEF CallInv, Enters, Knows
      <3>4. Consented(d)' /\ Standing(d)'
        BY <3>1 DEF CallInv, Consented, Complete, Standing
      <3>5. Wishes(d)' /\ Revealed(d)'
        BY <3>1 DEF CallInv, Wishes, Revealed
      <3> QED BY <3>2, <3>3, <3>4, <3>5 DEF CallInv
    <2> QED BY <2>1, <2>2
  <1>3. RaceInv'
    BY RaceKept
  <1>4. TokenInv'
    BY DEF Inv, TokenInv, TokenTellsRoles
  <1>5. ASSUME NEW p \in People PROVE Explained(p)'
    <2>1. \A d \in Calls : Auditing(d, p)' <=> Auditing(d, p)
      BY DEF Auditing, Moves
    <2>2. Explained(p) /\ Agrees(p)' = Agrees(p)
      BY DEF Inv, Agrees
    <2> QED BY <2>1, <2>2 DEF Explained, Auditing
  <1> QED BY <1>1, <1>2, <1>3, <1>4, <1>5 DEF Inv

(* What is known of a call and its account before its step.                *)
LEMMA Known ==
    ASSUME Inv, NEW c \in Calls
    PROVE  /\ loc[c] \in Locals /\ loc[c].target \in People /\ CallInv(c)
           /\ account[loc[c].target] \in Account \cup {None}
           /\ pc \in [Calls -> Steps] /\ loc \in [Calls -> Locals]
           /\ grants[loc[c].target] \in Nat
  BY DEF Inv, AccountsTypeOK, Locals

(* A quiet step, with the parts of CallInv that it can touch.              *)
LEMMA Quiet ==
    ASSUME Inv, NEW c \in Calls, NEW step \in Steps, NEW l \in Locals, Moves(c, step, l),
           pc[c] # "audit", step = "audit" => l.kind \notin Moderation,
           UNCHANGED <<db, bounds, history>>,
           pc'[c] = step /\ loc'[c] = l => CallInv(c)'
    PROVE  Inv'
  BY Moved, QuietStep

(* A step that leaves the local variables alone.                           *)
LEMMA SameLocals ==
    ASSUME Inv, NEW c \in Calls, NEW step, pc[c] # "idle",
           pc' = [pc EXCEPT ![c] = step], loc' = loc
    PROVE  Moves(c, step, loc[c])
  <1>1. loc' = [loc EXCEPT ![c] = loc[c]]
    BY DEF Inv, AccountsTypeOK
  <1> QED BY <1>1 DEF Moves

LEMMA findByTelegramIdStep ==
    ASSUME Inv, NEW c \in Calls, findByTelegramId(c)
    PROVE  Inv'
  <1> DEFINE p == loc[c].target
  <1>k. /\ loc[c] \in Locals /\ p \in People /\ CallInv(c)
        /\ account[p] \in Account \cup {None} /\ grants[p] \in Nat
    BY Known
  <1>1. pc[c] \in {"find", "find again"} /\ UNCHANGED <<db, bounds, history>>
    BY DEF findByTelegramId
  <1>2. /\ loc[c].kind \in Entering
        /\ loc[c].kind \notin {"consents", "reveal"} \cup Moderation \cup Mine
        /\ loc[c].answer = None /\ ~loc[c].wrote /\ loc[c].required
    BY <1>k, <1>1 DEF CallInv, CallOK, Entering, Mine, Moderation
  <1>3. ASSUME account[p] = None, pc' = [pc EXCEPT ![c] = "create"], loc' = loc
        PROVE  Inv'
    <2>1. Moves(c, "create", loc[c]) /\ "create" \in Steps
      BY <1>1, <1>3, SameLocals DEF Steps
    <2>2. ASSUME pc'[c] = "create", loc'[c] = loc[c] PROVE CallInv(c)'
      BY <1>1, <1>2, <1>3, <2>2, AccountsAssumption DEF CallInv, CallOK, Enters, Knows, Consented, Standing, Wishes, Revealed, Checking, db, history, Answers
    <2> QED BY <1>k, <1>1, <2>1, <2>2, Quiet
  <1>4. ASSUME NEW step, step \in {"required documents", "rename"}, account[p] # None,
               pc' = [pc EXCEPT ![c] = step],
               loc' = [loc EXCEPT ![c] = [@ EXCEPT !.roles = account[p].roles,
                                                   !.grant = grants[p]]]
        PROVE  Inv'
    <2> DEFINE l == [loc[c] EXCEPT !.roles = account[p].roles, !.grant = grants[p]]
    <2>1. l \in Locals
      BY <1>k, <1>4 DEF Locals, Account
    <2>2. /\ l.roles = account[p].roles /\ l.grant = grants[p] /\ l.answer = loc[c].answer
          /\ l.wrote = loc[c].wrote /\ l.required = loc[c].required
          /\ l.kind = loc[c].kind /\ l.target = loc[c].target /\ l.n = loc[c].n
      BY <1>k DEF Locals
    <2>3. loc' = [loc EXCEPT ![c] = l]
      BY <1>4, Known
    <2> HIDE DEF l
    <2>4. Moves(c, step, l) /\ step \in Steps
      BY <1>1, <1>4, <2>2, <2>3 DEF Moves, Steps
    <2>5. ASSUME pc'[c] = step, loc'[c] = l PROVE CallInv(c)'
      <3>1. CallOK(c)'
        BY <1>1, <1>2, <1>4, <2>2, <2>5 DEF CallOK, Checking, db
      <3>2. Enters(c)'
        BY <1>2, <1>4, <2>2, <2>5, AccountsAssumption DEF Enters, Answers
      <3>4. Knows(c)'
        <4>1. account' = account /\ grants' = grants
          BY <1>1 DEF db, history
        <4>2. /\ account'[loc'[c].target] = account[p] /\ grants'[loc'[c].target] = grants[p]
              /\ loc'[c].grant = grants[p] /\ loc'[c].roles = account[p].roles
          BY <2>2, <2>5, <4>1
        <4>3. grants[p] <= grants[p]
          BY <1>k
        <4> QED BY <1>4, <4>2, <4>3 DEF Knows
      <3>3. Consented(c)' /\ Standing(c)' /\ Wishes(c)' /\ Revealed(c)'
        BY <1>1, <1>2, <1>4, <2>2, <2>5, AccountsAssumption
        DEF Consented, Standing, Wishes, Revealed, Answers
      <3> QED BY <3>1, <3>2, <3>3, <3>4 DEF CallInv
    <2> QED BY <1>1, <1>2, <2>1, <2>2, <2>4, <2>5, Quiet
  <1>5. account[p] = None => pc[c] = "find"
    BY <1>k, <1>1 DEF CallInv, CallOK
  <1> QED BY <1>3, <1>4, <1>5 DEF findByTelegramId, Goto

(* A quiet step that only goes on to the next statement.                   *)
LEMMA GoesOn ==
    ASSUME Inv, NEW c \in Calls, NEW step \in Steps, pc[c] \notin {"idle", "audit"},
           step = "audit" => loc[c].kind \notin Moderation,
           Goto(c, step), UNCHANGED <<db, loc, bounds, history>>,
           pc'[c] = step => CallInv(c)'
    PROVE  Inv'
  <1>1. Moves(c, step, loc[c])
    BY SameLocals DEF Goto
  <1>2. loc[c] \in Locals
    BY Known
  <1> QED BY <1>1, <1>2, Quiet

LEMMA updateTelegramMetadataStep ==
    ASSUME Inv, NEW c \in Calls, updateTelegramMetadata(c)
    PROVE  Inv'
  <1>1. /\ pc[c] = "rename" /\ Goto(c, "required documents")
        /\ UNCHANGED <<db, loc, bounds, history>>
    BY DEF updateTelegramMetadata
  <1>2. CallInv(c)
    BY Known
  <1>3. ASSUME pc'[c] = "required documents" PROVE CallInv(c)'
    <2>1. CallOK(c)'
      BY <1>1, <1>2, <1>3 DEF CallInv, CallOK, Checking, db
    <2>2. Enters(c)' /\ Knows(c)'
      BY <1>1, <1>2, <1>3 DEF CallInv, Enters, Knows, Checking, db, history
    <2>3. Consented(c)' /\ Standing(c)'
      BY <1>1, <1>2, <1>3 DEF CallInv, Consented, Complete, Standing, db, history
    <2>4. Wishes(c)' /\ Revealed(c)'
      BY <1>1, <1>2, <1>3 DEF CallInv, Wishes, Revealed, db
    <2> QED BY <2>1, <2>2, <2>3, <2>4 DEF CallInv
  <1> QED BY <1>1, <1>3, GoesOn DEF Steps

(* A quiet step that ends with an answer.                                  *)
LEMMA Answered ==
    ASSUME Inv, NEW c \in Calls, NEW what \in Answers, pc[c] \notin {"idle", "audit"},
           Answer(c, what), UNCHANGED <<db, bounds, history>>,
           what = "failed" =>
               loc[c].kind = "login" /\ <<"enter", loc[c].target>> \in overlapped,
           what = "ok" => loc[c].kind # "reveal",
           what = "forbidden" /\ loc[c].wrote => c \in moved
    PROVE  Inv'
  <1> DEFINE l == [loc[c] EXCEPT !.answer = what]
  <1>k. loc[c] \in Locals /\ CallInv(c) /\ loc \in [Calls -> Locals]
    BY Known
  <1>1. l \in Locals
    BY <1>k DEF Locals
  <1>2. /\ l.answer = what /\ l.roles = loc[c].roles /\ l.grant = loc[c].grant
        /\ l.active = loc[c].active /\ l.wrote = loc[c].wrote /\ l.required = loc[c].required
        /\ l.kind = loc[c].kind /\ l.target = loc[c].target /\ l.n = loc[c].n
    BY <1>k DEF Locals
  <1>3. loc' = [loc EXCEPT ![c] = l] /\ pc' = [pc EXCEPT ![c] = "answered"]
    BY <1>k DEF Answer, Goto
  <1> HIDE DEF l
  <1>4. Moves(c, "answered", l) /\ "answered" \in Steps
    BY <1>2, <1>3 DEF Moves, Steps
  <1>5. ASSUME pc'[c] = "answered", loc'[c] = l PROVE CallInv(c)'
    <2>1. CallOK(c)' /\ Knows(c)'
      BY <1>5 DEF CallOK, Knows, Checking
    <2>2. Enters(c)'
      BY <1>2, <1>5 DEF Enters, history
    <2>3. Consented(c)'
      BY <1>k, <1>2, <1>5 DEF CallInv, Consented, Complete, db, history
    <2>4. Standing(c)'
      BY <1>2, <1>5 DEF Standing, history
    <2>5. Wishes(c)' /\ Revealed(c)'
      BY <1>2, <1>5 DEF Wishes, Revealed
    <2> QED BY <2>1, <2>2, <2>3, <2>4, <2>5 DEF CallInv
  <1> QED BY <1>1, <1>4, <1>5, Quiet

LEMMA RequiredDocumentsStep ==
    ASSUME Inv, NEW c \in Calls, RequiredDocuments(c)
    PROVE  Inv'
  <1> DEFINE l == [loc[c] EXCEPT !.active = active]
  <1>k. loc[c] \in Locals /\ CallInv(c) /\ loc \in [Calls -> Locals] /\ active \subseteq Docs
    BY Known DEF Inv, AccountsTypeOK
  <1>1. l \in Locals
    BY <1>k DEF Locals
  <1>2. /\ l.answer = loc[c].answer /\ l.roles = loc[c].roles /\ l.grant = loc[c].grant
        /\ l.active = active /\ l.wrote = loc[c].wrote /\ l.required = loc[c].required
        /\ l.kind = loc[c].kind /\ l.target = loc[c].target /\ l.n = loc[c].n
    BY <1>k DEF Locals
  <1>3. /\ loc' = [loc EXCEPT ![c] = l] /\ pc[c] = "required documents"
        /\ UNCHANGED <<db, bounds, history>>
    BY <1>k DEF RequiredDocuments
  <1>4. PICK step \in {"required consents", "conclude"} : pc' = [pc EXCEPT ![c] = step]
    BY DEF RequiredDocuments, Goto
  <1> HIDE DEF l
  <1>5. Moves(c, step, l) /\ step \in Steps
    BY <1>2, <1>3, <1>4 DEF Moves, Steps
  <1>6. ASSUME pc'[c] = step, loc'[c] = l PROVE CallInv(c)'
    <2>1. CallOK(c)'
      BY <1>k, <1>2, <1>3, <1>4, <1>6 DEF CallInv, CallOK, Checking
    <2>2. Enters(c)' /\ Wishes(c)' /\ Revealed(c)'
      BY <1>k, <1>2, <1>3, <1>4, <1>6 DEF CallInv, Enters, Wishes, Revealed, db, history
    <2>3. Knows(c)'
      BY <1>k, <1>2, <1>3, <1>4, <1>6 DEF CallInv, Knows, Checking, db, history
    <2>4. Consented(c)'
      BY <1>k, <1>2, <1>3, <1>4, <1>6 DEF CallInv, CallOK, Consented, db
    <2>5. Standing(c)'
      BY <1>k, <1>2, <1>3, <1>4, <1>6 DEF CallInv, Standing, history
    <2> QED BY <2>1, <2>2, <2>3, <2>4, <2>5 DEF CallInv
  <1> QED BY <1>1, <1>3, <1>4, <1>5, <1>6, Quiet

LEMMA RequiredConsentsStep ==
    ASSUME Inv, NEW c \in Calls, RequiredConsents(c)
    PROVE  Inv'
  <1> DEFINE l == [loc[c] EXCEPT !.required = Unaccepted(c)]
  <1>k. loc[c] \in Locals /\ CallInv(c) /\ loc \in [Calls -> Locals]
    BY Known
  <1>0. Unaccepted(c) \in BOOLEAN
    BY DEF Unaccepted
  <1>1. l \in Locals
    BY <1>k, <1>0 DEF Locals
  <1>2. /\ l.answer = loc[c].answer /\ l.roles = loc[c].roles /\ l.grant = loc[c].grant
        /\ l.wrote = loc[c].wrote /\ l.required = Unaccepted(c)
        /\ l.kind = loc[c].kind /\ l.target = loc[c].target /\ l.n = loc[c].n
    BY <1>k DEF Locals
  <1>3. /\ loc' = [loc EXCEPT ![c] = l] /\ pc[c] = "required consents"
        /\ pc' = [pc EXCEPT ![c] = "conclude"] /\ UNCHANGED <<db, bounds, history>>
    BY <1>k DEF RequiredConsents, Goto
  <1> HIDE DEF l
  <1>4. Moves(c, "conclude", l) /\ "conclude" \in Steps
    BY <1>2, <1>3 DEF Moves, Steps
  <1>5. ASSUME pc'[c] = "conclude", loc'[c] = l PROVE CallInv(c)'
    <2>1. CallOK(c)'
      BY <1>k, <1>2, <1>3, <1>5 DEF CallInv, CallOK, Checking
    <2>2. Enters(c)' /\ Wishes(c)' /\ Revealed(c)'
      BY <1>k, <1>2, <1>3, <1>5 DEF CallInv, Enters, Wishes, Revealed, db, history
    <2>3. Knows(c)'
      BY <1>k, <1>2, <1>3, <1>5 DEF CallInv, Knows, Checking, db, history
    <2>4. c \notin renewed /\ ~Unaccepted(c) => Complete(loc[c].target)
      BY <1>k, <1>3 DEF CallInv, Consented, Unaccepted, Complete
    <2>5. Complete(loc[c].target) /\ loc'[c].target = loc[c].target => Complete(loc[c].target)'
      BY <1>3 DEF Complete, db
    <2>6. Consented(c)'
      BY <1>2, <1>3, <1>5, <2>4, <2>5 DEF Consented, history
    <2>7. Standing(c)'
      BY <1>k, <1>2, <1>3, <1>5 DEF CallInv, Standing, history
    <2> QED BY <2>1, <2>2, <2>3, <2>6, <2>7 DEF CallInv
  <1> QED BY <1>1, <1>3, <1>4, <1>5, Quiet

LEMMA findActiveDocumentsByTypeVersionStep ==
    ASSUME Inv, NEW c \in Calls, findActiveDocumentsByTypeVersion(c)
    PROVE  Inv'
  <1>k. CallInv(c) /\ pc[c] = "find documents" /\ UNCHANGED <<db, bounds, history>>
    BY Known DEF findActiveDocumentsByTypeVersion
  <1>1. loc[c].kind = "consents" /\ ~loc[c].wrote
    BY <1>k DEF CallInv, CallOK
  <1>2. CASE Answer(c, "bad request")
    BY <1>k, <1>1, <1>2, Answered DEF Answers
  <1>3. CASE Goto(c, "create consents") /\ UNCHANGED loc
    <2>1. ASSUME pc'[c] = "create consents" PROVE CallInv(c)'
      <3>1. CallOK(c)'
        BY <1>k, <1>1, <1>3, <2>1 DEF CallInv, CallOK, Checking
      <3>2. Enters(c)' /\ Wishes(c)' /\ Revealed(c)' /\ Knows(c)'
        BY <1>k, <1>3, <2>1 DEF CallInv, Enters, Wishes, Revealed, Knows, Checking, db, history
      <3>3. Consented(c)' /\ Standing(c)'
        BY <1>k, <1>3, <2>1 DEF CallInv, Consented, Complete, Standing, db, history
      <3> QED BY <3>1, <3>2, <3>3 DEF CallInv
    <2> QED BY <1>k, <1>3, <2>1, GoesOn DEF Steps
  <1> QED BY <1>2, <1>3 DEF findActiveDocumentsByTypeVersion

(* What the first read of a call may make of the account.                  *)
LEMMA AfterReads ==
    ASSUME NEW kind \in Mine \cup Moderation \cup {"reveal"}, kind # "consents",
           NEW seen \in Account \cup {None}
    PROVE  /\ AfterRead(kind, seen) \in {"missing", "forbidden", "ok", "conflict", "go on"}
           /\ AfterRead(kind, seen) = "ok" => kind # "reveal"
           /\ AfterRead(kind, seen) = "go on" =>
                /\ seen # None
                /\ kind \in Mine => seen.status = "active"
                /\ kind \in Moderation => seen.status # "deleted"
                /\ kind = "delete request" => seen.deletion = None
  <1>1. CASE seen = None
    BY <1>1 DEF AfterRead
  <1>2. CASE seen # None
    BY <1>2 DEF AfterRead, Mine, Moderation
  <1> QED BY <1>1, <1>2

LEMMA ReadStep ==
    ASSUME Inv, NEW c \in Calls, Read(c)
    PROVE  Inv'
  <1> DEFINE seen == account[loc[c].target]
             then == AfterRead(loc[c].kind, seen)
  <1>k. CallInv(c) /\ pc[c] = "read" /\ UNCHANGED <<db, bounds, history>>
    BY Known DEF Read
  <1>1. /\ loc[c].kind \in Mine \cup Moderation \cup {"reveal"} /\ loc[c].kind # "consents"
        /\ loc[c].kind \in {"profile", "delete request", "reveal"} \cup Moderation
        /\ loc[c].kind \notin Entering
        /\ seen \in Account \cup {None}
        /\ ~loc[c].wrote /\ loc[c].answer = None /\ loc[c].required
    BY <1>k, Known DEF CallInv, CallOK, Mine, Moderation, Entering
  <1>2. /\ then \in {"missing", "forbidden", "ok", "conflict", "go on"}
        /\ then = "ok" => loc[c].kind # "reveal"
        /\ then = "go on" =>
             /\ seen # None
             /\ loc[c].kind \in Mine => seen.status = "active"
             /\ loc[c].kind \in Moderation => seen.status # "deleted"
             /\ loc[c].kind = "delete request" => seen.deletion = None
    BY <1>1, AfterReads
  <1> HIDE DEF then
  <1>3. CASE then # "go on" /\ Answer(c, then)
    <2>1. then \in Answers /\ then # "failed"
      BY <1>2, <1>3 DEF Answers
    <2> QED BY <1>k, <1>1, <1>2, <1>3, <2>1, Answered
  <1>4. ASSUME then = "go on", UNCHANGED loc,
               NEW step, Goto(c, step), loc[c].kind = "reveal" => step = "audit",
               loc[c].kind # "reveal" => step = "write"
        PROVE  Inv'
    <2>1. ASSUME pc'[c] = step PROVE CallInv(c)'
      <3>1. CallOK(c)'
        BY <1>k, <1>1, <1>2, <1>4, <2>1 DEF CallOK, Checking, db
      <3>2. Enters(c)' /\ Revealed(c)' /\ Knows(c)'
        BY <1>k, <1>1, <1>4, <2>1, AccountsAssumption
        DEF Enters, Revealed, Knows, Checking, Answers, db, history
      <3>3. Consented(c)' /\ Wishes(c)'
        BY <1>k, <1>1, <1>2, <1>4, <2>1 DEF Consented, Wishes, db, history
      <3>4. Standing(c)'
        BY <1>k, <1>1, <1>2, <1>4, <2>1 DEF Standing, db, history
      <3> QED BY <3>1, <3>2, <3>3, <3>4 DEF CallInv
    <2>2. step = "audit" => loc[c].kind \notin Moderation
      BY <1>4 DEF Moderation
    <2>3. step \in Steps
      BY <1>4 DEF Steps
    <2> QED BY <1>k, <1>4, <2>1, <2>2, <2>3, GoesOn
  <1> QED BY <1>3, <1>4 DEF Read, then

LEMMA ReadAgainStep ==
    ASSUME Inv, NEW c \in Calls, ReadAgain(c)
    PROVE  Inv'
  <1>k. CallInv(c) /\ pc[c] = "read again" /\ UNCHANGED <<db, bounds, history>>
    BY Known DEF ReadAgain
  <1>1. loc[c].kind = "profile" /\ (account[loc[c].target].status # "active" => c \in moved)
    BY <1>k DEF CallInv, CallOK, Standing
  <1> QED BY <1>k, <1>1, Answered DEF ReadAgain, Answers

-----------------------------------------------------------------------------
(* Steps that change rows. *)

(* A user's account stays, and so do the roles unless they are counted.    *)
RolesKept(q) ==
    account[q] # None =>
        /\ account'[q] # None
        /\ grants[q] <= grants'[q]
        /\ grants'[q] = grants[q] => account'[q].roles = account[q].roles

(* Call d stays where it is, and what the step changed under it is written *)
(* down in the history.                                                    *)
Undisturbed(d) ==
    /\ pc'[d] = pc[d] /\ loc'[d] = loc[d]
    /\ overlapped \subseteq overlapped' /\ reveals \subseteq reveals'
    /\ RolesKept(loc[d].target)
    /\ d \notin renewed' =>
         /\ d \notin renewed /\ (pc[d] # "idle" => active' = active)
         /\ consents[loc[d].target] \subseteq consents'[loc[d].target]
    /\ d \notin moved' =>
         /\ d \notin moved
         /\ account[loc[d].target] # None /\ pc[d] # "idle" =>
              account'[loc[d].target].status = account[loc[d].target].status
    /\ account[loc[d].target] = None /\ pc[d] = "create" =>
         \/ account'[loc[d].target] = None
         \/ <<"enter", loc[d].target>> \in overlapped
    /\ pc[d] = "write" /\ loc[d].kind = "delete request" /\ account[loc[d].target] # None =>
         \/ account'[loc[d].target].deletion = account[loc[d].target].deletion
         \/ <<"delete request", loc[d].target>> \in overlapped

LEMMA Between ==
    ASSUME NEW i \in Nat, NEW j \in Nat, NEW k \in Nat, i <= j, j <= k
    PROVE  i <= k /\ (i = k => i = j /\ j = k)
  OBVIOUS

LEMMA OtherCall ==
    ASSUME Inv, NEW d \in Calls, Undisturbed(d), grants' \in [People -> Nat]
    PROVE  CallInv(d)'
  <1> DEFINE q == loc[d].target
  <1>k. CallInv(d) /\ loc[d] \in Locals /\ q \in People /\ loc[d].grant \in Nat
        /\ grants[q] \in Nat /\ grants'[q] \in Nat
    BY Known DEF Locals
  <1>0. pc'[d] = pc[d] /\ loc'[d] = loc[d] /\ RolesKept(q)
        /\ overlapped \subseteq overlapped' /\ reveals \subseteq reveals'
    BY DEF Undisturbed
  <1>1. CallOK(d)'
    BY <1>k, <1>0 DEF CallInv, CallOK, RolesKept
  <1>2. Enters(d)'
    BY <1>k, <1>0 DEF CallInv, Enters, Undisturbed
  <1>3. Knows(d)'
    <2>1. ASSUME account[q] # None, loc[d].grant <= grants[q],
                 loc[d].grant = grants[q] => loc[d].roles = account[q].roles
          PROVE  /\ account'[q] # None /\ loc[d].grant <= grants'[q]
                 /\ loc[d].grant = grants'[q] => loc[d].roles = account'[q].roles
      BY <1>k, <1>0, <2>1, Between DEF RolesKept
    <2> QED BY <1>k, <1>0, <2>1 DEF CallInv, Knows
  <1>4. Consented(d)'
    <2>1. CASE pc[d] = "idle"
      BY <1>k, <1>0, <2>1 DEF CallInv, CallOK, Consented
    <2>2. CASE pc[d] # "idle"
      <3>1. d \notin renewed' /\ Complete(q) => Complete(loc[d].target)'
        BY <1>0, <2>2 DEF Undisturbed, Complete
      <3> QED BY <1>k, <1>0, <2>2, <3>1 DEF CallInv, Consented, Undisturbed
    <2> QED BY <2>1, <2>2
  <1>5. Standing(d)'
    <2>1. pc[d] \in {"write", "read again"} => account[q] # None
      BY <1>k DEF CallInv, CallOK
    <2>2. d \notin moved' => d \notin moved /\ (account[q] # None /\ pc[d] # "idle" =>
              account'[q].status = account[q].status)
      BY DEF Undisturbed
    <2> QED BY <1>k, <1>0, <2>1, <2>2 DEF CallInv, Standing
  <1>6. Wishes(d)'
    <2>1. pc[d] = "write" => account[q] # None
      BY <1>k DEF CallInv, CallOK
    <2> QED BY <1>k, <1>0, <2>1 DEF CallInv, Wishes, Undisturbed
  <1>7. Revealed(d)'
    BY <1>k, <1>0 DEF CallInv, Revealed
  <1> QED BY <1>1, <1>2, <1>3, <1>4, <1>5, <1>6, <1>7 DEF CallInv

(* Tokens given out before stay true to their account.                     *)
LEMMA TokensKept ==
    ASSUME Inv, tokens' = tokens, \A q \in People : RolesKept(q), grants' \in [People -> Nat]
    PROVE  TokenInv'
  <1>1. ASSUME NEW t \in tokens
        PROVE  /\ account'[t.user] # None /\ t.grant <= grants'[t.user]
               /\ t.grant = grants'[t.user] =>
                    t.roles \cap Staff = account'[t.user].roles \cap Staff
    <2>1. /\ t.user \in People /\ t.grant \in Nat /\ grants[t.user] \in Nat
          /\ grants'[t.user] \in Nat /\ account[t.user] # None /\ t.grant <= grants[t.user]
          /\ t.grant = grants[t.user] => t.roles \cap Staff = account[t.user].roles \cap Staff
      BY DEF Inv, AccountsTypeOK, TokenInv, TokenTellsRoles
    <2>2. RolesKept(t.user)
      BY <2>1
    <2> QED BY <2>1, <2>2, Between DEF RolesKept
  <1> QED BY <1>1 DEF TokenInv, TokenTellsRoles

(* Blocks stay explained by a step that has nothing to do with them.       *)
LEMMA ExplainedKept ==
    ASSUME Inv, NEW p \in People, record' = record, overlapped \subseteq overlapped',
           account[p] # None => account'[p] # None,
           account[p] # None /\ account'[p].status # "deleted" =>
                account'[p].status = account[p].status,
           account[p] = None /\ account'[p] # None => account'[p].status = "active",
           \A d \in Calls : /\ Auditing(d, p)' <=> Auditing(d, p)
                            /\ Auditing(d, p) => loc'[d].kind = loc[d].kind
    PROVE  Explained(p)'
  <1>k. Explained(p) /\ (account[p] = None => \A d \in Calls : ~Auditing(d, p))
    BY DEF Inv, CallInv, CallOK, Auditing
  <1>1. account'[p] = None => record'[p] # "user.block"
    BY <1>k DEF Explained
  <1>2. CASE account[p] = None
    BY <1>k, <1>2 DEF Explained, Agrees
  <1>3. ASSUME account[p] # None, account'[p] # None, account'[p].status # "deleted",
               <<"moderate", p>> \notin overlapped'
        PROVE  \/ \E d \in Calls : Auditing(d, p)' /\ account'[p].status = StatusAfter(loc[d].kind)'
               \/ Agrees(p)' /\ \A d \in Calls : ~Auditing(d, p)'
    <2>1. account'[p].status = account[p].status /\ <<"moderate", p>> \notin overlapped
      BY <1>3
    <2>2. CASE Agrees(p) /\ \A d \in Calls : ~Auditing(d, p)
      BY <2>1, <2>2 DEF Agrees
    <2>3. ASSUME NEW d \in Calls, Auditing(d, p), account[p].status = StatusAfter(loc[d].kind)
          PROVE  Auditing(d, p)' /\ account'[p].status = StatusAfter(loc[d].kind)'
      BY <2>1, <2>3 DEF StatusAfter
    <2> QED BY <1>k, <1>3, <2>1, <2>2, <2>3 DEF Explained
  <1> QED BY <1>1, <1>2, <1>3 DEF Explained

LEMMA SameAudits ==
    ASSUME Inv, NEW c \in Calls, NEW step \in Steps, NEW l \in Locals, Moves(c, step, l),
           pc[c] = "audit" \/ step = "audit" => loc[c].kind \notin Moderation,
           NEW p, NEW d \in Calls
    PROVE  (Auditing(d, p)' <=> Auditing(d, p)) /\ loc'[d].kind = loc[d].kind
  BY Moved DEF Auditing, Moves

(* A step of a call that writes rows.                                      *)
LEMMA Writes ==
    ASSUME Inv, NEW c \in Calls, NEW step \in Steps, NEW l \in Locals, Moves(c, step, l),
           AccountsTypeOK', overlapped' = overlapped,
           \A d \in Calls \ {c} : Undisturbed(d),
           pc'[c] = step /\ loc'[c] = l => CallInv(c)',
           TokenInv', \A p \in People : Explained(p)'
    PROVE  Inv'
  <1>1. CallInv(c)' /\ grants' \in [People -> Nat]
    BY Moved DEF AccountsTypeOK
  <1>2. ASSUME NEW d \in Calls PROVE CallInv(d)'
    BY <1>1, OtherCall
  <1>3. RaceInv'
    BY RaceKept
  <1> QED BY <1>2, <1>3 DEF Inv

LEMMA FreshType == /\ Fresh \in Account /\ Fresh # None /\ Fresh.status = "active"
                   /\ Fresh.roles = {"user"}
  <1>1. Fresh.deletion = None /\ Fresh.phone = FALSE /\ Fresh \in Account
    BY DEF Fresh, Account, Statuses, Roles
  <1> QED BY <1>1, AccountsAssumption DEF Fresh

LEMMA createUserStep ==
    ASSUME Inv, NEW c \in Calls, createUser(c)
    PROVE  Inv'
  <1> DEFINE p == loc[c].target
  <1>k. /\ loc[c] \in Locals /\ p \in People /\ CallInv(c) /\ pc[c] = "create"
        /\ account \in [People -> Account \cup {None}] /\ loc \in [Calls -> Locals]
        /\ grants \in [People -> Nat]
        /\ UNCHANGED <<consents, active, record, reveals, tokens, bounds, history>>
    BY Known DEF createUser, Inv, AccountsTypeOK
  <1>0. /\ loc[c].kind \in Entering /\ loc[c].answer = None /\ ~loc[c].wrote /\ loc[c].required
        /\ loc[c].kind \notin {"consents", "reveal"} \cup Moderation \cup Mine
    BY <1>k DEF CallInv, CallOK, Entering, Moderation, Mine
  <1>1. CASE account[p] # None /\ loc[c].kind = "link" /\ Goto(c, "find again")
             /\ UNCHANGED <<account, loc>>
    <2>1. ASSUME pc'[c] = "find again" PROVE CallInv(c)'
      <3>1. CallOK(c)' /\ Wishes(c)' /\ Knows(c)'
        BY <1>k, <1>0, <1>1, <2>1 DEF CallOK, Wishes, Knows, Checking
      <3>2. Enters(c)' /\ Revealed(c)'
        BY <1>k, <1>1, <2>1 DEF CallInv, Enters, Revealed, history
      <3>3. Consented(c)' /\ Standing(c)'
        BY <1>k, <1>0, <1>1, <2>1 DEF CallInv, Consented, Standing, Complete, history
      <3> QED BY <3>1, <3>2, <3>3 DEF CallInv
    <2> QED BY <1>k, <1>0, <1>1, <2>1, GoesOn DEF Steps, db
  <1>2. CASE account[p] # None /\ loc[c].kind = "login" /\ Answer(c, "failed")
             /\ UNCHANGED account
    <2>1. <<"enter", p>> \in overlapped
      BY <1>k, <1>2 DEF CallInv, Enters
    <2> QED BY <1>k, <1>2, <2>1, Answered DEF Answers, db
  <1>3. CASE /\ account[p] = None /\ account' = [account EXCEPT ![p] = Fresh]
             /\ Goto(c, "required documents")
             /\ loc' = [loc EXCEPT ![c] = [@ EXCEPT !.roles = Fresh.roles, !.grant = grants[p]]]
    <2> DEFINE l == [loc[c] EXCEPT !.roles = Fresh.roles, !.grant = grants[p]]
    <2>1. l \in Locals
      BY <1>k, FreshType DEF Locals, Roles
    <2>2. /\ l.roles = Fresh.roles /\ l.grant = grants[p] /\ l.answer = loc[c].answer
          /\ l.wrote = loc[c].wrote /\ l.required = loc[c].required
          /\ l.kind = loc[c].kind /\ l.target = p /\ l.n = loc[c].n
      BY <1>k DEF Locals
    <2>3. loc' = [loc EXCEPT ![c] = l] /\ pc' = [pc EXCEPT ![c] = "required documents"]
      BY <1>k, <1>3 DEF Goto
    <2> HIDE DEF l
    <2>4. Moves(c, "required documents", l) /\ "required documents" \in Steps
      BY <1>k, <2>2, <2>3 DEF Moves, Steps
    <2>5. /\ account'[p] = Fresh /\ account' \in [People -> Account \cup {None}]
          /\ \A q \in People \ {p} : account'[q] = account[q]
      BY <1>k, <1>3, FreshType
    <2>6. grants' = grants /\ overlapped' = overlapped /\ moved' = moved /\ renewed' = renewed
      BY <1>k DEF history
    <2>7. AccountsTypeOK'
      BY <1>k, <2>1, <2>4, <2>5, <2>6, Moved DEF Inv, AccountsTypeOK, bounds
    <2>8. ASSUME NEW q \in People PROVE RolesKept(q)
      <3>1. grants[q] <= grants'[q]
        BY <1>k, <2>6
      <3> QED BY <1>3, <2>5, <3>1 DEF RolesKept
    <2>9. ASSUME NEW d \in Calls \ {c} PROVE Undisturbed(d)
      <3>1. /\ pc'[d] = pc[d] /\ loc'[d] = loc[d] /\ CallInv(d) /\ loc[d].target \in People
        BY <2>1, <2>4, Moved, Known
      <3>2. RolesKept(loc[d].target)
        BY <2>8, <3>1
      <3>3. CASE loc[d].target = p
        <4>1. pc[d] = "create" => <<"enter", p>> \in overlapped
          <5>1. pc[d] = "create" => loc[d].kind \in Entering
            BY <3>1 DEF CallInv, CallOK
          <5> QED BY <1>k, <1>0, <3>3, <5>1 DEF Inv, RaceInv, Clash, Group
        <4> QED BY <1>3, <1>k, <2>6, <3>1, <3>2, <3>3, <4>1 DEF Undisturbed
      <3>4. CASE loc[d].target # p
        BY <1>k, <2>5, <2>6, <3>1, <3>2, <3>4 DEF Undisturbed
      <3> QED BY <3>3, <3>4
    <2>10. ASSUME pc'[c] = "required documents", loc'[c] = l PROVE CallInv(c)'
      <3>1. CallOK(c)'
        BY <1>0, <2>2, <2>10 DEF CallOK, Checking
      <3>2. Enters(c)' /\ Revealed(c)' /\ Wishes(c)'
        BY <1>0, <2>2, <2>10, AccountsAssumption DEF Enters, Revealed, Wishes, Answers
      <3>3. Consented(c)' /\ Standing(c)'
        BY <1>0, <2>2, <2>10 DEF Consented, Standing
      <3>4. Knows(c)'
        <4>1. /\ account'[loc'[c].target] = Fresh /\ grants'[loc'[c].target] = grants[p]
              /\ loc'[c].grant = grants[p] /\ loc'[c].roles = Fresh.roles
          BY <2>2, <2>5, <2>6, <2>10
        <4>2. grants[p] <= grants[p]
          BY <1>k
        <4> QED BY <4>1, <4>2, FreshType DEF Knows
      <3> QED BY <3>1, <3>2, <3>3, <3>4 DEF CallInv
    <2>11. TokenInv'
      BY <1>k, <2>6, <2>8, TokensKept
    <2>12. ASSUME NEW q \in People PROVE Explained(q)'
      <3>1. \A d \in Calls : /\ Auditing(d, q)' <=> Auditing(d, q)
                             /\ Auditing(d, q) => loc'[d].kind = loc[d].kind
        BY <1>k, <2>1, <2>4, SameAudits
      <3> QED BY <1>3, <1>k, <2>5, <2>6, <3>1, FreshType, ExplainedKept
    <2> QED BY <2>1, <2>4, <2>6, <2>7, <2>9, <2>10, <2>11, <2>12, Writes
  <1> QED BY <1>k, <1>1, <1>2, <1>3 DEF createUser

(* A step of c that changes no account leaves the other calls alone.       *)
LEMMA Beside ==
    ASSUME Inv, NEW c \in Calls, NEW step \in Steps, NEW l \in Locals, Moves(c, step, l),
           UNCHANGED <<account, active, history>>, reveals \subseteq reveals',
           \A p \in People : consents[p] \subseteq consents'[p]
    PROVE  /\ \A d \in Calls \ {c} : Undisturbed(d)
           /\ \A p \in People : RolesKept(p)
  <1>1. ASSUME NEW p \in People PROVE RolesKept(p)
    <2>1. grants[p] \in Nat
      BY DEF Inv, AccountsTypeOK
    <2>2. grants[p] <= grants'[p]
      BY <2>1 DEF history
    <2> QED BY <2>2 DEF RolesKept
  <1>2. ASSUME NEW d \in Calls \ {c} PROVE Undisturbed(d)
    <2>1. /\ pc'[d] = pc[d] /\ loc'[d] = loc[d] /\ loc[d].target \in People
      BY Moved, Known
    <2>2. RolesKept(loc[d].target)
      BY <1>1, <2>1
    <2> QED BY <2>1, <2>2 DEF Undisturbed, history
  <1> QED BY <1>1, <1>2

LEMMA AnswerLocals ==
    ASSUME Inv, NEW c \in Calls, NEW what \in Answers, pc[c] # "idle", Answer(c, what)
    PROVE  \E l \in Locals :
             /\ Moves(c, "answered", l)
             /\ l.answer = what /\ l.roles = loc[c].roles /\ l.grant = loc[c].grant
             /\ l.active = loc[c].active /\ l.wrote = loc[c].wrote
             /\ l.required = loc[c].required /\ l.docs = loc[c].docs
             /\ l.kind = loc[c].kind /\ l.target = loc[c].target /\ l.n = loc[c].n
  <1> DEFINE l == [loc[c] EXCEPT !.answer = what]
  <1>k. loc[c] \in Locals /\ loc \in [Calls -> Locals]
    BY Known
  <1>1. l \in Locals
    BY <1>k DEF Locals
  <1>2. /\ l.answer = what /\ l.roles = loc[c].roles /\ l.grant = loc[c].grant
        /\ l.active = loc[c].active /\ l.wrote = loc[c].wrote /\ l.required = loc[c].required
        /\ l.kind = loc[c].kind /\ l.target = loc[c].target /\ l.n = loc[c].n
        /\ l.docs = loc[c].docs
    BY <1>k DEF Locals
  <1>3. loc' = [loc EXCEPT ![c] = l] /\ pc' = [pc EXCEPT ![c] = "answered"]
    BY <1>k DEF Answer, Goto
  <1> HIDE DEF l
  <1>4. Moves(c, "answered", l)
    BY <1>2, <1>3 DEF Moves
  <1> QED BY <1>1, <1>2, <1>4

LEMMA TokenRoles ==
    ASSUME NEW roles \in SUBSET Roles
    PROVE  /\ mapDatabaseRolesToAppRoles(roles) \in SUBSET Roles
           /\ mapDatabaseRolesToAppRoles(roles) \cap Staff = roles \cap Staff
  BY DEF mapDatabaseRolesToAppRoles, Roles, Staff

LEMMA ConcludeStep ==
    ASSUME Inv, NEW c \in Calls, Conclude(c)
    PROVE  Inv'
  <1> DEFINE p == loc[c].target
  <1>k. /\ loc[c] \in Locals /\ p \in People /\ CallInv(c) /\ pc[c] = "conclude"
        /\ grants \in [People -> Nat] /\ loc[c].roles \in SUBSET Roles /\ loc[c].grant \in Nat
        /\ UNCHANGED <<account, consents, active, record, reveals, bounds, history>>
    BY Known DEF Conclude, Inv, AccountsTypeOK, Locals
  <1>0. loc[c].kind \in Entering \cup {"consents"} /\ loc[c].kind \notin Moderation \cup {"reveal"}
    BY <1>k DEF CallInv, CallOK, Checking, Entering, Moderation
  <1>a. Answer(c, "ok") /\ pc[c] # "idle" /\ "ok" \in Answers
    BY <1>k DEF Conclude, Answers
  <1>1. PICK l \in Locals :
             /\ Moves(c, "answered", l) /\ l.answer = "ok"
             /\ l.required = loc[c].required /\ l.wrote = loc[c].wrote
             /\ l.kind = loc[c].kind /\ l.target = loc[c].target
    BY <1>a, AnswerLocals
  <1>2. "answered" \in Steps
    BY DEF Steps
  <1>3. /\ \A d \in Calls \ {c} : Undisturbed(d)
        /\ \A q \in People : RolesKept(q)
    BY <1>k, <1>1, <1>2, Beside
  <1>4. ASSUME NEW t \in tokens', t \notin tokens
        PROVE  /\ t \in [user: People, roles: SUBSET Roles, grant: Nat]
               /\ account[t.user] # None /\ t.grant <= grants[t.user]
               /\ t.grant = grants[t.user] =>
                    t.roles \cap Staff = account[t.user].roles \cap Staff
    <2>1. /\ loc[c].kind = "login"
          /\ t = [user |-> p, grant |-> loc[c].grant,
                  roles |-> mapDatabaseRolesToAppRoles(loc[c].roles)]
      BY <1>4 DEF Conclude, issueAccessToken
    <2>2. /\ account[p] # None /\ loc[c].grant <= grants[p]
          /\ loc[c].grant = grants[p] => loc[c].roles = account[p].roles
      BY <1>k, <2>1 DEF CallInv, Knows, Checking, Entering
    <2> QED BY <1>k, <2>1, <2>2, TokenRoles
  <1>5. AccountsTypeOK'
    <2>1. tokens' \subseteq [user: People, roles: SUBSET Roles, grant: Nat]
      BY <1>4 DEF Inv, AccountsTypeOK
    <2> QED BY <1>k, <1>1, <1>2, <2>1, Moved DEF Inv, AccountsTypeOK, bounds, history
  <1>6. TokenInv'
    <2>1. ASSUME NEW t \in tokens'
          PROVE  /\ account[t.user] # None /\ t.grant <= grants[t.user]
                 /\ t.grant = grants[t.user] =>
                      t.roles \cap Staff = account[t.user].roles \cap Staff
      BY <1>4 DEF Inv, TokenInv, TokenTellsRoles
    <2> QED BY <1>k, <2>1 DEF TokenInv, TokenTellsRoles, history
  <1>7. ASSUME pc'[c] = "answered", loc'[c] = l PROVE CallInv(c)'
    <2>1. CallOK(c)' /\ Enters(c)' /\ Knows(c)'
      BY <1>1, <1>7 DEF CallOK, Enters, Knows, Checking
    <2>2. Consented(c)'
      BY <1>k, <1>1, <1>7 DEF CallInv, Consented, Complete, history
    <2>3. Standing(c)' /\ Wishes(c)' /\ Revealed(c)'
      BY <1>0, <1>1, <1>7 DEF Standing, Wishes, Revealed
    <2> QED BY <2>1, <2>2, <2>3 DEF CallInv
  <1>8. ASSUME NEW q \in People PROVE Explained(q)'
    <2>1. \A d \in Calls : /\ Auditing(d, q)' <=> Auditing(d, q)
                           /\ Auditing(d, q) => loc'[d].kind = loc[d].kind
      BY <1>k, <1>1, <1>2, SameAudits
    <2> QED BY <1>k, <2>1, ExplainedKept DEF history
  <1> QED BY <1>k, <1>1, <1>2, <1>3, <1>5, <1>6, <1>7, <1>8, Writes DEF history

LEMMA createConsentRecordsStep ==
    ASSUME Inv, NEW c \in Calls, createConsentRecords(c)
    PROVE  Inv'
  <1> DEFINE p == loc[c].target
  <1>k. /\ loc[c] \in Locals /\ p \in People /\ CallInv(c) /\ pc[c] = "create consents"
        /\ consents \in [People -> SUBSET Docs] /\ loc[c].docs \subseteq Docs
        /\ consents' = [consents EXCEPT ![p] = @ \cup loc[c].docs] /\ loc' = loc
        /\ UNCHANGED <<account, active, record, reveals, tokens, bounds, history>>
    BY Known DEF createConsentRecords, Inv, AccountsTypeOK, Locals
  <1>0. loc[c].kind = "consents" /\ loc[c].kind \notin Moderation
    BY <1>k DEF CallInv, CallOK, Moderation
  <1>1. Moves(c, "required documents", loc[c]) /\ "required documents" \in Steps
    BY <1>k, SameLocals DEF createConsentRecords, Goto, Steps
  <1>2. /\ consents' \in [People -> SUBSET Docs]
        /\ \A q \in People : consents[q] \subseteq consents'[q]
    BY <1>k
  <1>3. /\ \A d \in Calls \ {c} : Undisturbed(d)
        /\ \A q \in People : RolesKept(q)
    BY <1>k, <1>1, <1>2, Beside
  <1>4. AccountsTypeOK'
    BY <1>k, <1>1, <1>2, Moved DEF Inv, AccountsTypeOK, bounds, history
  <1>5. ASSUME pc'[c] = "required documents", loc'[c] = loc[c] PROVE CallInv(c)'
    <2>1. CallOK(c)' /\ Wishes(c)'
      BY <1>k, <1>5 DEF CallInv, CallOK, Checking, Wishes
    <2>2. Enters(c)' /\ Knows(c)' /\ Revealed(c)'
      BY <1>k, <1>0, <1>5 DEF CallInv, Enters, Knows, Checking, Entering, Revealed, history
    <2>3. Consented(c)' /\ Standing(c)'
      BY <1>k, <1>5 DEF CallInv, CallOK, Consented, Standing, history
    <2> QED BY <2>1, <2>2, <2>3 DEF CallInv
  <1>6. ASSUME NEW q \in People PROVE Explained(q)'
    <2>1. \A d \in Calls : /\ Auditing(d, q)' <=> Auditing(d, q)
                           /\ Auditing(d, q) => loc'[d].kind = loc[d].kind
      BY <1>k, <1>0, <1>1, SameAudits
    <2> QED BY <1>k, <2>1, ExplainedKept DEF history
  <1>7. TokenInv' /\ overlapped' = overlapped
    BY <1>k, <1>3, TokensKept DEF Inv, AccountsTypeOK, history
  <1> QED BY <1>k, <1>1, <1>3, <1>4, <1>5, <1>6, <1>7, Writes

LEMMA SameGrants ==
    ASSUME Inv, grants' = grants, NEW q \in People
    PROVE  grants[q] <= grants'[q]
  <1>1. grants[q] \in Nat
    BY DEF Inv, AccountsTypeOK
  <1> QED BY <1>1

(* A step of c that writes the row of its target.                          *)
LEMMA RowWritten ==
    ASSUME Inv, NEW c \in Calls, NEW step \in Steps, NEW l \in Locals, Moves(c, step, l),
           NEW p, p = loc[c].target, account[p] # None,
           NEW row \in Account, account' = [account EXCEPT ![p] = row],
           row.roles = account[p].roles,
           row.status # account[p].status => Meanwhile(c, p) \subseteq moved',
           row.deletion # account[p].deletion => loc[c].kind = "delete request",
           UNCHANGED <<consents, active, reveals, grants, overlapped, renewed>>,
           moved \subseteq moved'
    PROVE  /\ account' \in [People -> Account \cup {None}]
           /\ account'[p] = row
           /\ \A q \in People \ {p} : account'[q] = account[q]
           /\ \A q \in People : RolesKept(q)
           /\ \A d \in Calls \ {c} : Undisturbed(d)
  <1>k. /\ p \in People /\ account \in [People -> Account \cup {None}]
        /\ row # None /\ pc[c] # "idle"
    BY Known, AccountsAssumption DEF Inv, AccountsTypeOK, Moves
  <1>1. /\ account' \in [People -> Account \cup {None}] /\ account'[p] = row
        /\ \A q \in People \ {p} : account'[q] = account[q]
    BY <1>k
  <1>2. ASSUME NEW q \in People PROVE RolesKept(q)
    <2>1. grants[q] <= grants'[q]
      BY SameGrants
    <2> QED BY <1>k, <1>1, <2>1 DEF RolesKept
  <1>3. ASSUME NEW d \in Calls \ {c} PROVE Undisturbed(d)
    <2>1. /\ pc'[d] = pc[d] /\ loc'[d] = loc[d] /\ CallInv(d) /\ loc[d].target \in People
          /\ pc \in [Calls -> Steps]
      BY Moved, Known
    <2>2. RolesKept(loc[d].target)
      BY <1>2, <2>1
    <2>3. CASE loc[d].target # p
      BY <1>1, <2>1, <2>2, <2>3 DEF Undisturbed
    <2>4. CASE loc[d].target = p
      <3>1. d \notin moved' => (pc[d] # "idle" => row.status = account[p].status)
        BY <2>1, <2>4 DEF Meanwhile, InFlight
      <3>2. pc[d] = "write" /\ loc[d].kind = "delete request" /\ row.deletion # account[p].deletion
            => <<"delete request", p>> \in overlapped
        BY <1>k, <2>4 DEF Inv, RaceInv, Clash, Group, Entering, Moderation
      <3> QED BY <1>k, <1>1, <2>1, <2>2, <2>4, <3>1, <3>2 DEF Undisturbed
    <2> QED BY <2>3, <2>4
  <1> QED BY <1>1, <1>2, <1>3

WritesProfile(c, phone) ==
    /\ account' = [account EXCEPT ![loc[c].target].phone = phone]
    /\ loc' = [loc EXCEPT ![c] = [@ EXCEPT !.wrote = TRUE]]
    /\ Goto(c, "read again")

LEMMA profileWritten ==
    ASSUME Inv, NEW c \in Calls, updateProfile(c), NEW phone \in BOOLEAN, WritesProfile(c, phone)
    PROVE  Inv'
  <1> DEFINE p == loc[c].target
             l == [loc[c] EXCEPT !.wrote = TRUE]
  <1>k. /\ loc[c] \in Locals /\ p \in People /\ CallInv(c) /\ pc[c] = "write"
        /\ loc[c].kind = "profile" /\ loc \in [Calls -> Locals]
        /\ account \in [People -> Account \cup {None}] /\ account[p] # None
        /\ UNCHANGED <<consents, active, record, reveals, tokens, bounds, history>>
    BY Known DEF updateProfile, Inv, AccountsTypeOK, CallInv, CallOK
  <1>1. l \in Locals
    BY <1>k DEF Locals
  <1>2. /\ l.answer = loc[c].answer /\ l.required = loc[c].required
        /\ l.kind = loc[c].kind /\ l.target = p /\ l.n = loc[c].n
    BY <1>k DEF Locals
  <1>3. loc' = [loc EXCEPT ![c] = l] /\ pc' = [pc EXCEPT ![c] = "read again"]
    BY <1>k DEF WritesProfile, Goto
  <1> HIDE DEF l
  <1>4. Moves(c, "read again", l) /\ "read again" \in Steps
    BY <1>k, <1>2, <1>3 DEF Moves, Steps
  <1> DEFINE row == [account[p] EXCEPT !.phone = phone]
  <1>6. account' = [account EXCEPT ![p] = row]
    BY DEF WritesProfile
  <1>7. /\ row \in Account /\ row.roles = account[p].roles /\ row.status = account[p].status
        /\ row.deletion = account[p].deletion
    BY <1>k DEF Account
  <1> HIDE DEF row
  <1>8. overlapped' = overlapped /\ moved' = moved /\ renewed' = renewed /\ grants' = grants
    BY <1>k DEF history
  <1>9. /\ account' \in [People -> Account \cup {None}] /\ account'[p] = row
        /\ \A q \in People \ {p} : account'[q] = account[q]
        /\ \A q \in People : RolesKept(q)
        /\ \A d \in Calls \ {c} : Undisturbed(d)
    BY <1>k, <1>1, <1>4, <1>6, <1>7, <1>8, RowWritten
  <1>10. AccountsTypeOK'
    BY <1>k, <1>1, <1>4, <1>9, Moved DEF Inv, AccountsTypeOK, bounds, history
  <1>11. ASSUME pc'[c] = "read again", loc'[c] = l PROVE CallInv(c)'
    <2>1. row # None
      BY <1>7, AccountsAssumption
    <2>2. CallOK(c)'
      BY <1>k, <1>2, <1>9, <1>11, <2>1 DEF CallInv, CallOK, Checking
    <2>3. Enters(c)' /\ Knows(c)' /\ Wishes(c)' /\ Revealed(c)'
      BY <1>k, <1>2, <1>8, <1>11 DEF CallInv, Enters, Knows, Entering, Wishes, Revealed
    <2>4. Consented(c)'
      BY <1>k, <1>2, <1>11 DEF CallInv, CallOK, Consented
    <2>5. Standing(c)'
      BY <1>k, <1>2, <1>7, <1>8, <1>9, <1>11, AccountsAssumption
      DEF CallInv, CallOK, Standing, Mine, Answers
    <2> QED BY <2>2, <2>3, <2>4, <2>5 DEF CallInv
  <1>12. TokenInv'
    BY <1>k, <1>9, <1>10, TokensKept DEF AccountsTypeOK
  <1>13. ASSUME NEW q \in People PROVE Explained(q)'
    <2>1. \A d \in Calls : /\ Auditing(d, q)' <=> Auditing(d, q)
                           /\ Auditing(d, q) => loc'[d].kind = loc[d].kind
      BY <1>k, <1>1, <1>4, SameAudits
    <2>2. (account'[q] # None <=> account[q] # None)
          /\ (account[q] # None => account'[q].status = account[q].status)
      BY <1>k, <1>7, <1>9, AccountsAssumption
    <2> QED BY <1>k, <1>8, <2>1, <2>2, ExplainedKept
  <1> QED BY <1>1, <1>4, <1>8, <1>9, <1>10, <1>11, <1>12, <1>13, Writes

LEMMA updateProfileStep ==
    ASSUME Inv, NEW c \in Calls, updateProfile(c)
    PROVE  Inv'
  <1>1. CASE Answer(c, "conflict") /\ account' = account
    <2>1. UNCHANGED <<db, bounds, history>> /\ pc[c] = "write" /\ "conflict" \in Answers
      BY <1>1 DEF updateProfile, db, Answers
    <2> QED BY <1>1, <2>1, Answered
  <1>2. CASE ~ (Answer(c, "conflict") /\ account' = account)
    BY <1>2, profileWritten DEF updateProfile, WritesProfile
  <1> QED BY <1>1, <1>2

LEMMA requestDeletionStep ==
    ASSUME Inv, NEW c \in Calls, requestDeletion(c)
    PROVE  Inv'
  <1> DEFINE p == loc[c].target
             row == [account[p] EXCEPT !.deletion = loc[c].n]
  <1>k. /\ loc[c] \in Locals /\ p \in People /\ CallInv(c) /\ pc[c] = "write"
        /\ loc[c].kind = "delete request" /\ loc[c].n \in Nat
        /\ account \in [People -> Account \cup {None}] /\ account[p] # None
        /\ UNCHANGED <<consents, active, record, reveals, tokens, bounds, history>>
    BY Known DEF requestDeletion, Inv, AccountsTypeOK, CallInv, CallOK, Locals
  <1>a. Answer(c, "ok") /\ pc[c] # "idle" /\ "ok" \in Answers
    BY <1>k DEF requestDeletion, Answers
  <1>1. PICK l \in Locals :
             /\ Moves(c, "answered", l) /\ l.answer = "ok"
             /\ l.required = loc[c].required
             /\ l.kind = loc[c].kind /\ l.target = loc[c].target
    BY <1>a, AnswerLocals
  <1>2. "answered" \in Steps
    BY DEF Steps
  <1>6. account' = [account EXCEPT ![p] = row]
    BY DEF requestDeletion
  <1>7. row \in Account /\ row.roles = account[p].roles /\ row.status = account[p].status
    BY <1>k DEF Account
  <1> HIDE DEF row
  <1>8. overlapped' = overlapped /\ moved' = moved /\ renewed' = renewed /\ grants' = grants
    BY <1>k DEF history
  <1>9. /\ account' \in [People -> Account \cup {None}] /\ account'[p] = row
        /\ \A q \in People \ {p} : account'[q] = account[q]
        /\ \A q \in People : RolesKept(q)
        /\ \A d \in Calls \ {c} : Undisturbed(d)
    BY <1>k, <1>1, <1>2, <1>6, <1>7, <1>8, RowWritten
  <1>10. AccountsTypeOK'
    BY <1>k, <1>1, <1>2, <1>9, Moved DEF Inv, AccountsTypeOK, bounds, history
  <1>11. ASSUME pc'[c] = "answered", loc'[c] = l PROVE CallInv(c)'
    <2>1. CallOK(c)' /\ Enters(c)' /\ Knows(c)'
      BY <1>1, <1>11 DEF CallOK, Enters, Knows, Checking
    <2>2. Consented(c)'
      BY <1>k, <1>1, <1>11 DEF CallInv, CallOK, Consented
    <2>3. Standing(c)' /\ Wishes(c)' /\ Revealed(c)'
      BY <1>k, <1>1, <1>11 DEF Standing, Wishes, Revealed
    <2> QED BY <2>1, <2>2, <2>3 DEF CallInv
  <1>12. TokenInv'
    BY <1>k, <1>9, <1>10, TokensKept DEF AccountsTypeOK
  <1>13. ASSUME NEW q \in People PROVE Explained(q)'
    <2>1. \A d \in Calls : /\ Auditing(d, q)' <=> Auditing(d, q)
                           /\ Auditing(d, q) => loc'[d].kind = loc[d].kind
      BY <1>k, <1>1, <1>2, SameAudits
    <2>2. (account'[q] # None <=> account[q] # None)
          /\ (account[q] # None => account'[q].status = account[q].status)
      BY <1>k, <1>7, <1>9, AccountsAssumption
    <2> QED BY <1>k, <1>8, <2>1, <2>2, ExplainedKept
  <1> QED BY <1>1, <1>2, <1>8, <1>9, <1>10, <1>11, <1>12, <1>13, Writes

LEMMA ModerateStep ==
    ASSUME Inv, NEW c \in Calls, Moderate(c)
    PROVE  Inv'
  <1> DEFINE p == loc[c].target
             row == [account[p] EXCEPT !.status = StatusAfter(loc[c].kind)]
  <1>k. /\ loc[c] \in Locals /\ p \in People /\ CallInv(c) /\ pc[c] = "write"
        /\ loc[c].kind \in Moderation /\ moved \subseteq Calls
        /\ account \in [People -> Account \cup {None}] /\ account[p] # None
        /\ UNCHANGED <<consents, active, record, reveals, tokens, loc, bounds, grants,
                       overlapped, renewed>>
    BY Known DEF Moderate, Inv, AccountsTypeOK, CallInv, CallOK, Locals
  <1>0. loc[c].kind \notin Entering \cup Mine \cup {"reveal"} /\ loc[c].answer = None
        /\ ~loc[c].wrote /\ loc[c].required
    BY <1>k DEF CallInv, CallOK, Moderation, Mine, Entering
  <1>1. Moves(c, "audit", loc[c]) /\ "audit" \in Steps
    BY <1>k, SameLocals DEF Moderate, Goto, Steps
  <1>2. account' = [account EXCEPT ![p] = row]
    BY DEF Moderate, StatusAfter
  <1>3. /\ row \in Account /\ row.roles = account[p].roles
        /\ row.status = StatusAfter(loc[c].kind) /\ row.deletion = account[p].deletion
    BY <1>k DEF Account, StatusAfter, Statuses
  <1>4. moved' = IF row.status = account[p].status THEN moved ELSE moved \cup Meanwhile(c, p)
    BY <1>3 DEF Moderate, StatusAfter
  <1> HIDE DEF row
  <1>5. moved \subseteq moved' /\ moved' \subseteq Calls
        /\ (row.status # account[p].status => Meanwhile(c, p) \subseteq moved')
    BY <1>k, <1>4 DEF Meanwhile, InFlight
  <1>6. /\ account' \in [People -> Account \cup {None}] /\ account'[p] = row
        /\ \A q \in People \ {p} : account'[q] = account[q]
        /\ \A q \in People : RolesKept(q)
        /\ \A d \in Calls \ {c} : Undisturbed(d)
    BY <1>k, <1>1, <1>2, <1>3, <1>5, RowWritten
  <1>7. AccountsTypeOK'
    BY <1>k, <1>1, <1>5, <1>6, Moved DEF Inv, AccountsTypeOK, bounds
  <1>8. ASSUME pc'[c] = "audit", loc'[c] = loc[c] PROVE CallInv(c)'
    <2>1. row # None
      BY <1>3, AccountsAssumption
    <2>2. CallOK(c)'
      BY <1>k, <1>0, <1>6, <1>8, <2>1 DEF CallInv, CallOK, Checking
    <2>3. Enters(c)' /\ Knows(c)' /\ Wishes(c)' /\ Revealed(c)'
      BY <1>0, <1>8, AccountsAssumption DEF Enters, Knows, Wishes, Revealed, Answers
    <2>4. Consented(c)' /\ Standing(c)'
      BY <1>0, <1>8 DEF Consented, Standing
    <2> QED BY <2>2, <2>3, <2>4 DEF CallInv
  <1>9. TokenInv'
    BY <1>k, <1>6, <1>7, TokensKept DEF AccountsTypeOK
  <1>10. ASSUME NEW q \in People PROVE Explained(q)'
    <2>1. CASE q # p
      <3>1. \A d \in Calls : /\ Auditing(d, q)' <=> Auditing(d, q)
                             /\ Auditing(d, q) => loc'[d].kind = loc[d].kind
        BY <1>k, <1>1, <2>1, Moved DEF Auditing
      <3> QED BY <1>k, <1>6, <2>1, <3>1, ExplainedKept, AccountsAssumption
    <2>2. CASE q = p
      <3>1. Auditing(c, q)' /\ account'[q].status = StatusAfter(loc[c].kind)'
        BY <1>k, <1>1, <1>3, <1>6, <2>2, Moved DEF Auditing, StatusAfter
      <3>2. account'[q] # None
        BY <1>3, <1>6, <2>2, AccountsAssumption
      <3> QED BY <3>1, <3>2 DEF Explained
    <2> QED BY <2>1, <2>2
  <1> QED BY <1>k, <1>1, <1>6, <1>7, <1>8, <1>9, <1>10, Writes

LEMMA AuditAnswered ==
    ASSUME Inv, NEW c \in Calls, NEW l \in Locals, Moves(c, "answered", l),
           pc'[c] = "answered", loc'[c] = l, l.answer = "ok", l.required = loc[c].required,
           l.kind = "reveal" => l.n \in reveals', pc[c] = "audit"
    PROVE  CallInv(c)'
  <1>1. loc[c].required
    BY Known DEF CallInv, CallOK
  <1>2. CallOK(c)' /\ Enters(c)' /\ Knows(c)'
    BY DEF CallOK, Enters, Knows, Checking
  <1>3. Consented(c)' /\ Standing(c)' /\ Wishes(c)' /\ Revealed(c)'
    BY <1>1 DEF Consented, Standing, Wishes, Revealed
  <1> QED BY <1>2, <1>3 DEF CallInv

LEMMA writeEmergencyPhoneRevealAuditStep ==
    ASSUME Inv, NEW c \in Calls, writeEmergencyPhoneRevealAudit(c)
    PROVE  Inv'
  <1>k. /\ loc[c] \in Locals /\ loc[c].n \in Nat /\ CallInv(c) /\ pc[c] = "audit"
        /\ loc[c].kind = "reveal" /\ loc[c].kind \notin Moderation
        /\ reveals' = reveals \cup {loc[c].n}
        /\ UNCHANGED <<account, consents, active, record, tokens, bounds, history>>
    BY Known DEF writeEmergencyPhoneRevealAudit, Locals, Moderation
  <1>a. Answer(c, "ok") /\ pc[c] # "idle" /\ "ok" \in Answers
    BY <1>k DEF writeEmergencyPhoneRevealAudit, Answers
  <1>1. PICK l \in Locals :
             /\ Moves(c, "answered", l) /\ l.answer = "ok" /\ l.required = loc[c].required
             /\ l.n = loc[c].n
    BY <1>a, AnswerLocals
  <1>2. "answered" \in Steps
    BY DEF Steps
  <1>3. /\ \A d \in Calls \ {c} : Undisturbed(d)
        /\ \A q \in People : RolesKept(q)
    BY <1>k, <1>1, <1>2, Beside
  <1>4. AccountsTypeOK'
    BY <1>k, <1>1, <1>2, Moved DEF Inv, AccountsTypeOK, bounds, history
  <1>5. ASSUME pc'[c] = "answered", loc'[c] = l PROVE CallInv(c)'
    BY <1>k, <1>1, <1>5, AuditAnswered
  <1>6. ASSUME NEW q \in People PROVE Explained(q)'
    <2>1. \A d \in Calls : /\ Auditing(d, q)' <=> Auditing(d, q)
                           /\ Auditing(d, q) => loc'[d].kind = loc[d].kind
      BY <1>k, <1>1, <1>2, SameAudits
    <2> QED BY <1>k, <2>1, ExplainedKept DEF history
  <1>7. TokenInv' /\ overlapped' = overlapped
    BY <1>k, <1>3, TokensKept DEF Inv, AccountsTypeOK, history
  <1> QED BY <1>1, <1>2, <1>3, <1>4, <1>5, <1>6, <1>7, Writes

LEMMA writeUserModerationAuditStep ==
    ASSUME Inv, NEW c \in Calls, writeUserModerationAudit(c)
    PROVE  Inv'
  <1> DEFINE p == loc[c].target
             note == IF loc[c].kind = "block" THEN "user.block" ELSE "user.unblock"
  <1>k. /\ loc[c] \in Locals /\ p \in People /\ CallInv(c) /\ pc[c] = "audit"
        /\ loc[c].kind \in Moderation /\ loc[c].kind # "reveal"
        /\ record \in [People -> Notes \cup {None}] /\ record' = [record EXCEPT ![p] = note]
        /\ UNCHANGED <<account, consents, active, reveals, tokens, bounds, history>>
    BY Known DEF writeUserModerationAudit, Inv, AccountsTypeOK, Moderation
  <1>0. note \in Notes
    BY DEF Notes
  <1>a. Answer(c, "ok") /\ pc[c] # "idle" /\ "ok" \in Answers
    BY <1>k DEF writeUserModerationAudit, Answers
  <1>1. PICK l \in Locals :
             /\ Moves(c, "answered", l) /\ l.answer = "ok" /\ l.required = loc[c].required
             /\ l.kind = loc[c].kind
    BY <1>a, AnswerLocals
  <1>2. "answered" \in Steps
    BY DEF Steps
  <1>3. /\ \A d \in Calls \ {c} : Undisturbed(d)
        /\ \A q \in People : RolesKept(q)
    BY <1>k, <1>1, <1>2, Beside
  <1>4. AccountsTypeOK'
    BY <1>k, <1>0, <1>1, <1>2, Moved DEF Inv, AccountsTypeOK, bounds, history
  <1>5. ASSUME pc'[c] = "answered", loc'[c] = l PROVE CallInv(c)'
    BY <1>k, <1>1, <1>5, AuditAnswered
  <1>6. ASSUME NEW q \in People PROVE Explained(q)'
    <2>1. \A d \in Calls \ {c} : Auditing(d, q)' <=> Auditing(d, q)
      BY <1>1, <1>2, Moved DEF Auditing
    <2>2. ~Auditing(c, q)'
      BY <1>1, <1>2, Moved DEF Auditing
    <2>3. CASE q # p
      <3>1. record'[q] = record[q] /\ ~Auditing(c, q) /\ Explained(q)
        BY <1>k, <2>3 DEF Auditing, Inv
      <3>2. \A d \in Calls : Auditing(d, q) => d # c /\ loc'[d].kind = loc[d].kind
        BY <1>1, <1>2, <3>1, Moved
      <3> QED BY <1>k, <2>1, <2>2, <3>1, <3>2 DEF Explained, Agrees, history, StatusAfter
    <2>4. CASE q = p
      <3>1. account[q] # None /\ Auditing(c, q) /\ Explained(q)
        BY <1>k, <2>4 DEF CallInv, CallOK, Auditing, Inv
      <3>2. ASSUME NEW d \in Calls, d # c, Auditing(d, q)
            PROVE  <<"moderate", q>> \in overlapped
        BY <1>k, <2>4, <3>2 DEF Inv, RaceInv, Clash, Auditing, Group, Entering, Moderation
      <3>3. record'[q] = note
        BY <1>k, <2>4
      <3>4. ASSUME account[q].status # "deleted", <<"moderate", q>> \notin overlapped
            PROVE  Agrees(q)' /\ \A d \in Calls : ~Auditing(d, q)'
        <4>1. account[q].status = StatusAfter(loc[c].kind)
          BY <3>1, <3>2, <3>4 DEF Explained
        <4>2. Agrees(q)'
          BY <1>k, <3>3, <4>1 DEF Agrees, StatusAfter
        <4> QED BY <2>1, <2>2, <3>2, <3>4, <4>2
      <3> QED BY <1>k, <3>1, <3>4 DEF Explained, history
    <2> QED BY <2>3, <2>4
  <1>7. TokenInv' /\ overlapped' = overlapped
    BY <1>k, <1>3, TokensKept DEF Inv, AccountsTypeOK, history
  <1> QED BY <1>1, <1>2, <1>3, <1>4, <1>5, <1>6, <1>7, Writes

-----------------------------------------------------------------------------
(* Calls that begin and end. *)

LEMMA Leaves ==
    ASSUME Inv, NEW c \in Calls, pc' = [pc EXCEPT ![c] = "idle"],
           loc' = [loc EXCEPT ![c] = Nothing], Forget(c), UNCHANGED <<db, bounds, grants>>,
           overlapped \subseteq overlapped',
           \A q \in People : Auditing(c, q) => <<"moderate", q>> \in overlapped'
    PROVE  Inv'
  <1>k. pc \in [Calls -> Steps] /\ loc \in [Calls -> Locals] /\ "idle" \in Steps
        /\ moved \subseteq Calls /\ renewed \subseteq Calls
    BY DEF Inv, AccountsTypeOK, Steps
  <1>0. /\ pc' \in [Calls -> Steps] /\ loc' \in [Calls -> Locals]
        /\ pc'[c] = "idle" /\ loc'[c] = Nothing
        /\ \A d \in Calls \ {c} : pc'[d] = pc[d] /\ loc'[d] = loc[d]
    BY <1>k, NothingType
  <1>1. AccountsTypeOK'
    BY <1>k, <1>0 DEF Inv, AccountsTypeOK, db, bounds, Forget
  <1>2. ASSUME NEW q \in People PROVE RolesKept(q)
    BY SameGrants, <1>2 DEF RolesKept, db
  <1>3. ASSUME NEW d \in Calls \ {c} PROVE CallInv(d)'
    <2>1. RolesKept(loc[d].target)
      BY <1>2, Known
    <2>2. Undisturbed(d)
      BY <1>0, <2>1 DEF Undisturbed, Forget, db
    <2> QED BY <1>1, <2>2, OtherCall DEF AccountsTypeOK
  <1>4. CallInv(c)'
    <2>1. CallOK(c)' /\ Knows(c)' /\ Wishes(c)'
      BY <1>0, NothingType DEF CallOK, Knows, Checking, Wishes
    <2>2. Enters(c)' /\ Consented(c)' /\ Standing(c)' /\ Revealed(c)'
      BY <1>0, NothingType, AccountsAssumption DEF Enters, Consented, Standing, Revealed, Answers
    <2> QED BY <2>1, <2>2 DEF CallInv
  <1>5. RaceInv'
    <2>1. ASSUME NEW d \in Calls, NEW e \in Calls, Clash(d, e)'
          PROVE  <<Group(loc[d].kind), loc[d].target>>' \in overlapped'
      <3>1. d # c /\ e # c
        BY <1>0, <2>1 DEF Clash
      <3>2. Clash(d, e) /\ loc'[d] = loc[d]
        BY <1>0, <2>1, <3>1 DEF Clash, Group
      <3> QED BY <3>2 DEF Inv, RaceInv, Group
    <2> QED BY <2>1 DEF RaceInv
  <1>6. TokenInv'
    BY <1>1, <1>2, TokensKept DEF AccountsTypeOK, db
  <1>7. ASSUME NEW q \in People PROVE Explained(q)'
    <2>1. \A d \in Calls \ {c} : Auditing(d, q)' <=> Auditing(d, q)
      BY <1>0 DEF Auditing
    <2>2. ~Auditing(c, q)'
      BY <1>0 DEF Auditing
    <2>3. CASE Auditing(c, q)
      BY <2>3 DEF Inv, Explained, db
    <2>4. CASE ~Auditing(c, q)
      <3>1. \A d \in Calls : Auditing(d, q) => d # c /\ loc'[d].kind = loc[d].kind
        BY <1>0, <2>4
      <3>2. account' = account /\ record' = record
        BY DEF db
      <3> QED BY <1>2, <2>1, <2>2, <2>4, <3>1, <3>2, ExplainedKept DEF RolesKept
    <2> QED BY <2>3, <2>4
  <1> QED BY <1>1, <1>3, <1>4, <1>5, <1>6, <1>7 DEF Inv

LEMMA ReplyStep ==
    ASSUME Inv, NEW c \in Calls, Reply(c)
    PROVE  Inv'
  <1>1. pc[c] = "answered" /\ overlapped' = overlapped
    BY DEF Reply
  <1>2. \A q \in People : ~Auditing(c, q)
    BY <1>1 DEF Auditing
  <1> QED BY <1>1, <1>2, Leaves DEF Reply, Goto

LEMMA AbandonStep ==
    ASSUME Inv, NEW c \in Calls, Abandon(c)
    PROVE  Inv'
  <1>1. overlapped' = overlapped \cup {<<Group(loc[c].kind), loc[c].target>>}
    BY DEF Abandon
  <1>2. \A q \in People : Auditing(c, q) => <<"moderate", q>> \in overlapped'
    BY <1>1 DEF Auditing, Group, Moderation, Entering
  <1> QED BY <1>1, <1>2, Leaves DEF Abandon, Goto

LEMMA StartStep ==
    ASSUME Inv, NEW c \in Calls, NEW kind \in Kinds, NEW target \in People,
           NEW docs \in SUBSET Docs, Start(c, kind, target, docs)
    PROVE  Inv'
  <1> DEFINE l == [Nothing EXCEPT !.n = starts + 1, !.kind = kind, !.target = target,
                                  !.docs = docs]
             step == FirstStatement(kind)
  <1>n. starts \in Nat /\ starts + 1 \in Nat
    BY DEF Inv, AccountsTypeOK
  <1>k. pc \in [Calls -> Steps] /\ loc \in [Calls -> Locals] /\ pc[c] = "idle"
        /\ UNCHANGED <<db, changes, grants, moved, renewed>> /\ starts' = starts + 1
    BY DEF Inv, AccountsTypeOK, Start
  <1>1. l \in Locals
    BY <1>n, NothingType DEF Locals
  <1>2. /\ l.kind = kind /\ l.target = target /\ l.answer = None /\ ~l.wrote /\ l.required
    BY NothingType DEF Nothing
  <1>3. /\ step \in {"find", "find documents", "read"} /\ step \in Steps
        /\ step = "find" => kind \in Entering
        /\ step = "find documents" => kind = "consents"
        /\ step = "read" => kind \in {"profile", "delete request", "reveal"} \cup Moderation
    BY DEF FirstStatement, Steps, Kinds, Mine, Entering
  <1>4. loc' = [loc EXCEPT ![c] = l] /\ pc' = [pc EXCEPT ![c] = step]
    BY DEF Start, Goto
  <1>5. overlapped' = overlapped \cup
            {<<Group(kind), target>> : d \in {d \in InFlight :
                loc[d].target = target /\ Group(loc[d].kind) = Group(kind)}}
    BY DEF Start
  <1> HIDE DEF l, step
  <1>6. /\ pc' \in [Calls -> Steps] /\ loc' \in [Calls -> Locals]
        /\ pc'[c] = step /\ loc'[c] = l
        /\ \A d \in Calls \ {c} : pc'[d] = pc[d] /\ loc'[d] = loc[d]
    BY <1>k, <1>1, <1>3, <1>4
  <1>7. AccountsTypeOK'
    <2>1. starts' \in Nat /\ changes' \in Nat
      BY <1>n, <1>k DEF Inv, AccountsTypeOK
    <2> QED BY <1>k, <1>6, <2>1 DEF Inv, AccountsTypeOK, db
  <1>8. ASSUME NEW q \in People PROVE RolesKept(q)
    BY <1>k, SameGrants, <1>8 DEF RolesKept, db
  <1>9. ASSUME NEW d \in Calls \ {c} PROVE CallInv(d)'
    <2>1. RolesKept(loc[d].target)
      BY <1>8, Known
    <2>2. Undisturbed(d)
      BY <1>k, <1>5, <1>6, <2>1 DEF Undisturbed, db
    <2> QED BY <1>7, <2>2, OtherCall DEF AccountsTypeOK
  <1>10. CallInv(c)'
    <2>1. CallOK(c)'
      BY <1>2, <1>3, <1>6 DEF CallOK, Checking
    <2>2. Knows(c)' /\ Wishes(c)' /\ Enters(c)'
      BY <1>2, <1>3, <1>6, AccountsAssumption DEF Knows, Checking, Wishes, Enters, Answers
    <2>3. Consented(c)' /\ Standing(c)' /\ Revealed(c)'
      BY <1>2, <1>3, <1>6, AccountsAssumption DEF Consented, Standing, Revealed, Answers
    <2> QED BY <2>1, <2>2, <2>3 DEF CallInv
  <1>11. RaceInv'
    <2>1. ASSUME NEW d \in Calls \ {c}, pc[d] # "idle", loc[d].target = target,
                 Group(loc[d].kind) = Group(kind)
          PROVE  <<Group(kind), target>> \in overlapped'
      BY <1>5, <2>1 DEF InFlight
    <2>2. ASSUME NEW d \in Calls, NEW e \in Calls, Clash(d, e)'
          PROVE  <<Group(loc'[d].kind), loc'[d].target>> \in overlapped'
      <3>1. CASE d # c /\ e # c
        <4>1. Clash(d, e) /\ loc'[d] = loc[d]
          BY <1>6, <2>2, <3>1 DEF Clash, Group
        <4> QED BY <1>5, <4>1 DEF Inv, RaceInv
      <3>2. CASE d = c
        <4>1. e # c /\ pc[e] # "idle" /\ loc[e].target = target
              /\ Group(loc[e].kind) = Group(kind)
          BY <1>2, <1>6, <2>2, <3>2 DEF Clash, Group
        <4> QED BY <1>2, <1>6, <2>1, <3>2, <4>1
      <3>3. CASE e = c
        <4>1. d # c /\ pc[d] # "idle" /\ loc[d].target = target
              /\ Group(loc[d].kind) = Group(kind) /\ loc'[d] = loc[d]
          BY <1>2, <1>6, <2>2, <3>3 DEF Clash, Group
        <4> QED BY <2>1, <4>1
      <3> QED BY <3>1, <3>2, <3>3
    <2> QED BY <2>2 DEF RaceInv, Group
  <1>12. TokenInv'
    BY <1>k, <1>7, <1>8, TokensKept DEF AccountsTypeOK, db
  <1>13. ASSUME NEW q \in People PROVE Explained(q)'
    <2>1. \A d \in Calls : /\ Auditing(d, q)' <=> Auditing(d, q)
                           /\ Auditing(d, q) => loc'[d].kind = loc[d].kind
      BY <1>k, <1>3, <1>6 DEF Auditing
    <2>2. account' = account /\ record' = record /\ overlapped \subseteq overlapped'
      BY <1>k, <1>5 DEF db
    <2> QED BY <2>1, <2>2, ExplainedKept
  <1> QED BY <1>7, <1>9, <1>10, <1>11, <1>12, <1>13 DEF Inv

-----------------------------------------------------------------------------
(* Changes by hand. *)

LEMMA ByHand ==
    ASSUME Inv, ChangeByHand, AccountsTypeOK',
           \A d \in Calls : Undisturbed(d), \A q \in People : RolesKept(q),
           \A q \in People :
               /\ account[q] = None => account'[q] = None
               /\ account[q] # None /\ account'[q].status # "deleted" =>
                    account'[q].status = account[q].status
    PROVE  Inv'
  <1>k. UNCHANGED <<consents, record, reveals, tokens, pc, loc, starts, overlapped>>
    BY DEF ChangeByHand
  <1>1. ASSUME NEW d \in Calls PROVE CallInv(d)'
    BY OtherCall DEF AccountsTypeOK
  <1>2. RaceInv'
    BY <1>k DEF Inv, RaceInv, Clash, Group
  <1>3. TokenInv'
    BY <1>k, TokensKept DEF AccountsTypeOK
  <1>4. ASSUME NEW q \in People PROVE Explained(q)'
    <2>1. \A d \in Calls : /\ Auditing(d, q)' <=> Auditing(d, q)
                           /\ Auditing(d, q) => loc'[d].kind = loc[d].kind
      BY <1>k DEF Auditing
    <2> QED BY <1>k, <2>1, ExplainedKept DEF RolesKept
  <1> QED BY <1>1, <1>2, <1>3, <1>4 DEF Inv

LEMMA Changed ==
    ASSUME Inv, ChangeByHand
    PROVE  changes' \in Nat
  BY DEF Inv, AccountsTypeOK, ChangeByHand

LEMMA SetRolesStep ==
    ASSUME Inv, NEW p \in People, NEW roles \in Grants, SetRoles(p, roles)
    PROVE  Inv'
  <1> DEFINE row == [account[p] EXCEPT !.roles = roles]
  <1>k. /\ account[p] # None /\ ChangeByHand /\ UNCHANGED <<active, moved, renewed>>
        /\ account \in [People -> Account \cup {None}] /\ grants \in [People -> Nat]
        /\ grants' = [grants EXCEPT ![p] = @ + 1]
        /\ UNCHANGED <<consents, record, reveals, tokens, pc, loc, starts, overlapped>>
    BY DEF SetRoles, ChangeByHand, Inv, AccountsTypeOK
  <1>1. account' = [account EXCEPT ![p] = row]
    BY DEF SetRoles
  <1>2. /\ row \in Account /\ row.status = account[p].status /\ row.deletion = account[p].deletion
    BY <1>k, AccountsAssumption DEF Account, Roles, Staff
  <1> HIDE DEF row
  <1>3. /\ account' \in [People -> Account \cup {None}] /\ account'[p] = row /\ row # None
        /\ \A q \in People \ {p} : account'[q] = account[q]
    BY <1>k, <1>1, <1>2, AccountsAssumption
  <1>4. grants' \in [People -> Nat]
    BY <1>k
  <1>5. AccountsTypeOK'
    BY <1>k, <1>3, <1>4, Changed DEF Inv, AccountsTypeOK
  <1>6. ASSUME NEW q \in People PROVE RolesKept(q)
    <2>1. CASE q = p
      <3>1. grants[p] \in Nat /\ grants'[p] = grants[p] + 1
        BY <1>k
      <3>2. grants[p] <= grants'[p] /\ grants'[p] # grants[p]
        BY <3>1
      <3> QED BY <1>3, <2>1, <3>2 DEF RolesKept
    <2>2. CASE q # p
      <3>1. grants'[q] = grants[q] /\ grants[q] \in Nat
        BY <1>k, <2>2
      <3>2. grants[q] <= grants'[q]
        BY <3>1
      <3> QED BY <1>3, <2>2, <3>2 DEF RolesKept
    <2> QED BY <2>1, <2>2
  <1>7. ASSUME NEW d \in Calls PROVE Undisturbed(d)
    <2>1. loc[d].target \in People
      BY Known
    <2> QED BY <1>k, <1>2, <1>3, <1>6, <2>1 DEF Undisturbed
  <1> QED BY <1>k, <1>2, <1>3, <1>5, <1>6, <1>7, ByHand

LEMMA DeleteStep ==
    ASSUME Inv, NEW p \in People, Delete(p)
    PROVE  Inv'
  <1> DEFINE row == [account[p] EXCEPT !.status = "deleted"]
  <1>k. /\ account[p] # None /\ ChangeByHand /\ UNCHANGED <<active, grants, renewed>>
        /\ account \in [People -> Account \cup {None}] /\ moved \subseteq Calls
        /\ moved' = moved \cup {d \in InFlight : loc[d].target = p}
        /\ UNCHANGED <<consents, record, reveals, tokens, pc, loc, starts, overlapped>>
    BY DEF Delete, ChangeByHand, Inv, AccountsTypeOK
  <1>1. account' = [account EXCEPT ![p] = row]
    BY DEF Delete
  <1>2. /\ row \in Account /\ row.status = "deleted" /\ row.deletion = account[p].deletion
        /\ row.roles = account[p].roles
    BY <1>k DEF Account, Statuses
  <1> HIDE DEF row
  <1>3. /\ account' \in [People -> Account \cup {None}] /\ account'[p] = row /\ row # None
        /\ \A q \in People \ {p} : account'[q] = account[q]
    BY <1>k, <1>1, <1>2, AccountsAssumption
  <1>4. moved' \subseteq Calls
    BY <1>k DEF InFlight
  <1>5. AccountsTypeOK'
    BY <1>k, <1>3, <1>4, Changed DEF Inv, AccountsTypeOK
  <1>6. ASSUME NEW q \in People PROVE RolesKept(q)
    BY <1>k, <1>2, <1>3, <1>6, SameGrants DEF RolesKept
  <1>7. ASSUME NEW d \in Calls PROVE Undisturbed(d)
    <2>1. loc[d].target \in People
      BY Known
    <2>2. d \notin moved' => d \notin moved /\ (loc[d].target = p => pc[d] = "idle")
      BY <1>k DEF InFlight
    <2> QED BY <1>k, <1>2, <1>3, <1>6, <2>1, <2>2 DEF Undisturbed
  <1> QED BY <1>k, <1>2, <1>3, <1>5, <1>6, <1>7, ByHand

LEMMA PublishStep ==
    ASSUME Inv, NEW docs \in SUBSET Docs, Publish(docs)
    PROVE  Inv'
  <1>k. /\ ChangeByHand /\ UNCHANGED <<account, grants, moved>>
        /\ active' = docs
        /\ renewed' = renewed \cup InFlight
        /\ UNCHANGED <<consents, record, reveals, tokens, pc, loc, starts, overlapped>>
    BY DEF Publish, ChangeByHand
  <1>1. AccountsTypeOK'
    BY <1>k, Changed DEF Inv, AccountsTypeOK, InFlight
  <1>2. ASSUME NEW q \in People PROVE RolesKept(q)
    BY <1>k, <1>2, SameGrants DEF RolesKept
  <1>3. ASSUME NEW d \in Calls PROVE Undisturbed(d)
    <2>1. loc[d].target \in People
      BY Known
    <2> QED BY <1>k, <1>2, <2>1 DEF Undisturbed, InFlight
  <1> QED BY <1>k, <1>1, <1>2, <1>3, ByHand

-----------------------------------------------------------------------------
LEMMA Started ==
    ASSUME Inv, NEW c \in Calls, Enter(c) \/ Ask(c)
    PROVE  \E kind \in Kinds, p \in People, docs \in SUBSET Docs : Start(c, kind, p, docs)
  <1>1. CASE Enter(c)
    BY <1>1 DEF Enter, Kinds
  <1>2. CASE Ask(c)
    <2>1. PICK t \in tokens, kind \in Kinds \ Entering :
            \E target \in IF kind \in Mine THEN {t.user} ELSE People,
               docs \in IF kind = "consents" THEN {{d} : d \in Docs} ELSE {{}} :
                Start(c, kind, target, docs)
      BY <1>2 DEF Ask
    <2>2. t.user \in People
      BY DEF Inv, AccountsTypeOK
    <2>3. /\ \A target \in IF kind \in Mine THEN {t.user} ELSE People : target \in People
          /\ \A docs \in IF kind = "consents" THEN {{d} : d \in Docs} ELSE {{}} :
                docs \in SUBSET Docs
      BY <2>2
    <2> QED BY <2>1, <2>3
  <1> QED BY <1>1, <1>2

LEMMA NextInv == Inv /\ [Next]_vars => Inv'
  <1> SUFFICES ASSUME Inv, [Next]_vars PROVE Inv'
    OBVIOUS
  <1>1. ASSUME NEW c \in Calls, Enter(c) \/ Ask(c) PROVE Inv'
    BY <1>1, Started, StartStep
  <1>2. ASSUME NEW c \in Calls, Step(c) PROVE Inv'
    <2>1. CASE \/ findByTelegramId(c) \/ createUser(c) \/ updateTelegramMetadata(c)
               \/ RequiredDocuments(c) \/ RequiredConsents(c) \/ Conclude(c)
      BY <2>1, findByTelegramIdStep, createUserStep, updateTelegramMetadataStep,
         RequiredDocumentsStep, RequiredConsentsStep, ConcludeStep
    <2>2. CASE \/ findActiveDocumentsByTypeVersion(c) \/ createConsentRecords(c)
               \/ Read(c) \/ updateProfile(c) \/ ReadAgain(c) \/ requestDeletion(c)
      BY <2>2, findActiveDocumentsByTypeVersionStep, createConsentRecordsStep,
         ReadStep, updateProfileStep, ReadAgainStep, requestDeletionStep
    <2>3. CASE \/ Moderate(c) \/ writeUserModerationAudit(c)
               \/ writeEmergencyPhoneRevealAudit(c)
      BY <2>3, ModerateStep, writeUserModerationAuditStep, writeEmergencyPhoneRevealAuditStep
    <2> QED BY <1>2, <2>1, <2>2, <2>3 DEF Step
  <1>3. ASSUME NEW c \in Calls, Reply(c) \/ Abandon(c) PROVE Inv'
    BY <1>3, ReplyStep, AbandonStep
  <1>4. ASSUME NEW p \in People, Delete(p) \/ \E roles \in Grants : SetRoles(p, roles)
        PROVE  Inv'
    BY <1>4, DeleteStep, SetRolesStep
  <1>5. ASSUME NEW docs \in SUBSET Docs, Publish(docs) PROVE Inv'
    BY <1>5, PublishStep
  <1>6. CASE UNCHANGED vars
    <2> USE <1>6 DEF vars
    <2>1. AccountsTypeOK'
      BY DEF Inv, AccountsTypeOK
    <2>2. ASSUME NEW q \in People PROVE RolesKept(q)
      BY SameGrants, <2>2 DEF RolesKept
    <2>3. ASSUME NEW d \in Calls PROVE CallInv(d)'
      <3>1. RolesKept(loc[d].target)
        BY <2>2, Known
      <3>2. Undisturbed(d)
        BY <3>1 DEF Undisturbed
      <3> QED BY <2>1, <3>2, OtherCall DEF AccountsTypeOK
    <2>4. RaceInv'
      BY DEF Inv, RaceInv, Clash, Group
    <2>5. TokenInv'
      BY <2>1, <2>2, TokensKept DEF AccountsTypeOK
    <2>6. ASSUME NEW q \in People PROVE Explained(q)'
      <3>1. \A d \in Calls : /\ Auditing(d, q)' <=> Auditing(d, q)
                             /\ Auditing(d, q) => loc'[d].kind = loc[d].kind
        BY DEF Auditing
      <3> QED BY <2>2, <3>1, ExplainedKept DEF RolesKept
    <2> QED BY <2>1, <2>3, <2>4, <2>5, <2>6 DEF Inv
  <1> QED BY <1>1, <1>2, <1>3, <1>4, <1>5, <1>6 DEF Next

(* The invariant holds in every behaviour.                                 *)
THEOREM AccountsInvariant == Spec => []Inv
  BY InitInv, NextInv, PTL DEF Spec

(* The rows, the tokens and the calls keep their types.                    *)
THEOREM AccountsTyped == Spec => []AccountsTypeOK
  <1>1. Inv => AccountsTypeOK
    BY DEF Inv
  <1> QED BY <1>1, AccountsInvariant, PTL

(* Entering fails only for the loser of a race of first contacts.          *)
THEOREM EnteringFails == Spec => []EnteringFailsInRaceOnly
  <1>1. Inv => EnteringFailsInRaceOnly
    BY DEF Inv, CallInv, Enters, EnteringFailsInRaceOnly
  <1> QED BY <1>1, AccountsInvariant, PTL

(* A token tells the roles of its account until somebody changes them.     *)
THEOREM TokensTell == Spec => []TokenTellsRoles
  <1>1. Inv => TokenTellsRoles
    BY DEF Inv, TokenInv
  <1> QED BY <1>1, AccountsInvariant, PTL

(* Whoever is told that no consent is required has given all of them.      *)
THEOREM ConsentsComplete == Spec => []ConsentsAreComplete
  <1>1. Inv => ConsentsAreComplete
    BY DEF Inv, CallInv, Consented, Complete, ConsentsAreComplete
  <1> QED BY <1>1, AccountsInvariant, PTL

(* The audit log explains who is blocked.                                  *)
THEOREM BlocksExplained == Spec => []BlockIsExplained
  <1>1. ASSUME Inv, NEW p \in People, account[p] # None, account[p].status # "deleted",
               <<"moderate", p>> \notin overlapped
        PROVE  \/ Agrees(p)
               \/ \E c \in InFlight : loc[c].target = p /\ loc[c].kind \in Moderation
    BY <1>1 DEF Inv, Explained, Auditing, InFlight
  <1>2. Inv => BlockIsExplained
    BY <1>1 DEF BlockIsExplained, Agrees
  <1> QED BY <1>2, AccountsInvariant, PTL

(* A refused change of the profile has not been made.                      *)
THEOREM RefusalsWroteNothing == Spec => []RefusedWroteNothing
  <1>1. Inv => RefusedWroteNothing
    BY DEF Inv, CallInv, Standing, RefusedWroteNothing
  <1> QED BY <1>1, AccountsInvariant, PTL

(* Every emergency contact that is given out is in the audit log.          *)
THEOREM RevealsRecorded == Spec => []RevealIsRecorded
  <1>1. Inv => RevealIsRecorded
    BY DEF Inv, CallInv, Revealed, RevealIsRecorded
  <1> QED BY <1>1, AccountsInvariant, PTL

(* Who changes the deletion time and the status of an account.             *)
LEMMA RowSteps ==
    ASSUME Inv, Next, NEW p \in People, account[p] # None
    PROVE  /\ \/ account'[p].deletion = account[p].deletion
              \/ \E c \in Calls : requestDeletion(c) /\ loc[c].target = p
           /\ \/ account'[p].status = account[p].status
              \/ account'[p].status = "deleted"
              \/ \E c \in Calls : Moderate(c) /\ loc[c].target = p
  <1>k. /\ account \in [People -> Account \cup {None}]
        /\ account[p] \in Account
    BY DEF Inv, AccountsTypeOK
  <1>1. CASE account' = account
    BY <1>1
  <1>2. ASSUME NEW c \in Calls, createUser(c), account' # account
        PROVE  account'[p] = account[p]
    BY <1>k, <1>2 DEF createUser
  <1>3. ASSUME NEW c \in Calls, updateProfile(c)
        PROVE  account'[p].deletion = account[p].deletion /\ account'[p].status = account[p].status
    <2>0. CASE account' = account
      BY <2>0
    <2> SUFFICES ASSUME account' # account
                 PROVE  /\ account'[p].deletion = account[p].deletion
                        /\ account'[p].status = account[p].status
      BY <2>0
    <2>1. PICK phone \in BOOLEAN :
                account' = [account EXCEPT ![loc[c].target].phone = phone]
      BY <1>3 DEF updateProfile
    <2>2. CASE loc[c].target = p
      <3>1. account'[p] = [account[p] EXCEPT !.phone = phone]
        BY <1>k, <2>1, <2>2
      <3> QED BY <1>k, <3>1 DEF Account
    <2>3. CASE loc[c].target # p
      BY <1>k, <2>1, <2>3
    <2> QED BY <2>2, <2>3
  <1>4. ASSUME NEW c \in Calls, requestDeletion(c)
        PROVE  /\ account'[p].status = account[p].status
               /\ loc[c].target # p => account'[p].deletion = account[p].deletion
    <2>1. account' = [account EXCEPT ![loc[c].target].deletion = loc[c].n]
      BY <1>4 DEF requestDeletion
    <2>2. CASE loc[c].target = p
      <3>1. account'[p] = [account[p] EXCEPT !.deletion = loc[c].n]
        BY <1>k, <2>1, <2>2
      <3> QED BY <1>k, <2>2, <3>1 DEF Account
    <2>3. CASE loc[c].target # p
      BY <1>k, <2>1, <2>3
    <2> QED BY <2>2, <2>3
  <1>5. ASSUME NEW c \in Calls, Moderate(c)
        PROVE  /\ account'[p].deletion = account[p].deletion
               /\ loc[c].target # p => account'[p].status = account[p].status
    <2>1. account' = [account EXCEPT ![loc[c].target].status = StatusAfter(loc[c].kind)]
      BY <1>5 DEF Moderate, StatusAfter
    <2>2. CASE loc[c].target = p
      <3>1. account'[p] = [account[p] EXCEPT !.status = StatusAfter(loc[c].kind)]
        BY <1>k, <2>1, <2>2
      <3> QED BY <1>k, <2>2, <3>1 DEF Account
    <2>3. CASE loc[c].target # p
      BY <1>k, <2>1, <2>3
    <2> QED BY <2>2, <2>3
  <1>6. ASSUME NEW q \in People, Delete(q)
        PROVE  /\ account'[p].deletion = account[p].deletion
               /\ account'[p].status \in {"deleted", account[p].status}
    <2>1. account' = [account EXCEPT ![q].status = "deleted"]
      BY <1>6 DEF Delete
    <2>2. CASE q = p
      <3>1. account'[p] = [account[p] EXCEPT !.status = "deleted"]
        BY <1>k, <2>1, <2>2
      <3> QED BY <1>k, <3>1 DEF Account
    <2>3. CASE q # p
      BY <1>k, <2>1, <2>3
    <2> QED BY <2>2, <2>3
  <1>7. ASSUME NEW q \in People, NEW roles \in Grants, SetRoles(q, roles)
        PROVE  account'[p].deletion = account[p].deletion /\ account'[p].status = account[p].status
    <2>1. account' = [account EXCEPT ![q].roles = roles]
      BY <1>7 DEF SetRoles
    <2>2. CASE q = p
      <3>1. account'[p] = [account[p] EXCEPT !.roles = roles]
        BY <1>k, <2>1, <2>2
      <3> QED BY <1>k, <3>1 DEF Account
    <2>3. CASE q # p
      BY <1>k, <2>1, <2>3
    <2> QED BY <2>2, <2>3
  <1>8. ASSUME NEW c \in Calls, Enter(c) \/ Ask(c) \/ Reply(c) \/ Abandon(c)
        PROVE  account' = account
    BY <1>8 DEF Enter, Ask, Start, Reply, Abandon, db
  <1>9. ASSUME NEW c \in Calls, Step(c), account' # account
        PROVE  createUser(c) \/ updateProfile(c) \/ requestDeletion(c) \/ Moderate(c)
    <2> USE DEF db
    <2>1. findByTelegramId(c) \/ updateTelegramMetadata(c) \/ RequiredDocuments(c)
             \/ RequiredConsents(c) \/ Conclude(c) => account' = account
      BY DEF findByTelegramId, updateTelegramMetadata, RequiredDocuments, RequiredConsents, Conclude
    <2>2. findActiveDocumentsByTypeVersion(c) \/ createConsentRecords(c) \/ ReadAgain(c)
             => account' = account
      BY DEF findActiveDocumentsByTypeVersion, createConsentRecords, ReadAgain
    <2>3. Read(c) => account' = account
      BY DEF Read
    <2>4. writeUserModerationAudit(c) \/ writeEmergencyPhoneRevealAudit(c) => account' = account
      BY DEF writeUserModerationAudit, writeEmergencyPhoneRevealAudit
    <2> QED BY <1>9, <2>1, <2>2, <2>3, <2>4 DEF Step
  <1>10. ASSUME NEW docs \in SUBSET Docs, Publish(docs) PROVE account' = account
    BY <1>10 DEF Publish
  <1> QED
    <2>1. ASSUME NEW c \in Calls, Step(c), account' # account
          PROVE  /\ \/ account'[p].deletion = account[p].deletion
                    \/ requestDeletion(c) /\ loc[c].target = p
                 /\ \/ account'[p].status = account[p].status
                    \/ Moderate(c) /\ loc[c].target = p
      BY <2>1, <1>2, <1>3, <1>4, <1>5, <1>9
    <2> QED BY <2>1, <1>1, <1>6, <1>7, <1>8, <1>10 DEF Next

(* A wish to be deleted keeps the time of its first request.               *)
THEOREM DeletionTimesKept == Spec => DeletionTimeKept
  <1>1. ASSUME Inv, Next, NEW p \in People, account[p] # None, account'[p] # None
        PROVE  \/ account[p].deletion \in {None, account'[p].deletion}
               \/ <<"delete request", p>> \in overlapped
    <2>1. CASE account'[p].deletion = account[p].deletion
      BY <2>1
    <2>2. ASSUME NEW c \in Calls, requestDeletion(c), loc[c].target = p
          PROVE  account[p].deletion = None \/ <<"delete request", p>> \in overlapped
      BY <1>1, <2>2 DEF Inv, CallInv, Wishes, requestDeletion
    <2> QED BY <1>1, <2>1, <2>2, RowSteps
  <1>2. Inv /\ [Next]_vars => [\A p \in People : account[p] # None /\ account'[p] # None =>
            \/ account[p].deletion \in {None, account'[p].deletion}
            \/ <<"delete request", p>> \in overlapped]_vars
    BY <1>1
  <1> QED BY <1>2, AccountsInvariant, PTL DEF Spec, DeletionTimeKept

(* Nobody brings a deleted account back, but for the race.                 *)
THEOREM DeletedStayDeleted == Spec => DeletedIsFinal
  <1>1. ASSUME Inv, Next, NEW p \in People, account[p] # None, account[p].status = "deleted",
               account'[p].status # "deleted"
        PROVE  \E c \in moved : loc[c].target = p /\ loc[c].kind \in Moderation
    <2>1. PICK c \in Calls : Moderate(c) /\ loc[c].target = p
      BY <1>1, RowSteps
    <2>2. c \in moved /\ loc[c].kind \in Moderation
      BY <1>1, <2>1 DEF Inv, CallInv, Standing, Moderate
    <2> QED BY <2>1, <2>2
  <1>2. Inv /\ [Next]_vars => [\A p \in People :
            account[p] # None /\ account[p].status = "deleted" /\ account'[p].status # "deleted"
                => \E c \in moved : loc[c].target = p /\ loc[c].kind \in Moderation]_vars
    BY <1>1
  <1> QED BY <1>2, AccountsInvariant, PTL DEF Spec, DeletedIsFinal

=============================================================================
