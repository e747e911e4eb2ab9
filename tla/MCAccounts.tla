----------------------------- MODULE MCAccounts -----------------------------
(* Small values for TLC: two versions of one document.                     *)
EXTENDS AccountsProperties, TLC

Alike == Permutations(Calls) \cup Permutations(Docs)

AdminOrNot == {{}, {"admin"}}

OneType == [d \in Docs |-> "terms"]

(* What the rest of a run depends on: not which call it was that asked for *)
(* the deletion or showed a contact, and of what a call has read only what *)
(* it will use.                                                            *)
Row(p) ==
    IF account[p] = None THEN None
    ELSE [account[p] EXCEPT !.deletion = IF @ = None THEN None ELSE 0]

Needed(c) ==
    [loc[c] EXCEPT !.n = 0,
                   !.active = IF pc[c] = "required consents" THEN @ ELSE {},
                   !.roles = IF pc[c] = "answered" THEN {} ELSE @,
                   !.grant = IF pc[c] = "answered" THEN 0 ELSE @,
                   !.docs = IF pc[c] = "answered" THEN {} ELSE @]

Rest == <<[p \in People |-> Row(p)], consents, active, record, tokens, pc,
          [c \in Calls |-> Needed(c)], bounds, history>>

=============================================================================
