---------------------------- MODULE TicketLedger ----------------------------
(***************************************************************************)
(* What the tickets of a club promise.  A grant is issued once, with a     *)
(* number of tickets.  A ticket is spent on a reservation that has had     *)
(* none, as long as the grant has one left, and comes back at most once.   *)
(***************************************************************************)
EXTENDS Integers

CONSTANTS
    Grant, NoGrant,
    Reservation,
    Quantity        \* Quantity[g]: how many tickets a grant gives

VARIABLES
    issued,     \* the grants that exist
    left,       \* left[g]: the tickets of g that can be spent
    spent       \* spent[r]: the grant r took its ticket from
                \* and whether the ticket is back

vars == <<issued, left, spent>>

Unspent == [grant |-> NoGrant, back |-> FALSE]

Init ==
    /\ issued \in SUBSET Grant
    /\ left = [g \in Grant |-> IF g \in issued THEN Quantity[g] ELSE 0]
    /\ spent = [r \in Reservation |-> Unspent]

Issue(g) ==
    /\ g \notin issued
    /\ issued' = issued \cup {g}
    /\ left' = [left EXCEPT ![g] = Quantity[g]]
    /\ UNCHANGED spent

Spend(g, r) ==
    /\ g \in issued
    /\ left[g] > 0
    /\ spent[r] = Unspent
    /\ left' = [left EXCEPT ![g] = @ - 1]
    /\ spent' = [spent EXCEPT ![r] = [grant |-> g, back |-> FALSE]]
    /\ UNCHANGED issued

Return(r) ==
    /\ spent[r].grant \in Grant
    /\ ~spent[r].back
    /\ left' = [left EXCEPT ![spent[r].grant] = @ + 1]
    /\ spent' = [spent EXCEPT ![r].back = TRUE]
    /\ UNCHANGED issued

Next ==
    \/ \E g \in Grant : Issue(g)
    \/ \E g \in Grant, r \in Reservation : Spend(g, r)
    \/ \E r \in Reservation : Return(r)

Spec == Init /\ [][Next]_vars
=============================================================================
