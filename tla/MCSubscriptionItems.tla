------------------------ MODULE MCSubscriptionItems ------------------------
(***************************************************************************)
(* Small instances of SubscriptionItems: a and b are rows of one member, on*)
(* plans p1 and p2; c is the row of another member on p2.                  *)
(***************************************************************************)
EXTENDS SubscriptionItems, TLC

CONSTANTS a, b, c, p1, p2, m1, m2

Members == [r \in Row |-> IF r = c THEN m2 ELSE m1]
Plans == [r \in Row |-> IF r = a THEN p1 ELSE p2]

Sources == [r \in Row |-> IF r = b THEN a ELSE r]

Perms == Permutations(Req)
=============================================================================
