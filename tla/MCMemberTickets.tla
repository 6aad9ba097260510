--------------------------- MODULE MCMemberTickets ---------------------------
(***************************************************************************)
(* Small instances of MemberTickets: reservations r1 and r2 can be for     *)
(* slot a, r3 for slot b.                                                  *)
(***************************************************************************)
EXTENDS MemberTickets, TLC

CONSTANTS r1, r2, r3, a, b

SlotHere == [r \in Row |-> IF r = r3 THEN b ELSE a]
UsableHere == [sl \in Slot |-> Grant]
QuantityHere == [g \in Grant |-> 1]

Perms == Permutations(Req)
==============================================================================
