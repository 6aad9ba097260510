----------------------------- MODULE MCContests -----------------------------
(* The instance that TLC checks: five in a tournament; three teams, and three *)
(* persons who join them; four in a duel, three in a competition.  As an      *)
(* event is of one kind, the same values can stand for reservations or for    *)
(* teams, and one symmetry set serves all kinds.                              *)
EXTENDS Contests

CONSTANTS x1, x2, x3, x4

DT == INSTANCE DrawnTrees
TreesHere == DT!TreesDrawn

ReservationHere == [duel |-> {x1, x2, x3, x4},
                    competition |-> {x1, x2, x3}]
RoomHere == [b \in Bracket |-> MaxEntries]
Perms == Permutations(Team) \cup Permutations(Person \ Guest)
==============================================================================
