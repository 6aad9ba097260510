------------------------- MODULE MCEventReservation -------------------------
(***************************************************************************)
(* Small instances of EventReservation: a visitor v and a member m.        *)
(***************************************************************************)
EXTENDS EventReservation, TLC

CONSTANTS v, m

MemberHere == Row \cap {m}

Perms == Permutations(Req)
=============================================================================
