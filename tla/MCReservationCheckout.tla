------------------------ MODULE MCReservationCheckout ------------------------
(***************************************************************************)
(* Small instances of ReservationCheckout: visitors v1 and v2, and trial   *)
(* guests a (who may ask twice: rows a1 and a2) and b (row b1).            *)
(***************************************************************************)
EXTENDS ReservationCheckout, TLC

CONSTANTS v1, v2, a1, a2, b1

WhoOf == [r \in Row |-> IF r = a2 THEN a1 ELSE r]
TrialHere == Row \cap {a1, a2, b1}
GuestsHere == Row \ {a2}

\* Bound: a third session only where guest a has asked once.
TwiceOrThrice == row[a2].status # "none" => ses[MaxSession].status = "none"

\* Assumption of the run trial: the clean-up of a failed start is not cut short.
CleanUpsEnd == \A c \in Click : ~CutShort(c)

\* Links, requests and visitors are interchangeable.
Perms == Permutations(Token) \cup Permutations(Click)
         \cup Permutations((Row \ Free) \cap {v1, v2})
==============================================================================
