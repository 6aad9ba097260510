------------------------- MODULE MCReservationRefund -------------------------
(***************************************************************************)
(* Small instances of ReservationRefund: event reservations e (card) and f *)
(* (free), lesson reservation t (ticket).                                  *)
(***************************************************************************)
EXTENDS ReservationRefund, TLC

CONSTANTS e, f, t

MethodOf == [r \in Row |-> CASE r = e -> "stripe" [] r = f -> "free"
                             [] r = t -> "ticket"]
EventRows == Row \cap {e, f}
==============================================================================
