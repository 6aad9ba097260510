--------------------------- MODULE FunctionUpdates ---------------------------
(***************************************************************************)
(* Functions that get new arguments or other values: what @@ and :> of TLC *)
(* do, written out so that a proof can expand it.                          *)
(***************************************************************************)

\* f, except where g has a value.
Over(g, f) ==
    [x \in DOMAIN g \cup DOMAIN f |-> IF x \in DOMAIN g THEN g[x] ELSE f[x]]

\* f with v at k, which need not be in its domain.
Put(f, k, v) == [x \in DOMAIN f \cup {k} |-> IF x = k THEN v ELSE f[x]]
==============================================================================
