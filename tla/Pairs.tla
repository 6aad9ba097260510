-------------------------------- MODULE Pairs --------------------------------
(***************************************************************************)
(* Who is paired with whom in a duel or a team battle, and with what       *)
(* result: pairs is a function from the pairs, sets of two, to results.    *)
(* Pairing the rest at random reads who is paired before it locks anyone:  *)
(* rest is what it has read.                                               *)
(***************************************************************************)
EXTENDS MemberRecords, FiniteSetsExt

CONSTANTS None,        \* no result
          Drawn,
          NotReading   \* nobody pairs the rest

VARIABLES pairs, rest

InitPairs == pairs = <<>> /\ rest = NotReading

Paired == UNION DOMAIN pairs

\* All ways to pair everybody in free.
Pairings(free) ==
    {m \in SUBSET kSubset(2, free) : UNION m = free /\ 2 * Cardinality(m) = Cardinality(free)}

Start(new) == Over([pair \in new |-> None], pairs)
Opponent(pair, c) == CHOOSE o \in pair : o # c

\* What the record of a side says.
Outcome(result, c) == CASE result = Drawn -> <<"drawn">>
                        [] result = c -> <<"won">>
                        [] OTHER -> <<"lost">>

\* How an outcome is understood when the owner saves the record of c.
ResultByText(pair, c, text) == CASE text = "won" -> c
                                 [] text = "lost" -> Opponent(pair, c)
                                 [] text = "drawn" -> Drawn
                                 [] text = "clear" -> None
==============================================================================
