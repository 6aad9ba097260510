-------------------------------- MODULE Duel --------------------------------
(***************************************************************************)
(* A duel: the paid reservations of an event in pairs, each with a result. *)
(* A handler locks the reservations it pairs, or the pair with its two     *)
(* reservations.                                                           *)
(***************************************************************************)
EXTENDS Pairs

vars == <<pairs, rest, record, late>>

Init == InitPairs /\ InitRecords

\* The records of a pair, by a result.
Records(pair, result) ==
    Rewrite(Whole(pair), IF result = None THEN <<>>
                         ELSE [k \in Whole(pair) |-> Outcome(result, k[1])])

PairDuel(p, q) ==
    /\ p # q
    /\ {p, q} \cap Paired = {}
    /\ pairs' = Start({{p, q}})
    /\ UNCHANGED <<rest, record, late>>

\* pair_duel_rest up to the locks: an even number is left, at least two.
ReadRest ==
    LET free == Person \ Paired
    IN  /\ rest = NotReading
        /\ Cardinality(free) % 2 = 0 /\ free # {}
        /\ rest' = Paired
        /\ UNCHANGED <<pairs, record, late>>

\* As a bug would have it: under the locks it does not look again.
PairRestUnseen ==
    /\ rest # NotReading
    /\ rest' = NotReading
    /\ \E new \in Pairings(Person \ rest) : pairs' = Start(new)
    /\ UNCHANGED <<record, late>>

\* ... and under the locks: those it has seen free still are, or it gives up.
PairRest ==
    LET free == Person \ rest
    IN  /\ rest # NotReading
        /\ rest' = NotReading
        /\ IF free \cap Paired = {}
           THEN \E new \in Pairings(free) : pairs' = Start(new)
           ELSE UNCHANGED pairs
        /\ UNCHANGED <<record, late>>

Unpair(pair) ==
    /\ pair \in DOMAIN pairs
    /\ pairs' = Restrict(pairs, DOMAIN pairs \ {pair})
    /\ Records(pair, None)
    /\ UNCHANGED rest

\* A winner, a draw, or None to take the result back; set_duel_note writes the
\* same records with the winner there is.
SetResult(pair, result) ==
    /\ pair \in DOMAIN pairs
    /\ result \in pair \cup {Drawn, None}
    /\ pairs' = [pairs EXCEPT ![pair] = result]
    /\ Records(pair, result)
    /\ UNCHANGED rest

\* The owner saves the record of p, who is in a pair as long as there is one; any
\* other text is refused.
EditRecord(p, text) ==
    /\ <<p, NoScope>> \in Stored
    /\ \E pair \in DOMAIN pairs :
         p \in pair /\ SetResult(pair, ResultByText(pair, p, text))

Erase(k) == EraseRecord(k) /\ UNCHANGED <<pairs, rest>>

Next ==
    \/ \E p, q \in Person : PairDuel(p, q)
    \/ ReadRest
    \/ PairRest
    \/ \E pair \in DOMAIN pairs :
         \/ Unpair(pair)
         \/ \E result \in pair \cup {Drawn, None} : SetResult(pair, result)
    \/ \E p \in Person, text \in {"won", "lost", "drawn", "clear"} :
         EditRecord(p, text)
    \/ \E k \in Whole(Person) : Erase(k)

\* The records as they should be: of both sides of every pair with a result.
Due ==
    LET decided == {pair \in DOMAIN pairs : pairs[pair] # None}
    IN  [k \in Whole(UNION decided) |->
            Outcome(pairs[CHOOSE pair \in decided : k[1] \in pair], k[1])]
==============================================================================
