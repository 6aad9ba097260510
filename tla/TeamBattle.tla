----------------------------- MODULE TeamBattle -----------------------------
(***************************************************************************)
(* A team battle: teams in pairs, and for each member the result of its    *)
(* team as a record.  What happens to a pair holds both teams, except      *)
(* taking it apart, which holds the pair only; the handlers on a team hold *)
(* neither the pair nor the other team, whose records they write as well.  *)
(***************************************************************************)
EXTENDS Pairs, Teams

vars == <<team, busy, pairs, rest, record, late>>

Init == InitTeams /\ InitPairs /\ InitRecords

PairOf(t) == {pair \in DOMAIN pairs : t \in pair}

\* The records of the members of a pair by a result, if persons are in teams by of.
Members2(pair, of) == {p \in Person : of[p] \in pair}
Labels(pair, result, of) ==
    IF result = None THEN <<>>
    ELSE [k \in Whole(Members2(pair, of)) |-> Outcome(result, of[k[1]])]

Records(pair, result) ==
    LET keys == Whole(Members2(pair, team))
    IN  /\ FreeRecords(keys)
        /\ Rewrite(keys, Labels(pair, result, team))

PairTeams(t, o) ==
    /\ t # o
    /\ Free(t) /\ Free(o)
    /\ Members(t) # {} /\ Members(o) # {}
    /\ {t, o} \cap Paired = {}
    /\ pairs' = Start({{t, o}})
    /\ UNCHANGED <<team, busy, rest, record, late>>

\* pair_rest up to the locks on all teams ...
ReadRest ==
    /\ rest = NotReading
    /\ rest' = Paired
    /\ UNCHANGED <<team, busy, pairs, record, late>>

\* ... and under them: an even number of teams with members is left of those it
\* has seen free, none of them paired in the meantime.  Teams without members,
\* which it refuses, can be removed first.
PairRest ==
    LET free == {t \in Team \ rest : Members(t) # {}}
    IN  /\ rest # NotReading
        /\ busy = Idle
        /\ rest' = NotReading
        /\ IF free \cap Paired = {} /\ free # {} /\ Cardinality(free) % 2 = 0
           THEN \E new \in Pairings(free) : pairs' = Start(new)
           ELSE UNCHANGED pairs
        /\ UNCHANGED <<team, busy, record, late>>

Unpair(pair) ==
    /\ pair \in DOMAIN pairs
    /\ pairs' = Restrict(pairs, DOMAIN pairs \ {pair})
    /\ Records(pair, None)
    /\ UNCHANGED <<team, busy, rest>>

\* A winner, a draw, or None to take the result back; set_note writes the same
\* records with the winner there is.  The lock on the match takes both teams.
SetResult(pair, result) ==
    /\ pair \in DOMAIN pairs
    /\ result \in pair \cup {Drawn, None}
    /\ \A t \in pair : Free(t)
    /\ pairs' = [pairs EXCEPT ![pair] = result]
    /\ Records(pair, result)
    /\ UNCHANGED <<team, busy, rest>>

\* The owner saves the record of p; "other" stands for the texts that are not read,
\* an empty one included.
EditRecord(p, text) ==
    LET k == <<p, NoScope>>
        read == text # "other" /\ PairOf(team[p]) # {}
    IN  /\ k \in Stored /\ FreeRecords({k})
        /\ \/ \E pair \in PairOf(team[p]) :
                read /\ SetResult(pair, ResultByText(pair, team[p], text))
           \/ ~read /\ KeepText(k) /\ UNCHANGED <<team, busy, pairs, rest>>

Erase(k) ==
    /\ FreeRecords({k})
    /\ EraseRecord(k)
    /\ UNCHANGED <<team, busy, pairs, rest>>

-----------------------------------------------------------------------------
(* The handlers on a team *)

\* What op sees: the match of its team, and its result.
Seen(op) ==
    LET own == PairOf(op.team)
    IN  [op |-> op, cleared |-> Cleared(op), match |-> Restrict(pairs, own)]

\* remove_team refuses a team that is paired.
Allowed(op) == op.gone => PairOf(op.team) = {}

\* The rest of the handler: the records of the match as it has been seen.
Finish(seen) ==
    LET of == TeamAfter(seen.op)
        keys == seen.cleared \cup UNION {Whole(Members2(pair, of)) : pair \in DOMAIN seen.match}
    IN  /\ team' = of
        /\ \/ /\ seen.match = <<>>
              /\ Rewrite(seen.cleared, <<>>)
           \/ \E pair \in DOMAIN seen.match :
                Write(keys, Labels(pair, seen.match[pair], of),
                      seen.match # Restrict(pairs, PairOf(seen.op.team)))
        /\ UNCHANGED <<pairs, rest>>

\* Without a match the handler has nothing to refresh, and one step will do.
ChangeTeam(op) ==
    /\ busy = Idle
    /\ PairOf(op.team) = {}
    /\ Finish(Seen(op))
    /\ UNCHANGED busy

BeginChange(op) ==
    /\ busy = Idle
    /\ PairOf(op.team) # {}
    /\ Allowed(op)
    /\ busy' = Seen(op)
    /\ UNCHANGED <<team, pairs, rest, record, late>>

EndChange ==
    /\ busy # Idle
    /\ Finish(busy)
    /\ busy' = Idle

Next ==
    \/ \E t \in Team : \E op \in OpsOn(t) : ChangeTeam(op) \/ BeginChange(op)
    \/ EndChange
    \/ \E t, o \in Team : PairTeams(t, o)
    \/ ReadRest
    \/ PairRest
    \/ \E pair \in DOMAIN pairs :
         \/ Unpair(pair)
         \/ \E result \in pair \cup {Drawn, None} : SetResult(pair, result)
    \/ \E p \in Person, text \in {"won", "lost", "drawn", "other"} :
         EditRecord(p, text)
    \/ \E k \in Whole(Person) : Erase(k)

\* The records as they should be: of the members of every pair with a result.
Due ==
    LET decided == {pair \in DOMAIN pairs : pairs[pair] # None}
        Of(p) == CHOOSE pair \in decided : team[p] \in pair
    IN  [k \in Whole({p \in Person : team[p] \in UNION decided}) |->
            Outcome(pairs[Of(k[1])], team[k[1]])]
==============================================================================
