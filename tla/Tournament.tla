------------------------------ MODULE Tournament ------------------------------
(***************************************************************************)
(* A knock-out tournament of persons.  The owner enters paid reservations  *)
(* into brackets, orders them, and names winners; each handler draws the   *)
(* tree again and rewrites the records.  A handler is one transaction that *)
(* holds its bracket's row: also set_tournament_note, which locks the      *)
(* match together with the rows it joins.                                  *)
(***************************************************************************)
EXTENDS Brackets

CONSTANT Entrant      \* the paid reservations of a tournament of persons

TournamentInit == InitBrackets /\ InitRecords

\* The records in bracket b, by the order people and the matches m.
PersonLabels(b, people, m) ==
    [k \in {p \in Range(people) : Mine(m, p) # {}} \X {b} |-> RecordLabel(people, m, k[1])]

\* As a bug would have it: the matches are stored as they were changed.
RedrawPersonsOnlyChanged(b, people, m) ==
    /\ entries' = [entries EXCEPT ![b] = people]
    /\ match' = [match EXCEPT ![b] = m]
    /\ Rewrite((Range(people) \cup Entered(b)) \X {b}, PersonLabels(b, people, m))
    /\ UNCHANGED brackets

\* The end of every handler: the tree is drawn with the order people and the
\* matches m, and the records of the bracket follow.
RedrawPersons(b, people, m) ==
    LET drawn == Materialize(people, m)
    IN  /\ entries' = [entries EXCEPT ![b] = people]
        /\ match' = [match EXCEPT ![b] = drawn]
        /\ Rewrite((Range(people) \cup Entered(b)) \X {b}, PersonLabels(b, people, drawn))
        /\ UNCHANGED brackets

CreatePersonBracket(b) ==
    /\ b \notin brackets
    /\ brackets' = brackets \cup {b}
    /\ UNCHANGED <<entries, match, record, late>>

RemovePersonBracket(b) ==
    /\ brackets' = brackets \ {b}
    /\ entries' = [entries EXCEPT ![b] = <<>>]
    /\ match' = [match EXCEPT ![b] = <<>>]
    /\ Rewrite({k \in DOMAIN record : k[2] = b}, <<>>)

\* As a bug would have it: somebody in the bracket may be entered again.
EnterPersonsAgain(b, people) ==
    /\ Len(entries[b]) + Len(people) <= Room[b]
    /\ RedrawPersons(b, entries[b] \o people, match[b])

\* One or several persons who are not in the bracket, in the order asked for.
EnterPersons(b, people) ==
    /\ Len(entries[b]) + Len(people) <= Room[b]
    /\ Range(people) \cap Entered(b) = {}
    /\ RedrawPersons(b, entries[b] \o people, match[b])

LeavePersons(b, p) ==
    /\ p \in Entered(b)
    /\ RedrawPersons(b, Without(b, p), match[b])

\* The entry at i and the one below it change places.
MoveEntry(b, i) ==
    /\ i \in 1..(Len(entries[b]) - 1)
    /\ RedrawPersons(b, [entries[b] EXCEPT ![i] = entries[b][i + 1], ![i + 1] = entries[b][i]],
              match[b])

RearrangePersons(b) ==
    /\ IsOpen(b)
    /\ \/ RemovePersonBracket(b)
       \/ \E p, q \in Entrant : EnterPersons(b, <<p>>) \/ (p # q /\ EnterPersons(b, <<p, q>>))
       \/ \E p \in Entrant : LeavePersons(b, p)
       \/ \E i \in 1..MaxEntries : MoveEntry(b, i)

\* who is one of the two, or None to take the result back.
SetTournamentWinner(b, k, who) ==
    LET drawn == Materialize(entries[b], match[b])
    IN  /\ b \in brackets
        /\ k \in DOMAIN drawn
        /\ drawn[k].second # None
        /\ who \in {drawn[k].first, drawn[k].second, None}
        /\ who # drawn[k].winner => ~LaterResult(entries[b], drawn, k)
        /\ RedrawPersons(b, entries[b], [drawn EXCEPT ![k].winner = who])

\* The owner saves the record of p, whether or not the text of the result is
\* another one.  It is read as the result of the latest match of p, which may
\* not be played yet; "bye" stands for the texts that are not read.
EditPersonRecord(b, p, text) ==
    LET k == LatestMatch(match[b], p)
        who == WinnerByText(match[b][k], p, text)
    IN  /\ <<p, b>> \in Stored
        /\ \/ text # "bye" /\ ~(text = "lost" /\ who = None)
              /\ SetTournamentWinner(b, k, who)
           \/ /\ text = "bye" \/ (text = "lost" /\ who = None)
              /\ KeepText(<<p, b>>)
              /\ UNCHANGED <<brackets, entries, match>>

ErasePersonRecord(k) == EraseRecord(k) /\ UNCHANGED <<brackets, entries, match>>

TournamentNext ==
    \E b \in Bracket :
        \/ CreatePersonBracket(b)
        \/ RearrangePersons(b)
        \/ \E p \in Entrant, text \in {"won", "lost", "bye", "clear"} :
             EditPersonRecord(b, p, text)
        \/ \E k \in DOMAIN match[b] :
             \E who \in {match[b][k].first, match[b][k].second, None} :
               SetTournamentWinner(b, k, who)
        \/ \E p \in Entrant : ErasePersonRecord(<<p, b>>)

\* The records as they should be: one of everybody with a decided match.
PersonsDue == [k \in UNION {DOMAIN PersonLabels(b, entries[b], match[b]) : b \in Bracket} |->
          RecordLabel(entries[k[2]], match[k[2]], k[1])]
==============================================================================
