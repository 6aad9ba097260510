--------------------------- MODULE TeamTournament ---------------------------
(***************************************************************************)
(* A knock-out tournament of teams: the tree of BracketTree with teams as  *)
(* opponents, and one record for each member of a team.  What happens in a *)
(* bracket holds its row, and the rows of the teams it names; the handlers *)
(* on a team hold only the team, and see the bracket as it was.            *)
(***************************************************************************)
EXTENDS Brackets, Teams

vars == <<team, busy, brackets, entries, match, record, late>>

Init == InitTeams /\ InitRecords /\ InitBrackets

Home(t) == {b \in Bracket : t \in Entered(b)}   \* one bracket or none

\* The records of the teams in people by the matches m, if persons are in teams
\* by of: the members of a team share its label.
Labels(people, m, of) ==
    LET with == {p \in Person : of[p] \in Range(people) /\ Mine(m, of[p]) # {}}
    IN  [k \in Whole(with) |-> RecordLabel(people, m, of[k[1]])]
KeysOf(ts, of) == Whole({p \in Person : of[p] \in ts})

\* A match can be stored for teams that busy has not locked.
Storable(b, drawn) ==
    \A k \in DOMAIN drawn :
        \/ k \in DOMAIN match[b] /\ match[b][k].first = drawn[k].first
                                /\ match[b][k].second = drawn[k].second
        \/ Free(drawn[k].first) /\ Free(drawn[k].second)

\* The end of a handler on bracket b: the tree is drawn with the order people and
\* the matches m, and the records of its teams follow.
Redraw(b, people, m) ==
    LET drawn == Materialize(people, m)
        keys == KeysOf(Range(people) \cup Entered(b), team)
    IN  /\ Storable(b, drawn)
        /\ FreeRecords(keys)
        /\ entries' = [entries EXCEPT ![b] = people]
        /\ match' = [match EXCEPT ![b] = drawn]
        /\ Rewrite(keys, Labels(people, drawn, team))
        /\ UNCHANGED <<team, busy, brackets>>

CreateBracket(b) ==
    /\ b \notin brackets
    /\ brackets' = brackets \cup {b}
    /\ UNCHANGED <<team, busy, entries, match, record, late>>

RemoveBracket(b) ==
    /\ FreeRecords(KeysOf(Entered(b), team))
    /\ brackets' = brackets \ {b}
    /\ entries' = [entries EXCEPT ![b] = <<>>]
    /\ match' = [match EXCEPT ![b] = <<>>]
    /\ Rewrite(KeysOf(Entered(b), team), <<>>)
    /\ UNCHANGED <<team, busy>>

\* One or several teams that have members and are in no bracket yet.
Enter(b, ts) ==
    /\ Len(entries[b]) + Len(ts) <= Room[b]
    /\ \A t \in Range(ts) : Free(t) /\ Members(t) # {} /\ Home(t) = {}
    /\ Redraw(b, entries[b] \o ts, match[b])

Leave(b, t) ==
    /\ t \in Entered(b) /\ Free(t)
    /\ Redraw(b, Without(b, t), match[b])

\* The team at i and the one below it change places; t, one of them, is asked for.
MoveTeam(b, i) ==
    /\ i \in 1..(Len(entries[b]) - 1)
    /\ Free(entries[b][i]) \/ Free(entries[b][i + 1])
    /\ Redraw(b, [entries[b] EXCEPT ![i] = entries[b][i + 1], ![i + 1] = entries[b][i]],
              match[b])

Rearrange(b) ==
    /\ IsOpen(b)
    /\ \/ RemoveBracket(b)
       \/ \E t, o \in Team : Enter(b, <<t>>) \/ (t # o /\ Enter(b, <<t, o>>))
       \/ \E t \in Team : Leave(b, t)
       \/ \E i \in 1..MaxEntries : MoveTeam(b, i)

\* The result of match k becomes who, one of the two, or None to take it back; the
\* lock on the match takes the rows of its two teams as well.  set_note does the
\* same with the winner there is.
SetWinner(b, k, who) ==
    LET drawn == Materialize(entries[b], match[b])
    IN  /\ b \in brackets
        /\ k \in DOMAIN drawn
        /\ drawn[k].second # None
        /\ Free(drawn[k].first) /\ Free(drawn[k].second)
        /\ who # drawn[k].winner => ~LaterResult(entries[b], drawn, k)
        /\ Redraw(b, entries[b], [drawn EXCEPT ![k].winner = who])

\* The latest match of the team of p, unless it is without an opponent.
LatestOf(p) ==
    {at \in UNION {{b} \X DOMAIN match[b] : b \in Home(team[p])} :
        /\ team[p] \in {match[at[1]][at[2]].first, match[at[1]][at[2]].second}
        /\ at[2] = LatestMatch(match[at[1]], team[p])
        /\ match[at[1]][at[2]].second # None}

\* The owner saves the record of p, whether or not the text of the result is
\* another one.  It is read as the result of the latest match of the team; "other"
\* stands for the texts that are not read, an empty one included.
EditRecord(p, text) ==
    LET k == <<p, NoScope>>
    IN  /\ k \in Stored /\ FreeRecords({k})
        /\ \/ \E at \in LatestOf(p) :
                 /\ text # "other"
                 /\ SetWinner(at[1], at[2],
                              WinnerByText(match[at[1]][at[2]], team[p], text))
           \/ /\ text = "other" \/ LatestOf(p) = {}
              /\ KeepText(k)
              /\ UNCHANGED <<team, busy, brackets, entries, match>>

Erase(k) ==
    /\ FreeRecords({k})
    /\ EraseRecord(k)
    /\ UNCHANGED <<team, busy, brackets, entries, match>>

-----------------------------------------------------------------------------
(* The handlers on a team *)

\* What op sees: its bracket, and there the matches.
Seen(op) ==
    [op |-> op, cleared |-> Cleared(op), home |-> Home(op.team),
     people |-> [b \in Home(op.team) |-> entries[b]],
     match |-> [b \in Home(op.team) |-> match[b]]]

\* remove_team refuses a team of a bracket with results.
Allowed(op) ==
    op.gone => \A b \in Home(op.team) : ~Locked(entries[b], match[b])

Outdated(seen) ==
    \E b \in seen.home : seen.people[b] # entries[b] \/ seen.match[b] # match[b]

\* The rest of the handler: remove_team draws the tree again from what is stored
\* now, the others write the records of the bracket as they have seen it.
Finish(seen) ==
    LET op == seen.op
        of == TeamAfter(op)
        left == [b \in seen.home |-> Without(b, op.team)]
        drawn == [b \in seen.home |-> Materialize(left[b], match[b])]
        people == IF op.gone THEN left ELSE seen.people
        by == IF op.gone THEN drawn ELSE seen.match
        keys == seen.cleared \cup UNION {KeysOf(Range(people[b]), of) : b \in seen.home}
    IN  /\ team' = of
        /\ entries' = IF op.gone THEN Over(left, entries) ELSE entries
        /\ match' = IF op.gone THEN Over(drawn, match) ELSE match
        /\ \/ /\ seen.home = {}
              /\ Rewrite(seen.cleared, <<>>)
           \/ \E b \in seen.home :
                Write(keys, Labels(people[b], by[b], of), ~op.gone /\ Outdated(seen))
        /\ UNCHANGED brackets

\* Outside a bracket the handler has nothing to refresh, and one step will do.
ChangeTeam(op) ==
    /\ busy = Idle
    /\ Home(op.team) = {}
    /\ Finish(Seen(op))
    /\ UNCHANGED busy

BeginChange(op) ==
    /\ busy = Idle
    /\ Home(op.team) # {}
    /\ Allowed(op)
    /\ busy' = Seen(op)
    /\ UNCHANGED <<team, brackets, entries, match, record, late>>

EndChange ==
    /\ busy # Idle
    /\ Finish(busy)
    /\ busy' = Idle

Next ==
    \/ \E t \in Team : \E op \in OpsOn(t) : ChangeTeam(op) \/ BeginChange(op)
    \/ EndChange
    \/ \E b \in Bracket :
         \/ CreateBracket(b)
         \/ Rearrange(b)
         \/ \E k \in DOMAIN match[b] :
              \E who \in {match[b][k].first, match[b][k].second, None} : SetWinner(b, k, who)
    \/ \E p \in Person, text \in {"won", "lost", "other"} : EditRecord(p, text)
    \/ \E k \in Whole(Person) : Erase(k)

\* The records as they should be: of the members of all teams with a decided match.
Due ==
    LET Of(p) == CHOOSE b \in Bracket : team[p] \in Entered(b)
    IN  [k \in UNION {DOMAIN Labels(entries[b], match[b], team) : b \in Bracket} |->
            RecordLabel(entries[Of(k[1])], match[Of(k[1])], team[k[1]])]
==============================================================================
