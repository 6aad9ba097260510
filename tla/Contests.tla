------------------------------ MODULE Contests ------------------------------
(***************************************************************************)
(* The sheet of an event: a tournament of persons or of teams, a duel, a   *)
(* team battle or a competition in divisions.  An event has one of them,   *)
(* and all of them write the same table of records.  The kind is chosen    *)
(* once: that the owner publishes the event again with another kind, which *)
(* deletes the sheet and leaves the records, is left out.                  *)
(*                                                                         *)
(* Both tournaments are extended; the other sheets are instances.          *)
(***************************************************************************)
EXTENDS Tournament, TeamTournament

CONSTANTS Drawn, NotReading, Division,
          Reservation   \* Reservation[kind]: the paid reservations of such an event

ASSUME ContestsAssumption ==
    /\ IsFiniteSet(Reservation["duel"]) /\ IsFiniteSet(Team)
    /\ NoTeam \notin Team
    /\ None \notin Int

VARIABLES kind,
          pairs, rest,        \* of duels and team battles
          divisions, place    \* of competitions

Kinds == {"tournament", "team_tournament", "duel", "team_battle", "competition"}

D == INSTANCE Duel WITH Person <- Reservation["duel"]
B == INSTANCE TeamBattle
C == INSTANCE Divisions WITH Person <- Reservation["competition"]

trees == <<brackets, entries, match>>
meetings == <<pairs, rest>>
places == <<divisions, place>>
contestVars == <<kind, record, late, trees, team, busy, meetings, places>>

ContestInit ==
    /\ kind \in Kinds
    /\ Init /\ B!Init /\ C!Init

ContestNext ==
    /\ \/ kind = "team_tournament" /\ Next /\ UNCHANGED <<meetings, places>>
       \/ kind = "tournament" /\ TournamentNext /\ UNCHANGED <<team, busy, meetings, places>>
       \/ kind = "duel" /\ D!Next /\ UNCHANGED <<trees, team, busy, places>>
       \/ kind = "team_battle" /\ B!Next /\ UNCHANGED <<trees, places>>
       \/ kind = "competition" /\ C!Next /\ UNCHANGED <<trees, team, meetings>>
    /\ UNCHANGED kind

ContestSpec == ContestInit /\ [][ContestNext]_contestVars

-----------------------------------------------------------------------------
(* Properties: those of the sheets *)

\* The stored matches are always those that the tree gives: whoever meets has won
\* the matches before, and a result of opponents who no longer meet is gone.
MatchesFollowTree ==
    kind \in {"tournament", "team_tournament"} =>
        \A b \in Bracket : match[b] = Materialize(entries[b], match[b])

\* The records say what the matches and the places say, and nobody else has one,
\* apart from what the owner wrote there and what a handler wrote late, because it
\* does not hold the lock of the match, bracket or division whose records it writes.
RecordsFollowResults ==
    RecordsAre(CASE kind = "team_tournament" -> Due
                 [] kind = "tournament" -> PersonsDue
                 [] kind = "duel" -> D!Due
                 [] kind = "team_battle" -> B!Due
                 [] kind = "competition" -> C!Due)

\* A step keeps all results of bracket b but one that nothing rests on; or it is
\* that of remove_team, with results that came after its check.
KeepsResults(b) ==
    LET lost == {k \in Decided(match[b]) :
                   ~(k \in DOMAIN match'[b] /\ match'[b][k] = match[b][k])}
        RestsOn(later, k) ==
            /\ later[1] > k[1]
            /\ match[b][k].winner \in {match[b][later].first, match[b][later].second}
    IN  \/ /\ Cardinality(lost) <= 1
           /\ \A k \in lost, later \in Decided(match[b]) : ~RestsOn(later, k)
        \/ busy # Idle /\ busy' = Idle /\ busy.op.gone /\ Outdated(busy)

\* A result that a later one rests on is not taken back, however many rounds its
\* winner waits in between, and no request takes back two (_match_result_locked,
\* _locked); only remove_team may, if a result comes after its check.
ResultsAreKept ==
    [][\A b \in Bracket :
         kind \in {"tournament", "team_tournament"} => KeepsResults(b)]_contestVars

\* "The same person can take at most one bye", whoever wins (_sources).
OneByeEach ==
    kind \in {"tournament", "team_tournament"} =>
        \A b \in Bracket : \A p \in Range(entries[b]) :
            Cardinality({k \in DOMAIN match[b] :
                           match[b][k].first = p /\ match[b][k].second = None}) <= 1

\* Nobody is in two pairs, and nobody meets themself: pairing the rest looks again,
\* under the locks, at those it has read as free (_ensure_free).
NobodyPairedTwice ==
    /\ \A pair \in DOMAIN pairs : Cardinality(pair) = 2
    /\ \A x, y \in DOMAIN pairs : x # y => x \cap y = {}

\* At most one of a division is moved: all others who have places keep them, in
\* the same order.
MovesOne(d) ==
    LET Ranked(at, ps) == {p \in ps : at[p] # None}
        people == DOMAIN place[d]
        after == Ranked(place'[d], people)
    IN  \E p \in people :
          LET others == Ranked(place[d], people \ {p})
          IN  /\ others \subseteq after
              /\ \A q, r \in others :
                   place[d][q] < place[d][r] <=> place'[d][q] < place'[d][r]
              /\ \A q, r \in after : q # r => place'[d][q] # place'[d][r]

\* Giving a place moves one person: all others who have places keep them in the
\* same order, and no two share one (_insert_place).
PlacingIsAnInsertion ==
    [][\A d \in Division :
         DOMAIN place'[d] = DOMAIN place[d] /\ DOMAIN place[d] # {} => MovesOne(d)]_contestVars
==============================================================================
