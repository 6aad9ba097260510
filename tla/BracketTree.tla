----------------------------- MODULE BracketTree -----------------------------
(***************************************************************************)
(* Who stands where in a knock-out bracket, which the tournaments of       *)
(* persons and of teams share.  The tree comes from the order of the       *)
(* entries on every request (DrawnTrees); the stored matches, a function   *)
(* from slots to the two opponents and the winner, only hold who met and   *)
(* who won.                                                                *)
(***************************************************************************)
EXTENDS Integers, SequencesExt, FunctionUpdates

CONSTANTS None,                    \* no opponent, no winner
          MaxEntries,              \* entries of a bracket
          Trees                    \* what DrawnTrees says of each size

IsBye(n, k) == Trees[n].rounds[k[1]][k[2]].right = <<>>

Slots(n) == Range(Trees[n].slots)
Matches(n) == {k \in Slots(n) : ~IsBye(n, k)}
Sources(n, k) == LET spec == Trees[n].rounds[k[1]][k[2]] IN {spec.left, spec.right} \ {<<>>}

\* The entries that may come from a source.
May(n, s) == IF s[1] = "player" THEN {s[2]} ELSE Trees[n].below[<<s[2], s[3]>>]

IsWinnerOf(s, k) == s[1] = "winner" /\ <<s[2], s[3]>> = k

\* A tree names each slot once; that of nobody has none.
ASSUME TreesAssumption ==
    /\ MaxEntries \in Nat
    /\ \A n \in 0..MaxEntries :
         Trees[n].slots \in Seq(Nat \X Nat) /\ IsInjective(Trees[n].slots)
    /\ Trees[0].slots = <<>>

\* A source is an entry or the winner of an earlier match, and next says where the
\* winner of a match has to play.
SourcesComeBefore(n) ==
    \A i \in DOMAIN Trees[n].slots : \A s \in Sources(n, Trees[n].slots[i]) :
        \/ s[1] = "player" /\ s[2] \in 1..n
        \/ /\ s[1] = "winner"
           /\ \E j \in 1..(i - 1) :
                Trees[n].slots[j] = <<s[2], s[3]>> /\ <<s[2], s[3]>> \in Matches(n)
NextIsTheNextMatch(n) ==
    \A k, l \in Matches(n) :
        (\E s \in Sources(n, l) : IsWinnerOf(s, k)) => Trees[n].next[k] = l
BelowAreTheSources(n) ==
    \A k \in Slots(n) : Trees[n].below[k] = UNION {May(n, s) : s \in Sources(n, k)}

\* Nobody passes a round by: who comes to a later match than k is the winner of k
\* or of a match after it, or nobody who can come to k.  And nobody waits twice.
NobodyPassesBy(n) ==
    \A k, l \in Matches(n) : k[1] < l[1] =>
        \A s \in Sources(n, l) :
            \/ IsWinnerOf(s, k)
            \/ s[1] = "winner" /\ s[2] > k[1]
            \/ May(n, s) \cap Trees[n].below[k] = {}
ByesApart(n) ==
    \A k, l \in Slots(n) : k # l /\ IsBye(n, k) /\ IsBye(n, l) =>
        Trees[n].below[k] \cap Trees[n].below[l] = {}

ASSUME ShapeAssumption ==
    \A n \in 0..MaxEntries :
        /\ SourcesComeBefore(n) /\ NextIsTheNextMatch(n) /\ BelowAreTheSources(n)
        /\ NobodyPassesBy(n) /\ ByesApart(n)

\* Who a source is, from the slots before.
Source(people, before, s) ==
    IF s = <<>> THEN None
    ELSE CASE s[1] = "player" -> people[s[2]]
           [] s[1] = "winner" -> before[<<s[2], s[3]>>].winner

\* A stored match counts only if it is between the two
\* who stand there now.
Same(matches, k, left, right) ==
    /\ None \notin {left, right}
    /\ k \in DOMAIN matches
    /\ matches[k].first = left /\ matches[k].second = right
    /\ matches[k].winner \in {left, right}
Meeting(n, matches, k, left, right) ==
    [first |-> left, second |-> right,
     winner |-> CASE IsBye(n, k) -> left
                  [] ~IsBye(n, k) /\ Same(matches, k, left, right) -> matches[k].winner
                  [] OTHER -> None]
WithSlot(people, matches, before, k) ==
    LET spec == Trees[Len(people)].rounds[k[1]][k[2]]
    IN  Put(before, k,
            Meeting(Len(people), matches, k, Source(people, before, spec.left),
                    Source(people, before, spec.right)))

\* Who stands where and who has won, by the tree and the stored matches.
PlayedIn(slots, people, matches) ==
    LET row[i \in 0..Len(slots)] ==
            IF i = 0 THEN <<>> ELSE WithSlot(people, matches, row[i - 1], slots[i])
    IN  row[Len(slots)]
Played(people, matches) == PlayedIn(Trees[Len(people)].slots, people, matches)

\* The matches as they are stored again: one wherever the opponents are known.
Known(n, row) ==
    Restrict(row, {k \in DOMAIN row : /\ row[k].first # None
                                      /\ (row[k].second # None \/ IsBye(n, k))})
Materialize(people, matches) == Known(Len(people), Played(people, matches))

Decided(matches) ==
    {k \in DOMAIN matches : matches[k].second # None /\ matches[k].winner # None}

\* A bracket with a decided match takes no other entries.
Locked(people, matches) == Decided(Materialize(people, matches)) # {}

\* As a bug would have it: a winner who waits has no later result.
LaterResultAtOnce(people, matches, k) ==
    LET next == Trees[Len(people)].next[k]
    IN  next # <<>> /\ next[1] = k[1] + 1 /\ Played(people, matches)[next].winner # None

\* Somebody has already won a match that depends on this one.
LaterResult(people, matches, k) ==
    LET next == Trees[Len(people)].next[k]
    IN  next # <<>> /\ Played(people, matches)[next].winner # None

\* The matches of someone that are decided, byes included.
Mine(matches, c) ==
    {k \in DOMAIN matches : c \in {matches[k].first, matches[k].second}
                              /\ matches[k].winner # None}

\* What a record says, by the latest match, of round r of total.
Label(r, total, bye, won) == CASE r = total /\ won -> <<"champion">>
                               [] r = total /\ ~won -> <<"runner-up">>
                               [] r = total - 1 /\ won -> <<"final">>
                               [] r = total - 1 /\ ~won -> <<"third">>
                               [] r < total - 1 /\ bye -> <<"bye", r>>
                               [] r < total - 1 /\ ~bye /\ won -> <<"won", r>>
                               [] r < total - 1 /\ ~bye /\ ~won -> <<"lost", r>>
Latest(keys) == CHOOSE k \in keys : \A o \in keys : o[1] <= k[1]
LabelAt(total, match, k, c) ==
    Label(k[1], total, match.second = None, match.winner = c)
RecordLabel(people, matches, c) ==
    LET latest == Latest(Mine(matches, c))
    IN  LabelAt(Len(Trees[Len(people)].rounds), matches[latest], latest, c)

\* The match that the saved text is taken to be about, and who has won it then.
LatestMatch(matches, c) ==
    Latest({k \in DOMAIN matches : c \in {matches[k].first, matches[k].second}})

WinnerByText(match, c, text) ==
    CASE text = "won" -> c
      [] text = "lost" /\ match.first = c -> match.second
      [] text = "lost" /\ match.first # c -> match.first
      [] text = "clear" -> None
==============================================================================
