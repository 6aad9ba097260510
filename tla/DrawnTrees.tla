----------------------------- MODULE DrawnTrees -----------------------------
(***************************************************************************)
(* The shape of a knock-out bracket for each number of entries: who meets  *)
(* whom in which round, and who waits.  A source is an entry, the winner   *)
(* of a slot, or none for the other side of somebody who waits; a slot     *)
(* <<r, p>> is the p-th match of round r.  Twelve rounds, where the source *)
(* stops, are out of reach.                                                *)
(***************************************************************************)
EXTENDS Integers, SequencesExt

CONSTANT MaxEntries   \* entries of a bracket

Player(i) == <<"player", i>>
WinnerOf(r, p) == <<"winner", r, p>>
NoSource == <<>>

\* Who of an odd number waits: the last one, or if that one has waited before,
\* the first who has not.  0 if nobody has to.
ByeAt(current, byed) ==
    LET n == Len(current)
        fresh == {i \in 1..n : current[i] \notin byed}
    IN  IF n % 2 = 0 THEN 0
        ELSE IF n \in fresh \/ fresh = {} THEN n
        ELSE Min(fresh)

\* The p-th match of those in current, of whom the one at bye waits behind all others.
Around(bye, i) == IF bye = 0 \/ i < bye THEN i ELSE i + 1
Pair(current, at) ==
    [left |-> current[at[1]], right |-> current[at[2]], from |-> {at[1], at[2]}]
Spec(current, bye, p) ==
    IF 2 * p > Len(current)
    THEN [left |-> current[bye], right |-> NoSource, from |-> {bye}]
    ELSE Pair(current, <<Around(bye, 2 * p - 1), Around(bye, 2 * p)>>)

\* Those who are left after round r, and who of them, or before them, has waited.
After(specs, byed, r) ==
    [specs |-> specs,
     next |-> [p \in DOMAIN specs |->
                 IF specs[p].right = NoSource THEN specs[p].left ELSE WinnerOf(r, p)],
     byed |-> byed \cup {s.left : s \in {t \in Range(specs) : t.right = NoSource}}
                \cup {WinnerOf(r, p) : p \in {q \in DOMAIN specs :
                        specs[q].right # NoSource
                          /\ {specs[q].left, specs[q].right} \cap byed # {}}}]

\* Round r of the tree, from those who are left after round r - 1.
DrawRound(before, r) ==
    After([p \in 1..((Len(before.next) + 1) \div 2) |->
             Spec(before.next, ByeAt(before.next, before.byed), p)],
          before.byed, r)

AllRounds(n) ==
    LET round[r \in 0..n] ==
          IF r = 0
          THEN [specs |-> <<>>, next |-> [i \in 1..n |-> Player(i)], byed |-> {}]
          ELSE DrawRound(round[r - 1], r)
    IN  round
UpToTheLast(round) ==
    [r \in 1..Min({r \in DOMAIN round : Len(round[r].next) < 2}) |-> round[r].specs]
Sources(n) == UpToTheLast(AllRounds(n))

\* The slots of a tree, in their order ...
SlotsOf(rounds) ==
    FlattenSeq([r \in DOMAIN rounds |-> [p \in DOMAIN rounds[r] |-> <<r, p>>]])

\* ... and the match that the winner of a slot goes to, after the rounds spent
\* waiting; none from the last one.
Above(rounds, k) ==
    <<k[1] + 1, CHOOSE q \in DOMAIN rounds[k[1] + 1] : k[2] \in rounds[k[1] + 1][q].from>>
NextOf(rounds, slots) ==
    LET up[k \in slots] ==
          IF k[1] = Len(rounds) THEN NoSource
          ELSE LET next == Above(rounds, k)
               IN  IF rounds[next[1]][next[2]].right = NoSource THEN up[next] ELSE next
    IN  up

\* The entries that may win a slot.
BelowOf(rounds, slots) ==
    LET below[k \in slots] ==
          LET spec == rounds[k[1]][k[2]]
          IN  UNION {IF s[1] = "player" THEN {s[2]} ELSE below[<<s[2], s[3]>>] :
                       s \in {spec.left, spec.right} \ {NoSource}}
    IN  below

\* A tree with what follows from it, and the trees of all sizes.
WithSlots(rounds, slots) ==
    [rounds |-> rounds, slots |-> slots, next |-> NextOf(rounds, Range(slots)),
     below |-> BelowOf(rounds, Range(slots))]
Drawing(rounds) == WithSlots(rounds, SlotsOf(rounds))
TreesDrawn == [n \in 0..MaxEntries |-> Drawing(Sources(n))]
==============================================================================
