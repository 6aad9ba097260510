---------------------------- MODULE ContestsProofs ----------------------------
(***************************************************************************)
(* Proofs about the sheets of an event: who is paired with whom, what the  *)
(* records say, the places of a competition, and the stored matches.       *)
(*                                                                         *)
(* First, about the tree of a bracket by itself: storing the matches that  *)
(* it gives and drawing it again changes nothing, whatever the tree and    *)
(* whatever was stored before.  The tree is drawn slot by slot, by a       *)
(* recursive function; an induction over its slots is UpTo of              *)
(* CountingProofs.                                                         *)
(***************************************************************************)
EXTENDS Contests, BracketTree, CountingProofs, SequenceTheorems

-----------------------------------------------------------------------------
(* The recursive function of PlayedIn.                                     *)

RowBody(slots, people, matches, row, i) ==
    IF i = 0 THEN <<>> ELSE WithSlot(people, matches, row[i - 1], slots[i])
IsRow(slots, people, matches, row, n) ==
    row = [i \in 0..n |-> RowBody(slots, people, matches, row, i)]
Row(slots, people, matches) ==
    CHOOSE row : row = [i \in 0..Len(slots) |->
                          IF i = 0 THEN <<>>
                          ELSE WithSlot(people, matches, row[i - 1], slots[i])]

LEMMA PlayedInIsLast ==
    ASSUME NEW slots, NEW people, NEW matches
    PROVE  PlayedIn(slots, people, matches) = Row(slots, people, matches)[Len(slots)]
PROOF BY DEF PlayedIn, Row

\* There is such a function.
LEMMA RowExists ==
    ASSUME NEW slots, NEW people, NEW matches, NEW n \in Nat
    PROVE  \E row : IsRow(slots, people, matches, row, n)
PROOF
<1> DEFINE Body(row, i) == RowBody(slots, people, matches, row, i)
           Is(row, m) == IsRow(slots, people, matches, row, m)
           Claim == {m \in Nat : \E row : Is(row, m)}
<1>1. 0 \in Claim
  <2>1. Is([i \in 0..0 |-> <<>>], 0)
    BY DEF IsRow, RowBody
  <2>2. QED BY <2>1
<1>2. ASSUME NEW i \in 1..n, i - 1 \in Claim PROVE i \in Claim
  <2>1. PICK row : Is(row, i - 1)
    BY <1>2
  <2> DEFINE longer == [j \in 0..i |-> IF j = i THEN Body(row, i) ELSE row[j]]
  <2>2. ASSUME NEW j \in 0..i PROVE longer[j] = Body(longer, j)
    <3>1. CASE j = 0
      <4>1. row[0] = Body(row, 0)
        BY <2>1 DEF IsRow
      <4>2. QED BY <4>1, <3>1 DEF RowBody
    <3>2. CASE j # 0
      <4>1. j - 1 \in 0..i /\ j - 1 # i
        BY <3>2
      <4>2. longer[j - 1] = row[j - 1]
        BY <4>1
      <4>3. Body(longer, j) = Body(row, j)
        BY <4>2 DEF RowBody
      <4>4. j # i => row[j] = Body(row, j)
        <5>1. j # i => j \in 0..(i - 1)
          OBVIOUS
        <5>2. QED BY <5>1, <2>1 DEF IsRow
      <4>5. QED BY <4>3, <4>4
    <3>3. QED BY <3>1, <3>2
  <2>3. longer = [j \in 0..i |-> Body(longer, j)]
    BY <2>2
  <2>4. Is(longer, i)
    BY <2>3 DEF IsRow
  <2>5. QED BY <2>4
<1>3. n \in Claim
  <2>1. Claim \in SUBSET Nat
    OBVIOUS
  <2> HIDE DEF Claim
  <2>2. \A i \in 0..n : i \in Claim
    BY <2>1, <1>1, <1>2, UpTo
  <2>3. QED BY <2>2
<1>4. QED BY <1>3

LEMMA RowSteps ==
    ASSUME NEW slots, NEW people, NEW matches, Len(slots) \in Nat
    PROVE  LET row == Row(slots, people, matches)
           IN  /\ row[0] = <<>>
               /\ \A i \in 1..Len(slots) :
                    row[i] = WithSlot(people, matches, row[i - 1], slots[i])
PROOF
<1> DEFINE row == Row(slots, people, matches)
<1>1. IsRow(slots, people, matches, row, Len(slots))
  <2>1. PICK r : IsRow(slots, people, matches, r, Len(slots))
    BY RowExists
  <2>2. QED BY <2>1 DEF IsRow, RowBody, Row
<1> HIDE DEF row
<1>2. \A i \in 0..Len(slots) : row[i] = RowBody(slots, people, matches, row, i)
  BY <1>1 DEF IsRow
<1>3. QED BY <1>2 DEF RowBody, row

-----------------------------------------------------------------------------
(* Drawing the tree twice.                                                 *)

\* What a slot of the tree holds, by the slots before it.
MeetingAt(people, matches, before, k) ==
    LET spec == Trees[Len(people)].rounds[k[1]][k[2]]
    IN  Meeting(Len(people), matches, k, Source(people, before, spec.left),
                Source(people, before, spec.right))

LEMMA WithSlotPuts ==
    ASSUME NEW people, NEW matches, NEW before, NEW k
    PROVE  WithSlot(people, matches, before, k)
             = Put(before, k, MeetingAt(people, matches, before, k))
PROOF BY DEF WithSlot, MeetingAt

\* What a slot holds is never changed by a later one, as no slot comes twice.
LEMMA RowHolds ==
    ASSUME NEW slots, NEW people, NEW matches,
           Len(slots) \in Nat, DOMAIN slots = 1..Len(slots), IsInjective(slots)
    PROVE  LET row == Row(slots, people, matches)
           IN  \A i \in 0..Len(slots) : \A j \in 1..i :
                 /\ slots[j] \in DOMAIN row[i]
                 /\ row[i][slots[j]] = MeetingAt(people, matches, row[j - 1], slots[j])
PROOF
<1> DEFINE row == Row(slots, people, matches)
           At(j) == MeetingAt(people, matches, row[j - 1], slots[j])
           Holds(i) == \A j \in 1..i :
                         slots[j] \in DOMAIN row[i] /\ row[i][slots[j]] = At(j)
           Claim == {i \in Nat : Holds(i)}
<1>1. /\ row[0] = <<>>
      /\ \A i \in 1..Len(slots) : row[i] = Put(row[i - 1], slots[i], At(i))
  BY RowSteps, WithSlotPuts
<1> HIDE DEF row
<1>2. 0 \in Claim
  BY <1>1
<1>3. ASSUME NEW i \in 1..Len(slots), i - 1 \in Claim PROVE i \in Claim
  <2> HIDE DEF At
  <2>1. Holds(i - 1) /\ row[i] = Put(row[i - 1], slots[i], At(i))
    BY <1>3, <1>1
  <2>2. ASSUME NEW j \in 1..i
        PROVE  slots[j] \in DOMAIN row[i] /\ row[i][slots[j]] = At(j)
    <3>1. CASE j = i
      BY <3>1, <2>1 DEF Put
    <3>2. CASE j # i
      <4>1. j \in 1..(i - 1) /\ i \in DOMAIN slots /\ j \in DOMAIN slots
        BY <3>2
      <4>2. slots[j] # slots[i]
        BY <4>1, <3>2 DEF IsInjective
      <4>3. slots[j] \in DOMAIN row[i - 1] /\ row[i - 1][slots[j]] = At(j)
        BY <4>1, <2>1
      <4>4. QED BY <4>2, <4>3, <2>1 DEF Put
    <3>3. QED BY <3>1, <3>2
  <2>3. QED BY <2>2
<1>4. \A i \in 0..Len(slots) : i \in Claim
  <2>1. Claim \in SUBSET Nat
    OBVIOUS
  <2> HIDE DEF Claim
  <2>2. QED BY <2>1, <1>2, <1>3, UpTo
<1>5. QED BY <1>4 DEF row

\* A slot holds the same again if its match was stored as it was.
LEMMA MeetingAgain ==
    ASSUME NEW n, NEW old, NEW new, NEW k, NEW left, NEW right,
           k \in DOMAIN new <=> left # None /\ (right # None \/ IsBye(n, k)),
           k \in DOMAIN new => new[k] = Meeting(n, old, k, left, right)
    PROVE  Meeting(n, new, k, left, right) = Meeting(n, old, k, left, right)
PROOF
<1>1. CASE IsBye(n, k)
  BY <1>1 DEF Meeting
<1>2. CASE ~IsBye(n, k) /\ None \in {left, right}
  BY <1>2 DEF Meeting, Same
<1>3. CASE ~IsBye(n, k) /\ None \notin {left, right} /\ Same(old, k, left, right)
  <2>1. new[k] = [first |-> left, second |-> right, winner |-> old[k].winner]
    BY <1>3 DEF Meeting
  <2>2. Same(new, k, left, right) /\ new[k].winner = old[k].winner
    BY <2>1, <1>3 DEF Same
  <2>3. QED BY <2>2, <1>3 DEF Meeting
<1>4. CASE ~IsBye(n, k) /\ None \notin {left, right} /\ ~Same(old, k, left, right)
  <2>1. new[k] = [first |-> left, second |-> right, winner |-> None]
    BY <1>4 DEF Meeting
  <2>2. ~Same(new, k, left, right)
    BY <2>1, <1>4 DEF Same
  <2>3. QED BY <2>2, <1>4 DEF Meeting
<1>5. QED BY <1>1, <1>2, <1>3, <1>4

\* The matches of a tree, stored and drawn again, give the same tree.
LEMMA PlayedAgain ==
    ASSUME NEW slots, NEW people, NEW matches, slots = Trees[Len(people)].slots,
           Len(slots) \in Nat, DOMAIN slots = 1..Len(slots), IsInjective(slots)
    PROVE  Played(people, Materialize(people, matches)) = Played(people, matches)
PROOF
<1> DEFINE N == Len(slots)
           stored == Materialize(people, matches)
           row == Row(slots, people, matches)
           again == Row(slots, people, stored)
           At(m, r, i) == MeetingAt(people, m, r[i - 1], slots[i])
           Claim == {i \in Nat : again[i] = row[i]}
<1>1. Played(people, matches) = row[N] /\ Played(people, stored) = again[N]
  BY PlayedInIsLast DEF Played
<1>2. stored = Known(Len(people), row[N])
  BY <1>1 DEF Materialize
<1>3. /\ row[0] = <<>> /\ again[0] = <<>>
      /\ \A i \in 1..N : row[i] = Put(row[i - 1], slots[i], At(matches, row, i))
      /\ \A i \in 1..N : again[i] = Put(again[i - 1], slots[i], At(stored, again, i))
  BY RowSteps, WithSlotPuts
<1>4. \A i \in 1..N : slots[i] \in DOMAIN row[N] /\ row[N][slots[i]] = At(matches, row, i)
  <2>1. N \in 0..N
    OBVIOUS
  <2>2. \A i \in 0..N : \A j \in 1..i :
          slots[j] \in DOMAIN row[i] /\ row[i][slots[j]] = At(matches, row, j)
    BY RowHolds
  <2>3. QED BY <2>1, <2>2
<1> HIDE DEF row, again, stored, N
<1>5. 0 \in Claim
  BY <1>3
<1>6. ASSUME NEW i \in 1..N, i - 1 \in Claim PROVE i \in Claim
  <2>1. again[i - 1] = row[i - 1]
    BY <1>6
  <2>2. At(stored, again, i) = At(matches, row, i)
    <3> DEFINE k == slots[i]
               spec == Trees[Len(people)].rounds[k[1]][k[2]]
               left == Source(people, row[i - 1], spec.left)
               right == Source(people, row[i - 1], spec.right)
    <3>1. row[N][k] = Meeting(Len(people), matches, k, left, right) /\ k \in DOMAIN row[N]
      BY <1>4 DEF MeetingAt
    <3> HIDE DEF k, left, right
    <3>2. row[N][k].first = left /\ row[N][k].second = right
      BY <3>1 DEF Meeting
    <3>3. /\ k \in DOMAIN stored <=> left # None /\ (right # None \/ IsBye(Len(people), k))
          /\ k \in DOMAIN stored => stored[k] = row[N][k]
      BY <1>2, <3>1, <3>2 DEF Known, Restrict
    <3>4. Meeting(Len(people), stored, k, left, right)
            = Meeting(Len(people), matches, k, left, right)
      BY <3>1, <3>3, MeetingAgain
    <3>5. QED BY <3>4, <2>1 DEF MeetingAt, k, left, right
  <2>3. QED BY <1>3, <2>1, <2>2
<1>7. \A i \in 0..N : i \in Claim
  <2>1. Claim \in SUBSET Nat /\ N \in Nat
    BY DEF N
  <2> HIDE DEF Claim
  <2>2. QED BY <2>1, <1>5, <1>6, UpTo
<1>8. N \in 0..N
  BY DEF N
<1>9. QED BY <1>1, <1>7, <1>8 DEF stored

\* Storing the matches again changes none of them (_materialize).
THEOREM StoringAgainChangesNothing ==
    ASSUME NEW people, NEW matches, Len(people) \in 0..MaxEntries
    PROVE  Materialize(people, Materialize(people, matches)) = Materialize(people, matches)
PROOF
<1> DEFINE slots == Trees[Len(people)].slots
<1>1. slots \in Seq(Nat \X Nat) /\ IsInjective(slots)
  BY TreesAssumption
<1> HIDE DEF slots
<1>2. Len(slots) \in Nat /\ DOMAIN slots = 1..Len(slots)
  BY <1>1
<1>3. Played(people, Materialize(people, matches)) = Played(people, matches)
  BY <1>1, <1>2, PlayedAgain DEF slots
<1>4. QED BY <1>3 DEF Materialize

\* A bracket without entries has no matches.
LEMMA NobodyMeets ==
    Materialize(<<>>, <<>>) = <<>>
PROOF
<1> DEFINE played == Played(<<>>, <<>>)
<1>1. Len(<<>>) = 0 /\ Trees[0].slots = <<>>
  BY TreesAssumption
<1>2. played = <<>>
  <2>1. played = Row(<<>>, <<>>, <<>>)[0]
    BY <1>1, PlayedInIsLast DEF Played
  <2>2. QED BY <2>1, <1>1, RowSteps
<1>3. Materialize(<<>>, <<>>) = Known(0, <<>>)
  BY <1>1, <1>2 DEF Materialize
<1>4. DOMAIN <<>> = {}
  OBVIOUS
<1>5. Known(0, <<>>) = [x \in {} |-> <<>>[x]]
  BY <1>4 DEF Known, Restrict
<1>6. QED BY <1>3, <1>5

-----------------------------------------------------------------------------
(* The shape of a tree: who can stand where.                               *)

\* The row has the slots that were drawn, and no others.
LEMMA RowHasItsSlots ==
    ASSUME NEW slots, NEW people, NEW matches,
           Len(slots) \in Nat, DOMAIN slots = 1..Len(slots)
    PROVE  \A i \in 0..Len(slots) :
             DOMAIN Row(slots, people, matches)[i] \subseteq Range(slots)
PROOF
<1> DEFINE row == Row(slots, people, matches)
           Claim == {i \in Nat : DOMAIN row[i] \subseteq Range(slots)}
<1>1. /\ row[0] = <<>>
      /\ \A i \in 1..Len(slots) :
           row[i] = Put(row[i - 1], slots[i], MeetingAt(people, matches, row[i - 1], slots[i]))
  BY RowSteps, WithSlotPuts
<1> HIDE DEF row
<1>2. 0 \in Claim
  BY <1>1
<1>3. ASSUME NEW i \in 1..Len(slots), i - 1 \in Claim PROVE i \in Claim
  <2>1. slots[i] \in Range(slots)
    BY DEF Range
  <2>2. DOMAIN row[i] = DOMAIN row[i - 1] \cup {slots[i]}
    BY <1>1 DEF Put
  <2>3. QED BY <2>1, <2>2, <1>3
<1>4. \A i \in 0..Len(slots) : i \in Claim
  <2>1. Claim \in SUBSET Nat
    OBVIOUS
  <2> HIDE DEF Claim
  <2>2. QED BY <2>1, <1>2, <1>3, UpTo
<1>5. QED BY <1>4 DEF row

\* The list of the slots of a tree.
LEMMA SlotsAre ==
    ASSUME NEW n \in 0..MaxEntries
    PROVE  LET slots == Trees[n].slots
           IN  /\ Len(slots) \in Nat /\ DOMAIN slots = 1..Len(slots) /\ IsInjective(slots)
               /\ Slots(n) = {slots[i] : i \in 1..Len(slots)}
               /\ \A k \in Slots(n) : k[1] \in Nat /\ k = <<k[1], k[2]>> /\ k # <<>>
PROOF
<1> DEFINE slots == Trees[n].slots
<1>1. slots \in Seq(Nat \X Nat) /\ IsInjective(slots)
  BY TreesAssumption
<1> HIDE DEF slots
<1>2. Len(slots) \in Nat /\ DOMAIN slots = 1..Len(slots)
  BY <1>1
<1>3. Slots(n) = {slots[i] : i \in 1..Len(slots)}
  BY <1>2 DEF Slots, Range, slots
<1>4. \A i \in 1..Len(slots) : slots[i] \in Nat \X Nat
  BY <1>1
<1>5. ASSUME NEW k \in Nat \X Nat PROVE k[1] \in Nat /\ k = <<k[1], k[2]>> /\ k # <<>>
  OBVIOUS
<1>6. QED BY <1>1, <1>2, <1>3, <1>4, <1>5 DEF slots

\* Every slot of the tree holds what its sources say.
LEMMA PlayedHolds ==
    ASSUME NEW people, NEW matches, Len(people) \in 0..MaxEntries
    PROVE  LET played == Played(people, matches)
           IN  /\ DOMAIN played = Slots(Len(people))
               /\ \A k \in Slots(Len(people)) :
                    played[k] = MeetingAt(people, matches, played, k)
PROOF
<1> DEFINE n == Len(people)
           slots == Trees[n].slots
           row == Row(slots, people, matches)
           N == Len(slots)
           played == Played(people, matches)
<1>1. /\ N \in Nat /\ DOMAIN slots = 1..N /\ IsInjective(slots)
      /\ Slots(n) = {slots[i] : i \in 1..N} /\ Range(slots) = Slots(n)
  BY SlotsAre DEF Slots
<1>2. played = row[N]
  BY PlayedInIsLast DEF Played
<1>3. \A i \in 0..N : \A j \in 1..i :
        slots[j] \in DOMAIN row[i] /\ row[i][slots[j]] = MeetingAt(people, matches, row[j - 1], slots[j])
  BY <1>1, RowHolds
<1>4. DOMAIN row[N] \subseteq Slots(n)
  BY <1>1, RowHasItsSlots
<1>5. SourcesComeBefore(n)
  BY ShapeAssumption
<1> HIDE DEF row, N, played, slots
<1>6. N \in 0..N
  BY <1>1
<1>7. ASSUME NEW i \in 1..N
      PROVE  slots[i] \in DOMAIN played /\ played[slots[i]] = MeetingAt(people, matches, played, slots[i])
  <2> DEFINE k == slots[i]
             spec == Trees[n].rounds[k[1]][k[2]]
  <2>1. ASSUME NEW s, s \in {spec.left, spec.right}
        PROVE  Source(people, row[i - 1], s) = Source(people, played, s)
    <3>1. CASE s = <<>> \/ s[1] = "player"
      BY <3>1 DEF Source
    <3>2. CASE s # <<>> /\ s[1] # "player"
      <4>1. s \in Sources(n, slots[i]) /\ i \in DOMAIN slots
        BY <2>1, <3>2, <1>1 DEF Sources
      <4>2. PICK j \in 1..(i - 1) : slots[j] = <<s[2], s[3]>>
        BY <4>1, <3>2, <1>5 DEF SourcesComeBefore, slots
      <4>3. i - 1 \in 0..N /\ j \in 1..(i - 1) /\ j \in 1..N
        BY <1>1
      <4>4. row[i - 1][slots[j]] = row[N][slots[j]]
        BY <4>3, <1>3, <1>6
      <4>5. QED BY <4>2, <4>4, <1>2, <3>2 DEF Source
    <3>3. QED BY <3>1, <3>2
  <2>2. MeetingAt(people, matches, row[i - 1], k) = MeetingAt(people, matches, played, k)
    BY <2>1 DEF MeetingAt, n
  <2>3. QED BY <2>2, <1>2, <1>3, <1>6
<1>8. QED BY <1>1, <1>2, <1>4, <1>7 DEF played, n

\* Who stands somewhere is one of the entries that may come there.
Among(people, S, who) == who = None \/ \E j \in S : j \in 1..Len(people) /\ who = people[j]

LEMMA WinnerIsOneOfThem ==
    ASSUME NEW n, NEW matches, NEW k, NEW left, NEW right
    PROVE  LET meeting == Meeting(n, matches, k, left, right)
           IN  /\ meeting.first = left /\ meeting.second = right
               /\ meeting.winner \in {None, left, right}
               /\ ~IsBye(n, k) /\ meeting.winner # None => None \notin {left, right}
PROOF
<1>1. CASE IsBye(n, k)
  BY <1>1 DEF Meeting
<1>2. CASE ~IsBye(n, k) /\ Same(matches, k, left, right)
  BY <1>2 DEF Meeting, Same
<1>3. CASE ~IsBye(n, k) /\ ~Same(matches, k, left, right)
  BY <1>3 DEF Meeting
<1>4. QED BY <1>1, <1>2, <1>3

\* The two sides of a slot: one of its sources each, or nobody.
LEMMA SidesOf ==
    ASSUME NEW people, NEW matches, Len(people) \in 0..MaxEntries,
           NEW k \in Slots(Len(people))
    PROVE  LET played == Played(people, matches)
               Side(who) == \/ who = None
                            \/ \E s \in Sources(Len(people), k) : who = Source(people, played, s)
           IN  /\ Side(played[k].first) /\ Side(played[k].second)
               /\ played[k].winner \in {None, played[k].first, played[k].second}
               /\ IsBye(Len(people), k) => played[k].second = None
               /\ ~IsBye(Len(people), k) /\ played[k].winner # None
                    => None \notin {played[k].first, played[k].second}
PROOF
<1> DEFINE n == Len(people)
           played == Played(people, matches)
           spec == Trees[n].rounds[k[1]][k[2]]
           left == Source(people, played, spec.left)
           right == Source(people, played, spec.right)
<1>1. played[k] = Meeting(n, matches, k, left, right)
  BY PlayedHolds DEF MeetingAt
<1>2. Sources(n, k) = {spec.left, spec.right} \ {<<>>}
  BY DEF Sources
<1>3. Source(people, played, <<>>) = None
  BY DEF Source
<1>4. IsBye(n, k) => right = None
  BY <1>3 DEF IsBye
<1> HIDE DEF played, n, spec
<1>5. /\ left = None \/ \E s \in Sources(n, k) : left = Source(people, played, s)
      /\ right = None \/ \E s \in Sources(n, k) : right = Source(people, played, s)
  BY <1>2, <1>3
<1> HIDE DEF left, right
<1>6. QED BY <1>1, <1>4, <1>5, WinnerIsOneOfThem DEF played, n

\* What comes from a source, if the winners of earlier matches are such.
LEMMA SourceIsAmong ==
    ASSUME NEW people, NEW n, n = Len(people), n \in 0..MaxEntries,
           NEW played, NEW s,
           \/ s # <<>> /\ s[1] = "player" /\ s[2] \in 1..n
           \/ /\ s # <<>> /\ s[1] = "winner"
              /\ Among(people, Trees[n].below[<<s[2], s[3]>>], played[<<s[2], s[3]>>].winner)
    PROVE  Among(people, May(n, s), Source(people, played, s))
PROOF
<1>1. CASE s # <<>> /\ s[1] = "player" /\ s[2] \in 1..n
  <2>1. Source(people, played, s) = people[s[2]] /\ May(n, s) = {s[2]}
    BY <1>1 DEF Source, May
  <2>2. QED BY <2>1, <1>1 DEF Among
<1>2. CASE /\ s # <<>> /\ s[1] = "winner"
           /\ Among(people, Trees[n].below[<<s[2], s[3]>>], played[<<s[2], s[3]>>].winner)
  <2>1. /\ Source(people, played, s) = played[<<s[2], s[3]>>].winner
        /\ May(n, s) = Trees[n].below[<<s[2], s[3]>>]
    BY <1>2 DEF Source, May
  <2>2. QED BY <2>1, <1>2
<1>3. QED BY <1>1, <1>2

LEMMA StandsWhereItMay ==
    ASSUME NEW people, NEW matches, Len(people) \in 0..MaxEntries
    PROVE  LET n == Len(people)
               played == Played(people, matches)
           IN  \A k \in Slots(n) :
                 /\ Among(people, Trees[n].below[k], played[k].winner)
                 /\ Among(people, Trees[n].below[k], played[k].first)
                 /\ Among(people, Trees[n].below[k], played[k].second)
                 /\ \A s \in Sources(n, k) : Among(people, May(n, s), Source(people, played, s))
PROOF
<1> DEFINE n == Len(people)
           slots == Trees[n].slots
           N == Len(slots)
           played == Played(people, matches)
           below == Trees[n].below
           Stands(k) ==
             /\ Among(people, below[k], played[k].winner)
             /\ Among(people, below[k], played[k].first)
             /\ Among(people, below[k], played[k].second)
             /\ \A s \in Sources(n, k) : Among(people, May(n, s), Source(people, played, s))
           Bad == {i \in 1..N : ~Stands(slots[i])}
<1>1. N \in Nat /\ DOMAIN slots = 1..N /\ Slots(n) = {slots[i] : i \in 1..N}
  BY SlotsAre
<1>2. SourcesComeBefore(n) /\ BelowAreTheSources(n)
  BY ShapeAssumption
<1>3. ASSUME NEW i \in 1..N, \A j \in 1..(i - 1) : Stands(slots[j])
      PROVE  Stands(slots[i])
  <2> DEFINE k == slots[i]
  <2>1. k \in Slots(n)
    BY <1>1
  <2>2. ASSUME NEW s \in Sources(n, k)
        PROVE  Among(people, May(n, s), Source(people, played, s))
    <3>1. s # <<>> /\ i \in DOMAIN slots
      BY <1>1 DEF Sources
    <3>2. CASE s[1] = "player" /\ s[2] \in 1..n
      BY <3>1, <3>2, SourceIsAmong
    <3>3. CASE s[1] = "winner" /\ \E j \in 1..(i - 1) : slots[j] = <<s[2], s[3]>>
      <4>1. PICK j \in 1..(i - 1) : slots[j] = <<s[2], s[3]>>
        BY <3>3
      <4>2. Stands(slots[j])
        BY <1>3
      <4>3. Among(people, below[<<s[2], s[3]>>], played[<<s[2], s[3]>>].winner)
        BY <4>1, <4>2
      <4> HIDE DEF played, Stands
      <4>4. QED BY <4>3, <3>1, <3>3, SourceIsAmong
    <3>4. QED BY <1>2, <3>1, <3>2, <3>3 DEF SourcesComeBefore
  <2>3. below[k] = UNION {May(n, s) : s \in Sources(n, k)}
    BY <1>2, <2>1 DEF BelowAreTheSources
  <2> HIDE DEF k, played, below
  <2>4. ASSUME NEW s \in Sources(n, k)
        PROVE  Among(people, below[k], Source(people, played, s))
    <3>1. May(n, s) \subseteq below[k]
      BY <2>3
    <3>2. QED BY <2>2, <3>1 DEF Among
  <2>5. Among(people, below[k], None)
    BY DEF Among
  <2>6. /\ played[k].first = None
           \/ \E s \in Sources(n, k) : played[k].first = Source(people, played, s)
        /\ played[k].second = None
           \/ \E s \in Sources(n, k) : played[k].second = Source(people, played, s)
        /\ played[k].winner \in {None, played[k].first, played[k].second}
    BY <2>1, SidesOf DEF played, n
  <2>7. QED BY <2>2, <2>4, <2>5, <2>6 DEF k
<1> HIDE DEF Stands
<1>4. Bad = {}
  <2> SUFFICES ASSUME Bad # {} PROVE FALSE
    OBVIOUS
  <2>1. PICK i \in Bad : \A j \in Bad : i <= j
    <3>1. Bad \in SUBSET Nat
      BY <1>1
    <3> HIDE DEF Bad
    <3>2. QED BY <3>1, LeastNumber
  <2>2. ASSUME NEW j \in 1..(i - 1) PROVE Stands(slots[j])
    <3>1. j \in 1..N /\ ~(i <= j)
      BY <1>1, <2>1
    <3>2. QED BY <3>1, <2>1
  <2>3. QED BY <2>1, <2>2, <1>3
<1>5. QED BY <1>1, <1>4 DEF Stands

\* The stored matches are slots of the tree that have somebody to play.
LEMMA StoredIs ==
    ASSUME NEW people, NEW matches, Len(people) \in 0..MaxEntries
    PROVE  LET n == Len(people)
               played == Played(people, matches)
               stored == Materialize(people, matches)
           IN  /\ \A k : k \in DOMAIN stored <=>
                    /\ k \in Slots(n) /\ played[k].first # None
                    /\ played[k].second # None \/ IsBye(n, k)
               /\ \A k \in DOMAIN stored : stored[k] = played[k]
PROOF
<1>1. DOMAIN Played(people, matches) = Slots(Len(people))
  BY PlayedHolds
<1>2. QED BY <1>1 DEF Materialize, Known, Restrict

\* Nobody waits twice (_sources), if nobody is entered twice.
LEMMA NobodyWaitsTwice ==
    ASSUME NEW people, NEW matches, Len(people) \in 0..MaxEntries, IsInjective(people),
           DOMAIN people = 1..Len(people)
    PROVE  LET stored == Materialize(people, matches)
           IN  \A k, l \in DOMAIN stored :
                 /\ stored[k].first = stored[l].first
                 /\ stored[k].second = None /\ stored[l].second = None
                 => k = l
PROOF
<1> DEFINE n == Len(people)
           played == Played(people, matches)
           stored == Materialize(people, matches)
           below == Trees[n].below
<1> SUFFICES ASSUME NEW k \in DOMAIN stored, NEW l \in DOMAIN stored,
                    stored[k].first = stored[l].first,
                    stored[k].second = None, stored[l].second = None, k # l
             PROVE  FALSE
  OBVIOUS
<1>1. /\ k \in Slots(n) /\ IsBye(n, k) /\ played[k].first # None
      /\ l \in Slots(n) /\ IsBye(n, l) /\ played[l].first # None
      /\ played[k].first = played[l].first
  BY StoredIs
<1>2. below[k] \cap below[l] = {}
  BY <1>1, ShapeAssumption DEF ByesApart
<1>3. Among(people, below[k], played[k].first) /\ Among(people, below[l], played[l].first)
  BY <1>1, StandsWhereItMay
<1> HIDE DEF played, stored, below
<1>4. PICK i \in below[k] : i \in 1..n /\ played[k].first = people[i]
  BY <1>1, <1>3 DEF Among
<1>5. PICK j \in below[l] : j \in 1..n /\ played[l].first = people[j]
  BY <1>1, <1>3 DEF Among
<1>6. i = j
  BY <1>1, <1>4, <1>5 DEF IsInjective
<1>7. QED BY <1>2, <1>4, <1>5, <1>6

-----------------------------------------------------------------------------
(* Changing the result of one match.                                       *)

\* Slots that follow k by way of its winner are byes or the next match of k, and
\* where that one has no winner, nothing else changes with the result of k.
LEMMA OthersStand ==
    ASSUME NEW people, NEW m, NEW k, NEW changed, Len(people) \in 0..MaxEntries,
           m = Materialize(people, m), k \in DOMAIN m, m[k].second # None,
           ~LaterResult(people, m, k),
           DOMAIN changed = DOMAIN m, \A l \in DOMAIN m : l # k => changed[l] = m[l]
    PROVE  LET m2 == Materialize(people, changed)
           IN  \A l \in Decided(m) : l # k => l \in DOMAIN m2 /\ m2[l] = m[l]
PROOF
<1> DEFINE n == Len(people)
           slots == Trees[n].slots
           N == Len(slots)
           P == Played(people, m)
           Q == Played(people, changed)
           next == Trees[n].next[k]
           Stands(l) ==
             \/ Q[l] = P[l]
             \/ l = k
             \/ IsBye(n, l)
             \/ l = next /\ P[l].winner = None /\ Q[l].winner = None
           Bad == {i \in 1..N : ~Stands(slots[i])}
<1>1. /\ N \in Nat /\ DOMAIN slots = 1..N /\ Slots(n) = {slots[i] : i \in 1..N}
      /\ \A l \in Slots(n) : l # <<>>
  BY SlotsAre
<1>2. SourcesComeBefore(n) /\ NextIsTheNextMatch(n)
  BY ShapeAssumption
<1>3. DOMAIN changed = DOMAIN m /\ \A l \in DOMAIN m : l # k => changed[l] = m[l]
  OBVIOUS
<1>4. /\ \A l : l \in DOMAIN m <=> /\ l \in Slots(n) /\ P[l].first # None
                                   /\ P[l].second # None \/ IsBye(n, l)
      /\ \A l \in DOMAIN m : m[l] = P[l]
  BY StoredIs
<1>5. next # <<>> => P[next].winner = None
  BY DEF LaterResult
<1>6. k \in Matches(n)
  BY <1>4, SidesOf DEF Matches
<1>7. ASSUME NEW l \in Slots(n)
      PROVE  P[l] = MeetingAt(people, m, P, l) /\ Q[l] = MeetingAt(people, changed, Q, l)
  BY PlayedHolds
<1> HIDE DEF P, Q, next
<1>8. ASSUME NEW i \in 1..N, \A j \in 1..(i - 1) : Stands(slots[j])
      PROVE  Stands(slots[i])
  <2> DEFINE l == slots[i]
             spec == Trees[n].rounds[l[1]][l[2]]
  <2> SUFFICES ASSUME l # k, ~IsBye(n, l) PROVE Stands(l)
    OBVIOUS
  <2>1. l \in Slots(n) /\ l \in Matches(n)
    BY <1>1 DEF Matches
  <2>2. ASSUME NEW s \in Sources(n, l), ~IsWinnerOf(s, k)
        PROVE  Source(people, Q, s) = Source(people, P, s)
    <3>1. s # <<>> /\ i \in DOMAIN slots
      BY <1>1 DEF Sources
    <3>2. CASE s[1] = "player" /\ s[2] \in 1..n
      BY <3>1, <3>2 DEF Source
    <3>3. CASE /\ s[1] = "winner"
               /\ \E j \in 1..(i - 1) : /\ slots[j] = <<s[2], s[3]>>
                                        /\ <<s[2], s[3]>> \in Matches(n)
      <4>1. PICK j \in 1..(i - 1) : slots[j] = <<s[2], s[3]>> /\ slots[j] \in Matches(n)
        BY <3>3
      <4>2. slots[j] # k /\ ~IsBye(n, slots[j])
        BY <4>1, <3>3, <2>2 DEF IsWinnerOf, Matches
      <4>3. Q[slots[j]].winner = P[slots[j]].winner
        BY <4>2, <1>8
      <4>4. QED BY <4>1, <4>3, <3>1, <3>3 DEF Source
    <3>4. QED BY <1>2, <3>1, <3>2, <3>3 DEF SourcesComeBefore
  <2>3. CASE \E s \in Sources(n, l) : IsWinnerOf(s, k)
    <3>1. next = l
      BY <2>1, <2>3, <1>2, <1>6 DEF NextIsTheNextMatch, next
    <3>2. P[l].winner = None
      BY <3>1, <2>1, <1>1, <1>5
    <3>3. PICK left, right : Q[l] = Meeting(n, changed, l, left, right)
      BY <2>1, <1>7 DEF MeetingAt
    <3>4. ~Same(changed, l, left, right)
      BY <3>2, <1>3, <1>4 DEF Same
    <3>5. Q[l].winner = None
      BY <3>3, <3>4 DEF Meeting
    <3>6. QED BY <3>1, <3>2, <3>5
  <2>4. CASE \A s \in Sources(n, l) : ~IsWinnerOf(s, k)
    <3>1. ASSUME NEW s, s \in {spec.left, spec.right}
          PROVE  Source(people, Q, s) = Source(people, P, s)
      <4>1. CASE s = <<>>
        BY <4>1 DEF Source
      <4>2. CASE s # <<>>
        BY <4>2, <3>1, <2>2, <2>4 DEF Sources
      <4>3. QED BY <4>1, <4>2
    <3> DEFINE left == Source(people, P, spec.left)
               right == Source(people, P, spec.right)
    <3>2. /\ P[l] = Meeting(n, m, l, left, right)
          /\ Q[l] = Meeting(n, changed, l, left, right)
      BY <3>1, <2>1, <1>7 DEF MeetingAt
    <3> HIDE DEF left, right, l
    <3>3. l \in DOMAIN changed <=> l \in DOMAIN m
      BY <1>3
    <3>4. l \in DOMAIN m => changed[l] = m[l]
      BY <1>3
    <3>5. Meeting(n, changed, l, left, right) = Meeting(n, m, l, left, right)
      BY <3>3, <3>4 DEF Meeting, Same
    <3>6. QED BY <3>2, <3>5
  <2>5. QED BY <2>3, <2>4
<1> HIDE DEF Stands
<1>9. Bad = {}
  <2> SUFFICES ASSUME Bad # {} PROVE FALSE
    OBVIOUS
  <2>1. PICK i \in Bad : \A j \in Bad : i <= j
    <3>1. Bad \in SUBSET Nat
      BY <1>1
    <3> HIDE DEF Bad
    <3>2. QED BY <3>1, LeastNumber
  <2>2. ASSUME NEW j \in 1..(i - 1) PROVE Stands(slots[j])
    <3>1. j \in 1..N /\ ~(i <= j)
      BY <1>1, <2>1
    <3>2. QED BY <3>1, <2>1
  <2>3. QED BY <2>1, <2>2, <1>8
<1>10. ASSUME NEW l \in Decided(m), l # k
       PROVE  LET m2 == Materialize(people, changed) IN l \in DOMAIN m2 /\ m2[l] = m[l]
  <2>1. /\ l \in DOMAIN m /\ m[l] = P[l] /\ l \in Slots(n)
        /\ P[l].first # None /\ P[l].second # None /\ P[l].winner # None
    BY <1>4 DEF Decided
  <2>2. ~IsBye(n, l)
    BY <2>1, SidesOf DEF P
  <2>3. Stands(l)
    BY <2>1, <1>1, <1>9
  <2>4. Q[l] = P[l]
    BY <2>1, <2>2, <2>3, <1>10 DEF Stands
  <2>5. QED BY <2>1, <2>4, StoredIs DEF Q
<1>11. QED BY <1>10

\* Who has won a match and plays no decided match next, plays no decided match at all.
LEMMA NothingRestsOn ==
    ASSUME NEW people, NEW m, NEW k \in Decided(m), Len(people) \in 0..MaxEntries,
           IsInjective(people), DOMAIN people = 1..Len(people),
           m = Materialize(people, m), ~LaterResult(people, m, k)
    PROVE  \A later \in Decided(m) :
             later[1] > k[1] => m[k].winner \notin {m[later].first, m[later].second}
PROOF
<1> DEFINE n == Len(people)
           slots == Trees[n].slots
           N == Len(slots)
           P == Played(people, m)
           below == Trees[n].below
           w == m[k].winner
           Rests(l) == l \in Decided(m) /\ l[1] > k[1] /\ w \in {m[l].first, m[l].second}
           Bad == {i \in 1..N : Rests(slots[i])}
<1>1. /\ N \in Nat /\ DOMAIN slots = 1..N /\ Slots(n) = {slots[i] : i \in 1..N}
      /\ \A l \in Slots(n) : l # <<>> /\ l[1] \in Nat
  BY SlotsAre
<1>2. SourcesComeBefore(n) /\ NextIsTheNextMatch(n) /\ NobodyPassesBy(n)
  BY ShapeAssumption
<1>3. /\ \A l : l \in DOMAIN m <=> /\ l \in Slots(n) /\ P[l].first # None
                                   /\ P[l].second # None \/ IsBye(n, l)
      /\ \A l \in DOMAIN m : m[l] = P[l]
  BY StoredIs
<1>4. Trees[n].next[k] # <<>> => P[Trees[n].next[k]].winner = None
  BY DEF LaterResult
<1>5. ASSUME NEW l \in Decided(m)
      PROVE  /\ l \in Matches(n) /\ l \in Slots(n) /\ m[l] = P[l] /\ P[l].winner # None
             /\ P[l].first # None /\ P[l].second # None
  BY <1>3, SidesOf DEF Decided, Matches
<1>6. w # None /\ P[k].winner = w
  BY <1>5
<1>7. PICK i \in below[k] : i \in 1..n /\ w = people[i]
  <2>1. Among(people, below[k], P[k].winner)
    BY <1>5, StandsWhereItMay
  <2>2. QED BY <2>1, <1>6 DEF Among
<1> HIDE DEF P, w
<1>8. ASSUME NEW g \in 1..N, Rests(slots[g])
      PROVE  \E j \in 1..(g - 1) : Rests(slots[j])
  <2> DEFINE l == slots[g]
  <2>1. /\ l \in Matches(n) /\ l \in Slots(n) /\ m[l] = P[l] /\ P[l].winner # None
        /\ l[1] > k[1] /\ w \in {P[l].first, P[l].second}
    BY <1>5, <1>8
  <2> HIDE DEF l
  <2>2. PICK s \in Sources(n, l) : w = Source(people, P, s)
    <3>1. \A x \in {P[l].first, P[l].second} :
            x = None \/ \E s \in Sources(n, l) : x = Source(people, P, s)
      BY <2>1, SidesOf DEF P
    <3>2. QED BY <3>1, <2>1, <1>6
  <2>3. PICK j \in May(n, s) : j \in 1..n /\ w = people[j]
    <3>1. Among(people, May(n, s), Source(people, P, s))
      BY <2>1, StandsWhereItMay DEF P
    <3>2. QED BY <3>1, <2>2, <1>6 DEF Among
  <2>4. j = i
    BY <2>3, <1>7 DEF IsInjective
  <2>5. IsWinnerOf(s, k) \/ (s[1] = "winner" /\ s[2] > k[1])
    <3>1. \/ IsWinnerOf(s, k)
          \/ s[1] = "winner" /\ s[2] > k[1]
          \/ May(n, s) \cap below[k] = {}
      BY <2>1, <1>2, <1>5 DEF NobodyPassesBy
    <3>2. QED BY <3>1, <2>3, <2>4, <1>7
  <2>6. ~IsWinnerOf(s, k)
    <3>1. IsWinnerOf(s, k) => Trees[n].next[k] = l
      BY <2>1, <1>2, <1>5 DEF NextIsTheNextMatch
    <3>2. QED BY <3>1, <2>1, <1>1, <1>4
  <2>7. s # <<>> /\ s[1] = "winner" /\ s[2] > k[1]
    BY <2>5, <2>6 DEF Sources
  <2>8. PICK h \in 1..(g - 1) : slots[h] = <<s[2], s[3]>> /\ slots[h] \in Matches(n)
    <3>1. g \in DOMAIN slots /\ s \in Sources(n, slots[g])
      BY <1>1 DEF l
    <3>2. QED BY <3>1, <2>7, <1>2 DEF SourcesComeBefore
  <2> DEFINE a == slots[h]
  <2>9. a \in Matches(n) /\ a \in Slots(n) /\ ~IsBye(n, a) /\ a[1] > k[1]
    BY <2>7, <2>8 DEF Matches
  <2>10. P[a].winner = w
    BY <2>2, <2>7, <2>8 DEF Source
  <2> HIDE DEF a
  <2>11. /\ w \in {P[a].first, P[a].second} /\ None \notin {P[a].first, P[a].second}
    BY <2>9, <2>10, <1>6, SidesOf DEF P
  <2>12. a \in DOMAIN m /\ m[a] = P[a]
    BY <2>9, <2>11, <1>3
  <2>13. Rests(a)
    BY <2>9, <2>10, <2>11, <2>12, <1>6 DEF Decided
  <2>14. QED BY <2>13 DEF a
<1> HIDE DEF Rests
<1>9. Bad = {}
  <2> SUFFICES ASSUME Bad # {} PROVE FALSE
    OBVIOUS
  <2>1. PICK g \in Bad : \A j \in Bad : g <= j
    <3>1. Bad \in SUBSET Nat
      BY <1>1
    <3> HIDE DEF Bad
    <3>2. QED BY <3>1, LeastNumber
  <2>2. PICK j \in 1..(g - 1) : Rests(slots[j])
    BY <2>1, <1>8
  <2>3. j \in 1..N /\ ~(g <= j)
    BY <1>1, <2>1
  <2>4. QED BY <2>1, <2>2, <2>3
<1>10. QED BY <1>1, <1>5, <1>9 DEF Rests, w

\* KeepsResults, for the matches of one bracket before and after a step.
Lost(old, new) == {k \in Decided(old) : ~(k \in DOMAIN new /\ new[k] = old[k])}
Keeps(old, new) ==
    /\ Cardinality(Lost(old, new)) <= 1
    /\ \A k \in Lost(old, new), later \in Decided(old) :
         later[1] > k[1] => old[k].winner \notin {old[later].first, old[later].second}

LEMMA NothingToLose ==
    ASSUME NEW old, NEW new, new = old \/ Decided(old) = {}
    PROVE  Keeps(old, new)
PROOF
<1>1. Lost(old, new) = {}
  BY DEF Lost, Decided
<1>2. QED BY <1>1, FS_EmptySet DEF Keeps

\* Naming the winner of a match, or taking the result back, if no later one rests
\* on it (_match_result_locked).
LEMMA SettingKeeps ==
    ASSUME NEW people, NEW m, NEW k \in DOMAIN m, NEW who,
           Len(people) \in 0..MaxEntries, IsInjective(people),
           DOMAIN people = 1..Len(people), m = Materialize(people, m),
           m[k].second # None, who # m[k].winner => ~LaterResult(people, m, k)
    PROVE  Keeps(m, Materialize(people, [m EXCEPT ![k].winner = who]))
PROOF
<1> DEFINE changed == [m EXCEPT ![k].winner = who]
           new == Materialize(people, changed)
<1>1. CASE who = m[k].winner
  <2>1. m[k] = [first |-> m[k].first, second |-> m[k].second, winner |-> m[k].winner]
    <3>1. /\ m[k] = Played(people, m)[k] /\ k \in Slots(Len(people))
      BY StoredIs
    <3>2. Played(people, m)[k] = MeetingAt(people, m, Played(people, m), k)
      BY <3>1, PlayedHolds
    <3>3. QED BY <3>1, <3>2 DEF MeetingAt, Meeting
  <2>2. m = [l \in DOMAIN m |-> m[l]]
    BY DEF Materialize, Known, Restrict
  <2>3. changed = [l \in DOMAIN m |-> IF l = k THEN [m[k] EXCEPT !.winner = who] ELSE m[l]]
    BY <2>2
  <2>4. [m[k] EXCEPT !.winner = who] = m[k]
    BY <2>1, <1>1
  <2>5. changed = m
    BY <2>2, <2>3, <2>4
  <2>6. new = m
    BY <2>5
  <2>7. QED BY <2>6, NothingToLose
<1>2. CASE ~LaterResult(people, m, k)
  <2>1. \A l \in Decided(m) : l # k => l \in DOMAIN new /\ new[l] = m[l]
    <3>1. DOMAIN changed = DOMAIN m /\ \A l \in DOMAIN m : l # k => changed[l] = m[l]
      OBVIOUS
    <3> HIDE DEF changed
    <3>2. QED BY <3>1, <1>2, OthersStand
  <2> HIDE DEF new, changed
  <2>2. Lost(m, new) \subseteq {k} /\ Lost(m, new) \subseteq Decided(m)
    BY <2>1 DEF Lost
  <2>3. Cardinality(Lost(m, new)) <= 1
    <3>1. CASE Lost(m, new) = {}
      BY <3>1, FS_EmptySet
    <3>2. CASE Lost(m, new) = {k}
      <4>1. Cardinality({k}) = 1
        BY FS_Singleton
      <4>2. QED BY <4>1, <3>2
    <3>3. QED BY <3>1, <3>2, <2>2
  <2>4. k \in Decided(m) =>
          \A later \in Decided(m) :
            later[1] > k[1] => m[k].winner \notin {m[later].first, m[later].second}
    BY <1>2, NothingRestsOn
  <2>5. Keeps(m, new)
    BY <2>2, <2>3, <2>4 DEF Keeps
  <2>6. QED BY <2>5 DEF new, changed
<1>3. QED BY <1>1, <1>2

-----------------------------------------------------------------------------
(* Sets of two.                                                            *)

LEMMA TwoMakeAPair ==
    ASSUME NEW p, NEW q, p # q
    PROVE  Cardinality({p, q}) = 2
PROOF
<1>1. IsFiniteSet({p}) /\ Cardinality({p}) = 1
  BY FS_Singleton
<1>2. Cardinality({p} \cup {q}) = Cardinality({p}) + 1
  BY <1>1, FS_AddElement
<1>3. {p} \cup {q} = {p, q}
  OBVIOUS
<1>4. QED BY <1>1, <1>2, <1>3

\* Cardinality is the same operator in the instances.
LEMMA CountedAlike ==
    ASSUME NEW S
    PROVE  /\ D!Cardinality(S) = Cardinality(S)
           /\ B!Cardinality(S) = Cardinality(S)
           /\ C!Cardinality(S) = Cardinality(S)
PROOF
<1>1. D!Cardinality(S) = Cardinality(S)
  BY DEF D!Cardinality, Cardinality
<1>2. B!Cardinality(S) = Cardinality(S)
  BY DEF B!Cardinality, Cardinality
<1>3. C!Cardinality(S) = Cardinality(S)
  BY DEF C!Cardinality, Cardinality
<1>4. QED BY <1>1, <1>2, <1>3

LEMMA PairHasTwo ==
    ASSUME NEW x, IsFiniteSet(x), Cardinality(x) = 2
    PROVE  \E p, q \in x : p # q /\ x = {p, q}
PROOF
<1>1. PICK p \in x : TRUE
  BY FS_EmptySet
<1>2. IsFiniteSet(x \ {p}) /\ Cardinality(x \ {p}) = 1
  BY FS_RemoveElement
<1>3. PICK q : x \ {p} = {q}
  BY <1>2, FS_Singleton
<1>4. QED BY <1>1, <1>3

\* Pairs that have everybody, half as many as there are persons, are apart.
LEMMA PairingIsApart ==
    ASSUME NEW free, IsFiniteSet(free), NEW m,
           \A x \in m : x \subseteq free /\ Cardinality(x) = 2,
           UNION m = free, 2 * Cardinality(m) = Cardinality(free),
           NEW x \in m, NEW y \in m, x # y
    PROVE  x \cap y = {}
PROOF
<1> SUFFICES ASSUME NEW z \in x \cap y PROVE FALSE
  OBVIOUS
<1>1. IsFiniteSet(m) /\ Cardinality(m) \in Nat /\ Cardinality(free) \in Nat
  <2>1. m \in SUBSET SUBSET free /\ IsFiniteSet(SUBSET free)
    BY FS_SUBSET
  <2>2. IsFiniteSet(m)
    BY <2>1, FS_Subset
  <2>3. QED BY <2>2, FS_CardinalityType
<1> DEFINE first(u) == CHOOSE p \in u : TRUE
           second(u) == CHOOSE q \in u : q # first(u)
           side(u, i) == IF i = 1 THEN first(u) ELSE second(u)
<1>2. ASSUME NEW u \in m
      PROVE  first(u) \in u /\ second(u) \in u /\ u = {first(u), second(u)}
  <2>1. IsFiniteSet(u)
    <3>1. u \in SUBSET free
      OBVIOUS
    <3>2. QED BY <3>1, FS_Subset
  <2>2. PICK p \in u, q \in u : p # q /\ u = {p, q}
    BY <2>1, PairHasTwo
  <2>3. first(u) \in u
    BY <2>2
  <2> HIDE DEF first
  <2>4. second(u) \in u /\ second(u) # first(u)
    BY <2>2, <2>3
  <2> HIDE DEF second
  <2>5. QED BY <2>2, <2>3, <2>4
<1>3. PICK j \in {1, 2} : z = side(y, j)
  BY <1>2
<1>4. PICK i \in {1, 2} : z = side(x, i)
  BY <1>2
<1> DEFINE S == (m \X {1, 2}) \ {<<y, j>>}
           f == [s \in S |-> side(s[1], s[2])]
<1>5. IsFiniteSet(S) /\ Cardinality(S) = 2 * Cardinality(m) - 1
  <2> HIDE DEF first, second
  <2> DEFINE all == m \X {1, 2}
  <2>1. IsFiniteSet({1, 2}) /\ Cardinality({1, 2}) = 2
    <3>1. IsFiniteSet({1}) /\ {1} \cup {2} = {1, 2}
      BY FS_Singleton
    <3>2. IsFiniteSet({1} \cup {2})
      BY <3>1, FS_AddElement
    <3>3. 1 # 2
      OBVIOUS
    <3>4. Cardinality({1, 2}) = 2
      BY Zenon, <3>3, TwoMakeAPair
    <3>5. QED BY Zenon, <3>1, <3>2, <3>4
  <2>2. IsFiniteSet(all) /\ Cardinality(all) = Cardinality(m) * Cardinality({1, 2})
    BY Zenon, <2>1, <1>1, FS_Product
  <2>3. <<y, j>> \in all
    OBVIOUS
  <2> HIDE DEF all
  <2>4. IsFiniteSet(all \ {<<y, j>>}) /\ Cardinality(all \ {<<y, j>>}) = Cardinality(all) - 1
    BY <2>2, <2>3, FS_RemoveElement
  <2>5. QED BY <2>1, <2>2, <2>4, <1>1 DEF all
<1>6. f \in Surjection(S, free)
  <2> HIDE DEF first, second
  <2>1. ASSUME NEW s \in S PROVE f[s] \in free
    <3>1. s[1] \in m /\ s[2] \in {1, 2}
      OBVIOUS
    <3>2. QED BY <3>1, <1>2
  <2>2. ASSUME NEW w \in free PROVE \E s \in S : f[s] = w
    <3>1. PICK u \in m : w \in u
      OBVIOUS
    <3>2. PICK l \in {1, 2} : w = side(u, l)
      BY <3>1, <1>2
    <3>3. CASE <<u, l>> # <<y, j>>
      <4>1. <<u, l>> \in S
        BY <3>3
      <4>2. QED BY <4>1, <3>2
    <3>4. CASE <<u, l>> = <<y, j>>
      <4>1. w = z /\ <<x, i>> \in S
        BY <3>4, <3>2, <1>3
      <4>2. QED BY <4>1, <1>4
    <3>5. QED BY <3>3, <3>4
  <2> HIDE DEF S
  <2>3. f \in [S -> free]
    BY <2>1
  <2> HIDE DEF f
  <2>4. QED BY <2>2, <2>3 DEF Surjection
<1>7. Cardinality(free) <= Cardinality(S)
  <2> HIDE DEF f, S
  <2>1. QED BY <1>5, <1>6, FS_Surjection
<1>8. QED BY <1>1, <1>5, <1>7

-----------------------------------------------------------------------------
(* What agrees with the records, and how writing keeps it so.              *)

\* RecordsAre, key by key.
Agrees(rec, excused, due) ==
    /\ \A k \in DOMAIN due :
         k[1] \notin Guest /\ k \notin excused => k \in DOMAIN rec
    /\ \A k \in DOMAIN rec :
         rec[k] # Erased /\ k \notin excused
           => k \in DOMAIN due /\ k[1] \notin Guest /\ rec[k] \in {due[k], Typed}

\* The rows of keys get result, and no other row changes.
Written(rec, after, keys, result) ==
    /\ DOMAIN after = {k \in DOMAIN result : k[1] \notin Guest} \cup (DOMAIN rec \ keys)
    /\ \A k \in DOMAIN after :
         after[k] = IF k \in DOMAIN result /\ k[1] \notin Guest THEN result[k] ELSE rec[k]
Excused(before, keys, outdated) ==
    IF outdated THEN before \cup keys ELSE before \ keys

\* due is the same for all keys but these, and for these it is result.
Redone(due, after, keys) ==
    \A k : k \notin keys =>
        /\ k \in DOMAIN after <=> k \in DOMAIN due
        /\ k \in DOMAIN after => after[k] = due[k]
DueIs(after, keys, result) ==
    \A k \in keys :
        /\ k \in DOMAIN after <=> k \in DOMAIN result
        /\ k \in DOMAIN after => after[k] = result[k]

LEMMA WritingAgrees ==
    ASSUME NEW rec, NEW excused, NEW due, Agrees(rec, excused, due),
           NEW keys, NEW result, NEW outdated \in BOOLEAN, NEW rec2, NEW due2,
           Written(rec, rec2, keys, result), DOMAIN result \subseteq keys,
           Redone(due, due2, keys),
           ~outdated => DueIs(due2, keys, result)
    PROVE  Agrees(rec2, Excused(excused, keys, outdated), due2)
PROOF
<1> DEFINE excused2 == Excused(excused, keys, outdated)
<1>1. ASSUME NEW k \in DOMAIN due2, k[1] \notin Guest, k \notin excused2
      PROVE  k \in DOMAIN rec2
  <2>1. CASE k \in keys
    BY <1>1, <2>1 DEF Excused, DueIs, Written
  <2>2. CASE k \notin keys
    BY <1>1, <2>2 DEF Excused, Redone, Agrees, Written
  <2>3. QED BY <2>1, <2>2
<1>2. ASSUME NEW k \in DOMAIN rec2, rec2[k] # Erased, k \notin excused2
      PROVE  k \in DOMAIN due2 /\ k[1] \notin Guest /\ rec2[k] \in {due2[k], Typed}
  <2>1. CASE k \in keys
    BY <1>2, <2>1 DEF Excused, DueIs, Written
  <2>2. CASE k \notin keys
    <3>1. k \in DOMAIN rec /\ rec2[k] = rec[k] /\ k \notin excused
      BY <1>2, <2>2 DEF Excused, Written
    <3>2. QED BY <3>1, <1>2, <2>2 DEF Redone, Agrees
  <2>3. QED BY <2>1, <2>2
<1>3. QED BY <1>1, <1>2 DEF Agrees

\* What the owner makes of a row that is there leaves everything as it should be.
LEMMA OwnTextAgrees ==
    ASSUME NEW rec, NEW excused, NEW due, Agrees(rec, excused, due),
           NEW k \in DOMAIN rec, rec[k] # Erased, NEW text \in {Typed, Erased}, NEW rec2,
           DOMAIN rec2 = DOMAIN rec, rec2[k] = text,
           \A o \in DOMAIN rec : o # k => rec2[o] = rec[o]
    PROVE  Agrees(rec2, excused, due)
PROOF BY DEF Agrees

\* Where nothing is written and nothing else is due, everything agrees as before.
LEMMA SameAgrees ==
    ASSUME NEW rec, NEW excused, NEW due, Agrees(rec, excused, due), NEW due2,
           Redone(due, due2, {})
    PROVE  Agrees(rec, excused, due2)
PROOF BY DEF Agrees, Redone

\* Keys whose rows are removed are no longer due, and what else is no longer due
\* has no row.
LEMMA RemovingAgrees ==
    ASSUME NEW rec, NEW excused, NEW due, Agrees(rec, excused, due),
           NEW keys, NEW rec2, NEW due2, Written(rec, rec2, keys, <<>>),
           \A k \in DOMAIN due2 : k \in DOMAIN due /\ k \notin keys /\ due2[k] = due[k],
           \A k \in DOMAIN due : k \in DOMAIN due2 \/ k \in keys \/ k \notin DOMAIN rec
    PROVE  Agrees(rec2, Excused(excused, keys, FALSE), due2)
PROOF
<1>1. DOMAIN <<>> = {}
  OBVIOUS
<1>2. DOMAIN rec2 = DOMAIN rec \ keys /\ \A k \in DOMAIN rec2 : rec2[k] = rec[k]
  BY <1>1 DEF Written
<1>3. ASSUME NEW k \in DOMAIN due2, k[1] \notin Guest, k \notin Excused(excused, keys, FALSE)
      PROVE  k \in DOMAIN rec2
  BY <1>2, <1>3 DEF Agrees, Excused
<1>4. ASSUME NEW k \in DOMAIN rec2, rec2[k] # Erased, k \notin Excused(excused, keys, FALSE)
      PROVE  k \in DOMAIN due2 /\ k[1] \notin Guest /\ rec2[k] \in {due2[k], Typed}
  <2>1. k \in DOMAIN rec /\ k \notin keys /\ rec2[k] = rec[k] /\ k \notin excused
    BY <1>2, <1>4 DEF Excused
  <2>2. k \in DOMAIN due /\ k[1] \notin Guest /\ rec[k] \in {due[k], Typed}
    BY <2>1, <1>4 DEF Agrees
  <2>3. QED BY <2>1, <2>2
<1>5. QED BY <1>3, <1>4 DEF Agrees

-----------------------------------------------------------------------------
(* Duels.                                                                  *)

Apart(ps) ==
    /\ \A pair \in ps : Cardinality(pair) = 2
    /\ \A x, y \in ps : x # y => x \cap y = {}

\* D!Due, as it depends on the pairs.
DecidedOf(ps) == {pair \in DOMAIN ps : ps[pair] # None}
DuelDue(ps) ==
    [k \in (UNION DecidedOf(ps)) \X {NoScope} |->
        D!Outcome(ps[CHOOSE pair \in DecidedOf(ps) : k[1] \in pair], k[1])]

LEMMA DuelDueIs ==
    /\ D!Due = DuelDue(pairs)
    /\ RecordsAre(D!Due) <=> Agrees(record, late, DuelDue(pairs))
    /\ RecordsAre(D!Due)' <=> Agrees(record', late', DuelDue(pairs'))
PROOF
<1>1. D!Due = DuelDue(pairs)
  BY DEF D!Due, D!Whole, DuelDue, DecidedOf
<1>2. (D!Due)' = DuelDue(pairs')
  BY DEF D!Due, D!Whole, DuelDue, DecidedOf
<1>3. RecordsAre(D!Due) <=> Agrees(record, late, D!Due)
  BY DEF RecordsAre, WithMember, Restrict, Stored, Agrees
<1>4. RecordsAre(D!Due)' <=> Agrees(record', late', (D!Due)')
  BY DEF RecordsAre, WithMember, Restrict, Stored, Agrees
<1>5. QED BY <1>1, <1>2, <1>3, <1>4

\* The record of a side is that of its pair.
LEMMA DueOfSide ==
    ASSUME NEW ps, Apart(DOMAIN ps), NEW pair \in DecidedOf(ps), NEW k \in pair \X {NoScope}
    PROVE  k \in DOMAIN DuelDue(ps) /\ DuelDue(ps)[k] = D!Outcome(ps[pair], k[1])
PROOF
<1>1. k \in (UNION DecidedOf(ps)) \X {NoScope} /\ k[1] \in pair
  OBVIOUS
<1>2. ASSUME NEW o \in DecidedOf(ps), k[1] \in o PROVE o = pair
  BY <1>1, <1>2 DEF Apart, DecidedOf
<1>3. (CHOOSE o \in DecidedOf(ps) : k[1] \in o) = pair
  BY <1>1, <1>2
<1>4. QED BY <1>1, <1>3 DEF DuelDue

\* Pairs that are there with the same result give the same records.
LEMMA OtherPairsAsBefore ==
    ASSUME NEW ps, Apart(DOMAIN ps), NEW after, Apart(DOMAIN after), NEW changed,
           \A q : q \notin changed =>
               /\ q \in DecidedOf(after) <=> q \in DecidedOf(ps)
               /\ q \in DecidedOf(after) => after[q] = ps[q]
    PROVE  Redone(DuelDue(ps), DuelDue(after), (UNION changed) \X {NoScope})
PROOF
<1> SUFFICES ASSUME NEW k, k \notin (UNION changed) \X {NoScope}
             PROVE  /\ k \in DOMAIN DuelDue(after) <=> k \in DOMAIN DuelDue(ps)
                    /\ k \in DOMAIN DuelDue(after) => DuelDue(after)[k] = DuelDue(ps)[k]
  BY DEF Redone
<1>1. ASSUME NEW any, k \in DOMAIN DuelDue(any)
      PROVE  \E pair \in DecidedOf(any) : pair \notin changed /\ k \in pair \X {NoScope}
  <2>1. k \in (UNION DecidedOf(any)) \X {NoScope}
    BY <1>1 DEF DuelDue
  <2>2. PICK pair \in DecidedOf(any) : k \in pair \X {NoScope}
    BY <2>1
  <2>3. QED BY <2>2
<1>2. ASSUME k \in DOMAIN DuelDue(after)
      PROVE  k \in DOMAIN DuelDue(ps) /\ DuelDue(after)[k] = DuelDue(ps)[k]
  <2>1. PICK pair \in DecidedOf(after) : pair \notin changed /\ k \in pair \X {NoScope}
    BY <1>2, <1>1
  <2>2. pair \in DecidedOf(ps) /\ after[pair] = ps[pair]
    BY <2>1
  <2>3. QED BY <2>1, <2>2, DueOfSide
<1>3. ASSUME k \in DOMAIN DuelDue(ps) PROVE k \in DOMAIN DuelDue(after)
  <2>1. PICK pair \in DecidedOf(ps) : pair \notin changed /\ k \in pair \X {NoScope}
    BY <1>3, <1>1
  <2>2. QED BY <2>1, DueOfSide
<1>4. QED BY <1>2, <1>3

\* The records of a pair by its result.
SidesDue(pair, result) ==
    IF result = None THEN <<>>
    ELSE [k \in pair \X {NoScope} |-> D!Outcome(result, k[1])]

\* What has become of a pair is what its sides get.
LEMMA SidesGetTheResult ==
    ASSUME NEW ps, Apart(DOMAIN ps), NEW pair, NEW result,
           \/ pair \in DOMAIN ps /\ ps[pair] = result
           \/ result = None /\ \A q \in DOMAIN ps : q \cap pair = {}
    PROVE  DueIs(DuelDue(ps), pair \X {NoScope}, SidesDue(pair, result))
PROOF
<1>1. CASE result # None
  <2>1. pair \in DecidedOf(ps)
    BY <1>1 DEF DecidedOf
  <2>2. QED BY <1>1, <2>1, DueOfSide DEF DueIs, SidesDue
<1>2. CASE result = None
  <2>1. DOMAIN <<>> = {}
    OBVIOUS
  <2>2. ASSUME NEW k \in pair \X {NoScope}, k \in DOMAIN DuelDue(ps) PROVE FALSE
    <3>1. PICK q \in DecidedOf(ps) : k[1] \in q
      BY <2>2 DEF DuelDue
    <3>2. k[1] \in pair
      OBVIOUS
    <3>3. QED BY <3>1, <3>2, <1>2 DEF DecidedOf, Apart
  <2>3. QED BY <1>2, <2>1, <2>2 DEF DueIs, SidesDue
<1>3. QED BY <1>1, <1>2

LEMMA PairedTwiceIs ==
    /\ NobodyPairedTwice <=> Apart(DOMAIN pairs)
    /\ NobodyPairedTwice' <=> Apart(DOMAIN pairs')
PROOF BY DEF NobodyPairedTwice, Apart

\* New pairs, without a result, beside those there are.
Started(ps, new, after) ==
    /\ DOMAIN after = new \cup DOMAIN ps
    /\ \A q \in new : after[q] = None
    /\ \A q \in DOMAIN ps \ new : after[q] = ps[q]

LEMMA StartingKeepsResults ==
    ASSUME NEW ps, Apart(DOMAIN ps), NEW new, Apart(new), NEW after, Started(ps, new, after),
           \A x \in new, y \in DOMAIN ps : x \cap y = {}
    PROVE  /\ Apart(DOMAIN after)
           /\ DecidedOf(after) = DecidedOf(ps)
           /\ \A q \in DecidedOf(ps) : after[q] = ps[q]
PROOF
<1>1. ASSUME NEW x \in new, NEW y \in DOMAIN ps PROVE x # y
  <2>1. Cardinality(x) = 2 /\ Cardinality({}) = 0
    BY FS_EmptySet DEF Apart
  <2>2. x \cap x = x /\ x \cap y = {}
    OBVIOUS
  <2>3. QED BY <2>1, <2>2
<1>2. Apart(DOMAIN after)
  BY DEF Apart, Started
<1>3. QED BY <1>1, <1>2 DEF Started, DecidedOf

\* One pair of persons who are in none.
LEMMA OnePairStarts ==
    ASSUME NEW ps, NEW p, NEW q, p # q, \A y \in DOMAIN ps : {p, q} \cap y = {}
    PROVE  Apart({{p, q}}) /\ \A x \in {{p, q}}, y \in DOMAIN ps : x \cap y = {}
PROOF BY TwoMakeAPair DEF Apart

\* All of free, who are in none.
LEMMA PairingStarts ==
    ASSUME NEW ps, NEW free, IsFiniteSet(free), \A y \in DOMAIN ps : free \cap y = {},
           NEW new, \A x \in new : x \subseteq free /\ Cardinality(x) = 2,
           UNION new = free, 2 * Cardinality(new) = Cardinality(free)
    PROVE  Apart(new) /\ \A x \in new, y \in DOMAIN ps : x \cap y = {}
PROOF
<1>1. ASSUME NEW x \in new, NEW y \in new, x # y PROVE x \cap y = {}
  BY <1>1, PairingIsApart
<1>2. QED BY <1>1 DEF Apart

DuelInv == NobodyPairedTwice /\ RecordsAre(D!Due)

\* Handlers that write records rewrite those of a pair by its result.
LEMMA DuelRecords ==
    ASSUME NEW pair, NEW result, D!Records(pair, result)
    PROVE  LET due == SidesDue(pair, result)
           IN  /\ Written(record, record', pair \X {NoScope}, due)
               /\ late' = Excused(late, pair \X {NoScope}, FALSE)
               /\ DOMAIN due \subseteq pair \X {NoScope}
PROOF
<1> DEFINE keys == pair \X {NoScope}
           due == SidesDue(pair, result)
<1>1. D!Write(keys, due, FALSE)
  BY DEF D!Records, D!Rewrite, D!Whole, SidesDue
<1> HIDE DEF due, keys
<1>2. Written(record, record', keys, due) /\ late' = Excused(late, keys, FALSE)
  BY <1>1 DEF D!Write, D!Over, D!WithMember, D!Restrict, Written, Excused
<1>3. DOMAIN due \subseteq keys
  <2>1. DOMAIN <<>> = {}
    OBVIOUS
  <2>2. QED BY <2>1 DEF due, keys, SidesDue
<1>4. QED BY <1>2, <1>3 DEF due, keys

LEMMA DuelResultStep ==
    ASSUME DuelInv, NEW pair \in DOMAIN pairs, NEW result, D!Records(pair, result),
           \/ pairs' = [pairs EXCEPT ![pair] = result]
           \/ result = None /\ pairs' = D!Restrict(pairs, DOMAIN pairs \ {pair})
    PROVE  DuelInv'
PROOF
<1> DEFINE keys == pair \X {NoScope}
           due == SidesDue(pair, result)
<1>1. Apart(DOMAIN pairs) /\ Agrees(record, late, DuelDue(pairs))
  BY PairedTwiceIs, DuelDueIs DEF DuelInv
<1>2. Apart(DOMAIN pairs')
  BY <1>1 DEF Apart, D!Restrict
<1>3. \A q : q \notin {pair} =>
          /\ q \in DecidedOf(pairs') <=> q \in DecidedOf(pairs)
          /\ q \in DecidedOf(pairs') => pairs'[q] = pairs[q]
  BY DEF DecidedOf, D!Restrict
<1>4. Redone(DuelDue(pairs), DuelDue(pairs'), keys)
  <2>1. Redone(DuelDue(pairs), DuelDue(pairs'), (UNION {pair}) \X {NoScope})
    BY <1>1, <1>2, <1>3, OtherPairsAsBefore
  <2>2. UNION {pair} = pair
    OBVIOUS
  <2>3. QED BY <2>1, <2>2
<1>5. DueIs(DuelDue(pairs'), keys, due)
  <2>1. \/ pair \in DOMAIN pairs' /\ pairs'[pair] = result
        \/ result = None /\ \A q \in DOMAIN pairs' : q \cap pair = {}
    BY <1>1 DEF Apart, D!Restrict
  <2>2. QED BY <1>2, <2>1, SidesGetTheResult
<1>6. /\ Written(record, record', keys, due)
      /\ late' = Excused(late, keys, FALSE) /\ DOMAIN due \subseteq keys
  BY DuelRecords
<1> HIDE DEF due, keys
<1>7. Agrees(record', late', DuelDue(pairs'))
  BY <1>1, <1>4, <1>5, <1>6, WritingAgrees
<1>8. QED BY <1>2, <1>7, PairedTwiceIs, DuelDueIs DEF DuelInv

LEMMA DuelPairsStep ==
    ASSUME DuelInv, NEW new, Apart(new), Started(pairs, new, pairs'),
           \A x \in new, y \in DOMAIN pairs : x \cap y = {},
           UNCHANGED <<record, late>>
    PROVE  DuelInv'
PROOF
<1>1. Apart(DOMAIN pairs) /\ Agrees(record, late, DuelDue(pairs))
  BY PairedTwiceIs, DuelDueIs DEF DuelInv
<1>2. /\ Apart(DOMAIN pairs') /\ DecidedOf(pairs') = DecidedOf(pairs)
      /\ \A q \in DecidedOf(pairs) : pairs'[q] = pairs[q]
  BY <1>1, StartingKeepsResults
<1>3. Redone(DuelDue(pairs), DuelDue(pairs'), {})
  <2>1. Redone(DuelDue(pairs), DuelDue(pairs'), (UNION {}) \X {NoScope})
    BY <1>1, <1>2, OtherPairsAsBefore
  <2>2. (UNION {}) \X {NoScope} = {}
    OBVIOUS
  <2>3. QED BY <2>1, <2>2
<1>4. Agrees(record', late', DuelDue(pairs'))
  BY <1>1, <1>3, SameAgrees
<1>5. QED BY <1>2, <1>4, PairedTwiceIs, DuelDueIs DEF DuelInv

LEMMA DuelOwnerStep ==
    ASSUME DuelInv, NEW k \in D!Whole(Reservation["duel"]), D!Erase(k)
    PROVE  DuelInv'
PROOF
<1>1. NobodyPairedTwice /\ Agrees(record, late, DuelDue(pairs))
  BY DuelDueIs DEF DuelInv
<1>2. /\ k \in DOMAIN record /\ record[k] # Erased /\ record'[k] = Erased
      /\ DOMAIN record' = DOMAIN record
      /\ \A o \in DOMAIN record : o # k => record'[o] = record[o]
      /\ late' = late /\ pairs' = pairs
  BY DEF D!Erase, D!EraseRecord, D!Stored, D!Put, D!Erased, Erased
<1>3. Agrees(record', late, DuelDue(pairs))
  BY <1>1, <1>2, OwnTextAgrees
<1>4. QED BY <1>1, <1>2, <1>3, DuelDueIs DEF DuelInv, NobodyPairedTwice

\* Every step of a duel keeps the pairs apart and the records true.
LEMMA DuelStep ==
    ASSUME DuelInv, D!Next
    PROVE  DuelInv'
PROOF
<1> USE DEF D!Next
<1>1. ASSUME NEW p \in Reservation["duel"], NEW q \in Reservation["duel"], D!PairDuel(p, q)
      PROVE  DuelInv'
  <2>1. p # q /\ \A y \in DOMAIN pairs : {p, q} \cap y = {}
    BY <1>1 DEF D!PairDuel, D!Paired
  <2>2. Started(pairs, {{p, q}}, pairs') /\ UNCHANGED <<record, late>>
    BY <1>1 DEF D!PairDuel, D!Start, D!Over, Started
  <2>3. Apart({{p, q}}) /\ \A x \in {{p, q}}, y \in DOMAIN pairs : x \cap y = {}
    BY <2>1, OnePairStarts
  <2>4. QED BY <2>2, <2>3, DuelPairsStep
<1>2. CASE D!ReadRest
  BY <1>2, DuelDueIs DEF D!ReadRest, DuelInv, NobodyPairedTwice
<1>3. CASE D!PairRest
  <2> DEFINE free == Reservation["duel"] \ rest
  <2>1. CASE free \cap D!Paired = {}
    <3>1. PICK new \in D!Pairings(free) : pairs' = D!Start(new)
      BY <1>3, <2>1 DEF D!PairRest
    <3>2. Started(pairs, new, pairs') /\ UNCHANGED <<record, late>>
      BY <1>3, <3>1 DEF D!PairRest, D!Start, D!Over, Started
    <3>3. \A y \in DOMAIN pairs : free \cap y = {}
      BY <2>1 DEF D!Paired
    <3>4. IsFiniteSet(free)
      BY ContestsAssumption, FS_Difference
    <3>5. /\ \A x \in new : x \subseteq free /\ Cardinality(x) = 2
          /\ UNION new = free /\ 2 * Cardinality(new) = Cardinality(free)
      BY <3>1, CountedAlike DEF D!Pairings, D!kSubset
    <3> HIDE DEF free
    <3>6. Apart(new) /\ \A x \in new, y \in DOMAIN pairs : x \cap y = {}
      BY <3>3, <3>4, <3>5, PairingStarts
    <3>7. QED BY <3>2, <3>6, DuelPairsStep
  <2>2. CASE free \cap D!Paired # {}
    <3>1. UNCHANGED <<pairs, record, late>>
      BY <1>3, <2>2 DEF D!PairRest
    <3>2. QED BY <3>1, DuelDueIs DEF DuelInv, NobodyPairedTwice
  <2>3. QED BY <2>1, <2>2
<1>4. ASSUME NEW pair \in DOMAIN pairs, D!Unpair(pair) PROVE DuelInv'
  BY <1>4, DuelResultStep DEF D!Unpair
<1>5. ASSUME NEW pair \in DOMAIN pairs, NEW result, D!SetResult(pair, result) PROVE DuelInv'
  BY <1>5, DuelResultStep DEF D!SetResult
<1>6. ASSUME NEW p, NEW text, D!EditRecord(p, text) PROVE DuelInv'
  <2>1. PICK pair \in DOMAIN pairs : D!SetResult(pair, D!ResultByText(pair, p, text))
    BY <1>6 DEF D!EditRecord
  <2>2. QED BY <2>1, <1>5
<1>7. QED BY <1>1, <1>2, <1>3, <1>4, <1>5, <1>6, DuelOwnerStep

-----------------------------------------------------------------------------
(* Competitions: the records.                                              *)

PlaceLabel(n, total) == IF n = None THEN <<"no place">> ELSE <<n, total>>

\* C!Due, as it depends on the places.
PlacesDue(at) ==
    [k \in UNION {(DOMAIN at[d]) \X {d} : d \in Division} |->
        PlaceLabel(at[k[2]][k[1]], Cardinality(DOMAIN at[k[2]]))]

LEMMA PlacesDueIs ==
    /\ RecordsAre(C!Due) <=> Agrees(record, late, PlacesDue(place))
    /\ RecordsAre(C!Due)' <=> Agrees(record', late', PlacesDue(place'))
PROOF
<1>1. ASSUME NEW at, NEW k \in UNION {(DOMAIN at[d]) \X {d} : d \in Division}
      PROVE  C!Labels(k[2], at[k[2]], C!Cardinality(DOMAIN at[k[2]]))[k]
               = PlaceLabel(at[k[2]][k[1]], Cardinality(DOMAIN at[k[2]]))
  <2>1. k \in (DOMAIN at[k[2]]) \X {k[2]}
    OBVIOUS
  <2>2. QED BY <2>1, CountedAlike DEF C!Labels, C!Keys, PlaceLabel
<1>2. C!Due = PlacesDue(place)
  BY <1>1 DEF C!Due, C!Keys, C!Entries, PlacesDue
<1>3. (C!Due)' = PlacesDue(place')
  BY <1>1 DEF C!Due, C!Keys, C!Entries, PlacesDue
<1>4. RecordsAre(C!Due) <=> Agrees(record, late, C!Due)
  BY DEF RecordsAre, WithMember, Restrict, Stored, Agrees
<1>5. RecordsAre(C!Due)' <=> Agrees(record', late', (C!Due)')
  BY DEF RecordsAre, WithMember, Restrict, Stored, Agrees
<1>6. QED BY <1>2, <1>3, <1>4, <1>5

\* What is due of a key, and that it depends on nothing but its division.
LEMMA DueOfPlace ==
    ASSUME NEW at, NEW d \in Division, NEW p
    PROVE  /\ <<p, d>> \in DOMAIN PlacesDue(at) <=> p \in DOMAIN at[d]
           /\ p \in DOMAIN at[d] =>
                PlacesDue(at)[<<p, d>>] = PlaceLabel(at[d][p], Cardinality(DOMAIN at[d]))
PROOF
<1>1. <<p, d>> \in UNION {(DOMAIN at[e]) \X {e} : e \in Division} <=> p \in DOMAIN at[d]
  OBVIOUS
<1>2. QED BY <1>1 DEF PlacesDue

LEMMA DueHasPlace ==
    ASSUME NEW at, NEW k \in DOMAIN PlacesDue(at)
    PROVE  \E d \in Division : \E p \in DOMAIN at[d] : k = <<p, d>>
PROOF BY DEF PlacesDue

LEMMA OtherPlacesAsBefore ==
    ASSUME NEW at, NEW after, NEW d \in Division,
           \A e \in Division : e # d => after[e] = at[e],
           NEW people, DOMAIN at[d] \cup DOMAIN after[d] \subseteq people
    PROVE  Redone(PlacesDue(at), PlacesDue(after), people \X {d})
PROOF
<1> SUFFICES ASSUME NEW k, k \notin people \X {d}
             PROVE  /\ k \in DOMAIN PlacesDue(after) <=> k \in DOMAIN PlacesDue(at)
                    /\ k \in DOMAIN PlacesDue(after) =>
                         PlacesDue(after)[k] = PlacesDue(at)[k]
  BY DEF Redone
<1>1. ASSUME NEW e \in Division, NEW p, k = <<p, e>>, p \in DOMAIN at[e] \cup DOMAIN after[e]
      PROVE  after[e] = at[e]
  BY <1>1
<1>2. ASSUME k \in DOMAIN PlacesDue(after)
      PROVE  k \in DOMAIN PlacesDue(at) /\ PlacesDue(after)[k] = PlacesDue(at)[k]
  <2>1. PICK e \in Division : \E p \in DOMAIN after[e] : k = <<p, e>>
    BY <1>2, DueHasPlace
  <2>2. PICK p \in DOMAIN after[e] : k = <<p, e>>
    BY <2>1
  <2>3. after[e] = at[e]
    BY <1>1, <2>2
  <2>4. QED BY <2>2, <2>3, DueOfPlace
<1>3. ASSUME k \in DOMAIN PlacesDue(at) PROVE k \in DOMAIN PlacesDue(after)
  <2>1. PICK e \in Division : \E p \in DOMAIN at[e] : k = <<p, e>>
    BY <1>3, DueHasPlace
  <2>2. PICK p \in DOMAIN at[e] : k = <<p, e>>
    BY <2>1
  <2>3. after[e] = at[e]
    BY <1>1, <2>2
  <2>4. QED BY <2>2, <2>3, DueOfPlace
<1>4. QED BY <1>2, <1>3

\* What the handlers write of a division is due, if they have counted right.
LEMMA PlacesGetTheirLabels ==
    ASSUME NEW at, NEW d \in Division, NEW people, DOMAIN at[d] \subseteq people,
           NEW total, total = Cardinality(DOMAIN at[d])
    PROVE  DueIs(PlacesDue(at), people \X {d}, C!Labels(d, at[d], total))
PROOF
<1> SUFFICES ASSUME NEW p \in people
             PROVE  LET k == <<p, d>>
                        labels == C!Labels(d, at[d], total)
                    IN  /\ k \in DOMAIN PlacesDue(at) <=> k \in DOMAIN labels
                        /\ k \in DOMAIN PlacesDue(at) => PlacesDue(at)[k] = labels[k]
  BY DEF DueIs
<1>1. <<p, d>> \in DOMAIN C!Labels(d, at[d], total) <=> p \in DOMAIN at[d]
  BY DEF C!Labels, C!Keys
<1>2. p \in DOMAIN at[d] =>
        C!Labels(d, at[d], total)[<<p, d>>] = PlaceLabel(at[d][p], total)
  BY DEF C!Labels, C!Keys, PlaceLabel
<1>3. QED BY <1>1, <1>2, DueOfPlace

-----------------------------------------------------------------------------
(* Competitions: giving a place.                                           *)

\* Places are numbers, and no two who have one share it.
WellPlaced(at) ==
    /\ \A q \in DOMAIN at : at[q] \in Int \cup {None}
    /\ \A q, r \in DOMAIN at : q # r /\ at[q] # None => at[q] # at[r]

\* MovesOne, as it depends on the places before and after.
Moves(at, after, p) ==
    /\ \A q \in DOMAIN at \ {p} : at[q] # None => after[q] # None
    /\ \A q, r \in DOMAIN at \ {p} :
         at[q] # None /\ at[r] # None => (at[q] < at[r] <=> after[q] < after[r])

LEMMA InsertingMovesOne ==
    ASSUME NEW at, WellPlaced(at), NEW p \in DOMAIN at, NEW n \in Int, n # at[p]
    PROVE  LET after == C!Inserted(at, p, n)
           IN  DOMAIN after = DOMAIN at /\ WellPlaced(after) /\ Moves(at, after, p)
PROOF
<1> DEFINE after == C!Inserted(at, p, n)
           old == at[p]
           room(q) == IF old = None THEN at[q] >= n ELSE n <= at[q] /\ at[q] < old
           gap(q) == old # None /\ old < at[q] /\ at[q] <= n
           to(q) == IF at[q] = None THEN None
                    ELSE IF room(q) THEN at[q] + 1
                    ELSE IF gap(q) THEN at[q] - 1 ELSE at[q]
<1>1. old \in Int \cup {None} /\ None \notin Int
  BY ContestsAssumption DEF WellPlaced
<1>2. DOMAIN after = DOMAIN at /\ after[p] = n
  BY DEF C!Inserted
<1>3. ASSUME NEW q \in DOMAIN at, q # p
      PROVE  after[q] = to(q)
  <2>1. at[q] \in Int \cup {None}
    BY DEF WellPlaced
  <2>2. CASE at[q] = None
    BY <2>2, <1>3 DEF C!Inserted
  <2>3. CASE at[q] \in Int /\ old = None
    BY <2>3, <1>1, <1>3 DEF C!Inserted
  <2>4. CASE at[q] \in Int /\ old \in Int
    BY <2>4, <1>1, <1>3 DEF C!Inserted
  <2>5. QED BY <2>1, <2>2, <2>3, <2>4, <1>1
<1> HIDE DEF after
<1>4. ASSUME NEW q \in DOMAIN at, q # p, at[q] # None
      PROVE  at[q] \in Int /\ after[q] \in Int /\ after[q] # n
  BY <1>1, <1>3, <1>4 DEF WellPlaced
<1>5. ASSUME NEW q \in DOMAIN at, NEW r \in DOMAIN at, q # p, r # p, q # r,
             at[q] # None, at[r] # None
      PROVE  after[q] # after[r] /\ (at[q] < at[r] <=> after[q] < after[r])
  <2>1. at[q] \in Int /\ at[r] \in Int /\ at[q] # at[r] /\ at[q] # old /\ at[r] # old
    BY <1>5, <1>4 DEF WellPlaced
  <2>2. after[q] = to(q) /\ after[r] = to(r)
    BY <1>3, <1>5
  <2>3. CASE old = None
    BY <2>1, <2>2, <2>3, <1>1
  <2>4. CASE old \in Int
    BY <2>1, <2>2, <2>4, <1>1
  <2>5. QED BY <2>3, <2>4, <1>1
<1>6. Moves(at, after, p)
  <2>1. ASSUME NEW q \in DOMAIN at \ {p}, at[q] # None PROVE after[q] # None
    BY <2>1, <1>1, <1>4
  <2>2. ASSUME NEW q \in DOMAIN at \ {p}, NEW r \in DOMAIN at \ {p},
               at[q] # None, at[r] # None
        PROVE  at[q] < at[r] <=> after[q] < after[r]
    BY <2>2, <1>4, <1>5
  <2>3. QED BY <2>1, <2>2 DEF Moves
<1>7. ASSUME NEW q \in DOMAIN at, at[q] = None, q # p PROVE after[q] = None
  BY <1>3, <1>7
<1>8. WellPlaced(after)
  <2>1. ASSUME NEW q \in DOMAIN after PROVE after[q] \in Int \cup {None}
    BY <1>2, <1>4, <1>7
  <2>2. ASSUME NEW q \in DOMAIN after, NEW r \in DOMAIN after, q # r, after[q] # None
        PROVE  after[q] # after[r]
    <3>1. CASE q = p
      BY <3>1, <2>2, <1>1, <1>2, <1>4, <1>7
    <3>2. CASE r = p
      BY <3>2, <2>2, <1>2, <1>4, <1>7
    <3>3. CASE q # p /\ r # p
      BY <3>3, <2>2, <1>1, <1>2, <1>4, <1>5, <1>7
    <3>4. QED BY <3>1, <3>2, <3>3
  <2>3. QED BY <2>1, <2>2 DEF WellPlaced
<1>9. QED BY <1>2, <1>6, <1>8 DEF after

\* Where nobody makes room: the place was free, or is given back.
LEMMA PlacingMovesOne ==
    ASSUME NEW at, WellPlaced(at), NEW p \in DOMAIN at, NEW n \in Int \cup {None},
           n # None => \A q \in DOMAIN at \ {p} : at[q] # n
    PROVE  LET after == [at EXCEPT ![p] = n]
           IN  DOMAIN after = DOMAIN at /\ WellPlaced(after) /\ Moves(at, after, p)
PROOF BY DEF WellPlaced, Moves

PlacesInv ==
    /\ place = [d \in Division |-> place[d]]
    /\ \A d \in Division : WellPlaced(place[d])
    /\ busy # Idle => busy.division \in Division

MoveIn(at, after) ==
    DOMAIN after = DOMAIN at /\ DOMAIN at # {} => \E p \in DOMAIN at : Moves(at, after, p)

\* The step in which the places of d become at, and those of no other division
\* change.
LEMMA PlacesStep ==
    ASSUME PlacesInv, NEW d \in Division, NEW at, WellPlaced(at),
           MoveIn(place[d], at), place' = [place EXCEPT ![d] = at],
           (busy # Idle => busy.division \in Division)'
    PROVE  /\ PlacesInv'
           /\ \A e \in Division : MoveIn(place[e], place'[e])
PROOF
<1>1. /\ DOMAIN place' = Division /\ place'[d] = at
      /\ \A e \in Division : e # d => place'[e] = place[e]
  BY DEF PlacesInv
<1>2. PlacesInv'
  BY <1>1 DEF PlacesInv
<1>3. ASSUME NEW e \in Division, e # d PROVE MoveIn(place[e], place'[e])
  BY <1>1, <1>3 DEF MoveIn, Moves
<1>4. QED BY <1>1, <1>2, <1>3

LEMMA SamePlacesMoveNobody ==
    ASSUME UNCHANGED place
    PROVE  \A e \in Division : MoveIn(place[e], place'[e])
PROOF BY DEF MoveIn, Moves

CompetitionInv == PlacesInv /\ Agrees(record, late, PlacesDue(place))
CompetitionMove == \A d \in Division : MoveIn(place[d], place'[d])

\* A handler that makes the places of d those of at, and writes the records of
\* people there by the total it has counted.
LEMMA CompetitionWrite ==
    ASSUME CompetitionInv, NEW d \in Division, NEW at, NEW people, NEW total,
           place' = [place EXCEPT ![d] = at],
           (DOMAIN place[d]) \cup DOMAIN at \subseteq people,
           NEW outdated \in BOOLEAN, ~outdated => total = Cardinality(DOMAIN at),
           C!Write(C!Keys(d, people), C!Labels(d, at, total), outdated)
    PROVE  Agrees(record', late', PlacesDue(place'))
PROOF
<1> DEFINE keys == people \X {d}
           labels == C!Labels(d, at, total)
<1>1. Written(record, record', keys, labels) /\ late' = Excused(late, keys, outdated)
  <2>1. C!Keys(d, people) = keys
    BY DEF C!Keys
  <2> HIDE DEF keys, labels
  <2>2. C!Write(keys, labels, outdated)
    BY <2>1 DEF labels
  <2>3. QED BY <2>2 DEF C!Write, C!Over, C!WithMember, C!Restrict, Written, Excused
<1>2. place'[d] = at /\ \A e \in Division : e # d => place'[e] = place[e]
  BY DEF CompetitionInv, PlacesInv
<1>3. DOMAIN labels \subseteq keys
  BY DEF C!Labels, C!Keys
<1>4. Redone(PlacesDue(place), PlacesDue(place'), keys)
  BY <1>2, OtherPlacesAsBefore
<1>5. ~outdated => DueIs(PlacesDue(place'), keys, labels)
  BY <1>2, PlacesGetTheirLabels
<1> HIDE DEF keys, labels
<1>6. QED BY <1>1, <1>3, <1>4, <1>5, WritingAgrees DEF CompetitionInv

\* The end of entering or leaving a division.
LEMMA FinishStep ==
    ASSUME CompetitionInv, NEW seen, seen.division \in Division, C!Finish(seen),
           (busy # Idle => busy.division \in Division)'
    PROVE  CompetitionInv' /\ CompetitionMove
PROOF
<1> DEFINE d == seen.division
           p == seen.person
           at == IF seen.joins THEN C!Put(place[d], p, None)
                 ELSE C!Restrict(place[d], DOMAIN place[d] \ {p})
           people == DOMAIN place[d] \cup {p}
           outdated == seen.total # Cardinality(DOMAIN at)
<1>1. /\ place' = [place EXCEPT ![d] = at]
      /\ C!Write(C!Keys(d, people), C!Labels(d, at, seen.total), outdated)
  BY CountedAlike DEF C!Finish, C!Entries
<1>2. /\ DOMAIN at = IF seen.joins THEN DOMAIN place[d] \cup {p} ELSE DOMAIN place[d] \ {p}
      /\ \A q \in DOMAIN at : at[q] = IF seen.joins /\ q = p THEN None ELSE place[d][q]
  BY DEF C!Put, C!Restrict
<1> HIDE DEF at
<1>3. Agrees(record', late', PlacesDue(place'))
  <2>1. (DOMAIN place[d]) \cup DOMAIN at \subseteq people
    BY <1>2
  <2>2. outdated \in BOOLEAN /\ (~outdated => seen.total = Cardinality(DOMAIN at))
    OBVIOUS
  <2> HIDE DEF d, people, outdated
  <2>3. QED BY <1>1, <2>1, <2>2, CompetitionWrite DEF d
<1>4. WellPlaced(place[d])
  BY DEF CompetitionInv, PlacesInv
<1>5. WellPlaced(at)
  BY <1>2, <1>4 DEF WellPlaced
<1>6. MoveIn(place[d], at)
  <2>1. ASSUME DOMAIN at = DOMAIN place[d], DOMAIN place[d] # {}
        PROVE  \E q \in DOMAIN place[d] : Moves(place[d], at, q)
    <3>1. CASE p \in DOMAIN place[d]
      BY <3>1, <1>2 DEF Moves
    <3>2. CASE p \notin DOMAIN place[d]
      BY <3>2, <2>1, <1>2 DEF Moves
    <3>3. QED BY <3>1, <3>2
  <2>2. QED BY <2>1 DEF MoveIn
<1>7. PlacesInv' /\ CompetitionMove
  BY <1>1, <1>5, <1>6, PlacesStep DEF CompetitionInv, CompetitionMove
<1>8. QED BY <1>3, <1>7 DEF CompetitionInv

LEMMA RemoveDivisionStep ==
    ASSUME CompetitionInv, NEW d \in Division, C!RemoveDivision(d)
    PROVE  CompetitionInv' /\ CompetitionMove
PROOF
<1> DEFINE keys == {k \in DOMAIN record : k[2] = d}
<1>1. place' = [place EXCEPT ![d] = <<>>] /\ busy' = busy /\ C!Write(keys, <<>>, FALSE)
  BY DEF C!RemoveDivision, C!Rewrite
<1>2. DOMAIN <<>> = {}
  OBVIOUS
<1>3. /\ place'[d] = <<>> /\ DOMAIN place'[d] = {}
      /\ \A e \in Division : e # d => place'[e] = place[e]
  BY <1>1, <1>2 DEF CompetitionInv, PlacesInv
<1>4. PlacesInv' /\ CompetitionMove
  <2>1. WellPlaced(<<>>) /\ MoveIn(place[d], <<>>)
    BY <1>2 DEF WellPlaced, MoveIn
  <2>2. QED BY <1>1, <2>1, PlacesStep DEF CompetitionInv, CompetitionMove, PlacesInv
<1>5. Written(record, record', keys, <<>>) /\ late' = Excused(late, keys, FALSE)
  <2> HIDE DEF keys
  <2>1. QED BY <1>1 DEF C!Write, C!Over, C!WithMember, C!Restrict, Written, Excused
<1>6. ASSUME NEW k \in DOMAIN PlacesDue(place')
      PROVE  /\ k \in DOMAIN PlacesDue(place) /\ k \notin keys
             /\ PlacesDue(place')[k] = PlacesDue(place)[k]
  <2>1. PICK e \in Division : \E p \in DOMAIN place'[e] : k = <<p, e>>
    BY <1>6, DueHasPlace
  <2>2. PICK p \in DOMAIN place'[e] : k = <<p, e>>
    BY <2>1
  <2>3. e # d /\ place'[e] = place[e]
    BY <1>3, <2>2
  <2>4. QED BY <2>2, <2>3, DueOfPlace
<1>7. ASSUME NEW k \in DOMAIN PlacesDue(place)
      PROVE  k \in DOMAIN PlacesDue(place') \/ k \in keys \/ k \notin DOMAIN record
  <2>1. PICK e \in Division : \E p \in DOMAIN place[e] : k = <<p, e>>
    BY <1>7, DueHasPlace
  <2>2. PICK p \in DOMAIN place[e] : k = <<p, e>>
    BY <2>1
  <2>3. CASE e = d
    BY <2>2, <2>3
  <2>4. CASE e # d
    BY <2>2, <2>4, <1>3, DueOfPlace
  <2>5. QED BY <2>3, <2>4
<1> HIDE DEF keys
<1>8. Agrees(record', late', PlacesDue(place'))
  BY <1>5, <1>6, <1>7, RemovingAgrees DEF CompetitionInv
<1>9. QED BY <1>4, <1>8 DEF CompetitionInv

LEMMA SetPlaceStep ==
    ASSUME CompetitionInv, NEW d \in Division, NEW p, NEW n \in Int \cup {None},
           C!SetDivisionPlace(d, p, n)
    PROVE  CompetitionInv' /\ CompetitionMove
PROOF
<1> DEFINE at == place[d]
           taken == \E q \in DOMAIN at \ {p} : at[q] = n
           after == IF n # None /\ taken THEN C!Inserted(at, p, n) ELSE [at EXCEPT ![p] = n]
           total == Cardinality(DOMAIN at)
<1>1. /\ p \in DOMAIN at /\ n # at[p] /\ busy' = busy
      /\ place' = [place EXCEPT ![d] = after]
      /\ C!Write(C!Keys(d, DOMAIN at), C!Labels(d, after, total), FALSE)
  BY CountedAlike DEF C!SetDivisionPlace, C!Entries, C!Rewrite
<1>2. WellPlaced(at)
  BY DEF CompetitionInv, PlacesInv
<1>3. DOMAIN after = DOMAIN at /\ WellPlaced(after) /\ Moves(at, after, p)
  <2> HIDE DEF at
  <2>1. CASE n # None /\ taken
    <3>1. n \in Int
      BY <2>1
    <3>2. QED BY <3>1, <2>1, <1>1, <1>2, InsertingMovesOne
  <2>2. CASE ~(n # None /\ taken)
    <3>1. n # None => \A q \in DOMAIN at \ {p} : at[q] # n
      BY <2>2
    <3>2. QED BY <3>1, <2>2, <1>1, <1>2, PlacingMovesOne
  <2>3. QED BY <2>1, <2>2
<1> HIDE DEF after
<1>4. PlacesInv' /\ CompetitionMove
  <2>1. MoveIn(place[d], after)
    BY <1>1, <1>3 DEF MoveIn
  <2>2. QED BY <1>1, <1>3, <2>1, PlacesStep DEF CompetitionInv, CompetitionMove, PlacesInv
<1>5. Agrees(record', late', PlacesDue(place'))
  <2>1. (DOMAIN place[d]) \cup DOMAIN after \subseteq DOMAIN at
    BY <1>3
  <2>2. total = Cardinality(DOMAIN after)
    BY <1>3
  <2> HIDE DEF total
  <2>3. QED BY <1>1, <2>1, <2>2, CompetitionWrite
<1>6. QED BY <1>4, <1>5 DEF CompetitionInv

\* Where the places stay as they are.
LEMMA CompetitionRest ==
    ASSUME CompetitionInv, UNCHANGED place, Agrees(record', late', PlacesDue(place)),
           (busy # Idle => busy.division \in Division)'
    PROVE  CompetitionInv' /\ CompetitionMove
PROOF BY SamePlacesMoveNobody DEF CompetitionInv, PlacesInv, CompetitionMove

LEMMA CompetitionOwnerStep ==
    ASSUME CompetitionInv, NEW k, UNCHANGED <<place, busy>>,
           C!EraseRecord(k) \/ (C!KeepText(k) /\ k \in C!Stored)
    PROVE  CompetitionInv' /\ CompetitionMove
PROOF
<1> DEFINE text == IF record'[k] = Typed THEN Typed ELSE Erased
<1>1. /\ k \in DOMAIN record /\ record[k] # Erased
      /\ record'[k] \in {Typed, Erased}
      /\ DOMAIN record' = DOMAIN record
      /\ \A o \in DOMAIN record : o # k => record'[o] = record[o]
      /\ late' = late
  BY DEF C!EraseRecord, C!KeepText, C!Stored, C!Put, C!Erased, C!Typed, Erased, Typed
<1>2. Agrees(record', late, PlacesDue(place))
  BY <1>1, OwnTextAgrees DEF CompetitionInv
<1>3. QED BY <1>1, <1>2, CompetitionRest DEF CompetitionInv, PlacesInv

\* Every step of a competition keeps the records true and the places apart, and
\* moves one of a division at most.
LEMMA CompetitionStep ==
    ASSUME CompetitionInv, C!Next
    PROVE  CompetitionInv' /\ CompetitionMove
PROOF
<1>1. CASE C!EndChange
  <2>1. busy.division \in Division /\ busy' = Idle /\ C!Finish(busy)
    BY <1>1 DEF C!EndChange, CompetitionInv, PlacesInv
  <2>2. QED BY <2>1, FinishStep
<1>2. ASSUME NEW d \in Division, C!CreateDivision(d) PROVE CompetitionInv' /\ CompetitionMove
  BY <1>2, CompetitionRest DEF C!CreateDivision, CompetitionInv, PlacesInv
<1>3. ASSUME NEW d \in Division, C!RenameDivision(d) PROVE CompetitionInv' /\ CompetitionMove
  <2>1. /\ UNCHANGED <<place, busy>>
        /\ C!Write(C!Keys(d, DOMAIN place[d]),
                   C!Labels(d, place[d], Cardinality(DOMAIN place[d])), FALSE)
    BY <1>3, CountedAlike DEF C!RenameDivision, C!Entries, C!Rewrite
  <2>2. place' = [place EXCEPT ![d] = place[d]]
    BY <2>1 DEF CompetitionInv, PlacesInv
  <2>3. Agrees(record', late', PlacesDue(place'))
    BY <2>1, <2>2, CompetitionWrite
  <2>4. QED BY <2>1, <2>3, CompetitionRest DEF CompetitionInv, PlacesInv
<1>4. ASSUME NEW d \in Division, NEW p, C!Change(d, p)
      PROVE  CompetitionInv' /\ CompetitionMove
  <2>1. C!Seen(d, p).division = d /\ C!Finish(C!Seen(d, p)) /\ busy' = busy
    BY <1>4 DEF C!Change, C!Seen
  <2>2. QED BY <2>1, FinishStep DEF CompetitionInv, PlacesInv
<1>5. ASSUME NEW d \in Division, NEW p, C!BeginChange(d, p)
      PROVE  CompetitionInv' /\ CompetitionMove
  <2>1. UNCHANGED <<place, record, late>> /\ busy'.division = d
    BY <1>5 DEF C!BeginChange, C!Seen
  <2>2. QED BY <2>1, CompetitionRest DEF CompetitionInv
<1>6. ASSUME NEW d \in Division, NEW p, C!Erase(<<p, d>>)
      PROVE  CompetitionInv' /\ CompetitionMove
  BY <1>6, CompetitionOwnerStep DEF C!Erase
<1>7. ASSUME NEW d \in Division, NEW p, NEW n \in Int \cup {None}, C!EditRecord(d, p, n)
      PROVE  CompetitionInv' /\ CompetitionMove
  <2>1. CASE C!SetDivisionPlace(d, p, n)
    BY <2>1, SetPlaceStep
  <2>2. CASE ~C!SetDivisionPlace(d, p, n)
    <3>1. C!KeepText(<<p, d>>) /\ <<p, d>> \in C!Stored /\ UNCHANGED <<place, busy>>
      BY <1>7, <2>2 DEF C!EditRecord
    <3>2. QED BY <3>1, CompetitionOwnerStep
  <2>3. QED BY <2>1, <2>2
<1>8. \A total : \A n \in 1..total \cup {None} : n \in Int \cup {None}
  OBVIOUS
<1>9. QED BY <1>1, <1>2, <1>3, <1>4, <1>5, <1>6, <1>7, <1>8, SetPlaceStep, RemoveDivisionStep
     DEF C!Next

-----------------------------------------------------------------------------
(* Entries of a bracket, in their order.                                   *)

\* A sequence without its i-th element, place by place.
LEMMA RemoveAtIs ==
    ASSUME NEW S, NEW s \in Seq(S), NEW i \in 1..Len(s)
    PROVE  /\ RemoveAt(s, i) \in Seq(S)
           /\ Len(RemoveAt(s, i)) = Len(s) - 1
           /\ \A j \in 1..(Len(s) - 1) : RemoveAt(s, i)[j] = IF j < i THEN s[j] ELSE s[j + 1]
PROOF
<1> DEFINE a == SubSeq(s, 1, i - 1)
           z == SubSeq(s, i + 1, Len(s))
<1>1. Len(s) \in Nat
  OBVIOUS
<1>2. a \in Seq(S) /\ Len(a) = i - 1 /\ \A j \in 1..(i - 1) : a[j] = s[j]
  BY <1>1
<1>3. /\ z \in Seq(S) /\ Len(z) = Len(s) - i
      /\ \A j \in 1..(Len(s) - i) : z[j] = s[j + i]
  BY <1>1
<1> HIDE DEF a, z
<1>4. /\ a \o z \in Seq(S) /\ Len(a \o z) = Len(a) + Len(z)
      /\ \A j \in 1..(Len(a) + Len(z)) : (a \o z)[j] = IF j <= Len(a) THEN a[j] ELSE z[j - Len(a)]
  BY <1>2, <1>3, ConcatProperties
<1>5. ASSUME NEW j \in 1..(Len(s) - 1)
      PROVE  (a \o z)[j] = IF j < i THEN s[j] ELSE s[j + 1]
  <2>1. CASE j < i
    BY <2>1, <1>1, <1>2, <1>3, <1>4
  <2>2. CASE ~(j < i)
    <3>1. j - Len(a) \in 1..(Len(s) - i) /\ (j - Len(a)) + i = j + 1 /\ ~(j <= Len(a))
      BY <2>2, <1>1, <1>2
    <3>2. z[j - Len(a)] = s[(j - Len(a)) + i]
      BY <3>1, <1>3
    <3>3. QED BY <2>2, <3>1, <3>2, <1>1, <1>2, <1>3, <1>4
  <2>3. QED BY <2>1, <2>2
<1>6. Len(a) + Len(z) = Len(s) - 1
  BY <1>1, <1>2, <1>3
<1>7. RemoveAt(s, i) = a \o z
  BY DEF RemoveAt, a, z
<1>8. QED BY <1>4, <1>5, <1>6, <1>7

\* RemoveFirst takes out one place of e, if there is one.
LEMMA RemoveFirstIs ==
    ASSUME NEW S, NEW s \in Seq(S), NEW e
    PROVE  \/ e \notin Range(s) /\ RemoveFirst(s, e) = s
           \/ \E i \in 1..Len(s) : s[i] = e /\ RemoveFirst(s, e) = RemoveAt(s, i)
PROOF
<1> DEFINE I == {i \in 1..Len(s) : s[i] = e}
<1>1. Len(s) \in Nat /\ DOMAIN s = 1..Len(s)
  OBVIOUS
<1>2. CASE I = {}
  BY <1>1, <1>2 DEF RemoveFirst, Range
<1>3. CASE I # {}
  <2>1. Min(I) \in I
    <3>1. I \in SUBSET Nat
      BY <1>1
    <3> HIDE DEF I
    <3>2. QED BY <3>1, <1>3, LeastNumber DEF Min
  <2>2. RemoveFirst(s, e) = RemoveAt(s, Min(I))
    BY <1>3 DEF RemoveFirst, SelectInSeq
  <2>3. QED BY <2>1, <2>2
<1>4. QED BY <1>2, <1>3

\* What is left after c has gone: nobody new, and no more than before; where nobody
\* stands twice, all others.
LEMMA LeavingIs ==
    ASSUME NEW S, NEW s \in Seq(S), NEW c
    PROVE  LET left == RemoveFirst(s, c)
           IN  /\ left \in Seq(S) /\ Len(left) <= Len(s)
               /\ IsInjective(s) => IsInjective(left) /\ Range(left) = Range(s) \ {c}
PROOF
<1> DEFINE left == RemoveFirst(s, c)
<1>1. Len(s) \in Nat /\ DOMAIN s = 1..Len(s)
  OBVIOUS
<1>2. CASE c \notin Range(s) /\ left = s
  BY <1>1, <1>2
<1>3. ASSUME NEW i \in 1..Len(s), s[i] = c, left = RemoveAt(s, i)
      PROVE  /\ left \in Seq(S) /\ Len(left) <= Len(s)
             /\ IsInjective(s) => IsInjective(left) /\ Range(left) = Range(s) \ {c}
  <2> HIDE DEF left
  <2>1. /\ left \in Seq(S) /\ Len(left) = Len(s) - 1
        /\ \A j \in 1..(Len(s) - 1) : left[j] = IF j < i THEN s[j] ELSE s[j + 1]
    BY <1>3, RemoveAtIs
  <2>2. DOMAIN left = 1..(Len(s) - 1)
    BY <2>1
  <2> DEFINE from(j) == IF j < i THEN j ELSE j + 1
  <2>3. ASSUME NEW j \in DOMAIN left
        PROVE  from(j) \in DOMAIN s /\ from(j) # i /\ left[j] = s[from(j)]
    BY <2>1, <2>2, <1>1
  <2>4. ASSUME NEW j \in DOMAIN left, NEW l \in DOMAIN left, from(j) = from(l) PROVE j = l
    BY <2>2, <2>4, <1>1
  <2>5. ASSUME NEW j \in DOMAIN s, j # i PROVE \E l \in DOMAIN left : from(l) = j
    <3>1. CASE j < i
      BY <3>1, <2>2, <1>1
    <3>2. CASE ~(j < i)
      <4>1. j - 1 \in DOMAIN left /\ from(j - 1) = j
        BY <3>2, <2>5, <2>2, <1>1
      <4>2. QED BY <4>1
    <3>3. QED BY <3>1, <3>2
  <2> HIDE DEF from
  <2>6. ASSUME IsInjective(s) PROVE IsInjective(left) /\ Range(left) = Range(s) \ {c}
    <3>1. \A j, l \in DOMAIN s : s[j] = s[l] => j = l
      BY <2>6 DEF IsInjective
    <3>2. IsInjective(left)
      BY <2>3, <2>4, <3>1 DEF IsInjective
    <3>3. ASSUME NEW x \in Range(left) PROVE x \in Range(s) \ {c}
      <4>1. PICK j \in DOMAIN left : x = left[j]
        BY DEF Range
      <4>2. QED BY <4>1, <2>3, <3>1, <1>1, <1>3 DEF Range
    <3>4. ASSUME NEW x \in Range(s) \ {c} PROVE x \in Range(left)
      <4>1. PICK j \in DOMAIN s : x = s[j] /\ j # i
        BY <1>3 DEF Range
      <4>2. PICK l \in DOMAIN left : from(l) = j
        BY <4>1, <2>5
      <4>3. QED BY <4>1, <4>2, <2>3 DEF Range
    <3>5. QED BY <3>2, <3>3, <3>4
  <2>7. QED BY <2>1, <2>6, <1>1
<1>4. QED BY <1>2, <1>3, RemoveFirstIs

\* Others who come behind.
LEMMA JoiningIs ==
    ASSUME NEW S, NEW s \in Seq(S), NEW new \in Seq(S)
    PROVE  /\ s \o new \in Seq(S) /\ Len(s \o new) = Len(s) + Len(new)
           /\ Range(s \o new) = Range(s) \cup Range(new)
           /\ IsInjective(s) /\ IsInjective(new) /\ Range(s) \cap Range(new) = {}
                => IsInjective(s \o new)
PROOF
<1> DEFINE all == s \o new
<1>1. /\ all \in Seq(S) /\ Len(all) = Len(s) + Len(new)
      /\ \A i \in 1..(Len(s) + Len(new)) :
           all[i] = IF i <= Len(s) THEN s[i] ELSE new[i - Len(s)]
  BY ConcatProperties
<1>2. /\ Len(s) \in Nat /\ Len(new) \in Nat
      /\ DOMAIN s = 1..Len(s) /\ DOMAIN new = 1..Len(new)
  OBVIOUS
<1>3. DOMAIN all = 1..(Len(s) + Len(new))
  BY <1>1
<1> HIDE DEF all
<1>4. ASSUME NEW i \in DOMAIN all
      PROVE  \/ i \in DOMAIN s /\ all[i] = s[i]
             \/ i - Len(s) \in DOMAIN new /\ all[i] = new[i - Len(s)]
  BY <1>1, <1>2, <1>3
<1>5. ASSUME NEW i \in DOMAIN s PROVE i \in DOMAIN all /\ all[i] = s[i]
  BY <1>1, <1>2, <1>3
<1>6. ASSUME NEW i \in DOMAIN new
      PROVE  i + Len(s) \in DOMAIN all /\ all[i + Len(s)] = new[i]
  <2>1. i + Len(s) \in 1..(Len(s) + Len(new)) /\ ~(i + Len(s) <= Len(s))
        /\ (i + Len(s)) - Len(s) = i
    BY <1>2
  <2>2. QED BY <2>1, <1>1, <1>3
<1>7. Range(all) = Range(s) \cup Range(new)
  BY <1>4, <1>5, <1>6 DEF Range
<1>8. ASSUME IsInjective(s), IsInjective(new), Range(s) \cap Range(new) = {}
      PROVE  IsInjective(all)
  <2>1. ASSUME NEW i \in DOMAIN all, NEW j \in DOMAIN all, all[i] = all[j] PROVE i = j
    <3>1. CASE i \in DOMAIN s /\ j \in DOMAIN s
      BY <3>1, <2>1, <1>5, <1>8 DEF IsInjective
    <3>2. CASE i - Len(s) \in DOMAIN new /\ all[i] = new[i - Len(s)] /\ j \notin DOMAIN s
      <4>1. j - Len(s) \in DOMAIN new /\ all[j] = new[j - Len(s)]
        BY <3>2, <1>4
      <4>2. i - Len(s) = j - Len(s)
        BY <3>2, <4>1, <2>1, <1>8 DEF IsInjective
      <4>3. QED BY <4>2, <1>2, <1>3
    <3>3. ASSUME NEW l \in DOMAIN s, NEW m \in DOMAIN new, s[l] = new[m] PROVE FALSE
      BY <3>3, <1>8 DEF Range
    <3>4. QED BY <3>1, <3>2, <3>3, <2>1, <1>4
  <2>2. QED BY <2>1 DEF IsInjective
<1>9. QED BY <1>1, <1>7, <1>8 DEF all

\* Two who change places.
LEMMA SwappingIs ==
    ASSUME NEW S, NEW s \in Seq(S), NEW i \in 1..(Len(s) - 1)
    PROVE  LET swapped == [s EXCEPT ![i] = s[i + 1], ![i + 1] = s[i]]
           IN  /\ swapped \in Seq(S) /\ Len(swapped) = Len(s) /\ Range(swapped) = Range(s)
               /\ IsInjective(s) => IsInjective(swapped)
PROOF
<1> DEFINE swapped == [s EXCEPT ![i] = s[i + 1], ![i + 1] = s[i]]
           to(j) == IF j = i THEN i + 1 ELSE IF j = i + 1 THEN i ELSE j
<1>1. Len(s) \in Nat /\ DOMAIN s = 1..Len(s)
  OBVIOUS
<1>2. i \in DOMAIN s /\ i + 1 \in DOMAIN s /\ i \in Int /\ i + 1 # i
  BY <1>1
<1>3. DOMAIN swapped = DOMAIN s /\ \A j \in DOMAIN s : swapped[j] = s[to(j)]
  BY <1>2
<1>4. \A j \in DOMAIN s : to(j) \in DOMAIN s /\ to(to(j)) = j
  BY <1>2
<1> HIDE DEF swapped, to
<1>5. swapped \in Seq(S) /\ Len(swapped) = Len(s)
  <2>1. \A j \in DOMAIN s : s[j] \in S
    BY <1>1
  <2>2. swapped = [j \in 1..Len(s) |-> swapped[j]]
    <3>1. swapped = [j \in DOMAIN swapped |-> swapped[j]]
      BY DEF swapped
    <3>2. QED BY <3>1, <1>1, <1>3
  <2>3. \A j \in 1..Len(s) : swapped[j] \in S
    BY <2>1, <1>1, <1>3, <1>4
  <2>4. swapped \in [1..Len(s) -> S]
    BY <2>2, <2>3
  <2>5. QED BY <2>4, <1>1
<1>6. Range(swapped) = Range(s)
  BY <1>3, <1>4 DEF Range
<1>7. IsInjective(s) => IsInjective(swapped)
  BY <1>3, <1>4 DEF IsInjective
<1>8. QED BY <1>5, <1>6, <1>7 DEF swapped

-----------------------------------------------------------------------------
(* The stored brackets of both tournaments.                                *)

\* Every bracket has its entries, out of S, and the matches that the tree gives.
TreesAre(S, order, ms) ==
    /\ order = [b \in Bracket |-> order[b]] /\ ms = [b \in Bracket |-> ms[b]]
    /\ \A b \in Bracket :
         /\ order[b] \in Seq(S) /\ Len(order[b]) <= Room[b]
         /\ ms[b] = Materialize(order[b], ms[b])

LEMMA DrawingAgain ==
    ASSUME NEW S, NEW b \in Bracket, NEW people \in Seq(S), Len(people) <= Room[b], NEW m
    PROVE  LET drawn == Materialize(people, m) IN drawn = Materialize(people, drawn)
PROOF
<1>1. Len(people) \in 0..MaxEntries
  <2>1. Len(people) \in Nat
    OBVIOUS
  <2>2. Room[b] \in 0..MaxEntries /\ MaxEntries \in Nat
    BY RoomAssumption, TreesAssumption
  <2>3. QED BY <2>1, <2>2
<1>2. QED BY <1>1, StoringAgainChangesNothing

\* Drawing the tree of a bracket.
LEMMA TreesDrawn ==
    ASSUME NEW S, NEW order, NEW ms, TreesAre(S, order, ms), NEW b \in Bracket,
           NEW people \in Seq(S), Len(people) <= Room[b], NEW m
    PROVE  TreesAre(S, [order EXCEPT ![b] = people],
                    [ms EXCEPT ![b] = Materialize(people, m)])
PROOF
<1> DEFINE order2 == [order EXCEPT ![b] = people]
           drawn == Materialize(people, m)
           ms2 == [ms EXCEPT ![b] = drawn]
<1>1. drawn = Materialize(people, drawn)
  BY DrawingAgain
<1> HIDE DEF drawn
<1>2. /\ order2 = [c \in Bracket |-> order2[c]] /\ ms2 = [c \in Bracket |-> ms2[c]]
      /\ order2[b] = people /\ ms2[b] = drawn
      /\ \A c \in Bracket : c # b => order2[c] = order[c] /\ ms2[c] = ms[c]
  BY DEF TreesAre
<1> HIDE DEF order2, ms2
<1>3. TreesAre(S, order2, ms2)
  BY <1>1, <1>2 DEF TreesAre
<1>4. QED BY <1>3 DEF order2, ms2, drawn

LEMMA TreesEmptied ==
    ASSUME NEW S, NEW order, NEW ms, TreesAre(S, order, ms), NEW b \in Bracket
    PROVE  TreesAre(S, [order EXCEPT ![b] = <<>>], [ms EXCEPT ![b] = <<>>])
PROOF
<1>1. <<>> \in Seq(S) /\ Len(<<>>) <= Room[b]
  BY RoomAssumption, TreesAssumption
<1>2. QED BY <1>1, NobodyMeets, TreesDrawn

-----------------------------------------------------------------------------
(* Tournaments of persons.                                                 *)

\* Those who have a decided match.
Ranked(people, ms) == {c \in Range(people) : Mine(ms, c) # {}}

\* PersonsDue, as it depends on the brackets.
PersonsOf(order, ms) ==
    [k \in UNION {Ranked(order[b], ms[b]) \X {b} : b \in Bracket} |->
        RecordLabel(order[k[2]], ms[k[2]], k[1])]

LEMMA PersonsDueIs ==
    /\ RecordsAre(PersonsDue) <=> Agrees(record, late, PersonsOf(entries, match))
    /\ RecordsAre(PersonsDue)' <=> Agrees(record', late', PersonsOf(entries', match'))
PROOF
<1>1. PersonsDue = PersonsOf(entries, match)
  BY DEF PersonsDue, PersonLabels, PersonsOf, Ranked
<1>2. (PersonsDue)' = PersonsOf(entries', match')
  BY DEF PersonsDue, PersonLabels, PersonsOf, Ranked
<1>3. RecordsAre(PersonsDue) <=> Agrees(record, late, PersonsDue)
  BY DEF RecordsAre, WithMember, Restrict, Stored, Agrees
<1>4. RecordsAre(PersonsDue)' <=> Agrees(record', late', (PersonsDue)')
  BY DEF RecordsAre, WithMember, Restrict, Stored, Agrees
<1>5. QED BY <1>1, <1>2, <1>3, <1>4

\* The key of a record, as one thing.
Key(p, scope) == <<p, scope>>

LEMMA KeyIs ==
    /\ \A p, b : Key(p, b)[1] = p /\ Key(p, b)[2] = b
    /\ \A P, S : \A p, b : Key(p, b) \in P \X S <=> p \in P /\ b \in S
    /\ \A P, S : \A k \in P \X S : k[1] \in P /\ k[2] \in S /\ k = Key(k[1], k[2])
PROOF BY DEF Key

LEMMA DueOfEntrant ==
    ASSUME NEW order, NEW ms, NEW b \in Bracket, NEW p
    PROVE  /\ Key(p, b) \in DOMAIN PersonsOf(order, ms)
                <=> p \in Ranked(order[b], ms[b])
           /\ Key(p, b) \in DOMAIN PersonsOf(order, ms) =>
                PersonsOf(order, ms)[Key(p, b)] = RecordLabel(order[b], ms[b], p)
PROOF
<1>1. Key(p, b) \in UNION {Ranked(order[c], ms[c]) \X {c} : c \in Bracket}
        <=> p \in Ranked(order[b], ms[b])
  BY DEF Key
<1>2. \A k \in DOMAIN PersonsOf(order, ms) :
        PersonsOf(order, ms)[k] = RecordLabel(order[k[2]], ms[k[2]], k[1])
  BY DEF PersonsOf
<1>3. ASSUME Key(p, b) \in DOMAIN PersonsOf(order, ms)
      PROVE  PersonsOf(order, ms)[Key(p, b)] = RecordLabel(order[b], ms[b], p)
  BY <1>2, <1>3, KeyIs
<1>4. Key(p, b) \in DOMAIN PersonsOf(order, ms) <=> p \in Ranked(order[b], ms[b])
  BY <1>1 DEF PersonsOf
<1>5. QED BY <1>3, <1>4

\* Where a bracket is as before, its entrants are owed the same.
LEMMA SameBracketOwesTheSame ==
    ASSUME NEW order, NEW ms, NEW order2, NEW ms2, NEW b \in Bracket,
           order2[b] = order[b], ms2[b] = ms[b], NEW p
    PROVE  LET k == Key(p, b)
           IN  /\ k \in DOMAIN PersonsOf(order2, ms2) <=> k \in DOMAIN PersonsOf(order, ms)
               /\ k \in DOMAIN PersonsOf(order2, ms2) =>
                    PersonsOf(order2, ms2)[k] = PersonsOf(order, ms)[k]
PROOF
<1>1. Key(p, b) \in DOMAIN PersonsOf(order2, ms2) <=> Key(p, b) \in DOMAIN PersonsOf(order, ms)
  BY DueOfEntrant
<1>2. ASSUME Key(p, b) \in DOMAIN PersonsOf(order2, ms2)
      PROVE  PersonsOf(order2, ms2)[Key(p, b)] = PersonsOf(order, ms)[Key(p, b)]
  BY <1>1, <1>2, DueOfEntrant
<1>3. QED BY <1>1, <1>2

LEMMA DueIsOfAnEntrant ==
    ASSUME NEW order, NEW ms, NEW k \in DOMAIN PersonsOf(order, ms)
    PROVE  \E b \in Bracket : \E p \in Range(order[b]) : k = Key(p, b)
PROOF BY DEF PersonsOf, Key, Ranked

\* The other brackets owe the same records as before.
LEMMA OtherBracketsAsBefore ==
    ASSUME NEW order, NEW ms, NEW order2, NEW ms2, NEW b \in Bracket,
           \A c \in Bracket : c # b => order2[c] = order[c] /\ ms2[c] = ms[c]
    PROVE  Redone(PersonsOf(order, ms), PersonsOf(order2, ms2),
                  (Range(order2[b]) \cup Range(order[b])) \X {b})
PROOF
<1> DEFINE keys == (Range(order2[b]) \cup Range(order[b])) \X {b}
<1>1. ASSUME NEW c \in Bracket, NEW p, Key(p, c) \notin keys,
             p \in Range(order[c]) \cup Range(order2[c])
      PROVE  c # b
  BY <1>1 DEF Key
<1> HIDE DEF keys
<1>2. ASSUME NEW k \in DOMAIN PersonsOf(order2, ms2), k \notin keys
      PROVE  /\ k \in DOMAIN PersonsOf(order, ms)
             /\ PersonsOf(order2, ms2)[k] = PersonsOf(order, ms)[k]
  <2>1. PICK c \in Bracket : \E p \in Range(order2[c]) : k = Key(p, c)
    BY DueIsOfAnEntrant
  <2>2. PICK p \in Range(order2[c]) : k = Key(p, c)
    BY <2>1
  <2>3. order2[c] = order[c] /\ ms2[c] = ms[c]
    BY <1>1, <1>2, <2>2
  <2>4. QED BY <1>2, <2>2, <2>3, SameBracketOwesTheSame
<1>3. ASSUME NEW k \in DOMAIN PersonsOf(order, ms), k \notin keys
      PROVE  k \in DOMAIN PersonsOf(order2, ms2)
  <2>1. PICK c \in Bracket : \E p \in Range(order[c]) : k = Key(p, c)
    BY DueIsOfAnEntrant
  <2>2. PICK p \in Range(order[c]) : k = Key(p, c)
    BY <2>1
  <2>3. order2[c] = order[c] /\ ms2[c] = ms[c]
    BY <1>1, <1>3, <2>2
  <2>4. QED BY <1>3, <2>2, <2>3, SameBracketOwesTheSame
<1>4. QED BY <1>2, <1>3 DEF Redone, keys

\* What a handler writes of its bracket is due.
LEMMA EntrantsGetTheirLabels ==
    ASSUME NEW order, NEW ms, NEW b \in Bracket, NEW others
    PROVE  DueIs(PersonsOf(order, ms), (Range(order[b]) \cup others) \X {b},
                 PersonLabels(b, order[b], ms[b]))
PROOF
<1> DEFINE labels == PersonLabels(b, order[b], ms[b])
<1>1. labels = [k \in Ranked(order[b], ms[b]) \X {b} |-> RecordLabel(order[b], ms[b], k[1])]
  BY DEF PersonLabels, Ranked
<1> HIDE DEF labels
<1>2. ASSUME NEW p
      PROVE  Key(p, b) \in DOMAIN PersonsOf(order, ms) <=> Key(p, b) \in DOMAIN labels
  <2>1. DOMAIN labels = Ranked(order[b], ms[b]) \X {b}
    BY <1>1
  <2>2. Key(p, b) \in Ranked(order[b], ms[b]) \X {b} <=> p \in Ranked(order[b], ms[b])
    BY DEF Key
  <2>3. QED BY <2>1, <2>2, DueOfEntrant
<1>3. ASSUME NEW p, Key(p, b) \in DOMAIN PersonsOf(order, ms)
      PROVE  PersonsOf(order, ms)[Key(p, b)] = labels[Key(p, b)]
  <2>1. labels[Key(p, b)] = RecordLabel(order[b], ms[b], p)
    BY <1>1, <1>2, <1>3, KeyIs
  <2>2. QED BY <2>1, <1>3, DueOfEntrant
<1> DEFINE keys == (Range(order[b]) \cup others) \X {b}
<1>4. \A k \in keys : \E p : k = Key(p, b)
  BY DEF Key
<1> HIDE DEF keys
<1>5. DueIs(PersonsOf(order, ms), keys, labels)
  BY <1>2, <1>3, <1>4 DEF DueIs
<1>6. QED BY <1>5 DEF keys, labels

PersonsInv ==
    /\ TreesAre(Entrant, entries, match)
    /\ \A b \in Bracket : IsInjective(entries[b])
    /\ Agrees(record, late, PersonsOf(entries, match))

LEMMA RedrawPersonsStep ==
    ASSUME PersonsInv, NEW b \in Bracket, NEW people \in Seq(Entrant),
           Len(people) <= Room[b], IsInjective(people), NEW m, RedrawPersons(b, people, m)
    PROVE  PersonsInv'
PROOF
<1> DEFINE drawn == Materialize(people, m)
           keys == (Range(people) \cup Range(entries[b])) \X {b}
           labels == PersonLabels(b, people, drawn)
<1>1. /\ entries' = [entries EXCEPT ![b] = people]
      /\ match' = [match EXCEPT ![b] = drawn]
      /\ Write(keys, labels, FALSE)
  BY DEF RedrawPersons, Rewrite, Entered
<1>2. DOMAIN labels \subseteq keys
  BY DEF PersonLabels
<1>3. TreesAre(Entrant, entries', match')
  BY <1>1, TreesDrawn DEF PersonsInv
<1> HIDE DEF labels, drawn
<1>4. /\ entries'[b] = people /\ match'[b] = drawn
      /\ \A c \in Bracket : c # b => entries'[c] = entries[c] /\ match'[c] = match[c]
  BY <1>1 DEF PersonsInv, TreesAre
<1>5. Written(record, record', keys, labels) /\ late' = Excused(late, keys, FALSE)
  <2> HIDE DEF keys
  <2>1. QED BY <1>1 DEF Write, Over, WithMember, Restrict, Written, Excused
<1>6. Redone(PersonsOf(entries, match), PersonsOf(entries', match'), keys)
  BY <1>4, OtherBracketsAsBefore
<1>7. DueIs(PersonsOf(entries', match'), keys, labels)
  BY <1>4, EntrantsGetTheirLabels DEF labels
<1> HIDE DEF keys
<1>8. Agrees(record', late', PersonsOf(entries', match'))
  BY <1>2, <1>5, <1>6, <1>7, WritingAgrees DEF PersonsInv
<1>9. \A c \in Bracket : IsInjective(entries'[c])
  BY <1>4 DEF PersonsInv
<1>10. QED BY <1>3, <1>8, <1>9 DEF PersonsInv

LEMMA RemovePersonBracketStep ==
    ASSUME PersonsInv, NEW b \in Bracket, RemovePersonBracket(b)
    PROVE  PersonsInv'
PROOF
<1> DEFINE keys == {k \in DOMAIN record : k[2] = b}
<1>1. /\ entries' = [entries EXCEPT ![b] = <<>>]
      /\ match' = [match EXCEPT ![b] = <<>>]
      /\ Write(keys, <<>>, FALSE)
  BY DEF RemovePersonBracket, Rewrite
<1>2. TreesAre(Entrant, entries', match')
  BY <1>1, TreesEmptied DEF PersonsInv
<1>3. /\ Range(entries'[b]) = {} /\ IsInjective(entries'[b])
      /\ \A c \in Bracket : c # b => entries'[c] = entries[c] /\ match'[c] = match[c]
  BY <1>1 DEF PersonsInv, TreesAre, Range, IsInjective
<1>4. Written(record, record', keys, <<>>) /\ late' = Excused(late, keys, FALSE)
  <2> HIDE DEF keys
  <2>1. QED BY <1>1 DEF Write, Over, WithMember, Restrict, Written, Excused
<1> DEFINE due == PersonsOf(entries, match)
           due2 == PersonsOf(entries', match')
<1>5. ASSUME NEW k \in DOMAIN due2
      PROVE  k \in DOMAIN due /\ k \notin keys /\ due2[k] = due[k]
  <2>1. PICK c \in Bracket : \E p \in Range(entries'[c]) : k = Key(p, c)
    BY <1>5, DueIsOfAnEntrant
  <2>2. PICK p \in Range(entries'[c]) : k = Key(p, c)
    BY <2>1
  <2>3. c # b /\ entries'[c] = entries[c] /\ match'[c] = match[c]
    BY <1>3, <2>2
  <2>4. k \notin keys
    BY <2>2, <2>3, KeyIs
  <2>5. k \in DOMAIN due
    BY <1>5, <2>2, <2>3, SameBracketOwesTheSame
  <2>6. due2[k] = due[k]
    BY <1>5, <2>2, <2>3, SameBracketOwesTheSame
  <2>7. QED BY <2>4, <2>5, <2>6
<1>6. ASSUME NEW k \in DOMAIN due
      PROVE  k \in DOMAIN due2 \/ k \in keys \/ k \notin DOMAIN record
  <2>1. PICK c \in Bracket : \E p \in Range(entries[c]) : k = Key(p, c)
    BY <1>6, DueIsOfAnEntrant
  <2>2. PICK p \in Range(entries[c]) : k = Key(p, c)
    BY <2>1
  <2>3. CASE c = b
    BY <2>2, <2>3, KeyIs
  <2>4. CASE c # b
    BY <2>2, <2>4, <1>3, <1>6, SameBracketOwesTheSame
  <2>5. QED BY <2>3, <2>4
<1> HIDE DEF keys, due, due2
<1>7. Agrees(record, late, due)
  BY DEF PersonsInv, due
<1>8. Agrees(record', late', due2)
  BY <1>4, <1>5, <1>6, <1>7, RemovingAgrees
<1>9. \A c \in Bracket : IsInjective(entries'[c])
  BY <1>3 DEF PersonsInv
<1>10. QED BY <1>2, <1>8, <1>9 DEF PersonsInv, due2

LEMMA PersonsOwnerStep ==
    ASSUME PersonsInv, NEW k, UNCHANGED <<entries, match>>,
           EraseRecord(k) \/ (KeepText(k) /\ k \in Stored)
    PROVE  PersonsInv'
PROOF
<1>1. /\ k \in DOMAIN record /\ record[k] # Erased
      /\ record'[k] \in {Typed, Erased}
      /\ DOMAIN record' = DOMAIN record
      /\ \A o \in DOMAIN record : o # k => record'[o] = record[o]
      /\ late' = late
  BY DEF EraseRecord, KeepText, Stored, Put
<1>2. Agrees(record', late, PersonsOf(entries, match))
  BY <1>1, OwnTextAgrees DEF PersonsInv
<1>3. QED BY <1>1, <1>2 DEF PersonsInv, TreesAre

\* Every step of a tournament of persons keeps the matches those of the tree, and
\* the records true.
LEMMA PersonsStep ==
    ASSUME PersonsInv, TournamentNext
    PROVE  PersonsInv'
PROOF
<1>1. ASSUME NEW b \in Bracket
      PROVE  /\ entries[b] \in Seq(Entrant) /\ Len(entries[b]) <= Room[b]
             /\ Len(entries[b]) \in Nat /\ IsInjective(entries[b])
  BY DEF PersonsInv, TreesAre
<1>2. ASSUME NEW b \in Bracket, CreatePersonBracket(b) PROVE PersonsInv'
  BY <1>2 DEF CreatePersonBracket, PersonsInv, TreesAre
<1>3. ASSUME NEW b \in Bracket, NEW people \in Seq(Entrant), IsInjective(people),
             EnterPersons(b, people)
      PROVE  PersonsInv'
  <2>1. /\ entries[b] \o people \in Seq(Entrant)
        /\ Len(entries[b] \o people) <= Room[b]
        /\ IsInjective(entries[b] \o people)
    <3>1. Range(entries[b]) \cap Range(people) = {}
      BY <1>3 DEF EnterPersons, Entered
    <3>2. QED BY <3>1, <1>1, <1>3, JoiningIs DEF EnterPersons
  <2>2. QED BY <1>3, <2>1, RedrawPersonsStep DEF EnterPersons
<1>4. ASSUME NEW b \in Bracket, NEW p \in Entrant, LeavePersons(b, p) PROVE PersonsInv'
  <2>1. /\ Without(b, p) \in Seq(Entrant) /\ Len(Without(b, p)) <= Len(entries[b])
        /\ IsInjective(Without(b, p))
    BY <1>1, LeavingIs DEF Without
  <2>2. Len(Without(b, p)) <= Room[b]
    <3>1. Len(Without(b, p)) \in Nat /\ Room[b] \in Nat
      BY <2>1, RoomAssumption, TreesAssumption
    <3>2. QED BY <3>1, <2>1, <1>1
  <2>3. QED BY <1>4, <2>1, <2>2, RedrawPersonsStep DEF LeavePersons
<1>5. ASSUME NEW b \in Bracket, NEW i, MoveEntry(b, i) PROVE PersonsInv'
  <2> DEFINE moved == [entries[b] EXCEPT ![i] = entries[b][i + 1], ![i + 1] = entries[b][i]]
  <2>1. moved \in Seq(Entrant) /\ Len(moved) <= Room[b] /\ IsInjective(moved)
    BY <1>1, <1>5, SwappingIs DEF MoveEntry
  <2>2. RedrawPersons(b, moved, match[b])
    BY <1>5 DEF MoveEntry
  <2> HIDE DEF moved
  <2>3. QED BY <2>1, <2>2, RedrawPersonsStep
<1>6. ASSUME NEW b \in Bracket, RearrangePersons(b) PROVE PersonsInv'
  <2>1. ASSUME NEW p \in Entrant, NEW q \in Entrant
        PROVE  /\ <<p>> \in Seq(Entrant) /\ <<p, q>> \in Seq(Entrant)
               /\ IsInjective(<<p>>) /\ (p # q => IsInjective(<<p, q>>))
    BY DEF IsInjective
  <2>2. QED BY <1>6, <2>1, <1>3, <1>4, <1>5, RemovePersonBracketStep DEF RearrangePersons
<1>7. ASSUME NEW b \in Bracket, NEW k, NEW who, SetTournamentWinner(b, k, who)
      PROVE  PersonsInv'
  <2>1. \E m : RedrawPersons(b, entries[b], m)
    BY <1>7 DEF SetTournamentWinner
  <2>2. QED BY <2>1, <1>1, RedrawPersonsStep
<1>8. ASSUME NEW b \in Bracket, NEW p, NEW text, EditPersonRecord(b, p, text)
      PROVE  PersonsInv'
  BY <1>8, <1>7, PersonsOwnerStep DEF EditPersonRecord
<1>9. ASSUME NEW k, ErasePersonRecord(k) PROVE PersonsInv'
  BY <1>9, PersonsOwnerStep DEF ErasePersonRecord
<1>10. QED BY <1>2, <1>6, <1>7, <1>8, <1>9 DEF TournamentNext

-----------------------------------------------------------------------------
(* What the handlers on a team change.                                     *)

\* What op asks for, if persons are in teams by of.
OpIsFor(op, of) ==
    /\ op.team \in Team /\ op.gone \in BOOLEAN
    /\ \A p \in op.join : p \in Person /\ of[p] = NoTeam
    /\ \A p \in op.leave : p \in Person /\ of[p] = op.team
    /\ op.gone => op.join = {} /\ \A p \in Person : of[p] = op.team => p \in op.leave

Op(t, join, leave, gone) == [team |-> t, join |-> join, leave |-> leave, gone |-> gone]

LEMMA OpsAreForTheTeam ==
    ASSUME NEW t \in Team, NEW op \in OpsOn(t)
    PROVE  OpIsFor(op, team) /\ op.team = t
PROOF
<1>1. \/ \E new \in SUBSET Members(NoTeam) : op = Op(t, new, {}, FALSE)
      \/ \E p \in Members(t) : op = Op(t, {}, {p}, FALSE)
      \/ op = Op(t, {}, {}, FALSE)
      \/ op = Op(t, {}, Members(t), TRUE)
  <2> DEFINE some == kSubset(1, Members(NoTeam)) \cup kSubset(2, Members(NoTeam))
  <2>1. op \in {Op(t, new, {}, FALSE) : new \in some}
                 \cup {Op(t, {}, {p}, FALSE) : p \in Members(t)}
                 \cup {Op(t, {}, {}, FALSE), Op(t, {}, Members(t), TRUE)}
    BY DEF OpsOn, Op
  <2>2. some \in SUBSET SUBSET Members(NoTeam)
    BY DEF kSubset
  <2> HIDE DEF some
  <2>3. QED BY <2>1, <2>2
<1>2. CASE \E new \in SUBSET Members(NoTeam) : op = Op(t, new, {}, FALSE)
  BY <1>2 DEF OpIsFor, Members, Op
<1>3. CASE \E p \in Members(t) : op = Op(t, {}, {p}, FALSE)
  BY <1>3 DEF OpIsFor, Members, Op
<1>4. CASE op = Op(t, {}, {}, FALSE)
  BY <1>4 DEF OpIsFor, Op
<1>5. CASE op = Op(t, {}, Members(t), TRUE)
  BY <1>5 DEF OpIsFor, Members, Op
<1>6. QED BY <1>1, <1>2, <1>3, <1>4, <1>5

\* Who is where then: those who join are in the team, those who leave in none, and
\* all others where they were.
After(op, of, of2) ==
    \A p \in Person :
        of2[p] = IF p \in op.join THEN op.team ELSE IF p \in op.leave THEN NoTeam ELSE of[p]

LEMMA TeamAfterIs ==
    ASSUME NEW op, OpIsFor(op, team)
    PROVE  After(op, team, TeamAfter(op))
PROOF
<1>1. ASSUME NEW p \in op.join PROVE p \notin op.leave
  BY ContestsAssumption DEF OpIsFor
<1>2. ASSUME NEW p \in Person
      PROVE  TeamAfter(op)[p] = IF p \in op.join THEN op.team
                                ELSE IF p \in op.leave THEN NoTeam ELSE team[p]
  <2>1. TeamAfter(op)[p] = CASE p \in op.join -> op.team
                             [] p \in op.leave -> NoTeam
                             [] OTHER -> team[p]
    BY DEF TeamAfter
  <2>2. CASE p \in op.join
    BY <2>1, <2>2, <1>1
  <2>3. CASE p \notin op.join /\ p \in op.leave
    BY <2>1, <2>3
  <2>4. CASE p \notin op.join /\ p \notin op.leave
    BY <2>1, <2>4
  <2>5. QED BY <2>2, <2>3, <2>4
<1>3. QED BY <1>2 DEF After

-----------------------------------------------------------------------------
(* Tournaments of teams: what is due.                                      *)

HomeOf(order, t) == CHOOSE b \in Bracket : t \in Range(order[b])
RankedMembers(of, order, ms) ==
    UNION {{p \in Person : of[p] \in Ranked(order[b], ms[b])} : b \in Bracket}
LabelOf(order, ms, t) == RecordLabel(order[HomeOf(order, t)], ms[HomeOf(order, t)], t)

\* TeamTournament's Due, as it depends on the teams and the brackets.
TeamsDue(of, order, ms) ==
    [k \in RankedMembers(of, order, ms) \X {NoScope} |-> LabelOf(order, ms, of[k[1]])]

LEMMA TeamsDueIs ==
    /\ RecordsAre(Due) <=> Agrees(record, late, TeamsDue(team, entries, match))
    /\ RecordsAre(Due)' <=> Agrees(record', late', TeamsDue(team', entries', match'))
PROOF
<1>1. UNION {DOMAIN Labels(entries[b], match[b], team) : b \in Bracket}
        = RankedMembers(team, entries, match) \X {NoScope}
  BY DEF Labels, Whole, RankedMembers, Ranked
<1>2. UNION {DOMAIN Labels(entries'[b], match'[b], team') : b \in Bracket}
        = RankedMembers(team', entries', match') \X {NoScope}
  BY DEF Labels, Whole, RankedMembers, Ranked
<1>3. Due = TeamsDue(team, entries, match)
  BY <1>1 DEF Due, TeamsDue, LabelOf, HomeOf, Entered
<1>4. Due' = TeamsDue(team', entries', match')
  BY <1>2 DEF Due, TeamsDue, LabelOf, HomeOf, Entered
<1>5. RecordsAre(Due) <=> Agrees(record, late, Due)
  BY DEF RecordsAre, WithMember, Restrict, Stored, Agrees
<1>6. RecordsAre(Due)' <=> Agrees(record', late', Due')
  BY DEF RecordsAre, WithMember, Restrict, Stored, Agrees
<1>7. QED BY <1>3, <1>4, <1>5, <1>6

\* No team is in two brackets.
OneBracket(order) ==
    \A b, c \in Bracket : \A t \in Range(order[b]) : t \in Range(order[c]) => b = c

LEMMA DueOfMember ==
    ASSUME NEW of, NEW order, OneBracket(order), NEW ms, NEW p \in Person, NEW b \in Bracket,
           of[p] \in Ranked(order[b], ms[b])
    PROVE  /\ Key(p, NoScope) \in DOMAIN TeamsDue(of, order, ms)
           /\ TeamsDue(of, order, ms)[Key(p, NoScope)] = RecordLabel(order[b], ms[b], of[p])
PROOF
<1>1. p \in RankedMembers(of, order, ms)
  BY DEF RankedMembers
<1>2. Key(p, NoScope) \in RankedMembers(of, order, ms) \X {NoScope}
  BY <1>1 DEF Key
<1>3. HomeOf(order, of[p]) = b
  <2>1. \A c \in Bracket : of[p] \in Range(order[c]) <=> c = b
    BY DEF OneBracket, Ranked
  <2>2. QED BY <2>1 DEF HomeOf
<1>4. \A k \in RankedMembers(of, order, ms) \X {NoScope} :
        TeamsDue(of, order, ms)[k] = LabelOf(order, ms, of[k[1]])
  BY DEF TeamsDue
<1>5. TeamsDue(of, order, ms)[Key(p, NoScope)] = LabelOf(order, ms, of[p])
  BY <1>2, <1>4, KeyIs
<1>6. QED BY <1>2, <1>3, <1>5 DEF TeamsDue, LabelOf

LEMMA DueIsOfAMember ==
    ASSUME NEW of, NEW order, NEW ms, NEW k \in DOMAIN TeamsDue(of, order, ms)
    PROVE  \E p \in Person, b \in Bracket :
             k = Key(p, NoScope) /\ of[p] \in Ranked(order[b], ms[b])
PROOF
<1>1. k \in RankedMembers(of, order, ms) \X {NoScope}
  BY DEF TeamsDue
<1>2. PICK p \in RankedMembers(of, order, ms) : k = Key(p, NoScope)
  BY <1>1 DEF Key
<1>3. QED BY <1>2 DEF RankedMembers

LEMMA DueOfKey ==
    ASSUME NEW of, NEW order, NEW ms, NEW p,
           Key(p, NoScope) \in DOMAIN TeamsDue(of, order, ms)
    PROVE  p \in Person /\ \E b \in Bracket : of[p] \in Ranked(order[b], ms[b])
PROOF BY DueIsOfAMember, KeyIs

\* All but who, whose team or bracket may have changed, are owed the same.
LEMMA OtherMembersAsBefore ==
    ASSUME NEW of, NEW order, OneBracket(order), NEW ms,
           NEW of2, NEW order2, OneBracket(order2), NEW ms2, NEW who,
           \A p \in Person \ who : \A b \in Bracket :
             of[p] \in Range(order[b]) \/ of2[p] \in Range(order2[b])
               => of2[p] = of[p] /\ order2[b] = order[b] /\ ms2[b] = ms[b]
    PROVE  Redone(TeamsDue(of, order, ms), TeamsDue(of2, order2, ms2), who \X {NoScope})
PROOF
<1> DEFINE due == TeamsDue(of, order, ms)
           due2 == TeamsDue(of2, order2, ms2)
           keys == who \X {NoScope}
<1>1. ASSUME NEW p, Key(p, NoScope) \notin keys PROVE p \notin who
  BY <1>1 DEF Key
<1> HIDE DEF keys
<1>2. ASSUME NEW p \in Person \ who, NEW b \in Bracket
      PROVE  /\ of2[p] \in Ranked(order2[b], ms2[b]) <=> of[p] \in Ranked(order[b], ms[b])
             /\ of[p] \in Ranked(order[b], ms[b]) =>
                  of2[p] = of[p] /\ order2[b] = order[b] /\ ms2[b] = ms[b]
  BY DEF Ranked
<1>3. ASSUME NEW k \in DOMAIN due2, k \notin keys
      PROVE  k \in DOMAIN due /\ due2[k] = due[k]
  <2>1. PICK p \in Person, b \in Bracket :
          k = Key(p, NoScope) /\ of2[p] \in Ranked(order2[b], ms2[b])
    BY <1>3, DueIsOfAMember
  <2>2. p \notin who
    BY <1>1, <1>3, <2>1
  <2>3. of[p] \in Ranked(order[b], ms[b])
    BY <1>2, <2>1, <2>2
  <2>4. of2[p] = of[p] /\ order2[b] = order[b] /\ ms2[b] = ms[b]
    BY <1>2, <2>2, <2>3
  <2>5. k \in DOMAIN due /\ due[k] = RecordLabel(order[b], ms[b], of[p])
    BY <2>1, <2>3, DueOfMember
  <2>6. due2[k] = RecordLabel(order2[b], ms2[b], of2[p])
    BY <2>1, DueOfMember
  <2> HIDE DEF due, due2
  <2>7. QED BY <2>3, <2>4, <2>5, <2>6
<1>4. ASSUME NEW k \in DOMAIN due, k \notin keys PROVE k \in DOMAIN due2
  <2>1. PICK p \in Person, b \in Bracket :
          k = Key(p, NoScope) /\ of[p] \in Ranked(order[b], ms[b])
    BY <1>4, DueIsOfAMember
  <2>2. of2[p] \in Ranked(order2[b], ms2[b])
    BY <1>1, <1>2, <1>4, <2>1
  <2>3. QED BY <2>1, <2>2, DueOfMember
<1> HIDE DEF due, due2
<1>5. QED BY <1>3, <1>4 DEF Redone, due, due2, keys

\* What a handler writes of bracket b is due to those who are there or nowhere.
LEMMA MembersGetTheirLabels ==
    ASSUME NEW of, NEW order, OneBracket(order), NEW ms, NEW b \in Bracket,
           NEW who \in SUBSET Person,
           \A p \in who : \A c \in Bracket : of[p] \in Range(order[c]) => c = b
    PROVE  DueIs(TeamsDue(of, order, ms), who \X {NoScope}, Labels(order[b], ms[b], of))
PROOF
<1> DEFINE due == TeamsDue(of, order, ms)
           labels == Labels(order[b], ms[b], of)
           keys == who \X {NoScope}
           with == {p \in Person : of[p] \in Ranked(order[b], ms[b])}
<1>1. labels = [k \in with \X {NoScope} |-> RecordLabel(order[b], ms[b], of[k[1]])]
  BY DEF Labels, Whole, Ranked
<1>2. \A k \in keys : \E p \in who : k = Key(p, NoScope)
  BY DEF Key
<1> HIDE DEF labels, with, keys
<1>3. ASSUME NEW p PROVE Key(p, NoScope) \in DOMAIN labels <=> p \in with
  <2>1. DOMAIN labels = with \X {NoScope}
    BY <1>1
  <2>2. QED BY <2>1 DEF Key
<1>4. ASSUME NEW p \in who
      PROVE  Key(p, NoScope) \in DOMAIN due <=> Key(p, NoScope) \in DOMAIN labels
  <2>1. ASSUME Key(p, NoScope) \in DOMAIN due PROVE p \in with
    <3>1. PICK c \in Bracket : of[p] \in Ranked(order[c], ms[c])
      BY <2>1, DueOfKey
    <3>2. c = b
      BY <3>1 DEF Ranked
    <3>3. QED BY <3>1, <3>2 DEF with
  <2>2. ASSUME p \in with PROVE Key(p, NoScope) \in DOMAIN due
    BY <2>2, DueOfMember DEF with
  <2>3. QED BY <2>1, <2>2, <1>3
<1>5. ASSUME NEW p \in who, Key(p, NoScope) \in DOMAIN due
      PROVE  due[Key(p, NoScope)] = labels[Key(p, NoScope)]
  <2>1. p \in with
    BY <1>3, <1>4, <1>5
  <2>2. due[Key(p, NoScope)] = RecordLabel(order[b], ms[b], of[p])
    BY <2>1, DueOfMember DEF with
  <2>3. \A k \in DOMAIN labels : labels[k] = RecordLabel(order[b], ms[b], of[k[1]])
    BY <1>1
  <2>4. labels[Key(p, NoScope)] = RecordLabel(order[b], ms[b], of[p])
    BY <2>3, <1>4, <1>5, KeyIs
  <2> HIDE DEF due
  <2>5. QED BY <2>2, <2>4
<1> HIDE DEF due
<1>6. DueIs(due, keys, labels)
  BY <1>2, <1>4, <1>5 DEF DueIs
<1>7. QED BY <1>6 DEF due, keys, labels

-----------------------------------------------------------------------------
(* Tournaments of teams: the steps.                                        *)

\* What a handler on a team has read: the one bracket that its team is in.
HasSeen(seen, of) ==
    /\ OpIsFor(seen.op, of)
    /\ seen.cleared = seen.op.leave \X {NoScope}
    /\ \E b \in Bracket :
         /\ seen.home = {b} /\ seen.op.team \in Range(seen.people[b])
         /\ seen.op.gone => Decided(seen.match[b]) = {}

TeamsInv ==
    /\ TreesAre(Team, entries, match)
    /\ \A b \in Bracket : IsInjective(entries[b])
    /\ OneBracket(entries)
    /\ Agrees(record, late, TeamsDue(team, entries, match))
    /\ busy # Idle => HasSeen(busy, team)

\* Where the entries of b become people, who are in no other bracket.
LEMMA StillOneBracket ==
    ASSUME NEW order, order = [b \in Bracket |-> order[b]], OneBracket(order),
           \A b \in Bracket : IsInjective(order[b]),
           NEW b \in Bracket, NEW people, IsInjective(people),
           \A c \in Bracket : c # b => Range(people) \cap Range(order[c]) = {}
    PROVE  LET order2 == [order EXCEPT ![b] = people]
           IN  OneBracket(order2) /\ \A c \in Bracket : IsInjective(order2[c])
PROOF
<1> DEFINE order2 == [order EXCEPT ![b] = people]
<1>1. order2[b] = people /\ \A c \in Bracket : c # b => order2[c] = order[c]
  OBVIOUS
<1> HIDE DEF order2
<1>2. \A c \in Bracket : IsInjective(order2[c])
  BY <1>1
<1>3. ASSUME NEW c \in Bracket, NEW d \in Bracket, NEW t \in Range(order2[c]),
             t \in Range(order2[d])
      PROVE  c = d
  BY <1>1, <1>3 DEF OneBracket
<1>4. OneBracket(order2)
  BY <1>3 DEF OneBracket
<1>5. QED BY <1>2, <1>4 DEF order2

\* The trees and the records after a handler has written the records of who, in
\* bracket b or in none by then.
LEMMA TeamsWrite ==
    ASSUME TeamsInv, NEW b \in Bracket, NEW who \in SUBSET Person, NEW labels,
           NEW outdated \in BOOLEAN,
           Write(who \X {NoScope}, labels, outdated),
           DOMAIN labels \subseteq who \X {NoScope},
           ~outdated => labels = Labels(entries'[b], match'[b], team'),
           OneBracket(entries'),
           \A p \in who : \A c \in Bracket : team'[p] \in Range(entries'[c]) => c = b,
           \A p \in Person \ who : \A c \in Bracket :
             team[p] \in Range(entries[c]) \/ team'[p] \in Range(entries'[c])
               => team'[p] = team[p] /\ entries'[c] = entries[c] /\ match'[c] = match[c]
    PROVE  Agrees(record', late', TeamsDue(team', entries', match'))
PROOF
<1> DEFINE keys == who \X {NoScope}
<1>1. Redone(TeamsDue(team, entries, match), TeamsDue(team', entries', match'), keys)
  BY OtherMembersAsBefore DEF TeamsInv
<1>2. DueIs(TeamsDue(team', entries', match'), keys, Labels(entries'[b], match'[b], team'))
  BY MembersGetTheirLabels
<1> HIDE DEF keys
<1>3. Written(record, record', keys, labels) /\ late' = Excused(late, keys, outdated)
  <2>1. Write(keys, labels, outdated)
    BY DEF keys
  <2>2. QED BY <2>1 DEF Write, Over, WithMember, Restrict, Written, Excused
<1>4. DOMAIN labels \subseteq keys
  BY DEF keys
<1>5. QED BY <1>1, <1>2, <1>3, <1>4, WritingAgrees DEF TeamsInv

\* The members of all teams in ts.
LEMMA KeysOfIs ==
    ASSUME NEW ts, NEW of
    PROVE  KeysOf(ts, of) = {p \in Person : of[p] \in ts} \X {NoScope}
PROOF BY DEF KeysOf, Whole

LEMMA LabelsAreOfMembers ==
    ASSUME NEW people, NEW ms, NEW of
    PROVE  DOMAIN Labels(people, ms, of) \subseteq KeysOf(Range(people), of)
PROOF BY DEF Labels, KeysOf, Whole

LEMMA RedrawStep ==
    ASSUME TeamsInv, NEW b \in Bracket, NEW people \in Seq(Team), Len(people) <= Room[b],
           IsInjective(people),
           \A c \in Bracket : c # b => Range(people) \cap Range(entries[c]) = {},
           NEW m, Redraw(b, people, m)
    PROVE  TeamsInv'
PROOF
<1> DEFINE drawn == Materialize(people, m)
           ts == Range(people) \cup Range(entries[b])
           who == {p \in Person : team[p] \in ts}
           labels == Labels(people, drawn, team)
<1>1. /\ entries' = [entries EXCEPT ![b] = people]
      /\ match' = [match EXCEPT ![b] = drawn]
      /\ Write(KeysOf(ts, team), labels, FALSE)
      /\ UNCHANGED <<team, busy>>
  BY DEF Redraw, Rewrite, Entered
<1>2. TreesAre(Team, entries', match')
  BY <1>1, TreesDrawn DEF TeamsInv
<1>3. OneBracket(entries') /\ \A c \in Bracket : IsInjective(entries'[c])
  BY <1>1, StillOneBracket DEF TeamsInv, TreesAre
<1>4. DOMAIN labels \subseteq who \X {NoScope}
  BY DEF Labels, Whole
<1> HIDE DEF drawn, labels
<1>5. /\ entries'[b] = people /\ match'[b] = drawn
      /\ \A c \in Bracket : c # b => entries'[c] = entries[c] /\ match'[c] = match[c]
  BY <1>1 DEF TeamsInv, TreesAre
<1>6. Write(who \X {NoScope}, labels, FALSE)
  BY <1>1, KeysOfIs
<1>7. labels = Labels(entries'[b], match'[b], team')
  BY <1>1, <1>5 DEF labels
<1>8. ASSUME NEW p \in who, NEW c \in Bracket, team'[p] \in Range(entries'[c]) PROVE c = b
  <2>1. CASE team[p] \in Range(people)
    BY <2>1, <1>1, <1>3, <1>5, <1>8 DEF OneBracket
  <2>2. CASE team[p] \in Range(entries[b])
    BY <2>2, <1>1, <1>5, <1>8 DEF OneBracket, TeamsInv
  <2>3. QED BY <2>1, <2>2
<1>9. ASSUME NEW p \in Person \ who, NEW c \in Bracket,
             team[p] \in Range(entries[c]) \cup Range(entries'[c])
      PROVE  c # b
  BY <1>5, <1>9
<1> HIDE DEF who
<1>10. Agrees(record', late', TeamsDue(team', entries', match'))
  <2>1. who \in SUBSET Person
    BY DEF who
  <2>2. \A p \in Person \ who : \A c \in Bracket :
          team[p] \in Range(entries[c]) \/ team'[p] \in Range(entries'[c])
            => team'[p] = team[p] /\ entries'[c] = entries[c] /\ match'[c] = match[c]
    BY <1>1, <1>5, <1>9
  <2>3. QED BY <2>1, <2>2, <1>3, <1>4, <1>6, <1>7, <1>8, TeamsWrite
<1>11. (busy # Idle => HasSeen(busy, team))'
  BY <1>1 DEF TeamsInv
<1>12. QED BY <1>2, <1>3, <1>10, <1>11 DEF TeamsInv

LEMMA RemoveBracketStep ==
    ASSUME TeamsInv, NEW b \in Bracket, RemoveBracket(b)
    PROVE  TeamsInv'
PROOF
<1> DEFINE who == {p \in Person : team[p] \in Range(entries[b])}
<1>1. /\ entries' = [entries EXCEPT ![b] = <<>>]
      /\ match' = [match EXCEPT ![b] = <<>>]
      /\ Write(KeysOf(Range(entries[b]), team), <<>>, FALSE)
      /\ UNCHANGED <<team, busy>>
  BY DEF RemoveBracket, Rewrite, Entered
<1>2. TreesAre(Team, entries', match')
  BY <1>1, TreesEmptied DEF TeamsInv
<1>3. Range(<<>>) = {} /\ IsInjective(<<>>) /\ DOMAIN <<>> = {}
  BY DEF Range, IsInjective
<1>4. OneBracket(entries') /\ \A c \in Bracket : IsInjective(entries'[c])
  BY <1>1, <1>3, StillOneBracket DEF TeamsInv, TreesAre
<1>5. /\ entries'[b] = <<>> /\ match'[b] = <<>>
      /\ \A c \in Bracket : c # b => entries'[c] = entries[c] /\ match'[c] = match[c]
  BY <1>1 DEF TeamsInv, TreesAre
<1>6. Write(who \X {NoScope}, <<>>, FALSE)
  BY <1>1, KeysOfIs
<1>7. <<>> = Labels(entries'[b], match'[b], team')
  <2>1. {p \in Person : team'[p] \in Range(<<>>) /\ Mine(<<>>, team'[p]) # {}} = {}
    BY <1>3
  <2>2. Labels(<<>>, <<>>, team') = [k \in {} \X {NoScope} |-> RecordLabel(<<>>, <<>>, team'[k[1]])]
    BY <2>1 DEF Labels, Whole
  <2>3. {} \X {NoScope} = {}
    OBVIOUS
  <2>4. Labels(<<>>, <<>>, team') = <<>>
    BY <2>2, <2>3
  <2>5. QED BY <2>4, <1>5
<1>8. ASSUME NEW p \in who, NEW c \in Bracket, team'[p] \in Range(entries'[c]) PROVE c = b
  BY <1>1, <1>5, <1>8 DEF OneBracket, TeamsInv
<1>9. ASSUME NEW p \in Person \ who, NEW c \in Bracket,
             team[p] \in Range(entries[c]) \cup Range(entries'[c])
      PROVE  c # b
  BY <1>3, <1>5, <1>9
<1> HIDE DEF who
<1>10. Agrees(record', late', TeamsDue(team', entries', match'))
  <2>1. who \in SUBSET Person /\ DOMAIN <<>> \subseteq who \X {NoScope}
    BY <1>3 DEF who
  <2>2. \A p \in Person \ who : \A c \in Bracket :
          team[p] \in Range(entries[c]) \/ team'[p] \in Range(entries'[c])
            => team'[p] = team[p] /\ entries'[c] = entries[c] /\ match'[c] = match[c]
    BY <1>1, <1>5, <1>9
  <2>3. QED BY <2>1, <2>2, <1>4, <1>6, <1>7, <1>8, TeamsWrite
<1>11. (busy # Idle => HasSeen(busy, team))'
  BY <1>1 DEF TeamsInv
<1>12. QED BY <1>2, <1>4, <1>10, <1>11 DEF TeamsInv

LEMMA NobodyIsEntered ==
    ASSUME NEW order, NEW ms, TreesAre(Team, order, ms), NEW b \in Bracket
    PROVE  Range(order[b]) \subseteq Team /\ NoTeam \notin Range(order[b])
PROOF
<1>1. order[b] \in Seq(Team)
  BY DEF TreesAre
<1>2. \A i \in DOMAIN order[b] : order[b][i] \in Team
  BY <1>1
<1>3. QED BY <1>2, ContestsAssumption DEF Range

\* A handler on a team that is in no bracket.
LEMMA ChangeTeamStep ==
    ASSUME TeamsInv, NEW op, OpIsFor(op, team), ChangeTeam(op)
    PROVE  TeamsInv'
PROOF
<1> DEFINE keys == op.leave \X {NoScope}
<1>1. /\ team' = TeamAfter(op) /\ busy' = busy /\ busy = Idle
      /\ \A b \in Bracket : op.team \notin Range(entries[b])
      /\ Write(keys, <<>>, FALSE)
  BY DEF ChangeTeam, Finish, Seen, Home, Entered, Rewrite, Cleared, Whole
<1>2. entries' = entries /\ match' = match
  <2>1. /\ entries = [b \in Bracket |-> entries[b]] /\ match = [b \in Bracket |-> match[b]]
    BY DEF TeamsInv, TreesAre
  <2>2. ASSUME NEW f, f = [b \in Bracket |-> f[b]], NEW g, DOMAIN g = {} PROVE Over(g, f) = f
    BY <2>2 DEF Over
  <2>3. Seen(op).home = {} /\ Seen(op).op = op
    BY DEF ChangeTeam, Seen
  <2> DEFINE left == [b \in {} |-> Without(b, op.team)]
             drawn == [b \in {} |-> Materialize(left[b], match[b])]
  <2>4. /\ entries' = IF op.gone THEN Over(left, entries) ELSE entries
        /\ match' = IF op.gone THEN Over(drawn, match) ELSE match
    BY <2>3 DEF ChangeTeam, Finish
  <2>5. DOMAIN left = {} /\ DOMAIN drawn = {}
    OBVIOUS
  <2> HIDE DEF left, drawn
  <2>6. Over(left, entries) = entries /\ Over(drawn, match) = match
    BY <2>1, <2>2, <2>5
  <2>7. QED BY <2>4, <2>6
<1>3. After(op, team, team')
  BY <1>1, TeamAfterIs
<1>4. \A b \in Bracket : NoTeam \notin Range(entries[b])
  BY NobodyIsEntered DEF TeamsInv
<1> DEFINE due == TeamsDue(team, entries, match)
           due2 == TeamsDue(team', entries', match')
<1>5. Redone(due, due2, keys)
  <2>1. ASSUME NEW p \in Person \ op.leave, NEW b \in Bracket,
               team[p] \in Range(entries[b]) \/ team'[p] \in Range(entries'[b])
        PROVE  team'[p] = team[p]
    BY <2>1, <1>1, <1>2, <1>3, <1>4 DEF After, OpIsFor
  <2>2. OneBracket(entries) /\ OneBracket(entries')
    BY <1>2 DEF TeamsInv
  <2>3. QED BY <2>1, <2>2, <1>2, OtherMembersAsBefore
<1>6. DueIs(due2, keys, <<>>)
  <2>1. ASSUME NEW p \in op.leave PROVE Key(p, NoScope) \notin DOMAIN due2
    <3>1. p \in Person /\ team'[p] = NoTeam
      BY <1>3, <2>1, ContestsAssumption DEF After, OpIsFor
    <3>2. ASSUME Key(p, NoScope) \in DOMAIN due2
          PROVE  \E b \in Bracket : team'[p] \in Range(entries'[b])
      <4>1. PICK b \in Bracket : team'[p] \in Ranked(entries'[b], match'[b])
        BY <3>2, DueOfKey
      <4>2. QED BY <4>1 DEF Ranked
    <3>3. QED BY <3>1, <3>2, <1>2, <1>4
  <2>2. \A k \in keys : \E p \in op.leave : k = Key(p, NoScope)
    BY DEF Key
  <2>3. DOMAIN <<>> = {}
    OBVIOUS
  <2> HIDE DEF keys, due2
  <2>4. QED BY <2>1, <2>2, <2>3 DEF DueIs
<1>7. Written(record, record', keys, <<>>) /\ late' = Excused(late, keys, FALSE)
  <2> HIDE DEF keys
  <2>1. QED BY <1>1 DEF Write, Over, WithMember, Restrict, Written, Excused
<1>8. DOMAIN <<>> \subseteq keys
  OBVIOUS
<1>9. Agrees(record, late, due)
  BY DEF TeamsInv
<1> HIDE DEF keys, due, due2
<1>10. Agrees(record', late', due2)
  BY <1>5, <1>6, <1>7, <1>8, <1>9, WritingAgrees
<1>11. QED BY <1>1, <1>2, <1>10 DEF TeamsInv, TreesAre, due2

\* The end of a handler on a team of bracket b: what Finish does there.
FinishIn(b, seen) ==
    LET op == seen.op
        left == Without(b, op.team)
        people == IF op.gone THEN left ELSE seen.people[b]
        by == IF op.gone THEN Materialize(left, match[b]) ELSE seen.match[b]
        keys == (op.leave \X {NoScope}) \cup KeysOf(Range(people), team')
    IN  /\ team' = TeamAfter(op)
        /\ entries' = IF op.gone THEN [entries EXCEPT ![b] = people] ELSE entries
        /\ match' = IF op.gone THEN [match EXCEPT ![b] = by] ELSE match
        /\ Write(keys, Labels(people, by, team'), ~op.gone /\ Outdated(seen))

LEMMA OverOne ==
    ASSUME NEW f, f = [b \in Bracket |-> f[b]], NEW b \in Bracket, NEW g, DOMAIN g = {b}
    PROVE  Over(g, f) = [f EXCEPT ![b] = g[b]]
PROOF BY DEF Over

LEMMA FinishIsInOne ==
    ASSUME TeamsInv, NEW seen, NEW b \in Bracket, seen.home = {b},
           seen.cleared = seen.op.leave \X {NoScope}, seen.op.gone \in BOOLEAN, Finish(seen)
    PROVE  FinishIn(b, seen)
PROOF
<1> DEFINE op == seen.op
           left == [c \in seen.home |-> Without(c, op.team)]
           drawn == [c \in seen.home |-> Materialize(left[c], match[c])]
           people == IF op.gone THEN left ELSE seen.people
           by == IF op.gone THEN drawn ELSE seen.match
           all == UNION {KeysOf(Range(people[c]), team') : c \in seen.home}
<1>1. /\ team' = TeamAfter(op)
      /\ entries' = IF op.gone THEN Over(left, entries) ELSE entries
      /\ match' = IF op.gone THEN Over(drawn, match) ELSE match
      /\ \/ seen.home = {}
         \/ \E c \in seen.home :
              Write(seen.cleared \cup all, Labels(people[c], by[c], team'),
                    ~op.gone /\ Outdated(seen))
  BY DEF Finish
<1>2. /\ left[b] = Without(b, op.team) /\ drawn[b] = Materialize(left[b], match[b])
      /\ DOMAIN left = {b} /\ DOMAIN drawn = {b}
  OBVIOUS
<1>3. people[b] = IF op.gone THEN Without(b, op.team) ELSE seen.people[b]
  BY <1>2
<1>4. by[b] = IF op.gone THEN Materialize(Without(b, op.team), match[b]) ELSE seen.match[b]
  BY <1>2
<1> HIDE DEF left, drawn, people, by
<1>5. all = KeysOf(Range(people[b]), team')
  OBVIOUS
<1> HIDE DEF all
<1> HIDE DEF op
<1>6. Over(left, entries) = [entries EXCEPT ![b] = left[b]]
  <2>1. entries = [c \in Bracket |-> entries[c]]
    BY DEF TeamsInv, TreesAre
  <2>2. QED BY <2>1, <1>2, OverOne
<1>7. Over(drawn, match) = [match EXCEPT ![b] = drawn[b]]
  <2>1. match = [c \in Bracket |-> match[c]]
    BY DEF TeamsInv, TreesAre
  <2>2. QED BY <2>1, <1>2, OverOne
<1>8. Write(seen.cleared \cup all, Labels(people[b], by[b], team'), ~op.gone /\ Outdated(seen))
  BY <1>1
<1>9. /\ entries' = IF op.gone THEN [entries EXCEPT ![b] = people[b]] ELSE entries
      /\ match' = IF op.gone THEN [match EXCEPT ![b] = by[b]] ELSE match
  BY <1>1, <1>2, <1>3, <1>4, <1>6, <1>7
<1>10. seen.cleared \cup all = (op.leave \X {NoScope}) \cup KeysOf(Range(people[b]), team')
  BY <1>5 DEF op
<1> DEFINE P == people[b]
           M == by[b]
<1>11. /\ team' = TeamAfter(op)
       /\ entries' = IF op.gone THEN [entries EXCEPT ![b] = P] ELSE entries
       /\ match' = IF op.gone THEN [match EXCEPT ![b] = M] ELSE match
       /\ Write((op.leave \X {NoScope}) \cup KeysOf(Range(P), team'), Labels(P, M, team'),
                ~op.gone /\ Outdated(seen))
  BY <1>1, <1>8, <1>9, <1>10
<1>12. P = IF op.gone THEN Without(b, op.team) ELSE seen.people[b]
  BY <1>3
<1>13. M = IF op.gone THEN Materialize(Without(b, op.team), match[b]) ELSE seen.match[b]
  BY <1>4
<1> HIDE DEF P, M
<1>14. CASE op.gone
  BY <1>11, <1>12, <1>13, <1>14 DEF FinishIn, op
<1>15. CASE ~op.gone
  BY <1>11, <1>12, <1>13, <1>15 DEF FinishIn, op
<1>16. QED BY <1>14, <1>15

\* A handler that leaves the brackets alone, with what it has seen of them.
LEMMA KeptTeamStep ==
    ASSUME TeamsInv, busy # Idle, NEW b \in Bracket, ~busy.op.gone,
           busy.op.team \in Range(busy.people[b]), busy.home = {b},
           FinishIn(b, busy), busy' = Idle
    PROVE  TeamsInv'
PROOF
<1> DEFINE op == busy.op
           who == op.leave \cup {p \in Person : team'[p] \in Range(busy.people[b])}
           labels == Labels(busy.people[b], busy.match[b], team')
           outdated == ~op.gone /\ Outdated(busy)
<1>1. OpIsFor(op, team)
  BY DEF TeamsInv, HasSeen
<1>2. /\ team' = TeamAfter(op) /\ entries' = entries /\ match' = match
      /\ Write((op.leave \X {NoScope}) \cup KeysOf(Range(busy.people[b]), team'), labels,
               outdated)
  BY DEF FinishIn
<1>3. After(op, team, team')
  BY <1>1, <1>2, TeamAfterIs
<1>4. (op.leave \X {NoScope}) \cup KeysOf(Range(busy.people[b]), team') = who \X {NoScope}
  <2>1. KeysOf(Range(busy.people[b]), team')
          = {p \in Person : team'[p] \in Range(busy.people[b])} \X {NoScope}
    BY KeysOfIs
  <2>2. QED BY <2>1
<1>5. Write(who \X {NoScope}, labels, outdated)
  BY <1>2, <1>4
<1>6. DOMAIN labels \subseteq who \X {NoScope}
  <2>1. DOMAIN labels \subseteq KeysOf(Range(busy.people[b]), team')
    BY LabelsAreOfMembers
  <2>2. QED BY <2>1, <1>4
<1>7. ~outdated => busy.people[b] = entries[b] /\ busy.match[b] = match[b]
  BY DEF Outdated
<1>8. ~outdated => labels = Labels(entries'[b], match'[b], team')
  BY <1>2, <1>7
<1>9. who \in SUBSET Person
  BY <1>1 DEF OpIsFor
<1>10. ASSUME NEW c \in Bracket PROVE NoTeam \notin Range(entries[c])
  BY NobodyIsEntered DEF TeamsInv
<1>11. ASSUME NEW p \in Person \ who, NEW c \in Bracket,
              team[p] \in Range(entries[c]) \/ team'[p] \in Range(entries'[c])
       PROVE  team'[p] = team[p] /\ entries'[c] = entries[c] /\ match'[c] = match[c]
  <2>1. p \notin op.join /\ p \notin op.leave
    BY <1>3, <1>11 DEF After
  <2>2. QED BY <2>1, <1>2, <1>3 DEF After
<1>12. OneBracket(entries')
  BY <1>2 DEF TeamsInv
<1>13. Agrees(record', late', TeamsDue(team', entries', match'))
  <2>1. CASE outdated
    <3>1. Written(record, record', who \X {NoScope}, labels)
      <4> DEFINE keys == who \X {NoScope}
      <4>1. Write(keys, labels, outdated)
        BY <1>5
      <4> HIDE DEF keys, labels
      <4>2. Written(record, record', keys, labels)
        BY <4>1 DEF Write, Over, WithMember, Restrict, Written
      <4>3. QED BY <4>2 DEF keys
    <3>2. late' = Excused(late, who \X {NoScope}, TRUE)
      BY <1>5, <2>1 DEF Write, Excused
    <3> HIDE DEF labels, who
    <3>3. Redone(TeamsDue(team, entries, match), TeamsDue(team', entries', match'),
                 who \X {NoScope})
      BY <1>11, <1>12, OtherMembersAsBefore DEF TeamsInv
    <3> DEFINE keys == who \X {NoScope}
               due == TeamsDue(team, entries, match)
               due2 == TeamsDue(team', entries', match')
    <3>4. Agrees(record, late, due) /\ Redone(due, due2, keys)
      BY <3>3 DEF TeamsInv
    <3>5. Written(record, record', keys, labels) /\ DOMAIN labels \subseteq keys
      BY <3>1, <1>6
    <3> HIDE DEF keys, due, due2
    <3>6. Agrees(record', Excused(late, keys, TRUE), due2)
      BY <3>4, <3>5, WritingAgrees
    <3>7. QED BY <3>2, <3>6 DEF keys, due2
  <2>2. CASE ~outdated
    <3>1. ASSUME NEW p \in who, NEW c \in Bracket, team'[p] \in Range(entries'[c]) PROVE c = b
      <4>1. p \in Person /\ (p \in op.leave => p \notin op.join)
        BY <1>1, ContestsAssumption DEF OpIsFor
      <4>2. CASE team'[p] \in Range(busy.people[b])
        BY <4>2, <3>1, <2>2, <1>2, <1>7 DEF OneBracket, TeamsInv
      <4>3. CASE p \in op.leave
        BY <4>1, <4>3, <3>1, <1>2, <1>3, <1>10 DEF After
      <4>4. QED BY <4>2, <4>3
    <3>2. Write(who \X {NoScope}, labels, FALSE)
      BY <1>5, <2>2 DEF Write
    <3>3. labels = Labels(entries'[b], match'[b], team')
      BY <1>8, <2>2
    <3> HIDE DEF labels, who
    <3>4. \A p \in Person \ who : \A c \in Bracket :
            team[p] \in Range(entries[c]) \/ team'[p] \in Range(entries'[c])
              => team'[p] = team[p] /\ entries'[c] = entries[c] /\ match'[c] = match[c]
      BY <1>11
    <3>5. QED BY <3>1, <3>2, <3>3, <3>4, <1>6, <1>9, <1>12, TeamsWrite
  <2>3. QED BY <2>1, <2>2
<1>14. QED BY <1>2, <1>13 DEF TeamsInv, TreesAre

\* remove_team, which draws the tree anew.
LEMMA GoneTeamStep ==
    ASSUME TeamsInv, busy # Idle, NEW b \in Bracket, busy.op.gone, busy.home = {b},
           FinishIn(b, busy), busy' = Idle
    PROVE  TeamsInv'
PROOF
<1> DEFINE op == busy.op
           left == Without(b, op.team)
           drawn == Materialize(left, match[b])
           who == op.leave \cup {p \in Person : team'[p] \in Range(left)}
           labels == Labels(left, drawn, team')
<1>1. OpIsFor(op, team)
  BY DEF TeamsInv, HasSeen
<1>2. /\ team' = TeamAfter(op)
      /\ entries' = [entries EXCEPT ![b] = left] /\ match' = [match EXCEPT ![b] = drawn]
      /\ Write((op.leave \X {NoScope}) \cup KeysOf(Range(left), team'), labels, FALSE)
  BY DEF FinishIn
<1>3. After(op, team, team')
  BY <1>1, <1>2, TeamAfterIs
<1>4. (op.leave \X {NoScope}) \cup KeysOf(Range(left), team') = who \X {NoScope}
  <2>1. KeysOf(Range(left), team') = {p \in Person : team'[p] \in Range(left)} \X {NoScope}
    BY KeysOfIs
  <2> HIDE DEF left
  <2>2. QED BY <2>1
<1>5. Write(who \X {NoScope}, labels, FALSE)
  BY <1>2, <1>4
<1>6. DOMAIN labels \subseteq who \X {NoScope}
  <2>1. DOMAIN labels \subseteq KeysOf(Range(left), team')
    BY LabelsAreOfMembers
  <2>2. QED BY <2>1, <1>4
<1>7. /\ left \in Seq(Team) /\ Len(left) <= Room[b]
      /\ IsInjective(left) /\ Range(left) = Range(entries[b]) \ {op.team}
  <2>1. /\ entries[b] \in Seq(Team) /\ Len(entries[b]) <= Room[b] /\ Len(entries[b]) \in Nat
        /\ IsInjective(entries[b])
    BY DEF TeamsInv, TreesAre
  <2>2. /\ left \in Seq(Team) /\ Len(left) <= Len(entries[b])
        /\ IsInjective(left) /\ Range(left) = Range(entries[b]) \ {op.team}
    BY <2>1, LeavingIs DEF Without
  <2>3. Len(left) \in Nat /\ Room[b] \in Nat
    BY <2>2, RoomAssumption, TreesAssumption
  <2> HIDE DEF left
  <2>4. QED BY <2>1, <2>2, <2>3
<1> HIDE DEF left
<1>8. TreesAre(Team, entries', match')
  BY <1>2, <1>7, TreesDrawn DEF TeamsInv
<1>9. OneBracket(entries') /\ \A c \in Bracket : IsInjective(entries'[c])
  <2>1. \A c \in Bracket : c # b => Range(left) \cap Range(entries[c]) = {}
    BY <1>7 DEF TeamsInv, OneBracket
  <2>2. QED BY <2>1, <1>2, <1>7, StillOneBracket DEF TeamsInv, TreesAre
<1> HIDE DEF drawn
<1>10. /\ entries'[b] = left /\ match'[b] = drawn
       /\ \A c \in Bracket : c # b => entries'[c] = entries[c] /\ match'[c] = match[c]
  BY <1>2 DEF TeamsInv, TreesAre
<1>11. ASSUME NEW p \in Person \ who
       PROVE  /\ team'[p] = team[p] /\ team[p] # op.team
              /\ team[p] \notin Range(left) /\ team[p] \notin Range(entries[b])
  <2>1. p \notin op.leave /\ p \notin op.join /\ team'[p] \notin Range(left)
    BY <1>1, <1>11 DEF OpIsFor
  <2>2. team'[p] = team[p] /\ team[p] # op.team
    BY <2>1, <1>1, <1>3 DEF After, OpIsFor
  <2>3. QED BY <2>1, <2>2, <1>7
<1>12. \A p \in Person \ who : \A c \in Bracket :
         team[p] \in Range(entries[c]) \/ team'[p] \in Range(entries'[c])
           => team'[p] = team[p] /\ entries'[c] = entries[c] /\ match'[c] = match[c]
  <2> HIDE DEF who
  <2>1. QED BY <1>10, <1>11
<1>13. ASSUME NEW p \in who, NEW c \in Bracket, team'[p] \in Range(entries'[c]) PROVE c = b
  <2>1. CASE team'[p] \in Range(left)
    BY <2>1, <1>9, <1>10, <1>13 DEF OneBracket
  <2>2. CASE p \in op.leave
    <3>1. team'[p] = NoTeam
      BY <2>2, <1>1, <1>3 DEF After, OpIsFor
    <3>2. NoTeam \notin Range(entries'[c])
      BY <1>8, NobodyIsEntered
    <3>3. QED BY <3>1, <3>2, <1>13
  <2>3. QED BY <2>1, <2>2
<1>14. who \in SUBSET Person
  BY <1>1 DEF OpIsFor
<1>15. labels = Labels(entries'[b], match'[b], team')
  BY <1>10
<1> HIDE DEF who, labels
<1>16. Agrees(record', late', TeamsDue(team', entries', match'))
  BY <1>5, <1>6, <1>9, <1>12, <1>13, <1>14, <1>15, TeamsWrite
<1>17. QED BY <1>8, <1>9, <1>16 DEF TeamsInv

LEMMA TeamsOwnerStep ==
    ASSUME TeamsInv, NEW k, UNCHANGED <<team, busy, entries, match>>,
           EraseRecord(k) \/ (KeepText(k) /\ k \in Stored)
    PROVE  TeamsInv'
PROOF
<1>1. /\ k \in DOMAIN record /\ record[k] # Erased
      /\ record'[k] \in {Typed, Erased}
      /\ DOMAIN record' = DOMAIN record
      /\ \A o \in DOMAIN record : o # k => record'[o] = record[o]
      /\ late' = late
  BY DEF EraseRecord, KeepText, Stored, Put
<1>2. Agrees(record', late, TeamsDue(team, entries, match))
  BY <1>1, OwnTextAgrees DEF TeamsInv
<1>3. QED BY <1>1, <1>2 DEF TeamsInv, TreesAre

LEMMA BeginTeamStep ==
    ASSUME TeamsInv, NEW op, OpIsFor(op, team), BeginChange(op)
    PROVE  TeamsInv'
PROOF
<1>1. /\ busy' = Seen(op) /\ UNCHANGED <<team, entries, match, record, late>>
      /\ Home(op.team) # {}
  BY DEF BeginChange
<1>2. PICK b \in Bracket : op.team \in Range(entries[b])
  BY <1>1 DEF Home, Entered
<1>3. Home(op.team) = {b}
  BY <1>2 DEF Home, Entered, TeamsInv, OneBracket
<1>4. HasSeen(Seen(op), team)
  <2>1. /\ Seen(op).op = op /\ Seen(op).cleared = op.leave \X {NoScope}
        /\ Seen(op).home = {b} /\ Seen(op).people[b] = entries[b]
        /\ Seen(op).match[b] = match[b]
    BY <1>3 DEF Seen, Cleared, Whole
  <2>2. op.gone => Decided(match[b]) = {}
    BY <1>3 DEF BeginChange, Allowed, Locked, TeamsInv, TreesAre
  <2>3. QED BY <2>1, <2>2, <1>2 DEF HasSeen
<1>5. QED BY <1>1, <1>4 DEF TeamsInv, TreesAre

LEMMA EndTeamStep ==
    ASSUME TeamsInv, EndChange
    PROVE  TeamsInv'
PROOF
<1>1. busy # Idle /\ Finish(busy) /\ busy' = Idle /\ HasSeen(busy, team)
  BY DEF EndChange, TeamsInv
<1>2. PICK b \in Bracket : busy.home = {b} /\ busy.op.team \in Range(busy.people[b])
  BY <1>1 DEF HasSeen
<1>3. busy.op.gone \in BOOLEAN /\ busy.cleared = busy.op.leave \X {NoScope}
  BY <1>1 DEF HasSeen, OpIsFor
<1>4. FinishIn(b, busy)
  BY <1>1, <1>2, <1>3, FinishIsInOne
<1>5. QED BY <1>1, <1>2, <1>3, <1>4, KeptTeamStep, GoneTeamStep

\* Every step of a tournament of teams keeps the matches those of the tree, no team
\* in two brackets, and the records true.
LEMMA TeamsStep ==
    ASSUME TeamsInv, Next
    PROVE  TeamsInv'
PROOF
<1>1. ASSUME NEW b \in Bracket
      PROVE  /\ entries[b] \in Seq(Team) /\ Len(entries[b]) <= Room[b]
             /\ Len(entries[b]) \in Nat /\ IsInjective(entries[b])
             /\ \A c \in Bracket : c # b => Range(entries[b]) \cap Range(entries[c]) = {}
  <2>1. entries[b] \in Seq(Team) /\ Len(entries[b]) <= Room[b] /\ IsInjective(entries[b])
    BY DEF TeamsInv, TreesAre
  <2>2. \A c \in Bracket : c # b => Range(entries[b]) \cap Range(entries[c]) = {}
    BY DEF TeamsInv, OneBracket
  <2>3. QED BY <2>1, <2>2
<1>2. ASSUME NEW t \in Team, NEW op \in OpsOn(t), ChangeTeam(op) \/ BeginChange(op)
      PROVE  TeamsInv'
  BY <1>2, OpsAreForTheTeam, ChangeTeamStep, BeginTeamStep
<1>3. ASSUME NEW b \in Bracket, CreateBracket(b) PROVE TeamsInv'
  BY <1>3 DEF CreateBracket, TeamsInv, TreesAre
<1>4. ASSUME NEW b \in Bracket, NEW ts \in Seq(Team), IsInjective(ts), Enter(b, ts)
      PROVE  TeamsInv'
  <2>1. \A c \in Bracket : Range(ts) \cap Range(entries[c]) = {}
    BY <1>4 DEF Enter, Home, Entered
  <2>2. /\ entries[b] \o ts \in Seq(Team)
        /\ Len(entries[b] \o ts) <= Room[b]
        /\ Range(entries[b] \o ts) = Range(entries[b]) \cup Range(ts)
        /\ IsInjective(entries[b] \o ts)
    <3>1. Range(entries[b]) \cap Range(ts) = {}
      BY <2>1
    <3>2. QED BY <3>1, <1>1, <1>4, JoiningIs DEF Enter
  <2>3. \A c \in Bracket : c # b => Range(entries[b] \o ts) \cap Range(entries[c]) = {}
    BY <2>1, <2>2, <1>1
  <2>4. QED BY <1>4, <2>2, <2>3, RedrawStep DEF Enter
<1>5. ASSUME NEW b \in Bracket, NEW t \in Team, Leave(b, t) PROVE TeamsInv'
  <2> DEFINE left == Without(b, t)
  <2>1. /\ left \in Seq(Team) /\ Len(left) <= Len(entries[b])
        /\ IsInjective(left) /\ Range(left) = Range(entries[b]) \ {t}
    BY <1>1, LeavingIs DEF Without
  <2>2. Redraw(b, left, match[b])
    BY <1>5 DEF Leave
  <2> HIDE DEF left
  <2>3. Len(left) <= Room[b]
    <3>1. Len(left) \in Nat /\ Room[b] \in Nat
      BY <2>1, RoomAssumption, TreesAssumption
    <3>2. QED BY <3>1, <2>1, <1>1
  <2>4. \A c \in Bracket : c # b => Range(left) \cap Range(entries[c]) = {}
    BY <2>1, <1>1
  <2>5. QED BY <2>1, <2>2, <2>3, <2>4, RedrawStep
<1>6. ASSUME NEW b \in Bracket, NEW i, MoveTeam(b, i) PROVE TeamsInv'
  <2> DEFINE moved == [entries[b] EXCEPT ![i] = entries[b][i + 1], ![i + 1] = entries[b][i]]
  <2>1. /\ moved \in Seq(Team) /\ Len(moved) <= Room[b]
        /\ IsInjective(moved) /\ Range(moved) = Range(entries[b])
    BY <1>1, <1>6, SwappingIs DEF MoveTeam
  <2>2. Redraw(b, moved, match[b])
    BY <1>6 DEF MoveTeam
  <2> HIDE DEF moved
  <2>3. QED BY <2>1, <2>2, <1>1, RedrawStep
<1>7. ASSUME NEW b \in Bracket, Rearrange(b) PROVE TeamsInv'
  <2>1. ASSUME NEW t \in Team, NEW o \in Team
        PROVE  /\ <<t>> \in Seq(Team) /\ <<t, o>> \in Seq(Team)
               /\ IsInjective(<<t>>) /\ (t # o => IsInjective(<<t, o>>))
    BY DEF IsInjective
  <2>2. QED BY <1>7, <2>1, <1>4, <1>5, <1>6, RemoveBracketStep DEF Rearrange
<1>8. ASSUME NEW b \in Bracket, NEW k, NEW who, SetWinner(b, k, who) PROVE TeamsInv'
  <2>1. \E m : Redraw(b, entries[b], m)
    BY <1>8 DEF SetWinner
  <2>2. QED BY <2>1, <1>1, RedrawStep
<1>9. ASSUME NEW p, NEW text, EditRecord(p, text) PROVE TeamsInv'
  <2>1. CASE \E at \in LatestOf(p) : text # "other"
               /\ SetWinner(at[1], at[2],
                            WinnerByText(match[at[1]][at[2]], team[p], text))
    <3>1. PICK at \in LatestOf(p) :
            SetWinner(at[1], at[2], WinnerByText(match[at[1]][at[2]], team[p], text))
      BY <2>1
    <3>2. at[1] \in Bracket
      BY DEF LatestOf, Home
    <3>3. QED BY <3>1, <3>2, <1>8
  <2>2. CASE /\ <<p, NoScope>> \in Stored /\ KeepText(<<p, NoScope>>)
             /\ UNCHANGED <<team, busy, brackets, entries, match>>
    BY <2>2, TeamsOwnerStep
  <2>3. QED BY <1>9, <2>1, <2>2 DEF EditRecord
<1>10. ASSUME NEW k, Erase(k) PROVE TeamsInv'
  BY <1>10, TeamsOwnerStep DEF Erase
<1>11. QED BY <1>2, <1>3, <1>7, <1>8, <1>9, <1>10, EndTeamStep DEF Next

-----------------------------------------------------------------------------
(* Byes and results, in both tournaments.                                  *)

\* Every bracket has an order without repetition, short enough for the trees.
LEMMA OrdersFit ==
    ASSUME NEW S, NEW order, NEW ms, TreesAre(S, order, ms), NEW b \in Bracket
    PROVE  /\ order[b] \in Seq(S) /\ Len(order[b]) \in 0..MaxEntries
           /\ DOMAIN order[b] = 1..Len(order[b])
           /\ ms[b] = Materialize(order[b], ms[b])
PROOF
<1>1. order[b] \in Seq(S) /\ Len(order[b]) <= Room[b] /\ ms[b] = Materialize(order[b], ms[b])
  BY DEF TreesAre
<1>2. Room[b] \in 0..MaxEntries /\ MaxEntries \in Nat
  BY RoomAssumption, TreesAssumption
<1>3. Len(order[b]) \in Nat /\ DOMAIN order[b] = 1..Len(order[b])
  BY <1>1
<1>4. QED BY <1>1, <1>2, <1>3

LEMMA OneByeInABracket ==
    ASSUME NEW S, TreesAre(S, entries, match), NEW b \in Bracket, IsInjective(entries[b]),
           NEW p
    PROVE  Cardinality({k \in DOMAIN match[b] :
                          match[b][k].first = p /\ match[b][k].second = None}) <= 1
PROOF
<1> DEFINE byes == {k \in DOMAIN match[b] :
                      match[b][k].first = p /\ match[b][k].second = None}
           order == entries[b]
           m == match[b]
<1>1. /\ Len(order) \in 0..MaxEntries /\ DOMAIN order = 1..Len(order)
      /\ m = Materialize(order, m) /\ IsInjective(order)
  BY OrdersFit
<1> HIDE DEF order, m
<1>2. \A k, l \in DOMAIN m : /\ m[k].first = m[l].first
                             /\ m[k].second = None /\ m[l].second = None
                             => k = l
  BY <1>1, NobodyWaitsTwice
<1>3. \A k, l \in byes : k = l
  BY <1>2 DEF m
<1> HIDE DEF byes
<1>4. Cardinality(byes) <= 1
  <2>1. CASE byes = {}
    BY <2>1, FS_EmptySet
  <2>2. CASE byes # {}
    <3>1. PICK k : byes = {k}
      BY <1>3, <2>2
    <3>2. Cardinality({k}) = 1
      BY FS_Singleton
    <3>3. QED BY <3>1, <3>2
  <2>3. QED BY <2>1, <2>2
<1>5. QED BY <1>4 DEF byes

\* A step that writes the matches of one bracket, which has no results or keeps them.
LEMMA OneBracketKeeps ==
    ASSUME NEW b \in Bracket, NEW drawn, match' = [match EXCEPT ![b] = drawn],
           match = [c \in Bracket |-> match[c]],
           Decided(match[b]) = {} \/ Keeps(match[b], drawn)
    PROVE  \A c \in Bracket : Keeps(match[c], match'[c])
PROOF
<1>1. match'[b] = drawn /\ \A c \in Bracket : c # b => match'[c] = match[c]
  OBVIOUS
<1>2. ASSUME NEW c \in Bracket PROVE Keeps(match[c], match'[c])
  <2>1. CASE c = b
    BY <2>1, <1>1, NothingToLose
  <2>2. CASE c # b
    BY <2>2, <1>1, NothingToLose
  <2>3. QED BY <2>1, <2>2
<1>3. QED BY <1>2

\* Who is one of the two, or nobody, and no later result rests on the match.
LEMMA WinnerKeeps ==
    ASSUME NEW S, TreesAre(S, entries, match), NEW b \in Bracket, IsInjective(entries[b]),
           NEW k, NEW who,
           LET drawn == Materialize(entries[b], match[b])
           IN  /\ k \in DOMAIN drawn
               /\ drawn[k].second # None
               /\ who # drawn[k].winner => ~LaterResult(entries[b], drawn, k)
               /\ match' = [match EXCEPT ![b] = Materialize(entries[b],
                                                  [drawn EXCEPT ![k].winner = who])]
    PROVE  \A c \in Bracket : Keeps(match[c], match'[c])
PROOF
<1> DEFINE order == entries[b]
           m == match[b]
           new == Materialize(order, [m EXCEPT ![k].winner = who])
<1>1. /\ Len(order) \in 0..MaxEntries /\ DOMAIN order = 1..Len(order)
      /\ m = Materialize(order, m) /\ IsInjective(order)
  BY OrdersFit
<1>2. /\ k \in DOMAIN m /\ m[k].second # None
      /\ who # m[k].winner => ~LaterResult(order, m, k)
      /\ match' = [match EXCEPT ![b] = new]
  BY <1>1
<1>3. Keeps(m, new)
  <2> HIDE DEF order, m
  <2>1. QED BY <1>1, <1>2, SettingKeeps
<1> HIDE DEF new
<1>4. QED BY <1>2, <1>3, OneBracketKeeps DEF TreesAre

LEMMA OpenHasNoResults ==
    ASSUME NEW S, TreesAre(S, entries, match), NEW b \in Bracket, IsOpen(b)
    PROVE  Decided(match[b]) = {}
PROOF
<1>1. match[b] = Materialize(entries[b], match[b])
  BY DEF TreesAre
<1>2. Decided(Materialize(entries[b], match[b])) = {}
  BY DEF IsOpen, Locked
<1>3. QED BY <1>1, <1>2

LEMMA SameMatchesKeep ==
    ASSUME match' = match
    PROVE  \A c \in Bracket : Keeps(match[c], match'[c])
PROOF BY NothingToLose

LEMMA PersonsKeepResults ==
    ASSUME PersonsInv, TournamentNext
    PROVE  \A c \in Bracket : Keeps(match[c], match'[c])
PROOF
<1>1. TreesAre(Entrant, entries, match) /\ \A b \in Bracket : IsInjective(entries[b])
  BY DEF PersonsInv
<1>2. ASSUME NEW b \in Bracket, RearrangePersons(b)
      PROVE  \A c \in Bracket : Keeps(match[c], match'[c])
  <2>1. Decided(match[b]) = {}
    BY <1>1, <1>2, OpenHasNoResults DEF RearrangePersons
  <2>2. \E drawn : match' = [match EXCEPT ![b] = drawn]
    BY <1>2 DEF RearrangePersons, RemovePersonBracket, EnterPersons, LeavePersons, MoveEntry,
                RedrawPersons
  <2>3. QED BY <2>1, <2>2, <1>1, OneBracketKeeps DEF TreesAre
<1>3. ASSUME NEW b \in Bracket, NEW k, NEW who, SetTournamentWinner(b, k, who)
      PROVE  \A c \in Bracket : Keeps(match[c], match'[c])
  <2>1. LET drawn == Materialize(entries[b], match[b])
        IN  /\ k \in DOMAIN drawn
            /\ drawn[k].second # None
            /\ who # drawn[k].winner => ~LaterResult(entries[b], drawn, k)
            /\ match' = [match EXCEPT ![b] = Materialize(entries[b],
                                               [drawn EXCEPT ![k].winner = who])]
    BY <1>3 DEF SetTournamentWinner, RedrawPersons
  <2>2. QED BY <2>1, <1>1, WinnerKeeps
<1>4. ASSUME NEW b \in Bracket, CreatePersonBracket(b) PROVE match' = match
  BY <1>4 DEF CreatePersonBracket
<1>5. ASSUME NEW k, ErasePersonRecord(k) PROVE match' = match
  BY <1>5 DEF ErasePersonRecord
<1>6. ASSUME NEW b \in Bracket, NEW p, NEW text, EditPersonRecord(b, p, text)
      PROVE  \A c \in Bracket : Keeps(match[c], match'[c])
  BY <1>6, <1>3, SameMatchesKeep DEF EditPersonRecord
<1>7. QED BY <1>2, <1>3, <1>4, <1>5, <1>6, SameMatchesKeep DEF TournamentNext

\* The end of a handler on a team: only remove_team draws a tree, and it has found
\* no result there.
LEMMA EndKeepsResults ==
    ASSUME TeamsInv, EndChange, ~(busy.op.gone /\ Outdated(busy))
    PROVE  \A c \in Bracket : Keeps(match[c], match'[c])
PROOF
<1>1. busy # Idle /\ Finish(busy) /\ HasSeen(busy, team)
  BY DEF EndChange, TeamsInv
<1>2. PICK b \in Bracket : busy.home = {b} /\ (busy.op.gone => Decided(busy.match[b]) = {})
  BY <1>1 DEF HasSeen
<1>3. busy.op.gone \in BOOLEAN /\ busy.cleared = busy.op.leave \X {NoScope}
  BY <1>1 DEF HasSeen, OpIsFor
<1>4. FinishIn(b, busy)
  BY <1>1, <1>2, <1>3, FinishIsInOne
<1>5. CASE ~busy.op.gone
  <2>1. match' = match
    BY <1>4, <1>5 DEF FinishIn
  <2>2. QED BY <2>1, SameMatchesKeep
<1>6. CASE busy.op.gone
  <2>1. busy.match[b] = match[b]
    BY <1>2, <1>6 DEF Outdated
  <2>2. Decided(match[b]) = {}
    BY <2>1, <1>2, <1>6
  <2>3. \E drawn : match' = [match EXCEPT ![b] = drawn]
    BY <1>4, <1>6 DEF FinishIn
  <2>4. QED BY <2>2, <2>3, OneBracketKeeps DEF TeamsInv, TreesAre
<1>7. QED BY <1>3, <1>5, <1>6

LEMMA TeamsKeepResults ==
    ASSUME TeamsInv, Next, ~(EndChange /\ busy.op.gone /\ Outdated(busy))
    PROVE  \A c \in Bracket : Keeps(match[c], match'[c])
PROOF
<1>1. TreesAre(Team, entries, match) /\ \A b \in Bracket : IsInjective(entries[b])
  BY DEF TeamsInv
<1>2. ASSUME NEW b \in Bracket, Rearrange(b)
      PROVE  \A c \in Bracket : Keeps(match[c], match'[c])
  <2>1. Decided(match[b]) = {}
    BY <1>1, <1>2, OpenHasNoResults DEF Rearrange
  <2>2. \E drawn : match' = [match EXCEPT ![b] = drawn]
    BY <1>2 DEF Rearrange, RemoveBracket, Enter, Leave, MoveTeam, Redraw
  <2>3. QED BY <2>1, <2>2, <1>1, OneBracketKeeps DEF TreesAre
<1>3. ASSUME NEW b \in Bracket, NEW k, NEW who, SetWinner(b, k, who)
      PROVE  \A c \in Bracket : Keeps(match[c], match'[c])
  <2>1. LET drawn == Materialize(entries[b], match[b])
        IN  /\ k \in DOMAIN drawn
            /\ drawn[k].second # None
            /\ who # drawn[k].winner => ~LaterResult(entries[b], drawn, k)
            /\ match' = [match EXCEPT ![b] = Materialize(entries[b],
                                               [drawn EXCEPT ![k].winner = who])]
    BY <1>3 DEF SetWinner, Redraw
  <2>2. QED BY <2>1, <1>1, WinnerKeeps
<1>4. ASSUME NEW op, ChangeTeam(op) PROVE match' = match
  <2>1. DOMAIN [b \in {} |-> Materialize(Without(b, op.team), match[b])] = {}
    OBVIOUS
  <2>2. \A left : Over([b \in {} |-> left[b]], match) = match
    BY <1>1 DEF Over, TreesAre
  <2>3. QED BY <2>1, <2>2, <1>4 DEF ChangeTeam, Finish, Seen
<1>5. ASSUME NEW op, BeginChange(op) PROVE match' = match
  BY <1>5 DEF BeginChange
<1>6. ASSUME NEW b \in Bracket, CreateBracket(b) PROVE match' = match
  BY <1>6 DEF CreateBracket
<1>7. ASSUME NEW k, Erase(k) PROVE match' = match
  BY <1>7 DEF Erase
<1>8. ASSUME NEW p, NEW text, EditRecord(p, text)
      PROVE  \A c \in Bracket : Keeps(match[c], match'[c])
  <2>1. ASSUME NEW at \in LatestOf(p) PROVE at[1] \in Bracket
    BY DEF LatestOf, Home
  <2>2. QED BY <1>8, <2>1, <1>3, SameMatchesKeep DEF EditRecord
<1>9. EndChange => \A c \in Bracket : Keeps(match[c], match'[c])
  BY EndKeepsResults
<1>10. QED BY <1>2, <1>3, <1>4, <1>5, <1>6, <1>7, <1>8, <1>9, SameMatchesKeep DEF Next

-----------------------------------------------------------------------------
(* Team battles: what is due.                                              *)

PairIn(ps, t) == CHOOSE pair \in DecidedOf(ps) : t \in pair
DecidedMembers(of, ps) == {p \in Person : of[p] \in UNION DecidedOf(ps)}

\* B!Due, as it depends on the teams and the pairs.
BattleDue(of, ps) ==
    [k \in DecidedMembers(of, ps) \X {NoScope} |->
        B!Outcome(ps[PairIn(ps, of[k[1]])], of[k[1]])]

LEMMA BattleDueIs ==
    /\ RecordsAre(B!Due) <=> Agrees(record, late, BattleDue(team, pairs))
    /\ RecordsAre(B!Due)' <=> Agrees(record', late', BattleDue(team', pairs'))
PROOF
<1>1. B!Due = BattleDue(team, pairs)
  BY DEF B!Due, B!Whole, BattleDue, DecidedMembers, PairIn, DecidedOf
<1>2. (B!Due)' = BattleDue(team', pairs')
  BY DEF B!Due, B!Whole, BattleDue, DecidedMembers, PairIn, DecidedOf
<1>3. RecordsAre(B!Due) <=> Agrees(record, late, B!Due)
  BY DEF RecordsAre, WithMember, Restrict, Stored, Agrees
<1>4. RecordsAre(B!Due)' <=> Agrees(record', late', (B!Due)')
  BY DEF RecordsAre, WithMember, Restrict, Stored, Agrees
<1>5. QED BY <1>1, <1>2, <1>3, <1>4

LEMMA DueOfPaired ==
    ASSUME NEW of, NEW ps, Apart(DOMAIN ps), NEW p \in Person, NEW pair \in DecidedOf(ps),
           of[p] \in pair
    PROVE  /\ Key(p, NoScope) \in DOMAIN BattleDue(of, ps)
           /\ BattleDue(of, ps)[Key(p, NoScope)] = B!Outcome(ps[pair], of[p])
PROOF
<1>1. p \in DecidedMembers(of, ps)
  BY DEF DecidedMembers
<1>2. Key(p, NoScope) \in DecidedMembers(of, ps) \X {NoScope}
  BY <1>1 DEF Key
<1>3. PairIn(ps, of[p]) = pair
  <2>1. \A o \in DecidedOf(ps) : of[p] \in o <=> o = pair
    BY DEF Apart, DecidedOf
  <2>2. QED BY <2>1 DEF PairIn
<1>4. \A k \in DecidedMembers(of, ps) \X {NoScope} :
        BattleDue(of, ps)[k] = B!Outcome(ps[PairIn(ps, of[k[1]])], of[k[1]])
  BY DEF BattleDue
<1>5. BattleDue(of, ps)[Key(p, NoScope)] = B!Outcome(ps[PairIn(ps, of[p])], of[p])
  BY <1>2, <1>4, KeyIs
<1>6. QED BY <1>2, <1>3, <1>5 DEF BattleDue

LEMMA DueIsOfAPaired ==
    ASSUME NEW of, NEW ps, NEW k \in DOMAIN BattleDue(of, ps)
    PROVE  \E p \in Person, pair \in DecidedOf(ps) : k = Key(p, NoScope) /\ of[p] \in pair
PROOF
<1>1. k \in DecidedMembers(of, ps) \X {NoScope}
  BY DEF BattleDue
<1>2. PICK p \in DecidedMembers(of, ps) : k = Key(p, NoScope)
  BY <1>1 DEF Key
<1>3. QED BY <1>2 DEF DecidedMembers

LEMMA DueOfPairedKey ==
    ASSUME NEW of, NEW ps, NEW p, Key(p, NoScope) \in DOMAIN BattleDue(of, ps)
    PROVE  p \in Person /\ \E pair \in DecidedOf(ps) : of[p] \in pair
PROOF BY DueIsOfAPaired, KeyIs

\* All but who, whose team or result may have changed, are owed the same.
LEMMA OtherPairedAsBefore ==
    ASSUME NEW of, NEW ps, Apart(DOMAIN ps), NEW of2, NEW ps2, Apart(DOMAIN ps2), NEW who,
           \A p \in Person \ who : \A pair :
             ((pair \in DecidedOf(ps) /\ of[p] \in pair)
                \/ (pair \in DecidedOf(ps2) /\ of2[p] \in pair))
               => /\ of2[p] = of[p]
                  /\ pair \in DecidedOf(ps) /\ pair \in DecidedOf(ps2)
                  /\ ps2[pair] = ps[pair]
    PROVE  Redone(BattleDue(of, ps), BattleDue(of2, ps2), who \X {NoScope})
PROOF
<1> DEFINE due == BattleDue(of, ps)
           due2 == BattleDue(of2, ps2)
           keys == who \X {NoScope}
<1>1. ASSUME NEW p, Key(p, NoScope) \notin keys PROVE p \notin who
  BY <1>1 DEF Key
<1> HIDE DEF keys
<1>2. ASSUME NEW k \in DOMAIN due2, k \notin keys
      PROVE  k \in DOMAIN due /\ due2[k] = due[k]
  <2>1. PICK p \in Person, pair \in DecidedOf(ps2) :
          k = Key(p, NoScope) /\ of2[p] \in pair
    BY <1>2, DueIsOfAPaired
  <2>2. p \notin who
    BY <1>1, <1>2, <2>1
  <2>3. of2[p] = of[p] /\ pair \in DecidedOf(ps) /\ ps2[pair] = ps[pair]
    BY <2>1, <2>2
  <2>4. k \in DOMAIN due /\ due[k] = B!Outcome(ps[pair], of[p])
    BY <2>1, <2>3, DueOfPaired
  <2>5. due2[k] = B!Outcome(ps2[pair], of2[p])
    BY <2>1, DueOfPaired
  <2> HIDE DEF due, due2
  <2>6. QED BY <2>3, <2>4, <2>5
<1>3. ASSUME NEW k \in DOMAIN due, k \notin keys PROVE k \in DOMAIN due2
  <2>1. PICK p \in Person, pair \in DecidedOf(ps) :
          k = Key(p, NoScope) /\ of[p] \in pair
    BY <1>3, DueIsOfAPaired
  <2>2. p \notin who
    BY <1>1, <1>3, <2>1
  <2>3. of2[p] = of[p] /\ pair \in DecidedOf(ps2)
    BY <2>1, <2>2
  <2>4. QED BY <2>1, <2>3, DueOfPaired
<1> HIDE DEF due, due2
<1>4. QED BY <1>2, <1>3 DEF Redone, due, due2, keys

\* What a handler writes of a pair is due to those who are there or in none.
LEMMA PairedGetTheirLabels ==
    ASSUME NEW of, NEW ps, Apart(DOMAIN ps), NEW pair, NEW result,
           \/ pair \in DOMAIN ps /\ ps[pair] = result
           \/ result = None /\ \A q \in DOMAIN ps : q \cap pair = {},
           NEW who \in SUBSET Person,
           \A p \in who : of[p] \in pair \/ \A q \in DOMAIN ps : of[p] \notin q
    PROVE  DueIs(BattleDue(of, ps), who \X {NoScope}, B!Labels(pair, result, of))
PROOF
<1> DEFINE due == BattleDue(of, ps)
           labels == B!Labels(pair, result, of)
           keys == who \X {NoScope}
           with == {p \in Person : of[p] \in pair}
<1>1. \A k \in keys : \E p \in who : k = Key(p, NoScope)
  BY DEF Key
<1> HIDE DEF keys
<1>2. CASE result = None
  <2>1. DOMAIN labels = {}
    <3>1. labels = <<>>
      BY <1>2 DEF B!Labels
    <3>2. DOMAIN <<>> = {}
      OBVIOUS
    <3> HIDE DEF labels
    <3>3. QED BY <3>1, <3>2
  <2>2. ASSUME NEW p \in who PROVE Key(p, NoScope) \notin DOMAIN due
    <3>1. ASSUME NEW q \in DecidedOf(ps), of[p] \in q PROVE FALSE
      <4>1. q \in DOMAIN ps /\ ps[q] # None
        BY DEF DecidedOf
      <4>2. of[p] \in q \cap pair
        BY <3>1, <4>1
      <4>3. pair \in DOMAIN ps /\ ps[pair] = None
        BY <4>1, <4>2, <1>2
      <4>4. QED BY <4>1, <4>2, <4>3 DEF Apart
    <3>2. QED BY <3>1, DueOfPairedKey
  <2> HIDE DEF due, labels
  <2>3. DueIs(due, keys, labels)
    BY <1>1, <2>1, <2>2 DEF DueIs
  <2>4. QED BY <2>3 DEF due, keys, labels
<1>3. CASE result # None
  <2>1. pair \in DecidedOf(ps) /\ ps[pair] = result
    BY <1>3 DEF DecidedOf
  <2>2. labels = [k \in with \X {NoScope} |-> B!Outcome(result, of[k[1]])]
    BY <1>3 DEF B!Labels, B!Whole, B!Members2
  <2> HIDE DEF labels, with
  <2>3. ASSUME NEW p PROVE Key(p, NoScope) \in DOMAIN labels <=> p \in with
    <3>1. DOMAIN labels = with \X {NoScope}
      BY <2>2
    <3>2. QED BY <3>1 DEF Key
  <2>4. ASSUME NEW p \in who
        PROVE  Key(p, NoScope) \in DOMAIN due <=> Key(p, NoScope) \in DOMAIN labels
    <3>1. ASSUME Key(p, NoScope) \in DOMAIN due PROVE p \in with
      <4>1. PICK q \in DecidedOf(ps) : of[p] \in q
        BY <3>1, DueOfPairedKey
      <4>2. q \in DOMAIN ps
        BY DEF DecidedOf
      <4>3. QED BY <4>1, <4>2 DEF with
    <3>2. ASSUME p \in with PROVE Key(p, NoScope) \in DOMAIN due
      BY <3>2, <2>1, DueOfPaired DEF with
    <3>3. QED BY <3>1, <3>2, <2>3
  <2>5. ASSUME NEW p \in who, Key(p, NoScope) \in DOMAIN due
        PROVE  due[Key(p, NoScope)] = labels[Key(p, NoScope)]
    <3>1. p \in with
      BY <2>3, <2>4, <2>5
    <3>2. due[Key(p, NoScope)] = B!Outcome(result, of[p])
      BY <3>1, <2>1, DueOfPaired DEF with
    <3>3. \A k \in DOMAIN labels : labels[k] = B!Outcome(result, of[k[1]])
      BY <2>2
    <3>4. labels[Key(p, NoScope)] = B!Outcome(result, of[p])
      BY <3>3, <2>4, <2>5, KeyIs
    <3> HIDE DEF due
    <3>5. QED BY <3>2, <3>4
  <2> HIDE DEF due
  <2>6. DueIs(due, keys, labels)
    BY <1>1, <2>4, <2>5 DEF DueIs
  <2>7. QED BY <2>6 DEF due, keys, labels
<1>4. QED BY <1>2, <1>3

-----------------------------------------------------------------------------
(* Team battles: the steps.                                                *)

\* What a handler on a team has read: the one pair that its team is in.
HasSeenPair(seen, of) ==
    /\ OpIsFor(seen.op, of) /\ ~seen.op.gone
    /\ seen.cleared = seen.op.leave \X {NoScope}
    /\ \E pair \in SUBSET Team : DOMAIN seen.match = {pair} /\ seen.op.team \in pair

BattleInv ==
    /\ Apart(DOMAIN pairs)
    /\ DOMAIN pairs \subseteq SUBSET Team
    /\ Agrees(record, late, BattleDue(team, pairs))
    /\ busy # Idle => HasSeenPair(busy, team)

LEMMA BattleOpsAreForTheTeam ==
    ASSUME NEW t \in Team, NEW op \in B!OpsOn(t)
    PROVE  OpIsFor(op, team) /\ op.team = t
PROOF
<1>1. B!OpsOn(t) = OpsOn(t)
  <2>1. \A k, S : B!kSubset(k, S) = kSubset(k, S)
    BY CountedAlike DEF B!kSubset, kSubset
  <2>2. \A u : B!Members(u) = Members(u)
    BY DEF B!Members, Members
  <2>3. QED BY <2>1, <2>2 DEF B!OpsOn, OpsOn
<1>2. QED BY <1>1, OpsAreForTheTeam

LEMMA BattleTeamAfterIs ==
    ASSUME NEW op, OpIsFor(op, team)
    PROVE  After(op, team, B!TeamAfter(op))
PROOF
<1>1. B!TeamAfter(op) = TeamAfter(op)
  BY DEF B!TeamAfter, TeamAfter
<1>2. QED BY <1>1, TeamAfterIs

LEMMA BattleResultStep ==
    ASSUME BattleInv, NEW pair \in DOMAIN pairs, NEW result, B!Records(pair, result),
           UNCHANGED <<team, busy>>,
           \/ pairs' = [pairs EXCEPT ![pair] = result]
           \/ result = None /\ pairs' = B!Restrict(pairs, DOMAIN pairs \ {pair})
    PROVE  BattleInv'
PROOF
<1> DEFINE who == {p \in Person : team[p] \in pair}
           keys == who \X {NoScope}
           labels == B!Labels(pair, result, team)
<1>1. Apart(DOMAIN pairs)
  BY DEF BattleInv
<1>2. Apart(DOMAIN pairs') /\ DOMAIN pairs' \subseteq SUBSET Team
  BY DEF Apart, B!Restrict, BattleInv
<1>3. \A q : q # pair =>
          /\ q \in DecidedOf(pairs') <=> q \in DecidedOf(pairs)
          /\ q \in DecidedOf(pairs') => pairs'[q] = pairs[q]
  BY DEF DecidedOf, B!Restrict
<1>4. B!Write(keys, labels, FALSE)
  BY DEF B!Records, B!Rewrite, B!Whole, B!Members2
<1>5. DOMAIN labels \subseteq keys
  <2>1. DOMAIN <<>> = {}
    OBVIOUS
  <2>2. QED BY <2>1 DEF B!Labels, B!Whole, B!Members2
<1>6. Redone(BattleDue(team, pairs), BattleDue(team', pairs'), keys)
  <2>1. \A p \in Person \ who : team[p] \notin pair
    OBVIOUS
  <2> HIDE DEF who
  <2>2. \A p \in Person \ who : \A q :
          ((q \in DecidedOf(pairs) /\ team[p] \in q) \/ (q \in DecidedOf(pairs') /\ team[p] \in q))
            => /\ team[p] = team[p]
               /\ q \in DecidedOf(pairs) /\ q \in DecidedOf(pairs')
               /\ pairs'[q] = pairs[q]
    BY <2>1, <1>3
  <2>3. Redone(BattleDue(team, pairs), BattleDue(team, pairs'), who \X {NoScope})
    BY <2>2, <1>1, <1>2, OtherPairedAsBefore
  <2>4. QED BY <2>3
<1>7. DueIs(BattleDue(team', pairs'), keys, labels)
  <2>1. \/ pair \in DOMAIN pairs' /\ pairs'[pair] = result
        \/ result = None /\ \A q \in DOMAIN pairs' : q \cap pair = {}
    BY <1>1 DEF Apart, B!Restrict
  <2>2. DueIs(BattleDue(team, pairs'), keys, labels)
    BY <1>2, <2>1, PairedGetTheirLabels
  <2>3. QED BY <2>2
<1> HIDE DEF keys, labels
<1>8. Written(record, record', keys, labels) /\ late' = Excused(late, keys, FALSE)
  BY <1>4 DEF B!Write, B!Over, B!WithMember, B!Restrict, Written, Excused
<1>9. Agrees(record', late', BattleDue(team', pairs'))
  BY <1>5, <1>6, <1>7, <1>8, WritingAgrees DEF BattleInv
<1>10. QED BY <1>2, <1>9 DEF BattleInv

LEMMA BattlePairsStep ==
    ASSUME BattleInv, NEW new \in SUBSET SUBSET Team, Apart(new), Started(pairs, new, pairs'),
           \A x \in new, y \in DOMAIN pairs : x \cap y = {},
           UNCHANGED <<team, busy, record, late>>
    PROVE  BattleInv'
PROOF
<1>1. Apart(DOMAIN pairs) /\ Agrees(record, late, BattleDue(team, pairs))
  BY DEF BattleInv
<1>2. /\ Apart(DOMAIN pairs') /\ DecidedOf(pairs') = DecidedOf(pairs)
      /\ \A q \in DecidedOf(pairs) : pairs'[q] = pairs[q]
  BY <1>1, StartingKeepsResults
<1>3. Redone(BattleDue(team, pairs), BattleDue(team', pairs'), {})
  <2>1. Redone(BattleDue(team, pairs), BattleDue(team', pairs'), {} \X {NoScope})
    BY <1>1, <1>2, OtherPairedAsBefore
  <2>2. {} \X {NoScope} = {}
    OBVIOUS
  <2>3. QED BY <2>1, <2>2
<1>4. Agrees(record', late', BattleDue(team', pairs'))
  BY <1>1, <1>3, SameAgrees
<1>5. DOMAIN pairs' \subseteq SUBSET Team
  BY DEF Started, BattleInv
<1>6. QED BY <1>2, <1>4, <1>5 DEF BattleInv

LEMMA BattleOwnerStep ==
    ASSUME BattleInv, NEW k, UNCHANGED <<team, busy, pairs>>,
           B!EraseRecord(k) \/ (B!KeepText(k) /\ k \in B!Stored)
    PROVE  BattleInv'
PROOF
<1>1. /\ k \in DOMAIN record /\ record[k] # Erased
      /\ record'[k] \in {Typed, Erased}
      /\ DOMAIN record' = DOMAIN record
      /\ \A o \in DOMAIN record : o # k => record'[o] = record[o]
      /\ late' = late
  BY DEF B!EraseRecord, B!KeepText, B!Stored, B!Put, B!Erased, B!Typed, Erased, Typed
<1>2. Agrees(record', late, BattleDue(team, pairs))
  BY <1>1, OwnTextAgrees DEF BattleInv
<1>3. QED BY <1>1, <1>2 DEF BattleInv

\* What a handler on a team writes, where the pairs stay as they are.
LEMMA BattleWritten ==
    ASSUME BattleInv, UNCHANGED pairs, NEW who \in SUBSET Person, NEW labels,
           NEW outdated \in BOOLEAN, B!Write(who \X {NoScope}, labels, outdated),
           DOMAIN labels \subseteq who \X {NoScope},
           \A p \in Person \ who, q \in DOMAIN pairs :
             team[p] \in q \/ team'[p] \in q => team'[p] = team[p],
           ~outdated => DueIs(BattleDue(team', pairs'), who \X {NoScope}, labels)
    PROVE  Agrees(record', late', BattleDue(team', pairs'))
PROOF
<1> DEFINE keys == who \X {NoScope}
           due == BattleDue(team, pairs)
           due2 == BattleDue(team', pairs')
<1>1. Redone(due, BattleDue(team', pairs), keys)
  <2>1. \A p \in Person \ who : \A q :
          ((q \in DecidedOf(pairs) /\ team[p] \in q) \/ (q \in DecidedOf(pairs) /\ team'[p] \in q))
            => /\ team'[p] = team[p]
               /\ q \in DecidedOf(pairs) /\ q \in DecidedOf(pairs)
               /\ pairs[q] = pairs[q]
    BY DEF DecidedOf
  <2>2. QED BY <2>1, OtherPairedAsBefore DEF BattleInv
<1>2. due2 = BattleDue(team', pairs)
  OBVIOUS
<1>3. DOMAIN labels \subseteq keys /\ (~outdated => DueIs(due2, keys, labels))
  OBVIOUS
<1>4. Agrees(record, late, due)
  BY DEF BattleInv
<1>5. B!Write(keys, labels, outdated)
  OBVIOUS
<1> HIDE DEF keys, due, due2
<1>6. Written(record, record', keys, labels) /\ late' = Excused(late, keys, outdated)
  BY <1>5 DEF B!Write, B!Over, B!WithMember, B!Restrict, Written, Excused
<1>7. Redone(due, due2, keys)
  BY <1>1, <1>2
<1>8. Agrees(record', late', due2)
  BY <1>3, <1>4, <1>6, <1>7, WritingAgrees
<1>9. QED BY <1>8 DEF due2

\* A handler on a team that is in no pair.
LEMMA BattleChangeStep ==
    ASSUME BattleInv, NEW op, OpIsFor(op, team), B!ChangeTeam(op)
    PROVE  BattleInv'
PROOF
<1>1. \A q \in DOMAIN pairs : op.team \notin q
  BY DEF B!ChangeTeam, B!PairOf
<1>2. /\ team' = B!TeamAfter(op) /\ UNCHANGED <<pairs, busy>> /\ busy = Idle
      /\ B!Write(op.leave \X {NoScope}, <<>>, FALSE)
  <2>1. /\ B!Seen(op).op = op /\ B!Seen(op).cleared = op.leave \X {NoScope}
        /\ DOMAIN B!Seen(op).match = {}
    BY <1>1 DEF B!Seen, B!Cleared, B!Whole, B!PairOf, B!Restrict
  <2>2. B!Rewrite(B!Seen(op).cleared, <<>>)
    BY <2>1 DEF B!ChangeTeam, B!Finish
  <2>3. B!Write(op.leave \X {NoScope}, <<>>, FALSE)
    BY <2>1, <2>2 DEF B!Rewrite
  <2>4. QED BY <2>1, <2>3 DEF B!ChangeTeam, B!Finish
<1>3. After(op, team, team')
  BY <1>2, BattleTeamAfterIs
<1>4. \A q \in DOMAIN pairs : NoTeam \notin q
  BY ContestsAssumption DEF BattleInv
<1>5. \A p \in Person \ op.leave, q \in DOMAIN pairs :
        team[p] \in q \/ team'[p] \in q => team'[p] = team[p]
  BY <1>1, <1>3, <1>4 DEF After, OpIsFor
<1>6. op.leave \in SUBSET Person
  BY DEF OpIsFor
<1>7. DueIs(BattleDue(team', pairs'), op.leave \X {NoScope}, <<>>)
  <2>1. DOMAIN <<>> = {} /\ Apart(DOMAIN pairs') /\ DOMAIN pairs' = DOMAIN pairs
    BY <1>2 DEF BattleInv
  <2>2. ASSUME NEW p \in op.leave PROVE team'[p] = NoTeam
    BY <2>2, <1>3, ContestsAssumption DEF After, OpIsFor
  <2>3. ASSUME NEW p \in op.leave PROVE Key(p, NoScope) \notin DOMAIN BattleDue(team', pairs')
    <3>1. \A q \in DecidedOf(pairs') : team'[p] \notin q
      BY <2>1, <2>2, <1>4 DEF DecidedOf
    <3>2. QED BY <3>1, DueOfPairedKey
  <2>4. \A k \in op.leave \X {NoScope} : \E p \in op.leave : k = Key(p, NoScope)
    BY DEF Key
  <2> DEFINE keys == op.leave \X {NoScope}
             due2 == BattleDue(team', pairs')
  <2>5. /\ \A p \in op.leave : Key(p, NoScope) \notin DOMAIN due2
        /\ \A k \in keys : \E p \in op.leave : k = Key(p, NoScope)
    BY <2>3, <2>4
  <2> HIDE DEF keys, due2
  <2>6. DueIs(due2, keys, <<>>)
    BY <2>1, <2>5 DEF DueIs
  <2>7. QED BY <2>6 DEF due2, keys
<1>8. DOMAIN <<>> \subseteq op.leave \X {NoScope}
  OBVIOUS
<1>9. Agrees(record', late', BattleDue(team', pairs'))
  BY <1>2, <1>5, <1>6, <1>7, <1>8, BattleWritten
<1>10. QED BY <1>2, <1>9 DEF BattleInv

LEMMA BattleBeginStep ==
    ASSUME BattleInv, NEW op, OpIsFor(op, team), B!BeginChange(op)
    PROVE  BattleInv'
PROOF
<1>1. /\ busy' = B!Seen(op) /\ UNCHANGED <<team, pairs, record, late>>
      /\ ~op.gone /\ B!PairOf(op.team) # {}
  BY DEF B!BeginChange, B!Allowed, OpIsFor
<1>2. PICK pair \in DOMAIN pairs : op.team \in pair
  BY <1>1 DEF B!PairOf
<1>3. B!PairOf(op.team) = {pair}
  BY <1>2 DEF B!PairOf, BattleInv, Apart
<1>4. HasSeenPair(B!Seen(op), team)
  <2>1. /\ B!Seen(op).op = op /\ B!Seen(op).cleared = op.leave \X {NoScope}
        /\ DOMAIN B!Seen(op).match = {pair}
    BY <1>2, <1>3 DEF B!Seen, B!Cleared, B!Whole, B!Restrict
  <2>2. pair \in SUBSET Team
    BY <1>2 DEF BattleInv
  <2>3. QED BY <2>1, <2>2, <1>1, <1>2 DEF HasSeenPair
<1>5. QED BY <1>1, <1>4 DEF BattleInv

LEMMA BattleEndStep ==
    ASSUME BattleInv, B!EndChange
    PROVE  BattleInv'
PROOF
<1> DEFINE op == busy.op
<1>1. busy # Idle /\ B!Finish(busy) /\ busy' = Idle /\ HasSeenPair(busy, team)
  BY DEF B!EndChange, BattleInv
<1>2. PICK pair \in SUBSET Team : DOMAIN busy.match = {pair} /\ op.team \in pair
  BY <1>1 DEF HasSeenPair
<1> DEFINE who == op.leave \cup {p \in Person : team'[p] \in pair}
           labels == B!Labels(pair, busy.match[pair], team')
           outdated == busy.match # B!Restrict(pairs, B!PairOf(op.team))
<1>3. OpIsFor(op, team) /\ busy.cleared = op.leave \X {NoScope}
  BY <1>1 DEF HasSeenPair
<1>4. team' = B!TeamAfter(op) /\ UNCHANGED pairs
  BY <1>1 DEF B!Finish
<1>5. B!Write(who \X {NoScope}, labels, outdated)
  <2> DEFINE keys == busy.cleared
                       \cup UNION {B!Whole(B!Members2(q, team')) : q \in DOMAIN busy.match}
  <2>1. busy.match # <<>>
    BY <1>2
  <2>2. \E q \in DOMAIN busy.match :
          B!Write(keys, B!Labels(q, busy.match[q], team'), outdated)
    BY <1>1, <2>1 DEF B!Finish
  <2>3. keys = who \X {NoScope}
    <3>1. keys = busy.cleared \cup B!Whole(B!Members2(pair, team'))
      BY <1>2
    <3>2. QED BY <3>1, <1>3 DEF B!Whole, B!Members2
  <2> HIDE DEF keys, outdated
  <2>4. QED BY <2>2, <2>3, <1>2
<1>6. After(op, team, team')
  BY <1>3, <1>4, BattleTeamAfterIs
<1>7. \A q \in DOMAIN pairs : NoTeam \notin q
  BY ContestsAssumption DEF BattleInv
<1>8. NoTeam \notin pair
  BY ContestsAssumption
<1>9. \A p \in Person \ who, q \in DOMAIN pairs :
        team[p] \in q \/ team'[p] \in q => team'[p] = team[p]
  BY <1>2, <1>3, <1>6 DEF After, OpIsFor
<1>10. who \in SUBSET Person
  BY <1>3 DEF OpIsFor
<1>11. DOMAIN labels \subseteq who \X {NoScope}
  <2>1. DOMAIN <<>> = {}
    OBVIOUS
  <2>2. QED BY <2>1 DEF B!Labels, B!Whole, B!Members2
<1>12. ASSUME ~outdated PROVE DueIs(BattleDue(team', pairs'), who \X {NoScope}, labels)
  <2>1. busy.match = [q \in B!PairOf(op.team) |-> pairs[q]]
    BY <1>12 DEF B!Restrict
  <2>2. pair \in DOMAIN pairs /\ pairs[pair] = busy.match[pair]
    BY <2>1, <1>2 DEF B!PairOf
  <2>3. ASSUME NEW p \in who
        PROVE  team'[p] \in pair \/ \A q \in DOMAIN pairs : team'[p] \notin q
    <3>1. CASE team'[p] \in pair
      BY <3>1
    <3>2. CASE p \in op.leave
      <4>1. team'[p] = NoTeam
        BY <3>2, <1>3, <1>6, ContestsAssumption DEF After, OpIsFor
      <4>2. QED BY <4>1, <1>7
    <3>3. QED BY <3>1, <3>2
  <2> DEFINE of == team'
             ps == pairs'
             r == busy.match[pair]
  <2>4. /\ Apart(DOMAIN ps) /\ pair \in DOMAIN ps /\ ps[pair] = r
        /\ \A p \in who : of[p] \in pair \/ \A q \in DOMAIN ps : of[p] \notin q
    BY <2>2, <2>3, <1>4 DEF BattleInv
  <2> HIDE DEF of, ps, r, who
  <2>5. DueIs(BattleDue(of, ps), who \X {NoScope}, B!Labels(pair, r, of))
    BY <2>4, <1>10, PairedGetTheirLabels
  <2>6. QED BY <2>5 DEF of, ps, r
<1> HIDE DEF who, labels, outdated
<1>13. outdated \in BOOLEAN
  BY DEF outdated
<1>14. Agrees(record', late', BattleDue(team', pairs'))
  BY <1>4, <1>5, <1>9, <1>10, <1>11, <1>12, <1>13, BattleWritten
<1>15. QED BY <1>1, <1>4, <1>14 DEF BattleInv

\* Every step of a team battle leaves no team in two pairs, and the records true.
LEMMA BattleStep ==
    ASSUME BattleInv, B!Next
    PROVE  BattleInv'
PROOF
<1> USE DEF B!Next
<1>1. ASSUME NEW t \in Team, NEW op \in B!OpsOn(t), B!ChangeTeam(op) \/ B!BeginChange(op)
      PROVE  BattleInv'
  BY <1>1, BattleOpsAreForTheTeam, BattleChangeStep, BattleBeginStep
<1>2. CASE B!EndChange
  BY <1>2, BattleEndStep
<1>3. ASSUME NEW t \in Team, NEW o \in Team, B!PairTeams(t, o) PROVE BattleInv'
  <2>1. t # o /\ \A y \in DOMAIN pairs : {t, o} \cap y = {}
    BY <1>3 DEF B!PairTeams, B!Paired
  <2>2. Started(pairs, {{t, o}}, pairs') /\ UNCHANGED <<team, busy, record, late>>
    BY <1>3 DEF B!PairTeams, B!Start, B!Over, Started
  <2>3. Apart({{t, o}}) /\ \A x \in {{t, o}}, y \in DOMAIN pairs : x \cap y = {}
    BY <2>1, OnePairStarts
  <2>4. {{t, o}} \in SUBSET SUBSET Team
    OBVIOUS
  <2>5. QED BY <2>2, <2>3, <2>4, BattlePairsStep
<1>4. CASE B!ReadRest
  BY <1>4 DEF B!ReadRest, BattleInv
<1>5. CASE B!PairRest
  <2> DEFINE free == {t \in Team \ rest : B!Members(t) # {}}
  <2>1. CASE pairs' = pairs
    BY <1>5, <2>1 DEF B!PairRest, BattleInv
  <2>2. CASE /\ free \cap B!Paired = {}
             /\ \E new \in B!Pairings(free) : pairs' = B!Start(new)
    <3>1. PICK new \in B!Pairings(free) : pairs' = B!Start(new)
      BY <2>2
    <3>2. Started(pairs, new, pairs') /\ UNCHANGED <<team, busy, record, late>>
      BY <1>5, <3>1 DEF B!PairRest, B!Start, B!Over, Started
    <3>3. \A y \in DOMAIN pairs : free \cap y = {}
      BY <2>2 DEF B!Paired
    <3>4. IsFiniteSet(free)
      BY ContestsAssumption, FS_Subset
    <3>5. /\ \A x \in new : x \subseteq free /\ Cardinality(x) = 2
          /\ UNION new = free /\ 2 * Cardinality(new) = Cardinality(free)
      BY <3>1, CountedAlike DEF B!Pairings, B!kSubset
    <3>6. new \in SUBSET SUBSET Team
      BY <3>5
    <3> HIDE DEF free
    <3>7. Apart(new) /\ \A x \in new, y \in DOMAIN pairs : x \cap y = {}
      BY <3>3, <3>4, <3>5, PairingStarts
    <3>8. QED BY <3>2, <3>6, <3>7, BattlePairsStep
  <2>3. QED BY <1>5, <2>1, <2>2 DEF B!PairRest
<1>6. ASSUME NEW pair \in DOMAIN pairs, B!Unpair(pair) PROVE BattleInv'
  BY <1>6, BattleResultStep DEF B!Unpair
<1>7. ASSUME NEW pair \in DOMAIN pairs, NEW result, B!SetResult(pair, result)
      PROVE  BattleInv'
  BY <1>7, BattleResultStep DEF B!SetResult
<1>8. ASSUME NEW p, NEW text, B!EditRecord(p, text) PROVE BattleInv'
  <2>1. CASE \E pair \in B!PairOf(team[p]) :
               B!SetResult(pair, B!ResultByText(pair, team[p], text))
    BY <2>1, <1>7 DEF B!PairOf
  <2>2. CASE /\ <<p, NoScope>> \in B!Stored /\ B!KeepText(<<p, NoScope>>)
             /\ UNCHANGED <<team, busy, pairs, rest>>
    BY <2>2, BattleOwnerStep
  <2>3. QED BY <1>8, <2>1, <2>2 DEF B!EditRecord
<1>9. ASSUME NEW k, B!Erase(k) PROVE BattleInv'
  BY <1>9, BattleOwnerStep DEF B!Erase
<1>10. QED BY <1>1, <1>2, <1>3, <1>4, <1>5, <1>6, <1>7, <1>8, <1>9

-----------------------------------------------------------------------------
(* The sheets together.                                                    *)

\* Each kind of event keeps the invariant of its sheet, and the other sheets are
\* empty as far as the properties look at them.
ContestInv ==
    /\ kind \in Kinds
    /\ kind = "tournament" => PersonsInv
    /\ kind = "team_tournament" => TeamsInv
    /\ kind = "duel" => DuelInv
    /\ kind = "team_battle" => BattleInv
    /\ kind = "competition" => CompetitionInv
    /\ kind \notin {"duel", "team_battle"} => DOMAIN pairs = {}
    /\ kind # "competition" => \A d \in Division : DOMAIN place[d] = {}

LEMMA TreesAreEmptyAtFirst ==
    ASSUME InitBrackets, NEW S
    PROVE  TreesAre(S, entries, match)
PROOF
<1>1. \A b \in Bracket : Room[b] \in Nat
  BY RoomAssumption, TreesAssumption
<1>2. <<>> \in Seq(S) /\ Len(<<>>) = 0
  OBVIOUS
<1>3. /\ entries = [b \in Bracket |-> entries[b]] /\ match = [b \in Bracket |-> match[b]]
      /\ \A b \in Bracket : entries[b] = <<>> /\ match[b] = <<>>
  BY DEF InitBrackets
<1>4. ASSUME NEW b \in Bracket
      PROVE  /\ entries[b] \in Seq(S) /\ Len(entries[b]) <= Room[b]
             /\ match[b] = Materialize(entries[b], match[b])
  <2>1. Len(<<>>) <= Room[b]
    BY <1>1, <1>2
  <2>2. QED BY <2>1, <1>2, <1>3, NobodyMeets
<1>5. QED BY <1>3, <1>4 DEF TreesAre

LEMMA NothingIsDueAtFirst ==
    ASSUME NEW due, DOMAIN due = {}, InitRecords
    PROVE  Agrees(record, late, due)
PROOF BY DEF Agrees, InitRecords

LEMMA ContestInitially == ContestInit => ContestInv
PROOF
<1> SUFFICES ASSUME ContestInit PROVE ContestInv
  OBVIOUS
<1>1. /\ kind \in Kinds /\ InitBrackets /\ InitRecords /\ busy = Idle
      /\ pairs = <<>> /\ place = [d \in Division |-> <<>>]
  BY DEF ContestInit, Init, InitTeams, B!Init, B!InitPairs, C!Init
<1>2. DOMAIN <<>> = {} /\ Range(<<>>) = {} /\ IsInjective(<<>>)
  BY DEF Range, IsInjective
<1>3. \A b \in Bracket : entries[b] = <<>> /\ Range(entries[b]) = {}
  BY <1>1, <1>2 DEF InitBrackets
<1>4. PersonsInv
  <2>1. DOMAIN PersonsOf(entries, match) = {}
    BY <1>3 DEF PersonsOf, Ranked
  <2>2. \A b \in Bracket : IsInjective(entries[b])
    BY <1>2, <1>3
  <2>3. QED BY <2>1, <2>2, <1>1, TreesAreEmptyAtFirst, NothingIsDueAtFirst DEF PersonsInv
<1>5. TeamsInv
  <2>1. DOMAIN TeamsDue(team, entries, match) = {}
    BY <1>3 DEF TeamsDue, RankedMembers, Ranked
  <2>2. OneBracket(entries) /\ \A b \in Bracket : IsInjective(entries[b])
    BY <1>2, <1>3 DEF OneBracket
  <2>3. QED BY <2>1, <2>2, <1>1, TreesAreEmptyAtFirst, NothingIsDueAtFirst DEF TeamsInv
<1>6. DOMAIN pairs = {} /\ DecidedOf(pairs) = {}
  BY <1>1, <1>2 DEF DecidedOf
<1>7. DuelInv
  <2>1. DOMAIN DuelDue(pairs) = {}
    BY <1>6 DEF DuelDue
  <2>2. NobodyPairedTwice
    BY <1>6 DEF NobodyPairedTwice
  <2>3. QED BY <2>1, <2>2, <1>1, NothingIsDueAtFirst, DuelDueIs DEF DuelInv
<1>8. BattleInv
  <2>1. DOMAIN BattleDue(team, pairs) = {}
    BY <1>6 DEF BattleDue, DecidedMembers
  <2>2. Apart(DOMAIN pairs)
    BY <1>6 DEF Apart
  <2>3. QED BY <2>1, <2>2, <1>1, <1>6, NothingIsDueAtFirst DEF BattleInv
<1>9. \A d \in Division : place[d] = <<>> /\ DOMAIN place[d] = {}
  BY <1>1, <1>2
<1>10. CompetitionInv
  <2>1. DOMAIN PlacesDue(place) = {}
    BY <1>9 DEF PlacesDue
  <2>2. PlacesInv
    BY <1>1, <1>9 DEF PlacesInv, WellPlaced
  <2>3. QED BY <2>1, <2>2, <1>1, NothingIsDueAtFirst DEF CompetitionInv
<1>11. QED BY <1>1, <1>4, <1>5, <1>6, <1>7, <1>8, <1>9, <1>10 DEF ContestInv

\* A step of one sheet leaves those of the other kinds of event as they are.
LEMMA ContestStep ==
    ContestInv /\ [ContestNext]_contestVars
      => ContestInv' /\ (kind = "competition" => CompetitionMove)
PROOF
<1> SUFFICES ASSUME ContestInv, [ContestNext]_contestVars
             PROVE  ContestInv' /\ (kind = "competition" => CompetitionMove)
  OBVIOUS
<1>1. CASE UNCHANGED contestVars
  <2>1. UNCHANGED <<kind, record, late, brackets, entries, match, team, busy, pairs, rest,
                    divisions, place>>
    BY <1>1 DEF contestVars, trees, meetings, places
  <2>2. /\ (PersonsInv => PersonsInv') /\ (TeamsInv => TeamsInv')
    BY <2>1 DEF PersonsInv, TeamsInv, TreesAre
  <2>3. DuelInv => DuelInv'
    BY <2>1, DuelDueIs DEF DuelInv, NobodyPairedTwice
  <2>4. BattleInv => BattleInv'
    BY <2>1 DEF BattleInv
  <2>5. CompetitionInv => CompetitionInv'
    BY <2>1 DEF CompetitionInv, PlacesInv
  <2>6. CompetitionMove
    BY <2>1, SamePlacesMoveNobody DEF CompetitionMove
  <2>7. QED BY <2>1, <2>2, <2>3, <2>4, <2>5, <2>6 DEF ContestInv
<1>2. CASE kind = "team_tournament" /\ Next /\ UNCHANGED <<kind, meetings, places>>
  <2>1. TeamsInv'
    BY <1>2, TeamsStep DEF ContestInv
  <2>2. QED BY <2>1, <1>2 DEF ContestInv, meetings, places
<1>3. CASE kind = "tournament" /\ TournamentNext
             /\ UNCHANGED <<kind, team, busy, meetings, places>>
  <2>1. PersonsInv'
    BY <1>3, PersonsStep DEF ContestInv
  <2>2. QED BY <2>1, <1>3 DEF ContestInv, meetings, places
<1>4. CASE kind = "duel" /\ D!Next /\ UNCHANGED <<kind, trees, team, busy, places>>
  <2>1. DuelInv'
    BY <1>4, DuelStep DEF ContestInv
  <2>2. QED BY <2>1, <1>4 DEF ContestInv, places
<1>5. CASE kind = "team_battle" /\ B!Next /\ UNCHANGED <<kind, trees, places>>
  <2>1. BattleInv'
    BY <1>5, BattleStep DEF ContestInv
  <2>2. QED BY <2>1, <1>5 DEF ContestInv, places
<1>6. CASE kind = "competition" /\ C!Next /\ UNCHANGED <<kind, trees, team, meetings>>
  <2>1. CompetitionInv' /\ CompetitionMove
    BY <1>6, CompetitionStep DEF ContestInv
  <2>2. QED BY <2>1, <1>6 DEF ContestInv, meetings
<1>7. QED BY <1>1, <1>2, <1>3, <1>4, <1>5, <1>6 DEF ContestNext

\* ContestInv holds in every state that the sheet of an event can reach.
THEOREM ContestsInvariant == ContestSpec => []ContestInv
PROOF
<1>1. QED BY ContestInitially, ContestStep, PTL DEF ContestSpec

\* Nobody is ever in two pairs, and nobody meets themself, whatever is paired at
\* random while the rest is read.
THEOREM ContestsPairOnce == ContestSpec => []NobodyPairedTwice
PROOF
<1>1. ContestInv => NobodyPairedTwice
  <2> SUFFICES ASSUME ContestInv PROVE NobodyPairedTwice
    OBVIOUS
  <2>1. CASE kind = "duel"
    BY <2>1 DEF ContestInv, DuelInv
  <2>2. CASE kind = "team_battle"
    BY <2>2, PairedTwiceIs DEF ContestInv, BattleInv
  <2>3. CASE kind \notin {"duel", "team_battle"}
    BY <2>3 DEF ContestInv, NobodyPairedTwice
  <2>4. QED BY <2>1, <2>2, <2>3
<1>2. QED BY <1>1, ContestsInvariant, PTL

\* The records of every kind of event say what its sheet says, apart from what the
\* owner has written and from late writers.
THEOREM ContestsRecordsAreTrue == ContestSpec => []RecordsFollowResults
PROOF
<1>1. ContestInv => RecordsFollowResults
  <2> SUFFICES ASSUME ContestInv PROVE RecordsFollowResults
    OBVIOUS
  <2> DEFINE due == CASE kind = "team_tournament" -> Due
                      [] kind = "tournament" -> PersonsDue
                      [] kind = "duel" -> D!Due
                      [] kind = "team_battle" -> B!Due
                      [] kind = "competition" -> C!Due
  <2>1. CASE kind = "team_tournament"
    <3>1. due = Due
      BY <2>1
    <3>2. RecordsAre(Due)
      BY <2>1, TeamsDueIs DEF ContestInv, TeamsInv
    <3> HIDE DEF due
    <3>3. RecordsAre(due)
      BY <3>1, <3>2
    <3>4. QED BY <3>3 DEF RecordsFollowResults, due
  <2>2. CASE kind = "tournament"
    <3>1. due = PersonsDue
      BY <2>2
    <3>2. RecordsAre(PersonsDue)
      BY <2>2, PersonsDueIs DEF ContestInv, PersonsInv
    <3> HIDE DEF due
    <3>3. RecordsAre(due)
      BY <3>1, <3>2
    <3>4. QED BY <3>3 DEF RecordsFollowResults, due
  <2>3. CASE kind = "duel"
    <3>1. due = D!Due
      BY <2>3
    <3>2. RecordsAre(D!Due)
      BY <2>3 DEF ContestInv, DuelInv
    <3> HIDE DEF due
    <3>3. RecordsAre(due)
      BY <3>1, <3>2
    <3>4. QED BY <3>3 DEF RecordsFollowResults, due
  <2>4. CASE kind = "team_battle"
    <3>1. due = B!Due
      BY <2>4
    <3>2. RecordsAre(B!Due)
      BY <2>4, BattleDueIs DEF ContestInv, BattleInv
    <3> HIDE DEF due
    <3>3. RecordsAre(due)
      BY <3>1, <3>2
    <3>4. QED BY <3>3 DEF RecordsFollowResults, due
  <2>5. CASE kind = "competition"
    <3>1. due = C!Due
      BY <2>5
    <3>2. RecordsAre(C!Due)
      BY <2>5, PlacesDueIs DEF ContestInv, CompetitionInv
    <3> HIDE DEF due
    <3>3. RecordsAre(due)
      BY <3>1, <3>2
    <3>4. QED BY <3>3 DEF RecordsFollowResults, due
  <2>6. QED BY <2>1, <2>2, <2>3, <2>4, <2>5 DEF ContestInv, Kinds
<1>2. QED BY <1>1, ContestsInvariant, PTL

\* The stored matches are those of the tree, in tournaments of persons and of teams.
THEOREM ContestsMatchesAreTheTree == ContestSpec => []MatchesFollowTree
PROOF
<1>1. ContestInv => MatchesFollowTree
  BY DEF ContestInv, MatchesFollowTree, PersonsInv, TeamsInv, TreesAre
<1>2. QED BY <1>1, ContestsInvariant, PTL

\* Giving a place in a competition moves one person at most.
THEOREM ContestsPlacingInserts == ContestSpec => PlacingIsAnInsertion
PROOF
<1> DEFINE Inserts ==
      \A d \in Division :
        DOMAIN place'[d] = DOMAIN place[d] /\ DOMAIN place[d] # {} => MovesOne(d)
<1>1. ContestInv /\ ContestInv' /\ [ContestNext]_contestVars => Inserts
  <2> SUFFICES ASSUME ContestInv, ContestInv', [ContestNext]_contestVars,
                      NEW d \in Division,
                      DOMAIN place'[d] = DOMAIN place[d], DOMAIN place[d] # {}
               PROVE  MovesOne(d)
    OBVIOUS
  <2>1. kind = "competition" /\ kind' = kind
    BY DEF ContestInv, ContestNext, contestVars
  <2>2. WellPlaced(place'[d])
    BY <2>1 DEF ContestInv, CompetitionInv, PlacesInv
  <2>3. PICK p \in DOMAIN place[d] : Moves(place[d], place'[d], p)
    BY <2>1, ContestStep DEF CompetitionMove, MoveIn
  <2>4. QED BY <2>2, <2>3 DEF MovesOne, Moves, WellPlaced
<1>2. ContestInv /\ ContestInv' /\ [ContestNext]_contestVars => [Inserts]_contestVars
  BY <1>1
<1>3. QED BY <1>2, ContestsInvariant, PTL DEF ContestSpec, PlacingIsAnInsertion
\* "The same person can take at most one bye", in any bracket and whoever wins.
THEOREM ContestsByesAreSingle == ContestSpec => []OneByeEach
PROOF
<1>1. ContestInv => OneByeEach
  <2> SUFFICES ASSUME ContestInv, kind \in {"tournament", "team_tournament"},
                      NEW b \in Bracket, NEW p \in Range(entries[b])
               PROVE  Cardinality({k \in DOMAIN match[b] :
                         match[b][k].first = p /\ match[b][k].second = None}) <= 1
    BY DEF OneByeEach
  <2>1. /\ TreesAre(Entrant, entries, match) \/ TreesAre(Team, entries, match)
        /\ IsInjective(entries[b])
    BY DEF ContestInv, PersonsInv, TeamsInv
  <2>2. QED BY <2>1, OneByeInABracket
<1>2. QED BY <1>1, ContestsInvariant, PTL

\* No request takes back a result that a later one rests on, nor two at once, but
\* for remove_team where a result came after its check.
THEOREM ContestsKeepResults == ContestSpec => ResultsAreKept
PROOF
<1> DEFINE Kept == \A b \in Bracket :
                     kind \in {"tournament", "team_tournament"} => KeepsResults(b)
<1>1. ContestInv /\ [ContestNext]_contestVars => Kept
  <2> SUFFICES ASSUME ContestInv, [ContestNext]_contestVars, NEW b \in Bracket,
                      kind \in {"tournament", "team_tournament"}
               PROVE  KeepsResults(b)
    OBVIOUS
  <2>1. Keeps(match[b], match'[b]) => KeepsResults(b)
    BY DEF Keeps, Lost, KeepsResults
  <2>2. CASE UNCHANGED contestVars
    <3>1. match' = match
      BY <2>2 DEF contestVars, trees
    <3>2. QED BY <3>1, <2>1, SameMatchesKeep
  <2>3. CASE ContestNext /\ kind = "tournament"
    <3>1. PersonsInv /\ TournamentNext
      BY <2>3 DEF ContestInv, ContestNext
    <3>2. QED BY <3>1, <2>1, PersonsKeepResults
  <2>4. CASE ContestNext /\ kind = "team_tournament"
    <3>1. TeamsInv /\ Next
      BY <2>4 DEF ContestInv, ContestNext
    <3>2. CASE EndChange /\ busy.op.gone /\ Outdated(busy)
      BY <3>2 DEF EndChange, KeepsResults
    <3>3. CASE ~(EndChange /\ busy.op.gone /\ Outdated(busy))
      BY <3>1, <3>3, <2>1, TeamsKeepResults
    <3>4. QED BY <3>2, <3>3
  <2>5. QED BY <2>2, <2>3, <2>4
<1>2. ContestInv /\ [ContestNext]_contestVars => [Kept]_contestVars
  BY <1>1
<1>3. QED BY <1>2, ContestsInvariant, PTL DEF ContestSpec, ResultsAreKept
==============================================================================
