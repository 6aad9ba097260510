------------------------------ MODULE Divisions ------------------------------
(***************************************************************************)
(* A competition: paid reservations enter divisions, any number of them,   *)
(* and the owner gives places there.  Entering and leaving lock nothing    *)
(* but their own entry, and write the records of the division by the       *)
(* number of entries they have counted: busy is such a handler after it    *)
(* has counted, one at a time; all others are whole steps, also meanwhile. *)
(***************************************************************************)
EXTENDS MemberRecords, Integers, FiniteSetsExt

CONSTANTS Division,     \* ids of divisions
          None,         \* no place
          Idle

VARIABLES divisions,    \* the divisions that exist
          place,        \* place[d]: the places of those who have entered, or None
          busy          \* who enters or leaves, where, and the total that was read

vars == <<divisions, place, busy, record, late>>

Init ==
    /\ divisions = {}
    /\ place = [d \in Division |-> <<>>]
    /\ busy = Idle
    /\ InitRecords

Entries(d) == DOMAIN place[d]
Taken(d) == {place[d][p] : p \in Entries(d)} \ {None}
Keys(d, people) == people \X {d}

\* The records of the division if places are as in at.
Labels(d, at, total) ==
    [k \in Keys(d, DOMAIN at) |->
        IF at[k[1]] = None THEN <<"no place">> ELSE <<at[k[1]], total>>]

CreateDivision(d) ==
    /\ d \notin divisions
    /\ divisions' = divisions \cup {d}
    /\ UNCHANGED <<place, busy, record, late>>

\* What has locked an entry of d.
Free(d) == busy # Idle => busy.division # d

RemoveDivision(d) ==
    /\ d \in divisions
    /\ Free(d)
    /\ divisions' = divisions \ {d}
    /\ place' = [place EXCEPT ![d] = <<>>]
    /\ Rewrite({k \in DOMAIN record : k[2] = d}, <<>>)
    /\ UNCHANGED busy

\* rename_division writes all records again; it waits for one that is deleted.
RenameDivision(d) ==
    /\ d \in divisions
    /\ ~Free(d) => busy.joins
    /\ Rewrite(Keys(d, Entries(d)), Labels(d, place[d], Cardinality(Entries(d))))
    /\ UNCHANGED <<divisions, place, busy>>

\* p enters division d, or leaves it if there: the count it makes ...
Seen(d, p) ==
    LET joins == p \notin Entries(d)
    IN  [division |-> d, person |-> p, joins |-> joins,
         total |-> Cardinality(Entries(d)) + (IF joins THEN 1 ELSE -1)]

\* ... and the records it writes by that.
Finish(seen) ==
    LET d == seen.division
        at == IF seen.joins THEN Put(place[d], seen.person, None)
              ELSE Restrict(place[d], Entries(d) \ {seen.person})
    IN  /\ place' = [place EXCEPT ![d] = at]
        /\ Write(Keys(d, Entries(d) \cup {seen.person}), Labels(d, at, seen.total),
                 seen.total # Cardinality(DOMAIN at))
        /\ UNCHANGED divisions

Change(d, p) ==
    /\ d \in divisions
    /\ busy # Idle => busy.person # p
    /\ Finish(Seen(d, p))
    /\ UNCHANGED busy

BeginChange(d, p) ==
    /\ d \in divisions
    /\ busy = Idle
    /\ busy' = Seen(d, p)
    /\ UNCHANGED <<divisions, place, record, late>>

EndChange ==
    /\ busy # Idle
    /\ Finish(busy)
    /\ busy' = Idle

\* As a bug would have it: on the way down whoever has place n stays there.
InsertedBefore(at, p, n) ==
    LET old == at[p]
        Shift(q) == CASE at[q] = None -> 0
                      [] old = None /\ at[q] # None -> IF at[q] >= n THEN 1 ELSE 0
                      [] old # None /\ at[q] # None ->
                           IF n <= at[q] /\ at[q] < old THEN 1
                           ELSE IF old < at[q] /\ at[q] < n THEN -1 ELSE 0
    IN  [q \in DOMAIN at |-> CASE q = p -> n
                               [] q # p /\ Shift(q) = 0 -> at[q]
                               [] OTHER -> at[q] + Shift(q)]

\* The places after p has been put at n, if somebody else has that place: those
\* in between make room, or those behind if p had no place yet.
Inserted(at, p, n) ==
    LET old == at[p]
        Shift(q) == CASE at[q] = None -> 0
                      [] old = None /\ at[q] # None -> IF at[q] >= n THEN 1 ELSE 0
                      [] old # None /\ at[q] # None ->
                           IF n <= at[q] /\ at[q] < old THEN 1
                           ELSE IF old < at[q] /\ at[q] <= n THEN -1 ELSE 0
    IN  [q \in DOMAIN at |-> CASE q = p -> n
                               [] q # p /\ Shift(q) = 0 -> at[q]
                               [] OTHER -> at[q] + Shift(q)]

\* It locks all entries of the division.  Nobody may be moved past the last place.
SetDivisionPlace(d, p, n) ==
    LET at == place[d]
        total == Cardinality(Entries(d))
        taken == \E q \in Entries(d) \ {p} : at[q] = n
        moved == IF n # None /\ taken THEN Inserted(at, p, n) ELSE [at EXCEPT ![p] = n]
    IN  /\ p \in Entries(d)
        /\ Free(d)
        /\ n # at[p]
        /\ n # None => n <= total
        /\ n # None /\ taken /\ at[p] = None => Max(Taken(d)) < total
        /\ place' = [place EXCEPT ![d] = moved]
        /\ Rewrite(Keys(d, Entries(d)), Labels(d, moved, total))
        /\ UNCHANGED <<divisions, busy>>

\* The owner saves the record of p with another place; a text with the place that
\* p has is kept.
EditRecord(d, p, n) ==
    /\ <<p, d>> \in Stored
    /\ \/ SetDivisionPlace(d, p, n)
       \/ /\ p \in Entries(d) /\ place[d][p] = n
          /\ busy # Idle => busy.person # p
          /\ KeepText(<<p, d>>)
          /\ UNCHANGED <<divisions, place, busy>>

Erase(k) ==
    /\ busy # Idle => k # <<busy.person, busy.division>>
    /\ EraseRecord(k)
    /\ UNCHANGED <<divisions, place, busy>>

Next ==
    \/ EndChange
    \/ \E d \in Division :
         \/ CreateDivision(d)
         \/ RemoveDivision(d)
         \/ RenameDivision(d)
         \/ \E p \in Person :
              \/ Change(d, p)
              \/ BeginChange(d, p)
              \/ Erase(<<p, d>>)
              \/ \E n \in 1..Cardinality(Person) \cup {None} :
                   SetDivisionPlace(d, p, n) \/ EditRecord(d, p, n)

\* The records as they should be: of everybody who has entered, with the place and
\* the number of entries.
Due == [k \in UNION {Keys(d, Entries(d)) : d \in Division} |->
          Labels(k[2], place[k[2]], Cardinality(Entries(k[2])))[k]]
==============================================================================
