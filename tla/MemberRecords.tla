---------------------------- MODULE MemberRecords ----------------------------
(***************************************************************************)
(* The MemberRecord table, which every kind of contest writes: one row per *)
(* reservation and scope (a bracket, a division, or neither) with the      *)
(* result as the club sees it.  A guest's reservation gets no row.         *)
(*                                                                         *)
(* late is a history variable: the rows whose last writer had read results *)
(* that were outdated by the time it wrote.                                *)
(***************************************************************************)
EXTENDS Functions, FiniteSets, FunctionUpdates

CONSTANTS Person,      \* paid reservations of the event
          Guest,       \* those without a member
          NoScope,     \* the scope of a result of the event as a whole
          MaxOwn       \* rows that are as the owner made them, at a time

VARIABLES record,      \* record[<<reservation, scope>>], for the rows there are
          late

\* What the owner has made of a row, until a handler writes it again: another
\* text that is not read back as a result, or no row at all.
Typed == <<"typed">>
Erased == <<"erased">>

InitRecords == record = <<>> /\ late = {}

Own == {k \in DOMAIN record : record[k] \in {Typed, Erased}}

Whole(people) == people \X {NoScope}
Stored == {k \in DOMAIN record : record[k] # Erased}
WithMember(result) == Restrict(result, {k \in DOMAIN result : k[1] \notin Guest})

\* The rows of keys are rewritten: those in result get it, the others go.  outdated
\* says that the handler has read the results before they were changed.
Write(keys, result, outdated) ==
    /\ record' = Over(WithMember(result), Restrict(record, DOMAIN record \ keys))
    /\ late' = IF outdated THEN late \cup keys ELSE late \ keys
Rewrite(keys, result) == Write(keys, result, FALSE)

\* The owner's text for k stays as it is.
KeepText(k) ==
    /\ Cardinality(Own \ {k}) < MaxOwn
    /\ record' = Put(record, k, Typed)
    /\ UNCHANGED late

\* MemberRecordViewSet.destroy
EraseRecord(k) ==
    /\ k \in Stored
    /\ Cardinality(Own \ {k}) < MaxOwn
    /\ record' = Put(record, k, Erased)
    /\ UNCHANGED late

\* The rows agree with result, a function from keys to labels, apart from what
\* the owner has made of them and from late writers.
RecordsAre(result) ==
    LET due == WithMember(result)
    IN  /\ DOMAIN due \ late \subseteq DOMAIN record
        /\ \A k \in Stored \ late : k \in DOMAIN due /\ record[k] \in {due[k], Typed}
==============================================================================
