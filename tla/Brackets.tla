------------------------------ MODULE Brackets ------------------------------
(***************************************************************************)
(* The stored brackets of a tournament, of persons or of teams.            *)
(***************************************************************************)
EXTENDS BracketTree, MemberRecords

CONSTANTS Bracket,      \* ids of brackets
          Room          \* Room[b]: at most so many entries, a bound of the model

ASSUME RoomAssumption == \A b \in Bracket : Room[b] \in 0..MaxEntries

VARIABLES brackets,     \* the brackets that exist
          entries,      \* entries[b]: persons or teams, in their order
          match         \* match[b]: the stored matches

InitBrackets ==
    /\ brackets = {}
    /\ entries = [b \in Bracket |-> <<>>]
    /\ match = [b \in Bracket |-> <<>>]

Entered(b) == Range(entries[b])

\* The order of bracket b after c has left.
Without(b, c) == RemoveFirst(entries[b], c)

\* No result yet: whatever changes the order asks for that.
IsOpen(b) == b \in brackets /\ ~Locked(entries[b], match[b])
==============================================================================
