-------------------------------- MODULE Teams --------------------------------
(***************************************************************************)
(* The teams of a team tournament and of a team battle: two copies of the  *)
(* same handlers, which differ in what they refresh at the end.  Such a    *)
(* handler locks its team and the reservations it adds, but not the        *)
(* bracket or the match whose records it rewrites.  So it has two steps,   *)
(* up to its reading of the matches and from there, and busy is what it    *)
(* has read.  One of them at a time is a bound of the model.               *)
(*                                                                         *)
(* A team without members that has no match yet is as good as none, so     *)
(* create_team is no step of its own: any id of Team will do.              *)
(***************************************************************************)
EXTENDS MemberRecords, Integers, FiniteSetsExt

CONSTANTS Team,        \* ids of teams
          NoTeam,      \* of who is in no team
          Idle         \* no handler is half-way

VARIABLES team,        \* team[p]: the team of p
          busy         \* the handler that is half-way, with what it has read

InitTeams == team = [p \in Person |-> NoTeam] /\ busy = Idle

Members(t) == {p \in Person : team[p] = t}

\* The handlers on a team: add_member(s), remove_member, rename_team, remove_team.
OpsOn(t) ==
    LET none == [team |-> t, join |-> {}, leave |-> {}, gone |-> FALSE]
        some == kSubset(1, Members(NoTeam)) \cup kSubset(2, Members(NoTeam))
    IN  {[none EXCEPT !.join = new] : new \in some}
          \cup {[none EXCEPT !.leave = {p}] : p \in Members(t)}
          \cup {none, [none EXCEPT !.leave = Members(t), !.gone = TRUE]}

\* The rows that busy has locked: its team, and the records it has deleted.
Free(t) == busy # Idle => t # busy.op.team
FreeRecords(keys) == busy # Idle => keys \cap busy.cleared = {}

\* Who is in which team after op.
TeamAfter(op) == [p \in Person |-> CASE p \in op.join -> op.team
                                     [] p \in op.leave -> NoTeam
                                     [] OTHER -> team[p]]

\* As a bug would have it: only remove_team deletes records.
ClearedWithTeam(op) == IF op.gone THEN Whole(op.leave) ELSE {}

\* The records that op deletes before it refreshes anything.  One that the owner
\* has erased counts, too: that another handler writes it anew just then is left out.
Cleared(op) == Whole(op.leave)
==============================================================================
