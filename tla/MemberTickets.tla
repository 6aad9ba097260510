---------------------------- MODULE MemberTickets ----------------------------
(***************************************************************************)
(* Buying tickets and reserving with them.  The two services share the     *)
(* TicketGrant table and nothing else: a step of one leaves the tables of  *)
(* the other alone.                                                        *)
(***************************************************************************)
EXTENDS MemberReservation

CONSTANT Purchase      \* purchase ids, which are also the grants they make

ASSUME TicketsAssumption == Purchase \subseteq Grant

VARIABLE purchase

P == INSTANCE TicketPurchase

ticketVars == <<vars, purchase>>

TicketsInit == Init /\ P!Init

TicketsNext ==
    \/ Next /\ UNCHANGED purchase
    \/ P!Next /\ UNCHANGED <<row, usage, req, int, ses, overlap>>

TicketsSpec == TicketsInit /\ [][TicketsNext]_ticketVars

\* The reconciler is a periodic job; Stripe closes a page after 30 minutes and
\* ends what it is processing.
FairSpec ==
    /\ TicketsSpec
    /\ \A r \in Row : WF_ticketVars(Reconcile(r) /\ UNCHANGED purchase)
    /\ \A s \in Session : WF_ticketVars(Expire(s) /\ UNCHANGED purchase)
    /\ \A i \in Intent : WF_ticketVars(SettleIntent(i) /\ UNCHANGED purchase)

\* What the tables say of the ledger: a grant is issued by its row, and the
\* tickets left are those of the grant without the usages that are not back.
L == INSTANCE TicketLedger WITH
        Reservation <- Row,
        issued <- {g \in Grant : granted[g] > 0},
        left <- [g \in Grant |-> granted[g] * Quantity[g] - Cardinality(Spent(g))],
        spent <- usage

\* Every value stays in its type; a source of tickets makes one grant at most,
\* however often its webhook comes.
TicketsTypeOK == TypeOK /\ P!TypeOK

\* The tables keep what TicketLedger promises: a webhook that comes twice, or
\* two requests for different lessons at once, never make or spend a ticket
\* that is not there, a reservation costs one, and a refund returns it once.
LedgerSpec == L!Spec
=============================================================================
