------------------------- MODULE MemberReservation -------------------------
(***************************************************************************)
(* A member reserves a lesson on a date, and pays with a ticket, with the  *)
(* card saved for a subscription, or on a Stripe Checkout page             *)
(* (MemberReservationService.create_reservation).                          *)
(*                                                                         *)
(* A slot is what reservation_key names: a member, a lesson and a date.    *)
(* The request's transaction runs under the lock of the lesson and ends    *)
(* before it talks to Stripe about money, so two requests for a slot       *)
(* interleave at those calls.  The ticket branch is split in two: the      *)
(* grants are locked and counted, then one is spent; until the commit the  *)
(* request keeps the lesson, the row and the grants locked.  What a        *)
(* request refuses with an exception inside the transaction is rolled      *)
(* back: it is a stuttering step, and so limits, caps, horizon, plan       *)
(* access and expired tickets, which only refuse, have no state here.      *)
(*                                                                         *)
(* Time is left out: a session may expire at any moment, and a hold (31    *)
(* minutes) is over when no request for the row is running any more.       *)
(***************************************************************************)
EXTENDS Integers, FiniteSets

CONSTANTS
    Slot,         \* a member, a lesson and a date
    Row,          \* reservation ids; a deleted id is never used again
    SlotOf,       \* SlotOf[r]: the slot an id can be for
    Free,         \* the slots whose price is 0
    Grant,        \* ticket grants
    NoGrant,
    Usable,       \* Usable[sl]: the grants that may pay for a slot
    Quantity,     \* Quantity[g]: the tickets of a grant
    Req,          \* requests that may run at the same time
    MaxStamp,     \* bound: how often a row is taken again for a new payment
    MaxIntent,    \* bound: PaymentIntents created with saved cards
    MaxSession    \* bound: Checkout Sessions created

ASSUME MemberAssumption ==
    /\ Slot # {} /\ Row # {} /\ IsFiniteSet(Row)
    /\ SlotOf \in [Row -> Slot]
    /\ Free \subseteq Slot
    /\ NoGrant \notin Grant
    /\ Usable \in [Slot -> SUBSET Grant]
    /\ Quantity \in [Grant -> Nat]
    /\ MaxStamp \in Nat
    /\ MaxIntent \in Nat
    /\ MaxSession \in Nat

VARIABLES
    row,       \* the Reservation table
    usage,     \* the TicketUsage table, one row for a reservation at most
    granted,   \* the TicketGrant table: the rows a source of tickets made
    req,       \* the requests inside create_reservation
    int,       \* Stripe's PaymentIntents made with a saved card
    ses,       \* Stripe's Checkout Sessions and their webhooks
    overlap    \* history: the slots where a request began while another one
               \* was running, or while a charge could not be seen

vars == <<row, usage, granted, req, int, ses, overlap>>

Intent == 1..MaxIntent
Session == 1..MaxSession
None == 0

RowStatus == {"none", "unpaid", "paid", "gone"}
ReqPC == {"idle", "spend", "zero", "charge", "land", "page", "store"}

RowRecord ==
    [status : RowStatus, ticket : BOOLEAN, deleted : BOOLEAN,
     canceled : BOOLEAN, refunded : BOOLEAN,
     session : 0..MaxSession, intent : 0..MaxIntent, stamp : 0..MaxStamp]

UsageRecord == [grant : Grant \cup {NoGrant}, back : BOOLEAN]

\* stamp: checkout_started_at of a row that is used again, 0 for a new row;
\* _member_stripe_key is the row's id with this stamp.
ReqRecord ==
    [pc : ReqPC, slot : Slot, row : Row, stamp : 0..MaxStamp,
     intent : 0..MaxIntent, session : 0..MaxSession, left : SUBSET Grant]

IntentRecord ==
    [status : {"none", "processing", "succeeded", "refused"}, row : Row,
     stamp : 0..MaxStamp]

SessionRecord ==
    [status : {"none", "open", "shown", "paid", "expired"}, row : Row,
     hook : {"none", "pending", "over"}]

NoRow == [status |-> "none", ticket |-> FALSE, deleted |-> FALSE,
          canceled |-> FALSE, refunded |-> FALSE, session |-> None,
          intent |-> None, stamp |-> 0]
NoUsage == [grant |-> NoGrant, back |-> FALSE]
AnyRow == CHOOSE r \in Row : TRUE
AnySlot == CHOOSE sl \in Slot : TRUE
Idle == [pc |-> "idle", slot |-> AnySlot, row |-> AnyRow, stamp |-> 0,
         intent |-> None, session |-> None, left |-> {}]

Init ==
    /\ row = [r \in Row |-> NoRow]
    /\ usage = [r \in Row |-> NoUsage]
    /\ granted \in [Grant -> 0..1]
    /\ req = [q \in Req |-> Idle]
    /\ int = [i \in Intent |-> [status |-> "none", row |-> AnyRow, stamp |-> 0]]
    /\ ses = [s \in Session |-> [status |-> "none", row |-> AnyRow,
                                 hook |-> "none"]]
    /\ overlap = {}

-----------------------------------------------------------------------------
(* The tables and Stripe, as the requests read them.                       *)

Exists(r) == row[r].status \in {"unpaid", "paid"}

\* the transaction of a ticket request holds the lesson, and the slot's row
Locked(sl) == \E q \in Req : req[q].pc = "spend" /\ req[q].slot = sl

\* select_for_update on the eligible grants
GrantsLocked(G) ==
    \E q \in Req : req[q].pc = "spend" /\ Usable[req[q].slot] \cap G # {}

\* used_quantity: the tickets of g that are spent and not given back
Spent(g) == {r \in Row : usage[r].grant = g /\ ~usage[r].back}

\* usable_grants
UsableGrants(sl) ==
    {g \in Usable[sl] : Cardinality(Spent(g)) < granted[g] * Quantity[g]}

SucceededIntents(r) ==
    {i \in Intent : int[i].status = "succeeded" /\ int[i].row = r}

\* read_stripe_payment: the recorded session first, then the recorded intent,
\* then a search for a succeeded intent that names the row.  An intent made by
\* Checkout does not name it.
StripeOpen(r) ==
    row[r].session # None /\ ses[row[r].session].status \in {"open", "shown"}
StripePending(r) ==
    /\ row[r].session = None
    /\ row[r].intent # None /\ int[row[r].intent].status = "processing"
StripePaid(r) ==
    \/ row[r].session # None /\ ses[row[r].session].status = "paid"
    \/ ~StripeOpen(r) /\ ~StripePending(r) /\ SucceededIntents(r) # {}

\* mutant: whatever is not paid is taken for unpaid
NotPaid(r) == ~StripePaid(r)

ConfirmedUnpaid(r) == ~StripePaid(r) /\ ~StripeOpen(r) /\ ~StripePending(r)

Newest(I) == {i \in I : \A j \in I : j <= i}

\* record_stripe_payment: the recorded intent, or else the newest that succeeded
Recorded(r) ==
    LET S == SucceededIntents(r)
        I == Newest(IF row[r].intent \in S THEN {row[r].intent} ELSE S)
    IN  IF row[r].session # None /\ ses[row[r].session].status = "paid"
          THEN {[row EXCEPT ![r].status = "paid", ![r].deleted = FALSE]}
          ELSE {[row EXCEPT ![r].status = "paid", ![r].deleted = FALSE,
                            ![r].intent = i] : i \in I}

-----------------------------------------------------------------------------
(* create_reservation.                                                     *)

InSlot(sl) == {q \in Req : req[q].pc # "idle" /\ req[q].slot = sl}
\* history: a charge for the slot that read_stripe_payment does not see
Unseen(sl) ==
    \E i \in Intent :
        /\ SlotOf[int[i].row] = sl
        /\ \/ int[i].status = "processing"
           \/ int[i].status = "succeeded" /\ row[int[i].row].status = "gone"
Enter(sl) ==
    overlap' = IF InSlot(sl) # {} \/ Unseen(sl) THEN overlap \cup {sl}
               ELSE overlap

\* the rows a request for the slot may write: the slot's row when Stripe has
\* nothing left that could pay for it, or else a new row
Takeable(sl) ==
    LET existing == {r \in Row : SlotOf[r] = sl /\ Exists(r)} IN
    IF existing = {} THEN {r \in Row : SlotOf[r] = sl /\ row[r].status = "none"}
    ELSE {r \in existing : row[r].status = "unpaid" /\ ConfirmedUnpaid(r)}

\* the payment is found at Stripe
FindPayment(r) ==
    /\ row[r].status = "unpaid"
    /\ StripePaid(r)
    /\ ~Locked(SlotOf[r])
    /\ row' \in Recorded(r)
    /\ UNCHANGED <<usage, granted, req, int, ses, overlap>>

\* the recorded page is still open: it is shown again
ShowOpenPage(r) ==
    /\ row[r].status = "unpaid"
    /\ ~StripePaid(r) /\ StripeOpen(r)
    /\ ~Locked(SlotOf[r])
    /\ row' = [row EXCEPT ![r].deleted = FALSE]
    /\ ses' = [ses EXCEPT ![row[r].session].status = "shown"]
    /\ UNCHANGED <<usage, granted, req, int, overlap>>

\* _reuse_member_reservation: what the row knew of Stripe is forgotten
Reused(r) == [NoRow EXCEPT !.refunded = row[r].refunded]

\* payment_method "stripe": the row is written unpaid and the lesson released
ReserveUnpaid(q, sl, r) ==
    /\ req[q].pc = "idle"
    /\ ~Locked(sl)
    /\ r \in Takeable(sl)
    /\ LET stamp == IF row[r].status = "none" THEN 0 ELSE row[r].stamp + 1 IN
       /\ stamp <= MaxStamp
       /\ row' = [row EXCEPT ![r] =
                    [Reused(r) EXCEPT !.status = "unpaid", !.stamp = stamp]]
       /\ req' = [req EXCEPT ![q] =
                    [Idle EXCEPT !.pc = IF sl \in Free THEN "zero" ELSE "charge",
                                 !.slot = sl, !.row = r, !.stamp = stamp]]
    /\ Enter(sl)
    /\ UNCHANGED <<usage, granted, int, ses>>

\* mutant: the grants are counted without their locks
CountWithoutLocks(q, sl, r) ==
    /\ req[q].pc = "idle"
    /\ ~Locked(sl)
    /\ r \in Takeable(sl)
    /\ UsableGrants(sl) # {}
    /\ req' = [req EXCEPT ![q] =
                 [Idle EXCEPT !.pc = "spend", !.slot = sl, !.row = r,
                              !.left = UsableGrants(sl)]]
    /\ Enter(sl)
    /\ UNCHANGED <<row, usage, granted, int, ses>>

\* payment_method "ticket": the eligible grants are locked and counted
CountTickets(q, sl, r) ==
    /\ req[q].pc = "idle"
    /\ ~Locked(sl)
    /\ ~GrantsLocked(Usable[sl])
    /\ r \in Takeable(sl)
    /\ UsableGrants(sl) # {}
    /\ req' = [req EXCEPT ![q] =
                 [Idle EXCEPT !.pc = "spend", !.slot = sl, !.row = r,
                              !.left = UsableGrants(sl)]]
    /\ Enter(sl)
    /\ UNCHANGED <<row, usage, granted, int, ses>>

\* ... and the chosen one pays for the row, unless a ticket already does
SpendTicket(q, g) ==
    LET r == req[q].row IN
    /\ req[q].pc = "spend"
    /\ g \in req[q].left
    /\ row' = [row EXCEPT ![r] =
                 [Reused(r) EXCEPT !.status = "paid", !.ticket = TRUE]]
    /\ usage' = [usage EXCEPT ![r] =
                   IF @.grant # NoGrant /\ ~@.back THEN @
                   ELSE [grant |-> g, back |-> FALSE]]
    /\ req' = [req EXCEPT ![q] = Idle]
    /\ UNCHANGED <<granted, int, ses, overlap>>

\* The save that follows a transaction: it changes its columns and no others,
\* waits for the row's lock, and fails when the row is gone.
Save(q, table) ==
    LET r == req[q].row IN
    /\ ~Locked(SlotOf[r])
    /\ row' = IF Exists(r) THEN table ELSE row
    /\ req' = [req EXCEPT ![q] = Idle]

\* nothing to pay
SaveFree(q) ==
    /\ req[q].pc = "zero"
    /\ Save(q, [row EXCEPT ![req[q].row].status = "paid",
                           ![req[q].row].deleted = FALSE])
    /\ UNCHANGED <<usage, granted, int, ses, overlap>>

NewIntent(i) ==
    /\ int[i].status = "none"
    /\ \A j \in Intent : int[j].status = "none" => i <= j
NewSession(s) ==
    /\ ses[s].status = "none"
    /\ \A t \in Session : ses[t].status = "none" => s <= t

\* mutant: a charge that is still being processed counts as done
ChargeUnlessRefused(q) ==
    /\ req[q].pc = "charge"
    /\ \/ /\ req' = [req EXCEPT ![q].pc = "page"]
          /\ UNCHANGED int
       \/ \E i \in Intent, status \in {"succeeded", "refused", "processing"} :
             /\ NewIntent(i)
             /\ int' = [int EXCEPT ![i] = [status |-> status, row |-> req[q].row,
                                           stamp |-> req[q].stamp]]
             /\ req' = [req EXCEPT
                          ![q].pc = IF status # "refused" THEN "land" ELSE "page",
                          ![q].intent = i]
    /\ UNCHANGED <<row, usage, granted, ses, overlap>>

\* PaymentIntent.create.  No saved card, or a call that Stripe does not accept,
\* makes no intent; a declined card makes a refused one.
ChargeSavedCard(q) ==
    /\ req[q].pc = "charge"
    /\ \/ /\ req' = [req EXCEPT ![q].pc = "page"]
          /\ UNCHANGED int
       \/ \E i \in Intent, status \in {"succeeded", "refused", "processing"} :
             /\ NewIntent(i)
             /\ int' = [int EXCEPT ![i] = [status |-> status, row |-> req[q].row,
                                           stamp |-> req[q].stamp]]
             /\ req' = [req EXCEPT
                          ![q].pc = IF status = "succeeded" THEN "land" ELSE "page",
                          ![q].intent = i]
    /\ UNCHANGED <<row, usage, granted, ses, overlap>>

\* the charge succeeded and its answer came
LandCharge(q) ==
    /\ req[q].pc = "land"
    /\ Save(q, [row EXCEPT ![req[q].row].status = "paid",
                           ![req[q].row].intent = req[q].intent,
                           ![req[q].row].deleted = FALSE])
    /\ UNCHANGED <<usage, granted, int, ses, overlap>>

\* Stripe refuses an idempotency key that it knows from another call
KeyIsTaken(q) ==
    \E i \in Intent : /\ int[i].status # "none"
                      /\ int[i].row = req[q].row
                      /\ int[i].stamp = req[q].stamp

\* Session.create succeeds
OpenPage(q) ==
    /\ req[q].pc = "page"
    /\ ~KeyIsTaken(q)
    /\ \E s \in Session :
          /\ NewSession(s)
          /\ ses' = [ses EXCEPT ![s] = [status |-> "open", row |-> req[q].row,
                                        hook |-> "none"]]
          /\ req' = [req EXCEPT ![q].pc = "store", ![q].session = s]
    /\ UNCHANGED <<row, usage, granted, int, overlap>>

\* mutant: a row that a ticket paid for can be deleted
FailAnyPage(q) ==
    LET r == req[q].row IN
    /\ req[q].pc = "page"
    /\ ~Locked(SlotOf[r])
    /\ row' = IF req[q].stamp = 0 /\ Exists(r)
                THEN [row EXCEPT ![r] = [NoRow EXCEPT !.status = "gone"]]
                ELSE row
    /\ req' = [req EXCEPT ![q] = Idle]
    /\ UNCHANGED <<usage, granted, int, ses, overlap>>

\* Session.create fails, or its answer is lost (its page is then never shown):
\* a row that this request made new is deleted, unless a TicketUsage names it
FailPage(q) ==
    LET r == req[q].row IN
    /\ req[q].pc = "page"
    /\ ~Locked(SlotOf[r])
    /\ row' = IF req[q].stamp = 0 /\ Exists(r) /\ usage[r] = NoUsage
                THEN [row EXCEPT ![r] = [NoRow EXCEPT !.status = "gone"]]
                ELSE row
    /\ req' = [req EXCEPT ![q] = Idle]
    /\ UNCHANGED <<usage, granted, int, ses, overlap>>

\* the session id is saved and the page is shown
StorePage(q) ==
    LET s == req[q].session IN
    /\ req[q].pc = "store"
    /\ Save(q, [row EXCEPT ![req[q].row].session = s])
    /\ ses' = [ses EXCEPT ![s].status =
                 IF @ = "open" /\ Exists(req[q].row) THEN "shown" ELSE @]
    /\ UNCHANGED <<usage, granted, int, overlap>>

\* the worker dies, or an exception that nothing catches: a transaction is
\* rolled back, and what Stripe did is not known
Crash(q) ==
    /\ req[q].pc # "idle"
    /\ req' = [req EXCEPT ![q] = Idle]
    /\ UNCHANGED <<row, usage, granted, int, ses, overlap>>

-----------------------------------------------------------------------------
(* Stripe, its webhook, the reconciler, cancellation and refunds.          *)

\* a card payment that was being processed ends
SettleIntent(i) ==
    /\ int[i].status = "processing"
    /\ \E status \in {"succeeded", "refused"} :
          int' = [int EXCEPT ![i].status = status]
    /\ UNCHANGED <<row, usage, granted, req, ses, overlap>>

Pay(s) ==
    /\ ses[s].status = "shown"
    /\ ses' = [ses EXCEPT ![s].status = "paid", ![s].hook = "pending"]
    /\ UNCHANGED <<row, usage, granted, req, int, overlap>>

Expire(s) ==
    /\ ses[s].status \in {"open", "shown"}
    /\ ses' = [ses EXCEPT ![s].status = "expired"]
    /\ UNCHANGED <<row, usage, granted, req, int, overlap>>

\* complete_paid_checkout for the one reservation a member's session names
CompletePaidCheckout(s) ==
    LET r == ses[s].row IN
    IF \/ ~Exists(r)
       \/ row[r].session \notin {None, s} /\ ~row[r].deleted
       \/ row[r].status = "paid" /\ ~row[r].deleted
      THEN row
      ELSE [row EXCEPT ![r].status = "paid", ![r].deleted = FALSE,
                       ![r].session = s]

\* checkout.session.completed: it stays pending when the worker dies before
\* the event is marked, and Stripe sends it again
Webhook(s) ==
    /\ ses[s].hook = "pending"
    /\ ~Locked(SlotOf[ses[s].row])
    /\ row' = CompletePaidCheckout(s)
    /\ \E hook \in {"pending", "over"} : ses' = [ses EXCEPT ![s].hook = hook]
    /\ UNCHANGED <<usage, granted, req, int, overlap>>

LoseWebhook(s) ==
    /\ ses[s].hook = "pending"
    /\ ses' = [ses EXCEPT ![s].hook = "over"]
    /\ UNCHANGED <<row, usage, granted, req, int, overlap>>

\* the intent _reconcile_payment_intent looks at
IntentsOf(r) == {i \in Intent : int[i].status # "none" /\ int[i].row = r}
IntentToCheck(r) ==
    Newest(IF row[r].intent # None THEN {row[r].intent}
           ELSE IF SucceededIntents(r) # {} THEN SucceededIntents(r)
           ELSE IntentsOf(r))

\* _abandon: deleted for the lists, then Stripe is asked once more
Abandoned(r) ==
    IF StripePaid(r) THEN Recorded(r) ELSE {[row EXCEPT ![r].deleted = TRUE]}

\* mutant: only reservations with a Checkout Session are looked at
ReconcilePages(r) ==
    /\ row[r].status = "unpaid" /\ ~row[r].deleted
    /\ \A q \in InSlot(SlotOf[r]) : req[q].row # r
    /\ row[r].session # None
    /\ ~StripeOpen(r)
    /\ row' \in Abandoned(r)
    /\ UNCHANGED <<usage, granted, req, int, ses, overlap>>

\* reconcile_reservation: a session is what it looks at if there is one
Reconcile(r) ==
    /\ row[r].status = "unpaid" /\ ~row[r].deleted
    /\ \A q \in InSlot(SlotOf[r]) : req[q].row # r
    /\ IF row[r].session # None
         THEN /\ ~StripeOpen(r)
              /\ row' \in Abandoned(r)
         ELSE \/ /\ IntentToCheck(r) = {}
                 /\ row' \in Abandoned(r)
              \/ \E i \in IntentToCheck(r) :
                    \/ /\ int[i].status = "succeeded"
                       /\ row' = [row EXCEPT ![r].status = "paid", ![r].intent = i]
                    \/ /\ int[i].status = "refused"
                       /\ row' \in Abandoned(r)
                    \/ /\ int[i].status = "processing"
                       /\ row' = [row EXCEPT ![r].intent = i]
    /\ UNCHANGED <<usage, granted, req, int, ses, overlap>>

\* cancel_reservation and restore_reservation, the links in the mail
Cancel(r) ==
    /\ row[r].status = "paid" /\ ~row[r].canceled
    /\ row' = [row EXCEPT ![r].canceled = TRUE]
    /\ UNCHANGED <<usage, granted, req, int, ses, overlap>>

Restore(r) ==
    /\ Exists(r) /\ row[r].canceled
    /\ row' = [row EXCEPT ![r].canceled = FALSE]
    /\ UNCHANGED <<usage, granted, req, int, ses, overlap>>

\* refund_reservation of a ticket, in one transaction
RefundTicket(r) ==
    /\ row[r].status = "paid" /\ row[r].ticket
    /\ usage[r].grant # NoGrant /\ ~usage[r].back
    /\ usage' = [usage EXCEPT ![r].back = TRUE]
    /\ row' = [row EXCEPT ![r].refunded = TRUE, ![r].canceled = TRUE]
    /\ UNCHANGED <<granted, req, int, ses, overlap>>

-----------------------------------------------------------------------------
Next ==
    \/ \E r \in Row : FindPayment(r)
    \/ \E r \in Row : ShowOpenPage(r)
    \/ \E q \in Req, sl \in Slot, r \in Row : ReserveUnpaid(q, sl, r)
    \/ \E q \in Req, sl \in Slot, r \in Row : CountTickets(q, sl, r)
    \/ \E q \in Req, g \in Grant : SpendTicket(q, g)
    \/ \E q \in Req : SaveFree(q)
    \/ \E q \in Req : ChargeSavedCard(q)
    \/ \E q \in Req : LandCharge(q)
    \/ \E q \in Req : OpenPage(q)
    \/ \E q \in Req : FailPage(q)
    \/ \E q \in Req : StorePage(q)
    \/ \E q \in Req : Crash(q)
    \/ \E i \in Intent : SettleIntent(i)
    \/ \E s \in Session : Pay(s)
    \/ \E s \in Session : Expire(s)
    \/ \E s \in Session : Webhook(s)
    \/ \E s \in Session : LoseWebhook(s)
    \/ \E r \in Row : Reconcile(r)
    \/ \E r \in Row : Cancel(r)
    \/ \E r \in Row : Restore(r)
    \/ \E r \in Row : RefundTicket(r)

Spec == Init /\ [][Next]_vars

-----------------------------------------------------------------------------
(* Properties.                                                             *)

\* Every value stays in its type.
TypeOK ==
    /\ row \in [Row -> RowRecord]
    /\ usage \in [Row -> UsageRecord]
    /\ granted \in [Grant -> 0..1]
    /\ req \in [Req -> ReqRecord]
    /\ int \in [Intent -> IntentRecord]
    /\ ses \in [Session -> SessionRecord]
    /\ overlap \in SUBSET Slot

PaidSessions(r) == {s \in Session : ses[s].status = "paid" /\ ses[s].row = r}

\* A reservation counts as paid only if nothing was due, Stripe has money for
\* this very reservation, or a ticket was spent on it: no overlap of requests,
\* late save, webhook or reconciliation confirms a place nobody paid for.
PaidIsPaidFor ==
    \A r \in Row : row[r].status = "paid" =>
        \/ SlotOf[r] \in Free
        \/ SucceededIntents(r) # {}
        \/ PaidSessions(r) # {}
        \/ usage[r].grant # NoGrant

\* A ticket is spent exactly on the reservations that say so and are confirmed,
\* and is back exactly when the reservation says refunded.  A slower request
\* that deletes or rewrites its row after another one spent a ticket on it
\* would break this.
UsageAgreesWithRow ==
    \A r \in Row :
        /\ usage[r].grant # NoGrant <=> row[r].status = "paid" /\ row[r].ticket
        /\ usage[r].back <=> row[r].refunded

\* what was paid for a slot: charges, pages, and tickets that are not back
Payments(sl) ==
    Cardinality({i \in Intent : /\ int[i].status = "succeeded"
                                /\ SlotOf[int[i].row] = sl})
    + Cardinality({s \in Session : /\ ses[s].status = "paid"
                                   /\ SlotOf[ses[s].row] = sl})
    + Cardinality({r \in Row : /\ SlotOf[r] = sl
                               /\ usage[r].grant # NoGrant /\ ~usage[r].back})

\* Lost answers, dead workers, expired pages, late webhooks and retries never
\* make a member pay twice: that takes a request that runs into another one,
\* a charge that is still being processed, or one whose row was deleted.
ChargedTwiceOnlyByOverlap == \A sl \in Slot \ overlap : Payments(sl) <= 1

\* "If the application crashes after Stripe succeeds but before the local
\* reservation is marked PAID, reconciliation can recover the payment"
\* (MemberReservationPaymentReconciler): a charge whose request has ended is
\* recorded, unless it was among those nothing could see.
ChargeLands ==
    \A i \in Intent :
        (/\ int[i].status = "succeeded"
         /\ row[int[i].row].status = "unpaid"
         /\ InSlot(SlotOf[int[i].row]) = {}
         /\ SlotOf[int[i].row] \notin overlap)
        ~> (row[int[i].row].status = "paid")
=============================================================================
