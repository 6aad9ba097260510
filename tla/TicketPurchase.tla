---------------------------- MODULE TicketPurchase ----------------------------
(***************************************************************************)
(* A member buys a package of tickets (TicketPurchaseService): with the    *)
(* card saved for a subscription, or on a Stripe Checkout page that the    *)
(* webhook reports.  No job looks for a payment whose webhook was lost.    *)
(*                                                                         *)
(* Each call makes a TicketPurchase of its own, whose id is in both of its *)
(* idempotency keys, so a purchase has one charge and one page at most,    *)
(* and its record here holds the row, the request and what Stripe has.     *)
(***************************************************************************)
EXTENDS Integers

CONSTANTS
    Purchase,     \* purchase ids, which are also the grants they make
    Grant

VARIABLES
    purchase,     \* the TicketPurchase table, its requests and its payments
    granted       \* the TicketGrant table: the rows a source of tickets made

PurchaseRecord ==
    [status : {"none", "pending", "paid", "gone"}, free : BOOLEAN,
     pc : {"idle", "zero", "charge", "land", "page", "store"},
     charge : {"none", "processing", "refused", "succeeded"}, session : BOOLEAN,
     page : {"none", "open", "shown", "paid", "expired"},
     hook : {"none", "pending", "over"}]

NoPurchase == [status |-> "none", free |-> FALSE, pc |-> "idle",
               charge |-> "none", session |-> FALSE, page |-> "none", hook |-> "none"]

Init ==
    /\ purchase = [p \in Purchase |-> NoPurchase]
    /\ granted = [g \in Grant |-> IF g \in Purchase THEN 0 ELSE 1]

\* the row is written before anything is asked of Stripe
CreatePurchase(p) ==
    /\ purchase[p].status = "none"
    /\ \E free \in BOOLEAN :
          purchase' = [purchase EXCEPT
                         ![p].status = "pending", ![p].free = free,
                         ![p].pc = IF free THEN "zero" ELSE "charge"]
    /\ UNCHANGED granted

\* the transaction that marks a purchase paid and creates its grant
Fulfilled(p) ==
    /\ purchase' = [purchase EXCEPT ![p].status = "paid", ![p].pc = "idle"]
    /\ granted' = [granted EXCEPT ![p] = @ + 1]

GrantFree(p) == purchase[p].pc = "zero" /\ Fulfilled(p)

\* PaymentIntent.create with the saved card, if there is one: whatever has not
\* succeeded falls back to Checkout, also a charge that is being processed
ChargeCard(p) ==
    /\ purchase[p].pc = "charge"
    /\ \E charge \in {"none", "processing", "refused", "succeeded"} :
          purchase' = [purchase EXCEPT
                         ![p].charge = charge,
                         ![p].pc = IF charge = "succeeded" THEN "land" ELSE "page"]
    /\ UNCHANGED granted

\* Stripe ends such a charge later, and nothing of the club hears of it
SettleCharge(p) ==
    /\ purchase[p].charge = "processing"
    /\ \E charge \in {"refused", "succeeded"} :
          purchase' = [purchase EXCEPT ![p].charge = charge]
    /\ UNCHANGED granted

FulfillCharged(p) == purchase[p].pc = "land" /\ Fulfilled(p)

OpenPurchasePage(p) ==
    /\ purchase[p].pc = "page"
    /\ purchase' = [purchase EXCEPT ![p].pc = "store", ![p].page = "open"]
    /\ UNCHANGED granted

\* the customer or the page could not be made: the row is deleted
DeletePurchase(p) ==
    /\ purchase[p].pc \in {"charge", "page"}
    /\ purchase' = [purchase EXCEPT ![p].pc = "idle", ![p].status = "gone"]
    /\ UNCHANGED granted

\* the session id is saved and the page is shown
StorePurchasePage(p) ==
    /\ purchase[p].pc = "store"
    /\ purchase' = [purchase EXCEPT
                       ![p].pc = "idle", ![p].session = TRUE,
                       ![p].page = IF @ = "open" THEN "shown" ELSE @]
    /\ UNCHANGED granted

CrashPurchase(p) ==
    /\ purchase[p].pc # "idle"
    /\ purchase' = [purchase EXCEPT ![p].pc = "idle"]
    /\ UNCHANGED granted

PayPurchase(p) ==
    /\ purchase[p].page = "shown"
    /\ purchase' = [purchase EXCEPT ![p].page = "paid", ![p].hook = "pending"]
    /\ UNCHANGED granted

ExpirePurchase(p) ==
    /\ purchase[p].page \in {"open", "shown"}
    /\ purchase' = [purchase EXCEPT ![p].page = "expired"]
    /\ UNCHANGED granted

\* mutant: a delivery does not look whether an earlier one was handled
FulfillAgain(p) ==
    /\ purchase[p].hook = "pending"
    /\ \E hook \in {"pending", "over"} :
          purchase' = [purchase EXCEPT ![p].hook = hook, ![p].status = "paid"]
    /\ granted' = [granted EXCEPT ![p] = @ + 1]

\* checkout.session.completed.  It stays pending when the worker dies before
\* the event is marked, and Stripe sends it again.
FulfillWebhook(p) ==
    /\ purchase[p].hook = "pending"
    /\ \E hook \in {"pending", "over"} :
          IF purchase[p].status = "pending"
            THEN /\ purchase' = [purchase EXCEPT ![p].hook = hook,
                                                 ![p].status = "paid"]
                 /\ granted' = [granted EXCEPT ![p] = @ + 1]
            ELSE /\ purchase' = [purchase EXCEPT ![p].hook = hook]
                 /\ UNCHANGED granted

LosePurchaseWebhook(p) ==
    /\ purchase[p].hook = "pending"
    /\ purchase' = [purchase EXCEPT ![p].hook = "over"]
    /\ UNCHANGED granted

Next ==
    \E p \in Purchase :
        \/ CreatePurchase(p)
        \/ GrantFree(p)
        \/ ChargeCard(p)
        \/ SettleCharge(p)
        \/ FulfillCharged(p)
        \/ OpenPurchasePage(p)
        \/ DeletePurchase(p)
        \/ StorePurchasePage(p)
        \/ CrashPurchase(p)
        \/ PayPurchase(p)
        \/ ExpirePurchase(p)
        \/ FulfillWebhook(p)
        \/ LosePurchaseWebhook(p)

\* Every value stays in its type; a source of tickets makes one grant at most.
TypeOK ==
    /\ purchase \in [Purchase -> PurchaseRecord]
    /\ granted \in [Grant -> 0..1]
=============================================================================
