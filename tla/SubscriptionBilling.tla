------------------------ MODULE SubscriptionBilling ------------------------
(***************************************************************************)
(* How a subscription of a club is billed, cycle by cycle: by the club, in *)
(* cash, or by Stripe; and how it goes from one to the other               *)
(* (service_cycle_invoice_create, service_cash_to_stripe,                  *)
(* StripeToCashInvoiceReconciler, and the webhook's branches on            *)
(* subscriptions and invoices).                                            *)
(*                                                                         *)
(* Stripe bills a subscription of its own at every anchor, whether or not  *)
(* the club's row knows of it, and tells the club by webhooks.  The club   *)
(* bills in cash when the row says so.  A failed Stripe invoice makes a    *)
(* task void what is open at Stripe, turn the row and its open invoices to *)
(* cash, and cancel at Stripe, in this order.                              *)
(*                                                                         *)
(* A transaction is one action, and so is a call of Stripe that changes    *)
(* something.  How plans change is the subject of SubscriptionItems: here  *)
(* the row has plans or has none.  Prices, tickets and the invoices of     *)
(* first and added plans, which are about a part of a cycle, are left out. *)
(***************************************************************************)
EXTENDS Integers, FiniteSets, Functions, FunctionUpdates

CONSTANTS
    Sub,        \* Stripe subscriptions that may come to be
    NoSub,      \* none of them
    Started,    \* the Stripe subscriptions that a behaviour may begin with, or NoSub
    MaxCycle,   \* bound: anchors that pass
    MaxCrash    \* bound: workers that die

ASSUME BillingAssumption ==
    /\ NoSub \notin Sub /\ IsFiniteSet(Sub)
    /\ Started \subseteq Sub \cup {NoSub}
    /\ MaxCycle \in Nat /\ MaxCrash \in Nat

VARIABLES
    cycle,      \* the cycle that is running
    row,        \* the Subscription row
    plans,      \* it has active items
    stripe,     \* Stripe's subscriptions, a Checkout Session for one included
    bill,       \* Stripe's invoices: bill[<<s, c>>] is that of s for cycle c
    invoice,    \* the club's invoices: <<s, c>> for that one, <<NoSub, c>> in cash
    hooks,      \* events that Stripe has not delivered yet
    half,       \* a delivery that is half-way, with what it has read
    task,       \* the task that turns the subscription to cash
    told,       \* history: invoices of which invoice.created was handled
    late,       \* history: a delivery has written an outdated row
    crashes

vars == <<cycle, row, plans, stripe, bill, invoice, hooks, half, task, told, late, crashes>>

Cycle == 1..MaxCycle
Bill == Sub \X Cycle
Idle == <<>>
Locked == task # Idle   \* the cache key stripe_sub_lock

RowRecord == [method : {"cash", "stripe"}, link : Sub \cup {NoSub},
              status : {"active", "canceled"}, ending : BOOLEAN,
              due : 1..(MaxCycle + 1)]
InvoiceRecord == [status : {"open", "cashed", "charged"}, method : {"cash", "stripe"},
                  failed : BOOLEAN, moving : {"none", "started", "succeeded"}]
TaskRecord == [pc : {"trigger", "list", "rest", "cancel", "finish"},
               id : Bill, link : Sub, rest : SUBSET Cycle]
HookId == {"created", "paid", "failed", "deleted", "migrated"} \X Sub \X (0..MaxCycle)
\* row: as it was when invoice.paid read it.  ended: the end came from outside.
HalfRecord == [hook : HookId, row : RowRecord \cup {Idle}, ended : BOOLEAN]
NewInvoice(method) ==
    [status |-> "open", method |-> method, failed |-> FALSE, moving |-> "none"]

Init ==
    /\ cycle = 0 /\ plans = TRUE
    /\ \E s \in Started :
          /\ row = [method |-> IF s = NoSub THEN "cash" ELSE "stripe", link |-> s,
                    status |-> "active", ending |-> FALSE, due |-> 1]
          /\ stripe = [t \in Sub |-> IF t = s THEN "active" ELSE "none"]
    /\ bill = [b \in Bill |-> "none"]
    /\ invoice = <<>> /\ hooks = {} /\ half = Idle /\ task = Idle
    /\ told = {} /\ late = FALSE /\ crashes = 0

Running(s) == stripe[s] \in {"active", "ending"}
Billed(s) == {c \in Cycle : bill[<<s, c>>] # "none"}
Unpaid == {i \in DOMAIN invoice : invoice[i].status = "open"}
InCash(ids) ==
    [i \in DOMAIN invoice |-> IF i \in ids THEN [invoice[i] EXCEPT !.method = "cash"]
                              ELSE invoice[i]]

-----------------------------------------------------------------------------
(* Stripe *)

\* An anchor: what runs is billed, what was to end ends, sessions have expired, and
\* events about the drafts of the cycle before are not tried again.
Anchor ==
    LET c == cycle + 1
        billed == {s \in Sub : stripe[s] = "active"}
        ended == {s \in Sub : stripe[s] = "ending"}
    IN  /\ c \in Cycle
        /\ \A b \in Bill : Running(b[1]) => bill[b] # "draft"
        /\ cycle' = c
        /\ stripe' = [s \in Sub |-> CASE s \in ended -> "canceled"
                                      [] stripe[s] = "session" -> "none"
                                      [] OTHER -> stripe[s]]
        /\ bill' = [b \in Bill |-> IF b[1] \in billed /\ b[2] = c THEN "draft" ELSE bill[b]]
        /\ hooks' = {h \in hooks : h[1] # "created"}
                      \cup {<<"created", s, c>> : s \in billed}
                      \cup {<<"deleted", s, 0>> : s \in ended}
        /\ UNCHANGED <<row, plans, invoice, half, task, told, late, crashes>>

Finalize(b) ==
    /\ bill[b] = "draft" /\ Running(b[1])
    /\ bill' = [bill EXCEPT ![b] = "open"]
    /\ UNCHANGED <<cycle, row, plans, stripe, invoice, hooks, half, task, told, late, crashes>>

\* A charge of the card, or the member on the page of the invoice.
PayBill(b) ==
    /\ bill[b] = "open"
    /\ bill' = [bill EXCEPT ![b] = "paid"]
    /\ hooks' = hooks \cup {<<"paid", b[1], b[2]>>}
    /\ UNCHANGED <<cycle, row, plans, stripe, invoice, half, task, told, late, crashes>>

FailBill(b) ==
    /\ bill[b] = "open" /\ Running(b[1])
    /\ b \in DOMAIN invoice => ~invoice[b].failed
    /\ hooks' = hooks \cup {<<"failed", b[1], b[2]>>}
    /\ UNCHANGED <<cycle, row, plans, stripe, bill, invoice, half, task, told, late, crashes>>

Canceled(s) ==
    /\ stripe' = [stripe EXCEPT ![s] = "canceled"]
    /\ hooks' = hooks \cup {<<"deleted", s, 0>>}

\* The subscription is canceled in Stripe's dashboard, or after the last retry.
CancelOutside(s) ==
    /\ Running(s)
    /\ Canceled(s)
    /\ UNCHANGED <<cycle, row, plans, bill, invoice, half, task, told, late, crashes>>

LoseHook(h) ==
    /\ h \in hooks
    /\ hooks' = hooks \ {h}
    /\ UNCHANGED <<cycle, row, plans, stripe, bill, invoice, half, task, told, late, crashes>>

-----------------------------------------------------------------------------
(* Members and owners *)

\* migrate_cash_subscription_to_stripe: a page for a subscription like the row's.  It
\* asks Stripe for one that runs, but sees no page that is open.
AskMigration(s) ==
    /\ row.method = "cash" /\ row.link = NoSub
    /\ Unpaid = {} /\ plans
    /\ \A t \in Sub : ~Running(t)
    /\ ~Locked
    /\ stripe[s] = "none"
    /\ stripe' = [stripe EXCEPT ![s] = "session"]
    /\ UNCHANGED <<cycle, row, plans, bill, invoice, hooks, half, task, told, late, crashes>>

PaySession(s) ==
    /\ stripe[s] = "session"
    /\ stripe' = [stripe EXCEPT ![s] = "active"]
    /\ hooks' = hooks \cup {<<"migrated", s, 0>>}
    /\ UNCHANGED <<cycle, row, plans, bill, invoice, half, task, told, late, crashes>>

\* The last plan is canceled, or there is one again: resumed in the cycle that was
\* paid for, or added, which leaves the flag of a cash subscription as it is.
SetPlans(on, flag) ==
    /\ ~Locked /\ row.status = "active"
    /\ row' = [row EXCEPT !.ending = flag]
    /\ plans' = on
    /\ IF row.method = "cash" THEN UNCHANGED stripe
       ELSE /\ row.link \in Sub /\ Running(row.link)
            /\ stripe' = [stripe EXCEPT ![row.link] = IF on THEN "active" ELSE "ending"]
    /\ UNCHANGED <<cycle, bill, invoice, hooks, half, task, told, late, crashes>>

CancelLastPlan == plans /\ SetPlans(FALSE, TRUE)
ResumePlan == ~plans /\ row.due > cycle /\ SetPlans(TRUE, FALSE)
AddPlan == ~plans /\ SetPlans(TRUE, row.method = "cash" /\ row.ending)

\* CashInvoicePaymentService.mark_paid, while the subscription is in cash.
MarkPaid(i) ==
    /\ i \in Unpaid /\ row.method = "cash"
    /\ invoice' = [invoice EXCEPT ![i].status = "cashed"]
    /\ UNCHANGED <<cycle, row, plans, stripe, bill, hooks, half, task, told, late, crashes>>

-----------------------------------------------------------------------------
(* The club's jobs *)

\* As a bug would have it: the period is not looked at again under the lock.
CreateAnyCycle ==
    /\ row.method = "cash" /\ row.status = "active" /\ plans
    /\ row.due <= cycle + 1 /\ row.due \in Cycle
    /\ <<NoSub, row.due>> \notin DOMAIN invoice
    /\ invoice' = Put(invoice, <<NoSub, row.due>>, NewInvoice("cash"))
    /\ row' = [row EXCEPT !.due = @ + 1]
    /\ UNCHANGED <<cycle, plans, stripe, bill, hooks, half, task, told, late, crashes>>

\* CashSubscriptionCycleInvoiceService.create: one transaction under the row's lock,
\* which bills the cycle that is due and moves the row to the next one.
CreateCycleInvoice ==
    /\ row.method = "cash" /\ row.status = "active" /\ plans
    /\ row.due <= cycle
    /\ <<NoSub, row.due>> \notin DOMAIN invoice
    /\ invoice' = Put(invoice, <<NoSub, row.due>>, NewInvoice("cash"))
    /\ row' = [row EXCEPT !.due = @ + 1]
    /\ UNCHANGED <<cycle, plans, stripe, bill, hooks, half, task, told, late, crashes>>

\* What was canceled at Stripe goes on in cash; Stripe's invoices stay as they are.
GoOnInCash ==
    /\ invoice' = InCash({i \in Unpaid : invoice[i].method = "stripe"})
    /\ row' = [row EXCEPT !.method = "cash", !.link = NoSub, !.ending = FALSE]

GiveUp == row' = [row EXCEPT !.status = "canceled", !.link = NoSub, !.ending = FALSE]

\* reconcile_canceled_stripe_subscriptions, which asks Stripe every day.
FindCanceled ==
    /\ ~Locked
    /\ row.method = "stripe" /\ row.link \in Sub /\ stripe[row.link] = "canceled"
    /\ GoOnInCash
    /\ UNCHANGED <<cycle, plans, stripe, bill, hooks, half, task, told, late, crashes>>

\* reconcile_expired_canceling_subscriptions, a day after the end of the period.
FindExpired ==
    /\ ~Locked
    /\ row.ending /\ row.link \in Sub /\ stripe[row.link] = "canceled"
    /\ row.due <= cycle
    /\ GiveUp
    /\ UNCHANGED <<cycle, plans, stripe, bill, invoice, hooks, half, task, told, late, crashes>>

-----------------------------------------------------------------------------
(* StripeToCashInvoiceReconciler.reconcile_recent_invoices and                *)
(* reconcile_subscription_invoice, call by call                              *)

Step(pc) == task' = [task EXCEPT !.pc = pc]

\* Nothing of the list is left to be voided.
Committing == Locked /\ task.pc = "rest" /\ task.rest = {}

\* As a bug would have it: nobody looks whether the row has a link.
TakeUnlinked(i) ==
    /\ ~Locked
    /\ i \in Unpaid /\ invoice[i].method = "stripe" /\ invoice[i].failed
    /\ invoice' = [invoice EXCEPT ![i].moving = "started"]
    /\ task' = [pc |-> "trigger", id |-> i, link |-> row.link, rest |-> {}]
    /\ UNCHANGED <<cycle, row, plans, stripe, bill, hooks, half, told, late, crashes>>

\* One that failed FAILURE_GRACE_DAYS ago, or that an earlier task has not brought to
\* the end.
TakeInvoice(i) ==
    /\ ~Locked /\ row.link \in Sub
    /\ i \in DOMAIN invoice
    /\ \/ i \in Unpaid /\ invoice[i].method = "stripe" /\ invoice[i].failed
                       /\ invoice[i].moving # "succeeded"
       \/ invoice[i].moving = "started"
    /\ invoice' = [invoice EXCEPT ![i].moving = "started"]
    /\ task' = [pc |-> "trigger", id |-> i, link |-> row.link, rest |-> {}]
    /\ UNCHANGED <<cycle, row, plans, stripe, bill, hooks, half, told, late, crashes>>

\* The invoice is voided, unless it was paid or is a draft again.
VoidTrigger ==
    /\ Locked /\ task.pc = "trigger"
    /\ IF bill[task.id] \in {"open", "void"}
       THEN bill' = [bill EXCEPT ![task.id] = "void"] /\ Step("list")
       ELSE task' = Idle /\ UNCHANGED bill
    /\ UNCHANGED <<cycle, row, plans, stripe, invoice, hooks, half, told, late, crashes>>

\* The link is read again, and its invoices are listed; a draft ends the task.
ListRest ==
    /\ Locked /\ task.pc = "list"
    /\ task' = IF \E c \in Cycle : bill[<<row.link, c>>] = "draft" THEN Idle
               ELSE [task EXCEPT !.pc = "rest", !.link = row.link,
                                 !.rest = {c \in Cycle : bill[<<row.link, c>>] = "open"}]
    /\ UNCHANGED <<cycle, row, plans, stripe, bill, invoice, hooks, half, told, late, crashes>>

\* Those that were open are voided one by one, the newest first, unless they were paid.
VoidRest ==
    /\ Locked /\ task.pc = "rest"
    /\ \E c \in task.rest :
          /\ \A d \in task.rest : d <= c
          /\ bill' = [bill EXCEPT ![<<task.link, c>>] = IF @ = "open" THEN "void" ELSE @]
          /\ task' = [task EXCEPT !.rest = @ \ {c}]
    /\ UNCHANGED <<cycle, row, plans, stripe, invoice, hooks, half, told, late, crashes>>

CommitCash ==
    /\ Committing
    /\ invoice' = InCash(Unpaid)
    /\ row' = [row EXCEPT !.method = "cash"]
    /\ task' = [task EXCEPT !.pc = "cancel", !.link = row.link]
    /\ UNCHANGED <<cycle, plans, stripe, bill, hooks, half, told, late, crashes>>

CancelAtStripe ==
    /\ Locked /\ task.pc = "cancel"
    /\ IF Running(task.link) THEN Canceled(task.link) ELSE UNCHANGED <<stripe, hooks>>
    /\ Step("finish")
    /\ UNCHANGED <<cycle, row, plans, bill, invoice, half, told, late, crashes>>

FinishTransition ==
    /\ Locked /\ task.pc = "finish"
    /\ row' = [row EXCEPT !.link = NoSub, !.ending = FALSE]
    /\ invoice' = [invoice EXCEPT ![task.id].moving = "succeeded"]
    /\ task' = Idle
    /\ UNCHANGED <<cycle, plans, stripe, bill, hooks, half, told, late, crashes>>

\* The worker dies, or Stripe does not answer; the lock ends.
Crash ==
    /\ Locked /\ crashes < MaxCrash
    /\ task' = Idle
    /\ crashes' = crashes + 1
    /\ UNCHANGED <<cycle, row, plans, stripe, bill, invoice, hooks, half, told, late>>

-----------------------------------------------------------------------------
(* stripe_connected_webhook.  An event about a subscription that no row links  *)
(* to is refused and tried again, except the end of one.  The row is looked up *)
(* before the lock is taken, if it is, and not looked up again.                *)

Deliver(h) == h \in hooks /\ hooks' = hooks \ {h}

\* A delivery has looked at the row, keeps some of it or nothing, and writes later.
Read(h, kept) ==
    /\ Deliver(h) /\ half = Idle
    /\ half' = [hook |-> h, row |-> kept, ended |-> FALSE]

HalfWay(h) == half # Idle /\ half.hook = h

\* It finds the lock taken, or its worker dies: it is tried again.
DeliveryFails ==
    /\ half # Idle
    /\ half' = Idle
    /\ hooks' = IF half.hook[1] = "created" /\ half.hook[3] # cycle THEN hooks
                ELSE hooks \cup {half.hook}
    /\ UNCHANGED <<cycle, row, plans, stripe, bill, invoice, task, told, late, crashes>>

\* The club's copies, with one of b if there was none.
Copied(b) == IF b \in DOMAIN invoice THEN invoice ELSE Put(invoice, b, NewInvoice("stripe"))

\* invoice.created ...
ReadCreated(b) ==
    /\ Read(<<"created", b[1], b[2]>>, Idle)
    /\ row.link = b[1]
    /\ UNCHANGED <<cycle, row, plans, stripe, bill, invoice, task, told, late, crashes>>

\* ... and, under the lock, the club's copy and the next period.
HookCreated(b) ==
    /\ HalfWay(<<"created", b[1], b[2]>>) /\ half' = Idle
    /\ ~Locked
    /\ invoice' = Copied(b)
    /\ row' = [row EXCEPT !.due = b[2] + 1]
    /\ told' = told \cup {b}
    /\ UNCHANGED <<cycle, plans, stripe, bill, hooks, task, late, crashes>>

\* invoice.paid, without a lock: the invoice ...
HookPaid(b) ==
    /\ Read(<<"paid", b[1], b[2]>>, row)
    /\ row.link = b[1]
    /\ invoice' = [Copied(b) EXCEPT ![b].status = "charged"]
    /\ UNCHANGED <<cycle, row, plans, stripe, bill, task, told, late, crashes>>

\* ... and every field of the row as it was read.
SaveRow ==
    /\ half # Idle /\ half.hook[1] = "paid"
    /\ row' = [half.row EXCEPT !.status = "active"]
    /\ late' = (late \/ row # half.row)
    /\ half' = Idle
    /\ UNCHANGED <<cycle, plans, stripe, bill, invoice, hooks, task, told, crashes>>

\* invoice.payment_failed; without a copy there is nothing to mark.
HookFailed(b) ==
    /\ Deliver(<<"failed", b[1], b[2]>>)
    /\ invoice' = IF b \in DOMAIN invoice THEN [invoice EXCEPT ![b].failed = TRUE] ELSE invoice
    /\ UNCHANGED <<cycle, row, plans, stripe, bill, half, task, told, late, crashes>>

\* customer.subscription.deleted ...
ReadDeleted(s) ==
    /\ IF row.link = s THEN Read(<<"deleted", s, 0>>, Idle)
       ELSE Deliver(<<"deleted", s, 0>>) /\ UNCHANGED half
    /\ UNCHANGED <<cycle, row, plans, stripe, bill, invoice, task, told, late, crashes>>

\* ... and, under the lock, the end of a transition, the end that was asked for, or
\* one that comes from outside ...
HookDeleted(s) ==
    /\ HalfWay(<<"deleted", s, 0>>) /\ ~half.ended
    /\ ~Locked
    /\ \/ /\ row.method = "cash"
          /\ row' = [row EXCEPT !.link = NoSub, !.ending = FALSE, !.status = "active"]
          /\ half' = Idle
       \/ /\ row.method = "stripe" /\ row.ending
          /\ GiveUp
          /\ half' = Idle
       \/ /\ row.method = "stripe" /\ ~row.ending
          /\ half' = [half EXCEPT !.ended = TRUE]
          /\ UNCHANGED row
    /\ UNCHANGED <<cycle, plans, stripe, bill, invoice, hooks, task, told, late, crashes>>

\* ... which is for reconcile_canceled_subscription, under the lock again.
ReconcileCanceled ==
    /\ half # Idle /\ half.ended /\ half' = Idle
    /\ ~Locked
    /\ IF row.method = "stripe" /\ row.link \in Sub THEN GoOnInCash
       ELSE UNCHANGED <<row, invoice>>
    /\ UNCHANGED <<cycle, plans, stripe, bill, hooks, task, told, late, crashes>>

\* checkout.session.completed of a migration; a second one is not looked at ...
ReadMigrated(s) ==
    /\ IF row.method = "cash" THEN Read(<<"migrated", s, 0>>, Idle)
       ELSE Deliver(<<"migrated", s, 0>>) /\ UNCHANGED half
    /\ UNCHANGED <<cycle, row, plans, stripe, bill, invoice, task, told, late, crashes>>

\* ... and, when Stripe has been asked, the link, without a lock.
HookMigrated(s) ==
    /\ HalfWay(<<"migrated", s, 0>>) /\ half' = Idle
    /\ row' = [row EXCEPT !.link = s, !.method = "stripe"]
    /\ UNCHANGED <<cycle, plans, stripe, bill, invoice, hooks, task, told, late, crashes>>

-----------------------------------------------------------------------------
Convert == VoidTrigger \/ ListRest \/ VoidRest \/ CommitCash \/ CancelAtStripe \/ FinishTransition

Next ==
    \/ Anchor
    \/ \E b \in Bill : Finalize(b) \/ PayBill(b) \/ FailBill(b)
                         \/ ReadCreated(b) \/ HookCreated(b) \/ HookPaid(b) \/ HookFailed(b)
    \/ \E s \in Sub : CancelOutside(s) \/ AskMigration(s) \/ PaySession(s)
                         \/ ReadDeleted(s) \/ HookDeleted(s)
                         \/ ReadMigrated(s) \/ HookMigrated(s)
    \/ \E h \in hooks : LoseHook(h)
    \/ CancelLastPlan \/ ResumePlan \/ AddPlan
    \/ \E i \in DOMAIN invoice : MarkPaid(i) \/ TakeInvoice(i)
    \/ CreateCycleInvoice \/ FindCanceled \/ FindExpired
    \/ Convert \/ Crash \/ SaveRow \/ ReconcileCanceled \/ DeliveryFails

Spec == Init /\ [][Next]_vars

-----------------------------------------------------------------------------
(* Properties *)

\* Every value stays in its type: among other things, nobody clears the link of a row
\* while a task works with it.
TypeOK ==
    /\ cycle \in 0..MaxCycle /\ crashes \in 0..MaxCrash
    /\ row \in RowRecord
    /\ plans \in BOOLEAN /\ late \in BOOLEAN
    /\ told \subseteq Bill
    /\ stripe \in [Sub -> {"none", "session", "active", "ending", "canceled"}]
    /\ bill \in [Bill -> {"none", "draft", "open", "paid", "void"}]
    /\ DOMAIN invoice \subseteq (Sub \cup {NoSub}) \X Cycle
    /\ \A i \in DOMAIN invoice : invoice[i] \in InvoiceRecord
    /\ hooks \subseteq HookId
    /\ half = Idle \/ half \in HalfRecord
    /\ task = Idle \/ task \in TaskRecord

\* Who asks the member to pay for cycle c, or has been paid: Stripe, with a draft of
\* what runs too, or the club, with a copy of what Stripe has voided too.
AskedByStripe(c) ==
    {b \in Bill : b[2] = c /\ (bill[b] \in {"open", "paid"}
                                 \/ (bill[b] = "draft" /\ Running(b[1])))}
AskedByClub(c) ==
    {i \in DOMAIN invoice : i[2] = c /\
        \/ invoice[i].status = "cashed"
        \/ invoice[i].status = "open" /\ (invoice[i].method = "cash" \/ bill[i] = "void")}
Asked(c) == Cardinality(AskedByStripe(c)) + Cardinality(AskedByClub(c))

\* Stripe bills a subscription that is not, or no more, the row's.
BilledAstray ==
    \E b \in Bill : /\ bill[b] = "none" /\ bill'[b] = "draft"
                    /\ ~(row.method = "stripe" /\ row.link = b[1])

\* The club bills a cycle although Stripe has, of which it was not told: invoice.created
\* is lost or delayed, or its effect on the row is undone.
BilledUnaware ==
    \E i \in DOMAIN invoice' \ DOMAIN invoice :
        i[1] = NoSub /\ (late \/ \E s \in Sub : i[2] \in Billed(s)
                                    /\ <<s, i[2]>> \notin told)

\* A delayed invoice.created makes a copy of what has been voided, after the club has
\* billed the cycle.
VoidIsCopied == \E i \in DOMAIN invoice' \ DOMAIN invoice : i \in Bill /\ bill[i] = "void"

\* The task turns an invoice to cash that Stripe has been paid for.
PaidIsTurned ==
    /\ Committing /\ invoice' # invoice
    /\ \E i \in Unpaid \cap Bill : bill[i] = "paid"

\* The task turns an invoice to cash that it has not looked at: one of a Stripe
\* subscription that is no more the row's, or is not again, since the row was saved as
\* it had been.
AnothersIsTurned ==
    /\ Committing /\ invoice' # invoice
    /\ \E i \in Unpaid \cap Bill :
          i[1] # task.link /\ invoice[i].method = "stripe" /\ bill[i] \in {"draft", "open"}

\* A subscription that ended at Stripe takes its invoices along, which Stripe keeps.
EndedIsTurned == row.link # NoSub /\ row'.link = NoSub /\ invoice' # invoice

\* The owner marks an invoice as paid in cash that is Stripe's still: the row is in cash
\* already, and nobody looks at the method of the invoice.
MarkedAtStripe ==
    \E i \in Unpaid : invoice[i].method = "stripe" /\ invoice'[i].status = "cashed"

\* The member is asked twice for a cycle only in those seven ways.
AskedTwiceOnlyByKnownSteps ==
    [][\A c \in Cycle :
         \/ Asked(c)' <= 1 \/ Asked(c)' <= Asked(c)
         \/ BilledAstray \/ BilledUnaware \/ VoidIsCopied
         \/ PaidIsTurned \/ AnothersIsTurned \/ EndedIsTurned \/ MarkedAtStripe]_vars
=============================================================================
