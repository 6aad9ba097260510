# Kaibaru: a verification development in TLA+

Kaibaru (`src/kaibaru`) runs the business of sports clubs: lessons and events
with paid reservations, trial and visitor guests, tickets, subscriptions paid
by card (Stripe Connect) or cash, tournaments, and the fees of the platform.
The repository also holds Eibaru, a word quiz (`src/main`), the accounts shared
by both (`src/accounts`), the site's settings (`src/mysite`, `src/deploy`) and
React front ends (`src/static`).

What can go wrong in Kaibaru goes wrong between its own tables and Stripe: a
payment or a refund that one side has and the other does not know. Requests
run concurrently on MySQL (read committed, row locks by `select_for_update`),
call Stripe outside transactions, and are cut off anywhere by a crash; webhooks
are late, repeated or lost; Celery jobs ("reconcilers") repair what is left.
These protocols are what is modelled first.

## Inventory

| Component | State | Operations | Hard because |
|---|---|---|---|
| Start of visitor and trial reservations (`service_reservation_start`, `service_visitor_reservation`, `service_trial_reservation`) | `Reservation` rows (status, hold, start token, session id, soft delete), Stripe Checkout Sessions | request, `begin`, `_prepare`, reuse or open a session, `_expire_session`, `_restore`, `complete_paid_checkout` | requests overlap around calls to Stripe; rows are reused and replaced |
| Payment recovery (`MemberReservationPaymentReconciler`, `reservation_checkout_recovery`) | the same rows | `reconcile_reservation`, `record_stripe_payment` | decides from what Stripe answers now about a row read before |
| Places (`rules_reservations`, `held_reservations`) | rows that hold a place, by the clock | `assert_lesson_has_spots`, `assert_event_has_spots` | limits under late payments and restores |
| Refunds (`service_reservation_refund`) | `refunded_at`, `canceled`, `refund_started_at`, `TicketUsage.refunded_at`, Stripe refunds | owner's refund, reconciler | two transactions with Stripe between, retries days later |
| Cancel and restore (`views_reservation_cancel`, `reservation_cancel`) | `canceled`, placements | signed links of the guest | interplay with refunds, placements, limits |
| Member reservations, tickets (`service_reservation`, `service_ticket_purchase`) | reservations, grants, usages, purchases, PaymentIntents | reserve by ticket or card, buy tickets | saved cards, timeouts, no reconciler for purchases |
| Events (`service_event`) | `EventReservation`, `Event` | start, pay, dismiss, cancel, reconcile | as the start of visitors, plus cancellation |
| Tournaments (`service_tournament`, `service_team_tournament`, `service_team_battle`) | brackets, divisions, teams | place, draw, advance | long sequences of edits |
| Webhooks (`stripe_webhooks`) | `StripeWebhookEvent` | one handler per event type | repeated and concurrent deliveries |
| Subscriptions (`service_add_plan`, `service_subscription`, `service_mutations`, `stripe_views`, the reconcilers of `locks_and_reconciliation`) | subscription, items, mutation rows, cache lock | add, change, cancel, resume, plan deletion | mutations repeated after crashes, lock expiry |
| Cash and cycle invoices, platform subscription | invoices, fee records | create, pay, switch to Stripe | idempotent creation by overlapping jobs |
| Pricing, discounts, eligibility | none | pure functions | boundaries of dates and rounding |
| Instructor pay, transfers, custom domains, quiz, accounts, REST interface, front end | various | various | little concurrency of their own |

Every component is in `PROJECT.json`, with its status and the reason where it
is not modelled; `hazards` lists where each one can go wrong.

## Plan

1. `ReservationCheckout`: start, payment and recovery of visitor and trial
   reservations. **Done**, with proofs.
2. `ReservationRefund`: what happens to a paid reservation. **Done**, with
   proofs.
3. `TicketLedger`, `TicketPurchase`, `MemberReservation`, `MemberTickets`:
   member reservations and tickets; an abstract ledger and the code as its
   refinement. **Done**, with proofs.
4. `EventReservation`: events, from the start to the restore link. **Done**,
   with proofs.
5. `SubscriptionItems`: the plans on a subscription, their mutations, the cache
   lock and plan deletion. **Done**, with proofs.
6. `Contests` and the modules it joins: tournaments, teams, duels, team
   battles, competitions and their records. **Done**, with proofs.
7. `SubscriptionBilling`: cash to Stripe and back, cycle invoices and their
   webhooks. **Done**, with proofs. Left: the platform subscription, the first checkout.
8. Pricing and discounts as pure functions; the small components.

Runs are kept small enough for minutes, several questions to a run where they
need the same instance. Theorems come after TLC agrees.

## ReservationCheckout

`row` is the `Reservation` table for one lesson and date, `ses` Stripe's
Checkout Sessions with the delivery of their webhook, `click` the requests that
are inside `ReservationStartService.begin`.

| Action | Code |
|---|---|
| `SaveVisitorReservation`, `SaveTrialReservations` | the two request forms; a trial group is one transaction that replaces older rows |
| `Begin` (`PrepareDone`, `PrepareFree`, `PrepareReuse`, `PrepareCreate`) | `_prepare`, one transaction under the lesson's lock |
| `ReusableCheckoutUrl`, `PrepareAgain` | Stripe is asked about the stored session, then `_prepare(force_new=True)` |
| `OpenNewCheckout`, `SaveSession` | `Session.create`, then the update that counts its rows |
| `ExpireSession`, `Restore` (row by row: `RestoreRow`), `Crash` | the `except` branch of `begin`; the worker dies |
| `Pay`, `Webhook`, `LoseWebhook` | the guest on Stripe's page; `complete_paid_checkout`; a hook that never comes |
| `ReconcileReservation` | `reconcile_reservation` for a row with or without a session id |
| `Tick` | time; Stripe expires sessions |

Refused requests roll back and are stuttering steps. `OpenNewCheckout` reads the
rows once more, so a session may be for fewer rows than its request has. Left out
is that two sessions of one token within one second would have the same
idempotency key (`service_reservation_start.py:504` takes the time in whole
seconds): Stripe would answer with the first one. The model lets both be made.
Trials are not counted. The bounds are
`MaxSession` (sessions in one behaviour) and the four durations in ticks.
Two sessions are the least with which a session can be replaced, saved late,
or mismatched. The run `trial` has a third one, since a page may be shown while
an earlier payment is still to be credited; in it only behaviours where the
first guest has asked once go on to the third session (`TwiceOrThrice`), and
there are two links. Two guests and one place are enough for every conflict
over places; a trial group of two with a third guest is enough to break a group
up.

What the runs show:

* **visitor**: two visitors, one of them free of charge, two overlapping
  requests that may run longer than the 60 seconds of grace. A paid row is not
  soft-deleted; the limit is exceeded only by a payment that was captured in
  time and reported late, or by `_restore`; only `_restore` takes a payment
  back. The last two name the step that writes the row back, which is what the
  code really does: `_restore` writes without a lock or a condition.
* **trial**: groups that ask again. Who is paid was paid for, no session is
  filed under a row it is not for, and the page a guest can pay on is recorded
  on all its rows, which hold their places unless another payment has confirmed
  them. That last case was found by the attempt to prove the property without
  it, which TLC then confirmed with three sessions: the webhook of an earlier
  page confirms a guest while a new session is being made for a group that this
  guest is in, and the worker dies before it has expired the session that it
  could not save everywhere. The link then finds that session and shows it, for
  the price of the whole group.
  This run and the theorems on the page assume that a clean-up which has put back
  one row of a start puts back the others (`CleanUpsEnd`). `_restore` saves row by
  row outside of a transaction, and if the worker dies in between, and Stripe did
  not expire the new session either, a row goes on naming a session that was never
  shown; it is reused for this row when the group has been broken up, and its page
  also charges for a row that is gone. A start with one row has no such point, and
  the other runs assume nothing.
* **prompt**: requests that end within the grace period, with fairness. The
  limit is exceeded only by late payments, and every payment that the reconciler
  can find is credited: by the session on the row, or, where a crash left none
  there, by the metadata of the sessions.
* **lost** (a violation): when a trial guest asks again after the hold, the
  row is deleted without asking Stripe, although its payment may have been
  captured and its webhook lost. The reconciler's comments say that it handles
  missed webhooks and that age alone never decides a deletion. A visitor's row
  is kept, but forgets its session in the same way.

Fairness (`FairSpec`): time passes, the beat schedule runs the reconciler and
each run visits every unpaid row, and a request that has started ends, if only
by a crash. Nothing is assumed of guests, webhooks or new requests.

## ReservationRefund

`row` has the reservations of a lesson date and of an event; `Method` says how
each is paid. The way to a payment is here as far as places need it: a free or
ticket place is counted and confirmed in one transaction (`Book`), a card place
is counted when its row begins to hold it (`Hold`), the hold ends (`HoldEnds`),
and a payment, in time or late, counts nothing (`Confirm`); the sessions behind it
are in `ReservationCheckout` and `EventReservation`. `stripe` counts the refunds of a
payment and has the idempotency key Stripe remembers (about a day:
`ForgetKey`). `click` are the owner's refund requests, `job` the tasks
`reconcile_reservation_refunds`. `held` are rows whose restore has passed its
checks: `restore_reservation` counts places without the lock that bookings
take, so count and write are two steps and other rows change between them.
Steps on a row in `held` wait, as they wait for its row lock.

The stamp `refund_started_at` is an age. The reconciler compares the stamp it
read; since each click writes a new time, the model only records whether it was
replaced (`same`). `After` is the reconciler's five minutes, `MaxDelay` the
longest time a click talks to Stripe: up to three calls of at most 80 seconds.

* **places**: one card, one free and one ticket reservation. A refund mark has
  a refund or a returned ticket behind it; a placed competitor is valid or was
  refunded in a race with the placement. The limit is passed by two steps only
  (`OverfullOnlyByUncountedRow`): the payment of a row that held no place any
  more, and a restore that missed a place taken between its count and its write.
  A restore that missed nobody never does.
* **refund**: one card payment, two clicks and two tasks at once. The money
  goes back once, although keys are forgotten and answers lost; a task does not
  clear the stamp of a running click; every refund is recorded in the end.
  One row is enough, since requests for different rows share nothing.

`FairSpec` assumes that time passes, requests and tasks end, and each scan
visits every due row. Strong fairness says that a step that is tried on every
scan does not fail for ever: a task may die or Stripe not answer, but not each
time.

Not covered by a run, seen while modelling: the owner's restore refuses a
refunded reservation (`owner_may_restore_free`), the guest's link does not. A
card reservation is canceled again by the reconciler (`RefundLands`), a ticket
reservation stays valid with its ticket returned (`ReturnedTicketIsCanceled`
states the opposite).

## MemberReservation, TicketPurchase, MemberTickets, TicketLedger

`MemberReservation` has a member's reservations for slots (`reservation_key`: a
member, a lesson, a date): `row` is the `Reservation` table, `usage` the
`TicketUsage` table, `granted` the grants that exist, `req` the requests inside
`create_reservation`, `int` and `ses` Stripe's PaymentIntents and Checkout
Sessions. `TicketPurchase` has the purchases of ticket packages, each with its
request and payments. `MemberTickets` composes the two, which share the grants
and nothing else, and shows that together they implement `TicketLedger`.

| Action | Code |
|---|---|
| `FindPayment`, `ShowOpenPage` | `create_reservation` finds an unpaid row that Stripe has money or an open page for |
| `ReserveUnpaid` | its transaction for a card payment: a new row, or the old one by `_reuse_member_reservation` |
| `CountTickets`, `SpendTicket` | its transaction for a ticket: the grants are locked and counted, one is spent |
| `SaveFree`, `ChargeSavedCard`, `LandCharge` | a price of 0; `PaymentIntent.create`, and the save after its answer |
| `OpenPage`, `StorePage`, `FailPage` | the Checkout fallback, the save of its id, the `except` branch that deletes a new row |
| `Crash` | the worker dies, or Stripe's answer is lost |
| `Reconcile`, `Webhook` | `MemberReservationPaymentReconciler.reconcile_reservation`, `complete_paid_checkout` |
| `Cancel`, `Restore`, `RefundTicket` | what happens to a confirmed row; refunds of money are in `ReservationRefund` |
| `CreatePurchase` to `CrashPurchase` | `TicketPurchaseService.create_purchase`, call by call |
| `SettleCharge` | a charge that was being processed succeeds or is refused, after its request went on to the page |
| `FulfillWebhook` | the webhook's branch for ticket purchases |

The lock of the lesson, the row and the grants is held from `CountTickets` to
`SpendTicket`, and whoever needs one of them waits (`Locked`, `GrantsLocked`).
`stamp` is `checkout_started_at`, from which `_member_stripe_key` makes the key
of a row that is used again; two stamps of a row differ, although the code
keeps whole seconds. `overlap` is a history variable: the slots where a request
began while another was inside, or while there was a charge that
`read_stripe_payment` does not see, because it is still being processed or its
row was deleted. No guard reads it.

Time is left out. A page may expire at any moment, and a hold of 31 minutes is
over when no request for the row runs. Stripe's search by metadata is taken to
be immediate. A question to Stripe that gets no answer refuses the request or
the reconciliation, which changes nothing. The reconciler and the webhook take
the row's lock.

What the runs show:

* **tickets**: a package of one ticket, bought with or without money, while two
  requests reserve two lessons, one free of charge. A source of tickets makes
  one grant however often its webhook comes (`TicketsTypeOK`); a confirmed
  place costs nothing, or there is money or a ticket for it (`PaidIsPaidFor`);
  no slow request deletes or rewrites a row that a ticket paid for
  (`UsageAgreesWithRow`); and the tables implement the ledger (`LedgerSpec`):
  no ticket is spent that is not there, a reservation costs one, a refund
  returns it once. Two lessons and one ticket are the least for which two
  requests compete for a ticket; two requests for one lesson compete for a row.
* **charge**: one lesson, two reservation ids (a deleted one is not used
  again), two charges, two pages, one renewed key. Lost answers, dead workers,
  expired pages and retries do not make a member pay twice; only the cases in
  `overlap` do. Outside of these, every charge is recorded in the end.
The bounds are `MaxStamp`, `MaxIntent`, `MaxSession` and the number of ids.
When they are used up and nothing is left to do the model stops, as the system
may when nobody asks for anything, so these runs do not check deadlock.

`FairSpec` assumes that the beat schedule runs the reconciler on every row, and
that Stripe closes pages and ends what it processes. Requests, webhooks and
members owe nothing.

Seen while modelling, without a run of its own: after a declined card the
Checkout fallback sends the idempotency key of the PaymentIntent. Stripe refuses
a key it knows from another call, so there is no page, and a new row is deleted
(that Stripe keeps the key of a declined charge is an assumption about Stripe;
`TicketPurchaseService` has a key of its own for the page; events do as
lessons do).

Not covered: a charge still being processed when its request goes on to the
page and its new row is deleted is never looked at again, which `ChargeLands`
excludes; no job repairs a purchase of tickets whose webhook was lost or whose
worker died after the charge. Both follow from the actions; no comment or test
says otherwise.

## EventReservation

One event of a club with the rows of its guests: `row` is the
`EventReservation` table, `req` the requests inside
`create_member_reservation` or `begin`, `int` and `ses` Stripe's side, and
`back` the rows whose restore link has passed its checks.

| Action | Code |
|---|---|
| `SaveVisitorReservation`, `Begin`, `ReusableCheckoutUrl`, `PrepareAgain`, `OpenEventCheckout`, `SaveEventCheckout`, `RestoreEventReservation` | a visitor's request and link, call by call, with the clean-up of a failed start |
| `FindPayment`, `ShowOpenPage`, `Reserve`, `ChargeSavedCard`, `LandCharge`, `OpenPage`, `StorePage`, `FailStart` | `create_member_reservation`, call by call |
| `Webhook`, `LoseWebhook`, `ReconcileReservation`, `HoldEnds` | payment, its reconciler, the hold |
| `Dismiss`, `CancelEvent`, `GuestCancel`, `CountForRestore`, `RestoreRow` | the owner's and the guest's cancellations; the restore link counts before it writes |
| `Crash`, `SettleIntent`, `Pay`, `Expire` | dead workers; Stripe and the guest |

Run **event**: a visitor and a member compete for one place with two requests,
one charge and one session. Who is confirmed was paid for (`PaidIsPaidFor`).
The other properties name the steps which alone can do harm: passing the limit
takes a payment of a row that is not counted, the write of a restore link, or that
of a clean-up (`OverfullOnlyByUncheckedWrite`); nobody comes into a canceled event
but by captured money or a restore (`CanceledEventStaysEmpty`); a canceled
reservation comes back only when captured money is recorded for the first time, when
the webhook of its page comes, by its guest's restore, or by a new request of its
member (`CanceledComesBackByRight`); and only the two clean-ups, which write
without looking at the row, take a recorded payment back
(`PaidIsLostOnlyByCleanUp`): the restored snapshot of a start, and the deletion of
the row of a member's failed request, which also follows when the mail or the fee
after the save of a charge fails (`LandCharge`).
The code takes a start for one in progress by a clock of 60 seconds; the model asks
whether the request runs (`InProgress`), since requests are shorter than that.
One place and two guests are the least for an oversold event, two requests the
least for an overlap, and the one session is reused or replaced by none. The
behaviours end when nothing is asked for any more, so deadlock is not checked.

Seen while modelling: a row the owner dismissed is not counted when its guest
opens it again; a repeated webhook makes a canceled reservation valid again
(`CanceledComesBackByRight` names it), and
`record_stripe_payment` leaves it canceled; two starts that replace the page
leave two payable pages.

## SubscriptionItems

One subscription with its rows, one per member and plan (`row`), Stripe's items
with their quantities (`qty`), the mutations that are open (`open`) with the
idempotency keys they have used (`used`), the cache lock (`lock`), and the
requests and tasks (`req`), call by call: `pc` names the next call of Stripe or
the next transaction.

| Action | Code |
|---|---|
| `Ask`: `AskCancel`, `AskResume`, `AskChange`, `AskUndo`, `AskAdd`, `AskDeletion`, `AskReconcile` | a view or task loads the row and checks the rules, before the lock |
| `Enter`, `TurnAway` | the lock and the first transaction, which records or finds the mutation; or the refusal |
| `Put`, `TakeSome`, `TakeAll`, `TakeNone`, `PutRefused`, `TakeRefused` | raising and lowering a quantity at Stripe, with the replies to keys that were used before |
| `EndAtPeriodEnd`, `Flag`, `Uncancel`, `UncancelForAdd`, `CleanUp` | the last row is canceled, or there is one again |
| `Bill`, `Finalize`, `FinalizeRefused`, `PayInvoice` | the invoice of an addition |
| `Commit`, `CommitCash`, `Release`, `Drop` | the last transaction, which closes the mutation; the end of the lock |
| `Apply`, `ApplyFails`, `Sync`, `SyncFlag`, `SyncCash`, `Settle` | `StripeSubscriptionReconciler`: replay, items and flag, the additions |
| `DeletePlan`, `FinalizePlan` | `perform_destroy` and the end of a plan's deletion |
| `EndPeriod`, `Fail`, `Crash`, `LockExpires`, `Overrun` | the turn of the period; a refused call; a dead worker; a lock that is left behind, or runs out under its holder |

Run **plans**: a member on one of two plans of a group and another member on
the second one, two requests, one fault (a dead worker, a failed call, or a lock
that ran out). When everything is over, Stripe bills each plan for the active
rows (`QuantityFollowsRows`), except in three cases, each a history variable:
`late`, a lock ran out under its holder; `astray`, a call counted on a row that
had moved since it was loaded, or was answered from a key of an earlier attempt,
or an operation passed over a plan whose quantity was off, and no
reconciliation came since; `kept`, the items Stripe keeps when the last row was
canceled. A plan whose deletion is final stays without members, except through
work that had begun before (`DeletedPlanStaysEmpty`), and an addition that was
paid, or waits for the member to confirm, is not closed without giving the plan
(`PaidAdditionLands`; the member may have left it again since). Two requests
let one work and the other come late, and one fault is repaired by the next
reconciliation. What more requests and more faults do is what the proofs are
for: the case of the change from a grace period below needs three workers that
die, and was found by a step of the proof that failed.

A request that finds an open mutation of its operation and row takes it up
(`get_or_create_mutation_strict`), whatever the request is for; the comment
there calls it the "same exact action" (`service_mutations.py:73`). Another
change of the same row would use the first one's price with its own plan. The
model leaves this out: `SameRows` lets only a request for the same rows take a
mutation up.

Seen while modelling:

* When the last row is canceled Stripe keeps its items. Resuming another row
  takes the end back and cleans nothing up, so the canceled plan is billed on.
* A change that is repeated after its first call had created Stripe's item
  reads the quantity it had raised and raises it again (`quantity + 1`,
  `service_subscription.py:322`); if the first call had modified an item, the
  repetition is refused, since the key was used with another amount. The
  reconciliation at the end repairs the quantity, but the mutation is closed
  before it (`service_subscription.py:467`), so no job repairs it when the
  worker dies in between.
* A change from a plan that is in its grace period lowers nothing, also when the
  old plan's quantity is off because an earlier attempt was replayed by a
  reconciliation that died before its second half. Its own reconciliation
  repairs that, and if it dies too, its mutation is closed and no job knows.
  An undo passes over the new plan in the same way when its row does not name
  Stripe's item.
* A key that is used again after the quantity has moved on is answered by
  Stripe with the old result.
* Undoing a change whose new row is already off lowers another member's unit.
* Adding revives a row but leaves its `stripe_subscription_item_id`.
* An addition whose worker died with a draft invoice is granted unpaid by the
  reconciler, and a request that waited in between may finalize the draft then.
* Two overlapping additions, whose rule is checked before the lock, or a resume
  that is replayed late, leave a member with two plans of a group.
* The task that deletes a plan uses the Stripe service for a cash subscription
  as well, and its mutation never closes.

Left out: the first checkout, whose webhook makes the subscription, and
subscriptions of before the items. That Stripe may refuse to delete a last item
is not assumed.

## SubscriptionBilling

One subscription of a club (`row`, `plans`), billed cycle by cycle: by the club
(`invoice`, keyed `<<NoSub, cycle>>`) or by Stripe (`stripe`, `bill`; the club's
copies are `invoice[<<subscription, cycle>>]`). `hooks` are events under way,
`task` is `StripeToCashInvoiceReconciler` between two of its calls, which holds
the cache lock, and `half` a delivery between its reading of the row and its
writing. The code looks the row up by its link first and takes the lock, if at
all, later, without looking at the link again; an end from outside takes it twice,
and the migration asks Stripe in between. One whose lock is taken is answered by
409 and comes again (`DeliveryFails`). That two deliveries are half-way at once is
left out; every other step can come between the two halves of one.

| Action | Code |
|---|---|
| `CreateCycleInvoice` | the hourly scheduler and `CashSubscriptionCycleInvoiceService.create` |
| `MarkPaid` | the owner marks invoices as paid in cash |
| `AskMigration`, `PaySession`, `ReadMigrated`, `HookMigrated` | cash to Stripe: the page, its payment, the webhook |
| `TakeInvoice`, `VoidTrigger`, `ListRest`, `VoidRest` (once for each invoice), `CommitCash`, `CancelAtStripe`, `FinishTransition` | Stripe to cash, call by call |
| `FindCanceled`, `FindExpired` | the two jobs that ask Stripe whether a subscription has ended |
| `CancelLastPlan`, `ResumePlan`, `AddPlan` | the effect of `SubscriptionItems` on the row and on Stripe |
| `ReadCreated` and `HookCreated`, `HookPaid` and `SaveRow`, `HookFailed`, `ReadDeleted`, `HookDeleted` and `ReconcileCanceled` | the webhook's branches on invoices and ended subscriptions |
| `Anchor`, `Finalize`, `PayBill`, `FailBill`, `CancelOutside`, `LoseHook`, `Crash` | Stripe, its clock, and what fails |

Run **billing**: a subscription that begins in cash or at Stripe, two anchors,
any webhook late or lost, one dead worker. The lock keeps the link of the row as
long as a task works with it (part of `TypeOK`), and
`AskedTwiceOnlyByKnownSteps` counts who asks the member for a cycle, or has been
paid for it; the count passes one only in seven ways:

* `BilledAstray`: an anchor bills a subscription that is not the row's: the
  migration's webhook is late, or the task stopped between its transaction and
  the cancellation at Stripe.
* `BilledUnaware`: the club bills a cycle that Stripe has, since
  `invoice.created` is lost or late, or `invoice.paid` has written back an old
  period: it saves the whole row as it was read, without a lock
  (`stripe_webhooks.py:1287`).
* `PaidIsTurned`: the task leaves an invoice that Stripe was paid for at Stripe
  ("3. Leave paid invoices alone.", `locks_and_reconciliation.py:2301`), and its
  transaction turns the club's copy, which is open still, to cash. The link is
  cleared then, and `invoice.paid` is answered by 500.
* `AnothersIsTurned`: the task looks at the invoices of the row's Stripe
  subscription, and its transaction turns all open ones to cash. An open one of
  another Stripe subscription, to which the row was linked before an outdated row
  was saved over it, stays open at Stripe. This takes two subscriptions, and the
  run has one; a step of the proof that failed led to it.
* `EndedIsTurned`: a subscription ended from outside takes its open invoices to
  cash, and Stripe's stay open.
* `MarkedAtStripe`: `mark_paid` looks at the method of the subscription and not
  of the invoice.
* `VoidIsCopied`: a late `invoice.created` copies what has been voided.

Two anchors are needed for an anchor to fall into a transition; a second worker
that dies finds the states of the first. Cycles are numbered; sessions end, and
Stripe stops to repeat `invoice.created`, within one.

Seen while modelling:

* A transition that died after the cancellation at Stripe keeps its invoice
  "started" when `customer.subscription.deleted` clears the link. When the member
  has a new Stripe subscription later, the task takes that invoice up again,
  voids what is open there, and cancels the new one.
* `reconcile_canceled_stripe_subscriptions` does not look at
  `cancel_at_period_end`: if the webhook of a scheduled end was lost, the
  subscription goes on in cash before the job for ended ones looks at it.
* In cash, canceling the last plan leaves an active row whose period stands. It
  stays first in the scheduler's list of 50, and a plan that is added later is
  billed for every cycle since.
* Two pages for one migration can be paid; the webhook ignores the second
  subscription, which goes on charging.
* An invoice for an added plan that is turned to cash cannot be marked as paid
  as long as the subscription is at Stripe.

Left out: the first checkout, invoices of added plans, tickets that come with a
cycle, prices and platform fees, the scheduler's batch.

## Contests

`Contests` is the sheet of an event, of one of five kinds. All of them write
the table of `MemberRecords`, `record`, one row per reservation and scope.

| Module | Code |
|---|---|
| `DrawnTrees` | `_sources`, the shape of a bracket for each number of entries, and what `_later_result` reads off it |
| `BracketTree` | `_tree_view`, `_materialize`, `_locked`, `_later_result`, `_record_label`, which tournaments of persons and of teams have alike |
| `Tournament` | `service_tournament`: brackets, entries, order, results, edits of records |
| `Teams`, `TeamTournament` | the handlers on a team; `service_team_tournament` |
| `Pairs`, `Duel`, `TeamBattle` | pairs and their results; `service_member_record` (duels), `service_team_battle` |
| `Divisions` | `service_competition` |
| `MemberRecords` | `_sync_member_record`, and the owner's edit or deletion of a row |
| `FunctionUpdates` | writing several keys of a table at once, in a form the proofs can use |

A handler is a transaction and one action, unless it reads what it does not
lock. Those are two steps, with what was read in `busy` (handlers on a team;
entering and leaving a division) or `rest` (pairing the rest). `late` is a
history variable: the rows whose last writer had read outdated results.

Run **contests**: one bracket with up to five entries, three teams with three
persons, four in a duel, three in a division. Five entries are the least with
three rounds, a winner who waits, and somebody who must not wait twice.

* `MatchesFollowTree`: after every request the stored matches are those the tree
  gives, whatever was moved, entered, left or taken back.
* `ResultsAreKept`: a result that another one rests on is not taken back, however
  many rounds its winner waits; only `remove_team`, whose check holds no lock on
  the bracket, can drop a result that came in between.
* `OneByeEach`: the comment of `_sources`, over all results.
* `RecordsFollowResults`: the records are those of the results, but for rows the
  owner wrote and rows in `late`.
* `NobodyPairedTwice`: also when the rest is paired while pairs are made by hand.
* `PlacingIsAnInsertion`: giving a place moves one person at most and shifts
  those in between.

Seen while modelling: every save of a record, even of its description, reads
its text back as a result, so an unchanged 決勝, 準決勝 or N回戦 names the
winner of the next match, which is not played yet; leaving a division leaves
places greater than the number of entries; changing the kind of an event
deletes the sheet without a check and leaves the records.

Left out: test results, places without a division, the change of an event's
kind, and the unique keys of the pair and place tables, which would turn a
wrong step into an error.

## Proofs

TLC checks small instances; the modules `*Proofs` prove the same properties for
every value of the constants that satisfies the modules' assumptions, with the
TLA+ proof system.

`ReservationCheckoutProofs`: type correctness, `PaidWasCaptured`,
`PaidNotDeleted` and `SessionsCoverTheirRows`. None is inductive alone: the
reconciler credits a row by the session it finds, so that a paid row was paid
for needs every session id that the program holds, on a row, in a request's
snapshot or about to be saved, to be a session for that row
(`SessionsCoverTheirRows`), and a webhook to be about a paid session
(`HooksArePaid`). `CheckoutInv` joins them. Each action's lemma shows that it
keeps what Stripe has (`SessionsKept`), that it writes only session ids that
were there or are covered (`RowsSound`, `ClicksSound`); `SoundStep` draws the
conclusion once for all actions. Two action properties,
`OverfullOnlyByLateWrite` and `OnlyRestoreUnpays`, have a lemma per action; the
limit of a lesson is a count, before and after the write of one row.

`PayableIsRecorded` and `OverfullOnlyByLatePayment` hold by the durations of a
run, so their theorems have three hypotheses: a hold outlasts a Checkout Session
by as long as a request may run (`HoldsOutlastPages`, which the runs `prompt`
and `trial` satisfy and `visitor` does not), a clean-up is not cut short between two
rows (`CutShort`), and the requests of one link do not overlap
(`OneRequestPerLink`). The last is not the code's doing: the request
that starts again with `force_new` skips the look at a start in progress, so two
that overlap there can each show a page and the row keeps one of them. TLC finds
`PayableIsRecorded` violated without any one of the three (without the second only
with three sessions and without the bound `TwiceOrThrice`), and
`OverfullOnlyByLatePayment` without the last. The invariant is `PageInv`. A live
session that was shown, or that an active hold names, is `Filed`: each of its rows is paid or names it, with a hold that is at most
`MaxDelay` older than the session, and what its link has besides is paid. A
request that looks at the recorded session knows that its link has no other live
one (`LookFits`); one that is making a session has the rows of its link that are
not paid, as they were since it marked them (`StartFits`). Steps that change
only rows without a place, or pay them, keep all of it (`GentleStep`), and so
does a step that writes the rows of one link, for the other links
(`LocalSessions`). With `PageInv` the clean-up of a failed start gives back no
place that was taken meanwhile, which leaves the late payments of
`OverfullOnlyByLatePayment`.

`ReservationRefundProofs`: type correctness and all safety properties of the
module.

* `MoneyGoesBackOnce` and `RefundedIsReturned` rest on `MoneyInv`: a request
  about to create a refund has seen none, and if there is one by now it is
  remembered by its key; who is about to mark a row has seen the refund; a key
  is that of a refund. Keys are not forgotten under a running request.
* `ClicksAreNotCleared` assumes `MaxDelay <= After` and rests on `StampInv`: a
  running request's stamp is no older than the request, and a task whose stored
  stamp is still there read it when it was older than `After`. The two exclude
  each other when a task clears.
* `PlacedIsSound` is inductive with the types; `UncountedRowsAloneOverfill` is an
  action property: a row that takes a place has just counted the others, or a
  restore has counted them before and names whoever came since.

`MemberTicketsProofs`: type correctness, `UsageAgreesWithRow`, `PaidIsPaidFor`,
`ChargedTwiceOnlyByOverlap` and the refinement `TicketsSpec => LedgerSpec`.

* `PurchaseInv`: a purchase that is not paid has made no grant, so the step that
  marks it paid is the one that issues the grant, whichever of the request and
  the webhook takes it.
* `MemberInv` joins what rows and requests know of Stripe (`RowSound`,
  `ReqSound`: every session or intent they name is one for that row, without
  which a late save could confirm a row by another one's money), what a request
  that has counted tickets relies on (`SpendSound`: its row is not confirmed, and
  the count still holds), and why it may (`Apart`: two such requests hold
  different slots and different grants). `NothingOverspent` bounds the tickets
  spent by those granted; with it the tickets left of the ledger are a natural
  number.
* Each action has a lemma that it keeps `MemberInv`; `QuietStep` covers all that
  neither spend nor return a ticket. In the refinement `SpendTicket` is `Spend`,
  `RefundTicket` is `Return`, the step that pays a purchase is `Issue`, and
  everything else stutters (`LedgerStep`).

* `ChargedTwiceOnlyByOverlap` follows every charge of a slot through all its
  rows. Of a slot that is not in `overlap`, at most one payment or charge is or
  may become a payment (`AtMostOne`); it has one row that is not deleted
  (`OneRow`), and a page that was shown is the one this row knows
  (`PagesKnown`). A request that runs there is alone, and finds nothing but the
  charge it made itself, whose idempotency key keeps it from opening a page
  besides (`Owes`). Whoever comes in finds nothing alive, because `Takeable` has
  asked Stripe (`EnterFinds`). Steps that let nobody in and bring nothing to
  life share `CalmStep`; each of the six others touches one slot
  (`OtherSlots`).

They assume finitely many reservation ids, that every id belongs to one slot, and
that purchases are grants (`MemberAssumption`, `TicketsAssumption`).

`EventReservationProofs`: type correctness and all properties of the run
`event`. `PaidIsPaidFor` needs `EventInv`, for the reason it does in
`ReservationCheckout`: every session or intent that a row, a snapshot or a
running request names is one for its row, and a webhook is about a paid session.
It also needs that a link works on a visitor's row and never on a member's
(`ReqFits`), since only a member's row leaves the table and a link would write
to a row that is gone. The action properties share one argument: `Permitted`
says of a step which row it may change and what right it has to (`Lawful`), one
lemma per action shows `Permitted`, and each property follows from it. The limit
is a count, so it takes finitely many reservations.

`ContestsProofs` begins with the tree of a bracket by itself: storing the
matches again changes nothing (`StoringAgainChangesNothing`), so that a request that touches one bracket may
store all of them. The slots of a tree are filled in the order of a list, each
from those before it; the provers have no induction over it, but a least place
where two fillings differ exists in the natural numbers, and there they agree.
For this, all that is assumed of the trees is `TreesAssumption`: their slots are
lists of pairs, without repetition.

It goes on with all properties of the run `contests`, for any trees that satisfy
`TreesAssumption` and `ShapeAssumption`. `ContestInv` is a case for each kind of
event.

* Every kind says what its sheet owes to each reservation (`DuelDue`,
  `PlacesDue`, `PersonsOf`, `TeamsDue`, `BattleDue`), and that the table agrees
  key by key but for the rows in `late` (`Agrees`). A handler writes the keys it
  touched; `Redone` says that elsewhere nothing is due that was not before.
* `Apart`: two pairs share nobody. It is what makes "the pair of a team" a
  function, and what a random pairing of the rest must keep although it reads
  the rest before it locks.
* `TreesAre` and `OneBracket`: the stored matches are those of the tree, and a
  team is entered in one bracket, so its label is that of its bracket.
* `HasSeen`, `HasSeenPair`: what a handler on a team has read before it writes.
  Where it is outdated by then, the row goes to `late`, and only then can
  `remove_team` take back a result: what it has seen has none.

`OneByeEach` and `ResultsAreKept` are about the shape of a tree, which
`DrawnTrees` computes for each number of entries and no proof here can follow.
`ShapeAssumption` is what they need of it: who comes to a slot is an entry or
the winner of an earlier match, `next` is the match where that winner is seen
again, `below` are the entries that may come to a slot, nobody passes a round
by, and two who wait have no entry in common. The run `contests` evaluates it
for up to five entries; for more it is assumed.

* `OneByeEach`: whoever stands in a slot is one of the entries `below` it
  (`StandsWhereItMay`), nobody is entered twice, and byes are apart
  (`NobodyWaitsTwice`).
* `ResultsAreKept`: a match may be set or cleared if its `next` has no winner.
  Then at most the opponents in `next` change and every other result stands
  (`OthersStand`). That nobody who has won a match has also played a decided
  match after it is a descent over the matches in between (`NothingRestsOn`).
  Other requests leave every result (`PersonsKeepResults`, `TeamsKeepResults`).

`SubscriptionItemsProofs`: type correctness and all properties of the run
`plans`, for any rows, plans, requests and mutations, and any number of workers
that die and calls that fail. `CountingProofs` has the least
number of a set of numbers, from which it follows that a recursive function over
a list exists (`StepByStep`) and that a fact holds at each of its places
(`UpTo`); the provers have no induction of their own.

* `WorkInv` is inductive. `WorkFits` says what a request at each of its calls
  and an open mutation are about; `LeavesPlans` that what is left to do on a
  deleted plan is remembered in `leftover`, of which `DeletedPlanStaysEmpty` is
  a part. `Alone`: while no lock has run out, whoever works holds it, and the
  mutation it works on is open and names the same rows. `AllLanded`: an addition
  that a reconciliation has replayed is active, or an open mutation takes it
  away, which a reconciliation that closes both needs for `PaidAdditionLands`.
* A reconciliation walks through the open mutations with a recursive function
  (`AllApplied`, `Staying`); the lemmas on them say what a row is afterwards: as it was, or as the last mutation that names it left it.
* `QuantityFollowsRows` is about the end, when nothing is open. `Billed` says
  what holds on the way: a quantity differs from the number of rows only if an
  open mutation explains it (`Agrees`: one that may have raised or lowered it
  and has not been closed), and `EvenAt` what the operation under way has done
  to its two plans by its next call, so that its last transaction makes them
  equal or leaves an explanation open. It holds until a lock runs out, and from
  a call that went astray until the next reconciliation (`SyncFlag`).
* The first form of `Billed` was not inductive: the last transaction of the
  change from a grace period that is told above breaks it. `astray` has the case
  since.

`SubscriptionBillingProofs`: type correctness and `AskedTwiceOnlyByKnownSteps`,
for any number of Stripe subscriptions, cycles and dead workers. `BillingInv`
has what the seven ways rest on. `Linked`: as long as a task works, the row has
a link, since whoever clears it looks at the lock, and an outdated row that is
saved was linked, too. `KnownExist`: events, copies and what the club was told are
about invoices that exist at Stripe, and what it was told is behind the row's
period until an outdated row is saved; this is why a cycle that the club bills,
outside of `BilledUnaware`, is one that nobody has billed. `HalfKnown` says the same
of a delivery that has read and not yet written: it is about an invoice that
exists, and of no later one was told since. `LookedAt`: once the
task has listed what Stripe has, the open copies of its subscription are void or
paid there, or open and still on its list, so none is open when the list is empty
and its transaction begins. `CashIsOurs` and `BilledInTime` say that the task leaves
the club's own invoices alone, and that nothing is billed ahead. The theorem
then counts: an anchor outside of `BilledAstray` bills one subscription for a
cycle that nobody has billed, the task exchanges an invoice of Stripe's for the
club's, and all other steps add nobody who asks. The first form, with six ways,
could not be proved for two subscriptions (`AnothersIsTurned`).

Only model-checked: liveness (`RecordedPaymentLands`, `RefundLands`,
`ChargeLands`), which this prover cannot do, and the shape of the drawn trees,
which TLC computes for each number of entries.

## Not modelled

The components marked `not_modelled` or `partly` in `PROJECT.json`. Within the
modelled ones: e-mails, page texts and logs; eligibility and horizon rules that
only refuse a request; a refund that the bank rejects days after Stripe
accepted it; a webhook event that two workers handle at once; in the first two
modules, more than one lesson, price and date. A worker that has begun a
database transaction finishes it or rolls it back.
