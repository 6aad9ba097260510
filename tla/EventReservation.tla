-------------------------- MODULE EventReservation --------------------------
(***************************************************************************)
(* Reserving a place at one event of a club (service_event).               *)
(*                                                                         *)
(* A visitor asks for a place, receives a link, and the link starts a      *)
(* Stripe Checkout Session.  A member is charged on the saved card, or     *)
(* sent to a Checkout Session.  The owner can cancel the event when no     *)
(* reservation is left, and dismiss a reservation that is not paid.  The   *)
(* guest cancels and restores by signed links.                             *)
(*                                                                         *)
(* A guest has one row per event (reservation_key).  A row is an id: a row *)
(* that was deleted from the table is gone, and its guest's next request   *)
(* makes another one.  A transaction is one action; where a request calls  *)
(* Stripe outside a transaction, the calls are actions of their own, and   *)
(* what is refused is a stuttering step: start times, audiences, terms,    *)
(* prices, closed sheets, a pause, the end of the event and unanswered     *)
(* questions to Stripe, which only ever refuse, have no state.             *)
(*                                                                         *)
(* Time: a hold (31 minutes) outlives the pages of its row (30 minutes),   *)
(* since a request takes less than the minute between them.  Requests that *)
(* take longer are studied in ReservationCheckout.                         *)
(***************************************************************************)
EXTENDS Integers, FiniteSets

CONSTANTS
    Row,          \* reservation ids
    Member,       \* the rows of members, the others are visitors'
    Free,         \* the rows whose price is 0
    Req,          \* requests that run at the same time
    MaxIntent,    \* bound: charges of saved cards in a behaviour
    MaxSession,   \* bound: Checkout Sessions in a behaviour
    Limit         \* event.reservation_limit

ASSUME EventAssumption ==
    /\ Member \subseteq Row
    /\ Free \subseteq Row
    /\ Row # {}
    /\ IsFiniteSet(Row)
    /\ MaxIntent \in Nat
    /\ MaxSession \in Nat
    /\ Limit \in Nat

VARIABLES
    canceled,  \* the event is canceled (canceled_at)
    row,       \* the EventReservation table
    req,       \* the requests inside create_member_reservation or begin
    int,       \* Stripe's PaymentIntents for saved cards
    ses,       \* Stripe's Checkout Sessions and the delivery of their webhook
    back       \* rows whose restore link has passed its checks

vars == <<canceled, row, req, int, ses, back>>

Intent == 1..MaxIntent
Session == 1..MaxSession
None == 0

RowStatus == {"none", "gone", "not_started", "unpaid", "paid"}
ReqPC == {"idle", "look", "again", "open", "save", "restore",
          "charge", "land", "page", "fail", "store"}

\* hold: the unpaid row's hold is not over (hold_is_active)
RowRecord ==
    [status : RowStatus, deleted : BOOLEAN, canceled : BOOLEAN, hold : BOOLEAN,
     session : 0..MaxSession, intent : 0..MaxIntent]

Snapshot == [status : RowStatus \ {"paid"}, hold : BOOLEAN,
             session : 0..MaxSession]

\* stale: the link was replaced since.  new: the request made its row.
\* tried: its idempotency key was used for a charge that did not succeed.
ReqRecord ==
    [pc : ReqPC, row : Row, prev : Snapshot, session : 0..MaxSession,
     intent : 0..MaxIntent, stale : BOOLEAN, new : BOOLEAN, tried : BOOLEAN]

IntentRecord ==
    [status : {"none", "processing", "succeeded", "refused"}, row : Row]

SessionRecord ==
    [status : {"none", "open", "shown", "paid", "expired"}, row : Row,
     hook : {"none", "pending", "over"}]

NoRow == [status |-> "none", deleted |-> FALSE, canceled |-> FALSE,
          hold |-> FALSE, session |-> None, intent |-> None]
GoneRow == [NoRow EXCEPT !.status = "gone"]
AnyRow == CHOOSE r \in Row : TRUE
Idle == [pc |-> "idle", row |-> AnyRow,
         prev |-> [status |-> "none", hold |-> FALSE, session |-> None],
         session |-> None, intent |-> None,
         stale |-> FALSE, new |-> FALSE, tried |-> FALSE]

Init ==
    /\ canceled = FALSE
    /\ row = [r \in Row |-> NoRow]
    /\ req = [q \in Req |-> Idle]
    /\ int = [i \in Intent |-> [status |-> "none", row |-> AnyRow]]
    /\ ses = [s \in Session |-> [status |-> "none", row |-> AnyRow,
                                 hook |-> "none"]]
    /\ back = {}

-----------------------------------------------------------------------------
(* What the requests read.                                                 *)

Exists(x) == x.status \notin {"none", "gone"}

\* the row lock that a restore holds from its count to its write
Locked(r) == r \in back

\* held_reservations: a valid paid row, or a valid unpaid one with a live hold
HoldsSpot(x) ==
    /\ ~x.deleted /\ ~x.canceled
    /\ \/ x.status = "paid"
       \/ x.status = "unpaid" /\ x.hold

SpotsTaken(table) == {r \in Row : HoldsSpot(table[r])}

\* mutant: the place that is asked for is not counted
EventNotFull(r) == Cardinality(SpotsTaken(row) \ {r}) <= Limit

\* assert_event_has_spots for the row itself, and for any other row
EventHasSpots(r) == Cardinality(SpotsTaken(row) \ {r}) + 1 <= Limit

SucceededIntents(r) ==
    {i \in Intent : int[i].status = "succeeded" /\ int[i].row = r}
Newest(I) == {i \in I : \A j \in I : j <= i}

\* read_stripe_payment: the recorded session first, then the recorded intent,
\* then a search for a succeeded intent that names the row
StripeOpen(r) ==
    row[r].session # None /\ ses[row[r].session].status \in {"open", "shown"}
StripePending(r) ==
    /\ row[r].session = None
    /\ row[r].intent # None /\ int[row[r].intent].status = "processing"
SessionPaid(r) ==
    row[r].session # None /\ ses[row[r].session].status = "paid"
StripePaid(r) ==
    \/ SessionPaid(r)
    \/ ~StripeOpen(r) /\ ~StripePending(r) /\ SucceededIntents(r) # {}
ConfirmedUnpaid(r) == ~StripePaid(r) /\ ~StripeOpen(r) /\ ~StripePending(r)

PaidBy(x, s, i) == [x EXCEPT !.status = "paid", !.deleted = FALSE,
                             !.session = s, !.intent = i]

\* record_stripe_payment leaves canceled as it is
Recorded(r) ==
    IF SessionPaid(r) THEN {PaidBy(row[r], row[r].session, row[r].intent)}
    ELSE {PaidBy(row[r], row[r].session, i) :
             i \in Newest(IF row[r].intent \in SucceededIntents(r)
                            THEN {row[r].intent} ELSE SucceededIntents(r))}

NewIntent(i) ==
    /\ int[i].status = "none"
    /\ \A j \in Intent : int[j].status = "none" => i <= j
NewSession(s) ==
    /\ ses[s].status = "none"
    /\ \A t \in Session : ses[t].status = "none" => s <= t
Opened(s, r) ==
    ses' = [ses EXCEPT ![s] = [status |-> "open", row |-> r, hook |-> "none"]]

-----------------------------------------------------------------------------
(* The event.                                                              *)

\* _open_event_reservations is empty: not deleted and not canceled, whatever
\* their status
NoOpenReservation ==
    \A r \in Row : Exists(row[r]) => row[r].deleted \/ row[r].canceled

\* cancel_section_event
CancelEvent ==
    /\ ~canceled
    /\ NoOpenReservation
    /\ canceled' = TRUE
    /\ UNCHANGED <<row, req, int, ses, back>>

\* dismiss_open_event_reservation.  The session it then expires at Stripe may
\* expire at any moment here (Expire).
Dismiss(r) ==
    /\ ~Locked(r)
    /\ row[r].status \in {"not_started", "unpaid"}
    /\ ~row[r].deleted /\ ~row[r].canceled
    /\ row[r].intent = None
    /\ row' = [row EXCEPT ![r].canceled = TRUE]
    /\ UNCHANGED <<canceled, req, int, ses, back>>

\* cancel_reservation: the guest's link
GuestCancel(r) ==
    /\ ~Locked(r)
    /\ row[r].status = "paid" /\ ~row[r].canceled
    /\ row' = [row EXCEPT ![r].canceled = TRUE]
    /\ UNCHANGED <<canceled, req, int, ses, back>>

\* restore_reservation: places are counted without the event's lock ...
CountForRestore(r) ==
    /\ ~Locked(r)
    /\ Exists(row[r]) /\ row[r].canceled
    /\ EventHasSpots(r)
    /\ back' = back \cup {r}
    /\ UNCHANGED <<canceled, row, req, int, ses>>

\* ... and the row is written
RestoreRow(r) ==
    /\ Locked(r)
    /\ row' = [row EXCEPT ![r].canceled = FALSE]
    /\ back' = back \ {r}
    /\ UNCHANGED <<canceled, req, int, ses>>

-----------------------------------------------------------------------------
(* create_visitor_reservation, and begin on the link it mails.             *)

\* links in requests that are running when the row gets a new one
LinkReplaced(r) ==
    [q \in Req |-> IF req[q].pc # "idle" /\ req[q].row = r
                     THEN [req[q] EXCEPT !.stale = TRUE] ELSE req[q]]

\* mutant: a guest who canceled may ask again
SaveOverCanceled(r) ==
    /\ r \notin Member
    /\ ~Locked(r)
    /\ ~canceled
    /\ \/ row[r].status \in {"none", "not_started"}
       \/ row[r].status = "paid" /\ row[r].canceled
    /\ EventHasSpots(r)
    /\ row' = [row EXCEPT ![r] =
                 [NoRow EXCEPT !.status = "not_started",
                               !.canceled = row[r].canceled]]
    /\ req' = LinkReplaced(r)
    /\ UNCHANGED <<canceled, int, ses, back>>

\* _save_visitor_reservation: a new row, or the guest's row taken back to the
\* beginning with a new link.  canceled stays, and Stripe is asked only about
\* a deleted row.  A link that still works is mailed again: no change.
SaveVisitorReservation(r) ==
    /\ r \notin Member
    /\ ~Locked(r)
    /\ ~canceled
    /\ \/ row[r].status \in {"none", "not_started"}
       \/ row[r].status = "unpaid" /\ ~row[r].deleted /\ ~row[r].hold
       \/ row[r].status = "unpaid" /\ row[r].deleted /\ ConfirmedUnpaid(r)
    /\ EventHasSpots(r)
    /\ row' = [row EXCEPT ![r] =
                 [NoRow EXCEPT !.status = "not_started",
                               !.canceled = row[r].canceled]]
    /\ req' = LinkReplaced(r)
    /\ UNCHANGED <<canceled, int, ses, back>>

\* _revive_deleted_event_reservation
Revived(r) ==
    IF ~row[r].deleted THEN {row[r]}
    ELSE IF row[r].status # "paid" /\ StripePaid(r) THEN Recorded(r)
    ELSE IF row[r].status = "paid" \/ StripeOpen(r) \/ ConfirmedUnpaid(r)
      THEN {[row[r] EXCEPT !.deleted = FALSE]}
    ELSE {}

\* _can_reuse: the hold runs and a session is recorded
Reusable(x) == x.status = "unpaid" /\ x.hold /\ x.session # None

\* a page is being made for the row, less than a minute ago.  A request takes
\* less than that minute, so the clock says that one is under way; after a
\* request that died it also refuses, which changes nothing.
InProgress(x, r) ==
    /\ x.status = "unpaid" /\ x.hold /\ x.session = None
    /\ \E q \in Req : req[q].row = r /\ req[q].pc \in {"open", "save", "restore"}

\* _prepare_start, one transaction under the event's and the row's locks
PrepareDone(q, r, x) ==
    /\ x.status = "paid"
    /\ row' = [row EXCEPT ![r] = x]
    /\ req' = [req EXCEPT ![q] = Idle]

\* mutant: a link starts although the row is paid
StartablePaid(r, x) == ~canceled /\ EventHasSpots(r)

\* mutant: a link starts although the event is canceled
StartableAlways(r, x) == x.status # "paid" /\ EventHasSpots(r)

\* _start_unusable_reason and the count of places
Startable(r, x) == x.status # "paid" /\ ~canceled /\ EventHasSpots(r)

PrepareFree(q, r, x) ==
    /\ Startable(r, x)
    /\ r \in Free
    /\ row' = [row EXCEPT ![r] = [x EXCEPT !.status = "paid", !.deleted = FALSE]]
    /\ req' = [req EXCEPT ![q] = Idle]

PrepareReuse(q, r, x) ==
    /\ Startable(r, x)
    /\ r \notin Free
    /\ Reusable(x)
    /\ row' = [row EXCEPT ![r] = x]
    /\ req' = [req EXCEPT ![q] = [Idle EXCEPT !.pc = "look", !.row = r,
                                              !.session = x.session]]

\* mutant: a link that is used again makes a dismissed row valid
PrepareCreateValid(q, r, x) ==
    /\ Startable(r, x)
    /\ r \notin Free
    /\ row' = [row EXCEPT ![r] = [x EXCEPT !.status = "unpaid", !.hold = TRUE,
                                           !.session = None, !.canceled = FALSE]]
    /\ req' = [req EXCEPT ![q] =
                 [Idle EXCEPT !.pc = "open", !.row = r,
                              !.prev = [status |-> x.status, hold |-> x.hold,
                                        session |-> x.session]]]

PrepareCreate(q, r, x) ==
    /\ Startable(r, x)
    /\ r \notin Free
    /\ row' = [row EXCEPT ![r] = [x EXCEPT !.status = "unpaid", !.hold = TRUE,
                                           !.session = None]]
    /\ req' = [req EXCEPT ![q] =
                 [Idle EXCEPT !.pc = "open", !.row = r,
                              !.prev = [status |-> x.status, hold |-> x.hold,
                                        session |-> x.session]]]

\* begin: the first transaction
Begin(q, r) ==
    /\ r \notin Member /\ Exists(row[r])
    /\ ~Locked(r)
    /\ req[q].pc = "idle"
    /\ \E x \in Revived(r) :
          \/ PrepareDone(q, r, x)
          \/ PrepareFree(q, r, x)
          \/ PrepareReuse(q, r, x)
          \/ ~Reusable(x) /\ ~InProgress(x, r) /\ PrepareCreate(q, r, x)
    /\ UNCHANGED <<canceled, int, ses, back>>

\* _reusable_checkout_url
ReusableCheckoutUrl(q) ==
    LET s == req[q].session IN
    /\ req[q].pc = "look"
    /\ IF ses[s].status \in {"open", "shown"}
         THEN /\ ses' = [ses EXCEPT ![s].status = "shown"]
              /\ req' = [req EXCEPT ![q] = Idle]
         ELSE /\ req' = [req EXCEPT ![q].pc = "again"]
              /\ UNCHANGED ses
    /\ UNCHANGED <<canceled, row, int, back>>

\* _prepare_start(force_new=True); it fails when the link was replaced
PrepareAgain(q) ==
    LET r == req[q].row IN
    /\ req[q].pc = "again"
    /\ ~req[q].stale
    /\ ~Locked(r)
    /\ \E x \in Revived(r) :
          \/ PrepareDone(q, r, x)
          \/ PrepareFree(q, r, x)
          \/ PrepareCreate(q, r, x)
    /\ UNCHANGED <<canceled, int, ses, back>>

\* _open_event_checkout up to Stripe's answer, which may be lost
OpenEventCheckout(q) ==
    /\ req[q].pc = "open"
    /\ \/ \E s \in Session, pc \in {"save", "restore"} :
             /\ NewSession(s)
             /\ Opened(s, req[q].row)
             /\ req' = [req EXCEPT ![q].pc = pc,
                                   ![q].session = IF pc = "save" THEN s ELSE None]
       \/ /\ req' = [req EXCEPT ![q].pc = "restore"]
          /\ UNCHANGED ses
    /\ UNCHANGED <<canceled, row, int, back>>

\* ... and the update of the row if it is still unpaid.  If it is not, the
\* session is expired at Stripe (Expire) and the row restored.
SaveEventCheckout(q) ==
    LET r == req[q].row  s == req[q].session IN
    /\ req[q].pc = "save"
    /\ ~Locked(r)
    /\ IF row[r].status = "unpaid"
         THEN /\ row' = [row EXCEPT ![r].session = s]
              /\ ses' = [ses EXCEPT ![s].status = IF @ = "open" THEN "shown" ELSE @]
              /\ req' = [req EXCEPT ![q] = Idle]
         ELSE /\ req' = [req EXCEPT ![q].pc = "restore"]
              /\ UNCHANGED <<row, ses>>
    /\ UNCHANGED <<canceled, int, back>>

\* _restore_event_reservation: the snapshot is written whatever the row says
RestoreEventReservation(q) ==
    LET r == req[q].row IN
    /\ req[q].pc = "restore"
    /\ ~Locked(r)
    /\ \E hold \in {FALSE, req[q].prev.hold} :
          row' = [row EXCEPT ![r].status = req[q].prev.status,
                             ![r].session = req[q].prev.session,
                             ![r].hold = hold]
    /\ req' = [req EXCEPT ![q] = Idle]
    /\ UNCHANGED <<canceled, int, ses, back>>

-----------------------------------------------------------------------------
(* create_member_reservation.                                              *)

\* an unpaid row that Stripe has money for
FindPayment(r) ==
    /\ r \in Member /\ row[r].status = "unpaid"
    /\ ~Locked(r)
    /\ ~canceled
    /\ StripePaid(r)
    /\ \E x \in Recorded(r) : row' = [row EXCEPT ![r] = x]
    /\ UNCHANGED <<canceled, req, int, ses, back>>

\* an unpaid row whose page is open: it is shown again
ShowOpenPage(r) ==
    /\ r \in Member /\ row[r].status = "unpaid"
    /\ ~Locked(r)
    /\ ~canceled
    /\ ~StripePaid(r) /\ StripeOpen(r)
    /\ EventHasSpots(r)
    /\ row' = [row EXCEPT ![r].deleted = FALSE]
    /\ ses' = [ses EXCEPT ![row[r].session].status = "shown"]
    /\ UNCHANGED <<canceled, req, int, back>>

\* a new row, or the member's unpaid row with a new idempotency key; a free
\* place is confirmed at once
Reserve(q, r) ==
    /\ req[q].pc = "idle"
    /\ r \in Member
    /\ ~Locked(r)
    /\ ~canceled
    /\ \/ row[r].status = "none"
       \/ row[r].status = "unpaid" /\ ConfirmedUnpaid(r)
    /\ EventHasSpots(r)
    /\ row' = [row EXCEPT ![r] =
                 IF r \in Free THEN [NoRow EXCEPT !.status = "paid"]
                 ELSE [NoRow EXCEPT !.status = "unpaid", !.hold = TRUE]]
    /\ req' = IF r \in Free THEN req
              ELSE [req EXCEPT ![q] =
                      [Idle EXCEPT !.pc = "charge", !.row = r,
                                   !.new = (row[r].status = "none")]]
    /\ UNCHANGED <<canceled, int, ses, back>>

\* mutant: a charge that is still being processed counts as done
ChargeUnlessRefused(q) ==
    /\ req[q].pc = "charge"
    /\ \E i \in Intent, status \in {"succeeded", "refused", "processing"} :
          /\ NewIntent(i)
          /\ int' = [int EXCEPT ![i] = [status |-> status, row |-> req[q].row]]
          /\ req' = [req EXCEPT
                       ![q].pc = IF status # "refused" THEN "land" ELSE "page",
                       ![q].intent = i]
    /\ UNCHANGED <<canceled, row, ses, back>>

\* _charge_member_off_session: no saved card; or the card is charged, and the
\* answer comes, or it is lost
ChargeSavedCard(q) ==
    /\ req[q].pc = "charge"
    /\ \/ /\ req' = [req EXCEPT ![q].pc = "page"]
          /\ UNCHANGED int
       \/ \E i \in Intent, status \in {"succeeded", "refused", "processing"},
             answered \in BOOLEAN :
             /\ NewIntent(i)
             /\ int' = [int EXCEPT ![i] = [status |-> status, row |-> req[q].row]]
             /\ req' = [req EXCEPT
                          ![q].pc = IF ~answered THEN "fail"
                                    ELSE IF status = "succeeded" THEN "land"
                                    ELSE "page",
                          ![q].intent = i, ![q].tried = answered]
    /\ UNCHANGED <<canceled, row, ses, back>>

\* the charge is saved on the row, or the save fails because the row is gone;
\* what follows the save (the net amount, the mail) may fail as well
LandCharge(q) ==
    LET r == req[q].row IN
    /\ req[q].pc = "land"
    /\ ~Locked(r)
    /\ row' = IF Exists(row[r])
                THEN [row EXCEPT ![r] = PaidBy(@, @.session, req[q].intent)]
                ELSE row
    /\ \/ req' = [req EXCEPT ![q] = Idle]
       \/ req' = [req EXCEPT ![q].pc = "fail"]
    /\ UNCHANGED <<canceled, int, ses, back>>

\* _create_checkout_session with the key of the charge, which Stripe refuses
\* when the charge has used it
OpenPage(q) ==
    /\ req[q].pc = "page"
    /\ \/ \E s \in Session, pc \in {"store", "fail"} :
             /\ ~req[q].tried
             /\ NewSession(s)
             /\ Opened(s, req[q].row)
             /\ req' = [req EXCEPT ![q].pc = pc,
                                   ![q].session = IF pc = "store" THEN s ELSE None]
       \/ /\ req' = [req EXCEPT ![q].pc = "fail"]
          /\ UNCHANGED ses
    /\ UNCHANGED <<canceled, row, int, back>>

\* the except branch: a row that this request made is deleted from the table
FailStart(q) ==
    LET r == req[q].row IN
    /\ req[q].pc = "fail"
    /\ ~Locked(r)
    /\ row' = IF req[q].new THEN [row EXCEPT ![r] = GoneRow] ELSE row
    /\ req' = [req EXCEPT ![q] = Idle]
    /\ UNCHANGED <<canceled, int, ses, back>>

\* the session id is saved and the page shown, unless the row is gone
StorePage(q) ==
    LET r == req[q].row  s == req[q].session IN
    /\ req[q].pc = "store"
    /\ ~Locked(r)
    /\ row' = IF Exists(row[r]) THEN [row EXCEPT ![r].session = s] ELSE row
    /\ ses' = [ses EXCEPT ![s].status =
                 IF @ = "open" /\ Exists(row[r]) THEN "shown" ELSE @]
    /\ req' = [req EXCEPT ![q] = Idle]
    /\ UNCHANGED <<canceled, int, back>>

\* the worker dies
Crash(q) ==
    /\ req[q].pc # "idle"
    /\ req' = [req EXCEPT ![q] = Idle]
    /\ UNCHANGED <<canceled, row, int, ses, back>>

-----------------------------------------------------------------------------
(* Stripe, its webhook, the reconciler and the clock.                      *)

SettleIntent(i) ==
    /\ int[i].status = "processing"
    /\ \E status \in {"succeeded", "refused"} :
          int' = [int EXCEPT ![i].status = status]
    /\ UNCHANGED <<canceled, row, req, ses, back>>

Pay(s) ==
    /\ ses[s].status = "shown"
    /\ ses' = [ses EXCEPT ![s].status = "paid", ![s].hook = "pending"]
    /\ UNCHANGED <<canceled, row, req, int, back>>

Expire(s) ==
    /\ ses[s].status \in {"open", "shown"}
    /\ ses' = [ses EXCEPT ![s].status = "expired"]
    /\ UNCHANGED <<canceled, row, req, int, back>>

\* a hold ends after the pages of its row and the requests that make them
HoldEnds(r) ==
    /\ row[r].status = "unpaid" /\ row[r].hold
    /\ \A q \in Req : req[q].pc # "idle" => req[q].row # r
    /\ \A s \in Session :
          ses[s].row = r => ses[s].status \notin {"open", "shown"}
    /\ row' = [row EXCEPT ![r].hold = FALSE]
    /\ UNCHANGED <<canceled, req, int, ses, back>>

SessionMismatch(s, r) == row[r].session \notin {None, s} /\ ~row[r].deleted

\* complete_paid_event_checkout: whoever canceled the row, and however often
\* the event comes, the payment makes it valid
CompletePaidEventCheckout(s) ==
    LET r == ses[s].row IN
    IF ~Exists(row[r]) \/ SessionMismatch(s, r) THEN row
    ELSE IF row[r].status = "paid" /\ ~row[r].deleted
      THEN [row EXCEPT ![r].canceled = FALSE]
    ELSE [row EXCEPT ![r] = [PaidBy(@, s, @.intent) EXCEPT !.canceled = FALSE]]

\* the event stays pending when the worker dies before it is marked
Webhook(s) ==
    /\ ses[s].hook = "pending"
    /\ ~Locked(ses[s].row)
    /\ row' = CompletePaidEventCheckout(s)
    /\ \E hook \in {"pending", "over"} : ses' = [ses EXCEPT ![s].hook = hook]
    /\ UNCHANGED <<canceled, req, int, back>>

LoseWebhook(s) ==
    /\ ses[s].hook = "pending"
    /\ ses' = [ses EXCEPT ![s].hook = "over"]
    /\ UNCHANGED <<canceled, row, req, int, back>>

\* _mark_paid
MarkedPaid(x, s, i) == [PaidBy(x, s, i) EXCEPT !.canceled = FALSE]

\* _abandon: deleted for the lists, then Stripe is asked once more
Abandoned(r) ==
    IF StripePaid(r)
      THEN {MarkedPaid(x, x.session, x.intent) : x \in Recorded(r)}
      ELSE {[row[r] EXCEPT !.deleted = TRUE]}

\* _reconcile_checkout: the recorded session, or else the newest paid one, or
\* else the newest one, that names the row
SessionsNaming(r) == {s \in Session : ses[s].status # "none" /\ ses[s].row = r}
PaidSessionsNaming(r) == {s \in SessionsNaming(r) : ses[s].status = "paid"}
SessionToCheck(r) ==
    IF row[r].session # None THEN {row[r].session}
    ELSE IF PaidSessionsNaming(r) # {} THEN Newest(PaidSessionsNaming(r))
    ELSE Newest(SessionsNaming(r))

ReconciledCheckout(r) ==
    UNION {IF ses[s].status = "paid" THEN {MarkedPaid(row[r], s, row[r].intent)}
           ELSE IF ses[s].status = "expired" THEN Abandoned(r)
           ELSE {[row[r] EXCEPT !.session = s]} : s \in SessionToCheck(r)}

\* _reconcile_payment_intent: the recorded intent, or else the newest that
\* succeeded, or else the newest, that names the row
IntentsNaming(r) == {i \in Intent : int[i].status # "none" /\ int[i].row = r}
IntentToCheck(r) ==
    IF row[r].intent # None THEN {row[r].intent}
    ELSE IF SucceededIntents(r) # {} THEN Newest(SucceededIntents(r))
    ELSE Newest(IntentsNaming(r))

ReconciledIntent(r) ==
    UNION {IF int[i].status = "succeeded" THEN {MarkedPaid(row[r], None, i)}
           ELSE IF int[i].status = "refused" THEN Abandoned(r)
           ELSE {[row[r] EXCEPT !.intent = i]} : i \in IntentToCheck(r)}

\* reconcile_reservation, whether or not the row was canceled
ReconcileReservation(r) ==
    /\ row[r].status = "unpaid" /\ ~row[r].deleted /\ ~row[r].hold
    /\ ~Locked(r)
    /\ \E x \in IF r \notin Member \/ row[r].session # None
                  THEN ReconciledCheckout(r) ELSE ReconciledIntent(r) :
          row' = [row EXCEPT ![r] = x]
    /\ UNCHANGED <<canceled, req, int, ses, back>>

-----------------------------------------------------------------------------
Next ==
    \/ CancelEvent
    \/ \E r \in Row : \/ Dismiss(r) \/ GuestCancel(r)
                      \/ CountForRestore(r) \/ RestoreRow(r)
                      \/ SaveVisitorReservation(r)
                      \/ FindPayment(r) \/ ShowOpenPage(r)
                      \/ HoldEnds(r) \/ ReconcileReservation(r)
    \/ \E q \in Req, r \in Row : Begin(q, r) \/ Reserve(q, r)
    \/ \E q \in Req : \/ ReusableCheckoutUrl(q) \/ PrepareAgain(q)
                      \/ OpenEventCheckout(q) \/ SaveEventCheckout(q)
                      \/ RestoreEventReservation(q)
                      \/ ChargeSavedCard(q) \/ LandCharge(q)
                      \/ OpenPage(q) \/ FailStart(q) \/ StorePage(q)
                      \/ Crash(q)
    \/ \E i \in Intent : SettleIntent(i)
    \/ \E s \in Session : Pay(s) \/ Expire(s) \/ Webhook(s) \/ LoseWebhook(s)

Spec == Init /\ [][Next]_vars

-----------------------------------------------------------------------------
(* Properties.                                                             *)

\* Every value stays in its type: among other things, no start that fails
\* writes a payment back from its snapshot.
TypeOK ==
    /\ canceled \in BOOLEAN
    /\ row \in [Row -> RowRecord]
    /\ req \in [Req -> ReqRecord]
    /\ int \in [Intent -> IntentRecord]
    /\ ses \in [Session -> SessionRecord]
    /\ back \subseteq Row

Captured(r) ==
    \/ \E s \in Session : ses[s].status = "paid" /\ ses[s].row = r
    \/ SucceededIntents(r) # {}

\* A reservation counts as paid only if money was captured for that very
\* reservation or nothing was due, whoever recorded it: a late save of a
\* charge, a webhook, the reconciler or a request that found it.
PaidIsPaidFor == \A r \in Row : row[r].status = "paid" => r \in Free \/ Captured(r)

\* A step that confirms a row whose place was not counted: a payment found
\* after its hold ended, or after the row was dismissed or given up.
UncountedPayment(r) ==
    /\ ~HoldsSpot(row[r]) /\ HoldsSpot(row'[r])
    /\ row'[r].status = "paid" /\ Captured(r)

\* the step that writes back the snapshot of a failed start of the row
CleanUpRestores(r) ==
    \E q \in Req : req[q].row = r /\ RestoreEventReservation(q)

\* the step that deletes the row of a failed member's request
CleanUpDeletes(r) == \E q \in Req : req[q].row = r /\ FailStart(q)

\* The event is sold out at its limit.  Three steps pass it: a payment for a
\* row that is not counted, a restore link, which counts without the lock, and
\* the clean-up of a failed start, which does not count.
OverfullOnlyByUncheckedWrite ==
    [][ \/ SpotsTaken(row)' \subseteq SpotsTaken(row)
        \/ Cardinality(SpotsTaken(row)') <= Limit
        \/ \E r \in Row : \/ UncountedPayment(r)
                          \/ CleanUpRestores(r)
                          \/ RestoreRow(r) ]_vars

Open(x) == Exists(x) /\ ~x.deleted /\ ~x.canceled

\* An event is canceled only when nobody is left in it, and nobody comes in
\* afterwards, but for a payment that was captured and a guest who restores.
CanceledEventStaysEmpty ==
    [][ canceled' =>
          \A r \in Row : Open(row'[r]) =>
             /\ canceled
             /\ \/ Open(row[r])
                \/ row'[r].status = "paid" /\ Captured(r)
                \/ RestoreRow(r) ]_vars

\* What the owner or the guest canceled becomes valid only when captured money
\* is recorded for the first time, when the webhook of its payment comes (once
\* more), by the guest's own restore, or by the member's own new request.
CanceledComesBackByRight ==
    [][ \A r \in Row : row[r].canceled /\ Exists(row'[r]) /\ ~row'[r].canceled =>
          \/ /\ row[r].status # "paid" /\ row'[r].status = "paid"
             /\ Captured(r)
          \/ \E s \in Session : ses[s].row = r /\ Webhook(s)
          \/ RestoreRow(r)
          \/ \E q \in Req : Reserve(q, r) ]_vars

\* A payment that was recorded is lost only by the two clean-ups that write
\* without looking at the row.
PaidIsLostOnlyByCleanUp ==
    [][ \A r \in Row : row[r].status = "paid" /\ row'[r].status # "paid" =>
          CleanUpRestores(r) \/ CleanUpDeletes(r) ]_vars
=============================================================================
