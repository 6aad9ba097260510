------------------------- MODULE ReservationCheckout -------------------------
(***************************************************************************)
(* Paying for a visitor or trial reservation of one lesson on one date.    *)
(*                                                                         *)
(* A guest asks for a place and receives a link by e-mail.  The            *)
(* link starts a Stripe Checkout Session (begin: _prepare, then calls to   *)
(* Stripe outside any transaction, then the session id is saved).  Stripe  *)
(* reports a payment by a webhook that may be late, repeated or lost, and  *)
(* a periodic job reconciles unpaid rows whose hold is over.               *)
(*                                                                         *)
(* A database transaction is one action: it reads and writes rows under    *)
(* row locks (and, in _prepare and the trial request, under the lesson's   *)
(* lock).  A call to Stripe outside a transaction is an action of its own, *)
(* so the steps of two requests interleave around it.  A request that the  *)
(* code refuses with an exception rolls back and changes nothing: it is a  *)
(* stuttering step, which is why eligibility, caps, horizon and expired    *)
(* links, which only ever refuse, have no state here.                      *)
(*                                                                         *)
(* Time is counted in ticks.  Life is how long Stripe keeps a Checkout     *)
(* Session open (30 minutes), Hold how long an unpaid row keeps its place  *)
(* (31 minutes), Grace how long a start in progress refuses a second one   *)
(* (60 seconds) and MaxDelay how long one request may run, which nothing   *)
(* in the code bounds.                                                     *)
(***************************************************************************)
EXTENDS Integers, FiniteSets

CONSTANTS
    Row,          \* reservation ids; a hard-deleted id is never used again
    Trial,        \* the rows of trial requests, the others are visitors'
    Person,       \* the guests
    Who,          \* Who[r]: the guest a row is for
    Free,         \* the rows whose amount is 0
    Token,        \* start tokens (the links sent by e-mail)
    NoToken,
    Click,        \* requests that may run begin() at the same time
    MaxSession,   \* bound: Checkout Sessions created in a behaviour
    Limit,        \* lesson.reservation_limit
    Life, Hold, Grace, MaxDelay

ASSUME CheckoutAssumption ==
    /\ Trial \subseteq Row
    /\ Free \subseteq Row
    /\ Who \in [Row -> Person]
    /\ NoToken \notin Token
    /\ MaxSession \in Nat
    /\ Limit \in Nat
    /\ Life \in Nat \ {0}
    /\ Hold \in Nat
    /\ Grace \in Nat
    /\ MaxDelay \in Nat
    /\ IsFiniteSet(Row)

VARIABLES
    row,      \* the Reservation table
    ses,      \* Stripe's Checkout Sessions and the delivery of their webhook
    click     \* the requests inside begin()

vars == <<row, ses, click>>

Session == 1..MaxSession
NoSession == 0
Age == 0..(Hold + 1)          \* Hold + 1 stands for every later age

PendingStatus == {"not_started", "unpaid"}
RowStatus == {"none", "gone", "paid"} \cup PendingStatus
SessionStatus == {"none", "open", "shown", "paid", "expired"}
ClickPC ==
    {"idle", "look", "again", "open", "save", "expire", "restore", "halfway"}

RowRecord ==
    [status : RowStatus, deleted : BOOLEAN, token : Token \cup {NoToken},
     session : 0..MaxSession, age : Age]

SessionRecord ==
    [status : SessionStatus, rows : SUBSET Row, age : 0..Life,
     hook : {"none", "pending", "over"}]

Snapshot == [status : RowStatus \ {"paid"}, session : 0..MaxSession, age : Age]

ClickRecord ==
    [pc : ClickPC, token : Token \cup {NoToken}, rows : SUBSET Row,
     prev : [Row -> Snapshot], session : 0..MaxSession, delay : Age]

NoRow == [status |-> "none", deleted |-> FALSE, token |-> NoToken,
          session |-> NoSession, age |-> 0]
GoneRow == [NoRow EXCEPT !.status = "gone"]
NoPrev == [r \in Row |->
             [status |-> "not_started", session |-> NoSession, age |-> 0]]
Idle == [pc |-> "idle", token |-> NoToken, rows |-> {}, prev |-> NoPrev,
         session |-> NoSession, delay |-> 0]

Init ==
    /\ row = [r \in Row |-> NoRow]
    /\ ses = [s \in Session |-> [status |-> "none", rows |-> {}, age |-> 0,
                                 hook |-> "none"]]
    /\ click = [c \in Click |-> Idle]

-----------------------------------------------------------------------------
(* The rules shared by the requests.                                       *)

Older(age, n) == IF age + n > Hold THEN Hold + 1 ELSE age + n

\* The row is in the table.
Exists(x) == x.status \notin {"none", "gone"}

\* mutant: the hold ends a tick early
HoldEndsEarly(x) == x.age < Hold

\* hold_is_active
HoldIsActive(x) == x.age <= Hold

\* unpaid_hold_q, and the paid rows, as assert_lesson_has_spots counts them
HoldsSpot(x) ==
    /\ ~x.deleted
    /\ \/ x.status = "paid"
       \/ x.status = "unpaid" /\ HoldIsActive(x)

SpotsTaken(table) == {r \in Row : HoldsSpot(table[r])}

\* mutant: the places that are asked for are not counted
LessonNotFull(table, rows, n) ==
    Cardinality(SpotsTaken(table) \ rows) <= Limit

\* assert_lesson_has_spots with exclude_ids = rows and needed = n
LessonHasSpots(table, rows, n) ==
    Cardinality(SpotsTaken(table) \ rows) + n <= Limit

FreshToken(t) ==
    /\ \A r \in Row : row[r].token # t
    /\ \A c \in Click : click[c].token # t

\* read_stripe_payment of a row: paid, an open page, or nothing to wait for.
\* A PaymentIntent made by Checkout carries no reservation metadata, so the
\* search by metadata at the end of that function finds none of them.
StripePaid(r) ==
    /\ row[r].session \in Session
    /\ ses[row[r].session].status = "paid"
StripeOpen(r) ==
    /\ row[r].session \in Session
    /\ ses[row[r].session].status \in {"open", "shown"}
ConfirmedUnpaid(r) ==
    ~StripePaid(r) /\ ~StripeOpen(r)

\* mutant: a soft-deleted row stays deleted
RecordedWhereItIs(x, s) == [x EXCEPT !.status = "paid", !.session = s, !.age = 0]

\* record_stripe_payment
Recorded(x, s) ==
    [x EXCEPT !.status = "paid", !.deleted = FALSE, !.session = s, !.age = 0]

\* what a request writes: a row that waits for its link to be used
Requested(t) ==
    [status |-> "not_started", deleted |-> FALSE, token |-> t,
     session |-> NoSession, age |-> 0]

-----------------------------------------------------------------------------
(* Asking for a place.                                                     *)

\* _save_visitor_reservation: a new row, or the guest's old row taken back to
\* the beginning.  A row whose link still works is only mailed again.
SaveVisitorReservation(r) ==
    /\ r \notin Trial
    /\ \/ row[r].status = "none"
       \/ row[r].deleted /\ row[r].status \in PendingStatus /\ ConfirmedUnpaid(r)
       \/ ~row[r].deleted /\ row[r].status = "unpaid" /\ ~HoldIsActive(row[r])
       \/ ~row[r].deleted /\ row[r].status = "not_started"
    /\ LessonHasSpots(row, {}, 1)
    /\ \E t \in Token :
          /\ FreshToken(t)
          /\ row' = [row EXCEPT ![r] = Requested(t)]
    /\ UNCHANGED <<ses, click>>

TrialRows(p) ==
    {r \in Trial : Who[r] = p /\ Exists(row[r])}

\* _classify_trial_rows: the guest has had the trial, or is paying for it
TrialBlocked(p) ==
    \E r \in TrialRows(p) :
        \/ row[r].status = "paid"
        \/ ~row[r].deleted /\ row[r].status = "unpaid" /\ HoldIsActive(row[r])

\* the rows that wait for a link, among those whose link is in fresh
PendingTrialRows(people, fresh) ==
    {r \in Trial : /\ Who[r] \in people
                   /\ row[r].status = "not_started"
                   /\ ~row[r].deleted
                   /\ row[r].token \in fresh}

\* _matching_pending_group: this very group already has a link
MatchingPendingGroup(people, fresh) ==
    \E t \in fresh :
        LET group == {r \in Row : row[r].token = t
                                  /\ row[r].status = "not_started"} IN
        /\ {Who[r] : r \in group \cap PendingTrialRows(people, {t})} = people
        /\ Cardinality(group) = Cardinality(people)

\* _replaceable_trial_rows, and the rest of the groups that are broken up
ReplacedTrialRows(people, fresh) ==
    {r \in Trial :
        /\ ~row[r].deleted
        /\ \/ /\ Who[r] \in people
              /\ row[r].status \in PendingStatus
              /\ ~(row[r].status = "unpaid" /\ HoldIsActive(row[r]))
           \/ /\ row[r].status = "not_started"
              /\ \E q \in PendingTrialRows(people, fresh) :
                    row[r].token = row[q].token}

\* _save_trial_reservations: the group's old rows are deleted from the table,
\* then each person gets a new row, or the soft-deleted row with the same key.
\* fresh are the links younger than 72 hours.
SaveTrialReservations(people) ==
    /\ people # {}
    /\ \A p \in people : ~TrialBlocked(p)
    /\ LessonHasSpots(row, {}, Cardinality(people))
    /\ \E fresh \in SUBSET {row[r].token : r \in Trial}, t \in Token :
       \E rows \in SUBSET {r \in Trial : Who[r] \in people} :
          /\ NoToken \notin fresh
          /\ ~MatchingPendingGroup(people, fresh)
          /\ FreshToken(t)
          /\ {Who[r] : r \in rows} = people
          /\ Cardinality(rows) = Cardinality(people)
          /\ \A r \in rows :
                \/ /\ row[r].status = "none"
                   /\ \A q \in TrialRows(Who[r]) : ~row[q].deleted
                \/ /\ row[r].status \in PendingStatus
                   /\ row[r].deleted
                   /\ ConfirmedUnpaid(r)
          /\ row' = [r \in Row |->
                       IF r \in rows THEN Requested(t)
                       ELSE IF r \in ReplacedTrialRows(people, fresh)
                         THEN GoneRow
                       ELSE row[r]]
    /\ UNCHANGED <<ses, click>>

-----------------------------------------------------------------------------
(* begin(): the link is used.                                              *)

RowsOf(t) == {r \in Row : row[r].token = t}

\* _revive_deleted_reservations
Revived(t) ==
    [r \in Row |->
        IF row[r].token # t \/ ~row[r].deleted THEN row[r]
        ELSE IF row[r].status # "paid" /\ StripePaid(r)
          THEN Recorded(row[r], row[r].session)
        ELSE [row[r] EXCEPT !.deleted = FALSE]]

\* mutant: the rows that are paid already are charged again
AllRows(t, table) == RowsOf(t)

OpenRows(t, table) == {r \in RowsOf(t) : table[r].status # "paid"}

\* _assert_trials_available
TrialsAvailable(rows, table) ==
    \A r \in rows \cap Trial, q \in Trial \ rows :
        Who[q] = Who[r] =>
            /\ table[q].status # "paid"
            /\ ~(table[q].status = "unpaid" /\ ~table[q].deleted
                 /\ HoldIsActive(table[q]))

\* mutant: a link that is used again always makes a new session
NeverReuse(rows, table, s) == FALSE

\* _can_reuse_session
CanReuseSession(rows, table, s) ==
    \A r \in rows : /\ table[r].status = "unpaid"
                    /\ HoldIsActive(table[r])
                    /\ table[r].session = s

\* _checkout_in_progress
CheckoutInProgress(rows, table) ==
    \A r \in rows : /\ table[r].status = "unpaid"
                    /\ HoldIsActive(table[r])
                    /\ table[r].session = NoSession
                    /\ table[r].age < Grace

\* _prepare(token, force_new) when every row turns out to be paid
PrepareDone(c, t) ==
    /\ OpenRows(t, Revived(t)) = {}
    /\ row' = Revived(t)
    /\ click' = [click EXCEPT ![c] = Idle]
    /\ UNCHANGED ses

\* the checks every other outcome of _prepare passes
Admitted(t) ==
    LET table == Revived(t)
        rows == OpenRows(t, table)
    IN  /\ rows # {}
        /\ LessonHasSpots(table, rows, Cardinality(rows))
        /\ TrialsAvailable(rows, table)

\* mutant: the total is not looked at
PrepareWithoutPrice(c, t) ==
    LET rows == OpenRows(t, Revived(t)) IN
    /\ Admitted(t)
    /\ row' = [r \in Row |->
                 IF r \in rows
                   THEN [Revived(t)[r] EXCEPT !.status = "paid",
                                              !.deleted = FALSE, !.age = 0]
                   ELSE Revived(t)[r]]
    /\ click' = [click EXCEPT ![c] = Idle]
    /\ UNCHANGED ses

\* _mark_paid: nothing to pay
PrepareFree(c, t) ==
    LET rows == OpenRows(t, Revived(t)) IN
    /\ Admitted(t)
    /\ rows \subseteq Free
    /\ row' = [r \in Row |->
                 IF r \in rows
                   THEN [Revived(t)[r] EXCEPT !.status = "paid",
                                              !.deleted = FALSE, !.age = 0]
                   ELSE Revived(t)[r]]
    /\ click' = [click EXCEPT ![c] = Idle]
    /\ UNCHANGED ses

\* the recorded session may still be open: ask Stripe for its page
PrepareReuse(c, t) ==
    LET rows == OpenRows(t, Revived(t)) IN
    /\ Admitted(t)
    /\ ~(rows \subseteq Free)
    /\ \E s \in Session :
          /\ CanReuseSession(rows, Revived(t), s)
          /\ click' = [click EXCEPT ![c] =
                         [Idle EXCEPT !.pc = "look", !.token = t,
                                      !.session = s]]
    /\ row' = Revived(t)
    /\ UNCHANGED ses

\* _snapshot, then _mark_unpaid: the rows hold their places from now on
PrepareCreate(c, t) ==
    LET table == Revived(t)
        rows == OpenRows(t, table)
    IN
    /\ Admitted(t)
    /\ ~(rows \subseteq Free)
    /\ row' = [r \in Row |->
                 IF r \in rows
                   THEN [table[r] EXCEPT !.status = "unpaid", !.age = 0,
                                         !.session = NoSession,
                                         !.deleted = FALSE]
                   ELSE table[r]]
    /\ click' = [click EXCEPT ![c] =
                   [pc |-> "open", token |-> t, rows |-> rows,
                    prev |-> [r \in Row |->
                                IF r \in rows
                                  THEN [status |-> table[r].status,
                                        session |-> table[r].session,
                                        age |-> table[r].age]
                                  ELSE NoPrev[r]],
                    session |-> NoSession, delay |-> 0]]
    /\ UNCHANGED ses

\* the first transaction of begin(token)
Begin(c, t) ==
    /\ click[c].pc = "idle"
    /\ RowsOf(t) # {}
    /\ \/ PrepareDone(c, t)
       \/ PrepareFree(c, t)
       \/ PrepareReuse(c, t)
       \/ /\ LET table == Revived(t)
                 rows == OpenRows(t, table)
             IN  /\ ~\E s \in Session : CanReuseSession(rows, table, s)
                 /\ ~CheckoutInProgress(rows, table)
          /\ PrepareCreate(c, t)

\* _reusable_checkout_url: the page is shown again, or the session is over
ReusableCheckoutUrl(c) ==
    /\ click[c].pc = "look"
    /\ LET s == click[c].session IN
       IF ses[s].status \in {"open", "shown"}
         THEN /\ ses' = [ses EXCEPT ![s].status = "shown"]
              /\ click' = [click EXCEPT ![c] = Idle]
         ELSE /\ click' = [click EXCEPT ![c].pc = "again"]
              /\ UNCHANGED ses
    /\ UNCHANGED row

\* _prepare(token, force_new=True)
PrepareAgain(c) ==
    /\ click[c].pc = "again"
    /\ LET t == click[c].token IN
       /\ RowsOf(t) # {}
       /\ \/ PrepareDone(c, t)
          \/ PrepareFree(c, t)
          \/ PrepareCreate(c, t)

\* _open_new_checkout up to Stripe's answer.  It reads the rows again, and one
\* that was deleted before the read is not in the session (without any row it
\* fails).  The answer may be lost after Stripe created the session: the code
\* then has no session to expire.
OpenNewCheckout(c) ==
    /\ click[c].pc = "open"
    /\ \/ \E s \in Session, pc \in {"save", "restore"},
             rows \in SUBSET click[c].rows :
             /\ rows # {}
             /\ {r \in click[c].rows : Exists(row[r])} \subseteq rows
             /\ ses[s].status = "none"
             /\ \A q \in Session : ses[q].status = "none" => s <= q
             /\ ses' = [ses EXCEPT ![s] = [status |-> "open", age |-> 0,
                                           rows |-> rows, hook |-> "none"]]
             /\ click' = [click EXCEPT
                            ![c].pc = pc,
                            ![c].session = IF pc = "save" THEN s
                                           ELSE NoSession]
       \/ /\ click' = [click EXCEPT ![c].pc = "restore"]
          /\ UNCHANGED ses
    /\ UNCHANGED row

\* the end of _open_new_checkout: the id is saved on the rows that are still
\* unpaid, and the page is shown if that was all of them
SaveSession(c) ==
    LET s == click[c].session
        unpaid == {r \in click[c].rows : row[r].status = "unpaid"}
    IN
    /\ click[c].pc = "save"
    /\ row' = [r \in Row |-> IF r \in unpaid
                               THEN [row[r] EXCEPT !.session = s]
                               ELSE row[r]]
    /\ IF unpaid = click[c].rows
         THEN /\ ses' = [ses EXCEPT ![s].status =
                           IF @ = "open" THEN "shown" ELSE @]
              /\ click' = [click EXCEPT ![c] = Idle]
         ELSE /\ click' = [click EXCEPT ![c].pc = "expire"]
              /\ UNCHANGED ses

\* _expire_session; an error of Stripe is logged and ignored
ExpireSession(c) ==
    LET s == click[c].session IN
    /\ click[c].pc = "expire"
    /\ \/ /\ ses[s].status \in {"open", "shown"}
          /\ ses' = [ses EXCEPT ![s].status = "expired", ![s].age = 0]
       \/ UNCHANGED ses
    /\ click' = [click EXCEPT ![c].pc = "restore"]
    /\ UNCHANGED row

\* a row as _restore leaves it
PutBack(c, r) ==
    LET old == click[c].prev[r] IN
    [row[r] EXCEPT !.status = old.status, !.session = old.session,
                   !.age = IF old.status = "unpaid"
                             THEN Older(old.age, click[c].delay)
                             ELSE 0]

\* One row of _restore: the snapshot is written back, whatever the row says by
\* now, and each row is saved for itself.
RestoreRow(c, r) ==
    /\ click[c].pc \in {"restore", "halfway"}
    /\ r \in click[c].rows
    /\ row' = IF Exists(row[r]) THEN [row EXCEPT ![r] = PutBack(c, r)] ELSE row
    /\ click' = IF click[c].rows = {r} THEN [click EXCEPT ![c] = Idle]
                ELSE [click EXCEPT ![c].pc = "halfway",
                                   ![c].rows = click[c].rows \ {r}]
    /\ UNCHANGED ses

Restore(c) == \E r \in Row : RestoreRow(c, r)

\* the worker dies, or an error outside the try block ends the request
Crash(c) ==
    /\ click[c].pc # "idle"
    /\ click' = [click EXCEPT ![c] = Idle]
    /\ UNCHANGED <<row, ses>>

\* A clean-up is cut short: some rows are put back and the others are not.
CutShort(c) ==
    /\ click[c].pc = "halfway"
    /\ click'[c] = Idle
    /\ ~Restore(c)

-----------------------------------------------------------------------------
(* Stripe, the webhook, the reconciler and time.                           *)

\* the guest pays on a page that was shown
Pay(s) ==
    /\ ses[s].status = "shown"
    /\ ses' = [ses EXCEPT ![s].status = "paid", ![s].age = 0,
                          ![s].hook = "pending"]
    /\ UNCHANGED <<row, click>>

SessionMismatch(s, r) ==
    /\ row[r].session \notin {NoSession, s}
    /\ ~row[r].deleted

\* complete_paid_checkout
CompletePaidCheckout(s) ==
    IF \E r \in ses[s].rows : ~Exists(row[r]) \/ SessionMismatch(s, r)
      THEN row
      ELSE [r \in Row |->
              IF r \in ses[s].rows /\ (row[r].status # "paid" \/ row[r].deleted)
                THEN Recorded(row[r], s)
                ELSE row[r]]

\* checkout.session.completed is handled.  The event stays pending when the
\* worker dies before it is marked succeeded, or when a copy of it is being
\* handled at the same time.
Webhook(s) ==
    /\ ses[s].hook = "pending"
    /\ row' = CompletePaidCheckout(s)
    /\ \E hook \in {"pending", "over"} :
          ses' = [ses EXCEPT ![s].hook = hook]
    /\ UNCHANGED click

\* Stripe gives up on the event
LoseWebhook(s) ==
    /\ ses[s].hook = "pending"
    /\ ses' = [ses EXCEPT ![s].hook = "over"]
    /\ UNCHANGED <<row, click>>

\* the session _reconcile_checkout looks at: the recorded one, or else the
\* newest paid one, or else the newest one, whose metadata names the row
Latest(S) == {s \in S : \A q \in S : q <= s}
\* mutant: the search does not compare the metadata with the row
SessionsNamingAny(r) == {s \in Session : ses[s].status # "none"}

SessionsNaming(r) ==
    {s \in Session : ses[s].status # "none" /\ r \in ses[s].rows}
PaidSessionsNaming(r) == {s \in SessionsNaming(r) : ses[s].status = "paid"}
SessionsToCheck(r) ==
    IF row[r].session # NoSession THEN {row[r].session}
    ELSE IF PaidSessionsNaming(r) # {} THEN Latest(PaidSessionsNaming(r))
    ELSE Latest(SessionsNaming(r))

\* mutant: the reconciler only gives up rows
ReconcileWithoutPayment(r) ==
    /\ row[r].status = "unpaid"
    /\ ~row[r].deleted
    /\ ~HoldIsActive(row[r])
    /\ \E s \in SessionsToCheck(r) :
          row' = [row EXCEPT ![r] =
                    IF ses[s].status = "expired"
                      THEN [@ EXCEPT !.deleted = TRUE]
                    ELSE [@ EXCEPT !.session = s]]
    /\ UNCHANGED <<ses, click>>

\* reconcile_reservation, _reconcile_checkout and _abandon
ReconcileReservation(r) ==
    /\ row[r].status = "unpaid"
    /\ ~row[r].deleted
    /\ ~HoldIsActive(row[r])
    /\ \E s \in SessionsToCheck(r) :
          row' = [row EXCEPT ![r] =
                    IF ses[s].status = "paid" THEN Recorded(@, s)
                    ELSE IF ses[s].status = "expired"
                      THEN [@ EXCEPT !.deleted = TRUE]
                    ELSE [@ EXCEPT !.session = s]]
    /\ UNCHANGED <<ses, click>>

Tick ==
    /\ \A c \in Click : click[c].pc # "idle" => click[c].delay < MaxDelay
    /\ row' = [r \in Row |->
                 IF row[r].status = "unpaid"
                   THEN [row[r] EXCEPT !.age = Older(@, 1)]
                   ELSE row[r]]
    /\ ses' = [s \in Session |->
                 IF ses[s].status \in {"open", "shown"}
                   THEN IF ses[s].age + 1 < Life
                          THEN [ses[s] EXCEPT !.age = @ + 1]
                          ELSE [ses[s] EXCEPT !.age = 0, !.status = "expired"]
                   ELSE ses[s]]
    /\ click' = [c \in Click |->
                   IF click[c].pc # "idle"
                     THEN [click[c] EXCEPT !.delay = Older(@, 1)]
                     ELSE click[c]]

-----------------------------------------------------------------------------
Next ==
    \/ \E r \in Row : SaveVisitorReservation(r)
    \/ \E people \in SUBSET Person : SaveTrialReservations(people)
    \/ \E c \in Click, t \in Token : Begin(c, t)
    \/ \E c \in Click : ReusableCheckoutUrl(c)
    \/ \E c \in Click : PrepareAgain(c)
    \/ \E c \in Click : OpenNewCheckout(c)
    \/ \E c \in Click : SaveSession(c)
    \/ \E c \in Click : ExpireSession(c)
    \/ \E c \in Click : Restore(c)
    \/ \E c \in Click : Crash(c)
    \/ \E s \in Session : Pay(s)
    \/ \E s \in Session : Webhook(s)
    \/ \E s \in Session : LoseWebhook(s)
    \/ \E r \in Row : ReconcileReservation(r)
    \/ Tick

Spec == Init /\ [][Next]_vars

\* The reconciler is a periodic job and Stripe answers it in the end; time
\* passes; a request that is not killed runs on.
FairSpec ==
    /\ Spec
    /\ WF_vars(Tick)
    /\ \A r \in Row : WF_vars(ReconcileReservation(r))
    /\ \A c \in Click : WF_vars(\/ ReusableCheckoutUrl(c)
                                \/ OpenNewCheckout(c)
                                \/ SaveSession(c)
                                \/ ExpireSession(c)
                                \/ Restore(c)
                                \/ Crash(c))

-----------------------------------------------------------------------------
(* Properties.                                                             *)

\* Every value stays in its type.  Among other things, a start never keeps a
\* snapshot of a paid row: _prepare ends on a paid row before it takes one.
TypeOK ==
    /\ row \in [Row -> RowRecord]
    /\ ses \in [Session -> SessionRecord]
    /\ click \in [Click -> ClickRecord]

Captured(r) == \E s \in Session : ses[s].status = "paid" /\ r \in ses[s].rows

\* A reservation counts as paid only if Stripe captured money for that very
\* reservation, or nothing was due: no mix of starts, restores, repeated
\* webhooks and reconciliations confirms a place nobody paid for.
PaidWasCaptured ==
    \A r \in Row : row[r].status = "paid" => r \in Free \/ Captured(r)

\* A paid reservation is never left soft-deleted, where the lists and the
\* room check would not see it: the payment that arrives after
\* the reconciler gave the row up brings it back.
PaidNotDeleted == \A r \in Row : row[r].status = "paid" => ~row[r].deleted

Covers(s, r) == ses[s].status # "none" /\ r \in ses[s].rows

\* Every session id the program holds for a row is a session Stripe made for
\* that row: the one on the row, the one a running start would write back,
\* and the one a start is about to save.  Without it the reconciler would
\* credit one guest with the payment of another.
SessionsCoverTheirRows ==
    /\ \A r \in Row : row[r].session # NoSession => Covers(row[r].session, r)
    /\ \A c \in Click, r \in Row :
          click[c].prev[r].session # NoSession =>
            Covers(click[c].prev[r].session, r)
    /\ \A c \in Click : click[c].pc = "save" =>
          /\ click[c].session \in Session
          /\ \A r \in click[c].rows :
                Covers(click[c].session, r) \/ row[r].status = "gone"

LatePayment(r) ==
    /\ row[r].status # "paid" /\ row'[r].status = "paid"
    /\ ~HoldsSpot(row[r])
    /\ Captured(r)

\* Taking places never exceeds the lesson's limit, except by recording a
\* payment that was captured in time and reported after the hold ran out.
OverfullOnlyByLatePayment ==
    [][ \/ SpotsTaken(row)' \subseteq SpotsTaken(row)
        \/ Cardinality(SpotsTaken(row)') <= Limit
        \/ \E r \in Row : LatePayment(r) ]_vars

\* The same when requests may run longer than the grace period.  Then two
\* starts of one link overlap, and the clean-up of a failed one may also put
\* back a hold whose place was given away.
OverfullOnlyByLateWrite ==
    [][ \/ SpotsTaken(row)' \subseteq SpotsTaken(row)
        \/ Cardinality(SpotsTaken(row)') <= Limit
        \/ \E r \in Row : \/ LatePayment(r)
                          \/ \E c \in Click : RestoreRow(c, r) ]_vars

\* Once paid, a reservation is taken back to an unpaid state by nothing but
\* the step of a failed start's clean-up that writes its old snapshot back.
OnlyRestoreUnpays ==
    [][ \A r \in Row :
          row[r].status = "paid" /\ row'[r].status # "paid" =>
            \E c \in Click : RestoreRow(c, r) ]_vars

\* A page on which the guest can still pay is the one recorded on all of its
\* reservations, which are unpaid, not deleted and still holding their places
\* (holds last a minute longer than Checkout Sessions for this), but for those
\* that another payment has confirmed: the webhook of an earlier page may come
\* while the new one is being made.  It is checked and proved for requests of
\* one link that do not overlap and for clean-ups that are not CutShort.
PayableIsRecorded ==
    \A s \in Session : ses[s].status = "shown" =>
        \A r \in ses[s].rows :
            \/ row[r].status = "paid"
            \/ /\ row[r].status = "unpaid"
               /\ row[r].session = s
               /\ HoldsSpot(row[r])

\* The reconciler brings home every payment that it can find, by the session
\* on the row or, where a crash or a new start left none there, by the sessions
\* whose metadata name the row: the unpaid row does not stay unpaid, unless a
\* new start takes it into work.
RecordedPaymentLands ==
    \A r \in Row :
        /\ row[r].status = "unpaid"
        /\ ~row[r].deleted
        /\ \E s \in SessionsToCheck(r) : ses[s].status = "paid"
        ~> \/ row[r].status # "unpaid"
           \/ \E c \in Click : r \in click[c].rows

\* "The webhook normally marks the reservation PAID, but reconciliation
\* handles missed/delayed webhooks", and "Reservation age alone NEVER determines
\* whether a reservation should be deleted" (MemberReservationPaymentReconciler):
\* once Stripe will not report a captured payment again, the reservation is paid,
\* or it is still there and the reconciler will find the payment.
CapturedStaysFindable ==
    \A s \in Session, r \in Row :
        ses[s].status = "paid" /\ ses[s].hook = "over" /\ r \in ses[s].rows =>
            \/ row[r].status = "paid"
            \/ /\ row[r].status = "unpaid"
               /\ ~row[r].deleted
               /\ \E q \in SessionsToCheck(r) : ses[q].status = "paid"
=============================================================================
