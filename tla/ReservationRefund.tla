-------------------------- MODULE ReservationRefund --------------------------
(***************************************************************************)
(* What happens to a reservation after it was paid: the guest's cancel and *)
(* restore links, the owner's refund and the job that finishes refunds,    *)
(* placement of an event's competitors, and canceling the event.  Of the   *)
(* way to a payment it has what the places need: a hold that counts, its   *)
(* end, and a payment that counts nothing (ReservationCheckout and         *)
(* EventReservation have the rest).                                        *)
(*                                                                         *)
(* A refund of a card payment is a transaction that stamps the row, calls  *)
(* to Stripe outside any transaction, and a second transaction that marks  *)
(* the row.  The job looks at rows whose stamp is older than five minutes  *)
(* and asks Stripe too.  The restore link locks only its own row, so other *)
(* reservations commit between its room check and its write: check and     *)
(* write are two actions.                                                  *)
(*                                                                         *)
(* Times are ages in ticks: After is five minutes, MaxDelay how long one   *)
(* click may talk to Stripe (two calls with Stripe's 80 second timeout).   *)
(* Each stamp is a new timestamp, so a job that compares the stamp with    *)
(* the one it read has to know only whether it was replaced.               *)
(***************************************************************************)
EXTENDS Integers, FiniteSets

CONSTANTS
    Row,        \* reservations
    EventRow,   \* those of one event; the others are for one lesson and date
    Method,     \* Method[r]: "stripe", "ticket" or "free" (nothing was paid)
    Click,      \* refund requests of the owner that may run at the same time
    Job,        \* reconciler tasks that may run at the same time
    NoRow,
    Limit,      \* reservation_limit of the lesson and of the event
    After, MaxDelay

ASSUME RefundAssumption ==
    /\ EventRow \subseteq Row
    /\ Method \in [Row -> {"stripe", "ticket", "free"}]
    /\ \A r \in EventRow : Method[r] # "ticket"
    /\ NoRow \notin Row
    /\ IsFiniteSet(Row)
    /\ Limit \in Nat /\ After \in Nat /\ MaxDelay \in Nat

VARIABLES
    row,     \* the reservation tables
    stripe,  \* Stripe's refunds and the idempotency keys it remembers
    click,   \* the refund requests
    job,     \* the reconciler tasks
    restore, \* restores between check and write: the places each has counted
    over     \* event.canceled_at

vars == <<row, stripe, click, job, restore, over>>

\* booked: the row is paid, or free.  page: it is not, but its checkout has
\* started, and its 31 minutes run ("held") or are over ("lapsed"; the row may
\* be deleted for the lists).  age is that of the stamp; After + 1 stands
\* for every later age.  usage says that the ticket was given back
\* (TicketUsage.refunded_at).
RowRecord ==
    [booked : BOOLEAN, page : {"none", "held", "lapsed"}, canceled : BOOLEAN,
     refunded : BOOLEAN, started : BOOLEAN, age : 0..(After + 1), usage : BOOLEAN,
     placed : BOOLEAN]

\* only these are refunded by Stripe
CardRow == {r \in Row : Method[r] = "stripe"}

StripeRecord == [refunds : 0..2, key : BOOLEAN]
ClickRecord == [pc : {"idle", "find", "create", "mark"},
                row : CardRow \cup {NoRow}, delay : 0..MaxDelay]
JobRecord == [pc : {"idle", "list", "mark", "clear"},
              row : CardRow \cup {NoRow}, same : BOOLEAN]

IdleClick == [pc |-> "idle", row |-> NoRow, delay |-> 0]
IdleJob == [pc |-> "idle", row |-> NoRow, same |-> FALSE]

Init ==
    /\ row = [r \in Row |-> [booked |-> FALSE, page |-> "none", canceled |-> FALSE,
                             refunded |-> FALSE, started |-> FALSE, age |-> 0,
                             usage |-> FALSE, placed |-> FALSE]]
    /\ stripe = [r \in Row |-> [refunds |-> 0, key |-> FALSE]]
    /\ click = [c \in Click |-> IdleClick]
    /\ job = [j \in Job |-> IdleJob]
    /\ restore = [r \in {} |-> {}]
    /\ over = FALSE

-----------------------------------------------------------------------------
(* Booking, canceling, restoring.                                          *)

\* the rows that a restore has locked
held == DOMAIN restore

Valid(x) == x.booked /\ ~x.canceled

\* held_reservations: paid, or unpaid with a hold that runs
Open(x) == ~x.canceled /\ (x.booked \/ x.page = "held")

SameSlot(r) == IF r \in EventRow THEN EventRow ELSE Row \ EventRow

\* mutant: an unpaid row whose checkout has started is not counted
OthersPaid(r) == {q \in SameSlot(r) \ {r} : Valid(row[q])}

\* what a room check with exclude_ids = [r] counts
Others(r) == {q \in SameSlot(r) \ {r} : Open(row[q])}

\* assert_lesson_has_spots and assert_event_has_spots
HasSpots(r) == Cardinality(Others(r)) + 1 <= Limit

\* a free place, or one for a ticket, is confirmed in the transaction that
\* counts under the lock of the lesson or event
Book(r) ==
    /\ Method[r] # "stripe"
    /\ ~row[r].booked
    /\ r \in EventRow => ~over
    /\ HasSpots(r)
    /\ row' = [row EXCEPT ![r].booked = TRUE]
    /\ UNCHANGED <<stripe, click, job, restore, over>>

\* the same transaction for a card: the row is unpaid and holds its place
\* while its guest pays
Hold(r) ==
    /\ Method[r] = "stripe"
    /\ ~row[r].booked
    /\ r \in EventRow => ~over
    /\ HasSpots(r)
    /\ row' = [row EXCEPT ![r].page = "held"]
    /\ UNCHANGED <<stripe, click, job, restore, over>>

\* the 31 minutes are over, or the start fails and the row is put back
HoldEnds(r) ==
    /\ row[r].page = "held"
    /\ \E page \in {"none", "lapsed"} : row' = [row EXCEPT ![r].page = page]
    /\ UNCHANGED <<stripe, click, job, restore, over>>

\* A payment is reported, in time or late: places are not counted.  For an
\* event it makes a row valid that its guest has canceled since.
Confirm(r) ==
    /\ r \notin held
    /\ Method[r] = "stripe"
    /\ \/ row[r].page # "none"
       \/ r \in EventRow /\ row[r].booked /\ row[r].canceled
    /\ row' = [row EXCEPT ![r].booked = TRUE, ![r].page = "none",
                          ![r].canceled = FALSE]
    /\ UNCHANGED <<stripe, click, job, restore, over>>

\* mutant: competitors cancel too
CancelAny(r) ==
    /\ r \notin held
    /\ Valid(row[r])
    /\ row' = [row EXCEPT ![r].canceled = TRUE]
    /\ UNCHANGED <<stripe, click, job, restore, over>>

\* cancel_reservation, and the owner's cancel of a free reservation
CancelReservation(r) ==
    /\ r \notin held
    /\ Valid(row[r])
    /\ ~row[r].placed
    /\ row' = [row EXCEPT ![r].canceled = TRUE]
    /\ UNCHANGED <<stripe, click, job, restore, over>>

\* restore_reservation up to _restore_block_reason
CheckRestore(r) ==
    /\ r \notin held
    /\ row[r].booked /\ row[r].canceled
    /\ HasSpots(r)
    /\ restore' = [q \in held \cup {r} |-> IF q = r THEN Others(r)
                                            ELSE restore[q]]
    /\ UNCHANGED <<row, stripe, click, job, over>>

\* the rest of restore_reservation
RestoreReservation(r) ==
    /\ r \in held
    /\ row' = [row EXCEPT ![r].canceled = FALSE]
    /\ restore' = [q \in held \ {r} |-> restore[q]]
    /\ UNCHANGED <<stripe, click, job, over>>

\* a competitor enters a bracket, a division or a team, or leaves all of them
Place(r) ==
    /\ r \in EventRow \ held
    /\ Valid(row[r])
    /\ \E placed \in BOOLEAN : row' = [row EXCEPT ![r].placed = placed]
    /\ UNCHANGED <<stripe, click, job, restore, over>>

\* cancel_section_event.  A lapsed row is in the way as long as it is not
\* deleted; the next tick of the reconciler may have done that.
CancelSectionEvent ==
    /\ ~over
    /\ \A r \in EventRow : ~Open(row[r])
    /\ over' = TRUE
    /\ UNCHANGED <<row, stripe, click, job, restore>>

-----------------------------------------------------------------------------
(* The owner's refund.                                                     *)

\* _refund_ticket and _mark_refunded, in one transaction
RefundTicket(r) ==
    /\ r \notin held
    /\ row[r].booked /\ Method[r] = "ticket" /\ ~row[r].usage
    /\ row' = [row EXCEPT ![r].usage = TRUE, ![r].refunded = TRUE,
                          ![r].canceled = TRUE]
    /\ UNCHANGED <<stripe, click, job, restore, over>>

\* mutant: the clear does not compare the timestamp
NotRestamped(r) == job

\* a job's stored timestamp is no longer the one on the row
Restamped(r) ==
    [j \in Job |-> IF job[j].row = r THEN [job[j] EXCEPT !.same = FALSE]
                   ELSE job[j]]

\* mutant: what was paid, and how, is not checked
StartAnyRefund(c, r) ==
    /\ click[c].pc = "idle"
    /\ r \notin held
    /\ row[r].booked
    /\ ~(row[r].refunded /\ row[r].canceled)
    /\ ~row[r].placed
    /\ row' = [row EXCEPT ![r].started = TRUE, ![r].age = 0]
    /\ job' = Restamped(r)
    /\ click' = [click EXCEPT ![c] = [pc |-> "find", row |-> r, delay |-> 0]]
    /\ UNCHANGED <<stripe, restore, over>>

\* the first transaction of refund_reservation and refund_event_reservation
StartRefund(c, r) ==
    /\ click[c].pc = "idle"
    /\ r \notin held
    /\ row[r].booked /\ Method[r] = "stripe"
    /\ ~(row[r].refunded /\ row[r].canceled)
    /\ ~row[r].placed
    /\ row' = [row EXCEPT ![r].started = TRUE, ![r].age = 0]
    /\ job' = Restamped(r)
    /\ click' = [click EXCEPT ![c] = [pc |-> "find", row |-> r, delay |-> 0]]
    /\ UNCHANGED <<stripe, restore, over>>

\* _find_stripe_refund
Found(r) == stripe[r].refunds > 0

\* mutant: the refunds Stripe made before are not looked for
SkipFind(c) ==
    /\ click[c].pc = "find"
    /\ click' = [click EXCEPT ![c].pc = "create"]
    /\ UNCHANGED <<row, stripe, job, restore, over>>

FindRefund(c) ==
    /\ click[c].pc = "find"
    /\ click' = [click EXCEPT ![c].pc = IF Found(click[c].row) THEN "mark"
                                        ELSE "create"]
    /\ UNCHANGED <<row, stripe, job, restore, over>>

\* stripe.Refund.create: with a key that Stripe remembers it answers with the
\* refund it made before.  The payment may be shared with other reservations,
\* so it does not refuse for want of money.
Refunded(x) ==
    IF x.key THEN x
    ELSE [refunds |-> IF x.refunds < 2 THEN x.refunds + 1 ELSE 2, key |-> TRUE]

\* mutant: a failed call counts as a refund
CreateUnchecked(c) ==
    /\ click[c].pc = "create"
    /\ \/ stripe' = [stripe EXCEPT ![click[c].row] = Refunded(@)]
       \/ UNCHANGED stripe
    /\ click' = [click EXCEPT ![c].pc = "mark"]
    /\ UNCHANGED <<row, job, restore, over>>

\* _refund_stripe after the search: the answer may be lost
CreateRefund(c) ==
    /\ click[c].pc = "create"
    /\ stripe' = [stripe EXCEPT ![click[c].row] = Refunded(@)]
    /\ \/ click' = [click EXCEPT ![c].pc = "mark"]
       \/ click' = [click EXCEPT ![c] = IdleClick]
    /\ UNCHANGED <<row, job, restore, over>>

\* _mark_refunded
Marked(x) == [x EXCEPT !.refunded = TRUE, !.canceled = TRUE]

\* the second transaction of refund_reservation
MarkRefunded(c) ==
    LET r == click[c].row IN
    /\ click[c].pc = "mark"
    /\ r \notin held
    /\ row' = [row EXCEPT ![r] = Marked(@)]
    /\ click' = [click EXCEPT ![c] = IdleClick]
    /\ UNCHANGED <<stripe, job, restore, over>>

\* the worker dies, or a call to Stripe fails
EndClick(c) ==
    /\ click[c].pc # "idle"
    /\ click' = [click EXCEPT ![c] = IdleClick]
    /\ UNCHANGED <<row, stripe, job, restore, over>>

-----------------------------------------------------------------------------
(* ReservationRefundReconciler.                                            *)

\* mutant: a refunded row is never due
UnrefundedIsDue(x) == x.started /\ x.age > After /\ ~x.refunded

\* _refund_is_due
RefundIsDue(x) ==
    /\ x.started /\ x.age > After
    /\ ~(x.refunded /\ x.canceled)

\* the first transaction of reconcile_reservation
StartReconcile(j, r) ==
    /\ job[j].pc = "idle"
    /\ r \notin held
    /\ Method[r] = "stripe"
    /\ RefundIsDue(row[r])
    /\ IF row[r].refunded
         THEN /\ row' = [row EXCEPT ![r].canceled = TRUE]
              /\ UNCHANGED job
         ELSE /\ job' = [job EXCEPT ![j] = [pc |-> "list", row |-> r,
                                            same |-> TRUE]]
              /\ UNCHANGED row
    /\ UNCHANGED <<stripe, click, restore, over>>

ListRefunds(j) ==
    /\ job[j].pc = "list"
    /\ job' = [job EXCEPT ![j].pc = IF Found(job[j].row) THEN "mark"
                                    ELSE "clear"]
    /\ UNCHANGED <<row, stripe, click, restore, over>>

\* the refund is there: the row is marked if it still is due
FinishRefund(j) ==
    LET r == job[j].row IN
    /\ job[j].pc = "mark"
    /\ r \notin held
    /\ row' = IF job[j].same /\ RefundIsDue(row[r])
                THEN [row EXCEPT ![r] = Marked(@)]
                ELSE row
    /\ job' = [job EXCEPT ![j] = IdleJob]
    /\ UNCHANGED <<stripe, click, restore, over>>

\* it is not: the stamp is cleared if it still is the one that was read
ClearRefund(j) ==
    LET r == job[j].row IN
    /\ job[j].pc = "clear"
    /\ r \notin held
    /\ IF job[j].same /\ ~row[r].refunded
         THEN /\ row' = [row EXCEPT ![r].started = FALSE, ![r].age = 0]
              /\ job' = [Restamped(r) EXCEPT ![j] = IdleJob]
         ELSE /\ job' = [job EXCEPT ![j] = IdleJob]
              /\ UNCHANGED row
    /\ UNCHANGED <<stripe, click, restore, over>>

\* the worker dies (not while it waits for a row's lock, which is the same as
\* before or after the wait), or Stripe does not answer
EndReconcile(j) ==
    /\ job[j].pc # "idle" /\ job[j].row \notin held
    /\ job' = [job EXCEPT ![j] = IdleJob]
    /\ UNCHANGED <<row, stripe, click, restore, over>>

-----------------------------------------------------------------------------
\* Stripe forgets idempotency keys after a day, long after any request
ForgetKey(r) ==
    /\ stripe[r].key
    /\ \A c \in Click : click[c].row # r
    /\ stripe' = [stripe EXCEPT ![r].key = FALSE]
    /\ UNCHANGED <<row, click, job, restore, over>>

Tick ==
    /\ \A c \in Click : click[c].pc # "idle" => click[c].delay < MaxDelay
    /\ row' = [r \in Row |->
                 IF row[r].started /\ row[r].age <= After
                   THEN [row[r] EXCEPT !.age = @ + 1] ELSE row[r]]
    /\ click' = [c \in Click |->
                   IF click[c].pc # "idle"
                     THEN [click[c] EXCEPT !.delay = @ + 1] ELSE click[c]]
    /\ UNCHANGED <<stripe, job, restore, over>>

Next ==
    \/ \E r \in Row : Book(r)
    \/ \E r \in Row : Hold(r)
    \/ \E r \in Row : HoldEnds(r)
    \/ \E r \in Row : Confirm(r)
    \/ \E r \in Row : CancelReservation(r)
    \/ \E r \in Row : CheckRestore(r)
    \/ \E r \in Row : RestoreReservation(r)
    \/ \E r \in Row : Place(r)
    \/ CancelSectionEvent
    \/ \E r \in Row : RefundTicket(r)
    \/ \E c \in Click, r \in Row : StartRefund(c, r)
    \/ \E c \in Click : FindRefund(c)
    \/ \E c \in Click : CreateRefund(c)
    \/ \E c \in Click : MarkRefunded(c)
    \/ \E c \in Click : EndClick(c)
    \/ \E j \in Job, r \in Row : StartReconcile(j, r)
    \/ \E j \in Job : ListRefunds(j)
    \/ \E j \in Job : FinishRefund(j)
    \/ \E j \in Job : ClearRefund(j)
    \/ \E j \in Job : EndReconcile(j)
    \/ \E r \in Row : ForgetKey(r)
    \/ Tick

Spec == Init /\ [][Next]_vars

\* Time passes, requests and jobs end.  A scan visits every row that is due, and
\* a step of it that is tried again and again succeeds in the end.
FairSpec ==
    /\ Spec
    /\ WF_vars(Tick)
    /\ \A r \in Row :
          /\ WF_vars(RestoreReservation(r))
          /\ SF_vars(\E j \in Job : StartReconcile(j, r))
          /\ SF_vars(\E j \in Job : job[j].row = r /\ ListRefunds(j))
          /\ SF_vars(\E j \in Job : job[j].row = r /\ FinishRefund(j))
    /\ \A j \in Job : SF_vars(\/ ListRefunds(j) \/ FinishRefund(j)
                              \/ ClearRefund(j) \/ EndReconcile(j))
    /\ \A c \in Click : WF_vars(\/ FindRefund(c) \/ CreateRefund(c)
                                \/ MarkRefunded(c) \/ EndClick(c))

-----------------------------------------------------------------------------
(* Properties.                                                             *)

\* Every value stays in its type: only a card payment is refunded by Stripe, by
\* a click or by the reconciler.
TypeOK ==
    /\ row \in [Row -> RowRecord]
    /\ stripe \in [Row -> StripeRecord]
    /\ click \in [Click -> ClickRecord]
    /\ job \in [Job -> JobRecord]
    /\ DOMAIN restore \subseteq Row
    /\ restore \in [DOMAIN restore -> SUBSET Row]
    /\ over \in BOOLEAN

\* The money of a reservation is given back at most once, however clicks
\* overlap, fail and are tried again, days later too.
RefundedOnce == \A r \in Row : stripe[r].refunds <= 1

\* A reservation says refunded only if Stripe made the refund or the ticket
\* was given back.
RefundedMeansReturned ==
    \A r \in Row : row[r].refunded =>
        IF Method[r] = "ticket" THEN row[r].usage ELSE Found(r)

\* "A row is left alone until refund_started_at is five minutes old, so an
\* owner click that is still talking to Stripe is not cleared.  [...] A newer
\* click replaces it, and the clear no longer matches."
RunningClickIsNotCleared ==
    \A c \in Click :
        click[c].pc # "idle" => row[click[c].row].started

\* A competitor who stands in a bracket, a division or a team has a valid
\* reservation, unless it was refunded: the refund checks the placement only
\* when it starts.
PlacedIsValidOrRefunded ==
    \A r \in Row : row[r].placed /\ row[r].canceled => row[r].refunded

\* A lesson or an event passes its limit only by a row that the counts have
\* not seen: a payment for a hold that had ended, or of a row canceled since;
\* and a restore, if a place was taken between its count and its write.
OverfullOnlyByUncountedRow ==
    [][ \A r \in Row :
          LET before == {q \in SameSlot(r) : Open(row[q])}
              after == {q \in SameSlot(r) : Open(row'[q])}
          IN  ~(after \subseteq before) /\ Cardinality(after) > Limit =>
                \E q \in SameSlot(r) :
                   \/ Confirm(q) /\ ~Open(row[q])
                   \/ RestoreReservation(q) /\ ~(before \subseteq restore[q]) ]_vars

\* Every refund that Stripe made is recorded in the end, and a refunded card
\* reservation that the guest restores is canceled again, without the owner
\* having to try again.
RefundLands ==
    \A r \in Row :
        Found(r) ~> \/ row[r].refunded /\ row[r].canceled
                    \/ \E c \in Click : click[c].row = r

\* "This reservation is canceled" (the owner's refund message), and the owner
\* is refused the restore of a refunded reservation: a place whose ticket was
\* given back is not used.
ReturnedTicketIsCanceled ==
    \A r \in Row : row[r].usage => row[r].canceled
=============================================================================
