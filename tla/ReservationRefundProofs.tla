------------------------ MODULE ReservationRefundProofs ------------------------
(***************************************************************************)
(* Proofs about ReservationRefund, for any reservations, requests, tasks,  *)
(* limits and times.                                                       *)
(***************************************************************************)
EXTENDS ReservationRefund, FiniteSetTheorems, TLAPS

\* The requests and the tasks work on card payments.
Working ==
    /\ \A c \in Click : click[c].pc # "idle" =>
          click[c].row \in Row /\ Method[click[c].row] = "stripe"
    /\ \A j \in Job : job[j].pc # "idle" =>
          job[j].row \in Row /\ Method[job[j].row] = "stripe"

TypeInv == TypeOK /\ Working

\* On the way to a payment.
Booking(r) == Book(r) \/ Hold(r) \/ HoldEnds(r) \/ Confirm(r)

LEMMA Members ==
    /\ 0 \in 0..(After + 1) /\ 0 \in 0..2 /\ 0 \in 0..MaxDelay
    /\ After \in Nat /\ MaxDelay \in Nat
  BY RefundAssumption

LEMMA InitType == Init => TypeInv
<1> SUFFICES ASSUME Init
             PROVE  TypeInv
  OBVIOUS
<1>1. row \in [Row -> RowRecord]
  BY Members DEF Init, RowRecord
<1>2. stripe \in [Row -> StripeRecord]
  BY Members DEF Init, StripeRecord
<1>3. click \in [Click -> ClickRecord] /\ job \in [Job -> JobRecord]
  BY Members DEF Init, ClickRecord, IdleClick, JobRecord, IdleJob
<1>4. Working
  BY DEF Init, Working, IdleClick, IdleJob
<1>5. DOMAIN restore \subseteq Row /\ restore \in [DOMAIN restore -> SUBSET Row]
  BY DEF Init
<1> QED
  BY <1>1, <1>2, <1>3, <1>4, <1>5 DEF Init, TypeInv, TypeOK

LEMMA IdleTypes == IdleClick \in ClickRecord /\ IdleJob \in JobRecord
  BY RefundAssumption DEF IdleClick, IdleJob, ClickRecord, JobRecord

\* A transaction that changes one row by an update that keeps the type.
LEMMA GuestType ==
    ASSUME TypeInv, NEW r \in Row,
           \/ Booking(r) \/ CancelReservation(r) \/ CheckRestore(r)
           \/ RestoreReservation(r) \/ Place(r) \/ RefundTicket(r)
           \/ ForgetKey(r)
    PROVE  TypeInv'
<1>1. UNCHANGED <<click, job, over>>
  BY DEF Booking, Book, Hold, HoldEnds, Confirm,
         CancelReservation, CheckRestore, RestoreReservation, Place,
         RefundTicket, ForgetKey
<1>2. row' \in [Row -> RowRecord]
  <2>1. row[r] \in RowRecord
    BY DEF TypeInv, TypeOK
  <2>2. PICK x \in RowRecord : row' = [row EXCEPT ![r] = x]
    <3>1. \A b \in BOOLEAN :
            /\ [row[r] EXCEPT !.booked = b] \in RowRecord
            /\ \A page \in {"none", "held", "lapsed"} :
                  [row[r] EXCEPT !.page = page] \in RowRecord
            /\ [row[r] EXCEPT !.booked = TRUE, !.page = "none",
                              !.canceled = FALSE] \in RowRecord
            /\ [row[r] EXCEPT !.canceled = b] \in RowRecord
            /\ [row[r] EXCEPT !.placed = b] \in RowRecord
            /\ [row[r] EXCEPT !.usage = TRUE, !.refunded = TRUE,
                              !.canceled = TRUE] \in RowRecord
      BY <2>1 DEF RowRecord
    <3>2. row = [row EXCEPT ![r] = row[r]]
      BY DEF TypeInv, TypeOK
    <3>3. CASE Booking(r)
      <4>1. CASE Book(r)
        BY <3>1, <4>1 DEF Book
      <4>2. CASE Hold(r) \/ HoldEnds(r)
        BY <3>1, <4>2 DEF Hold, HoldEnds
      <4>3. CASE Confirm(r)
        BY <3>1, <4>3 DEF Confirm
      <4> QED BY <3>3, <4>1, <4>2, <4>3 DEF Booking
    <3>4. CASE CancelReservation(r) \/ RestoreReservation(r)
      BY <3>1, <3>4 DEF CancelReservation, RestoreReservation
    <3>5. CASE Place(r)
      BY <3>1, <3>5 DEF Place
    <3>6. CASE RefundTicket(r)
      BY <3>1, <3>6 DEF RefundTicket
    <3>7. CASE CheckRestore(r) \/ ForgetKey(r)
      BY <2>1, <3>2, <3>7 DEF CheckRestore, ForgetKey
    <3> QED BY <3>3, <3>4, <3>5, <3>6, <3>7
  <2> QED BY <2>2 DEF TypeInv, TypeOK
<1>3. stripe' \in [Row -> StripeRecord]
  BY DEF TypeInv, TypeOK, StripeRecord, Booking, Book, Hold, HoldEnds, Confirm,
         CancelReservation, CheckRestore,
         RestoreReservation, Place, RefundTicket, ForgetKey
<1>4. /\ DOMAIN restore' \subseteq Row
      /\ restore' \in [DOMAIN restore' -> SUBSET Row]
  <2>1. CASE UNCHANGED restore
    BY <2>1 DEF TypeInv, TypeOK
  <2>2. CASE CheckRestore(r)
    <3>1. Others(r) \subseteq Row
      BY RefundAssumption DEF Others, SameSlot
    <3> QED BY <2>2, <3>1 DEF CheckRestore, held, TypeInv, TypeOK
  <2>3. CASE RestoreReservation(r)
    BY <2>3 DEF RestoreReservation, held, TypeInv, TypeOK
  <2> QED BY <2>1, <2>2, <2>3
      DEF Booking, Book, Hold, HoldEnds, Confirm, CancelReservation, Place,
          RefundTicket, ForgetKey
<1> QED
  BY <1>1, <1>2, <1>3, <1>4 DEF TypeInv, TypeOK, Working

LEMMA RestampedType ==
    ASSUME TypeInv, NEW r \in Row
    PROVE  /\ Restamped(r) \in [Job -> JobRecord]
           /\ \A j \in Job : /\ Restamped(r)[j].pc = job[j].pc
                             /\ Restamped(r)[j].row = job[j].row
                             /\ Restamped(r)[j].same =
                                  (job[j].same /\ job[j].row # r)
  BY DEF TypeInv, TypeOK, JobRecord, Restamped

LEMMA MarkedType ==
    ASSUME NEW x \in RowRecord
    PROVE  Marked(x) \in RowRecord
  BY DEF Marked, RowRecord

LEMMA RefundedType ==
    ASSUME NEW x \in StripeRecord
    PROVE  Refunded(x) \in StripeRecord
  BY DEF Refunded, StripeRecord

\* What the steps write into one row, one request, one task.
LEMMA Writes ==
    ASSUME TypeInv
    PROVE  /\ \A r \in Row :
                /\ [row[r] EXCEPT !.started = TRUE, !.age = 0] \in RowRecord
                /\ [row[r] EXCEPT !.started = FALSE, !.age = 0] \in RowRecord
                /\ [row[r] EXCEPT !.canceled = TRUE] \in RowRecord
                /\ [row[r] EXCEPT !.age = 0] \in RowRecord
                /\ Marked(row[r]) \in RowRecord
                /\ Refunded(stripe[r]) \in StripeRecord
           /\ \A c \in Click, pc \in {"idle", "find", "create", "mark"} :
                [click[c] EXCEPT !.pc = pc] \in ClickRecord
           /\ \A j \in Job, pc \in {"idle", "list", "mark", "clear"} :
                [job[j] EXCEPT !.pc = pc] \in JobRecord
<1>1. \A r \in Row : row[r] \in RowRecord /\ stripe[r] \in StripeRecord
  BY DEF TypeInv, TypeOK
<1>2. \A r \in Row :
        /\ [row[r] EXCEPT !.started = TRUE, !.age = 0] \in RowRecord
        /\ [row[r] EXCEPT !.started = FALSE, !.age = 0] \in RowRecord
        /\ [row[r] EXCEPT !.canceled = TRUE] \in RowRecord
        /\ [row[r] EXCEPT !.age = 0] \in RowRecord
  BY <1>1, Members DEF RowRecord
<1>3. \A r \in Row : /\ Marked(row[r]) \in RowRecord
                     /\ Refunded(stripe[r]) \in StripeRecord
  BY <1>1, MarkedType, RefundedType
<1>4. \A c \in Click, pc \in {"idle", "find", "create", "mark"} :
        [click[c] EXCEPT !.pc = pc] \in ClickRecord
  BY DEF TypeInv, TypeOK, ClickRecord
<1>5. \A j \in Job, pc \in {"idle", "list", "mark", "clear"} :
        [job[j] EXCEPT !.pc = pc] \in JobRecord
  BY DEF TypeInv, TypeOK, JobRecord
<1> QED
  BY <1>2, <1>3, <1>4, <1>5

LEMMA StartRefundType ==
    ASSUME TypeInv, NEW c \in Click, NEW r \in Row, StartRefund(c, r)
    PROVE  TypeInv'
<1> DEFINE new == [pc |-> "find", row |-> r, delay |-> 0]
<1>1. row' \in [Row -> RowRecord]
  BY Writes DEF StartRefund, TypeInv, TypeOK
<1>2. new \in ClickRecord
  BY Members DEF StartRefund, ClickRecord, CardRow
<1>3. click' = [click EXCEPT ![c] = new]
  BY DEF StartRefund
<1>4. click' \in [Click -> ClickRecord]
  <2> HIDE DEF new
  <2> QED BY <1>2, <1>3 DEF TypeInv, TypeOK
<1>5. \A d \in Click : d # c => click'[d] = click[d]
  BY <1>3 DEF TypeInv, TypeOK
<1>6. click'[c].row = r /\ Method[r] = "stripe"
  BY <1>3 DEF StartRefund, TypeInv, TypeOK
<1>7. Working'
  BY <1>5, <1>6, RestampedType DEF StartRefund, TypeInv, Working
<1> QED
  BY <1>1, <1>4, <1>7, RestampedType DEF StartRefund, TypeInv, TypeOK

LEMMA ClickType ==
    ASSUME TypeInv, NEW c \in Click,
           FindRefund(c) \/ CreateRefund(c) \/ MarkRefunded(c) \/ EndClick(c)
    PROVE  TypeInv'
<1>1. click[c].row \in Row /\ Method[click[c].row] = "stripe"
  BY DEF TypeInv, Working, FindRefund, CreateRefund, MarkRefunded, EndClick
<1>2. \/ click' = [click EXCEPT ![c] = IdleClick]
      \/ \E pc \in {"create", "mark"} :
           click' = [click EXCEPT ![c] = [click[c] EXCEPT !.pc = pc]]
  BY DEF FindRefund, CreateRefund, MarkRefunded, EndClick
<1>3. click' \in [Click -> ClickRecord]
  BY <1>2, IdleTypes, Writes DEF TypeInv, TypeOK
<1>4. \A d \in Click : \/ click'[d] = click[d]
                       \/ click'[d].pc = "idle"
                       \/ click'[d].row \in Row /\ Method[click'[d].row] = "stripe"
  BY <1>1, <1>2 DEF TypeInv, TypeOK, IdleClick, ClickRecord
<1>5. Working'
  BY <1>4 DEF FindRefund, CreateRefund, MarkRefunded, EndClick, TypeInv, Working
<1>6. row' \in [Row -> RowRecord]
  BY <1>1, Writes DEF FindRefund, CreateRefund, MarkRefunded, EndClick, TypeInv,
                      TypeOK
<1>7. stripe' \in [Row -> StripeRecord]
  BY <1>1, Writes DEF FindRefund, CreateRefund, MarkRefunded, EndClick,
                      TypeInv, TypeOK
<1> QED
  BY <1>3, <1>5, <1>6, <1>7
  DEF FindRefund, CreateRefund, MarkRefunded, EndClick, TypeInv, TypeOK

LEMMA JobType ==
    ASSUME TypeInv, NEW j \in Job,
           \/ \E r \in Row : StartReconcile(j, r)
           \/ ListRefunds(j) \/ FinishRefund(j) \/ ClearRefund(j)
           \/ EndReconcile(j)
    PROVE  TypeInv'
<1>1. ASSUME NEW r \in Row, StartReconcile(j, r)
      PROVE  TypeInv'
  <2> DEFINE new == [pc |-> "list", row |-> r, same |-> TRUE]
  <2>1. new \in JobRecord
    BY <1>1 DEF StartReconcile, JobRecord, CardRow
  <2>2. job' = job \/ job' = [job EXCEPT ![j] = new]
    BY <1>1 DEF StartReconcile
  <2>3. job' \in [Job -> JobRecord]
    <3> HIDE DEF new
    <3> QED BY <2>1, <2>2 DEF TypeInv, TypeOK
  <2>4. row' \in [Row -> RowRecord]
    BY <1>1, Writes DEF StartReconcile, TypeInv, TypeOK
  <2>5. Working'
    <3>1. \A d \in Job : job'[d] = job[d] \/ job'[d].row = r
      BY <2>2 DEF TypeInv, TypeOK
    <3> QED BY <1>1, <3>1 DEF StartReconcile, TypeInv, Working
  <2> QED BY <1>1, <2>3, <2>4, <2>5 DEF StartReconcile, TypeInv, TypeOK
<1>2. CASE ListRefunds(j) \/ EndReconcile(j)
  <2>1. \/ job' = [job EXCEPT ![j] = IdleJob]
        \/ /\ job[j].pc # "idle"
           /\ \E pc \in {"mark", "clear"} :
                job' = [job EXCEPT ![j] = [job[j] EXCEPT !.pc = pc]]
    BY <1>2 DEF ListRefunds, EndReconcile
  <2>2. job' \in [Job -> JobRecord]
    BY <2>1, IdleTypes, Writes DEF TypeInv, TypeOK
  <2>3. \A d \in Job : \/ job'[d] = job[d]
                       \/ job'[d].pc = "idle"
                       \/ job[d].pc # "idle" /\ job'[d].row = job[d].row
    BY <2>1 DEF TypeInv, TypeOK, IdleJob, JobRecord
  <2>4. Working'
    BY <1>2, <2>3 DEF ListRefunds, EndReconcile, TypeInv, Working
  <2> QED BY <1>2, <2>2, <2>4 DEF ListRefunds, EndReconcile, TypeInv, TypeOK
<1>3. CASE FinishRefund(j)
  <2>1. job[j].row \in Row
    BY <1>3 DEF FinishRefund, TypeInv, Working
  <2>2. row' \in [Row -> RowRecord] /\ job' \in [Job -> JobRecord]
    <3>1. row' = row \/ row' = [row EXCEPT ![job[j].row] = Marked(row[job[j].row])]
      BY <1>3 DEF FinishRefund
    <3>2. row' \in [Row -> RowRecord]
      BY <2>1, <3>1, Writes DEF TypeInv, TypeOK
    <3> QED BY <1>3, <3>2, IdleTypes DEF FinishRefund, TypeInv, TypeOK
  <2>3. \A d \in Job : job'[d] = job[d] \/ job'[d].pc = "idle"
    BY <1>3 DEF FinishRefund, TypeInv, TypeOK, IdleJob
  <2>4. Working'
    BY <1>3, <2>3 DEF FinishRefund, TypeInv, Working
  <2> QED BY <1>3, <2>2, <2>4 DEF FinishRefund, TypeInv, TypeOK
<1>4. CASE ClearRefund(j)
  <2>1. job[j].row \in Row
    BY <1>4 DEF ClearRefund, TypeInv, Working
  <2>2. row' \in [Row -> RowRecord]
    BY <1>4, <2>1, Writes DEF ClearRefund, TypeInv, TypeOK
  <2>3. \/ job' = [job EXCEPT ![j] = IdleJob]
        \/ job' = [Restamped(job[j].row) EXCEPT ![j] = IdleJob]
    BY <1>4 DEF ClearRefund
  <2>4. CASE job' = [job EXCEPT ![j] = IdleJob]
    BY <1>4, <2>2, <2>4, IdleTypes
    DEF ClearRefund, TypeInv, TypeOK, Working, IdleJob
  <2>5. CASE job' = [Restamped(job[j].row) EXCEPT ![j] = IdleJob]
    <3>1. /\ Restamped(job[j].row) \in [Job -> JobRecord]
          /\ \A d \in Job : /\ Restamped(job[j].row)[d].pc = job[d].pc
                            /\ Restamped(job[j].row)[d].row = job[d].row
      BY <2>1, RestampedType
    <3>2. job' \in [Job -> JobRecord]
      BY <2>5, <3>1, IdleTypes
    <3>3. \A d \in Job : job'[d].pc # "idle" =>
            job[d].pc # "idle" /\ job'[d].row = job[d].row
      BY <2>5, <3>1 DEF IdleJob
    <3>4. Working'
      BY <1>4, <3>3 DEF ClearRefund, TypeInv, Working
    <3> QED BY <1>4, <2>2, <3>2, <3>4 DEF ClearRefund, TypeInv, TypeOK
  <2> QED BY <2>3, <2>4, <2>5
<1> QED
  BY <1>1, <1>2, <1>3, <1>4

LEMMA TickType ==
    ASSUME TypeInv, Tick
    PROVE  TypeInv'
<1>1. \A r \in Row : row[r].age <= After =>
        [row[r] EXCEPT !.age = row[r].age + 1] \in RowRecord
  BY Members DEF TypeInv, TypeOK, RowRecord
<1>2. row' \in [Row -> RowRecord]
  BY <1>1 DEF Tick, TypeInv, TypeOK
<1>3. \A c \in Click : click[c].delay < MaxDelay =>
        [click[c] EXCEPT !.delay = click[c].delay + 1] \in ClickRecord
  BY Members DEF TypeInv, TypeOK, ClickRecord
<1>4. click' \in [Click -> ClickRecord]
  BY <1>3 DEF Tick, TypeInv, TypeOK
<1>5. \A c \in Click : click'[c].pc = click[c].pc /\ click'[c].row = click[c].row
  BY DEF Tick, TypeInv, TypeOK, ClickRecord
<1>6. Working'
  BY <1>5 DEF Tick, TypeInv, Working
<1> QED
  BY <1>2, <1>4, <1>6 DEF Tick, TypeInv, TypeOK

LEMMA NextType == TypeInv /\ [Next]_vars => TypeInv'
<1> SUFFICES ASSUME TypeInv, [Next]_vars
             PROVE  TypeInv'
  OBVIOUS
<1>1. CASE CancelSectionEvent
  BY <1>1 DEF CancelSectionEvent, TypeInv, TypeOK, Working
<1>2. CASE UNCHANGED vars
  BY <1>2 DEF vars, TypeInv, TypeOK, Working
<1> QED
  BY <1>1, <1>2, GuestType, StartRefundType, ClickType, JobType, TickType
  DEF Next, Booking

\* The tables stay in their types: what was not paid by card is not sent to
\* Stripe for a refund.
THEOREM TypeCorrect == Spec => []TypeOK
<1>1. TypeInv => TypeOK
  BY DEF TypeInv
<1> QED
  BY <1>1, InitType, NextType, PTL DEF Spec
-----------------------------------------------------------------------------
(* The money of a card payment.                                            *)

\* A request that is about to create a refund has seen that there is none, and
\* a later one made meanwhile is remembered by its idempotency key.  Who is
\* about to mark a row has seen the refund.  A key is that of a refund.
MoneyInv ==
    /\ TypeInv
    /\ RefundedOnce
    /\ RefundedMeansReturned
    /\ \A r \in Row : stripe[r].key => Found(r)
    /\ \A c \in Click :
          /\ click[c].pc = "create" =>
                (Found(click[c].row) => stripe[click[c].row].key)
          /\ click[c].pc = "mark" => Found(click[c].row)
    /\ \A j \in Job : job[j].pc = "mark" => Found(job[j].row)

\* A ticket that was given back, or a refund that Stripe made.
Returned(r) == IF Method[r] = "ticket" THEN row[r].usage ELSE Found(r)

\* What a step may do to the rows, the requests and the tasks.
RowsSound ==
    \A r \in Row : /\ row[r].usage => row'[r].usage
                   /\ row'[r].refunded => row[r].refunded \/ Returned(r)'
ClicksSound ==
    \A c \in Click :
        \/ click'[c].pc \in {"idle", "find"}
        \/ click'[c].pc = "create" /\ ~Found(click'[c].row)
        \/ click'[c].pc = "mark" /\ Found(click'[c].row)
        \/ click'[c].pc = click[c].pc /\ click'[c].row = click[c].row
JobsSound ==
    \A j \in Job :
        \/ job'[j].pc # "mark"
        \/ Found(job'[j].row)
        \/ job'[j].pc = job[j].pc /\ job'[j].row = job[j].row

LEMMA SoundStep ==
    ASSUME MoneyInv, TypeInv', UNCHANGED stripe, RowsSound, ClicksSound, JobsSound
    PROVE  MoneyInv'
<1>1. RefundedOnce'
  BY DEF MoneyInv, RefundedOnce
<1>2. RefundedMeansReturned'
  BY DEF MoneyInv, RefundedMeansReturned, RowsSound, Returned, Found
<1>3. \A c \in Click :
        /\ click'[c].pc = "create" =>
              (Found(click'[c].row) => stripe[click'[c].row].key)
        /\ click'[c].pc = "mark" => Found(click'[c].row)
  BY DEF MoneyInv, ClicksSound
<1>4. \A j \in Job : job'[j].pc = "mark" => Found(job'[j].row)
  BY DEF MoneyInv, JobsSound
<1>5. (\A r \in Row : stripe[r].key => Found(r))'
  BY DEF MoneyInv, Found
<1> QED
  BY <1>1, <1>2, <1>3, <1>4, <1>5 DEF MoneyInv, Found

LEMMA GuestSound ==
    ASSUME MoneyInv, NEW r \in Row,
           \/ Booking(r) \/ CancelReservation(r) \/ CheckRestore(r)
           \/ RestoreReservation(r) \/ Place(r) \/ RefundTicket(r)
    PROVE  UNCHANGED stripe /\ RowsSound /\ ClicksSound /\ JobsSound
<1>1. UNCHANGED <<stripe, click, job>>
  BY DEF Booking, Book, Hold, HoldEnds, Confirm,
         CancelReservation, CheckRestore, RestoreReservation, Place,
         RefundTicket
<1>2. \A q \in Row :
        /\ row[q].usage => row'[q].usage
        /\ row'[q].refunded =>
              row[q].refunded \/ (Method[q] = "ticket" /\ row'[q].usage)
  <2>1. row[r] \in RowRecord
    BY DEF MoneyInv, TypeInv, TypeOK
  <2>2. \A q \in Row \ {r} : row'[q] = row[q]
    BY DEF Booking, Book, Hold, HoldEnds, Confirm,
         CancelReservation, CheckRestore, RestoreReservation, Place,
           RefundTicket, MoneyInv, TypeInv, TypeOK
  <2>3. CASE RefundTicket(r)
    <3>1. row'[r].usage /\ Method[r] = "ticket"
      BY <2>1, <2>3 DEF RefundTicket, MoneyInv, TypeInv, TypeOK, RowRecord
    <3> QED BY <2>2, <3>1
  <2>4. CASE Booking(r)
    BY <2>1, <2>2, <2>4 DEF Booking, Book, Hold, HoldEnds, Confirm, MoneyInv, TypeInv, TypeOK, RowRecord
  <2>5. CASE CancelReservation(r) \/ RestoreReservation(r)
    BY <2>1, <2>2, <2>5
    DEF CancelReservation, RestoreReservation, MoneyInv, TypeInv, TypeOK, RowRecord
  <2>6. CASE Place(r)
    BY <2>1, <2>2, <2>6 DEF Place, MoneyInv, TypeInv, TypeOK, RowRecord
  <2>7. CASE CheckRestore(r)
    BY <2>7 DEF CheckRestore
  <2> QED BY <2>3, <2>4, <2>5, <2>6, <2>7
<1>3. RowsSound
  BY <1>2 DEF RowsSound, Returned
<1> QED
  BY <1>1, <1>3 DEF ClicksSound, JobsSound

LEMMA ClickSound ==
    ASSUME MoneyInv, NEW c \in Click,
           \/ \E r \in Row : StartRefund(c, r)
           \/ FindRefund(c) \/ MarkRefunded(c) \/ EndClick(c)
    PROVE  UNCHANGED stripe /\ RowsSound /\ ClicksSound /\ JobsSound
<1>1. UNCHANGED stripe
  BY DEF StartRefund, FindRefund, MarkRefunded, EndClick
<1>2. CASE \E r \in Row : StartRefund(c, r)
  <2>1. PICK r \in Row : StartRefund(c, r)
    BY <1>2
  <2>2. \A q \in Row : /\ row'[q].usage = row[q].usage
                       /\ row'[q].refunded = row[q].refunded
    BY <2>1 DEF StartRefund, MoneyInv, TypeInv, TypeOK, RowRecord
  <2>3. \A d \in Click : click'[d] = click[d] \/ click'[d].pc = "find"
    BY <2>1 DEF StartRefund, MoneyInv, TypeInv, TypeOK
  <2>4. \A j \in Job : job'[j].pc = job[j].pc /\ job'[j].row = job[j].row
    BY <2>1, RestampedType DEF StartRefund, MoneyInv
  <2> QED BY <1>1, <2>2, <2>3, <2>4 DEF RowsSound, ClicksSound, JobsSound
<1>3. CASE FindRefund(c)
  <2>1. \A d \in Click :
          \/ click'[d] = click[d]
          \/ click'[d].pc = "create" /\ ~Found(click'[d].row)
          \/ click'[d].pc = "mark" /\ Found(click'[d].row)
    BY <1>3 DEF FindRefund, MoneyInv, TypeInv, TypeOK, ClickRecord
  <2>2. UNCHANGED <<row, job>>
    BY <1>3 DEF FindRefund
  <2> QED BY <1>1, <2>1, <2>2 DEF RowsSound, ClicksSound, JobsSound
<1>4. CASE MarkRefunded(c) \/ EndClick(c)
  <2>1. \A d \in Click : click'[d] = click[d] \/ click'[d].pc = "idle"
    BY <1>4 DEF MarkRefunded, EndClick, MoneyInv, TypeInv, TypeOK, IdleClick
  <2>2. \A q \in Row : /\ row'[q].usage = row[q].usage
                       /\ row'[q].refunded => row[q].refunded \/ Returned(q)'
    <3>1. CASE EndClick(c)
      BY <3>1 DEF EndClick
    <3>2. CASE MarkRefunded(c)
      <4>1. /\ click[c].row \in Row /\ Method[click[c].row] = "stripe"
            /\ Found(click[c].row)
        BY <3>2 DEF MarkRefunded, MoneyInv, TypeInv, Working
      <4>2. \A q \in Row : q = click[c].row => Returned(q)'
        BY <4>1, <1>1 DEF Returned, Found
      <4>3. \A q \in Row : row'[q] = IF q = click[c].row THEN Marked(row[q])
                                     ELSE row[q]
        BY <3>2, <4>1 DEF MarkRefunded, MoneyInv, TypeInv, TypeOK
      <4>4. \A q \in Row : Marked(row[q]).usage = row[q].usage
        BY DEF Marked, MoneyInv, TypeInv, TypeOK, RowRecord
      <4> QED BY <4>2, <4>3, <4>4
    <3> QED BY <1>4, <3>1, <3>2
  <2>3. UNCHANGED job
    BY <1>4 DEF MarkRefunded, EndClick
  <2> QED BY <1>1, <2>1, <2>2, <2>3 DEF RowsSound, ClicksSound, JobsSound
<1> QED
  BY <1>1, <1>2, <1>3, <1>4

LEMMA JobSound ==
    ASSUME MoneyInv, NEW j \in Job,
           \/ \E r \in Row : StartReconcile(j, r)
           \/ ListRefunds(j) \/ FinishRefund(j) \/ ClearRefund(j)
           \/ EndReconcile(j)
    PROVE  UNCHANGED stripe /\ RowsSound /\ ClicksSound /\ JobsSound
<1>1. UNCHANGED <<stripe, click>>
  BY DEF StartReconcile, ListRefunds, FinishRefund, ClearRefund, EndReconcile
<1>2. ClicksSound
  BY <1>1 DEF ClicksSound
<1>3. JobsSound
  <2>1. ASSUME NEW r \in Row, StartReconcile(j, r)
        PROVE  JobsSound
    BY <2>1 DEF StartReconcile, JobsSound, MoneyInv, TypeInv, TypeOK
  <2>2. CASE ListRefunds(j)
    BY <2>2 DEF ListRefunds, JobsSound, MoneyInv, TypeInv, TypeOK, JobRecord
  <2>3. CASE FinishRefund(j) \/ EndReconcile(j)
    BY <2>3 DEF FinishRefund, EndReconcile, JobsSound, IdleJob, MoneyInv,
                TypeInv, TypeOK
  <2>4. CASE ClearRefund(j)
    <3>1. job[j].row \in Row
      BY <2>4 DEF ClearRefund, MoneyInv, TypeInv, Working
    <3>2. \/ job' = [job EXCEPT ![j] = IdleJob]
          \/ job' = [Restamped(job[j].row) EXCEPT ![j] = IdleJob]
      BY <2>4 DEF ClearRefund
    <3>3. \A d \in Job : \/ job'[d].pc = "idle"
                         \/ job'[d].pc = job[d].pc /\ job'[d].row = job[d].row
      <4>1. CASE job' = [job EXCEPT ![j] = IdleJob]
        BY <4>1 DEF IdleJob, MoneyInv, TypeInv, TypeOK
      <4>2. CASE job' = [Restamped(job[j].row) EXCEPT ![j] = IdleJob]
        BY <3>1, <4>2, RestampedType DEF IdleJob, MoneyInv
      <4> QED BY <3>2, <4>1, <4>2
    <3> QED BY <3>3 DEF JobsSound
  <2> QED BY <2>1, <2>2, <2>3, <2>4
<1>4. RowsSound
  <2>1. ASSUME NEW r \in Row, StartReconcile(j, r)
        PROVE  RowsSound
    BY <2>1 DEF StartReconcile, RowsSound, MoneyInv, TypeInv, TypeOK, RowRecord
  <2>2. CASE ListRefunds(j) \/ EndReconcile(j)
    BY <2>2 DEF ListRefunds, EndReconcile, RowsSound
  <2>3. CASE ClearRefund(j)
    BY <2>3 DEF ClearRefund, RowsSound, MoneyInv, TypeInv, TypeOK, RowRecord
  <2>4. CASE FinishRefund(j)
    <3>1. /\ job[j].row \in Row /\ Method[job[j].row] = "stripe"
          /\ Found(job[j].row)
      BY <2>4 DEF FinishRefund, MoneyInv, TypeInv, Working
    <3>2. \A q \in Row : q = job[j].row => Returned(q)'
      BY <3>1, <1>1 DEF Returned, Found
    <3>3. \A q \in Row : \/ row'[q] = row[q]
                         \/ q = job[j].row /\ row'[q] = Marked(row[q])
      BY <2>4, <3>1 DEF FinishRefund, MoneyInv, TypeInv, TypeOK
    <3>4. \A q \in Row : Marked(row[q]).usage = row[q].usage
      BY DEF Marked, MoneyInv, TypeInv, TypeOK, RowRecord
    <3> QED BY <3>2, <3>3, <3>4 DEF RowsSound
  <2> QED BY <2>1, <2>2, <2>3, <2>4
<1> QED
  BY <1>1, <1>2, <1>3, <1>4

LEMMA CreateSound ==
    ASSUME MoneyInv, TypeInv', NEW c \in Click, CreateRefund(c)
    PROVE  MoneyInv'
<1> DEFINE r == click[c].row
<1>1. /\ r \in Row /\ stripe[r] \in StripeRecord
      /\ Found(r) => stripe[r].key
      /\ stripe[r].refunds <= 1
      /\ stripe[r].key => Found(r)
  BY DEF CreateRefund, MoneyInv, TypeInv, TypeOK, Working, RefundedOnce
<1>2. stripe' = [stripe EXCEPT ![r] = Refunded(stripe[r])]
  BY DEF CreateRefund
<1>3. Refunded(stripe[r]).key /\ Refunded(stripe[r]).refunds <= 1
  BY <1>1 DEF Refunded, Found, StripeRecord
<1>4. Found(r) => Refunded(stripe[r]).refunds > 0
  BY <1>1 DEF Refunded, Found, StripeRecord
<1>5. \A q \in Row : stripe'[q] = IF q = r THEN Refunded(stripe[q]) ELSE stripe[q]
  BY <1>1, <1>2 DEF MoneyInv, TypeInv, TypeOK
<1>6. \A q \in Row : /\ Found(q) => Found(q)'
                     /\ Found(q)' /\ (Found(q) => stripe[q].key) => stripe'[q].key
  BY <1>3, <1>4, <1>5 DEF Found
<1>7. stripe'[r].refunds > 0
  <2>1. Refunded(stripe[r]).refunds > 0
    BY <1>1 DEF Refunded, StripeRecord, Found
  <2> QED BY <1>1, <1>5, <2>1
<1>8. RefundedOnce'
  BY <1>3, <1>5 DEF MoneyInv, RefundedOnce
<1>9. RefundedMeansReturned'
  BY <1>6 DEF CreateRefund, MoneyInv, RefundedMeansReturned
<1>10. \A d \in Click :
         \/ click'[d] = click[d]
         \/ click'[d].pc = "idle"
         \/ click'[d].pc = "mark" /\ click'[d].row = r
  BY DEF CreateRefund, MoneyInv, TypeInv, TypeOK, IdleClick, ClickRecord
<1>11. \A d \in Click : click[d].pc # "idle" => click[d].row \in Row
  BY DEF MoneyInv, TypeInv, Working
<1>12. \A d \in Click :
         /\ click'[d].pc = "create" =>
              (stripe'[click'[d].row].refunds > 0 => stripe'[click'[d].row].key)
         /\ click'[d].pc = "mark" => stripe'[click'[d].row].refunds > 0
  BY <1>6, <1>7, <1>10, <1>11 DEF MoneyInv, Found
<1>13. \A j \in Job : job'[j].pc = "mark" => stripe'[job'[j].row].refunds > 0
  <2>1. \A j \in Job : job[j].pc = "mark" => job[j].row \in Row
    BY DEF MoneyInv, TypeInv, Working
  <2> QED BY <1>6, <2>1 DEF CreateRefund, MoneyInv, Found
<1>14. \A q \in Row : stripe'[q].key => stripe'[q].refunds > 0
  BY <1>5, <1>7 DEF MoneyInv, Found
<1> QED
  BY <1>8, <1>9, <1>12, <1>13, <1>14 DEF MoneyInv, Found

LEMMA ForgetSound ==
    ASSUME MoneyInv, TypeInv', NEW r \in Row, ForgetKey(r)
    PROVE  MoneyInv'
<1>1. \A q \in Row : /\ stripe'[q].refunds = stripe[q].refunds
                     /\ q # r => stripe'[q] = stripe[q]
  BY DEF ForgetKey, MoneyInv, TypeInv, TypeOK, StripeRecord
<1>2. \A c \in Click : click[c].row # r
  BY DEF ForgetKey
<1>3. UNCHANGED <<row, click, job>>
  BY DEF ForgetKey
<1>4. RefundedOnce' /\ RefundedMeansReturned'
  BY <1>1, <1>3 DEF MoneyInv, RefundedOnce, RefundedMeansReturned, Found
<1>5. /\ \A c \in Click : click[c].pc # "idle" => click[c].row \in Row
      /\ \A j \in Job : job[j].pc # "idle" => job[j].row \in Row
  BY DEF MoneyInv, TypeInv, Working
<1>6. \A c \in Click :
        /\ click[c].pc = "create" =>
             (stripe'[click[c].row].refunds > 0 => stripe'[click[c].row].key)
        /\ click[c].pc = "mark" => stripe'[click[c].row].refunds > 0
  BY <1>1, <1>2, <1>5 DEF MoneyInv, Found
<1>7. \A j \in Job : job[j].pc = "mark" => stripe'[job[j].row].refunds > 0
  BY <1>1, <1>5 DEF MoneyInv, Found
<1>8. \A q \in Row : stripe'[q].key => stripe[q].key
  BY DEF ForgetKey, MoneyInv, TypeInv, TypeOK, StripeRecord
<1>9. \A q \in Row : stripe'[q].key => stripe'[q].refunds > 0
  BY <1>1, <1>8 DEF MoneyInv, Found
<1> QED
  BY <1>3, <1>4, <1>6, <1>7, <1>9 DEF MoneyInv, Found

LEMMA TickSound ==
    ASSUME MoneyInv, Tick
    PROVE  UNCHANGED stripe /\ RowsSound /\ ClicksSound /\ JobsSound
<1>1. \A r \in Row : /\ row'[r].usage = row[r].usage
                     /\ row'[r].refunded = row[r].refunded
  BY DEF Tick, MoneyInv, TypeInv, TypeOK, RowRecord
<1>2. \A c \in Click : click'[c].pc = click[c].pc /\ click'[c].row = click[c].row
  BY DEF Tick, MoneyInv, TypeInv, TypeOK, ClickRecord
<1> QED
  BY <1>1, <1>2 DEF Tick, RowsSound, ClicksSound, JobsSound

LEMMA MoneyStep == MoneyInv /\ [Next]_vars => MoneyInv'
<1> SUFFICES ASSUME MoneyInv, [Next]_vars
             PROVE  MoneyInv'
  OBVIOUS
<1>1. TypeInv'
  BY NextType DEF MoneyInv
<1>2. CASE CancelSectionEvent \/ UNCHANGED vars
  <2>1. UNCHANGED <<row, stripe, click, job>>
    BY <1>2 DEF CancelSectionEvent, vars
  <2> QED
    BY <1>1, <2>1 DEF MoneyInv, RefundedOnce, RefundedMeansReturned, Found
<1> QED
  BY <1>1, <1>2, SoundStep, GuestSound, ClickSound, JobSound, CreateSound,
     ForgetSound, TickSound DEF Next, Booking

LEMMA InitMoney == Init => MoneyInv
<1> SUFFICES ASSUME Init
             PROVE  MoneyInv
  OBVIOUS
<1>1. RefundedOnce /\ RefundedMeansReturned
  BY DEF Init, RefundedOnce, RefundedMeansReturned
<1> QED
  BY <1>1, InitType DEF Init, MoneyInv, IdleClick, IdleJob

\* However often the owner clicks, whatever Stripe answers and whoever dies,
\* refund_reservation gives the money of a reservation back at most once.
THEOREM MoneyGoesBackOnce == Spec => []RefundedOnce
<1>1. MoneyInv => RefundedOnce
  BY DEF MoneyInv
<1> QED
  BY <1>1, InitMoney, MoneyStep, PTL DEF Spec

\* A row that _mark_refunded wrote has its refund or its ticket.
THEOREM RefundedIsReturned == Spec => []RefundedMeansReturned
<1>1. MoneyInv => RefundedMeansReturned
  BY DEF MoneyInv
<1> QED
  BY <1>1, InitMoney, MoneyStep, PTL DEF Spec

-----------------------------------------------------------------------------
(* The reconciler does not touch a running click.                          *)

\* A request's stamp is no older than the request.  A task whose stored
\* timestamp still is the row's read it when it was older than After.
StampInv ==
    /\ TypeInv
    /\ \A c \in Click : click[c].pc # "idle" =>
          /\ row[click[c].row].started
          /\ row[click[c].row].age <= click[c].delay
    /\ \A j \in Job : job[j].pc # "idle" /\ job[j].same =>
          /\ row[job[j].row].started
          /\ row[job[j].row].age > After

\* Steps that leave the stamps, or renew one.
StampsKept ==
    /\ \A r \in Row : /\ row'[r].started = row[r].started
                      /\ row'[r].age = row[r].age
    /\ \A c \in Click :
          \/ click'[c].pc = "idle"
          \/ /\ click[c].pc # "idle"
             /\ click'[c].row = click[c].row
             /\ click'[c].delay = click[c].delay
    /\ \A j \in Job :
          \/ job'[j].pc = "idle" \/ ~job'[j].same
          \/ job[j].pc # "idle" /\ job[j].same /\ job'[j].row = job[j].row
          \/ row[job'[j].row].started /\ row[job'[j].row].age > After

LEMMA StampStep ==
    ASSUME StampInv, TypeInv', StampsKept
    PROVE  StampInv'
<1>1. \A c \in Click : click'[c].pc # "idle" =>
        /\ row'[click'[c].row].started
        /\ row'[click'[c].row].age <= click'[c].delay
  BY DEF StampInv, StampsKept, TypeInv, Working
<1>2. \A j \in Job : job'[j].pc # "idle" /\ job'[j].same =>
        /\ row'[job'[j].row].started
        /\ row'[job'[j].row].age > After
  BY DEF StampInv, StampsKept, TypeInv, Working
<1> QED
  BY <1>1, <1>2 DEF StampInv

LEMMA GuestStamps ==
    ASSUME StampInv, NEW r \in Row,
           \/ Booking(r) \/ CancelReservation(r) \/ CheckRestore(r)
           \/ RestoreReservation(r) \/ Place(r) \/ RefundTicket(r)
           \/ ForgetKey(r)
    PROVE  StampsKept
<1>1. UNCHANGED <<click, job>>
  BY DEF Booking, Book, Hold, HoldEnds, Confirm,
         CancelReservation, CheckRestore, RestoreReservation, Place,
         RefundTicket, ForgetKey
<1>2. \A q \in Row : /\ row'[q].started = row[q].started
                     /\ row'[q].age = row[q].age
  BY DEF Booking, Book, Hold, HoldEnds, Confirm,
         CancelReservation, CheckRestore, RestoreReservation, Place,
         RefundTicket, ForgetKey, StampInv, TypeInv, TypeOK, RowRecord
<1> QED
  BY <1>1, <1>2 DEF StampsKept

LEMMA ClickStamps ==
    ASSUME StampInv, NEW c \in Click,
           FindRefund(c) \/ CreateRefund(c) \/ MarkRefunded(c) \/ EndClick(c)
    PROVE  StampsKept
<1>1. UNCHANGED job
  BY DEF FindRefund, CreateRefund, MarkRefunded, EndClick
<1>2. \A d \in Click :
        \/ click'[d].pc = "idle"
        \/ click'[d] = click[d]
        \/ /\ click[d].pc # "idle"
           /\ click'[d].row = click[d].row
           /\ click'[d].delay = click[d].delay
  BY DEF FindRefund, CreateRefund, MarkRefunded, EndClick, IdleClick, StampInv,
         TypeInv, TypeOK, ClickRecord
<1>3. \A r \in Row : /\ row'[r].started = row[r].started
                     /\ row'[r].age = row[r].age
  <2>1. CASE UNCHANGED row
    BY <2>1
  <2>2. CASE MarkRefunded(c)
    BY <2>2 DEF MarkRefunded, Marked, StampInv, TypeInv, TypeOK, RowRecord
  <2> QED
    BY <2>1, <2>2 DEF FindRefund, CreateRefund, EndClick
<1> QED
  BY <1>1, <1>2, <1>3 DEF StampsKept

LEMMA StartStamps ==
    ASSUME StampInv, TypeInv', NEW c \in Click, NEW r \in Row, StartRefund(c, r)
    PROVE  StampInv'
<1>1. row[r] \in RowRecord
  BY DEF StampInv, TypeInv, TypeOK
<1>2. row' = [row EXCEPT ![r] = [row[r] EXCEPT !.started = TRUE, !.age = 0]]
  BY DEF StartRefund
<1>3. /\ \A q \in Row \ {r} : row'[q] = row[q]
      /\ row'[r].started /\ row'[r].age = 0
  BY <1>1, <1>2 DEF StampInv, TypeInv, TypeOK, RowRecord
<1>4. \A d \in Click : \/ d # c /\ click'[d] = click[d]
                       \/ click'[d].row = r /\ click'[d].delay = 0
  BY DEF StartRefund, StampInv, TypeInv, TypeOK
<1>5. \A d \in Click : click'[d].delay >= 0
  BY Members DEF TypeInv, TypeOK, ClickRecord
<1>6. \A d \in Click : click'[d].pc # "idle" =>
        /\ row'[click'[d].row].started
        /\ row'[click'[d].row].age <= click'[d].delay
  <2> TAKE d \in Click
  <2>1. CASE click'[d].row = r
    BY <1>3, <1>5, <2>1
  <2>2. CASE click'[d].row # r
    BY <1>3, <1>4, <2>2 DEF StampInv, TypeInv, Working
  <2> QED BY <2>1, <2>2
<1>7. \A j \in Job : /\ job'[j].pc = job[j].pc /\ job'[j].row = job[j].row
                     /\ job'[j].same => job[j].same /\ job[j].row # r
  BY RestampedType DEF StartRefund, StampInv
<1>8. \A j \in Job : job'[j].pc # "idle" /\ job'[j].same =>
        /\ row'[job'[j].row].started
        /\ row'[job'[j].row].age > After
  BY <1>3, <1>7 DEF StampInv, TypeInv, Working
<1> QED
  BY <1>6, <1>8 DEF StampInv

LEMMA JobStamps ==
    ASSUME StampInv, NEW j \in Job,
           \/ \E r \in Row : StartReconcile(j, r)
           \/ ListRefunds(j) \/ FinishRefund(j) \/ EndReconcile(j)
    PROVE  StampsKept
<1>1. UNCHANGED click
  BY DEF StartReconcile, ListRefunds, FinishRefund, EndReconcile
<1>2. ASSUME NEW r \in Row, StartReconcile(j, r)
      PROVE  StampsKept
  <2>1. \A q \in Row : /\ row'[q].started = row[q].started
                       /\ row'[q].age = row[q].age
    BY <1>2 DEF StartReconcile, StampInv, TypeInv, TypeOK, RowRecord
  <2>2. \A d \in Job : job'[d] = job[d] \/ job'[d].row = r
    BY <1>2 DEF StartReconcile, StampInv, TypeInv, TypeOK
  <2>3. row[r].started /\ row[r].age > After
    BY <1>2 DEF StartReconcile, RefundIsDue
  <2> QED BY <1>1, <2>1, <2>2, <2>3 DEF StampsKept
<1>3. CASE ListRefunds(j) \/ FinishRefund(j) \/ EndReconcile(j)
  <2>1. \A d \in Job :
          \/ job'[d].pc = "idle"
          \/ job'[d] = job[d]
          \/ /\ job[d].pc # "idle"
             /\ job'[d].row = job[d].row /\ job'[d].same = job[d].same
    BY <1>3 DEF ListRefunds, FinishRefund, EndReconcile, IdleJob, StampInv,
                TypeInv, TypeOK, JobRecord
  <2>2. \A r \in Row : /\ row'[r].started = row[r].started
                       /\ row'[r].age = row[r].age
    <3>1. \A r \in Row : row'[r] = row[r] \/ row'[r] = Marked(row[r])
      <4>1. \/ row' = row
            \/ row' = [row EXCEPT ![job[j].row] = Marked(row[job[j].row])]
        BY <1>3 DEF ListRefunds, FinishRefund, EndReconcile
      <4> QED BY <4>1 DEF StampInv, TypeInv, TypeOK
    <3>2. \A r \in Row : /\ Marked(row[r]).started = row[r].started
                         /\ Marked(row[r]).age = row[r].age
      BY DEF Marked, StampInv, TypeInv, TypeOK, RowRecord
    <3> QED BY <3>1, <3>2
  <2> QED BY <1>1, <2>1, <2>2 DEF StampsKept
<1> QED
  BY <1>2, <1>3

\* A task that clears a stamp compares it: no request made it, because a
\* request would have ended before the stamp was old enough.
LEMMA ClearStamps ==
    ASSUME MaxDelay <= After, StampInv, TypeInv', NEW j \in Job, ClearRefund(j)
    PROVE  StampInv'
<1> DEFINE r == job[j].row
<1>1. r \in Row /\ row[r] \in RowRecord
  BY DEF ClearRefund, StampInv, TypeInv, TypeOK, Working
<1>2. CASE job[j].same /\ ~row[r].refunded
  <2>1. row[r].age > After
    BY <1>2 DEF ClearRefund, StampInv
  <2>2. \A c \in Click : click[c].pc # "idle" => click[c].row # r
    <3>1. \A c \in Click : click[c].delay <= MaxDelay /\ click[c].delay \in Nat
      BY Members DEF StampInv, TypeInv, TypeOK, ClickRecord
    <3>2. row[r].age \in Nat
      BY <1>1, Members DEF RowRecord
    <3> QED BY <2>1, <3>1, <3>2, Members DEF StampInv
  <2>3. \A q \in Row \ {r} : row'[q] = row[q]
    BY <1>2 DEF ClearRefund, StampInv, TypeInv, TypeOK
  <2>4. \A d \in Job : job'[d].pc # "idle" /\ job'[d].same =>
          /\ job[d].pc # "idle" /\ job[d].same
          /\ job'[d].row = job[d].row /\ job[d].row # r
    <3>1. job' = [Restamped(r) EXCEPT ![j] = IdleJob]
      BY <1>2 DEF ClearRefund
    <3> HIDE DEF r
    <3> QED BY <1>1, <3>1, RestampedType DEF IdleJob, StampInv
  <2>5. UNCHANGED click
    BY DEF ClearRefund
  <2>6. \A c \in Click : click'[c].pc # "idle" =>
          /\ row'[click'[c].row].started
          /\ row'[click'[c].row].age <= click'[c].delay
    BY <2>2, <2>3, <2>5 DEF StampInv, TypeInv, Working
  <2>7. \A d \in Job : job'[d].pc # "idle" /\ job'[d].same =>
          /\ row'[job'[d].row].started
          /\ row'[job'[d].row].age > After
    BY <2>3, <2>4 DEF StampInv, TypeInv, Working
  <2> QED BY <2>6, <2>7 DEF StampInv
<1>3. CASE ~(job[j].same /\ ~row[r].refunded)
  <2>1. UNCHANGED <<row, click>>
    BY <1>3 DEF ClearRefund
  <2>2. \A d \in Job : job'[d].pc = "idle" \/ job'[d] = job[d]
    BY <1>3 DEF ClearRefund, IdleJob, StampInv, TypeInv, TypeOK
  <2> QED BY <2>1, <2>2 DEF StampInv
<1> QED
  BY <1>2, <1>3

LEMMA TickStamps ==
    ASSUME StampInv, TypeInv', Tick
    PROVE  StampInv'
<1>1. \A r \in Row :
        /\ row'[r].started = row[r].started
        /\ row'[r].age = row[r].age \/ row'[r].age = row[r].age + 1
        /\ row[r].age > After => row'[r].age = row[r].age
  BY Members DEF Tick, StampInv, TypeInv, TypeOK, RowRecord
<1>2. \A c \in Click :
        /\ click'[c].pc = click[c].pc /\ click'[c].row = click[c].row
        /\ click[c].pc # "idle" => click'[c].delay = click[c].delay + 1
  BY Members DEF Tick, StampInv, TypeInv, TypeOK, ClickRecord
<1>3. UNCHANGED job
  BY DEF Tick
<1>4. /\ \A r \in Row : row[r].age \in Int
      /\ \A c \in Click : click[c].delay \in Int
  BY Members DEF StampInv, TypeInv, TypeOK, RowRecord, ClickRecord
<1>5. \A c \in Click : click'[c].pc # "idle" =>
        /\ row'[click'[c].row].started
        /\ row'[click'[c].row].age <= click'[c].delay
  BY <1>1, <1>2, <1>4 DEF StampInv, TypeInv, Working
<1>6. \A j \in Job : job'[j].pc # "idle" /\ job'[j].same =>
        /\ row'[job'[j].row].started
        /\ row'[job'[j].row].age > After
  BY <1>1, <1>3 DEF StampInv, TypeInv, Working
<1> QED
  BY <1>5, <1>6 DEF StampInv

\* The class comment of ReservationRefundReconciler: a click that is still
\* talking to Stripe is not cleared, if it talks for at most five minutes.
THEOREM ClicksAreNotCleared ==
    ASSUME MaxDelay <= After
    PROVE  Spec => []RunningClickIsNotCleared
<1>1. Init => StampInv
  <2>1. Init => /\ \A c \in Click : click[c].pc = "idle"
                /\ \A j \in Job : job[j].pc = "idle"
    BY DEF Init, IdleClick, IdleJob
  <2> QED BY <2>1, InitType DEF StampInv
<1>2. StampInv /\ [Next]_vars => StampInv'
  <2> SUFFICES ASSUME StampInv, [Next]_vars
               PROVE  StampInv'
    OBVIOUS
  <2>1. TypeInv'
    BY NextType DEF StampInv
  <2>2. CASE CancelSectionEvent \/ UNCHANGED vars
    <3>1. UNCHANGED <<row, click, job>>
      BY <2>2 DEF CancelSectionEvent, vars
    <3> QED BY <2>1, <3>1 DEF StampInv
  <2>3. CASE Next
    BY <2>1, <2>2, <2>3, StampStep, GuestStamps, ClickStamps, StartStamps,
       JobStamps, ClearStamps, TickStamps DEF Next, Booking
  <2> QED BY <2>2, <2>3
<1>3. StampInv => RunningClickIsNotCleared
  BY DEF StampInv, RunningClickIsNotCleared
<1> QED
  BY <1>1, <1>2, <1>3, PTL DEF Spec

-----------------------------------------------------------------------------
(* Places.                                                                 *)

\* A step leaves the rows that are not its own, and says canceled of a placed
\* competitor only with the refund.
LEMMA PlacedStep ==
    ASSUME TypeInv, PlacedIsValidOrRefunded, Next
    PROVE  PlacedIsValidOrRefunded'
<1>1. ASSUME NEW r \in Row, NEW x, row' = [row EXCEPT ![r] = x],
             x.placed /\ x.canceled => x.refunded
      PROVE  PlacedIsValidOrRefunded'
  BY <1>1 DEF PlacedIsValidOrRefunded, TypeInv, TypeOK
<1>2. CASE UNCHANGED row
  BY <1>2 DEF PlacedIsValidOrRefunded
<1>3. ASSUME NEW r \in Row, Booking(r)
      PROVE  PlacedIsValidOrRefunded'
  <2>1. \A q \in Row : /\ row'[q].placed = row[q].placed
                       /\ row'[q].canceled => row[q].canceled
                       /\ row'[q].refunded = row[q].refunded
    BY <1>3 DEF Booking, Book, Hold, HoldEnds, Confirm, TypeInv, TypeOK, RowRecord
  <2> QED BY <2>1 DEF PlacedIsValidOrRefunded
<1>10. ASSUME NEW r \in Row,
             \/ CancelReservation(r) \/ RestoreReservation(r)
             \/ Place(r) \/ RefundTicket(r)
      PROVE  PlacedIsValidOrRefunded'
  <2>1. row[r] \in RowRecord
    BY DEF TypeInv, TypeOK
  <2>2. PICK x : /\ row' = [row EXCEPT ![r] = x]
                 /\ \/ x = [row[r] EXCEPT !.canceled = TRUE] /\ ~row[r].placed
                    \/ x = [row[r] EXCEPT !.canceled = FALSE]
                    \/ /\ \E p \in BOOLEAN : x = [row[r] EXCEPT !.placed = p]
                       /\ ~row[r].canceled
                    \/ x = [row[r] EXCEPT !.usage = TRUE, !.refunded = TRUE,
                                          !.canceled = TRUE]
    BY <1>10 DEF CancelReservation, RestoreReservation, Place, RefundTicket, Valid
  <2>3. x.placed /\ x.canceled => x.refunded
    BY <2>1, <2>2 DEF RowRecord, PlacedIsValidOrRefunded
  <2> QED BY <1>1, <2>2, <2>3
<1>4. ASSUME NEW c \in Click, NEW r \in Row, StartRefund(c, r)
      PROVE  PlacedIsValidOrRefunded'
  <2>1. row[r] \in RowRecord
    BY DEF TypeInv, TypeOK
  <2> DEFINE x == [row[r] EXCEPT !.started = TRUE, !.age = 0]
  <2>2. row' = [row EXCEPT ![r] = x]
    BY <1>4 DEF StartRefund
  <2>3. x.placed /\ x.canceled => x.refunded
    BY <2>1 DEF RowRecord, PlacedIsValidOrRefunded
  <2> QED BY <1>1, <2>2, <2>3
<1>5. ASSUME NEW r \in Row, row' = [row EXCEPT ![r] = Marked(row[r])]
      PROVE  PlacedIsValidOrRefunded'
  <2>1. Marked(row[r]).refunded
    BY DEF Marked, TypeInv, TypeOK, RowRecord
  <2> QED BY <1>1, <1>5, <2>1
<1>6. ASSUME NEW c \in Click, MarkRefunded(c)
      PROVE  PlacedIsValidOrRefunded'
  BY <1>5, <1>6 DEF MarkRefunded, TypeInv, Working
<1>7. ASSUME NEW j \in Job,
             \/ \E r \in Row : StartReconcile(j, r)
             \/ FinishRefund(j) \/ ClearRefund(j)
      PROVE  PlacedIsValidOrRefunded'
  <2>1. ASSUME NEW r \in Row, StartReconcile(j, r)
        PROVE  PlacedIsValidOrRefunded'
    <3> DEFINE x == [row[r] EXCEPT !.canceled = TRUE]
    <3>1. CASE row[r].refunded
      <4>1. row' = [row EXCEPT ![r] = x]
        BY <2>1, <3>1 DEF StartReconcile
      <4>2. x.refunded
        BY <3>1 DEF TypeInv, TypeOK, RowRecord
      <4> QED BY <1>1, <4>1, <4>2
    <3>2. CASE ~row[r].refunded
      BY <1>2, <2>1, <3>2 DEF StartReconcile
    <3> QED BY <3>1, <3>2
  <2>2. CASE FinishRefund(j)
    BY <1>2, <1>5, <2>2 DEF FinishRefund, TypeInv, Working
  <2>3. CASE ClearRefund(j)
    <3> DEFINE r == job[j].row
               x == [row[r] EXCEPT !.started = FALSE, !.age = 0]
    <3>1. r \in Row /\ row[r] \in RowRecord
      BY <2>3 DEF ClearRefund, TypeInv, TypeOK, Working
    <3>2. row' = row \/ row' = [row EXCEPT ![r] = x]
      BY <2>3 DEF ClearRefund
    <3>3. x.placed /\ x.canceled => x.refunded
      BY <3>1 DEF RowRecord, PlacedIsValidOrRefunded
    <3> QED BY <1>1, <1>2, <3>1, <3>2, <3>3
  <2> QED BY <1>7, <2>1, <2>2, <2>3
<1>8. CASE Tick
  <2>1. \A r \in Row : /\ row'[r].placed = row[r].placed
                       /\ row'[r].canceled = row[r].canceled
                       /\ row'[r].refunded = row[r].refunded
    BY <1>8 DEF Tick, TypeInv, TypeOK, RowRecord
  <2> QED BY <2>1 DEF PlacedIsValidOrRefunded
<1>9. CASE \/ \E r \in Row : CheckRestore(r) \/ ForgetKey(r)
           \/ CancelSectionEvent
           \/ \E c \in Click : FindRefund(c) \/ CreateRefund(c) \/ EndClick(c)
           \/ \E j \in Job : ListRefunds(j) \/ EndReconcile(j)
  BY <1>2, <1>9 DEF CheckRestore, ForgetKey, CancelSectionEvent, FindRefund,
     CreateRefund, EndClick, ListRefunds, EndReconcile
<1> QED
  BY <1>3, <1>4, <1>6, <1>7, <1>8, <1>9, <1>10 DEF Next, Booking

\* The cancel page and the refunds keep their hands off a placed competitor:
\* who stands in a bracket, a division or a team is valid, or was refunded in
\* a race with the placement.
THEOREM PlacedIsSound == Spec => []PlacedIsValidOrRefunded
<1>1. Init => TypeInv /\ PlacedIsValidOrRefunded
  BY InitType DEF Init, PlacedIsValidOrRefunded
<1>2. TypeInv /\ PlacedIsValidOrRefunded /\ [Next]_vars =>
        (TypeInv /\ PlacedIsValidOrRefunded)'
  <2> SUFFICES ASSUME TypeInv, PlacedIsValidOrRefunded, [Next]_vars
               PROVE  PlacedIsValidOrRefunded'
    BY NextType
  <2>1. CASE UNCHANGED vars
    BY <2>1 DEF vars, PlacedIsValidOrRefunded
  <2> QED BY <2>1, PlacedStep
<1> QED
  BY <1>1, <1>2, PTL DEF Spec

\* A row that joins counted rows takes its slot no further than the count.
LEMMA OneMore ==
    ASSUME NEW counted \in SUBSET Row, NEW after \in SUBSET Row, NEW q \in Row,
           Cardinality(counted) + 1 <= Limit, after \subseteq counted \cup {q}
    PROVE  ~(Cardinality(after) > Limit)
<1>1. IsFiniteSet(counted) /\ Cardinality(counted) \in Nat
  BY FS_Subset, FS_CardinalityType, RefundAssumption
<1>2. /\ IsFiniteSet(counted \cup {q})
      /\ Cardinality(counted \cup {q}) <= Cardinality(counted) + 1
      /\ Cardinality(counted \cup {q}) \in Nat
  <2>1. Cardinality(counted \cup {q}) =
          IF q \in counted THEN Cardinality(counted) ELSE Cardinality(counted) + 1
    BY <1>1, FS_AddElement
  <2> QED BY <1>1, <2>1, FS_AddElement, FS_CardinalityType
<1>3. /\ Cardinality(after) <= Cardinality(counted \cup {q})
      /\ Cardinality(after) \in Nat
  BY <1>2, FS_Subset, FS_CardinalityType
<1> QED
  BY <1>1, <1>2, <1>3, RefundAssumption

\* A restore between its two steps has found room beside what it counted.
CountInv ==
    \A r \in held : restore[r] \subseteq Row /\ Cardinality(restore[r]) + 1 <= Limit

LEMMA CountStep ==
    ASSUME TypeInv, CountInv, [Next]_vars
    PROVE  CountInv'
<1>1. CASE UNCHANGED restore
  BY <1>1 DEF CountInv, held
<1>2. ASSUME NEW r \in Row, CheckRestore(r)
      PROVE  CountInv'
  <2>1. Others(r) \subseteq Row /\ Cardinality(Others(r)) + 1 <= Limit
    BY <1>2, RefundAssumption DEF CheckRestore, HasSpots, Others, SameSlot
  <2>2. \A q \in held' : restore'[q] = IF q = r THEN Others(r) ELSE restore[q]
    BY <1>2 DEF CheckRestore, held
  <2>3. held' = held \cup {r}
    BY <1>2 DEF CheckRestore, held
  <2> QED BY <2>1, <2>2, <2>3 DEF CountInv
<1>3. ASSUME NEW r \in Row, RestoreReservation(r)
      PROVE  CountInv'
  <2>1. /\ held' \subseteq held
        /\ \A q \in held' : restore'[q] = restore[q]
    BY <1>3 DEF RestoreReservation, held
  <2> QED BY <2>1 DEF CountInv
<1> QED
  BY <1>1, <1>2, <1>3
  DEF Next, vars, Book, Hold, HoldEnds, Confirm, CancelReservation, Place,
      CancelSectionEvent, RefundTicket, StartRefund, FindRefund, CreateRefund,
      MarkRefunded, EndClick, StartReconcile, ListRefunds, FinishRefund,
      ClearRefund, EndReconcile, ForgetKey, Tick

\* Steps that take a place, counted or not.
Opening(r) == Book(r) \/ Hold(r) \/ Confirm(r) \/ RestoreReservation(r)

\* They do it for one row.
LEMMA OneOpens ==
    ASSUME TypeInv, NEW r \in Row, Opening(r)
    PROVE  \A q \in Row \ {r} : row'[q] = row[q]
BY DEF Opening, Book, Hold, Confirm, RestoreReservation, TypeInv, TypeOK

\* The other steps take no place.
LEMMA NothingOpens ==
    ASSUME TypeInv, [Next]_vars,
           ~ \E r \in Row : Opening(r)
    PROVE  \A r \in Row : Open(row'[r]) => Open(row[r])
<1>1. ASSUME NEW r \in Row, NEW x, row' = [row EXCEPT ![r] = x],
             Open(x) => Open(row[r])
      PROVE  \A q \in Row : Open(row'[q]) => Open(row[q])
  BY <1>1 DEF TypeInv, TypeOK
<1>2. \A r \in Row :
        /\ Open([row[r] EXCEPT !.canceled = TRUE]) => Open(row[r])
        /\ row[r].page = "held" =>
              \A page \in {"none", "lapsed"} :
                 Open([row[r] EXCEPT !.page = page]) => Open(row[r])
        /\ \A p \in BOOLEAN :
              Open([row[r] EXCEPT !.placed = p]) => Open(row[r])
        /\ Open([row[r] EXCEPT !.usage = TRUE, !.refunded = TRUE,
                               !.canceled = TRUE]) => Open(row[r])
        /\ Open([row[r] EXCEPT !.started = TRUE, !.age = 0]) => Open(row[r])
        /\ Open([row[r] EXCEPT !.started = FALSE, !.age = 0]) => Open(row[r])
        /\ Open(Marked(row[r])) => Open(row[r])
  <2> TAKE r \in Row
  <2>1. row[r] \in RowRecord
    BY DEF TypeInv, TypeOK
  <2> QED BY <2>1 DEF Open, Marked, RowRecord
<1>3. CASE UNCHANGED row
  BY <1>3
<1>4. ASSUME NEW r \in Row,
             HoldEnds(r) \/ CancelReservation(r) \/ Place(r) \/ RefundTicket(r)
      PROVE  \A q \in Row : Open(row'[q]) => Open(row[q])
  <2>1. CASE CancelReservation(r)
    BY <1>1, <1>2, <2>1 DEF CancelReservation
  <2>2. CASE Place(r)
    BY <1>1, <1>2, <2>2 DEF Place
  <2>3. CASE RefundTicket(r)
    <3> DEFINE x == [row[r] EXCEPT !.usage = TRUE, !.refunded = TRUE,
                                   !.canceled = TRUE]
    <3>1. row' = [row EXCEPT ![r] = x] /\ (Open(x) => Open(row[r]))
      BY <1>2, <2>3 DEF RefundTicket
    <3> QED BY <1>1, <3>1
  <2>4. CASE HoldEnds(r)
    BY <1>1, <1>2, <2>4 DEF HoldEnds
  <2> QED BY <1>4, <2>1, <2>2, <2>3, <2>4
<1>5. ASSUME NEW c \in Click,
             MarkRefunded(c) \/ \E r \in Row : StartRefund(c, r)
      PROVE  \A q \in Row : Open(row'[q]) => Open(row[q])
  <2>1. CASE MarkRefunded(c)
    BY <1>1, <1>2, <2>1 DEF MarkRefunded, TypeInv, Working
  <2>2. ASSUME NEW r \in Row, StartRefund(c, r)
        PROVE  \A q \in Row : Open(row'[q]) => Open(row[q])
    <3> DEFINE x == [row[r] EXCEPT !.started = TRUE, !.age = 0]
    <3>1. row' = [row EXCEPT ![r] = x] /\ (Open(x) => Open(row[r]))
      BY <1>2, <2>2 DEF StartRefund
    <3> QED BY <1>1, <3>1
  <2> QED BY <1>5, <2>1, <2>2
<1>6. ASSUME NEW j \in Job,
             \/ \E r \in Row : StartReconcile(j, r)
             \/ FinishRefund(j) \/ ClearRefund(j)
      PROVE  \A q \in Row : Open(row'[q]) => Open(row[q])
  <2>1. ASSUME NEW r \in Row, StartReconcile(j, r)
        PROVE  \A q \in Row : Open(row'[q]) => Open(row[q])
    BY <1>1, <1>2, <1>3, <2>1 DEF StartReconcile
  <2>2. CASE FinishRefund(j)
    BY <1>1, <1>2, <1>3, <2>2 DEF FinishRefund, TypeInv, Working
  <2>3. CASE ClearRefund(j)
    <3> DEFINE r == job[j].row
               x == [row[r] EXCEPT !.started = FALSE, !.age = 0]
    <3>1. r \in Row
      BY <2>3 DEF ClearRefund, TypeInv, Working
    <3>2. row' = row \/ row' = [row EXCEPT ![r] = x]
      BY <2>3 DEF ClearRefund
    <3>3. Open(x) => Open(row[r])
      BY <1>2, <3>1
    <3> QED BY <1>1, <1>3, <3>1, <3>2, <3>3
  <2> QED BY <1>6, <2>1, <2>2, <2>3
<1>7. CASE Tick
  BY <1>7 DEF Tick, Open, TypeInv, TypeOK, RowRecord
<1>8. CASE \/ \E r \in Row : CheckRestore(r) \/ ForgetKey(r)
           \/ CancelSectionEvent \/ UNCHANGED vars
           \/ \E c \in Click : FindRefund(c) \/ CreateRefund(c) \/ EndClick(c)
           \/ \E j \in Job : ListRefunds(j) \/ EndReconcile(j)
  BY <1>3, <1>8 DEF CheckRestore, ForgetKey, CancelSectionEvent, FindRefund,
     CreateRefund, EndClick, ListRefunds, EndReconcile, vars
<1> QED
  BY <1>4, <1>5, <1>6, <1>7, <1>8 DEF Next, Opening

\* Who books or holds a place, and who restores one that nobody took since the
\* count, has counted every other place of the slot.
LEMMA CountedFits ==
    ASSUME TypeInv, CountInv, NEW r \in Row, NEW q \in SameSlot(r), Opening(q),
           ~(Confirm(q) /\ ~Open(row[q])),
           ~(RestoreReservation(q) /\
               ~({p \in SameSlot(r) : Open(row[p])} \subseteq restore[q]))
    PROVE  LET before == {p \in SameSlot(r) : Open(row[p])}
               after == {p \in SameSlot(r) : Open(row'[p])}
           IN  after \subseteq before \/ ~(Cardinality(after) > Limit)
<1> DEFINE before == {p \in SameSlot(r) : Open(row[p])}
           after == {p \in SameSlot(r) : Open(row'[p])}
<1>1. /\ q \in Row /\ SameSlot(q) = SameSlot(r)
      /\ before \subseteq Row /\ after \subseteq Row /\ Others(q) \subseteq Row
  BY RefundAssumption DEF SameSlot, Others
<1>2. \A p \in Row \ {q} : row'[p] = row[p]
  BY <1>1, OneOpens
<1>3. after \subseteq before \cup {q} /\ after \subseteq Others(q) \cup {q}
  BY <1>1, <1>2 DEF Others
<1>4. CASE Book(q) \/ Hold(q)
  <2>1. Cardinality(Others(q)) + 1 <= Limit
    BY <1>4 DEF Book, Hold, HasSpots
  <2> QED BY <1>1, <1>3, <2>1, OneMore
<1>5. CASE Confirm(q)
  BY <1>1, <1>3, <1>5
<1>6. CASE RestoreReservation(q)
  <2> DEFINE seen == restore[q]
  <2>1. seen \subseteq Row /\ Cardinality(seen) + 1 <= Limit
    BY <1>6 DEF RestoreReservation, CountInv
  <2>2. after \subseteq seen \cup {q}
    BY <1>3, <1>6
  <2>3. ~(Cardinality(after) > Limit)
    <3> HIDE DEF after, before, seen
    <3> QED BY <1>1, <2>1, <2>2, OneMore
  <2> QED BY <2>3
<1> QED
  BY <1>4, <1>5, <1>6 DEF Opening

\* What the room checks are worth: no step takes a lesson or an event past its
\* limit but a payment of a row that holds no place any more, and a restore
\* that has missed a newcomer.
THEOREM UncountedRowsAloneOverfill == Spec => OverfullOnlyByUncountedRow
<1>1. Init => TypeInv /\ CountInv
  BY InitType DEF Init, CountInv, held
<1>2. TypeInv /\ CountInv /\ [Next]_vars => (TypeInv /\ CountInv)'
  BY NextType, CountStep
<1>3. TypeInv /\ CountInv /\ [Next]_vars =>
        [\A r \in Row :
           LET before == {q \in SameSlot(r) : Open(row[q])}
               after == {q \in SameSlot(r) : Open(row'[q])}
           IN  ~(after \subseteq before) /\ Cardinality(after) > Limit =>
                 \E q \in SameSlot(r) :
                    \/ Confirm(q) /\ ~Open(row[q])
                    \/ RestoreReservation(q) /\ ~(before \subseteq restore[q])]_vars
  <2> SUFFICES ASSUME TypeInv, CountInv, [Next]_vars, NEW r \in Row,
                      \A q \in SameSlot(r) :
                         /\ ~(Confirm(q) /\ ~Open(row[q]))
                         /\ ~(RestoreReservation(q) /\
                                ~({p \in SameSlot(r) : Open(row[p])}
                                    \subseteq restore[q]))
               PROVE  LET before == {q \in SameSlot(r) : Open(row[q])}
                          after == {q \in SameSlot(r) : Open(row'[q])}
                      IN  after \subseteq before \/ ~(Cardinality(after) > Limit)
    OBVIOUS
  <2>1. SameSlot(r) \subseteq Row
    BY RefundAssumption DEF SameSlot
  <2>2. CASE ~ \E q \in Row : Opening(q)
    BY <2>1, <2>2, NothingOpens
  <2>3. ASSUME NEW q \in Row, Opening(q), q \notin SameSlot(r)
        PROVE  {p \in SameSlot(r) : Open(row'[p])}
                 \subseteq {p \in SameSlot(r) : Open(row[p])}
    BY <2>1, <2>3, OneOpens
  <2>4. ASSUME NEW q \in SameSlot(r), Opening(q)
        PROVE  LET before == {p \in SameSlot(r) : Open(row[p])}
                   after == {p \in SameSlot(r) : Open(row'[p])}
               IN  after \subseteq before \/ ~(Cardinality(after) > Limit)
    BY <2>4, CountedFits
  <2> QED BY <2>1, <2>2, <2>3, <2>4
<1> QED
  BY <1>1, <1>2, <1>3, PTL DEF Spec, OverfullOnlyByUncountedRow
=============================================================================
