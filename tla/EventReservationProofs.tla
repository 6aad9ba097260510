----------------------- MODULE EventReservationProofs -----------------------
(***************************************************************************)
(* Proofs about EventReservation, for any number of reservations, requests,*)
(* charges and Checkout Sessions, any limit and any set of free events.    *)
(***************************************************************************)
EXTENDS EventReservation, FiniteSetTheorems, TLAPS

SessionIsFor(s, r) ==
    s \in Session /\ ses[s].status # "none" /\ ses[s].row = r

IntentIsFor(i, r) ==
    i \in Intent /\ int[i].status # "none" /\ int[i].row = r

\* What a row knows of Stripe is about that row, what is paid was paid for and
\* is on no list of deleted rows, only a member's row leaves the table, and the
\* free place of a member is never left unpaid.
RowSound(r) ==
    /\ row[r].session # None => SessionIsFor(row[r].session, r)
    /\ row[r].intent # None => IntentIsFor(row[r].intent, r)
    /\ row[r].status = "paid" => ~row[r].deleted
    /\ row[r].status = "paid" => r \in Free \/ Captured(r)
    /\ row[r].status = "none" => ~row[r].canceled
    /\ row[r].status = "gone" => r \in Member
    /\ row[r].status = "unpaid" => r \notin Member \cap Free

\* What a running request may be, for a request y: a link works on the row of
\* a visitor, which exists, and the snapshot it may write back is of that row
\* before it was paid.  What it is about to save was made for its row.
ReqFits(y) ==
    /\ y.pc # "idle" /\ y.new => y.row \in Member
    /\ y.pc \in {"look", "again", "open", "save", "restore"} =>
          y.row \notin Member /\ Exists(row[y.row])
    /\ y.pc \in {"open", "save", "restore"} =>
          /\ y.prev.status \in {"not_started", "unpaid"}
          /\ y.prev.session # None => SessionIsFor(y.prev.session, y.row)
    /\ y.pc \in {"look", "save", "store"} => SessionIsFor(y.session, y.row)
    /\ y.pc = "land" =>
          IntentIsFor(y.intent, y.row) /\ int[y.intent].status = "succeeded"

\* A webhook that waits is about a session that was paid.
HooksArePaid == \A s \in Session : ses[s].hook = "pending" => ses[s].status = "paid"

\* The inductive invariant.
EventInv ==
    /\ TypeOK
    /\ \A r \in Row : RowSound(r)
    /\ \A q \in Req : ReqFits(req[q])
    /\ HooksArePaid
-----------------------------------------------------------------------------
(* What the steps may do to a row.                                         *)

\* x may replace the row of r: it fits the invariant and, where it takes a
\* place, comes back to a canceled event, undoes a cancellation or loses a
\* payment, it does so for a reason the properties name.
TakesPlaceByRight(x, r) ==
    HoldsSpot(x) =>
        \/ HoldsSpot(row[r]) \/ EventHasSpots(r)
        \/ x.status = "paid" /\ Captured(r)
        \/ CleanUpRestores(r) \/ RestoreRow(r)

OpensByRight(x, r) ==
    Open(x) =>
        \/ Open(row[r]) \/ ~canceled
        \/ x.status = "paid" /\ Captured(r)
        \/ RestoreRow(r)

ComesBackByRight(x, r) ==
    row[r].canceled /\ Exists(x) /\ ~x.canceled =>
        \/ row[r].status # "paid" /\ x.status = "paid" /\ Captured(r)
        \/ \E s \in Session : ses[s].row = r /\ Webhook(s)
        \/ RestoreRow(r)
        \/ \E q \in Req : Reserve(q, r)

LosesPaymentByRight(x, r) ==
    row[r].status = "paid" /\ x.status # "paid" =>
        CleanUpRestores(r) \/ CleanUpDeletes(r)

RowFits(x, r) ==
    /\ x \in RowRecord
    /\ x.session # None => SessionIsFor(x.session, r)
    /\ x.intent # None => IntentIsFor(x.intent, r)
    /\ x.status = "paid" => ~x.deleted /\ (r \in Free \/ Captured(r))
    /\ x.status = "none" => ~x.canceled /\ row[r].status = "none"
    /\ x.status = "gone" => r \in Member
    /\ x.status = "unpaid" => r \notin Member \cap Free

Lawful(x, r) ==
    /\ RowFits(x, r)
    /\ TakesPlaceByRight(x, r) /\ OpensByRight(x, r)
    /\ ComesBackByRight(x, r) /\ LosesPaymentByRight(x, r)

\* What every step but the owner's cancellation of the event does.
Permitted ==
    /\ EventInv'
    /\ canceled' = canceled
    /\ \/ row' = row
       \/ \E r \in Row : \E x \in RowRecord :
              row' = [row EXCEPT ![r] = x] /\ Lawful(x, r)

\* Stripe forgets neither what a payment is for nor that it was made.
StripeKept ==
    /\ int' \in [Intent -> IntentRecord]
    /\ ses' \in [Session -> SessionRecord]
    /\ \A i \in Intent :
          /\ int[i].status # "none" =>
                int'[i].status # "none" /\ int'[i].row = int[i].row
          /\ int[i].status = "succeeded" => int'[i].status = "succeeded"
    /\ \A s \in Session :
          /\ ses[s].status # "none" =>
                ses'[s].status # "none" /\ ses'[s].row = ses[s].row
          /\ ses[s].status = "paid" => ses'[s].status = "paid"
    /\ HooksArePaid'

\* The request goes on as it was, is over, or is one that fits.
ReqGoesOn(q) ==
    \/ req'[q].pc = "idle"
    \/ /\ req'[q].pc = req[q].pc /\ req'[q].row = req[q].row
       /\ req'[q].prev = req[q].prev /\ req'[q].session = req[q].session
       /\ req'[q].intent = req[q].intent /\ req'[q].new = req[q].new
    \/ ReqFits(req'[q])
    \/ ReqFits(req[q])'

ReqsGoOn ==
    req' \in [Req -> ReqRecord] /\ \A q \in Req : ReqGoesOn(q)

LEMMA Typed ==
    ASSUME EventInv
    PROVE  /\ \A r \in Row : row[r] \in RowRecord /\ RowSound(r)
           /\ \A q \in Req : /\ req[q] \in ReqRecord /\ ReqFits(req[q])
                             /\ req[q].row \in Row
           /\ \A i \in Intent : int[i] \in IntentRecord
           /\ \A s \in Session : ses[s] \in SessionRecord
  BY DEF EventInv, TypeOK, ReqRecord

LEMMA Members ==
    /\ None \in 0..MaxSession /\ None \in 0..MaxIntent
    /\ Session \subseteq 0..MaxSession /\ Intent \subseteq 0..MaxIntent
    /\ \A s \in 0..MaxSession : s # None => s \in Session
    /\ \A i \in 0..MaxIntent : i # None => i \in Intent
    /\ AnyRow \in Row
  BY EventAssumption DEF Session, Intent, None, AnyRow

LEMMA KeptPayments ==
    ASSUME StripeKept
    PROVE  /\ \A s, r : SessionIsFor(s, r) => SessionIsFor(s, r)'
           /\ \A i, r : IntentIsFor(i, r) => IntentIsFor(i, r)'
           /\ \A r : Captured(r) => Captured(r)'
  BY DEF StripeKept, SessionIsFor, IntentIsFor, Captured, SucceededIntents

\* No visitor's row leaves the table.
VisitorsStay ==
    \A r \in Row \ Member : Exists(row[r]) => Exists(row'[r])

LEMMA KeptReqs ==
    ASSUME EventInv, StripeKept, VisitorsStay, ReqsGoOn
    PROVE  \A q \in Req : ReqFits(req[q])'
<1> SUFFICES ASSUME NEW q \in Req
             PROVE  ReqFits(req[q])'
  OBVIOUS
<1>1. req'[q] \in ReqRecord /\ req'[q].row \in Row
  BY DEF ReqsGoOn, ReqRecord
<1>2. ASSUME ReqFits(req'[q])
      PROVE  ReqFits(req[q])'
  <2>1. req'[q].row \notin Member /\ Exists(row[req'[q].row]) =>
           Exists(row'[req'[q].row])
    BY <1>1 DEF VisitorsStay
  <2>2. \A i \in Intent : int[i].status = "succeeded" => int'[i].status = "succeeded"
    BY DEF StripeKept
  <2> QED
    BY <1>2, <2>1, <2>2, KeptPayments DEF ReqFits, IntentIsFor
<1>3. CASE req'[q].pc = "idle"
  BY <1>3 DEF ReqFits
<1>4. CASE /\ req'[q].pc = req[q].pc /\ req'[q].row = req[q].row
           /\ req'[q].prev = req[q].prev /\ req'[q].session = req[q].session
           /\ req'[q].intent = req[q].intent /\ req'[q].new = req[q].new
  <2>1. ReqFits(req'[q])
    BY <1>4, Typed DEF ReqFits
  <2> QED BY <1>2, <2>1
<1> QED
  BY <1>2, <1>3, <1>4 DEF ReqsGoOn, ReqGoesOn

\* A step that writes no row.
LEMMA RowlessStep ==
    ASSUME EventInv, UNCHANGED <<canceled, row>>, back' \subseteq Row,
           StripeKept, ReqsGoOn
    PROVE  Permitted
<1>1. TypeOK'
  BY DEF EventInv, TypeOK, StripeKept, ReqsGoOn
<1>2. \A q \in Req : ReqFits(req[q])'
  <2>1. VisitorsStay  BY DEF VisitorsStay
  <2> QED BY <2>1, KeptReqs
<1>3. \A r \in Row : RowSound(r)'
  <2> SUFFICES ASSUME NEW r \in Row
               PROVE  RowSound(r)'
    OBVIOUS
  <2>1. RowSound(r) /\ row'[r] = row[r]
    BY Typed
  <2> QED BY <2>1, KeptPayments DEF RowSound
<1> QED
  BY <1>1, <1>2, <1>3 DEF Permitted, EventInv, StripeKept

\* A step that replaces the row of r.
LEMMA RowStep ==
    ASSUME EventInv, NEW r \in Row, NEW x \in RowRecord, Lawful(x, r),
           row' = [row EXCEPT ![r] = x], UNCHANGED canceled,
           back' \subseteq Row, StripeKept, ReqsGoOn
    PROVE  Permitted
<1>1. TypeOK'
  BY DEF EventInv, TypeOK, StripeKept, ReqsGoOn
<1>2. \A r2 \in Row : row'[r2] = IF r2 = r THEN x ELSE row[r2]
  BY DEF EventInv, TypeOK
<1>3. VisitorsStay
  BY <1>2 DEF VisitorsStay, Lawful, RowFits, Exists
<1>4. \A q \in Req : ReqFits(req[q])'
  BY <1>3, KeptReqs
<1>5. \A r2 \in Row : RowSound(r2)'
  <2> SUFFICES ASSUME NEW r2 \in Row
               PROVE  RowSound(r2)'
    OBVIOUS
  <2>1. CASE r2 = r
    <3>1. RowFits(x, r) /\ row'[r] = x
      BY <1>2 DEF Lawful
    <3> QED BY <2>1, <3>1, KeptPayments DEF RowFits, RowSound
  <2>2. CASE r2 # r
    <3>1. RowSound(r2) /\ row'[r2] = row[r2]
      BY <1>2, <2>2, Typed
    <3> QED BY <3>1, KeptPayments DEF RowSound
  <2> QED BY <2>1, <2>2
<1> QED
  BY <1>1, <1>4, <1>5 DEF Permitted, EventInv, StripeKept

-----------------------------------------------------------------------------
(* What the steps write at Stripe and in the requests.                     *)

LEMMA StripeSame ==
    ASSUME EventInv, UNCHANGED <<int, ses>>
    PROVE  StripeKept
  BY DEF EventInv, TypeOK, StripeKept, HooksArePaid

LEMMA SessionStep ==
    ASSUME EventInv, UNCHANGED int, NEW s \in Session, NEW z \in SessionRecord,
           ses' = [ses EXCEPT ![s] = z],
           ses[s].status # "none" => z.status # "none" /\ z.row = ses[s].row,
           ses[s].status = "paid" => z.status = "paid",
           z.hook = "pending" => z.status = "paid"
    PROVE  StripeKept
  BY DEF EventInv, TypeOK, StripeKept, HooksArePaid

LEMMA IntentStep ==
    ASSUME EventInv, UNCHANGED ses, NEW i \in Intent, NEW z \in IntentRecord,
           int' = [int EXCEPT ![i] = z],
           int[i].status # "none" => z.status # "none" /\ z.row = int[i].row,
           int[i].status = "succeeded" => z.status = "succeeded"
    PROVE  StripeKept
  BY DEF EventInv, TypeOK, StripeKept, HooksArePaid

\* A page is shown, or stays as it is.
LEMMA ShowStep ==
    ASSUME EventInv, UNCHANGED int, NEW s \in Session,
           ses' = [ses EXCEPT ![s].status = "shown"],
           ses[s].status \in {"open", "shown"}
    PROVE  StripeKept
<1> DEFINE z == [ses[s] EXCEPT !.status = "shown"]
<1>1. ses[s] \in SessionRecord /\ ses[s].hook # "pending"
  BY Typed DEF EventInv, HooksArePaid
<1>2. z \in SessionRecord /\ z.status = "shown" /\ z.row = ses[s].row
      /\ z.hook = ses[s].hook
  BY <1>1 DEF SessionRecord
<1>3. ses' = [ses EXCEPT ![s] = z]
  OBVIOUS
<1> HIDE DEF z
<1> QED BY <1>1, <1>2, <1>3, SessionStep

LEMMA ReqsSame ==
    ASSUME EventInv, UNCHANGED req
    PROVE  ReqsGoOn
  BY DEF EventInv, TypeOK, ReqsGoOn, ReqGoesOn

\* One request changes.
LEMMA ReqStep ==
    ASSUME EventInv, NEW q \in Req, NEW y \in ReqRecord,
           req' = [req EXCEPT ![q] = y],
           y.pc = "idle" \/ ReqFits(y) \/ ReqFits(req[q])'
    PROVE  ReqsGoOn
<1>1. req' \in [Req -> ReqRecord]
  BY DEF EventInv, TypeOK
<1>2. \A q2 \in Req : req'[q2] = IF q2 = q THEN y ELSE req[q2]
  BY DEF EventInv, TypeOK
<1>3. ASSUME NEW q2 \in Req
      PROVE  ReqGoesOn(q2)
  <2>1. CASE q2 = q
    BY <1>2, <2>1 DEF ReqGoesOn
  <2>2. CASE q2 # q
    BY <1>2, <2>2 DEF ReqGoesOn
  <2> QED BY <2>1, <2>2
<1> QED
  BY <1>1, <1>3 DEF ReqsGoOn

LEMMA IdleType ==
    /\ Idle \in ReqRecord /\ Idle.pc = "idle" /\ Idle.new = FALSE
    /\ Idle.session = None
  BY Members DEF Idle, ReqRecord, ReqPC, Snapshot, RowStatus

\* One request is over.
LEMMA ReqEnds ==
    ASSUME EventInv, NEW q \in Req, req' = [req EXCEPT ![q] = Idle]
    PROVE  ReqsGoOn
  BY IdleType, ReqStep

LEMMA ReqWrites ==
    ASSUME NEW y \in ReqRecord
    PROVE  /\ \A pc \in ReqPC : [y EXCEPT !.pc = pc] \in ReqRecord
           /\ \A pc \in ReqPC, s \in 0..MaxSession :
                [y EXCEPT !.pc = pc, !.session = s] \in ReqRecord
           /\ \A pc \in ReqPC, r \in Row, s \in 0..MaxSession :
                [y EXCEPT !.pc = pc, !.row = r, !.session = s] \in ReqRecord
           /\ \A pc \in ReqPC, i \in Intent, t \in BOOLEAN :
                [y EXCEPT !.pc = pc, !.intent = i, !.tried = t] \in ReqRecord
           /\ \A pc \in ReqPC, r \in Row, prev \in Snapshot :
                [y EXCEPT !.pc = pc, !.row = r, !.prev = prev] \in ReqRecord
           /\ \A pc \in ReqPC, r \in Row, new \in BOOLEAN :
                [y EXCEPT !.pc = pc, !.row = r, !.new = new] \in ReqRecord
           /\ [y EXCEPT !.stale = TRUE] \in ReqRecord
  BY Members DEF ReqRecord

LEMMA RowWrites ==
    ASSUME NEW x \in RowRecord
    PROVE  /\ \A d \in BOOLEAN :
                /\ [x EXCEPT !.deleted = d] \in RowRecord
                /\ [x EXCEPT !.canceled = d] \in RowRecord
                /\ [x EXCEPT !.hold = d] \in RowRecord
           /\ \A s \in 0..MaxSession, i \in 0..MaxIntent :
                /\ [x EXCEPT !.session = s] \in RowRecord
                /\ [x EXCEPT !.intent = i] \in RowRecord
                /\ PaidBy(x, s, i) \in RowRecord
                /\ MarkedPaid(x, s, i) \in RowRecord
           /\ [x EXCEPT !.status = "paid", !.deleted = FALSE] \in RowRecord
           /\ \A st \in RowStatus, s \in 0..MaxSession, h \in BOOLEAN :
                /\ [x EXCEPT !.status = st, !.session = s, !.hold = h] \in RowRecord
                /\ [x EXCEPT !.status = st, !.hold = h, !.session = s] \in RowRecord
  BY Members DEF RowRecord, RowStatus, PaidBy, MarkedPaid

LEMMA NoRowType == NoRow \in RowRecord
  BY Members DEF NoRow, RowRecord, RowStatus

\* A row that is paid by a session or a charge made for it.
LEMMA PaidByLaw ==
    ASSUME EventInv, NEW r \in Row, Captured(r),
           NEW s \in 0..MaxSession, NEW i \in 0..MaxIntent,
           s # None => SessionIsFor(s, r), i # None => IntentIsFor(i, r),
           NEW x \in {PaidBy(row[r], s, i), MarkedPaid(row[r], s, i)},
           row[r].status # "paid" \/ x = PaidBy(row[r], s, i)
    PROVE  x \in RowRecord /\ Lawful(x, r)
           /\ x.status = "paid" /\ ~x.deleted
<1>1. row[r] \in RowRecord
  BY Typed
<1>2. x \in RowRecord
  <2>1. PaidBy(row[r], s, i) \in RowRecord /\ MarkedPaid(row[r], s, i) \in RowRecord
    BY <1>1, RowWrites
  <2> QED BY <2>1
<1>3. /\ x.status = "paid" /\ ~x.deleted
      /\ x.session = s /\ x.intent = i
  BY <1>1 DEF RowRecord, PaidBy, MarkedPaid
<1>4. row[r].status # "paid" \/ x.canceled = row[r].canceled
  BY <1>1 DEF RowRecord, PaidBy
<1> QED
  BY <1>2, <1>3, <1>4 DEF Lawful, RowFits, TakesPlaceByRight, OpensByRight,
                          ComesBackByRight, LosesPaymentByRight

LEMMA RowPayments ==
    ASSUME EventInv, NEW r \in Row
    PROVE  /\ row[r].session \in 0..MaxSession
           /\ row[r].session # None => SessionIsFor(row[r].session, r)
           /\ row[r].intent \in 0..MaxIntent
           /\ row[r].intent # None => IntentIsFor(row[r].intent, r)
           /\ SessionPaid(r) => Captured(r)
           /\ StripePaid(r) => Captured(r)
<1>1. row[r] \in RowRecord /\ RowSound(r)
  BY Typed
<1>2. SessionPaid(r) => Captured(r)
  BY <1>1 DEF SessionPaid, RowSound, SessionIsFor, Captured
<1> QED
  BY <1>1, <1>2 DEF RowRecord, RowSound, StripePaid, Captured

\* What record_stripe_payment writes.
LEMMA RecordedLaw ==
    ASSUME EventInv, NEW r \in Row, StripePaid(r), NEW x \in Recorded(r)
    PROVE  /\ x \in RowRecord /\ Lawful(x, r)
           /\ x.status = "paid" /\ ~x.deleted /\ x.canceled = row[r].canceled
           /\ x.session # None => SessionIsFor(x.session, r)
           /\ x.intent # None => IntentIsFor(x.intent, r)
           /\ Captured(r)
<1>1. row[r] \in RowRecord
  BY Typed
<1>2. PICK i \in 0..MaxIntent :
         x = PaidBy(row[r], row[r].session, i) /\ (i # None => IntentIsFor(i, r))
  <2>1. CASE SessionPaid(r)
    BY <2>1, RowPayments DEF Recorded
  <2>2. CASE ~SessionPaid(r)
    <3>1. PICK i \in SucceededIntents(r) : x = PaidBy(row[r], row[r].session, i)
      BY <2>2 DEF Recorded, Newest
    <3> QED BY <3>1, Members DEF SucceededIntents, IntentIsFor
  <2> QED BY <2>1, <2>2
<1>3. x.canceled = row[r].canceled /\ x.session = row[r].session /\ x.intent = i
  BY <1>1, <1>2 DEF PaidBy, RowRecord
<1> QED
  BY <1>2, <1>3, RowPayments, PaidByLaw

\* A row that keeps its status and takes no place is lawful.
LEMMA QuietLaw ==
    ASSUME EventInv, NEW r \in Row, NEW x \in RowRecord,
           x.status = row[r].status, x.status \notin {"none"},
           x.session # None => SessionIsFor(x.session, r),
           x.intent # None => IntentIsFor(x.intent, r),
           row[r].canceled => x.canceled, row[r].deleted => x.deleted,
           x.hold => row[r].hold, x.status = "paid" => ~x.deleted
    PROVE  Lawful(x, r)
<1>1. row[r] \in RowRecord /\ RowSound(r)
  BY Typed
<1>2. RowFits(x, r)
  BY <1>1 DEF RowFits, RowSound
<1>3. HoldsSpot(x) => HoldsSpot(row[r])
  BY DEF HoldsSpot
<1>4. Open(x) => Open(row[r])
  BY DEF Open, Exists
<1>5. row[r].canceled /\ Exists(x) /\ ~x.canceled => FALSE
  OBVIOUS
<1> QED
  BY <1>2, <1>3, <1>4, <1>5 DEF Lawful, TakesPlaceByRight, OpensByRight,
                                ComesBackByRight, LosesPaymentByRight

-----------------------------------------------------------------------------
(* The owner, the guest's links and the clock.                             *)

LEMMA CancelByHand ==
    ASSUME EventInv, NEW r \in Row, Dismiss(r) \/ GuestCancel(r)
    PROVE  Permitted
<1> DEFINE x == [row[r] EXCEPT !.canceled = TRUE]
<1>1. row[r] \in RowRecord /\ RowSound(r)
  BY Typed
<1>2. x \in RowRecord
  BY <1>1, RowWrites
<1>3. row' = [row EXCEPT ![r] = x] /\ UNCHANGED <<canceled, req, int, ses, back>>
  BY DEF Dismiss, GuestCancel
<1>4. row[r].status \in {"not_started", "unpaid", "paid"}
  BY DEF Dismiss, GuestCancel
<1>5. /\ x.status = row[r].status /\ x.session = row[r].session
      /\ x.intent = row[r].intent /\ x.hold = row[r].hold
      /\ x.deleted = row[r].deleted /\ x.canceled
  BY <1>1 DEF RowRecord
<1> HIDE DEF x
<1>6. Lawful(x, r)
  BY <1>1, <1>2, <1>4, <1>5, QuietLaw DEF RowSound
<1> QED
  BY <1>2, <1>3, <1>6, StripeSame, ReqsSame, RowStep DEF EventInv, TypeOK

LEMMA CountForRestoreStep ==
    ASSUME EventInv, NEW r \in Row, CountForRestore(r)
    PROVE  Permitted
  BY StripeSame, ReqsSame, RowlessStep DEF CountForRestore, EventInv, TypeOK

LEMMA RestoreRowStep ==
    ASSUME EventInv, NEW r \in Row, RestoreRow(r)
    PROVE  Permitted
<1> DEFINE x == [row[r] EXCEPT !.canceled = FALSE]
<1>1. row[r] \in RowRecord /\ RowSound(r)
  BY Typed
<1>2. x \in RowRecord
  BY <1>1, RowWrites
<1>3. /\ row' = [row EXCEPT ![r] = x]
      /\ UNCHANGED <<canceled, req, int, ses>> /\ back' = back \ {r}
  BY DEF RestoreRow
<1>4. /\ x.status = row[r].status /\ x.session = row[r].session
      /\ x.intent = row[r].intent
      /\ x.deleted = row[r].deleted /\ ~x.canceled
  BY <1>1 DEF RowRecord
<1> HIDE DEF x
<1>5. RowFits(x, r)
  BY <1>1, <1>2, <1>4 DEF RowFits, RowSound
<1>6. Lawful(x, r)
  BY <1>4, <1>5 DEF Lawful, TakesPlaceByRight, OpensByRight,
                    ComesBackByRight, LosesPaymentByRight
<1>7. back' \subseteq Row
  BY <1>3 DEF EventInv, TypeOK
<1> QED
  BY <1>2, <1>3, <1>6, <1>7, StripeSame, ReqsSame, RowStep

LEMMA HoldEndsStep ==
    ASSUME EventInv, NEW r \in Row, HoldEnds(r)
    PROVE  Permitted
<1> DEFINE x == [row[r] EXCEPT !.hold = FALSE]
<1>1. row[r] \in RowRecord /\ RowSound(r)
  BY Typed
<1>2. x \in RowRecord
  BY <1>1, RowWrites
<1>3. /\ row' = [row EXCEPT ![r] = x] /\ row[r].status = "unpaid"
      /\ UNCHANGED <<canceled, req, int, ses, back>>
  BY DEF HoldEnds
<1>4. /\ x.status = row[r].status /\ x.session = row[r].session
      /\ x.intent = row[r].intent /\ ~x.hold
      /\ x.deleted = row[r].deleted /\ x.canceled = row[r].canceled
  BY <1>1 DEF RowRecord
<1> HIDE DEF x
<1>5. Lawful(x, r)
  BY <1>1, <1>2, <1>3, <1>4, QuietLaw DEF RowSound
<1> QED
  BY <1>2, <1>3, <1>5, StripeSame, ReqsSame, RowStep DEF EventInv, TypeOK

-----------------------------------------------------------------------------
(* The requests of visitors.                                               *)

LEMMA SaveVisitorStep ==
    ASSUME EventInv, NEW r \in Row, SaveVisitorReservation(r)
    PROVE  Permitted
<1> DEFINE x == [NoRow EXCEPT !.status = "not_started",
                              !.canceled = row[r].canceled]
<1>1. row[r] \in RowRecord /\ RowSound(r)
  BY Typed
<1>2. x \in RowRecord
  <2>1. row[r].canceled \in BOOLEAN
    BY <1>1 DEF RowRecord
  <2> QED BY <2>1, Members DEF NoRow, RowRecord, RowStatus
<1>3. /\ row' = [row EXCEPT ![r] = x]
      /\ row[r].status \in {"none", "not_started", "unpaid"}
      /\ ~canceled /\ req' = LinkReplaced(r)
      /\ UNCHANGED <<canceled, int, ses, back>>
  BY DEF SaveVisitorReservation
<1>4. /\ x.status = "not_started" /\ x.canceled = row[r].canceled
      /\ x.session = None /\ x.intent = None /\ ~x.deleted
  BY DEF NoRow
<1> HIDE DEF x
<1>5. Lawful(x, r)
  BY <1>2, <1>3, <1>4
     DEF Lawful, RowFits, TakesPlaceByRight, OpensByRight, ComesBackByRight,
         LosesPaymentByRight, HoldsSpot
<1>6. ReqsGoOn
  <2>1. ASSUME NEW q \in Req
        PROVE  req'[q] \in ReqRecord /\ ReqGoesOn(q)
    <3>1. req[q] \in ReqRecord
      BY Typed
    <3>2. req'[q] = req[q] \/ req'[q] = [req[q] EXCEPT !.stale = TRUE]
      BY <1>3 DEF LinkReplaced
    <3>3. [req[q] EXCEPT !.stale = TRUE] \in ReqRecord
      BY <3>1, ReqWrites
    <3> QED BY <3>1, <3>2, <3>3 DEF ReqGoesOn, ReqRecord
  <2>2. req' = [q \in Req |-> req'[q]]
    BY <1>3 DEF LinkReplaced
  <2> QED BY <2>1, <2>2 DEF ReqsGoOn
<1> QED
  BY <1>2, <1>3, <1>5, <1>6, StripeSame, RowStep DEF EventInv, TypeOK

\* What _revive_deleted_event_reservation leaves for a link.
LEMMA RevivedRow ==
    ASSUME EventInv, NEW r \in Row, Exists(row[r]), NEW x \in Revived(r)
    PROVE  /\ x \in RowRecord /\ Exists(x) /\ ~x.deleted
           /\ x.canceled = row[r].canceled
           /\ x.session # None => SessionIsFor(x.session, r)
           /\ x.intent # None => IntentIsFor(x.intent, r)
           /\ x.status = "paid" => Lawful(x, r)
           /\ x.status # "paid" => x.status = row[r].status
<1>1. row[r] \in RowRecord /\ RowSound(r)
  BY Typed
<1>2. CASE ~row[r].deleted
  <2>1. x = row[r]
    BY <1>2 DEF Revived
  <2>2. x.status = "paid" => Lawful(x, r)
    BY <1>1, <2>1, QuietLaw DEF RowSound
  <2> QED BY <1>1, <1>2, <2>1, <2>2 DEF RowSound
<1>3. CASE row[r].deleted /\ row[r].status # "paid" /\ StripePaid(r)
  <2>1. x \in Recorded(r)
    BY <1>3 DEF Revived
  <2> QED BY <1>3, <2>1, RecordedLaw DEF Exists
<1>4. CASE row[r].deleted /\ ~(row[r].status # "paid" /\ StripePaid(r))
  <2>1. row[r].status # "paid"
    BY <1>1, <1>4 DEF RowSound
  <2>2. x = [row[r] EXCEPT !.deleted = FALSE]
    BY <1>4, <2>1 DEF Revived
  <2>3. x \in RowRecord
    BY <1>1, <2>2, RowWrites
  <2>4. /\ x.status = row[r].status /\ ~x.deleted
        /\ x.session = row[r].session /\ x.intent = row[r].intent
        /\ x.canceled = row[r].canceled
    BY <1>1, <2>2 DEF RowRecord
  <2> QED BY <1>1, <2>1, <2>3, <2>4 DEF RowSound, Exists
<1> QED BY <1>2, <1>3, <1>4

LEMMA PrepareDoneStep ==
    ASSUME EventInv, NEW q \in Req, NEW r \in Row, Exists(row[r]),
           NEW x \in Revived(r), PrepareDone(q, r, x),
           UNCHANGED <<canceled, int, ses, back>>
    PROVE  Permitted
  BY RevivedRow, ReqEnds, StripeSame, RowStep DEF PrepareDone, EventInv, TypeOK

LEMMA PrepareFreeStep ==
    ASSUME EventInv, NEW q \in Req, NEW r \in Row, Exists(row[r]),
           NEW x \in Revived(r), PrepareFree(q, r, x),
           UNCHANGED <<canceled, int, ses, back>>
    PROVE  Permitted
<1> DEFINE y == [x EXCEPT !.status = "paid", !.deleted = FALSE]
<1>1. /\ x \in RowRecord /\ x.canceled = row[r].canceled
      /\ x.session # None => SessionIsFor(x.session, r)
      /\ x.intent # None => IntentIsFor(x.intent, r)
  BY RevivedRow
<1>2. y \in RowRecord
  BY <1>1, RowWrites
<1>3. /\ y.status = "paid" /\ ~y.deleted /\ y.canceled = row[r].canceled
      /\ y.session = x.session /\ y.intent = x.intent
  BY <1>1 DEF RowRecord
<1>4. /\ row' = [row EXCEPT ![r] = y] /\ req' = [req EXCEPT ![q] = Idle]
      /\ ~canceled /\ EventHasSpots(r) /\ r \in Free
  BY DEF PrepareFree, Startable
<1> HIDE DEF y
<1>5. Lawful(y, r)
  BY <1>1, <1>2, <1>3, <1>4
     DEF Lawful, RowFits, TakesPlaceByRight, OpensByRight, ComesBackByRight,
         LosesPaymentByRight
<1> QED
  BY <1>2, <1>4, <1>5, ReqEnds, StripeSame, RowStep DEF EventInv, TypeOK

\* A visitor's row takes a place that was counted.
LEMMA CountedLaw ==
    ASSUME EventInv, NEW r \in Row \ Member, NEW x \in RowRecord,
           ~canceled, EventHasSpots(r),
           x.status = "unpaid", row[r].status # "paid",
           x.canceled = row[r].canceled,
           x.session # None => SessionIsFor(x.session, r),
           x.intent # None => IntentIsFor(x.intent, r)
    PROVE  Lawful(x, r)
  BY DEF Lawful, RowFits, TakesPlaceByRight, OpensByRight, ComesBackByRight,
         LosesPaymentByRight

LEMMA PrepareReuseStep ==
    ASSUME EventInv, NEW q \in Req, NEW r \in Row \ Member, Exists(row[r]),
           NEW x \in Revived(r), PrepareReuse(q, r, x),
           UNCHANGED <<canceled, int, ses, back>>
    PROVE  Permitted
<1> DEFINE y == [Idle EXCEPT !.pc = "look", !.row = r, !.session = x.session]
<1>1. /\ x \in RowRecord /\ x.canceled = row[r].canceled
      /\ x.session # None => SessionIsFor(x.session, r)
      /\ x.intent # None => IntentIsFor(x.intent, r)
      /\ x.status # "paid" => x.status = row[r].status
  BY RevivedRow
<1>2. /\ row' = [row EXCEPT ![r] = x] /\ req' = [req EXCEPT ![q] = y]
      /\ ~canceled /\ EventHasSpots(r)
      /\ x.status = "unpaid" /\ x.session # None
  BY DEF PrepareReuse, Startable, Reusable
<1>3. Lawful(x, r)
  BY <1>1, <1>2, CountedLaw
<1>4. y \in ReqRecord
  <2>1. x.session \in 0..MaxSession /\ "look" \in ReqPC
    BY <1>1 DEF RowRecord, ReqPC
  <2> QED BY <2>1, IdleType, ReqWrites
<1>5. y.pc = "look" /\ y.row = r /\ y.session = x.session /\ y.new = FALSE
  BY DEF Idle
<1> HIDE DEF y
<1>6. ReqFits(y)
  BY <1>1, <1>2, <1>5 DEF ReqFits
<1>7. ReqsGoOn
  BY <1>2, <1>4, <1>6, ReqStep
<1> QED
  BY <1>1, <1>2, <1>3, <1>7, StripeSame, RowStep DEF EventInv, TypeOK

LEMMA PrepareCreateStep ==
    ASSUME EventInv, NEW q \in Req, NEW r \in Row \ Member, Exists(row[r]),
           NEW x \in Revived(r), PrepareCreate(q, r, x),
           UNCHANGED <<canceled, int, ses, back>>
    PROVE  Permitted
<1> DEFINE held == [x EXCEPT !.status = "unpaid", !.hold = TRUE,
                             !.session = None]
           prev == [status |-> x.status, hold |-> x.hold, session |-> x.session]
           y == [Idle EXCEPT !.pc = "open", !.row = r, !.prev = prev]
<1>1. /\ x \in RowRecord /\ x.canceled = row[r].canceled /\ Exists(x)
      /\ x.session # None => SessionIsFor(x.session, r)
      /\ x.intent # None => IntentIsFor(x.intent, r)
      /\ x.status # "paid" => x.status = row[r].status
  BY RevivedRow
<1>2. /\ row' = [row EXCEPT ![r] = held] /\ req' = [req EXCEPT ![q] = y]
      /\ ~canceled /\ EventHasSpots(r) /\ x.status # "paid"
  BY DEF PrepareCreate, Startable
<1>3. held \in RowRecord
  <2>1. "unpaid" \in RowStatus  BY DEF RowStatus
  <2> QED BY <1>1, <2>1, RowWrites, Members
<1>4. /\ held.status = "unpaid" /\ held.canceled = x.canceled
      /\ held.session = None /\ held.intent = x.intent
  BY <1>1 DEF RowRecord
<1>5. prev \in Snapshot
  BY <1>1, <1>2 DEF RowRecord, Snapshot
<1>6. prev.status \in {"not_started", "unpaid"} /\ prev.session = x.session
  BY <1>1, <1>2 DEF RowRecord, RowStatus, Exists
<1> HIDE DEF held, prev
<1>7. Lawful(held, r)
  BY <1>1, <1>2, <1>3, <1>4, CountedLaw
<1>8. y \in ReqRecord
  <2>1. "open" \in ReqPC  BY DEF ReqPC
  <2> QED BY <1>5, <2>1, IdleType, ReqWrites
<1>9. y.pc = "open" /\ y.row = r /\ y.prev = prev /\ y.new = FALSE
  BY DEF Idle
<1> HIDE DEF y
<1>10. ReqFits(y)
  BY <1>1, <1>6, <1>9 DEF ReqFits
<1>11. ReqsGoOn
  BY <1>2, <1>8, <1>10, ReqStep
<1> QED
  BY <1>2, <1>3, <1>7, <1>11, StripeSame, RowStep DEF EventInv, TypeOK

LEMMA BeginStep ==
    ASSUME EventInv, NEW q \in Req, NEW r \in Row,
           Begin(q, r) \/ (PrepareAgain(q) /\ r = req[q].row)
    PROVE  Permitted
<1>1. r \notin Member /\ Exists(row[r])
  BY Typed DEF Begin, PrepareAgain, ReqFits
<1>2. UNCHANGED <<canceled, int, ses, back>>
  BY DEF Begin, PrepareAgain
<1>3. PICK x \in Revived(r) :
          \/ PrepareDone(q, r, x) \/ PrepareFree(q, r, x)
          \/ PrepareReuse(q, r, x) \/ PrepareCreate(q, r, x)
  BY DEF Begin, PrepareAgain
<1> QED
  BY <1>1, <1>2, <1>3, PrepareDoneStep, PrepareFreeStep, PrepareReuseStep,
     PrepareCreateStep

\* A request goes on to another step with what it has.
LEMMA MovedReq ==
    ASSUME EventInv, NEW q \in Req, NEW pc \in ReqPC
    PROVE  /\ [req[q] EXCEPT !.pc = pc] \in ReqRecord
           /\ [req[q] EXCEPT !.pc = pc].pc = pc
           /\ [req[q] EXCEPT !.pc = pc].row = req[q].row
           /\ [req[q] EXCEPT !.pc = pc].prev = req[q].prev
           /\ [req[q] EXCEPT !.pc = pc].session = req[q].session
           /\ [req[q] EXCEPT !.pc = pc].new = req[q].new
<1>1. req[q] \in ReqRecord
  BY Typed
<1>2. [req[q] EXCEPT !.pc = pc] \in ReqRecord
  BY <1>1, ReqWrites
<1> QED BY <1>1, <1>2 DEF ReqRecord

LEMMA ReusableCheckoutUrlStep ==
    ASSUME EventInv, NEW q \in Req, ReusableCheckoutUrl(q)
    PROVE  Permitted
<1> DEFINE s == req[q].session
           y == [req[q] EXCEPT !.pc = "again"]
<1>1. /\ UNCHANGED <<canceled, row, int, back>> /\ req[q].pc = "look"
  BY DEF ReusableCheckoutUrl
<1>2. s \in Session /\ ReqFits(req[q])
  BY <1>1, Typed DEF ReqFits, SessionIsFor
<1>3. CASE ses[s].status \in {"open", "shown"}
  <2>1. /\ ses' = [ses EXCEPT ![s].status = "shown"]
        /\ req' = [req EXCEPT ![q] = Idle]
    BY <1>3 DEF ReusableCheckoutUrl
  <2> HIDE DEF s
  <2> QED
    BY <1>1, <1>2, <1>3, <2>1, ShowStep, ReqEnds, RowlessStep
       DEF EventInv, TypeOK
<1>4. CASE ses[s].status \notin {"open", "shown"}
  <2>1. req' = [req EXCEPT ![q] = y] /\ UNCHANGED ses
    BY <1>4 DEF ReusableCheckoutUrl
  <2>2. "again" \in ReqPC  BY DEF ReqPC
  <2>3. y \in ReqRecord /\ y.pc = "again" /\ y.row = req[q].row /\ y.new = req[q].new
    BY <2>2, MovedReq
  <2> HIDE DEF y
  <2>4. ReqFits(y)
    BY <1>1, <1>2, <2>3 DEF ReqFits
  <2> QED
    BY <1>1, <2>1, <2>3, <2>4, ReqStep, StripeSame, RowlessStep
       DEF EventInv, TypeOK
<1> QED BY <1>3, <1>4

\* A new session is opened for a row.
LEMMA OpenedStep ==
    ASSUME EventInv, UNCHANGED int, NEW s \in Session, NEW r \in Row,
           NewSession(s), Opened(s, r)
    PROVE  StripeKept /\ SessionIsFor(s, r)'
<1> DEFINE z == [status |-> "open", row |-> r, hook |-> "none"]
<1>1. z \in SessionRecord /\ ses[s].status = "none" /\ ses' = [ses EXCEPT ![s] = z]
  BY DEF SessionRecord, NewSession, Opened
<1>2. z.status = "open" /\ z.row = r /\ z.hook = "none"
  OBVIOUS
<1> HIDE DEF z
<1>3. ses'[s] = z
  BY <1>1 DEF EventInv, TypeOK
<1>4. StripeKept
  BY <1>1, <1>2, SessionStep
<1> QED
  BY <1>2, <1>3, <1>4 DEF SessionIsFor

LEMMA OpenEventCheckoutStep ==
    ASSUME EventInv, NEW q \in Req, OpenEventCheckout(q)
    PROVE  Permitted
<1>1. /\ UNCHANGED <<canceled, row, int, back>> /\ req[q].pc = "open"
      /\ back \subseteq Row
  BY DEF OpenEventCheckout, EventInv, TypeOK
<1>2. req[q] \in ReqRecord /\ ReqFits(req[q]) /\ req[q].row \in Row
  BY Typed
<1> PICK r \in Row : r = req[q].row
  BY <1>2
<1>3. CASE req' = [req EXCEPT ![q].pc = "restore"] /\ UNCHANGED ses
  <2> DEFINE y == [req[q] EXCEPT !.pc = "restore"]
  <2>1. "restore" \in ReqPC  BY DEF ReqPC
  <2>2. y \in ReqRecord /\ y.pc = "restore" /\ y.row = req[q].row
        /\ y.new = req[q].new /\ y.prev = req[q].prev
    BY <2>1, MovedReq
  <2>3. req' = [req EXCEPT ![q] = y]
    BY <1>3
  <2> HIDE DEF y
  <2>4. ReqFits(y)
    BY <1>1, <1>2, <2>2 DEF ReqFits
  <2> QED
    BY <1>1, <1>3, <2>2, <2>3, <2>4, ReqStep, StripeSame, RowlessStep
<1>4. ASSUME NEW s \in Session, NEW pc \in {"save", "restore"},
             NewSession(s), Opened(s, req[q].row),
             req' = [req EXCEPT ![q].pc = pc,
                                ![q].session = IF pc = "save" THEN s ELSE None]
      PROVE  Permitted
  <2> DEFINE t == IF pc = "save" THEN s ELSE None
             y == [req[q] EXCEPT !.pc = pc, !.session = t]
  <2>1. StripeKept /\ SessionIsFor(s, r)'
    BY <1>1, <1>2, <1>4, OpenedStep
  <2>2. pc \in ReqPC /\ t \in 0..MaxSession
    BY Members DEF ReqPC
  <2>3. y \in ReqRecord
    <3> HIDE DEF t
    <3> QED BY <1>2, <2>2, ReqWrites
  <2>4. /\ y.pc = pc /\ y.row = r /\ y.new = req[q].new
        /\ y.prev = req[q].prev /\ y.session = t
    BY <1>2 DEF ReqRecord
  <2>5. req' = [req EXCEPT ![q] = y]
    BY <1>4
  <2> HIDE DEF y
  <2>6. req'[q] = y
    BY <2>5 DEF EventInv, TypeOK
  <2>7. ReqFits(req[q])'
    <3>1. PICK w : w = y.prev.session
      OBVIOUS
    <3>5. w # None => SessionIsFor(w, r)'
      <4>1. w # None => SessionIsFor(w, r)
        BY <1>1, <1>2, <2>4, <3>1 DEF ReqFits
      <4> QED BY <2>1, <4>1, KeptPayments
    <3>2. y.row \notin Member /\ Exists(row'[y.row])
      BY <1>1, <1>2, <2>4 DEF ReqFits
    <3>3. y.new => y.row \in Member
      BY <1>1, <1>2, <2>4 DEF ReqFits
    <3>4. y.prev.status \in {"not_started", "unpaid"}
      BY <1>1, <1>2, <2>4 DEF ReqFits
    <3> QED BY <2>1, <2>4, <2>6, <3>1, <3>2, <3>3, <3>4, <3>5 DEF ReqFits
  <2> QED
    BY <1>1, <2>1, <2>3, <2>5, <2>7, ReqStep, RowlessStep
<1> QED BY <1>3, <1>4 DEF OpenEventCheckout

\* The id of a session made for the row is saved on it; its page may be shown.
LEMMA SavedPage ==
    ASSUME EventInv, NEW q \in Req, NEW r \in Row, Exists(row[r]),
           NEW s, SessionIsFor(s, r),
           row' = [row EXCEPT ![r].session = s],
           ses' = [ses EXCEPT ![s].status = IF @ = "open" THEN "shown" ELSE @],
           req' = [req EXCEPT ![q] = Idle], UNCHANGED <<canceled, int, back>>
    PROVE  Permitted
<1> DEFINE x == [row[r] EXCEPT !.session = s]
<1>1. row[r] \in RowRecord /\ RowSound(r) /\ s \in Session
  BY Typed DEF SessionIsFor
<1>2. x \in RowRecord
  BY <1>1, RowWrites, Members
<1>3. /\ x.status = row[r].status /\ x.session = s
      /\ x.intent = row[r].intent /\ x.hold = row[r].hold
      /\ x.deleted = row[r].deleted /\ x.canceled = row[r].canceled
  BY <1>1 DEF RowRecord
<1>4. row' = [row EXCEPT ![r] = x]
  OBVIOUS
<1> HIDE DEF x
<1>5. Lawful(x, r)
  BY <1>1, <1>2, <1>3, QuietLaw DEF RowSound, Exists
<1>6. StripeKept
  <2>1. CASE ses[s].status = "open"
    <3>1. ses' = [ses EXCEPT ![s].status = "shown"]
      BY <2>1
    <3> QED BY <1>1, <2>1, <3>1, ShowStep
  <2>2. CASE ses[s].status # "open"
    <3>1. ses[s] \in SessionRecord /\ ses \in [Session -> SessionRecord]
      BY <1>1, Typed DEF EventInv, TypeOK
    <3>2. ses' = ses
      BY <2>2, <3>1 DEF SessionRecord
    <3> QED BY <3>2, StripeSame
  <2> QED BY <2>1, <2>2
<1> QED
  BY <1>2, <1>4, <1>5, <1>6, ReqEnds, RowStep DEF EventInv, TypeOK

LEMMA SaveEventCheckoutStep ==
    ASSUME EventInv, NEW q \in Req, SaveEventCheckout(q)
    PROVE  Permitted
<1>1. /\ req[q] \in ReqRecord /\ ReqFits(req[q]) /\ req[q].row \in Row
      /\ req[q].pc = "save"
  BY Typed DEF SaveEventCheckout
<1>2. PICK r \in Row, s \in Session : r = req[q].row /\ s = req[q].session
  BY <1>1 DEF ReqFits, SessionIsFor
<1>3. SessionIsFor(s, r) /\ Exists(row[r])
  BY <1>1, <1>2 DEF ReqFits
<1>4. UNCHANGED <<canceled, int, back>>
  BY DEF SaveEventCheckout
<1>5. CASE row[r].status = "unpaid"
  <2>1. /\ row' = [row EXCEPT ![r].session = s]
        /\ ses' = [ses EXCEPT ![s].status = IF @ = "open" THEN "shown" ELSE @]
        /\ req' = [req EXCEPT ![q] = Idle]
    BY <1>2, <1>5 DEF SaveEventCheckout
  <2> QED BY <1>3, <1>4, <2>1, SavedPage
<1>6. CASE row[r].status # "unpaid"
  <2> DEFINE y == [req[q] EXCEPT !.pc = "restore"]
  <2>1. req' = [req EXCEPT ![q] = y] /\ UNCHANGED <<row, ses>>
    BY <1>2, <1>6 DEF SaveEventCheckout
  <2>2. "restore" \in ReqPC  BY DEF ReqPC
  <2>3. y \in ReqRecord /\ y.pc = "restore" /\ y.row = req[q].row
        /\ y.new = req[q].new /\ y.prev = req[q].prev
    BY <2>2, MovedReq
  <2> HIDE DEF y
  <2>4. ReqFits(y)
    BY <1>1, <2>3 DEF ReqFits
  <2> QED
    BY <1>4, <2>1, <2>3, <2>4, ReqStep, StripeSame, RowlessStep
       DEF EventInv, TypeOK
<1> QED BY <1>5, <1>6

\* The clean-up of a failed start: it may write over a payment, and takes a
\* place without a count, but opens no row.
LEMMA RestoreEventReservationStep ==
    ASSUME EventInv, NEW q \in Req, RestoreEventReservation(q)
    PROVE  Permitted
<1>1. /\ req[q] \in ReqRecord /\ ReqFits(req[q]) /\ req[q].row \in Row
      /\ req[q].pc = "restore"
  BY Typed DEF RestoreEventReservation
<1>2. PICK r \in Row : r = req[q].row
  BY <1>1
<1>3. PICK hold \in {FALSE, req[q].prev.hold} :
         row' = [row EXCEPT ![r].status = req[q].prev.status,
                            ![r].session = req[q].prev.session,
                            ![r].hold = hold]
  BY <1>2 DEF RestoreEventReservation
<1> DEFINE prev == req[q].prev
           x == [row[r] EXCEPT !.status = prev.status, !.session = prev.session,
                               !.hold = hold]
<1>4. row[r] \in RowRecord /\ RowSound(r)
  BY Typed
<1>5. /\ prev.status \in {"not_started", "unpaid"} /\ prev.status \in RowStatus
      /\ prev.session \in 0..MaxSession /\ hold \in BOOLEAN
      /\ prev.session # None => SessionIsFor(prev.session, r)
      /\ r \notin Member /\ Exists(row[r])
  BY <1>1, <1>2 DEF ReqFits, ReqRecord, Snapshot
<1> HIDE DEF prev
<1>6. x \in RowRecord
  BY <1>4, <1>5, RowWrites
<1>7. /\ x.status = prev.status /\ x.session = prev.session
      /\ x.intent = row[r].intent
      /\ x.deleted = row[r].deleted /\ x.canceled = row[r].canceled
  BY <1>4 DEF RowRecord
<1>8. row' = [row EXCEPT ![r] = x]
  BY <1>3 DEF prev
<1> HIDE DEF x
<1>9. RowFits(x, r)
  BY <1>4, <1>5, <1>6, <1>7 DEF RowFits, RowSound
<1>10. CleanUpRestores(r)
  BY <1>2 DEF CleanUpRestores
<1>11. Open(x) => Open(row[r])
  BY <1>5, <1>7 DEF Open
<1>12. Lawful(x, r)
  BY <1>7, <1>9, <1>10, <1>11
     DEF Lawful, TakesPlaceByRight, OpensByRight, ComesBackByRight,
         LosesPaymentByRight
<1>13. req' = [req EXCEPT ![q] = Idle] /\ UNCHANGED <<canceled, int, ses, back>>
  BY DEF RestoreEventReservation
<1> QED
  BY <1>6, <1>8, <1>12, <1>13, ReqEnds, StripeSame, RowStep
     DEF EventInv, TypeOK

-----------------------------------------------------------------------------
(* The requests of members.                                                *)

LEMMA FindPaymentStep ==
    ASSUME EventInv, NEW r \in Row, FindPayment(r)
    PROVE  Permitted
<1>1. PICK x \in Recorded(r) : row' = [row EXCEPT ![r] = x]
  BY DEF FindPayment
<1>2. StripePaid(r) /\ UNCHANGED <<canceled, req, int, ses, back>>
  BY DEF FindPayment
<1> QED
  BY <1>1, <1>2, RecordedLaw, StripeSame, ReqsSame, RowStep
     DEF EventInv, TypeOK

LEMMA ShowOpenPageStep ==
    ASSUME EventInv, NEW r \in Row, ShowOpenPage(r)
    PROVE  Permitted
<1> DEFINE x == [row[r] EXCEPT !.deleted = FALSE]
           s == row[r].session
<1>1. row[r] \in RowRecord /\ RowSound(r)
  BY Typed
<1>2. x \in RowRecord
  BY <1>1, RowWrites
<1>3. /\ row' = [row EXCEPT ![r] = x] /\ row[r].status = "unpaid"
      /\ ~canceled /\ EventHasSpots(r)
      /\ ses' = [ses EXCEPT ![s].status = "shown"]
      /\ UNCHANGED <<canceled, req, int, back>>
  BY DEF ShowOpenPage
<1>4. s \in Session /\ ses[s].status \in {"open", "shown"}
  BY <1>1 DEF ShowOpenPage, StripeOpen, RowSound, SessionIsFor
<1>5. /\ x.status = row[r].status /\ x.session = row[r].session
      /\ x.intent = row[r].intent /\ x.canceled = row[r].canceled
  BY <1>1 DEF RowRecord
<1> HIDE DEF x
<1>6. Lawful(x, r)
  BY <1>1, <1>2, <1>3, <1>5
     DEF Lawful, RowFits, RowSound, TakesPlaceByRight, OpensByRight,
         ComesBackByRight, LosesPaymentByRight
<1>7. StripeKept
  <2> HIDE DEF s
  <2> QED BY <1>3, <1>4, ShowStep
<1> QED
  BY <1>2, <1>3, <1>6, <1>7, ReqsSame, RowStep DEF EventInv, TypeOK

LEMMA ReserveStep ==
    ASSUME EventInv, NEW q \in Req, NEW r \in Row, Reserve(q, r)
    PROVE  Permitted
<1> DEFINE free == [NoRow EXCEPT !.status = "paid"]
           held == [NoRow EXCEPT !.status = "unpaid", !.hold = TRUE]
           new == (row[r].status = "none")
           y == [Idle EXCEPT !.pc = "charge", !.row = r, !.new = new]
<1>1. row[r] \in RowRecord /\ RowSound(r)
  BY Typed
<1>2. /\ ~canceled /\ EventHasSpots(r) /\ r \in Member
      /\ row[r].status \in {"none", "unpaid"}
      /\ UNCHANGED <<canceled, int, ses, back>>
  BY DEF Reserve
<1>3. CASE r \in Free
  <2>1. row' = [row EXCEPT ![r] = free] /\ UNCHANGED req
    BY <1>3 DEF Reserve
  <2>2. free \in RowRecord
    BY NoRowType, Members DEF RowRecord, RowStatus, NoRow
  <2>3. /\ free.status = "paid" /\ ~free.deleted /\ ~free.canceled
        /\ free.session = None /\ free.intent = None
    BY DEF NoRow
  <2>4. ~row[r].canceled
    BY <1>1, <1>2, <1>3 DEF RowSound
  <2> HIDE DEF free
  <2>5. Lawful(free, r)
    BY <1>2, <1>3, <2>2, <2>3, <2>4
       DEF Lawful, RowFits, TakesPlaceByRight, OpensByRight,
           ComesBackByRight, LosesPaymentByRight
  <2> QED
    BY <1>2, <2>1, <2>2, <2>5, StripeSame, ReqsSame, RowStep
       DEF EventInv, TypeOK
<1>4. CASE r \notin Free
  <2>1. row' = [row EXCEPT ![r] = held] /\ req' = [req EXCEPT ![q] = y]
    BY <1>4 DEF Reserve
  <2>2. held \in RowRecord
    BY NoRowType, Members DEF RowRecord, RowStatus, NoRow
  <2>3. /\ held.status = "unpaid" /\ ~held.deleted /\ ~held.canceled
        /\ held.session = None /\ held.intent = None
    BY DEF NoRow
  <2>4. y \in ReqRecord
    <3>1. "charge" \in ReqPC /\ new \in BOOLEAN  BY DEF ReqPC
    <3> HIDE DEF new
    <3> QED BY <3>1, IdleType, ReqWrites
  <2>5. y.pc = "charge" /\ y.row = r /\ y.new = new
    BY DEF Idle
  <2> HIDE DEF held, y
  <2>6. ReqFits(y)
    BY <1>2, <2>5 DEF ReqFits
  <2>7. Lawful(held, r)
    BY <1>2, <1>4, <2>2, <2>3
       DEF Lawful, RowFits, TakesPlaceByRight, OpensByRight,
           ComesBackByRight, LosesPaymentByRight
  <2>8. ReqsGoOn
    BY <2>1, <2>4, <2>6, ReqStep
  <2> QED
    BY <1>2, <2>1, <2>2, <2>7, <2>8, StripeSame, RowStep DEF EventInv, TypeOK
<1> QED BY <1>3, <1>4

LEMMA ChargeSavedCardStep ==
    ASSUME EventInv, NEW q \in Req, ChargeSavedCard(q)
    PROVE  Permitted
<1>1. /\ UNCHANGED <<canceled, row, ses, back>> /\ req[q].pc = "charge"
      /\ back \subseteq Row
  BY DEF ChargeSavedCard, EventInv, TypeOK
<1>2. req[q] \in ReqRecord /\ ReqFits(req[q]) /\ req[q].row \in Row
  BY Typed
<1>3. CASE req' = [req EXCEPT ![q].pc = "page"] /\ UNCHANGED int
  <2> DEFINE y == [req[q] EXCEPT !.pc = "page"]
  <2>1. "page" \in ReqPC  BY DEF ReqPC
  <2>2. y \in ReqRecord /\ y.pc = "page" /\ y.row = req[q].row /\ y.new = req[q].new
    BY <2>1, MovedReq
  <2>3. req' = [req EXCEPT ![q] = y]
    BY <1>3
  <2> HIDE DEF y
  <2>4. ReqFits(y)
    BY <1>1, <1>2, <2>2 DEF ReqFits
  <2> QED
    BY <1>1, <1>3, <2>2, <2>3, <2>4, ReqStep, StripeSame, RowlessStep
<1>4. ASSUME NEW i \in Intent, NEW status \in {"succeeded", "refused", "processing"},
             NEW answered \in BOOLEAN, NewIntent(i),
             int' = [int EXCEPT ![i] = [status |-> status, row |-> req[q].row]],
             req' = [req EXCEPT
                       ![q].pc = IF ~answered THEN "fail"
                                 ELSE IF status = "succeeded" THEN "land"
                                 ELSE "page",
                       ![q].intent = i, ![q].tried = answered]
      PROVE  Permitted
  <2> DEFINE z == [status |-> status, row |-> req[q].row]
             pc == IF ~answered THEN "fail"
                   ELSE IF status = "succeeded" THEN "land" ELSE "page"
             y == [req[q] EXCEPT !.pc = pc, !.intent = i, !.tried = answered]
  <2>1. z \in IntentRecord /\ int[i].status = "none" /\ int' = [int EXCEPT ![i] = z]
    BY <1>2, <1>4 DEF IntentRecord, NewIntent
  <2>2. z.status = status /\ z.row = req[q].row
    OBVIOUS
  <2>3. /\ pc \in ReqPC /\ pc \in {"fail", "land", "page"}
        /\ pc = "land" => status = "succeeded"
    BY DEF ReqPC
  <2>4. y \in ReqRecord
    <3> HIDE DEF pc
    <3> QED BY <1>2, <2>3, ReqWrites
  <2>5. y.pc = pc /\ y.row = req[q].row /\ y.new = req[q].new /\ y.intent = i
    BY <1>2 DEF ReqRecord
  <2>6. req' = [req EXCEPT ![q] = y]
    BY <1>4
  <2> HIDE DEF y, z, pc
  <2>7. req'[q] = y /\ int'[i] = z
    BY <2>1, <2>6 DEF EventInv, TypeOK
  <2>8. StripeKept
    BY <1>1, <2>1, <2>2, IntentStep
  <2>9. ReqFits(req[q])'
    BY <1>1, <1>2, <2>2, <2>3, <2>5, <2>7 DEF ReqFits, IntentIsFor
  <2> QED
    BY <1>1, <2>4, <2>6, <2>8, <2>9, ReqStep, RowlessStep
<1> QED BY <1>3, <1>4 DEF ChargeSavedCard

LEMMA LandChargeStep ==
    ASSUME EventInv, NEW q \in Req, LandCharge(q)
    PROVE  Permitted
<1>1. /\ req[q] \in ReqRecord /\ ReqFits(req[q]) /\ req[q].row \in Row
      /\ req[q].pc = "land"
  BY Typed DEF LandCharge
<1>2. PICK r \in Row, i \in Intent : r = req[q].row /\ i = req[q].intent
  BY <1>1 DEF ReqFits, IntentIsFor
<1>3. IntentIsFor(i, r) /\ Captured(r)
  BY <1>1, <1>2 DEF ReqFits, IntentIsFor, Captured, SucceededIntents
<1>4. UNCHANGED <<canceled, int, ses, back>> /\ ReqsGoOn
  <2> DEFINE y == [req[q] EXCEPT !.pc = "fail"]
  <2>1. "fail" \in ReqPC  BY DEF ReqPC
  <2>2. y \in ReqRecord /\ y.pc = "fail" /\ y.row = req[q].row /\ y.new = req[q].new
    BY <2>1, MovedReq
  <2>3. \/ req' = [req EXCEPT ![q] = Idle]
        \/ req' = [req EXCEPT ![q] = y]
    BY DEF LandCharge
  <2> HIDE DEF y
  <2>4. ReqFits(y)
    BY <1>1, <2>2 DEF ReqFits
  <2> QED BY <2>2, <2>3, <2>4, ReqStep, ReqEnds DEF LandCharge
<1>5. CASE Exists(row[r])
  <2> DEFINE x == PaidBy(row[r], row[r].session, i)
  <2>1. row' = [row EXCEPT ![r] = x]
    BY <1>2, <1>5 DEF LandCharge
  <2>2. x \in RowRecord /\ Lawful(x, r)
    BY <1>3, RowPayments, Members, PaidByLaw
  <2> HIDE DEF x
  <2> QED
    BY <1>4, <2>1, <2>2, StripeSame, RowStep DEF EventInv, TypeOK
<1>6. CASE ~Exists(row[r])
  <2>1. row' = row
    BY <1>2, <1>6 DEF LandCharge
  <2> QED
    BY <1>4, <2>1, StripeSame, RowlessStep DEF EventInv, TypeOK
<1> QED BY <1>5, <1>6

LEMMA OpenPageStep ==
    ASSUME EventInv, NEW q \in Req, OpenPage(q)
    PROVE  Permitted
<1>1. /\ UNCHANGED <<canceled, row, int, back>> /\ req[q].pc = "page"
      /\ back \subseteq Row
  BY DEF OpenPage, EventInv, TypeOK
<1>2. req[q] \in ReqRecord /\ ReqFits(req[q]) /\ req[q].row \in Row
  BY Typed
<1> PICK r \in Row : r = req[q].row
  BY <1>2
<1>3. CASE req' = [req EXCEPT ![q].pc = "fail"] /\ UNCHANGED ses
  <2> DEFINE y == [req[q] EXCEPT !.pc = "fail"]
  <2>1. "fail" \in ReqPC  BY DEF ReqPC
  <2>2. y \in ReqRecord /\ y.pc = "fail" /\ y.row = req[q].row /\ y.new = req[q].new
    BY <2>1, MovedReq
  <2>3. req' = [req EXCEPT ![q] = y]
    BY <1>3
  <2> HIDE DEF y
  <2>4. ReqFits(y)
    BY <1>1, <1>2, <2>2 DEF ReqFits
  <2> QED
    BY <1>1, <1>3, <2>2, <2>3, <2>4, ReqStep, StripeSame, RowlessStep
<1>4. ASSUME NEW s \in Session, NEW pc \in {"store", "fail"},
             NewSession(s), Opened(s, req[q].row),
             req' = [req EXCEPT ![q].pc = pc,
                                ![q].session = IF pc = "store" THEN s ELSE None]
      PROVE  Permitted
  <2> DEFINE t == IF pc = "store" THEN s ELSE None
             y == [req[q] EXCEPT !.pc = pc, !.session = t]
  <2>1. StripeKept /\ SessionIsFor(s, r)'
    BY <1>1, <1>2, <1>4, OpenedStep
  <2>2. pc \in ReqPC /\ t \in 0..MaxSession
    BY Members DEF ReqPC
  <2>3. y \in ReqRecord
    <3> HIDE DEF t
    <3> QED BY <1>2, <2>2, ReqWrites
  <2>4. /\ y.pc = pc /\ y.row = r /\ y.new = req[q].new /\ y.session = t
    BY <1>2 DEF ReqRecord
  <2>5. req' = [req EXCEPT ![q] = y]
    BY <1>4
  <2> HIDE DEF y
  <2>6. req'[q] = y
    BY <2>5 DEF EventInv, TypeOK
  <2>7. y.new => y.row \in Member
    BY <1>1, <1>2, <2>4 DEF ReqFits
  <2>8. ReqFits(req[q])'
    BY <2>1, <2>4, <2>6, <2>7 DEF ReqFits
  <2> QED
    BY <1>1, <2>1, <2>3, <2>5, <2>8, ReqStep, RowlessStep
<1> QED BY <1>3, <1>4 DEF OpenPage

LEMMA FailStartStep ==
    ASSUME EventInv, NEW q \in Req, FailStart(q)
    PROVE  Permitted
<1>1. /\ ReqFits(req[q]) /\ req[q].row \in Row /\ req[q].pc = "fail"
  BY Typed DEF FailStart
<1>2. PICK r \in Row : r = req[q].row
  BY <1>1
<1>3. req' = [req EXCEPT ![q] = Idle] /\ UNCHANGED <<canceled, int, ses, back>>
  BY DEF FailStart
<1>4. CASE req[q].new
  <2>1. row' = [row EXCEPT ![r] = GoneRow]
    BY <1>2, <1>4 DEF FailStart
  <2>2. GoneRow \in RowRecord
    BY Members DEF GoneRow, NoRow, RowRecord, RowStatus
  <2>3. /\ GoneRow.status = "gone" /\ ~Exists(GoneRow)
        /\ GoneRow.session = None /\ GoneRow.intent = None
    BY DEF GoneRow, NoRow, Exists
  <2>4. r \in Member /\ CleanUpDeletes(r)
    BY <1>1, <1>2, <1>4 DEF ReqFits, CleanUpDeletes
  <2>5. Lawful(GoneRow, r)
    BY <2>2, <2>3, <2>4
       DEF Lawful, RowFits, TakesPlaceByRight, OpensByRight,
           ComesBackByRight, LosesPaymentByRight, HoldsSpot, Open
  <2> QED
    BY <1>3, <2>1, <2>2, <2>5, ReqEnds, StripeSame, RowStep
       DEF EventInv, TypeOK
<1>5. CASE ~req[q].new
  <2>1. row' = row
    BY <1>5 DEF FailStart
  <2> QED
    BY <1>3, <2>1, ReqEnds, StripeSame, RowlessStep DEF EventInv, TypeOK
<1> QED BY <1>4, <1>5

LEMMA StorePageStep ==
    ASSUME EventInv, NEW q \in Req, StorePage(q)
    PROVE  Permitted
<1>1. /\ ReqFits(req[q]) /\ req[q].row \in Row /\ req[q].pc = "store"
  BY Typed DEF StorePage
<1>2. PICK r \in Row, s \in Session : r = req[q].row /\ s = req[q].session
  BY <1>1 DEF ReqFits, SessionIsFor
<1>3. SessionIsFor(s, r) /\ ses[s] \in SessionRecord
  BY <1>1, <1>2, Typed DEF ReqFits
<1>4. req' = [req EXCEPT ![q] = Idle] /\ UNCHANGED <<canceled, int, back>>
  BY DEF StorePage
<1>5. CASE Exists(row[r])
  <2>1. row' = [row EXCEPT ![r].session = s]
    BY <1>2, <1>5 DEF StorePage
  <2>2. ses' = [ses EXCEPT ![s].status = IF @ = "open" THEN "shown" ELSE @]
    BY <1>2, <1>5 DEF StorePage
  <2> QED BY <1>3, <1>4, <1>5, <2>1, <2>2, SavedPage
<1>6. CASE ~Exists(row[r])
  <2>1. row' = row /\ ses' = [ses EXCEPT ![s].status = @]
    BY <1>2, <1>6 DEF StorePage
  <2>2. ses' = ses
    BY <1>3, <2>1 DEF SessionRecord, EventInv, TypeOK
  <2> QED
    BY <1>4, <2>1, <2>2, ReqEnds, StripeSame, RowlessStep
       DEF EventInv, TypeOK
<1> QED BY <1>5, <1>6

LEMMA CrashStep ==
    ASSUME EventInv, NEW q \in Req, Crash(q)
    PROVE  Permitted
  BY ReqEnds, StripeSame, RowlessStep DEF Crash, EventInv, TypeOK

-----------------------------------------------------------------------------
(* Stripe, its webhook and the reconciler.                                 *)

LEMMA SettleIntentStep ==
    ASSUME EventInv, NEW i \in Intent, SettleIntent(i)
    PROVE  Permitted
<1>1. PICK status \in {"succeeded", "refused"} :
        int' = [int EXCEPT ![i].status = status]
  BY DEF SettleIntent
<1> DEFINE z == [int[i] EXCEPT !.status = status]
<1>2. int[i] \in IntentRecord /\ int[i].status = "processing"
  BY Typed DEF SettleIntent
<1>3. z \in IntentRecord /\ z.status = status /\ z.row = int[i].row
  BY <1>2 DEF IntentRecord
<1>4. int' = [int EXCEPT ![i] = z] /\ UNCHANGED <<canceled, row, req, ses, back>>
  BY <1>1 DEF SettleIntent
<1> HIDE DEF z
<1>5. StripeKept
  BY <1>2, <1>3, <1>4, IntentStep
<1> QED
  BY <1>4, <1>5, ReqsSame, RowlessStep DEF EventInv, TypeOK

LEMMA SessionWrites ==
    ASSUME NEW z \in SessionRecord
    PROVE  /\ [z EXCEPT !.status = "expired"] \in SessionRecord
           /\ [z EXCEPT !.status = "paid", !.hook = "pending"] \in SessionRecord
           /\ \A h \in {"pending", "over"} : [z EXCEPT !.hook = h] \in SessionRecord
  BY DEF SessionRecord

LEMMA PageSteps ==
    ASSUME EventInv, NEW s \in Session, Pay(s) \/ Expire(s) \/ LoseWebhook(s)
    PROVE  Permitted
<1>1. UNCHANGED <<canceled, row, req, int, back>>
  BY DEF Pay, Expire, LoseWebhook
<1>2. ses[s] \in SessionRecord /\ (ses[s].hook = "pending" => ses[s].status = "paid")
  BY Typed DEF EventInv, HooksArePaid
<1>3. PICK z \in SessionRecord :
        /\ ses' = [ses EXCEPT ![s] = z]
        /\ z.status # "none" /\ z.row = ses[s].row
        /\ ses[s].status = "paid" => z.status = "paid"
        /\ z.hook = "pending" => z.status = "paid"
  <2>1. CASE Pay(s)
    <3> DEFINE z == [ses[s] EXCEPT !.status = "paid", !.hook = "pending"]
    <3>1. z \in SessionRecord
      BY <1>2, SessionWrites
    <3>2. z.status = "paid" /\ z.row = ses[s].row
      BY <1>2 DEF SessionRecord
    <3>3. ses' = [ses EXCEPT ![s] = z]
      BY <2>1 DEF Pay
    <3> QED BY <3>1, <3>2, <3>3
  <2>2. CASE Expire(s)
    <3> DEFINE z == [ses[s] EXCEPT !.status = "expired"]
    <3>1. z \in SessionRecord
      BY <1>2, SessionWrites
    <3>2. z.status = "expired" /\ z.row = ses[s].row /\ z.hook = ses[s].hook
      BY <1>2 DEF SessionRecord
    <3>3. ses' = [ses EXCEPT ![s] = z] /\ ses[s].status # "paid"
      BY <2>2 DEF Expire
    <3> QED BY <1>2, <3>1, <3>2, <3>3
  <2>3. CASE LoseWebhook(s)
    <3> DEFINE z == [ses[s] EXCEPT !.hook = "over"]
    <3>1. z \in SessionRecord
      BY <1>2, SessionWrites
    <3>2. z.status = ses[s].status /\ z.row = ses[s].row /\ z.hook = "over"
      BY <1>2 DEF SessionRecord
    <3>3. ses' = [ses EXCEPT ![s] = z] /\ ses[s].status = "paid"
      BY <1>2, <2>3 DEF LoseWebhook
    <3> QED BY <3>1, <3>2, <3>3
  <2> QED BY <2>1, <2>2, <2>3
<1>4. StripeKept
  BY <1>1, <1>3, SessionStep
<1> QED
  BY <1>1, <1>4, ReqsSame, RowlessStep DEF EventInv, TypeOK

LEMMA WebhookStep ==
    ASSUME EventInv, NEW s \in Session, Webhook(s)
    PROVE  Permitted
<1>1. ses[s] \in SessionRecord /\ ses[s].status = "paid" /\ ses[s].row \in Row
  BY Typed DEF EventInv, HooksArePaid, Webhook, SessionRecord
<1>2. PICK r \in Row : r = ses[s].row
  BY <1>1
<1>3. SessionIsFor(s, r) /\ Captured(r) /\ Webhook(s) /\ s \in Session
  BY <1>1, <1>2 DEF SessionIsFor, Captured
<1>4. PICK h \in {"pending", "over"} : ses' = [ses EXCEPT ![s].hook = h]
  BY DEF Webhook
<1>5. StripeKept
  <2> DEFINE z == [ses[s] EXCEPT !.hook = h]
  <2>1. z \in SessionRecord
    BY <1>1, SessionWrites
  <2>2. z.status = "paid" /\ z.row = ses[s].row
    BY <1>1 DEF SessionRecord
  <2>3. ses' = [ses EXCEPT ![s] = z] /\ UNCHANGED int
    BY <1>4 DEF Webhook
  <2> HIDE DEF z
  <2> QED BY <2>1, <2>2, <2>3, SessionStep
<1>6. UNCHANGED <<canceled, req, int, back>> /\ row' = CompletePaidEventCheckout(s)
  BY DEF Webhook
<1> DEFINE valid == [row[r] EXCEPT !.canceled = FALSE]
           x == MarkedPaid(row[r], s, row[r].intent)
<1>7. CASE row' = row
  BY <1>5, <1>6, <1>7, ReqsSame, RowlessStep DEF EventInv, TypeOK
<1>8. CASE row[r].status = "paid" /\ ~row[r].deleted /\ row' = [row EXCEPT ![r] = valid]
  <2>1. row[r] \in RowRecord /\ RowSound(r)
    BY Typed
  <2>2. valid \in RowRecord
    BY <2>1, RowWrites
  <2>3. /\ valid.status = "paid" /\ ~valid.deleted
        /\ valid.session = row[r].session /\ valid.intent = row[r].intent
    BY <1>8, <2>1 DEF RowRecord
  <2> HIDE DEF valid
  <2>4. Lawful(valid, r)
    BY <1>2, <1>3, <2>1, <2>2, <2>3
       DEF Lawful, RowFits, RowSound, TakesPlaceByRight, OpensByRight,
           ComesBackByRight, LosesPaymentByRight
  <2> QED
    BY <1>5, <1>6, <1>8, <2>2, <2>4, ReqsSame, RowStep DEF EventInv, TypeOK
<1>9. CASE ~(row[r].status = "paid" /\ ~row[r].deleted) /\ row' = [row EXCEPT ![r] = x]
  <2>1. x \in RowRecord /\ Lawful(x, r)
    BY <1>3, <1>9, Typed, RowPayments, Members, PaidByLaw DEF RowSound
  <2> HIDE DEF x
  <2> QED
    BY <1>5, <1>6, <1>9, <2>1, ReqsSame, RowStep DEF EventInv, TypeOK
<1>10. \/ row' = row
       \/ row[r].status = "paid" /\ ~row[r].deleted /\ row' = [row EXCEPT ![r] = valid]
       \/ ~(row[r].status = "paid" /\ ~row[r].deleted) /\ row' = [row EXCEPT ![r] = x]
  BY <1>2, <1>6 DEF CompletePaidEventCheckout, MarkedPaid
<1> QED BY <1>7, <1>8, <1>9, <1>10

\* What _abandon leaves.
LEMMA AbandonedLaw ==
    ASSUME EventInv, NEW r \in Row, row[r].status = "unpaid",
           NEW x \in Abandoned(r)
    PROVE  x \in RowRecord /\ Lawful(x, r)
<1>1. row[r] \in RowRecord /\ RowSound(r)
  BY Typed
<1>2. CASE StripePaid(r)
  <2>1. PICK y \in Recorded(r) : x = MarkedPaid(y, y.session, y.intent)
    BY <1>2 DEF Abandoned
  <2>2. /\ y \in RowRecord /\ y.status = "paid" /\ ~y.deleted
        /\ y.session # None => SessionIsFor(y.session, r)
        /\ y.intent # None => IntentIsFor(y.intent, r)
        /\ Captured(r)
    BY <1>2, RecordedLaw
  <2>3. y.session \in 0..MaxSession /\ y.intent \in 0..MaxIntent
    BY <2>2 DEF RowRecord
  <2>4. MarkedPaid(y, y.session, y.intent) \in RowRecord
    BY <2>2, <2>3, RowWrites
  <2>5. /\ x.status = "paid" /\ ~x.deleted
        /\ x.session = y.session /\ x.intent = y.intent
    BY <2>1, <2>2 DEF MarkedPaid, PaidBy, RowRecord
  <2> QED
    BY <2>1, <2>2, <2>4, <2>5, row[r].status # "paid"
       DEF Lawful, RowFits, TakesPlaceByRight, OpensByRight,
           ComesBackByRight, LosesPaymentByRight
<1>3. CASE ~StripePaid(r)
  <2>1. x = [row[r] EXCEPT !.deleted = TRUE]
    BY <1>3 DEF Abandoned
  <2>2. x \in RowRecord
    BY <1>1, <2>1, RowWrites
  <2>3. /\ x.status = row[r].status /\ x.deleted
        /\ x.session = row[r].session /\ x.intent = row[r].intent
        /\ x.hold = row[r].hold /\ x.canceled = row[r].canceled
    BY <1>1, <2>1 DEF RowRecord
  <2> QED BY <1>1, <2>2, <2>3, QuietLaw DEF RowSound
<1> QED BY <1>2, <1>3

\* What _reconcile_checkout leaves.
LEMMA ReconciledCheckoutLaw ==
    ASSUME EventInv, NEW r \in Row, row[r].status = "unpaid",
           NEW x \in ReconciledCheckout(r)
    PROVE  x \in RowRecord /\ Lawful(x, r)
<1>1. row[r] \in RowRecord /\ RowSound(r)
  BY Typed
<1>2. PICK s \in SessionToCheck(r) :
        x \in IF ses[s].status = "paid" THEN {MarkedPaid(row[r], s, row[r].intent)}
              ELSE IF ses[s].status = "expired" THEN Abandoned(r)
              ELSE {[row[r] EXCEPT !.session = s]}
  BY DEF ReconciledCheckout
<1>3. SessionIsFor(s, r) /\ s \in 0..MaxSession
  BY <1>1, Members DEF SessionToCheck, Newest, PaidSessionsNaming, SessionsNaming,
                       SessionIsFor, RowSound
<1>4. CASE x = MarkedPaid(row[r], s, row[r].intent) /\ ses[s].status = "paid"
  <2>1. Captured(r)
    BY <1>3, <1>4 DEF SessionIsFor, Captured
  <2> QED BY <1>3, <1>4, <2>1, RowPayments, PaidByLaw
<1>5. CASE x \in Abandoned(r)
  BY <1>5, AbandonedLaw
<1>6. CASE x = [row[r] EXCEPT !.session = s]
  <2>1. x \in RowRecord
    BY <1>1, <1>3, <1>6, RowWrites, Members
  <2>2. /\ x.status = row[r].status /\ x.deleted = row[r].deleted
        /\ x.session = s /\ x.intent = row[r].intent
        /\ x.hold = row[r].hold /\ x.canceled = row[r].canceled
    BY <1>1, <1>6 DEF RowRecord
  <2> QED BY <1>1, <1>3, <2>1, <2>2, QuietLaw DEF RowSound
<1> QED BY <1>2, <1>4, <1>5, <1>6

\* What _reconcile_payment_intent leaves.
LEMMA ReconciledIntentLaw ==
    ASSUME EventInv, NEW r \in Row, row[r].status = "unpaid",
           NEW x \in ReconciledIntent(r)
    PROVE  x \in RowRecord /\ Lawful(x, r)
<1>1. row[r] \in RowRecord /\ RowSound(r)
  BY Typed
<1>2. PICK i \in IntentToCheck(r) :
        x \in IF int[i].status = "succeeded" THEN {MarkedPaid(row[r], None, i)}
              ELSE IF int[i].status = "refused" THEN Abandoned(r)
              ELSE {[row[r] EXCEPT !.intent = i]}
  BY DEF ReconciledIntent
<1>3. IntentIsFor(i, r) /\ i \in 0..MaxIntent
  BY <1>1, Members DEF IntentToCheck, Newest, SucceededIntents, IntentsNaming,
                       IntentIsFor, RowSound
<1>4. CASE x = MarkedPaid(row[r], None, i) /\ int[i].status = "succeeded"
  <2>1. Captured(r)
    BY <1>3, <1>4 DEF IntentIsFor, Captured, SucceededIntents
  <2> QED BY <1>3, <1>4, <2>1, Members, PaidByLaw
<1>5. CASE x \in Abandoned(r)
  BY <1>5, AbandonedLaw
<1>6. CASE x = [row[r] EXCEPT !.intent = i]
  <2>1. x \in RowRecord
    BY <1>1, <1>3, <1>6, RowWrites, Members
  <2>2. /\ x.status = row[r].status /\ x.deleted = row[r].deleted
        /\ x.session = row[r].session /\ x.intent = i
        /\ x.hold = row[r].hold /\ x.canceled = row[r].canceled
    BY <1>1, <1>6 DEF RowRecord
  <2> QED BY <1>1, <1>3, <2>1, <2>2, QuietLaw DEF RowSound
<1> QED BY <1>2, <1>4, <1>5, <1>6

LEMMA ReconcileStep ==
    ASSUME EventInv, NEW r \in Row, ReconcileReservation(r)
    PROVE  Permitted
<1>1. PICK x \in ReconciledCheckout(r) \cup ReconciledIntent(r) :
        row' = [row EXCEPT ![r] = x]
  BY DEF ReconcileReservation
<1>2. row[r].status = "unpaid" /\ UNCHANGED <<canceled, req, int, ses, back>>
  BY DEF ReconcileReservation
<1>3. x \in RowRecord /\ Lawful(x, r)
  BY <1>1, <1>2, ReconciledCheckoutLaw, ReconciledIntentLaw
<1> QED
  BY <1>1, <1>2, <1>3, StripeSame, ReqsSame, RowStep DEF EventInv, TypeOK

-----------------------------------------------------------------------------
(* The invariant and what follows from it.                                 *)

LEMMA InitInv == Init => EventInv
<1> SUFFICES ASSUME Init
             PROVE  EventInv
  OBVIOUS
<1>1. TypeOK
  BY Members, IdleType, NoRowType
     DEF Init, TypeOK, IntentRecord, SessionRecord
<1>2. \A r \in Row : RowSound(r)
  BY DEF Init, RowSound, NoRow
<1>3. \A q \in Req : ReqFits(req[q])
  BY IdleType DEF Init, ReqFits
<1>4. HooksArePaid
  BY DEF Init, HooksArePaid
<1> QED BY <1>1, <1>2, <1>3, <1>4 DEF EventInv

\* The owner cancels the event: nothing else changes.
LEMMA CancelEventStep ==
    ASSUME EventInv, CancelEvent
    PROVE  EventInv' /\ row' = row
<1>1. canceled' = TRUE /\ UNCHANGED <<row, req, int, ses, back>>
  BY DEF CancelEvent
<1>2. TypeOK'
  BY <1>1 DEF EventInv, TypeOK
<1>3. \A r \in Row : RowSound(r)'
  BY <1>1 DEF EventInv, RowSound, SessionIsFor, IntentIsFor, Captured,
              SucceededIntents
<1>4. \A q \in Req : ReqFits(req[q])'
  BY <1>1 DEF EventInv, ReqFits, SessionIsFor, IntentIsFor
<1> QED
  BY <1>1, <1>2, <1>3, <1>4 DEF EventInv, HooksArePaid

LEMMA NextStep ==
    ASSUME EventInv, Next
    PROVE  CancelEvent \/ Permitted
<1>1. CASE \E r \in Row : \/ Dismiss(r) \/ GuestCancel(r)
                         \/ CountForRestore(r) \/ RestoreRow(r)
                         \/ SaveVisitorReservation(r)
                         \/ FindPayment(r) \/ ShowOpenPage(r)
                         \/ HoldEnds(r) \/ ReconcileReservation(r)
  BY <1>1, CancelByHand, CountForRestoreStep, RestoreRowStep, SaveVisitorStep,
     FindPaymentStep, ShowOpenPageStep, HoldEndsStep, ReconcileStep
<1>2. CASE \E q \in Req, r \in Row : Begin(q, r) \/ Reserve(q, r)
  <2>1. PICK q \in Req, r \in Row : Begin(q, r) \/ Reserve(q, r)
    BY <1>2
  <2>2. CASE Begin(q, r)
    BY <2>2, BeginStep
  <2>3. CASE Reserve(q, r)
    BY <2>3, ReserveStep
  <2> QED BY <2>1, <2>2, <2>3
<1>3. CASE \E q \in Req : \/ ReusableCheckoutUrl(q) \/ PrepareAgain(q)
                         \/ OpenEventCheckout(q) \/ SaveEventCheckout(q)
                         \/ RestoreEventReservation(q)
                         \/ ChargeSavedCard(q) \/ LandCharge(q)
                         \/ OpenPage(q) \/ FailStart(q) \/ StorePage(q)
                         \/ Crash(q)
  <2>1. \A q \in Req : PrepareAgain(q) => Permitted
    BY BeginStep, Typed
  <2> QED
    BY <1>3, <2>1, ReusableCheckoutUrlStep, OpenEventCheckoutStep,
       SaveEventCheckoutStep, RestoreEventReservationStep, ChargeSavedCardStep,
       LandChargeStep, OpenPageStep, FailStartStep, StorePageStep, CrashStep
<1>4. CASE \E i \in Intent : SettleIntent(i)
  BY <1>4, SettleIntentStep
<1>5. CASE \E s \in Session : Pay(s) \/ Expire(s) \/ Webhook(s) \/ LoseWebhook(s)
  BY <1>5, PageSteps, WebhookStep
<1> QED
  BY <1>1, <1>2, <1>3, <1>4, <1>5 DEF Next

LEMMA Inductive == EventInv /\ [Next]_vars => EventInv'
<1> SUFFICES ASSUME EventInv, [Next]_vars
             PROVE  EventInv'
  OBVIOUS
<1>1. CASE Next
  BY <1>1, NextStep, CancelEventStep DEF Permitted
<1>2. CASE UNCHANGED vars
  BY <1>2 DEF vars, EventInv, TypeOK, RowSound, ReqFits, HooksArePaid,
              SessionIsFor, IntentIsFor, Captured, SucceededIntents
<1> QED BY <1>1, <1>2

\* The inductive invariant holds in every reachable state.
THEOREM EventInvariant == Spec => []EventInv
  BY InitInv, Inductive, PTL DEF Spec

\* Every value stays in its type: no start that fails writes a payment back.
THEOREM EventTypeCorrect == Spec => []TypeOK
<1>1. EventInv => TypeOK
  BY DEF EventInv
<1> QED BY <1>1, EventInvariant, PTL

\* A place at an event counts as paid only if it was free or money was captured
\* for that very reservation.
THEOREM EventPaidWasPaidFor == Spec => []PaidIsPaidFor
<1>1. EventInv => PaidIsPaidFor
  BY DEF EventInv, RowSound, PaidIsPaidFor
<1> QED BY <1>1, EventInvariant, PTL

\* Every row after a step that is permitted is the row before it, or lawful.
LEMMA RowAfter ==
    ASSUME EventInv, Permitted, NEW r \in Row
    PROVE  row'[r] = row[r] \/ Lawful(row'[r], r)
<1>1. CASE row' = row
  BY <1>1
<1>2. CASE \E r2 \in Row : \E x \in RowRecord :
              row' = [row EXCEPT ![r2] = x] /\ Lawful(x, r2)
  <2>1. PICK r2 \in Row, x \in RowRecord :
              row' = [row EXCEPT ![r2] = x] /\ Lawful(x, r2)
    BY <1>2
  <2>2. row'[r] = IF r = r2 THEN x ELSE row[r]
    BY <2>1 DEF EventInv, TypeOK
  <2> QED BY <2>1, <2>2
<1> QED BY <1>1, <1>2 DEF Permitted

\* A recorded payment is lost only to the clean-up of a failed start.
THEOREM EventPaymentsAreKept == Spec => PaidIsLostOnlyByCleanUp
<1> DEFINE Step == \A r \in Row : row[r].status = "paid" /\ row'[r].status # "paid" =>
                      CleanUpRestores(r) \/ CleanUpDeletes(r)
<1>1. EventInv /\ [Next]_vars => [Step]_vars
  <2> SUFFICES ASSUME EventInv, Next, NEW r \in Row,
                      row[r].status = "paid", row'[r].status # "paid"
               PROVE  CleanUpRestores(r) \/ CleanUpDeletes(r)
    OBVIOUS
  <2>1. row' # row
    OBVIOUS
  <2>2. Permitted
    BY <2>1, NextStep, CancelEventStep
  <2>3. Lawful(row'[r], r)
    BY <2>2, RowAfter
  <2> QED BY <2>3 DEF Lawful, LosesPaymentByRight
<1> QED
  BY <1>1, EventInvariant, PTL DEF Spec, PaidIsLostOnlyByCleanUp

\* What the owner or the guest canceled becomes valid again only when captured
\* money is first recorded, when its webhook comes, by the guest's restore link
\* or by the member's own new request.
THEOREM CanceledRowsComeBackByRight == Spec => CanceledComesBackByRight
<1> DEFINE Step == \A r \in Row : row[r].canceled /\ Exists(row'[r]) /\ ~row'[r].canceled =>
                      \/ /\ row[r].status # "paid" /\ row'[r].status = "paid"
                         /\ Captured(r)
                      \/ \E s \in Session : ses[s].row = r /\ Webhook(s)
                      \/ RestoreRow(r)
                      \/ \E q \in Req : Reserve(q, r)
<1>1. EventInv /\ [Next]_vars => [Step]_vars
  <2> SUFFICES ASSUME EventInv, Next, NEW r \in Row,
                      row[r].canceled, Exists(row'[r]), ~row'[r].canceled
               PROVE  \/ /\ row[r].status # "paid" /\ row'[r].status = "paid"
                         /\ Captured(r)
                      \/ \E s \in Session : ses[s].row = r /\ Webhook(s)
                      \/ RestoreRow(r)
                      \/ \E q \in Req : Reserve(q, r)
    OBVIOUS
  <2>1. row' # row
    OBVIOUS
  <2>2. Permitted
    BY <2>1, NextStep, CancelEventStep
  <2>3. Lawful(row'[r], r)
    BY <2>2, RowAfter
  <2> QED BY <2>3 DEF Lawful, ComesBackByRight
<1> QED
  BY <1>1, EventInvariant, PTL DEF Spec, CanceledComesBackByRight

\* An event is canceled when nobody is left, and nobody comes in afterwards but
\* by captured money or a restore link.
THEOREM CanceledEventsStayEmpty == Spec => CanceledEventStaysEmpty
<1> DEFINE Step == canceled' =>
                      \A r \in Row : Open(row'[r]) =>
                         /\ canceled
                         /\ \/ Open(row[r])
                            \/ row'[r].status = "paid" /\ Captured(r)
                            \/ RestoreRow(r)
<1>1. EventInv /\ [Next]_vars => [Step]_vars
  <2> SUFFICES ASSUME EventInv, Next, canceled', NEW r \in Row, Open(row'[r])
               PROVE  /\ canceled
                      /\ \/ Open(row[r])
                         \/ row'[r].status = "paid" /\ Captured(r)
                         \/ RestoreRow(r)
    OBVIOUS
  <2>1. CASE CancelEvent
    <3>1. ~Open(row[r])
      BY <2>1 DEF CancelEvent, NoOpenReservation, Open
    <3> QED BY <2>1, <3>1, CancelEventStep
  <2>2. CASE Permitted
    <3>1. canceled' = canceled
      BY <2>2 DEF Permitted
    <3>2. row'[r] = row[r] \/ Lawful(row'[r], r)
      BY <2>2, RowAfter
    <3> QED BY <3>1, <3>2 DEF Lawful, OpensByRight
  <2> QED BY <2>1, <2>2, NextStep
<1> QED
  BY <1>1, EventInvariant, PTL DEF Spec, CanceledEventStaysEmpty

\* One more than the other places taken is within the limit.
LEMMA PlacesCounted ==
    ASSUME NEW r \in Row, EventHasSpots(r), NEW T,
           T \subseteq (SpotsTaken(row) \ {r}) \cup {r}
    PROVE  Cardinality(T) <= Limit
<1> DEFINE others == SpotsTaken(row) \ {r}
<1>1. IsFiniteSet(others)
  BY EventAssumption, FS_Subset, others \subseteq Row DEF SpotsTaken
<1> HIDE DEF others
<1>2. /\ IsFiniteSet(others \cup {r}) /\ Cardinality(others) \in Nat
      /\ Cardinality(others \cup {r}) <= Cardinality(others) + 1
  BY <1>1, FS_AddElement, FS_CardinalityType
<1>3. Cardinality(T) <= Cardinality(others \cup {r}) /\ Cardinality(T) \in Nat
      /\ Cardinality(others \cup {r}) \in Nat
  BY <1>2, FS_Subset, FS_CardinalityType DEF others
<1>4. Cardinality(others) + 1 <= Limit
  BY DEF EventHasSpots, others
<1> QED BY <1>2, <1>3, <1>4, EventAssumption

\* The event passes its limit only by a payment for a row that was not counted,
\* a restore link, or the clean-up of a failed start.
THEOREM EventOverfullOnlyByThree == Spec => OverfullOnlyByUncheckedWrite
<1> DEFINE Step == \/ SpotsTaken(row)' \subseteq SpotsTaken(row)
                   \/ Cardinality(SpotsTaken(row)') <= Limit
                   \/ \E r \in Row : \/ UncountedPayment(r)
                                     \/ CleanUpRestores(r)
                                     \/ RestoreRow(r)
<1>1. EventInv /\ [Next]_vars => [Step]_vars
  <2> SUFFICES ASSUME EventInv, Next,
                      ~(SpotsTaken(row)' \subseteq SpotsTaken(row)),
                      \A r \in Row : /\ ~UncountedPayment(r)
                                    /\ ~CleanUpRestores(r)
                                    /\ ~RestoreRow(r)
               PROVE  Cardinality(SpotsTaken(row)') <= Limit
    OBVIOUS
  <2>1. PICK r \in Row : HoldsSpot(row'[r]) /\ ~HoldsSpot(row[r])
    BY DEF SpotsTaken
  <2>2. Permitted
    BY <2>1, NextStep, CancelEventStep
  <2>3. PICK r2 \in Row, x \in RowRecord :
              row' = [row EXCEPT ![r2] = x] /\ Lawful(x, r2)
    BY <2>1, <2>2 DEF Permitted
  <2>4. \A r3 \in Row : row'[r3] = IF r3 = r2 THEN x ELSE row[r3]
    BY <2>3 DEF EventInv, TypeOK
  <2>5. r2 = r
    BY <2>1, <2>4
  <2>6. EventHasSpots(r)
    BY <2>1, <2>3, <2>4, <2>5 DEF Lawful, TakesPlaceByRight, UncountedPayment
  <2>7. SpotsTaken(row)' \subseteq (SpotsTaken(row) \ {r}) \cup {r}
    BY <2>4, <2>5 DEF SpotsTaken
  <2> QED BY <2>6, <2>7, PlacesCounted
<1> QED
  BY <1>1, EventInvariant, PTL DEF Spec, OverfullOnlyByUncheckedWrite
=============================================================================
