-------------------------- MODULE MemberTicketsProofs --------------------------
(***************************************************************************)
(* Proofs about MemberTickets, for any members, lessons, grants, requests  *)
(* and bounds.                                                             *)
(***************************************************************************)
EXTENDS MemberTickets, FiniteSetTheorems, TLAPS

LEMMA Members ==
    /\ 0 \in 0..MaxStamp /\ 0 \in 0..MaxIntent /\ 0 \in 0..MaxSession
    /\ Intent \subseteq 0..MaxIntent /\ Session \subseteq 0..MaxSession
    /\ 0 \notin Intent /\ 0 \notin Session
    /\ AnyRow \in Row /\ AnySlot \in Slot
  BY MemberAssumption DEF Intent, Session, AnyRow, AnySlot

LEMMA Blank ==
    /\ NoRow \in RowRecord
    /\ NoUsage \in UsageRecord
    /\ Idle \in ReqRecord
<1>1. NoRow \in RowRecord
  BY Members DEF NoRow, RowRecord, RowStatus, None
<1>2. NoUsage \in UsageRecord
  BY DEF NoUsage, UsageRecord
<1>3. Idle \in ReqRecord
  BY Members DEF Idle, ReqRecord, ReqPC, None
<1> QED BY <1>1, <1>2, <1>3

-----------------------------------------------------------------------------
(* The purchases of tickets.                                               *)

\* A purchase that is not paid has made no grant, and nothing reports a
\* purchase whose request still holds it unpaid.
PurchaseInv ==
    \A p \in Purchase :
        /\ purchase[p].status # "paid" => granted[p] = 0
        /\ purchase[p].pc \in {"zero", "charge", "land", "page"} =>
              purchase[p].status = "pending" /\ purchase[p].page = "none"
        /\ purchase[p].status = "none" => purchase[p].page = "none"
        /\ purchase[p].page = "none" => purchase[p].hook = "none"

PurchasesSound == P!TypeOK /\ PurchaseInv

LEMMA PurchasesInit == P!Init => PurchasesSound
<1> SUFFICES ASSUME P!Init
             PROVE  PurchasesSound
  OBVIOUS
<1>1. P!TypeOK
  BY DEF P!Init, P!TypeOK, P!PurchaseRecord, P!NoPurchase
<1>2. PurchaseInv
  BY TicketsAssumption DEF P!Init, PurchaseInv, P!NoPurchase
<1> QED BY <1>1, <1>2 DEF PurchasesSound

\* A grant is made by the step that marks its purchase paid, once.
Issues(p) ==
    /\ granted[p] = 0
    /\ granted' = [granted EXCEPT ![p] = 1]

LEMMA PurchaseWrites ==
    ASSUME NEW x \in P!PurchaseRecord
    PROVE  /\ \A f \in BOOLEAN, pc \in {"zero", "charge"} :
                [x EXCEPT !.status = "pending", !.free = f, !.pc = pc]
                  \in P!PurchaseRecord
           /\ \A c \in {"none", "processing", "refused", "succeeded"} :
                /\ [x EXCEPT !.charge = c] \in P!PurchaseRecord
                /\ \A pc \in {"land", "page"} :
                      [x EXCEPT !.charge = c, !.pc = pc] \in P!PurchaseRecord
           /\ \A st \in {"paid", "gone"} :
                [x EXCEPT !.status = st, !.pc = "idle"] \in P!PurchaseRecord
           /\ [x EXCEPT !.pc = "store", !.page = "open"] \in P!PurchaseRecord
           /\ \A g \in {"none", "open", "shown", "paid", "expired"} :
                [x EXCEPT !.pc = "idle", !.session = TRUE, !.page = g]
                  \in P!PurchaseRecord
           /\ [x EXCEPT !.pc = "idle"] \in P!PurchaseRecord
           /\ [x EXCEPT !.page = "paid", !.hook = "pending"] \in P!PurchaseRecord
           /\ [x EXCEPT !.page = "expired"] \in P!PurchaseRecord
           /\ \A h \in {"pending", "over"} :
                /\ [x EXCEPT !.hook = h] \in P!PurchaseRecord
                /\ [x EXCEPT !.hook = h, !.status = "paid"] \in P!PurchaseRecord
  BY DEF P!PurchaseRecord

\* One purchase changes by a value of its type.
LEMMA PurchaseChanges ==
    ASSUME PurchasesSound, NEW p \in Purchase, NEW x \in P!PurchaseRecord,
           purchase' = [purchase EXCEPT ![p] = x],
           UNCHANGED granted \/ Issues(p),
           x.status # "paid" => granted'[p] = 0,
           x.pc \in {"zero", "charge", "land", "page"} =>
              x.status = "pending" /\ x.page = "none",
           x.status = "none" => x.page = "none",
           x.page = "none" => x.hook = "none"
    PROVE  PurchasesSound'
<1> USE TicketsAssumption DEF PurchasesSound, P!TypeOK
<1>1. P!TypeOK'
  BY DEF Issues
<1>2. PurchaseInv'
  BY DEF Issues, PurchaseInv
<1> QED BY <1>1, <1>2

LEMMA PurchaseStep ==
    ASSUME PurchasesSound, P!Next
    PROVE  /\ PurchasesSound'
           /\ UNCHANGED granted \/ \E p \in Purchase : Issues(p)
<1>1. PICK p \in Purchase :
        \/ P!CreatePurchase(p) \/ P!GrantFree(p) \/ P!ChargeCard(p)
        \/ P!FulfillCharged(p) \/ P!OpenPurchasePage(p) \/ P!DeletePurchase(p)
        \/ P!StorePurchasePage(p) \/ P!CrashPurchase(p) \/ P!PayPurchase(p)
        \/ P!ExpirePurchase(p) \/ P!FulfillWebhook(p) \/ P!LosePurchaseWebhook(p)
        \/ P!SettleCharge(p)
  BY DEF P!Next
<1> DEFINE x == purchase[p]
<1>2. x \in P!PurchaseRecord /\ granted \in [Grant -> 0..1] /\ p \in Grant
  BY TicketsAssumption DEF PurchasesSound, P!TypeOK
<1>3. /\ x.status # "paid" => granted[p] = 0
      /\ x.pc \in {"zero", "charge", "land", "page"} =>
            x.status = "pending" /\ x.page = "none"
      /\ x.status = "none" => x.page = "none"
      /\ x.page = "none" => x.hook = "none"
  BY DEF PurchasesSound, PurchaseInv
<1> HIDE DEF x
<1> DEFINE Fits(y) ==
      /\ purchase' = [purchase EXCEPT ![p] = y]
      /\ UNCHANGED granted \/ Issues(p)
      /\ y.status # "paid" => granted'[p] = 0
      /\ y.pc \in {"zero", "charge", "land", "page"} =>
            y.status = "pending" /\ y.page = "none"
      /\ y.status = "none" => y.page = "none"
      /\ y.page = "none" => y.hook = "none"
<1> SUFFICES \E y \in P!PurchaseRecord : Fits(y)
  BY PurchaseChanges
<1>4. CASE P!CreatePurchase(p)
  <2>1. PICK free \in BOOLEAN :
          purchase' = [purchase EXCEPT ![p] = [x EXCEPT !.status = "pending", !.free = free,
                            !.pc = IF free THEN "zero" ELSE "charge"]]
    BY <1>4 DEF P!CreatePurchase, x
  <2> DEFINE y == [x EXCEPT !.status = "pending", !.free = free,
                            !.pc = IF free THEN "zero" ELSE "charge"]
  <2>2. y \in P!PurchaseRecord
    BY <1>2, PurchaseWrites
  <2>3. Fits(y)
    BY <1>4, <2>1, <1>2, <1>3 DEF P!PurchaseRecord, P!CreatePurchase, x
  <2> QED BY <2>2, <2>3
<1>5. CASE P!ChargeCard(p)
  <2>1. PICK c \in {"none", "processing", "refused", "succeeded"} :
          purchase' = [purchase EXCEPT ![p] = [x EXCEPT !.charge = c,
                            !.pc = IF c = "succeeded" THEN "land" ELSE "page"]]
    BY <1>5 DEF P!ChargeCard, x
  <2> DEFINE y == [x EXCEPT !.charge = c,
                            !.pc = IF c = "succeeded" THEN "land" ELSE "page"]
  <2>2. y \in P!PurchaseRecord
    BY <1>2, PurchaseWrites
  <2>3. Fits(y)
    BY <1>5, <2>1, <1>2, <1>3 DEF P!PurchaseRecord, P!ChargeCard, x
  <2> QED BY <2>2, <2>3
<1>6. CASE P!OpenPurchasePage(p)
  <2> DEFINE y == [x EXCEPT !.pc = "store", !.page = "open"]
  <2>2. y \in P!PurchaseRecord
    BY <1>2, PurchaseWrites
  <2>3. Fits(y)
    BY <1>6, <1>2, <1>3 DEF P!PurchaseRecord, P!OpenPurchasePage, x
  <2> QED BY <2>2, <2>3
<1>7. CASE P!DeletePurchase(p)
  <2> DEFINE y == [x EXCEPT !.status = "gone", !.pc = "idle"]
  <2>2. y \in P!PurchaseRecord
    BY <1>2, PurchaseWrites
  <2>3. Fits(y)
    BY <1>7, <1>2, <1>3 DEF P!PurchaseRecord, P!DeletePurchase, x
  <2> QED BY <2>2, <2>3
<1>8. CASE P!StorePurchasePage(p)
  <2> DEFINE y == [x EXCEPT !.pc = "idle", !.session = TRUE,
                            !.page = IF @ = "open" THEN "shown" ELSE @]
  <2>2. y \in P!PurchaseRecord
    <3>1. x.page \in {"none", "open", "shown", "paid", "expired"}
      BY <1>2 DEF P!PurchaseRecord
    <3>2. (IF x.page = "open" THEN "shown" ELSE x.page)
             \in {"none", "open", "shown", "paid", "expired"}
      BY <3>1
    <3> QED BY <1>2, <3>2, PurchaseWrites
  <2>3. Fits(y)
    BY <1>8, <1>2, <1>3 DEF P!PurchaseRecord, P!StorePurchasePage, x
  <2> QED BY <2>2, <2>3
<1>9. CASE P!CrashPurchase(p)
  <2> DEFINE y == [x EXCEPT !.pc = "idle"]
  <2>2. y \in P!PurchaseRecord
    BY <1>2, PurchaseWrites
  <2>3. Fits(y)
    BY <1>9, <1>2, <1>3 DEF P!PurchaseRecord, P!CrashPurchase, x
  <2> QED BY <2>2, <2>3
<1>10. CASE P!PayPurchase(p)
  <2> DEFINE y == [x EXCEPT !.page = "paid", !.hook = "pending"]
  <2>2. y \in P!PurchaseRecord
    BY <1>2, PurchaseWrites
  <2>3. Fits(y)
    BY <1>10, <1>2, <1>3 DEF P!PurchaseRecord, P!PayPurchase, x
  <2> QED BY <2>2, <2>3
<1>11. CASE P!ExpirePurchase(p)
  <2> DEFINE y == [x EXCEPT !.page = "expired"]
  <2>2. y \in P!PurchaseRecord
    BY <1>2, PurchaseWrites
  <2>3. Fits(y)
    BY <1>11, <1>2, <1>3 DEF P!PurchaseRecord, P!ExpirePurchase, x
  <2> QED BY <2>2, <2>3
<1>12. CASE P!LosePurchaseWebhook(p)
  <2> DEFINE y == [x EXCEPT !.hook = "over"]
  <2>2. y \in P!PurchaseRecord
    BY <1>2, PurchaseWrites
  <2>3. Fits(y)
    BY <1>12, <1>2, <1>3 DEF P!PurchaseRecord, P!LosePurchaseWebhook, x
  <2> QED BY <2>2, <2>3
<1>13. CASE P!GrantFree(p) \/ P!FulfillCharged(p)
  <2> DEFINE y == [x EXCEPT !.status = "paid", !.pc = "idle"]
  <2>2. y \in P!PurchaseRecord
    BY <1>2, PurchaseWrites
  <2>3. Fits(y)
    BY <1>13, <1>2, <1>3 DEF P!PurchaseRecord, P!Fulfilled, x, P!GrantFree, P!FulfillCharged, Issues
  <2> QED BY <2>2, <2>3
<1>14. CASE P!FulfillWebhook(p)
  <2>1. PICK h \in {"pending", "over"} :
          IF x.status = "pending"
            THEN /\ purchase' = [purchase EXCEPT ![p] = [x EXCEPT !.hook = h, !.status = "paid"]]
                 /\ granted' = [granted EXCEPT ![p] = @ + 1]
            ELSE /\ purchase' = [purchase EXCEPT ![p] = [x EXCEPT !.hook = h]]
                 /\ UNCHANGED granted
    BY <1>14 DEF P!FulfillWebhook, x
  <2>2. x.hook = "pending"
    BY <1>14 DEF P!FulfillWebhook, x
  <2>3. CASE x.status = "pending"
    <3> DEFINE y == [x EXCEPT !.hook = h, !.status = "paid"]
    <3>1. y \in P!PurchaseRecord
      BY <1>2, PurchaseWrites
    <3>2. Fits(y)
      BY <1>2, <1>3, <2>1, <2>2, <2>3 DEF P!PurchaseRecord, Issues
    <3> QED BY <3>1, <3>2
  <2>4. CASE x.status # "pending"
    <3> DEFINE y == [x EXCEPT !.hook = h]
    <3>1. y \in P!PurchaseRecord
      BY <1>2, PurchaseWrites
    <3>2. Fits(y)
      BY <1>2, <1>3, <2>1, <2>2, <2>4 DEF P!PurchaseRecord
    <3> QED BY <3>1, <3>2
  <2> QED BY <2>3, <2>4
<1>15. CASE P!SettleCharge(p)
  <2>1. PICK c \in {"refused", "succeeded"} :
          purchase' = [purchase EXCEPT ![p] = [x EXCEPT !.charge = c]]
    BY <1>15 DEF P!SettleCharge, x
  <2> DEFINE y == [x EXCEPT !.charge = c]
  <2>2. y \in P!PurchaseRecord
    BY <1>2, PurchaseWrites
  <2>3. Fits(y)
    BY <1>15, <2>1, <1>2, <1>3 DEF P!PurchaseRecord, P!SettleCharge, x
  <2> QED BY <2>2, <2>3
<1> QED
  BY <1>1, <1>4, <1>5, <1>6, <1>7, <1>8, <1>9, <1>10, <1>11, <1>12, <1>13, <1>14,
     <1>15

-----------------------------------------------------------------------------
(* Types of what the requests for reservations write.                      *)

LEMMA RowWrites ==
    ASSUME NEW x \in RowRecord
    PROVE  /\ [x EXCEPT !.status = "paid", !.deleted = FALSE] \in RowRecord
           /\ \A i \in Intent :
                /\ [x EXCEPT !.status = "paid", !.deleted = FALSE, !.intent = i]
                      \in RowRecord
                /\ [x EXCEPT !.status = "paid", !.intent = i, !.deleted = FALSE]
                      \in RowRecord
                /\ [x EXCEPT !.status = "paid", !.intent = i] \in RowRecord
                /\ [x EXCEPT !.intent = i] \in RowRecord
           /\ \A s \in Session :
                /\ [x EXCEPT !.session = s] \in RowRecord
                /\ [x EXCEPT !.status = "paid", !.deleted = FALSE, !.session = s]
                      \in RowRecord
           /\ \A d \in BOOLEAN :
                /\ [x EXCEPT !.deleted = d] \in RowRecord
                /\ [x EXCEPT !.canceled = d] \in RowRecord
           /\ [x EXCEPT !.refunded = TRUE, !.canceled = TRUE] \in RowRecord
  BY Members DEF RowRecord, RowStatus

LEMMA RowNews ==
    /\ [NoRow EXCEPT !.status = "gone"] \in RowRecord
    /\ \A f \in BOOLEAN :
          /\ [[NoRow EXCEPT !.refunded = f] EXCEPT !.status = "paid", !.ticket = TRUE]
                \in RowRecord
          /\ \A n \in 0..MaxStamp :
                [[NoRow EXCEPT !.refunded = f] EXCEPT !.status = "unpaid", !.stamp = n]
                  \in RowRecord
  BY Members DEF NoRow, RowRecord, RowStatus, None

LEMMA ReqWrites ==
    ASSUME NEW y \in ReqRecord
    PROVE  /\ \A pc \in ReqPC : [y EXCEPT !.pc = pc] \in ReqRecord
           /\ \A pc \in ReqPC, i \in Intent :
                [y EXCEPT !.pc = pc, !.intent = i] \in ReqRecord
           /\ \A pc \in ReqPC, s \in Session :
                [y EXCEPT !.pc = pc, !.session = s] \in ReqRecord
           /\ \A pc \in ReqPC, sl \in Slot, r \in Row, n \in 0..MaxStamp :
                [y EXCEPT !.pc = pc, !.slot = sl, !.row = r, !.stamp = n]
                  \in ReqRecord
           /\ \A pc \in ReqPC, sl \in Slot, r \in Row, G \in SUBSET Grant :
                [y EXCEPT !.pc = pc, !.slot = sl, !.row = r, !.left = G]
                  \in ReqRecord
  BY Members DEF ReqRecord

LEMMA MemberTyped ==
    ASSUME TypeOK
    PROVE  /\ \A r \in Row : row[r] \in RowRecord /\ usage[r] \in UsageRecord
           /\ \A q \in Req : req[q] \in ReqRecord
           /\ \A i \in Intent : int[i] \in IntentRecord
           /\ \A s \in Session : ses[s] \in SessionRecord
  BY DEF TypeOK

LEMMA InitType == Init => TypeOK
<1> SUFFICES ASSUME Init
             PROVE  TypeOK
  OBVIOUS
<1>1. row \in [Row -> RowRecord] /\ usage \in [Row -> UsageRecord]
      /\ req \in [Req -> ReqRecord]
  BY Blank DEF Init
<1>2. int \in [Intent -> IntentRecord]
  BY Members DEF Init, IntentRecord
<1>3. ses \in [Session -> SessionRecord]
  BY Members DEF Init, SessionRecord
<1> QED BY <1>1, <1>2, <1>3 DEF Init, TypeOK

-----------------------------------------------------------------------------
(* The inductive invariant of the reservations.                            *)

\* there is money at Stripe for r, or nothing was due
MoneyFor(r) ==
    SlotOf[r] \in Free \/ SucceededIntents(r) # {} \/ PaidSessions(r) # {}

\* A row knows only payments that are for it, and agrees with the ledger.
RowSound(r) ==
    /\ row[r].session # None => /\ ses[row[r].session].status # "none"
                                /\ ses[row[r].session].row = r
    /\ row[r].intent # None => /\ int[row[r].intent].status # "none"
                               /\ int[row[r].intent].row = r
    /\ row[r].ticket => row[r].status = "paid"
    /\ usage[r].grant # NoGrant <=> row[r].ticket
    /\ usage[r].back <=> row[r].refunded
    /\ usage[r].back => row[r].ticket
    /\ row[r].status = "paid" => MoneyFor(r) \/ row[r].ticket

\* What a request remembers of Stripe is about its row.
ReqSound(q) ==
    req[q].pc # "idle" =>
        /\ SlotOf[req[q].row] = req[q].slot
        /\ req[q].pc = "zero" => req[q].slot \in Free
        /\ req[q].pc = "land" => /\ req[q].intent \in Intent
                                 /\ int[req[q].intent].status = "succeeded"
                                 /\ int[req[q].intent].row = req[q].row
        /\ req[q].pc = "store" => /\ req[q].session \in Session
                                  /\ ses[req[q].session].status # "none"
                                  /\ ses[req[q].session].row = req[q].row

\* A request that has counted tickets holds a row that is not paid, and its
\* count is still right.
SpendSound(q) ==
    req[q].pc = "spend" =>
        /\ row[req[q].row].status \in {"none", "unpaid"}
        /\ req[q].left \subseteq Usable[req[q].slot]
        /\ \A g \in req[q].left :
              Cardinality(Spent(g)) < granted[g] * Quantity[g]

\* Two such requests hold different slots and different grants.
Apart ==
    \A q1, q2 \in Req :
        q1 # q2 /\ req[q1].pc = "spend" /\ req[q2].pc = "spend" =>
            /\ req[q1].slot # req[q2].slot
            /\ Usable[req[q1].slot] \cap Usable[req[q2].slot] = {}

HooksPaid == \A s \in Session : ses[s].hook = "pending" => ses[s].status = "paid"

NothingOverspent ==
    \A g \in Grant : Cardinality(Spent(g)) <= granted[g] * Quantity[g]

MemberInv ==
    /\ TypeOK
    /\ \A r \in Row : RowSound(r)
    /\ \A q \in Req : ReqSound(q) /\ SpendSound(q)
    /\ Apart
    /\ HooksPaid
    /\ NothingOverspent

\* Stripe forgets neither what a payment is for nor that it was made.
StripeKept ==
    /\ \A i \in Intent :
          /\ int[i].status # "none" =>
                int'[i].status # "none" /\ int'[i].row = int[i].row
          /\ int[i].status = "succeeded" => int'[i].status = "succeeded"
    /\ \A s \in Session :
          /\ ses[s].status # "none" =>
                ses'[s].status # "none" /\ ses'[s].row = ses[s].row
          /\ ses[s].status = "paid" => ses'[s].status = "paid"

\* No request that counts tickets loses its row to the step.
SpendersKept ==
    \A q \in Req : req[q].pc = "spend" =>
        row'[req[q].row].status \in {"none", "unpaid"}

LEMMA KeptMoney ==
    ASSUME MemberInv, StripeKept, NEW r \in Row, MoneyFor(r)
    PROVE  MoneyFor(r)'
<1>1. \A i \in SucceededIntents(r) : int'[i].status = "succeeded" /\ int'[i].row = r
  BY DEF StripeKept, SucceededIntents
<1>2. \A s \in PaidSessions(r) : ses'[s].status = "paid" /\ ses'[s].row = r
  BY DEF StripeKept, PaidSessions
<1> QED
  BY <1>1, <1>2 DEF MoneyFor, SucceededIntents, PaidSessions

LEMMA KeptRow ==
    ASSUME MemberInv, StripeKept, NEW r \in Row, row'[r] = row[r],
           usage'[r] = usage[r]
    PROVE  RowSound(r)'
<1>1. RowSound(r) /\ row[r] \in RowRecord
  BY MemberTyped DEF MemberInv
<1>2. row[r].session # None => row[r].session \in Session
  BY <1>1, MemberAssumption DEF RowRecord, None, Session
<1>3. row[r].intent # None => row[r].intent \in Intent
  BY <1>1, MemberAssumption DEF RowRecord, None, Intent
<1>4. MoneyFor(r) => MoneyFor(r)'
  BY KeptMoney
<1> HIDE DEF MoneyFor
<1> QED
  BY <1>1, <1>2, <1>3, <1>4 DEF RowSound, StripeKept

LEMMA KeptReq ==
    ASSUME MemberInv, StripeKept, NEW q \in Req, req'[q] = req[q]
    PROVE  ReqSound(q)'
  BY DEF MemberInv, ReqSound, StripeKept

\* A step that spends and returns no ticket.
LEMMA QuietStep ==
    ASSUME MemberInv, TypeOK', UNCHANGED <<usage, granted>>, StripeKept,
           HooksPaid', SpendersKept,
           \A r \in Row : row'[r] = row[r] \/ RowSound(r)',
           \A q \in Req : \/ req'[q] = req[q]
                          \/ req'[q].pc = "idle"
                          \/ req'[q].pc # "spend" /\ ReqSound(q)'
    PROVE  MemberInv'
<1>1. \A r \in Row : RowSound(r)'
  BY KeptRow
<1>2. \A q \in Req : ReqSound(q)'
  BY KeptReq DEF ReqSound
<1>3. \A g : Spent(g)' = Spent(g)
  BY DEF Spent
<1>4. \A q \in Req : req'[q].pc = "spend" => req'[q] = req[q]
  OBVIOUS
<1>5. \A q \in Req : SpendSound(q)'
  BY <1>3, <1>4 DEF MemberInv, SpendSound, SpendersKept
<1>6. Apart'
  BY <1>4 DEF MemberInv, Apart
<1>7. NothingOverspent'
  BY <1>3 DEF MemberInv, NothingOverspent
<1> QED
  BY <1>1, <1>2, <1>5, <1>6, <1>7 DEF MemberInv

-----------------------------------------------------------------------------
(* The steps of the reservations.                                          *)

\* x may replace the row of r: it holds no ticket more or less, and what it
\* knows of Stripe is about r.
Replaces(x, r) ==
    /\ x.ticket = row[r].ticket
    /\ x.refunded = row[r].refunded
    /\ x.session # None /\ x.session # row[r].session =>
          /\ x.session \in Session
          /\ ses[x.session].status # "none"
          /\ ses[x.session].row = r
    /\ x.intent # None /\ x.intent # row[r].intent =>
          /\ x.intent \in Intent
          /\ int[x.intent].status # "none"
          /\ int[x.intent].row = r
    /\ x.ticket => x.status = "paid"
    /\ x.status = "paid" => row[r].status = "paid" \/ MoneyFor(r)

LEMMA ReplacedRow ==
    ASSUME MemberInv, StripeKept, UNCHANGED usage,
           NEW r \in Row, NEW x \in RowRecord, Replaces(x, r), row'[r] = x
    PROVE  RowSound(r)'
<1>1. RowSound(r) /\ row[r] \in RowRecord
  BY MemberTyped DEF MemberInv
<1>2. row[r].session # None => row[r].session \in Session
  BY <1>1, MemberAssumption DEF RowRecord, None, Session
<1>3. row[r].intent # None => row[r].intent \in Intent
  BY <1>1, MemberAssumption DEF RowRecord, None, Intent
<1>4. MoneyFor(r) => MoneyFor(r)'
  BY KeptMoney
<1>5. x.session # None => ses'[x.session].status # "none" /\ ses'[x.session].row = r
  BY <1>1, <1>2 DEF RowSound, Replaces, StripeKept
<1>6. x.intent # None => int'[x.intent].status # "none" /\ int'[x.intent].row = r
  BY <1>1, <1>3 DEF RowSound, Replaces, StripeKept
<1>7. x.status = "paid" => MoneyFor(r)' \/ x.ticket
  BY <1>1, <1>4 DEF RowSound, Replaces
<1> HIDE DEF MoneyFor
<1> QED
  BY <1>1, <1>5, <1>6, <1>7 DEF RowSound, Replaces

\* One row is replaced, by a step that spends and returns no ticket.
LEMMA RowStep ==
    ASSUME MemberInv, UNCHANGED <<usage, granted>>, StripeKept, HooksPaid',
           NEW r \in Row, NEW x \in RowRecord, Replaces(x, r),
           row' = [row EXCEPT ![r] = x],
           row[r].status # x.status =>
              \A q \in Req : req[q].pc = "spend" => req[q].row # r,
           req' \in [Req -> ReqRecord], int' \in [Intent -> IntentRecord],
           ses' \in [Session -> SessionRecord], overlap' \subseteq Slot,
           \A q \in Req : \/ req'[q] = req[q]
                          \/ req'[q].pc = "idle"
                          \/ req'[q].pc # "spend" /\ ReqSound(q)'
    PROVE  MemberInv'
<1>1. TypeOK'
  BY DEF MemberInv, TypeOK
<1>2. \A r2 \in Row : row'[r2] = IF r2 = r THEN x ELSE row[r2]
  BY DEF MemberInv, TypeOK
<1>3. RowSound(r)'
  BY <1>2, ReplacedRow
<1>4. \A q \in Req : req[q].row \in Row
  BY MemberTyped DEF MemberInv, ReqRecord
<1>5. SpendersKept
  BY <1>2, <1>4 DEF MemberInv, SpendSound, SpendersKept
<1> QED
  BY <1>1, <1>2, <1>3, <1>5, QuietStep

LEMMA StripeSame ==
    ASSUME MemberInv, UNCHANGED <<int, ses>>
    PROVE  /\ StripeKept /\ HooksPaid'
           /\ int' \in [Intent -> IntentRecord]
           /\ ses' \in [Session -> SessionRecord]
  BY DEF MemberInv, TypeOK, StripeKept, HooksPaid

\* Whoever waits for the lock of a slot writes no row that a request spends on.
LEMMA NotLocked ==
    ASSUME MemberInv, NEW r \in Row, ~Locked(SlotOf[r])
    PROVE  \A q \in Req : req[q].pc = "spend" => req[q].row # r
  BY DEF MemberInv, ReqSound, Locked

LEMMA SessionMoney ==
    ASSUME MemberInv, NEW r \in Row, row[r].session # None,
           ses[row[r].session].status = "paid"
    PROVE  MoneyFor(r)
<1>1. row[r].session \in Session /\ ses[row[r].session].row = r
  BY MemberTyped, MemberAssumption DEF MemberInv, RowSound, RowRecord, Session, None
<1> QED
  BY <1>1 DEF MoneyFor, PaidSessions

LEMMA RecordedRow ==
    ASSUME MemberInv, NEW r \in Row, row[r].status = "unpaid", StripePaid(r),
           row' \in Recorded(r)
    PROVE  \E x \in RowRecord :
              /\ row' = [row EXCEPT ![r] = x]
              /\ x.status = "paid" /\ ~x.deleted /\ Replaces(x, r)
<1> DEFINE y == row[r]
           a == [y EXCEPT !.status = "paid", !.deleted = FALSE]
           b(i) == [y EXCEPT !.status = "paid", !.deleted = FALSE, !.intent = i]
<1>1. y \in RowRecord
  BY MemberTyped DEF MemberInv
<1>2. CASE y.session # None /\ ses[y.session].status = "paid"
  <2>1. row' = [row EXCEPT ![r] = a]
    BY <1>2 DEF Recorded
  <2>2. a \in RowRecord
    BY <1>1, RowWrites
  <2>3. MoneyFor(r)
    BY <1>2, SessionMoney
  <2>4. Replaces(a, r)
    BY <1>1, <2>3 DEF Replaces, RowRecord
  <2>5. a.status = "paid" /\ ~a.deleted
    BY <1>1 DEF RowRecord
  <2> QED BY <2>1, <2>2, <2>4, <2>5
<1>3. CASE ~(y.session # None /\ ses[y.session].status = "paid")
  <2>1. PICK i \in SucceededIntents(r) : row' = [row EXCEPT ![r] = b(i)]
    BY <1>3 DEF Recorded, Newest
  <2>2. /\ i \in Intent /\ int[i].status = "succeeded" /\ int[i].row = r
        /\ MoneyFor(r)
    BY DEF SucceededIntents, MoneyFor
  <2>3. b(i) \in RowRecord
    BY <1>1, <2>2, RowWrites
  <2>4. Replaces(b(i), r)
    BY <1>1, <2>2 DEF Replaces, RowRecord
  <2>5. b(i).status = "paid" /\ ~b(i).deleted
    BY <1>1 DEF RowRecord
  <2> QED BY <2>1, <2>3, <2>4, <2>5
<1> QED BY <1>2, <1>3

LEMMA FindPaymentStep ==
    ASSUME MemberInv, NEW r \in Row, FindPayment(r)
    PROVE  MemberInv'
<1>1. PICK x \in RowRecord : row' = [row EXCEPT ![r] = x] /\ Replaces(x, r)
  BY RecordedRow DEF FindPayment
<1>2. /\ ~Locked(SlotOf[r])
      /\ UNCHANGED <<usage, granted, req, int, ses, overlap>>
  BY DEF FindPayment
<1> QED
  BY <1>1, <1>2, StripeSame, NotLocked, RowStep DEF MemberInv, TypeOK

LEMMA SessionSteps ==
    ASSUME MemberInv, NEW s \in Session, NEW z \in SessionRecord,
           ses' = [ses EXCEPT ![s] = z], UNCHANGED int,
           ses[s].status # "none" => z.status # "none" /\ z.row = ses[s].row,
           ses[s].status = "paid" => z.status = "paid",
           z.hook = "pending" => z.status = "paid"
    PROVE  /\ StripeKept /\ HooksPaid'
           /\ int' \in [Intent -> IntentRecord]
           /\ ses' \in [Session -> SessionRecord]
  BY DEF MemberInv, TypeOK, StripeKept, HooksPaid

LEMMA IntentSteps ==
    ASSUME MemberInv, NEW i \in Intent, NEW z \in IntentRecord,
           int' = [int EXCEPT ![i] = z], UNCHANGED ses,
           int[i].status # "none" => z.status # "none" /\ z.row = int[i].row,
           int[i].status = "succeeded" => z.status = "succeeded"
    PROVE  /\ StripeKept /\ HooksPaid'
           /\ int' \in [Intent -> IntentRecord]
           /\ ses' \in [Session -> SessionRecord]
  BY DEF MemberInv, TypeOK, StripeKept, HooksPaid

LEMMA SessionWrites ==
    ASSUME NEW z \in SessionRecord
    PROVE  /\ \A st \in {"shown", "expired"} :
                [z EXCEPT !.status = st] \in SessionRecord
           /\ [z EXCEPT !.status = "paid", !.hook = "pending"] \in SessionRecord
           /\ \A h \in {"pending", "over"} : [z EXCEPT !.hook = h] \in SessionRecord
  BY DEF SessionRecord

LEMMA ShowOpenPageStep ==
    ASSUME MemberInv, NEW r \in Row, ShowOpenPage(r)
    PROVE  MemberInv'
<1> DEFINE x == [row[r] EXCEPT !.deleted = FALSE]
           s == row[r].session
           z == [ses[s] EXCEPT !.status = "shown"]
<1>1. row[r] \in RowRecord /\ RowSound(r)
  BY MemberTyped DEF MemberInv
<1>2. s \in Session /\ ses[s].status \in {"open", "shown"} /\ ses[s].row = r
  BY <1>1, MemberAssumption
     DEF ShowOpenPage, StripeOpen, RowSound, RowRecord, Session, None
<1>3. ses[s] \in SessionRecord /\ ses[s].hook # "pending"
  BY <1>2, MemberTyped DEF MemberInv, HooksPaid
<1>4. z \in SessionRecord /\ x \in RowRecord
  BY <1>1, <1>3, SessionWrites, RowWrites
<1>5. z.status = "shown" /\ z.row = ses[s].row /\ z.hook = ses[s].hook
  BY <1>3 DEF SessionRecord
<1>6. ses' = [ses EXCEPT ![s] = z] /\ row' = [row EXCEPT ![r] = x]
  BY DEF ShowOpenPage
<1>7. UNCHANGED <<usage, granted, req, int, overlap>>
  BY DEF ShowOpenPage
<1>8. Replaces(x, r) /\ x.status = row[r].status
  BY <1>1 DEF Replaces, RowRecord, RowSound
<1>9. /\ StripeKept /\ HooksPaid'
      /\ int' \in [Intent -> IntentRecord]
      /\ ses' \in [Session -> SessionRecord]
  <2> HIDE DEF z, s
  <2> QED BY <1>2, <1>3, <1>4, <1>5, <1>6, <1>7, SessionSteps
<1> HIDE DEF x
<1> QED
  BY <1>4, <1>6, <1>7, <1>8, <1>9, RowStep DEF MemberInv, TypeOK

LEMMA TakeableRows ==
    ASSUME MemberInv, NEW sl \in Slot, NEW r \in Takeable(sl)
    PROVE  /\ r \in Row /\ SlotOf[r] = sl
           /\ row[r].status \in {"none", "unpaid"}
           /\ ~row[r].ticket
           /\ usage[r].grant = NoGrant /\ ~usage[r].back
           /\ row[r].refunded = usage[r].back
<1>1. r \in Row /\ SlotOf[r] = sl /\ row[r].status \in {"none", "unpaid"}
  BY DEF Takeable
<1>2. RowSound(r) /\ row[r] \in RowRecord /\ usage[r] \in UsageRecord
  BY <1>1, MemberTyped DEF MemberInv
<1>3. row[r].refunded \in BOOLEAN /\ usage[r].back \in BOOLEAN
  BY <1>2 DEF RowRecord, UsageRecord
<1>4. ~row[r].ticket /\ usage[r].grant = NoGrant /\ ~usage[r].back
  BY <1>1, <1>2 DEF RowSound
<1>5. row[r].refunded <=> usage[r].back
  BY <1>2 DEF RowSound
<1> QED BY <1>1, <1>3, <1>4, <1>5

LEMMA EnterType ==
    ASSUME TypeOK, NEW sl \in Slot, Enter(sl)
    PROVE  overlap' \subseteq Slot
  BY DEF TypeOK, Enter

LEMMA ReserveUnpaidStep ==
    ASSUME MemberInv, NEW q \in Req, NEW sl \in Slot, NEW r \in Row,
           ReserveUnpaid(q, sl, r)
    PROVE  MemberInv'
<1> DEFINE stamp == IF row[r].status = "none" THEN 0 ELSE row[r].stamp + 1
           x == [[NoRow EXCEPT !.refunded = row[r].refunded]
                   EXCEPT !.status = "unpaid", !.stamp = stamp]
           y == [Idle EXCEPT !.pc = IF sl \in Free THEN "zero" ELSE "charge",
                             !.slot = sl, !.row = r, !.stamp = stamp]
<1>1. row[r] \in RowRecord
  BY MemberTyped DEF MemberInv
<1>2. r \in Takeable(sl) /\ ~Locked(sl)
  BY DEF ReserveUnpaid
<1>3. /\ SlotOf[r] = sl /\ ~row[r].ticket
      /\ row[r].status \in {"none", "unpaid"}
  BY <1>2, TakeableRows
<1>4. /\ stamp <= MaxStamp
      /\ row' = [row EXCEPT ![r] = x]
      /\ req' = [req EXCEPT ![q] = y]
      /\ Enter(sl)
      /\ UNCHANGED <<usage, granted, int, ses>>
  BY DEF ReserveUnpaid, Reused
<1>5. stamp \in 0..MaxStamp
  BY <1>1, <1>4, MemberAssumption DEF RowRecord
<1> HIDE DEF stamp
<1>6. x \in RowRecord
  <2>1. row[r].refunded \in BOOLEAN
    BY <1>1 DEF RowRecord
  <2> QED BY <1>5, <2>1, RowNews
<1>7. y \in ReqRecord
  BY <1>5, Blank, ReqWrites DEF ReqPC
<1>8. /\ x.ticket = FALSE /\ x.refunded = row[r].refunded
      /\ x.session = None /\ x.intent = None /\ x.status = "unpaid"
  BY DEF NoRow
<1>9. /\ y.pc \in {"zero", "charge"} /\ y.slot = sl /\ y.row = r
      /\ y.pc = "zero" => sl \in Free
  BY DEF Idle
<1>10. row[r].ticket = FALSE
  BY <1>1, <1>3 DEF RowRecord
<1> HIDE DEF x, y
<1>11. Replaces(x, r)
  BY <1>8, <1>10 DEF Replaces
<1>12. req' \in [Req -> ReqRecord] /\ req'[q] = y
       /\ \A q2 \in Req : q2 # q => req'[q2] = req[q2]
  BY <1>4, <1>7 DEF MemberInv, TypeOK
<1>13. ReqSound(q)'
  BY <1>3, <1>9, <1>12 DEF ReqSound
<1>14. overlap' \subseteq Slot
  BY <1>4, EnterType DEF MemberInv
<1>15. \A q2 \in Req : req[q2].pc = "spend" => req[q2].row # r
  BY <1>2, <1>3, NotLocked
<1> QED
  BY <1>4, <1>6, <1>9, <1>11, <1>12, <1>13, <1>14, <1>15, StripeSame, RowStep

LEMMA ReqFacts ==
    ASSUME MemberInv, NEW q \in Req
    PROVE  /\ req[q] \in ReqRecord /\ req[q].row \in Row
           /\ row[req[q].row] \in RowRecord /\ RowSound(req[q].row)
           /\ ReqSound(q)
<1>1. req[q] \in ReqRecord /\ ReqSound(q)
  BY MemberTyped DEF MemberInv
<1>2. req[q].row \in Row
  BY <1>1 DEF ReqRecord
<1> QED
  BY <1>1, <1>2, MemberTyped DEF MemberInv

LEMMA IdleReq ==
    ASSUME MemberInv, NEW q \in Req, req' = [req EXCEPT ![q] = Idle]
    PROVE  /\ req' \in [Req -> ReqRecord]
           /\ \A q2 \in Req : req'[q2] = req[q2] \/ req'[q2].pc = "idle"
<1>1. Idle \in ReqRecord /\ Idle.pc = "idle"
  BY Blank DEF Idle
<1> QED BY <1>1 DEF MemberInv, TypeOK

\* A step that writes no row, spends no ticket and returns none.
LEMMA RowlessStep ==
    ASSUME MemberInv, UNCHANGED <<row, usage, granted>>, StripeKept, HooksPaid',
           req' \in [Req -> ReqRecord], int' \in [Intent -> IntentRecord],
           ses' \in [Session -> SessionRecord], overlap' \subseteq Slot,
           \A q \in Req : \/ req'[q] = req[q]
                          \/ req'[q].pc = "idle"
                          \/ req'[q].pc # "spend" /\ ReqSound(q)'
    PROVE  MemberInv'
<1>1. TypeOK'
  BY DEF MemberInv, TypeOK
<1>2. SpendersKept
  BY DEF MemberInv, SpendSound, SpendersKept
<1> QED BY <1>1, <1>2, QuietStep

\* A request saves x on its row and ends.
LEMMA SaveStep ==
    ASSUME MemberInv, NEW q \in Req, NEW x \in RowRecord,
           Save(q, [row EXCEPT ![req[q].row] = x]),
           Exists(req[q].row) => Replaces(x, req[q].row),
           UNCHANGED <<usage, granted, overlap>>,
           StripeKept, HooksPaid',
           int' \in [Intent -> IntentRecord], ses' \in [Session -> SessionRecord]
    PROVE  MemberInv'
<1>1. req' = [req EXCEPT ![q] = Idle] /\ ~Locked(SlotOf[req[q].row])
  BY DEF Save
<1>2. overlap' \subseteq Slot /\ req[q].row \in Row
  BY ReqFacts DEF MemberInv, TypeOK
<1>3. CASE Exists(req[q].row)
  <2>1. row' = [row EXCEPT ![req[q].row] = x]
    BY <1>3 DEF Save
  <2> QED
    BY <1>1, <1>2, <1>3, <2>1, IdleReq, NotLocked, RowStep
<1>4. CASE ~Exists(req[q].row)
  <2>1. row' = row
    BY <1>4 DEF Save
  <2> QED
    BY <1>1, <1>2, <2>1, IdleReq, RowlessStep
<1> QED BY <1>3, <1>4

LEMMA SaveFreeStep ==
    ASSUME MemberInv, NEW q \in Req, SaveFree(q)
    PROVE  MemberInv'
<1> DEFINE r == req[q].row
           x == [row[r] EXCEPT !.status = "paid", !.deleted = FALSE]
<1>1. r \in Row /\ row[r] \in RowRecord /\ RowSound(r) /\ SlotOf[r] \in Free
  BY ReqFacts DEF SaveFree, ReqSound
<1>2. x \in RowRecord
  BY <1>1, RowWrites
<1>3. Replaces(x, r)
  BY <1>1 DEF Replaces, RowRecord, MoneyFor
<1>4. Save(q, [row EXCEPT ![r] = x])
  BY DEF SaveFree
<1>5. UNCHANGED <<usage, granted, int, ses, overlap>>
  BY DEF SaveFree
<1> HIDE DEF x
<1> QED
  BY <1>2, <1>3, <1>4, <1>5, StripeSame, SaveStep

LEMMA LandChargeStep ==
    ASSUME MemberInv, NEW q \in Req, LandCharge(q)
    PROVE  MemberInv'
<1> DEFINE r == req[q].row
           i == req[q].intent
           x == [row[r] EXCEPT !.status = "paid", !.intent = i, !.deleted = FALSE]
<1>1. r \in Row /\ row[r] \in RowRecord /\ RowSound(r)
  BY ReqFacts
<1>2. i \in Intent /\ int[i].status = "succeeded" /\ int[i].row = r
  BY ReqFacts DEF LandCharge, ReqSound
<1>3. x \in RowRecord
  BY <1>1, <1>2, RowWrites
<1>4. MoneyFor(r)
  BY <1>2 DEF MoneyFor, SucceededIntents
<1>5. Replaces(x, r)
  BY <1>1, <1>2, <1>4 DEF Replaces, RowRecord
<1>6. Save(q, [row EXCEPT ![r] = x])
  BY DEF LandCharge
<1>7. UNCHANGED <<usage, granted, int, ses, overlap>>
  BY DEF LandCharge
<1> HIDE DEF x
<1> QED
  BY <1>3, <1>5, <1>6, <1>7, StripeSame, SaveStep

LEMMA StorePageStep ==
    ASSUME MemberInv, NEW q \in Req, StorePage(q)
    PROVE  MemberInv'
<1> DEFINE r == req[q].row
           s == req[q].session
           x == [row[r] EXCEPT !.session = s]
           z == [ses[s] EXCEPT !.status =
                   IF @ = "open" /\ Exists(r) THEN "shown" ELSE @]
<1>1. r \in Row /\ row[r] \in RowRecord /\ RowSound(r)
  BY ReqFacts
<1>2. s \in Session /\ ses[s].status # "none" /\ ses[s].row = r
  BY ReqFacts DEF StorePage, ReqSound
<1>3. x \in RowRecord
  BY <1>1, <1>2, RowWrites
<1>4. Replaces(x, r)
  BY <1>1, <1>2 DEF Replaces, RowRecord, RowSound
<1>5. Save(q, [row EXCEPT ![r] = x])
  BY DEF StorePage
<1>6. UNCHANGED <<usage, granted, int, overlap>> /\ ses' = [ses EXCEPT ![s] = z]
  BY DEF StorePage
<1>7. ses[s] \in SessionRecord /\ (ses[s].hook = "pending" => ses[s].status = "paid")
  BY <1>2, MemberTyped DEF MemberInv, HooksPaid
<1>8. CASE ses[s].status = "open" /\ Exists(r)
  <2>1. z \in SessionRecord
    BY <1>7, <1>8, SessionWrites
  <2>2. z.status = "shown" /\ z.row = ses[s].row /\ z.hook = ses[s].hook
    BY <1>7, <1>8 DEF SessionRecord
  <2> HIDE DEF z, x
  <2> QED
    BY <1>2, <1>3, <1>4, <1>5, <1>6, <1>7, <1>8, <2>1, <2>2, SessionSteps, SaveStep
<1>9. CASE ~(ses[s].status = "open" /\ Exists(r))
  <2>1. z = ses[s]
    BY <1>7, <1>9 DEF SessionRecord
  <2> HIDE DEF z, x
  <2> QED
    BY <1>2, <1>3, <1>4, <1>5, <1>6, <1>7, <2>1, SessionSteps, SaveStep
<1> QED BY <1>8, <1>9

\* A request goes on to y.
LEMMA ReqChanges ==
    ASSUME MemberInv, NEW q \in Req, NEW y \in ReqRecord,
           req' = [req EXCEPT ![q] = y]
    PROVE  /\ req' \in [Req -> ReqRecord]
           /\ req'[q] = y
           /\ \A q2 \in Req : q2 # q => req'[q2] = req[q2]
  BY DEF MemberInv, TypeOK

LEMMA ChargeSavedCardStep ==
    ASSUME MemberInv, NEW q \in Req, ChargeSavedCard(q)
    PROVE  MemberInv'
<1>1. /\ req[q].pc = "charge"
      /\ UNCHANGED <<row, usage, granted, ses, overlap>>
  BY DEF ChargeSavedCard
<1>2. /\ req[q] \in ReqRecord /\ req[q].row \in Row
      /\ SlotOf[req[q].row] = req[q].slot
  BY <1>1, ReqFacts DEF ReqSound
<1>3. overlap' \subseteq Slot
  BY <1>1 DEF MemberInv, TypeOK
<1>4. CASE req' = [req EXCEPT ![q].pc = "page"] /\ UNCHANGED int
  <2> DEFINE y == [req[q] EXCEPT !.pc = "page"]
  <2>1. y \in ReqRecord
    BY <1>2, ReqWrites DEF ReqPC
  <2>2. y.pc = "page" /\ y.row = req[q].row /\ y.slot = req[q].slot
    BY <1>2 DEF ReqRecord
  <2>3. req' = [req EXCEPT ![q] = y]
    BY <1>4
  <2> HIDE DEF y
  <2>4. ReqSound(q)' /\ req'[q].pc # "spend"
    BY <1>2, <2>1, <2>2, <2>3, ReqChanges DEF ReqSound
  <2> QED
    BY <1>1, <1>3, <1>4, <2>1, <2>3, <2>4, ReqChanges, StripeSame, RowlessStep
<1>5. CASE \E i \in Intent, status \in {"succeeded", "refused", "processing"} :
             /\ NewIntent(i)
             /\ int' = [int EXCEPT ![i] = [status |-> status, row |-> req[q].row,
                                           stamp |-> req[q].stamp]]
             /\ req' = [req EXCEPT
                          ![q].pc = IF status = "succeeded" THEN "land" ELSE "page",
                          ![q].intent = i]
  <2>1. PICK i \in Intent, status \in {"succeeded", "refused", "processing"} :
             /\ NewIntent(i)
             /\ int' = [int EXCEPT ![i] = [status |-> status, row |-> req[q].row,
                                           stamp |-> req[q].stamp]]
             /\ req' = [req EXCEPT
                          ![q].pc = IF status = "succeeded" THEN "land" ELSE "page",
                          ![q].intent = i]
    BY <1>5
  <2> DEFINE z == [status |-> status, row |-> req[q].row, stamp |-> req[q].stamp]
             y == [req[q] EXCEPT !.pc = IF status = "succeeded" THEN "land"
                                        ELSE "page", !.intent = i]
  <2>2. z \in IntentRecord /\ int[i].status = "none"
    BY <1>2, <2>1 DEF IntentRecord, ReqRecord, NewIntent
  <2>3. y \in ReqRecord
    BY <1>2, ReqWrites DEF ReqPC
  <2>4. /\ y.pc = IF status = "succeeded" THEN "land" ELSE "page"
        /\ y.row = req[q].row /\ y.slot = req[q].slot /\ y.intent = i
    BY <1>2 DEF ReqRecord
  <2>5. req' = [req EXCEPT ![q] = y] /\ int' = [int EXCEPT ![i] = z]
    BY <2>1
  <2>6. z.status = status /\ z.row = req[q].row
    OBVIOUS
  <2> HIDE DEF y, z
  <2>7. int'[i] = z
    BY <2>5 DEF MemberInv, TypeOK
  <2>8. ReqSound(q)' /\ req'[q].pc # "spend"
    BY <1>2, <2>3, <2>4, <2>5, <2>6, <2>7, ReqChanges DEF ReqSound
  <2>9. /\ StripeKept /\ HooksPaid'
        /\ int' \in [Intent -> IntentRecord]
        /\ ses' \in [Session -> SessionRecord]
    BY <1>1, <2>2, <2>5, IntentSteps
  <2> QED
    BY <1>1, <1>3, <2>3, <2>5, <2>8, <2>9, ReqChanges, RowlessStep
<1> QED
  BY <1>4, <1>5 DEF ChargeSavedCard

LEMMA OpenPageStep ==
    ASSUME MemberInv, NEW q \in Req, OpenPage(q)
    PROVE  MemberInv'
<1>1. PICK s \in Session :
        /\ NewSession(s)
        /\ ses' = [ses EXCEPT ![s] = [status |-> "open", row |-> req[q].row,
                                      hook |-> "none"]]
        /\ req' = [req EXCEPT ![q].pc = "store", ![q].session = s]
  BY DEF OpenPage
<1>2. /\ req[q].pc = "page"
      /\ UNCHANGED <<row, usage, granted, int, overlap>>
  BY DEF OpenPage
<1>3. /\ req[q] \in ReqRecord /\ req[q].row \in Row
      /\ SlotOf[req[q].row] = req[q].slot
  BY <1>2, ReqFacts DEF ReqSound
<1> DEFINE z == [status |-> "open", row |-> req[q].row, hook |-> "none"]
           y == [req[q] EXCEPT !.pc = "store", !.session = s]
<1>4. z \in SessionRecord /\ ses[s].status = "none"
  BY <1>1, <1>3 DEF SessionRecord, NewSession
<1>5. y \in ReqRecord
  BY <1>3, ReqWrites DEF ReqPC
<1>6. /\ y.pc = "store" /\ y.row = req[q].row
      /\ y.slot = req[q].slot /\ y.session = s
  BY <1>3 DEF ReqRecord
<1>7. req' = [req EXCEPT ![q] = y] /\ ses' = [ses EXCEPT ![s] = z]
  BY <1>1
<1>8. z.status = "open" /\ z.row = req[q].row /\ z.hook = "none"
  OBVIOUS
<1> HIDE DEF y, z
<1>9. ses'[s] = z
  BY <1>7 DEF MemberInv, TypeOK
<1>10. ReqSound(q)' /\ req'[q].pc # "spend"
  BY <1>3, <1>5, <1>6, <1>7, <1>8, <1>9, ReqChanges DEF ReqSound
<1>11. /\ StripeKept /\ HooksPaid'
       /\ int' \in [Intent -> IntentRecord]
       /\ ses' \in [Session -> SessionRecord]
  BY <1>2, <1>4, <1>7, <1>8, SessionSteps
<1>12. overlap' \subseteq Slot
  BY <1>2 DEF MemberInv, TypeOK
<1> QED
  BY <1>2, <1>5, <1>7, <1>10, <1>11, <1>12, ReqChanges, RowlessStep

LEMMA FailPageStep ==
    ASSUME MemberInv, NEW q \in Req, FailPage(q)
    PROVE  MemberInv'
<1> DEFINE r == req[q].row
           x == [NoRow EXCEPT !.status = "gone"]
<1>1. /\ r \in Row /\ row[r] \in RowRecord /\ RowSound(r)
      /\ usage[r] \in UsageRecord
  BY ReqFacts, MemberTyped DEF MemberInv
<1>2. /\ ~Locked(SlotOf[r])
      /\ req' = [req EXCEPT ![q] = Idle]
      /\ UNCHANGED <<usage, granted, int, ses, overlap>>
  BY DEF FailPage
<1>3. CASE row' = row
  BY <1>2, <1>3, StripeSame, IdleReq, RowlessStep DEF MemberInv, TypeOK
<1>4. CASE usage[r] = NoUsage /\ row' = [row EXCEPT ![r] = x]
  <2>1. x \in RowRecord
    BY RowNews
  <2>2. ~row[r].ticket /\ ~row[r].refunded
    BY <1>1, <1>4 DEF RowSound, NoUsage
  <2>3. row[r].ticket = FALSE /\ row[r].refunded = FALSE
    BY <1>1, <2>2 DEF RowRecord
  <2>4. /\ x.ticket = FALSE /\ x.refunded = FALSE /\ x.status = "gone"
        /\ x.session = None /\ x.intent = None
    BY DEF NoRow
  <2> HIDE DEF x
  <2>5. Replaces(x, r)
    BY <2>3, <2>4 DEF Replaces
  <2> QED
    BY <1>1, <1>2, <1>4, <2>1, <2>5, StripeSame, IdleReq, NotLocked, RowStep
       DEF MemberInv, TypeOK
<1> QED
  BY <1>3, <1>4 DEF FailPage

LEMMA CrashStep ==
    ASSUME MemberInv, NEW q \in Req, Crash(q)
    PROVE  MemberInv'
<1>1. /\ req' = [req EXCEPT ![q] = Idle]
      /\ UNCHANGED <<row, usage, granted, int, ses, overlap>>
  BY DEF Crash
<1> QED
  BY <1>1, StripeSame, IdleReq, RowlessStep DEF MemberInv, TypeOK

LEMMA SettleIntentStep ==
    ASSUME MemberInv, NEW i \in Intent, SettleIntent(i)
    PROVE  MemberInv'
<1>1. PICK status \in {"succeeded", "refused"} :
        int' = [int EXCEPT ![i] = [int[i] EXCEPT !.status = status]]
  BY DEF SettleIntent
<1> DEFINE z == [int[i] EXCEPT !.status = status]
<1>2. int[i] \in IntentRecord /\ int[i].status = "processing"
  BY MemberTyped DEF MemberInv, SettleIntent
<1>3. z \in IntentRecord /\ z.status = status /\ z.row = int[i].row
  BY <1>2 DEF IntentRecord
<1>4. UNCHANGED <<row, usage, granted, req, ses, overlap>>
  BY DEF SettleIntent
<1> HIDE DEF z
<1>5. /\ StripeKept /\ HooksPaid'
      /\ int' \in [Intent -> IntentRecord]
      /\ ses' \in [Session -> SessionRecord]
  BY <1>1, <1>2, <1>3, <1>4, IntentSteps DEF z
<1> QED
  BY <1>4, <1>5, RowlessStep DEF MemberInv, TypeOK

LEMMA PageSteps ==
    ASSUME MemberInv, NEW s \in Session, Pay(s) \/ Expire(s) \/ LoseWebhook(s)
    PROVE  MemberInv'
<1>1. UNCHANGED <<row, usage, granted, req, int, overlap>>
  BY DEF Pay, Expire, LoseWebhook
<1>2. ses[s] \in SessionRecord /\ (ses[s].hook = "pending" => ses[s].status = "paid")
  BY MemberTyped DEF MemberInv, HooksPaid
<1>3. PICK z \in SessionRecord :
        /\ ses' = [ses EXCEPT ![s] = z]
        /\ z.status # "none" /\ z.row = ses[s].row
        /\ ses[s].status = "paid" => z.status = "paid"
        /\ z.hook = "pending" => z.status = "paid"
  <2>1. CASE Pay(s)
    <3> DEFINE z == [ses[s] EXCEPT !.status = "paid", !.hook = "pending"]
    <3>1. z \in SessionRecord
      BY <1>2, SessionWrites
    <3>2. z.status = "paid" /\ z.row = ses[s].row
      BY <1>2 DEF SessionRecord
    <3>3. ses' = [ses EXCEPT ![s] = z]
      BY <2>1 DEF Pay
    <3> QED BY <3>1, <3>2, <3>3
  <2>2. CASE Expire(s)
    <3> DEFINE z == [ses[s] EXCEPT !.status = "expired"]
    <3>1. z \in SessionRecord
      BY <1>2, SessionWrites
    <3>2. z.status = "expired" /\ z.row = ses[s].row /\ z.hook = ses[s].hook
      BY <1>2 DEF SessionRecord
    <3>3. ses' = [ses EXCEPT ![s] = z] /\ ses[s].status # "paid"
      BY <2>2 DEF Expire
    <3> QED BY <1>2, <3>1, <3>2, <3>3
  <2>3. CASE LoseWebhook(s)
    <3> DEFINE z == [ses[s] EXCEPT !.hook = "over"]
    <3>1. z \in SessionRecord
      BY <1>2, SessionWrites
    <3>2. z.status = ses[s].status /\ z.row = ses[s].row /\ z.hook = "over"
      BY <1>2 DEF SessionRecord
    <3>3. ses' = [ses EXCEPT ![s] = z] /\ ses[s].status = "paid"
      BY <1>2, <2>3 DEF LoseWebhook
    <3> QED BY <3>1, <3>2, <3>3
  <2> QED BY <2>1, <2>2, <2>3
<1>4. /\ StripeKept /\ HooksPaid'
      /\ int' \in [Intent -> IntentRecord]
      /\ ses' \in [Session -> SessionRecord]
  BY <1>1, <1>3, SessionSteps
<1> QED
  BY <1>1, <1>4, RowlessStep DEF MemberInv, TypeOK

LEMMA WebhookStep ==
    ASSUME MemberInv, NEW s \in Session, Webhook(s)
    PROVE  MemberInv'
<1> DEFINE r == ses[s].row
           x == [row[r] EXCEPT !.status = "paid", !.deleted = FALSE, !.session = s]
<1>1. PICK h \in {"pending", "over"} :
        ses' = [ses EXCEPT ![s] = [ses[s] EXCEPT !.hook = h]]
  BY DEF Webhook
<1>2. /\ ~Locked(SlotOf[r])
      /\ UNCHANGED <<usage, granted, req, int, overlap>>
      /\ row' = row \/ row' = [row EXCEPT ![r] = x]
  BY DEF Webhook, CompletePaidCheckout
<1>3. ses[s] \in SessionRecord /\ ses[s].status = "paid"
  BY MemberTyped DEF MemberInv, HooksPaid, Webhook
<1>4. r \in Row /\ row[r] \in RowRecord /\ RowSound(r)
  <2>1. r \in Row
    BY <1>3 DEF SessionRecord
  <2> QED BY <2>1, MemberTyped DEF MemberInv
<1>5. /\ StripeKept /\ HooksPaid'
      /\ int' \in [Intent -> IntentRecord]
      /\ ses' \in [Session -> SessionRecord]
  <2> DEFINE z == [ses[s] EXCEPT !.hook = h]
  <2>1. z \in SessionRecord
    BY <1>3, SessionWrites
  <2>2. z.status = "paid" /\ z.row = ses[s].row
    BY <1>3 DEF SessionRecord
  <2> HIDE DEF z
  <2>3. ses' = [ses EXCEPT ![s] = z]
    BY <1>1 DEF z
  <2> QED BY <1>2, <2>1, <2>2, <2>3, SessionSteps
<1>6. x \in RowRecord
  BY <1>4, RowWrites
<1>7. MoneyFor(r)
  BY <1>3 DEF MoneyFor, PaidSessions
<1>8. Replaces(x, r)
  BY <1>3, <1>4, <1>7 DEF Replaces, RowRecord
<1>9. \A q \in Req : req[q].pc = "spend" => req[q].row # r
  BY <1>2, <1>4, NotLocked
<1> HIDE DEF x, r
<1>10. CASE row' = row
  BY <1>2, <1>5, <1>10, RowlessStep DEF MemberInv, TypeOK
<1>11. CASE row' = [row EXCEPT ![r] = x]
  BY <1>2, <1>4, <1>5, <1>6, <1>8, <1>9, <1>11, RowStep DEF MemberInv, TypeOK
<1> QED BY <1>2, <1>10, <1>11

LEMMA AbandonedRow ==
    ASSUME MemberInv, NEW r \in Row, row[r].status = "unpaid",
           row' \in Abandoned(r)
    PROVE  \E x \in RowRecord : row' = [row EXCEPT ![r] = x] /\ Replaces(x, r)
<1>1. CASE StripePaid(r)
  <2>1. row' \in Recorded(r)
    BY <1>1 DEF Abandoned
  <2> QED BY <1>1, <2>1, RecordedRow
<1>2. CASE ~StripePaid(r)
  <2> DEFINE x == [row[r] EXCEPT !.deleted = TRUE]
  <2>1. row[r] \in RowRecord /\ RowSound(r)
    BY MemberTyped DEF MemberInv
  <2>2. x \in RowRecord
    BY <2>1, RowWrites
  <2>3. Replaces(x, r)
    BY <2>1 DEF Replaces, RowSound, RowRecord
  <2>4. row' = [row EXCEPT ![r] = x]
    BY <1>2 DEF Abandoned
  <2> QED BY <2>2, <2>3, <2>4
<1> QED BY <1>1, <1>2

LEMMA ReconcileStep ==
    ASSUME MemberInv, NEW r \in Row, Reconcile(r)
    PROVE  MemberInv'
<1>1. /\ row[r].status = "unpaid"
      /\ \A q \in InSlot(SlotOf[r]) : req[q].row # r
      /\ UNCHANGED <<usage, granted, req, int, ses, overlap>>
  BY DEF Reconcile
<1>2. \A q \in Req : req[q].pc = "spend" => req[q].row # r
  BY <1>1 DEF MemberInv, ReqSound, InSlot
<1>3. row[r] \in RowRecord /\ RowSound(r)
  BY MemberTyped DEF MemberInv
<1>4. \E x \in RowRecord : row' = [row EXCEPT ![r] = x] /\ Replaces(x, r)
  <2>1. CASE row' \in Abandoned(r)
    BY <1>1, <2>1, AbandonedRow
  <2>2. CASE \E i \in IntentToCheck(r) :
               \/ /\ int[i].status = "succeeded"
                  /\ row' = [row EXCEPT ![r].status = "paid", ![r].intent = i]
               \/ /\ int[i].status = "processing"
                  /\ row' = [row EXCEPT ![r].intent = i]
    <3>1. PICK i \in IntentToCheck(r) :
               \/ /\ int[i].status = "succeeded"
                  /\ row' = [row EXCEPT ![r].status = "paid", ![r].intent = i]
               \/ /\ int[i].status = "processing"
                  /\ row' = [row EXCEPT ![r].intent = i]
      BY <2>2
    <3>2. i \in Intent /\ int[i].row = r
      <4>1. row[r].intent # None => row[r].intent \in Intent
        BY <1>3, MemberAssumption DEF RowRecord, None, Intent
      <4> QED
        BY <1>3, <4>1 DEF IntentToCheck, Newest, RowSound, SucceededIntents,
                          IntentsOf
    <3>3. CASE int[i].status = "succeeded"
      <4> DEFINE x == [row[r] EXCEPT !.status = "paid", !.intent = i]
      <4>1. x \in RowRecord
        BY <1>3, <3>2, RowWrites
      <4>2. MoneyFor(r)
        BY <3>2, <3>3 DEF MoneyFor, SucceededIntents
      <4>3. Replaces(x, r)
        BY <1>3, <3>2, <3>3, <4>2 DEF Replaces, RowRecord
      <4>4. row' = [row EXCEPT ![r] = x]
        BY <3>1, <3>3
      <4> QED BY <4>1, <4>3, <4>4
    <3>4. CASE int[i].status = "processing"
      <4> DEFINE x == [row[r] EXCEPT !.intent = i]
      <4>1. x \in RowRecord
        BY <1>3, <3>2, RowWrites
      <4>2. Replaces(x, r)
        BY <1>3, <3>2, <3>4 DEF Replaces, RowSound, RowRecord
      <4>3. row' = [row EXCEPT ![r] = x]
        BY <3>1, <3>4
      <4> QED BY <4>1, <4>2, <4>3
    <3> QED BY <3>1, <3>3, <3>4
  <2> QED BY <2>1, <2>2 DEF Reconcile
<1>5. PICK x \in RowRecord : row' = [row EXCEPT ![r] = x] /\ Replaces(x, r)
  BY <1>4
<1> QED
  BY <1>1, <1>2, <1>5, StripeSame, RowStep DEF MemberInv, TypeOK

LEMMA LinkSteps ==
    ASSUME MemberInv, NEW r \in Row, Cancel(r) \/ Restore(r)
    PROVE  MemberInv'
<1>1. UNCHANGED <<usage, granted, req, int, ses, overlap>>
  BY DEF Cancel, Restore
<1>2. row[r] \in RowRecord /\ RowSound(r)
  BY MemberTyped DEF MemberInv
<1>3. PICK d \in BOOLEAN : row' = [row EXCEPT ![r] = [row[r] EXCEPT !.canceled = d]]
  BY DEF Cancel, Restore
<1> DEFINE x == [row[r] EXCEPT !.canceled = d]
<1>4. x \in RowRecord
  BY <1>2, RowWrites
<1>5. Replaces(x, r) /\ x.status = row[r].status
  BY <1>2 DEF Replaces, RowSound, RowRecord
<1>6. row' = [row EXCEPT ![r] = x]
  BY <1>3
<1> HIDE DEF x
<1> QED
  BY <1>1, <1>4, <1>5, <1>6, StripeSame, RowStep DEF MemberInv, TypeOK

-----------------------------------------------------------------------------
(* The steps that count, spend and return tickets.                         *)

LEMMA SpentFinite ==
    ASSUME NEW g
    PROVE  IsFiniteSet(Spent(g)) /\ Cardinality(Spent(g)) \in Nat
<1>1. IsFiniteSet(Spent(g))
  BY MemberAssumption, FS_Subset, Spent(g) \subseteq Row DEF Spent
<1> QED BY <1>1, FS_CardinalityType

LEMMA CountTicketsStep ==
    ASSUME MemberInv, NEW q \in Req, NEW sl \in Slot, NEW r \in Row,
           CountTickets(q, sl, r)
    PROVE  MemberInv'
<1> DEFINE y == [Idle EXCEPT !.pc = "spend", !.slot = sl, !.row = r,
                             !.left = UsableGrants(sl)]
<1>1. /\ ~Locked(sl) /\ ~GrantsLocked(Usable[sl]) /\ r \in Takeable(sl)
      /\ req' = [req EXCEPT ![q] = y]
      /\ Enter(sl)
      /\ UNCHANGED <<row, usage, granted, int, ses>>
  BY DEF CountTickets
<1>2. UsableGrants(sl) \subseteq Usable[sl] /\ Usable[sl] \subseteq Grant
  BY MemberAssumption DEF UsableGrants
<1>3. y \in ReqRecord
  BY <1>2, Blank, ReqWrites DEF ReqPC
<1>4. y.pc = "spend" /\ y.slot = sl /\ y.row = r /\ y.left = UsableGrants(sl)
  BY DEF Idle
<1> HIDE DEF y
<1>5. /\ req' \in [Req -> ReqRecord] /\ req'[q] = y
      /\ \A q2 \in Req : q2 # q => req'[q2] = req[q2]
  BY <1>1, <1>3, ReqChanges
<1>6. StripeKept /\ HooksPaid'
  BY <1>1, StripeSame
<1>7. TypeOK'
  BY <1>1, <1>5, EnterType DEF MemberInv, TypeOK
<1>8. \A r2 \in Row : RowSound(r2)'
  BY <1>1, <1>6, KeptRow
<1>9. SlotOf[r] = sl /\ row[r].status \in {"none", "unpaid"}
  BY <1>1, TakeableRows
<1>10. \A q2 \in Req : ReqSound(q2)'
  <2>1. ReqSound(q)'
    BY <1>4, <1>5, <1>9 DEF ReqSound
  <2> QED BY <1>5, <1>6, <2>1, KeptReq
<1>11. \A g : Spent(g)' = Spent(g)
  BY <1>1 DEF Spent
<1>12. \A q2 \in Req : SpendSound(q2)'
  <2>1. SpendSound(q)'
    BY <1>1, <1>2, <1>4, <1>5, <1>9, <1>11 DEF SpendSound, UsableGrants
  <2>2. \A q2 \in Req : q2 # q => SpendSound(q2)'
    BY <1>1, <1>5, <1>11 DEF MemberInv, SpendSound
  <2> QED BY <2>1, <2>2
<1>13. Apart'
  <2>1. \A q2 \in Req : req[q2].pc = "spend" =>
          req[q2].slot # sl /\ Usable[req[q2].slot] \cap Usable[sl] = {}
    BY <1>1 DEF Locked, GrantsLocked
  <2> QED
    BY <1>4, <1>5, <2>1 DEF MemberInv, Apart
<1>14. NothingOverspent'
  BY <1>1, <1>11 DEF MemberInv, NothingOverspent
<1> QED
  BY <1>6, <1>7, <1>8, <1>10, <1>12, <1>13, <1>14 DEF MemberInv

\* What the step that spends a ticket of g on r does to the tables.
SpendsOn(g, r) ==
    /\ g \in Grant /\ r \in Row
    /\ usage[r] = NoUsage
    /\ Cardinality(Spent(g)) < granted[g] * Quantity[g]
    /\ usage' = [usage EXCEPT ![r] = [grant |-> g, back |-> FALSE]]
    /\ UNCHANGED granted

LEMMA SpentGrows ==
    ASSUME TypeOK, NEW g \in Grant, NEW r \in Row, SpendsOn(g, r)
    PROVE  /\ Cardinality(Spent(g)') = Cardinality(Spent(g)) + 1
           /\ \A h \in Grant : h # g => Spent(h)' = Spent(h)
<1>1. /\ usage'[r] = [grant |-> g, back |-> FALSE]
      /\ \A r2 \in Row : r2 # r => usage'[r2] = usage[r2]
  BY DEF TypeOK, SpendsOn
<1>2. usage[r].grant = NoGrant /\ NoGrant \notin Grant
  BY MemberAssumption DEF SpendsOn, NoUsage
<1>3. Spent(g)' = Spent(g) \cup {r} /\ r \notin Spent(g)
  BY <1>1, <1>2 DEF Spent
<1>4. \A h \in Grant : h # g => Spent(h)' = Spent(h)
  BY <1>1, <1>2 DEF Spent
<1> QED
  BY <1>3, <1>4, SpentFinite, FS_AddElement

LEMMA SpendTicketFacts ==
    ASSUME MemberInv, NEW q \in Req, NEW g \in Grant, SpendTicket(q, g)
    PROVE  /\ SpendsOn(g, req[q].row)
           /\ ~row[req[q].row].refunded
           /\ row[req[q].row].status \in {"none", "unpaid"}
           /\ g \in Usable[req[q].slot]
<1> DEFINE r == req[q].row
<1>1. /\ req[q].pc = "spend" /\ g \in req[q].left
      /\ usage' = [usage EXCEPT ![r] =
                     IF usage[r].grant # NoGrant /\ ~usage[r].back THEN usage[r]
                     ELSE [grant |-> g, back |-> FALSE]]
      /\ UNCHANGED granted
  BY DEF SpendTicket
<1>2. r \in Row /\ RowSound(r) /\ usage[r] \in UsageRecord
  BY ReqFacts, MemberTyped DEF MemberInv
<1>3. /\ row[r].status \in {"none", "unpaid"}
      /\ g \in Usable[req[q].slot]
      /\ Cardinality(Spent(g)) < granted[g] * Quantity[g]
  BY <1>1 DEF MemberInv, SpendSound
<1>4. usage[r].grant = NoGrant /\ ~usage[r].back /\ ~row[r].refunded
  BY <1>2, <1>3 DEF RowSound
<1>5. usage[r] = NoUsage
  BY <1>2, <1>4 DEF UsageRecord, NoUsage
<1> QED
  BY <1>1, <1>2, <1>3, <1>4, <1>5 DEF SpendsOn

LEMMA TicketsOf ==
    ASSUME TypeOK, NEW g \in Grant
    PROVE  granted[g] * Quantity[g] \in Nat
<1>1. granted[g] \in 0..1 /\ Quantity[g] \in Nat
  BY MemberAssumption DEF TypeOK
<1>2. CASE granted[g] = 0
  BY <1>1, <1>2
<1>3. CASE granted[g] = 1
  BY <1>1, <1>3
<1> QED BY <1>1, <1>2, <1>3

LEMMA SpendTicketStep ==
    ASSUME MemberInv, NEW q \in Req, NEW g \in Grant, SpendTicket(q, g)
    PROVE  MemberInv'
<1>0. PICK r \in Row : r = req[q].row
  BY ReqFacts
<1> DEFINE x == [[NoRow EXCEPT !.refunded = row[r].refunded]
                   EXCEPT !.status = "paid", !.ticket = TRUE]
<1>1. /\ req[q].pc = "spend"
      /\ row' = [row EXCEPT ![r] = x]
      /\ req' = [req EXCEPT ![q] = Idle]
      /\ UNCHANGED <<granted, int, ses, overlap>>
  BY <1>0 DEF SpendTicket, Reused
<1>2. /\ r \in Row /\ row[r] \in RowRecord /\ SlotOf[r] = req[q].slot
  BY <1>0, <1>1, ReqFacts DEF ReqSound
<1>3. /\ SpendsOn(g, r) /\ ~row[r].refunded /\ g \in Usable[req[q].slot]
  BY <1>0, SpendTicketFacts
<1>4. x \in RowRecord
  <2>1. row[r].refunded \in BOOLEAN
    BY <1>2 DEF RowRecord
  <2> QED BY <2>1, RowNews
<1>5. /\ x.status = "paid" /\ x.ticket = TRUE /\ ~x.refunded
      /\ x.session = None /\ x.intent = None
  BY <1>3 DEF NoRow
<1> HIDE DEF x
<1>6. /\ row'[r] = x
      /\ \A r2 \in Row : r2 # r => row'[r2] = row[r2] /\ usage'[r2] = usage[r2]
      /\ usage'[r].grant = g /\ usage'[r].back = FALSE
  BY <1>1, <1>2, <1>3 DEF SpendsOn, MemberInv, TypeOK
<1>7. /\ req' \in [Req -> ReqRecord]
      /\ \A q2 \in Req : q2 # q => req'[q2] = req[q2]
      /\ req'[q].pc = "idle"
  BY <1>1, Blank, ReqChanges DEF Idle
<1>8. StripeKept /\ HooksPaid'
  BY <1>1, StripeSame
<1>9. TypeOK'
  <2>1. usage' \in [Row -> UsageRecord]
    BY <1>3 DEF SpendsOn, MemberInv, TypeOK, UsageRecord
  <2>2. row' \in [Row -> RowRecord]
    BY <1>1, <1>4 DEF MemberInv, TypeOK
  <2> QED BY <1>1, <1>7, <2>1, <2>2 DEF MemberInv, TypeOK
<1>10. \A r2 \in Row : RowSound(r2)'
  <2>1. RowSound(r)'
    <3>1. NoGrant # g
      BY MemberAssumption
    <3> HIDE DEF MoneyFor
    <3> QED BY <1>3, <1>5, <1>6, <3>1 DEF RowSound
  <2>2. \A r2 \in Row : r2 # r => RowSound(r2)'
    BY <1>6, <1>8, KeptRow
  <2> QED BY <2>1, <2>2
<1>11. \A q2 \in Req : ReqSound(q2)'
  BY <1>7, <1>8, KeptReq DEF ReqSound
<1>12. Apart'
  BY <1>7 DEF MemberInv, Apart
<1>13. \A h \in Grant : h # g => Spent(h)' = Spent(h)
  BY <1>3, SpentGrows DEF MemberInv
<1>14. \A q2 \in Req : SpendSound(q2)'
  <2> SUFFICES ASSUME NEW q2 \in Req, req'[q2].pc = "spend"
               PROVE  SpendSound(q2)'
    BY DEF SpendSound
  <2>1. q2 # q /\ req'[q2] = req[q2]
    BY <1>7
  <2>2. /\ req[q2].slot # req[q].slot
        /\ Usable[req[q2].slot] \cap Usable[req[q].slot] = {}
    BY <1>1, <2>1 DEF MemberInv, Apart
  <2>3. req[q2].row \in Row /\ SlotOf[req[q2].row] = req[q2].slot
    BY <2>1, ReqFacts DEF ReqSound
  <2>4. row'[req[q2].row] = row[req[q2].row]
    BY <1>0, <1>2, <1>6, <2>2, <2>3
  <2>5. /\ row[req[q2].row].status \in {"none", "unpaid"}
        /\ req[q2].left \subseteq Usable[req[q2].slot]
        /\ \A h \in req[q2].left :
              Cardinality(Spent(h)) < granted[h] * Quantity[h]
    BY <2>1 DEF MemberInv, SpendSound
  <2>6. \A h \in req[q2].left : h \in Grant /\ h # g
    <3>1. req[q2] \in ReqRecord
      BY ReqFacts
    <3> QED BY <1>3, <2>2, <2>5, <3>1 DEF ReqRecord
  <2>7. \A h \in req[q2].left : Spent(h)' = Spent(h)
    BY <1>13, <2>6
  <2> QED
    BY <1>1, <2>1, <2>4, <2>5, <2>7 DEF SpendSound
<1>15. NothingOverspent'
  <2> SUFFICES ASSUME NEW h \in Grant
               PROVE  Cardinality(Spent(h)') <= granted'[h] * Quantity[h]
    BY DEF NothingOverspent
  <2>1. CASE h = g
    <3>1. Cardinality(Spent(g)') = Cardinality(Spent(g)) + 1
      BY <1>3, SpentGrows DEF MemberInv
    <3>2. granted[g] * Quantity[g] \in Nat /\ Cardinality(Spent(g)) \in Nat
      BY TicketsOf, SpentFinite DEF MemberInv
    <3> QED BY <1>1, <1>3, <2>1, <3>1, <3>2 DEF SpendsOn
  <2>2. CASE h # g
    BY <1>1, <1>13, <2>2 DEF MemberInv, NothingOverspent
  <2> QED BY <2>1, <2>2
<1> QED
  BY <1>8, <1>9, <1>10, <1>11, <1>12, <1>14, <1>15 DEF MemberInv

\* What the step that returns the ticket of r does to the tables.
ReturnsOn(r) ==
    /\ r \in Row
    /\ usage[r].grant \in Grant /\ usage[r].back = FALSE
    /\ usage' = [usage EXCEPT ![r].back = TRUE]
    /\ UNCHANGED granted

LEMMA SpentShrinks ==
    ASSUME TypeOK, NEW r \in Row, ReturnsOn(r),
           NEW g \in Grant, g = usage[r].grant
    PROVE  /\ Cardinality(Spent(g)') = Cardinality(Spent(g)) - 1
           /\ \A h \in Grant : h # g => Spent(h)' = Spent(h)
<1>1. /\ usage'[r].grant = g /\ usage'[r].back = TRUE
      /\ \A r2 \in Row : r2 # r => usage'[r2] = usage[r2]
  BY DEF TypeOK, UsageRecord, ReturnsOn
<1>2. Spent(g)' = Spent(g) \ {r} /\ r \in Spent(g)
  BY <1>1 DEF Spent, ReturnsOn
<1>3. \A h \in Grant : h # g => Spent(h)' = Spent(h)
  BY <1>1 DEF Spent
<1> QED
  BY <1>2, <1>3, SpentFinite, FS_RemoveElement

LEMMA RefundTicketFacts ==
    ASSUME MemberInv, NEW r \in Row, RefundTicket(r)
    PROVE  ReturnsOn(r)
<1>1. usage[r] \in UsageRecord
  BY MemberTyped DEF MemberInv
<1> QED
  BY <1>1 DEF RefundTicket, ReturnsOn, UsageRecord

LEMMA RefundTicketStep ==
    ASSUME MemberInv, NEW r \in Row, RefundTicket(r)
    PROVE  MemberInv'
<1> DEFINE x == [row[r] EXCEPT !.refunded = TRUE, !.canceled = TRUE]
<1>1. /\ row[r].status = "paid" /\ row[r].ticket
      /\ row' = [row EXCEPT ![r] = x]
      /\ UNCHANGED <<granted, req, int, ses, overlap>>
  BY DEF RefundTicket
<1>2. ReturnsOn(r)
  BY RefundTicketFacts
<1>3. row[r] \in RowRecord /\ RowSound(r) /\ usage[r] \in UsageRecord
  BY MemberTyped DEF MemberInv
<1>4. x \in RowRecord
  BY <1>3, RowWrites
<1>5. /\ x.status = "paid" /\ x.ticket /\ x.refunded
      /\ x.session = row[r].session /\ x.intent = row[r].intent
  BY <1>1, <1>3 DEF RowRecord
<1> HIDE DEF x
<1>6. /\ row'[r] = x
      /\ \A r2 \in Row : r2 # r => row'[r2] = row[r2] /\ usage'[r2] = usage[r2]
      /\ usage'[r].grant = usage[r].grant /\ usage'[r].back = TRUE
  BY <1>1, <1>2, <1>3 DEF ReturnsOn, MemberInv, TypeOK, UsageRecord
<1>7. StripeKept /\ HooksPaid'
  BY <1>1, StripeSame
<1>8. TypeOK'
  <2>1. usage' \in [Row -> UsageRecord]
    BY <1>2 DEF ReturnsOn, MemberInv, TypeOK, UsageRecord
  <2> QED BY <1>1, <1>4, <2>1 DEF MemberInv, TypeOK
<1>9. \A r2 \in Row : RowSound(r2)'
  <2>1. RowSound(r)'
    <3>1. usage[r].grant # NoGrant
      BY <1>2, MemberAssumption DEF ReturnsOn
    <3> HIDE DEF MoneyFor
    <3> QED BY <1>1, <1>3, <1>5, <1>6, <3>1 DEF RowSound
  <2>2. \A r2 \in Row : r2 # r => RowSound(r2)'
    BY <1>6, <1>7, KeptRow
  <2> QED BY <2>1, <2>2
<1>10. \A q \in Req : ReqSound(q)'
  BY <1>1, <1>7, KeptReq
<1>11. Apart'
  BY <1>1 DEF MemberInv, Apart
<1>12. \A h \in Grant : Cardinality(Spent(h)') <= Cardinality(Spent(h))
  <2> SUFFICES ASSUME NEW h \in Grant
               PROVE  Cardinality(Spent(h)') <= Cardinality(Spent(h))
    OBVIOUS
  <2>1. Cardinality(Spent(h)) \in Nat
    BY SpentFinite
  <2>2. CASE h = usage[r].grant
    <3>1. Cardinality(Spent(h)') = Cardinality(Spent(h)) - 1
      BY <1>2, <2>2, SpentShrinks DEF MemberInv
    <3> QED BY <2>1, <3>1
  <2>3. CASE h # usage[r].grant
    <3>1. PICK g \in Grant : g = usage[r].grant
      BY <1>2 DEF ReturnsOn
    <3>2. Spent(h)' = Spent(h)
      BY <1>2, <2>3, <3>1, SpentShrinks DEF MemberInv
    <3> QED BY <2>1, <3>2
  <2> QED BY <2>2, <2>3
<1>13. \A h \in Grant : /\ Cardinality(Spent(h)') \in Int
                        /\ Cardinality(Spent(h)) \in Int
                        /\ granted[h] * Quantity[h] \in Int
  <2>1. \A h : Spent(h)' \subseteq Row
    BY DEF Spent
  <2>2. \A h : Cardinality(Spent(h)') \in Nat
    BY <2>1, MemberAssumption, FS_Subset, FS_CardinalityType
  <2> QED BY <2>2, SpentFinite, TicketsOf DEF MemberInv
<1>14. \A q \in Req : SpendSound(q)'
  <2> SUFFICES ASSUME NEW q \in Req, req[q].pc = "spend"
               PROVE  SpendSound(q)'
    BY <1>1 DEF SpendSound
  <2>1. req[q].row \in Row /\ req[q] \in ReqRecord
    BY ReqFacts
  <2>2. /\ row[req[q].row].status \in {"none", "unpaid"}
        /\ req[q].left \subseteq Usable[req[q].slot]
        /\ \A h \in req[q].left :
              Cardinality(Spent(h)) < granted[h] * Quantity[h]
    BY DEF MemberInv, SpendSound
  <2>3. row'[req[q].row] = row[req[q].row]
    BY <1>1, <1>6, <2>1, <2>2
  <2>4. req[q].left \subseteq Grant
    BY <2>1 DEF ReqRecord
  <2>5. \A h \in req[q].left :
              Cardinality(Spent(h)') < granted[h] * Quantity[h]
    BY <1>12, <1>13, <2>2, <2>4
  <2> QED BY <1>1, <2>2, <2>3, <2>5 DEF SpendSound
<1>15. NothingOverspent'
  BY <1>1, <1>12, <1>13 DEF MemberInv, NothingOverspent
<1> QED
  BY <1>7, <1>8, <1>9, <1>10, <1>11, <1>14, <1>15 DEF MemberInv

-----------------------------------------------------------------------------
(* The steps together, and the purchases beside them.                      *)

LEMMA MemberInit == Init => MemberInv
<1> SUFFICES ASSUME Init
             PROVE  MemberInv
  OBVIOUS
<1>1. TypeOK
  BY InitType
<1>2. \A r \in Row : row[r] = NoRow /\ usage[r] = NoUsage
  BY DEF Init
<1>3. \A q \in Req : req[q].pc = "idle"
  BY DEF Init, Idle
<1>4. \A r \in Row : RowSound(r)
  BY <1>2, MemberAssumption DEF RowSound, NoRow, NoUsage
<1>5. \A q \in Req : ReqSound(q) /\ SpendSound(q)
  BY <1>3 DEF ReqSound, SpendSound
<1>6. Apart
  BY <1>3 DEF Apart
<1>7. HooksPaid
  BY DEF Init, HooksPaid
<1>8. NothingOverspent
  <2> SUFFICES ASSUME NEW g \in Grant
               PROVE  Cardinality(Spent(g)) <= granted[g] * Quantity[g]
    BY DEF NothingOverspent
  <2>1. Spent(g) = {}
    BY <1>2, MemberAssumption DEF Spent, NoUsage
  <2>2. Cardinality(Spent(g)) = 0
    BY <2>1, FS_EmptySet
  <2> QED BY <1>1, <2>2, TicketsOf
<1> QED BY <1>1, <1>4, <1>5, <1>6, <1>7, <1>8 DEF MemberInv

LEMMA MemberStep == MemberInv /\ Next => MemberInv'
<1> SUFFICES ASSUME MemberInv, Next
             PROVE  MemberInv'
  OBVIOUS
<1>1. CASE \E r \in Row : FindPayment(r) \/ ShowOpenPage(r) \/ Reconcile(r)
  BY <1>1, FindPaymentStep, ShowOpenPageStep, ReconcileStep
<1>2. CASE \E r \in Row : Cancel(r) \/ Restore(r) \/ RefundTicket(r)
  BY <1>2, LinkSteps, RefundTicketStep
<1>3. CASE \E q \in Req, sl \in Slot, r \in Row :
              ReserveUnpaid(q, sl, r) \/ CountTickets(q, sl, r)
  BY <1>3, ReserveUnpaidStep, CountTicketsStep
<1>4. CASE \E q \in Req, g \in Grant : SpendTicket(q, g)
  BY <1>4, SpendTicketStep
<1>5. CASE \E q \in Req : SaveFree(q) \/ ChargeSavedCard(q) \/ LandCharge(q)
  BY <1>5, SaveFreeStep, ChargeSavedCardStep, LandChargeStep
<1>6. CASE \E q \in Req : OpenPage(q) \/ FailPage(q) \/ StorePage(q) \/ Crash(q)
  BY <1>6, OpenPageStep, FailPageStep, StorePageStep, CrashStep
<1>7. CASE \E i \in Intent : SettleIntent(i)
  BY <1>7, SettleIntentStep
<1>8. CASE \E s \in Session : Pay(s) \/ Expire(s) \/ LoseWebhook(s) \/ Webhook(s)
  BY <1>8, PageSteps, WebhookStep
<1> QED
  BY <1>1, <1>2, <1>3, <1>4, <1>5, <1>6, <1>7, <1>8 DEF Next

\* A purchase that makes a grant leaves every reservation sound.
LEMMA GrantStep ==
    ASSUME MemberInv, granted' \in [Grant -> 0..1],
           UNCHANGED <<row, usage, req, int, ses, overlap>>,
           \A g \in Grant : granted[g] <= granted'[g]
    PROVE  MemberInv'
<1>1. \A g \in Grant : granted[g] \in 0..1 /\ granted'[g] \in 0..1
                       /\ Quantity[g] \in Nat
  BY MemberAssumption DEF MemberInv, TypeOK
<1>2. \A g \in Grant : /\ granted[g] * Quantity[g] \in Nat
                       /\ granted'[g] * Quantity[g] \in Nat
                       /\ granted[g] * Quantity[g] <= granted'[g] * Quantity[g]
  <2> TAKE g \in Grant
  <2>1. CASE granted'[g] = 0
    <3>1. granted[g] = 0
      BY <1>1, <2>1
    <3> QED BY <1>1, <2>1, <3>1
  <2>2. CASE granted'[g] = 1
    <3>1. CASE granted[g] = 0
      BY <1>1, <2>2, <3>1
    <3>2. CASE granted[g] = 1
      BY <1>1, <2>2, <3>2
    <3> QED BY <1>1, <3>1, <3>2
  <2> QED BY <1>1, <2>1, <2>2
<1>3. \A g : Spent(g)' = Spent(g) /\ Cardinality(Spent(g)) \in Nat
  BY SpentFinite DEF Spent
<1>4. TypeOK'
  BY DEF MemberInv, TypeOK
<1>5. \A r \in Row : RowSound(r)'
  BY DEF MemberInv, RowSound, MoneyFor, SucceededIntents, PaidSessions
<1>6. \A q \in Req : ReqSound(q)'
  BY DEF MemberInv, ReqSound
<1>7. \A q \in Req : SpendSound(q)'
  <2> SUFFICES ASSUME NEW q \in Req, req[q].pc = "spend"
               PROVE  SpendSound(q)'
    BY DEF SpendSound
  <2>1. /\ row[req[q].row].status \in {"none", "unpaid"}
        /\ req[q].left \subseteq Usable[req[q].slot]
        /\ \A g \in req[q].left :
              Cardinality(Spent(g)) < granted[g] * Quantity[g]
    BY DEF MemberInv, SpendSound
  <2>2. req[q].left \subseteq Grant
    BY ReqFacts DEF ReqRecord
  <2>3. \A g \in req[q].left :
              Cardinality(Spent(g)') < granted'[g] * Quantity[g]
    BY <1>2, <1>3, <2>1, <2>2
  <2> QED BY <2>1, <2>3 DEF SpendSound
<1>8. NothingOverspent'
  <2> SUFFICES ASSUME NEW g \in Grant
               PROVE  Cardinality(Spent(g)') <= granted'[g] * Quantity[g]
    BY DEF NothingOverspent
  <2>1. Cardinality(Spent(g)) <= granted[g] * Quantity[g]
    BY DEF MemberInv, NothingOverspent
  <2> QED BY <1>2, <1>3, <2>1
<1>9. Apart' /\ HooksPaid'
  BY DEF MemberInv, Apart, HooksPaid
<1> QED
  BY <1>4, <1>5, <1>6, <1>7, <1>8, <1>9 DEF MemberInv

TicketsInv == MemberInv /\ PurchasesSound

LEMMA TicketsInductive ==
    /\ TicketsInit => TicketsInv
    /\ TicketsInv /\ [TicketsNext]_ticketVars => TicketsInv'
<1>1. TicketsInit => TicketsInv
  BY MemberInit, PurchasesInit DEF TicketsInit, TicketsInv
<1>2. ASSUME TicketsInv, [TicketsNext]_ticketVars
      PROVE  TicketsInv'
  <2>1. granted \in [Grant -> 0..1]
    BY <1>2 DEF TicketsInv, MemberInv, TypeOK
  <2>2. CASE UNCHANGED ticketVars
    <3>1. UNCHANGED <<row, usage, req, int, ses, overlap>>
          /\ UNCHANGED granted /\ UNCHANGED purchase
      BY <2>2 DEF ticketVars, vars
    <3>2. MemberInv'
      BY <1>2, <2>1, <3>1, GrantStep DEF TicketsInv
    <3>3. PurchasesSound'
      BY <1>2, <3>1 DEF TicketsInv, PurchasesSound, PurchaseInv, P!TypeOK
    <3> QED BY <3>2, <3>3 DEF TicketsInv
  <2>3. CASE P!Next /\ UNCHANGED <<row, usage, req, int, ses, overlap>>
    <3>1. /\ PurchasesSound'
          /\ UNCHANGED granted \/ \E p \in Purchase : Issues(p)
      BY <1>2, <2>3, PurchaseStep DEF TicketsInv
    <3>2. granted' \in [Grant -> 0..1]
      BY <3>1 DEF PurchasesSound, P!TypeOK
    <3>3. \A g \in Grant : granted[g] <= granted'[g]
      BY <2>1, <3>1 DEF Issues
    <3>4. MemberInv'
      BY <1>2, <2>3, <3>2, <3>3, GrantStep DEF TicketsInv
    <3> QED BY <3>1, <3>4 DEF TicketsInv
  <2>4. CASE Next /\ UNCHANGED purchase
    <3>1. MemberInv'
      BY <1>2, <2>4, MemberStep DEF TicketsInv
    <3>2. UNCHANGED granted
      BY <2>4 DEF Next, FindPayment, ShowOpenPage, ReserveUnpaid, CountTickets,
                  SpendTicket, SaveFree, ChargeSavedCard, LandCharge, OpenPage,
                  FailPage, StorePage, Crash, SettleIntent, Pay, Expire, Webhook,
                  LoseWebhook, Reconcile, Cancel, Restore, RefundTicket
    <3>3. PurchasesSound'
      BY <1>2, <2>4, <3>2 DEF TicketsInv, PurchasesSound, PurchaseInv, P!TypeOK
    <3> QED BY <3>1, <3>3 DEF TicketsInv
  <2> QED BY <1>2, <2>2, <2>3, <2>4 DEF TicketsNext
<1> QED BY <1>1, <1>2

\* No value leaves its type, and a source of tickets makes one grant at most:
\* a purchase's request and its webhook, however often it comes, do not both
\* find it unpaid.
THEOREM TicketsTypeCorrect == TicketsSpec => []TicketsTypeOK
<1>1. TicketsInv => TicketsTypeOK
  BY DEF TicketsInv, MemberInv, PurchasesSound, TicketsTypeOK
<1> QED
  BY <1>1, TicketsInductive, PTL DEF TicketsSpec

\* A ticket is spent exactly on the reservations that say so and are
\* confirmed, and back exactly where the reservation says refunded: no request
\* deletes or rewrites the row another one spent a ticket on.
THEOREM UsageAlwaysAgrees == TicketsSpec => []UsageAgreesWithRow
<1>1. TicketsInv => UsageAgreesWithRow
  BY DEF TicketsInv, MemberInv, RowSound, UsageAgreesWithRow
<1> QED
  BY <1>1, TicketsInductive, PTL DEF TicketsSpec

\* No overlap of requests, late save, webhook or reconciliation confirms a
\* reservation that nobody paid for.
THEOREM PaidAlwaysPaidFor == TicketsSpec => []PaidIsPaidFor
<1>1. TicketsInv => PaidIsPaidFor
  BY DEF TicketsInv, MemberInv, RowSound, MoneyFor, PaidIsPaidFor
<1> QED
  BY <1>1, TicketsInductive, PTL DEF TicketsSpec

-----------------------------------------------------------------------------
(* The tables keep the promises of the ledger.                             *)

LedgerIssued == {g \in Grant : granted[g] > 0}
LedgerLeft == [g \in Grant |-> granted[g] * Quantity[g] - Cardinality(Spent(g))]

LEMMA LedgerInit == TicketsInit => L!Init
<1> SUFFICES ASSUME TicketsInit
             PROVE  L!Init
  OBVIOUS
<1>1. TypeOK /\ Init
  BY InitType DEF TicketsInit
<1>2. \A r \in Row : usage[r] = NoUsage
  BY <1>1 DEF Init
<1>3. \A g \in Grant : Spent(g) = {}
  BY <1>2, MemberAssumption DEF Spent, NoUsage
<1>4. \A g \in Grant : Cardinality(Spent(g)) = 0
  BY <1>3, FS_EmptySet
<1>5. \A g \in Grant :
        granted[g] * Quantity[g] - Cardinality(Spent(g))
          = IF g \in LedgerIssued THEN Quantity[g] ELSE 0
  <2> TAKE g \in Grant
  <2>1. granted[g] \in 0..1 /\ Quantity[g] \in Nat
    BY <1>1, MemberAssumption DEF TypeOK
  <2>2. CASE granted[g] = 0
    BY <1>4, <2>1, <2>2 DEF LedgerIssued
  <2>3. CASE granted[g] = 1
    BY <1>4, <2>1, <2>3 DEF LedgerIssued
  <2> QED BY <2>1, <2>2, <2>3
<1>6. LedgerIssued \in SUBSET Grant
  BY DEF LedgerIssued
<1>7. LedgerLeft = [g \in Grant |-> IF g \in LedgerIssued THEN Quantity[g] ELSE 0]
  BY <1>5 DEF LedgerLeft
<1>8. usage = [r \in Row |-> NoUsage]
  BY <1>1 DEF Init
<1> QED
  BY <1>6, <1>7, <1>8 DEF L!Init, L!Unspent, NoUsage, LedgerIssued, LedgerLeft

LEMMA LedgerNumbers ==
    ASSUME TicketsInv, NEW g \in Grant
    PROVE  /\ Cardinality(Spent(g)) \in Nat
           /\ granted[g] \in 0..1 /\ Quantity[g] \in Nat
           /\ granted[g] * Quantity[g] \in Nat
           /\ Cardinality(Spent(g)) <= granted[g] * Quantity[g]
  BY SpentFinite, TicketsOf, MemberAssumption
     DEF TicketsInv, MemberInv, TypeOK, NothingOverspent

LEMMA LedgerSpends ==
    ASSUME TicketsInv, NEW g \in Grant, NEW r \in Row, SpendsOn(g, r)
    PROVE  L!Spend(g, r)
<1>1. UNCHANGED granted
  BY DEF SpendsOn
<1>2. LedgerIssued' = LedgerIssued
  BY <1>1 DEF LedgerIssued
<1>3. /\ Cardinality(Spent(g)') = Cardinality(Spent(g)) + 1
      /\ \A h \in Grant : h # g => Spent(h)' = Spent(h)
  BY SpentGrows DEF TicketsInv, MemberInv
<1>4. g \in LedgerIssued /\ LedgerLeft[g] > 0
  <2>1. Cardinality(Spent(g)) < granted[g] * Quantity[g]
    BY DEF SpendsOn
  <2>2. granted[g] # 0
    <3>1. granted[g] = 0 => granted[g] * Quantity[g] = 0
      BY LedgerNumbers
    <3> QED BY <2>1, <3>1, LedgerNumbers
  <2> QED BY <2>1, <2>2, LedgerNumbers DEF LedgerIssued, LedgerLeft
<1>5. LedgerLeft' = [LedgerLeft EXCEPT ![g] = @ - 1]
  <2>1. \A h \in Grant : granted'[h] * Quantity[h] - Cardinality(Spent(h)')
                            = IF h = g THEN LedgerLeft[h] - 1 ELSE LedgerLeft[h]
    BY <1>1, <1>3, LedgerNumbers DEF LedgerLeft
  <2> QED BY <2>1 DEF LedgerLeft
<1>6. /\ usage[r] = [grant |-> NoGrant, back |-> FALSE]
      /\ usage' = [usage EXCEPT ![r] = [grant |-> g, back |-> FALSE]]
  BY DEF SpendsOn, NoUsage
<1> QED
  BY <1>2, <1>4, <1>5, <1>6 DEF L!Spend, L!Unspent, LedgerIssued, LedgerLeft

LEMMA LedgerReturns ==
    ASSUME TicketsInv, NEW r \in Row, ReturnsOn(r)
    PROVE  L!Return(r)
<1>1. PICK g \in Grant : g = usage[r].grant
  BY DEF ReturnsOn
<1>2. UNCHANGED granted
  BY DEF ReturnsOn
<1>3. LedgerIssued' = LedgerIssued
  BY <1>2 DEF LedgerIssued
<1>4. /\ Cardinality(Spent(g)') = Cardinality(Spent(g)) - 1
      /\ \A h \in Grant : h # g => Spent(h)' = Spent(h)
  BY <1>1, SpentShrinks DEF TicketsInv, MemberInv
<1>5. LedgerLeft' = [LedgerLeft EXCEPT ![usage[r].grant] = @ + 1]
  <2>1. \A h \in Grant : granted'[h] * Quantity[h] - Cardinality(Spent(h)')
                            = IF h = g THEN LedgerLeft[h] + 1 ELSE LedgerLeft[h]
    BY <1>2, <1>4, LedgerNumbers DEF LedgerLeft
  <2> QED BY <1>1, <2>1 DEF LedgerLeft
<1>6. /\ usage[r].grant \in Grant /\ ~usage[r].back
      /\ usage' = [usage EXCEPT ![r].back = TRUE]
  BY DEF ReturnsOn
<1> QED
  BY <1>3, <1>5, <1>6 DEF L!Return, LedgerIssued, LedgerLeft

LEMMA LedgerIssues ==
    ASSUME TicketsInv, NEW p \in Purchase, Issues(p), UNCHANGED usage
    PROVE  p \in Grant /\ L!Issue(p)
<1>1. p \in Grant /\ granted \in [Grant -> 0..1]
  BY TicketsAssumption DEF TicketsInv, MemberInv, TypeOK
<1>2. /\ granted[p] = 0
      /\ \A h \in Grant : granted'[h] = IF h = p THEN 1 ELSE granted[h]
  BY <1>1 DEF Issues
<1>3. p \notin LedgerIssued /\ LedgerIssued' = LedgerIssued \cup {p}
  BY <1>1, <1>2 DEF LedgerIssued
<1>4. \A g : Spent(g)' = Spent(g)
  BY DEF Spent
<1>5. Cardinality(Spent(p)) = 0
  BY <1>1, <1>2, LedgerNumbers
<1>6. LedgerLeft' = [LedgerLeft EXCEPT ![p] = Quantity[p]]
  <2>1. \A h \in Grant : granted'[h] * Quantity[h] - Cardinality(Spent(h)')
                            = IF h = p THEN Quantity[p] ELSE LedgerLeft[h]
    BY <1>1, <1>2, <1>4, <1>5, LedgerNumbers DEF LedgerLeft
  <2> QED BY <2>1 DEF LedgerLeft
<1> QED
  BY <1>1, <1>3, <1>6 DEF L!Issue, LedgerIssued, LedgerLeft

LEMMA LedgerRests ==
    ASSUME UNCHANGED <<usage, granted>>
    PROVE  UNCHANGED L!vars
<1>1. \A g : Spent(g)' = Spent(g)
  BY DEF Spent
<1> QED
  BY <1>1 DEF L!vars

LEMMA LedgerStep == TicketsInv /\ [TicketsNext]_ticketVars => [L!Next]_(L!vars)
<1> SUFFICES ASSUME TicketsInv, [TicketsNext]_ticketVars
             PROVE  L!Next \/ UNCHANGED L!vars
  OBVIOUS
<1>1. CASE UNCHANGED ticketVars
  BY <1>1, LedgerRests DEF ticketVars, vars
<1>2. CASE P!Next /\ UNCHANGED <<row, usage, req, int, ses, overlap>>
  <2>1. UNCHANGED granted \/ \E p \in Purchase : Issues(p)
    BY <1>2, PurchaseStep DEF TicketsInv
  <2> QED BY <1>2, <2>1, LedgerRests, LedgerIssues DEF L!Next
<1>3. CASE \E q \in Req, g \in Grant : SpendTicket(q, g)
  <2>1. PICK q \in Req, g \in Grant : SpendTicket(q, g)
    BY <1>3
  <2>2. PICK r \in Row : r = req[q].row
    BY ReqFacts DEF TicketsInv
  <2>3. SpendsOn(g, r)
    BY <2>1, <2>2, SpendTicketFacts DEF TicketsInv
  <2> QED BY <2>3, LedgerSpends DEF L!Next
<1>4. CASE \E r \in Row : RefundTicket(r)
  BY <1>4, RefundTicketFacts, LedgerReturns DEF TicketsInv, L!Next
<1>5. CASE /\ Next
           /\ ~ \E q \in Req, g \in Grant : SpendTicket(q, g)
           /\ ~ \E r \in Row : RefundTicket(r)
  <2>1. UNCHANGED <<usage, granted>>
    BY <1>5 DEF Next, FindPayment, ShowOpenPage, ReserveUnpaid, CountTickets,
                SaveFree, ChargeSavedCard, LandCharge, OpenPage,
                FailPage, StorePage, Crash, SettleIntent, Pay, Expire, Webhook,
                LoseWebhook, Reconcile, Cancel, Restore
  <2> QED BY <2>1, LedgerRests
<1> QED
  BY <1>1, <1>2, <1>3, <1>4, <1>5 DEF TicketsNext

\* The purchases and the reservations implement the ledger: whatever runs at
\* once, dies or is repeated, a grant is issued once, a ticket that is spent
\* was there, a reservation has one ticket, and a ticket comes back once.
THEOREM TicketsImplementLedger == TicketsSpec => LedgerSpec
<1>1. TicketsInit => L!Init
  BY LedgerInit
<1>2. TicketsInv /\ [TicketsNext]_ticketVars => [L!Next]_(L!vars)
  BY LedgerStep
<1> QED
  BY <1>1, <1>2, TicketsInductive, PTL DEF TicketsSpec, LedgerSpec, L!Spec

-----------------------------------------------------------------------------
(* Who is charged twice.                                                   *)

\* What may still become, or already is, a payment for a slot: a charge that
\* succeeded or is being processed, a page that was shown or paid, and a ticket
\* that is not back.
LiveIntents(sl) ==
    {i \in Intent : /\ int[i].status \in {"processing", "succeeded"}
                    /\ SlotOf[int[i].row] = sl}
LiveSessions(sl) ==
    {s \in Session : /\ ses[s].status \in {"shown", "paid"}
                     /\ SlotOf[ses[s].row] = sl}
LiveTickets(sl) ==
    {r \in Row : SlotOf[r] = sl /\ usage[r].grant # NoGrant /\ ~usage[r].back}

AtMostOne(sl) ==
    /\ \A i, j \in LiveIntents(sl) : i = j
    /\ \A s, t \in LiveSessions(sl) : s = t
    /\ \A r, t \in LiveTickets(sl) : r = t
    /\ LiveIntents(sl) = {} \/ LiveSessions(sl) = {}
    /\ LiveIntents(sl) = {} \/ LiveTickets(sl) = {}
    /\ LiveSessions(sl) = {} \/ LiveTickets(sl) = {}

\* Charges and requests name rows that were written, and the session a row
\* knows is not one whose page was never shown.
RowsKnown ==
    /\ \A i \in Intent : int[i].status # "none" => row[int[i].row].status # "none"
    /\ \A q \in Req : req[q].pc \notin {"idle", "spend"} =>
          row[req[q].row].status # "none"
    /\ \A r \in Row : row[r].session # None => ses[row[r].session].status # "open"

\* A slot has one reservation at most, and a request that counts tickets for
\* the slot holds it.
OneRow ==
    /\ \A r, t \in Row : Exists(r) /\ Exists(t) /\ SlotOf[r] = SlotOf[t] => r = t
    /\ \A q \in Req, r \in Row :
          req[q].pc = "spend" /\ Exists(r) /\ SlotOf[r] = req[q].slot
            => r = req[q].row

\* The slot's reservation knows the page that was shown for it.
PagesKnown(sl) ==
    \A s \in LiveSessions(sl) : Exists(ses[s].row) /\ row[ses[s].row].session = s

Alone(sl) == \A p, q \in InSlot(sl) : p = q

\* While a request runs, its slot has been paid for by nothing but the charge
\* it made itself, whose idempotency key then keeps it from opening a page.
Owes(q) ==
    req[q].pc # "idle" =>
        /\ LiveSessions(req[q].slot) = {} /\ LiveTickets(req[q].slot) = {}
        /\ req[q].pc \notin {"land", "page"} => LiveIntents(req[q].slot) = {}
        /\ req[q].pc = "page" => \A i \in LiveIntents(req[q].slot) :
              int[i].row = req[q].row /\ int[i].stamp = req[q].stamp

SlotInv(sl) ==
    sl \notin overlap =>
        /\ AtMostOne(sl) /\ PagesKnown(sl) /\ Alone(sl)
        /\ \A q \in Req : req[q].slot = sl => Owes(q)

ChargeInv == RowsKnown /\ OneRow /\ \A sl \in Slot : SlotInv(sl)

LEMMA ChargeInit == Init => ChargeInv
<1> SUFFICES ASSUME Init
             PROVE  ChargeInv
  OBVIOUS
<1>1. MemberInv
  BY MemberInit
<1>2. /\ \A r \in Row : row[r] = NoRow /\ usage[r] = NoUsage
      /\ \A q \in Req : req[q].pc = "idle"
      /\ \A i \in Intent : int[i].status = "none"
      /\ \A s \in Session : ses[s].status = "none"
  BY DEF Init, Idle
<1>3. RowsKnown
  BY <1>2 DEF RowsKnown, NoRow
<1>4. OneRow
  BY <1>2 DEF OneRow, Exists, NoRow
<1>5. \A sl : LiveIntents(sl) = {} /\ LiveSessions(sl) = {} /\ LiveTickets(sl) = {}
  BY <1>2 DEF LiveIntents, LiveSessions, LiveTickets, NoUsage
<1>6. \A sl : AtMostOne(sl) /\ PagesKnown(sl) /\ Alone(sl)
  BY <1>2, <1>5 DEF AtMostOne, PagesKnown, Alone, InSlot
<1> QED
  BY <1>2, <1>3, <1>4, <1>6 DEF ChargeInv, SlotInv, Owes

\* A step that lets no request in, makes no payment live, and deletes or
\* changes no reservation whose page is live.
Calm ==
    /\ \A r \in Row :
          /\ row[r].status # "none" => row'[r].status # "none"
          /\ Exists(r)' => Exists(r)
          /\ Exists(r) /\ SlotOf[r] \notin overlap /\ LiveSessions(SlotOf[r]) # {} =>
                Exists(r)' /\ row'[r].session = row[r].session
          /\ \/ row'[r].session \in {None, row[r].session}
             \/ ses'[row'[r].session].status # "open"
          /\ usage'[r].grant # NoGrant /\ ~usage'[r].back =>
                usage[r].grant # NoGrant /\ ~usage[r].back
    /\ \A i \in Intent :
          \/ int'[i] = int[i]
          \/ /\ int[i].status = "processing" /\ int'[i].status # "none"
             /\ int'[i].row = int[i].row /\ int'[i].stamp = int[i].stamp
    /\ \A s \in Session :
          \/ ses'[s] = ses[s]
          \/ ses'[s].status \notin {"open", "shown", "paid"}
          \/ ses[s].status \in {"shown", "paid"} /\ ses'[s].status # "open"
             /\ ses'[s].row = ses[s].row
    /\ \A q \in Req : req'[q] = req[q] \/ req'[q].pc = "idle"
    /\ overlap' = overlap

LEMMA CalmStep ==
    ASSUME MemberInv, ChargeInv, Calm
    PROVE  ChargeInv'
<1>1. /\ \A q \in Req : req[q].row \in Row /\ req[q].slot \in Slot
      /\ \A i \in Intent : int[i].row \in Row
      /\ \A s \in Session : ses[s].row \in Row
  BY MemberTyped DEF MemberInv, ReqRecord, IntentRecord, SessionRecord
<1>2. \A r \in Row : row[r].session # None => row[r].session \in Session
  BY MemberTyped, MemberAssumption DEF MemberInv, RowRecord, None, Session
<1>3. \A sl : /\ LiveIntents(sl)' \subseteq LiveIntents(sl)
              /\ LiveSessions(sl)' \subseteq LiveSessions(sl)
              /\ LiveTickets(sl)' \subseteq LiveTickets(sl)
  BY DEF Calm, LiveIntents, LiveSessions, LiveTickets
<1>4. RowsKnown'
  <2>1. \A i \in Intent : int'[i].status # "none" => row'[int'[i].row].status # "none"
    BY <1>1 DEF Calm, ChargeInv, RowsKnown
  <2>2. \A q \in Req : req'[q].pc \notin {"idle", "spend"} =>
          row'[req'[q].row].status # "none"
    BY <1>1 DEF Calm, ChargeInv, RowsKnown
  <2>3. \A r \in Row : row'[r].session # None =>
          ses'[row'[r].session].status # "open"
    BY <1>2 DEF Calm, ChargeInv, RowsKnown
  <2> QED BY <2>1, <2>2, <2>3 DEF RowsKnown
<1>5. OneRow'
  BY DEF Calm, ChargeInv, OneRow
<1>6. ASSUME NEW sl \in Slot, sl \notin overlap
      PROVE  AtMostOne(sl)' /\ PagesKnown(sl)' /\ Alone(sl)'
  <2>1. AtMostOne(sl) /\ PagesKnown(sl) /\ Alone(sl)
    BY <1>6 DEF ChargeInv, SlotInv
  <2>2. AtMostOne(sl)'
    BY <1>3, <2>1 DEF AtMostOne
  <2>3. Alone(sl)'
    BY <2>1 DEF Alone, InSlot, Calm
  <2>4. PagesKnown(sl)'
    <3> SUFFICES ASSUME NEW s \in LiveSessions(sl)'
                 PROVE  Exists(ses[s].row)' /\ row'[ses'[s].row].session = s
                        /\ ses'[s].row = ses[s].row
      BY DEF PagesKnown, Exists
    <3>1. s \in LiveSessions(sl) /\ s \in Session /\ SlotOf[ses[s].row] = sl
      BY <1>3 DEF LiveSessions
    <3>2. ses'[s].row = ses[s].row
      BY <3>1 DEF Calm, LiveSessions
    <3>3. Exists(ses[s].row) /\ row[ses[s].row].session = s
      BY <2>1, <3>1 DEF PagesKnown
    <3> QED BY <1>1, <1>6, <3>1, <3>2, <3>3 DEF Calm, Exists
  <2> QED BY <2>2, <2>3, <2>4
<1>7. ASSUME NEW q \in Req, req'[q].slot \notin overlap
      PROVE  Owes(q)'
  <2> SUFFICES ASSUME req'[q].pc # "idle"
               PROVE  Owes(q)'
    BY DEF Owes
  <2>1. req'[q] = req[q]
    BY DEF Calm
  <2>2. Owes(q)
    BY <1>1, <1>7, <2>1 DEF ChargeInv, SlotInv
  <2>3. \A i \in LiveIntents(req[q].slot)' :
          int'[i].row = int[i].row /\ int'[i].stamp = int[i].stamp
    BY DEF Calm, LiveIntents
  <2> QED BY <1>3, <2>1, <2>2, <2>3 DEF Owes
<1> QED
  BY <1>4, <1>5, <1>6, <1>7 DEF ChargeInv, SlotInv, Calm

\* One reservation is written, and stays one with the page it knows.
LEMMA CalmRow ==
    ASSUME MemberInv, NEW r \in Row, Exists(r), NEW x,
           row' = [row EXCEPT ![r] = x],
           x.status \in {"unpaid", "paid"}, x.session = row[r].session,
           UNCHANGED <<usage, int, ses, overlap>>,
           \A q \in Req : req'[q] = req[q] \/ req'[q].pc = "idle"
    PROVE  Calm
<1>1. \A t \in Row : row'[t] = IF t = r THEN x ELSE row[t]
  BY DEF MemberInv, TypeOK
<1> QED
  BY <1>1 DEF Calm, Exists

LEMMA CalmRowless ==
    ASSUME UNCHANGED <<row, usage, int, ses, overlap>>,
           \A q \in Req : req'[q] = req[q] \/ req'[q].pc = "idle"
    PROVE  Calm
  BY DEF Calm, Exists

LEMMA RecordedSession ==
    ASSUME MemberInv, NEW r \in Row, row' \in Recorded(r)
    PROVE  \E x : /\ row' = [row EXCEPT ![r] = x]
                  /\ x.status = "paid" /\ x.session = row[r].session
<1> DEFINE a == [row[r] EXCEPT !.status = "paid", !.deleted = FALSE]
           b(i) == [row[r] EXCEPT !.status = "paid", !.deleted = FALSE, !.intent = i]
<1>1. row[r] \in RowRecord
  BY MemberTyped DEF MemberInv
<1>2. a.status = "paid" /\ a.session = row[r].session
  BY <1>1 DEF RowRecord
<1>3. \A i : b(i).status = "paid" /\ b(i).session = row[r].session
  BY <1>1 DEF RowRecord
<1>4. row' = [row EXCEPT ![r] = a] \/ \E i : row' = [row EXCEPT ![r] = b(i)]
  BY DEF Recorded
<1> HIDE DEF a, b
<1> QED BY <1>2, <1>3, <1>4

LEMMA CalmRecords ==
    ASSUME MemberInv, NEW r \in Row,
           FindPayment(r) \/ Reconcile(r) \/ Cancel(r) \/ Restore(r)
    PROVE  Calm
<1>1. UNCHANGED <<usage, req, int, ses, overlap>> /\ Exists(r)
  BY DEF FindPayment, Reconcile, Cancel, Restore, Exists
<1>2. row[r] \in RowRecord
  BY MemberTyped DEF MemberInv
<1> SUFFICES \E x : /\ row' = [row EXCEPT ![r] = x]
                    /\ x.status \in {"unpaid", "paid"} /\ x.session = row[r].session
  BY <1>1, CalmRow
<1>3. CASE row' \in Recorded(r)
  BY <1>3, RecordedSession
<1>4. CASE \E d \in BOOLEAN : row' = [row EXCEPT ![r].deleted = d]
  <2>1. PICK d \in BOOLEAN : row' = [row EXCEPT ![r] = [row[r] EXCEPT !.deleted = d]]
    BY <1>4
  <2> DEFINE x == [row[r] EXCEPT !.deleted = d]
  <2>2. x.status \in {"unpaid", "paid"} /\ x.session = row[r].session
    BY <1>1, <1>2 DEF Exists, RowRecord
  <2>3. row' = [row EXCEPT ![r] = x]
    BY <2>1
  <2> HIDE DEF x
  <2> QED BY <2>2, <2>3
<1>5. CASE \E d \in BOOLEAN : row' = [row EXCEPT ![r].canceled = d]
  <2>1. PICK d \in BOOLEAN : row' = [row EXCEPT ![r] = [row[r] EXCEPT !.canceled = d]]
    BY <1>5
  <2> DEFINE x == [row[r] EXCEPT !.canceled = d]
  <2>2. x.status \in {"unpaid", "paid"} /\ x.session = row[r].session
    BY <1>1, <1>2 DEF Exists, RowRecord
  <2>3. row' = [row EXCEPT ![r] = x]
    BY <2>1
  <2> HIDE DEF x
  <2> QED BY <2>2, <2>3
<1>6. CASE \E i \in Intent : row' = [row EXCEPT ![r].status = "paid", ![r].intent = i]
  <2>1. PICK i \in Intent :
          row' = [row EXCEPT ![r] = [row[r] EXCEPT !.status = "paid", !.intent = i]]
    BY <1>6
  <2> DEFINE x == [row[r] EXCEPT !.status = "paid", !.intent = i]
  <2>2. x.status \in {"unpaid", "paid"} /\ x.session = row[r].session
    BY <1>1, <1>2 DEF Exists, RowRecord
  <2>3. row' = [row EXCEPT ![r] = x]
    BY <2>1
  <2> HIDE DEF x
  <2> QED BY <2>2, <2>3
<1>7. CASE \E i \in Intent : row' = [row EXCEPT ![r].intent = i]
  <2>1. PICK i \in Intent : row' = [row EXCEPT ![r] = [row[r] EXCEPT !.intent = i]]
    BY <1>7
  <2> DEFINE x == [row[r] EXCEPT !.intent = i]
  <2>2. x.status \in {"unpaid", "paid"} /\ x.session = row[r].session
    BY <1>1, <1>2 DEF Exists, RowRecord
  <2>3. row' = [row EXCEPT ![r] = x]
    BY <2>1
  <2> HIDE DEF x
  <2> QED BY <2>2, <2>3
<1>8. IntentToCheck(r) \subseteq Intent
  <2>1. row[r].intent # None => row[r].intent \in Intent
    BY <1>2, MemberAssumption DEF RowRecord, None, Intent
  <2> QED BY <2>1 DEF IntentToCheck, Newest, SucceededIntents, IntentsOf
<1> QED
  BY <1>3, <1>4, <1>5, <1>6, <1>7, <1>8
     DEF FindPayment, Reconcile, Abandoned, Cancel, Restore

LEMMA CalmSaves ==
    ASSUME MemberInv, NEW q \in Req, SaveFree(q) \/ LandCharge(q) \/ Crash(q)
    PROVE  Calm
<1> DEFINE r == req[q].row
           a == [row[r] EXCEPT !.status = "paid", !.deleted = FALSE]
           b == [row[r] EXCEPT !.status = "paid", !.intent = req[q].intent,
                               !.deleted = FALSE]
<1>1. /\ req' = [req EXCEPT ![q] = Idle]
      /\ UNCHANGED <<usage, int, ses, overlap>>
  BY DEF SaveFree, LandCharge, Crash, Save
<1>2. r \in Row /\ row[r] \in RowRecord
  BY ReqFacts
<1>3. \A p \in Req : req'[p] = req[p] \/ req'[p].pc = "idle"
  BY <1>1, IdleReq
<1>4. \/ row' = row
      \/ Exists(r) /\ (row' = [row EXCEPT ![r] = a] \/ row' = [row EXCEPT ![r] = b])
  BY DEF SaveFree, LandCharge, Crash, Save
<1>5. /\ a.status = "paid" /\ a.session = row[r].session
      /\ b.status = "paid" /\ b.session = row[r].session
  BY <1>2 DEF RowRecord
<1> HIDE DEF a, b, r
<1> QED
  BY <1>1, <1>2, <1>3, <1>4, <1>5, CalmRow, CalmRowless

LEMMA CalmRefund ==
    ASSUME MemberInv, NEW r \in Row, RefundTicket(r)
    PROVE  Calm
<1>1. /\ row[r].status = "paid"
      /\ row' = [row EXCEPT ![r] = [row[r] EXCEPT !.refunded = TRUE, !.canceled = TRUE]]
      /\ usage' = [usage EXCEPT ![r] = [usage[r] EXCEPT !.back = TRUE]]
      /\ UNCHANGED <<req, int, ses, overlap>>
  BY DEF RefundTicket
<1>2. row[r] \in RowRecord /\ usage[r] \in UsageRecord
  BY MemberTyped DEF MemberInv
<1>3. /\ row'[r].status = "paid" /\ row'[r].session = row[r].session
      /\ \A t \in Row : t # r => row'[t] = row[t] /\ usage'[t] = usage[t]
      /\ usage'[r].back = TRUE
  BY <1>1, <1>2 DEF RowRecord, UsageRecord, MemberInv, TypeOK
<1> QED
  BY <1>1, <1>3 DEF Calm, Exists

LEMMA CalmStripe ==
    ASSUME MemberInv, \/ \E i \in Intent : SettleIntent(i)
                      \/ \E s \in Session : Pay(s) \/ Expire(s) \/ LoseWebhook(s)
    PROVE  Calm
<1>1. UNCHANGED <<row, usage, req, overlap>>
  BY DEF SettleIntent, Pay, Expire, LoseWebhook
<1>2. CASE \E i \in Intent : SettleIntent(i)
  <2>1. PICK i \in Intent : SettleIntent(i)
    BY <1>2
  <2>2. PICK status \in {"succeeded", "refused"} :
          int' = [int EXCEPT ![i] = [int[i] EXCEPT !.status = status]]
    BY <2>1 DEF SettleIntent
  <2>3. int[i] \in IntentRecord /\ int[i].status = "processing" /\ UNCHANGED ses
    BY <2>1, MemberTyped DEF MemberInv, SettleIntent
  <2>4. /\ int'[i].status = status /\ int'[i].row = int[i].row
        /\ int'[i].stamp = int[i].stamp
        /\ \A j \in Intent : j # i => int'[j] = int[j]
    BY <2>2, <2>3 DEF IntentRecord, MemberInv, TypeOK
  <2> QED BY <1>1, <2>2, <2>3, <2>4 DEF Calm, Exists
<1>3. CASE \E s \in Session : Pay(s) \/ Expire(s) \/ LoseWebhook(s)
  <2>1. PICK s \in Session : Pay(s) \/ Expire(s) \/ LoseWebhook(s)
    BY <1>3
  <2>2. ses[s] \in SessionRecord /\ UNCHANGED int
    BY <2>1, MemberTyped DEF MemberInv, Pay, Expire, LoseWebhook
  <2>3. \A t \in Session : t # s => ses'[t] = ses[t]
    BY <2>1 DEF Pay, Expire, LoseWebhook, MemberInv, TypeOK
  <2>4. CASE Pay(s)
    <3>1. ses[s].status = "shown"
          /\ ses' = [ses EXCEPT ![s] = [ses[s] EXCEPT !.status = "paid", !.hook = "pending"]]
      BY <2>4 DEF Pay
    <3>2. ses'[s].status = "paid" /\ ses'[s].row = ses[s].row
      BY <2>2, <3>1 DEF SessionRecord, MemberInv, TypeOK
    <3> QED BY <1>1, <2>2, <2>3, <3>1, <3>2 DEF Calm, Exists
  <2>5. CASE Expire(s)
    <3>1. ses'[s].status = "expired"
      BY <2>2, <2>5 DEF Expire, SessionRecord, MemberInv, TypeOK
    <3> QED BY <1>1, <2>2, <2>3, <3>1 DEF Calm, Exists
  <2>6. CASE LoseWebhook(s)
    <3>1. ses' = [ses EXCEPT ![s] = [ses[s] EXCEPT !.hook = "over"]]
          /\ ses[s].status = "paid"
      BY <2>6 DEF LoseWebhook, MemberInv, HooksPaid
    <3>2. ses'[s].status = "paid" /\ ses'[s].row = ses[s].row
      BY <2>2, <3>1 DEF SessionRecord, MemberInv, TypeOK
    <3> QED BY <1>1, <2>2, <2>3, <3>1, <3>2 DEF Calm, Exists
  <2> QED BY <2>1, <2>4, <2>5, <2>6
<1> QED BY <1>2, <1>3

LEMMA CalmWebhook ==
    ASSUME MemberInv, ChargeInv, NEW s \in Session, Webhook(s)
    PROVE  Calm
<1> DEFINE r == ses[s].row
           x == [row[r] EXCEPT !.status = "paid", !.deleted = FALSE, !.session = s]
<1>1. PICK h \in {"pending", "over"} : ses' = [ses EXCEPT ![s] = [ses[s] EXCEPT !.hook = h]]
  BY DEF Webhook
<1>2. /\ ses[s].status = "paid" /\ UNCHANGED <<usage, req, int, overlap>>
      /\ ses[s] \in SessionRecord
  BY MemberTyped DEF Webhook, MemberInv, HooksPaid
<1>3. r \in Row /\ row[r] \in RowRecord
  BY <1>2, MemberTyped DEF MemberInv, SessionRecord
<1>4. /\ ses'[s].status = "paid" /\ ses'[s].row = r
      /\ \A t \in Session : t # s => ses'[t] = ses[t]
  BY <1>1, <1>2 DEF SessionRecord, MemberInv, TypeOK
<1>5. row' = row \/ (Exists(r) /\ row' = [row EXCEPT ![r] = x])
  <2>1. row' = CompletePaidCheckout(s)
    BY DEF Webhook
  <2>2. CASE Exists(r)
    BY <2>1, <2>2 DEF CompletePaidCheckout
  <2>3. CASE ~Exists(r)
    BY <2>1, <2>3 DEF CompletePaidCheckout
  <2> QED BY <2>2, <2>3
<1>6. x.status = "paid" /\ x.session = s
  BY <1>3 DEF RowRecord
<1>7. SlotOf[r] \notin overlap /\ Exists(r) => row[r].session = s
  <2> SUFFICES ASSUME SlotOf[r] \notin overlap
               PROVE  row[r].session = s
    OBVIOUS
  <2>1. SlotOf[r] \in Slot
    BY <1>3, MemberAssumption
  <2>2. PagesKnown(SlotOf[r])
    BY <2>1 DEF ChargeInv, SlotInv
  <2> QED BY <1>2, <2>2 DEF PagesKnown, LiveSessions
<1> HIDE DEF r, x
<1>8. CASE row' = row
  BY <1>2, <1>4, <1>8 DEF Calm, Exists, r
<1>9. CASE Exists(r) /\ row' = [row EXCEPT ![r] = x]
  <2>1. \A t \in Row : row'[t] = IF t = r THEN x ELSE row[t]
    BY <1>9 DEF MemberInv, TypeOK
  <2> QED BY <1>2, <1>3, <1>4, <1>6, <1>7, <1>9, <2>1 DEF Calm, Exists, r
<1> QED BY <1>5, <1>8, <1>9

LEMMA CalmShown ==
    ASSUME MemberInv, ChargeInv, NEW r \in Row, ShowOpenPage(r)
    PROVE  Calm
<1> DEFINE s == row[r].session
           x == [row[r] EXCEPT !.deleted = FALSE]
<1>1. row[r] \in RowRecord /\ s \in Session /\ ses[s] \in SessionRecord
  BY MemberTyped, MemberAssumption
     DEF MemberInv, ShowOpenPage, StripeOpen, RowRecord, Session, None
<1>2. row[r].status = "unpaid" /\ ses[s].status = "shown"
  BY DEF ShowOpenPage, StripeOpen, ChargeInv, RowsKnown
<1>3. /\ row' = [row EXCEPT ![r] = x]
      /\ ses' = [ses EXCEPT ![s] = [ses[s] EXCEPT !.status = "shown"]]
      /\ UNCHANGED <<usage, req, int, overlap>>
  BY DEF ShowOpenPage
<1>4. ses' = ses
  <2>1. [ses[s] EXCEPT !.status = "shown"] = ses[s]
    BY <1>1, <1>2 DEF SessionRecord
  <2> QED BY <1>3, <2>1 DEF MemberInv, TypeOK
<1>5. x.status = "unpaid" /\ x.session = row[r].session
  BY <1>1, <1>2 DEF RowRecord
<1> HIDE DEF x
<1> QED BY <1>2, <1>3, <1>4, <1>5, CalmRow DEF Exists

LEMMA OwesNow ==
    ASSUME MemberInv, ChargeInv, NEW q \in Req, req[q].pc # "idle"
    PROVE  /\ req[q].row \in Row /\ req[q].slot \in Slot
           /\ SlotOf[req[q].row] = req[q].slot
           /\ req[q].slot \notin overlap =>
                 /\ Owes(q)
                 /\ \A p \in Req : p # q /\ req[p].slot = req[q].slot =>
                       req[p].pc = "idle"
<1>1. /\ req[q].row \in Row /\ req[q].slot \in Slot
      /\ SlotOf[req[q].row] = req[q].slot
  BY ReqFacts DEF ReqSound, ReqRecord
<1> QED
  BY <1>1 DEF ChargeInv, SlotInv, Alone, InSlot

LEMMA CalmFailure ==
    ASSUME MemberInv, ChargeInv, NEW q \in Req, FailPage(q)
    PROVE  Calm
<1> DEFINE r == req[q].row
           x == [NoRow EXCEPT !.status = "gone"]
<1>1. /\ req[q].pc = "page" /\ req' = [req EXCEPT ![q] = Idle]
      /\ UNCHANGED <<usage, int, ses, overlap>>
      /\ row' = row \/ (Exists(r) /\ row' = [row EXCEPT ![r] = x])
  <2>1. CASE Exists(r)
    BY <2>1 DEF FailPage
  <2>2. CASE ~Exists(r)
    BY <2>2 DEF FailPage
  <2> QED BY <2>1, <2>2
<1>2. \A p \in Req : req'[p] = req[p] \/ req'[p].pc = "idle"
  BY <1>1, IdleReq
<1>3. r \in Row /\ (SlotOf[r] \notin overlap => LiveSessions(SlotOf[r]) = {})
  BY <1>1, OwesNow DEF Owes
<1>4. x.status = "gone" /\ x.session = None
  BY DEF NoRow
<1> HIDE DEF r, x
<1>5. CASE row' = row
  BY <1>1, <1>2, <1>5, CalmRowless
<1>6. CASE Exists(r) /\ row' = [row EXCEPT ![r] = x]
  <2>1. \A t \in Row : row'[t] = IF t = r THEN x ELSE row[t]
    BY <1>6 DEF MemberInv, TypeOK
  <2> QED BY <1>1, <1>2, <1>3, <1>4, <1>6, <2>1 DEF Calm, Exists
<1> QED BY <1>1, <1>5, <1>6

\* A step that touches nothing of other slots than sl.
Within(sl) ==
    /\ \A r \in Row : SlotOf[r] # sl => row'[r] = row[r] /\ usage'[r] = usage[r]
    /\ \A i \in Intent : int'[i] = int[i] \/ SlotOf[int'[i].row] = sl
    /\ \A s \in Session : ses'[s] = ses[s] \/ SlotOf[ses'[s].row] = sl
    /\ \A q \in Req : \/ req'[q] = req[q]
                      \/ req'[q].pc = "idle"
                      \/ req'[q].slot = sl
    /\ overlap \subseteq overlap'

LEMMA OtherSlots ==
    ASSUME MemberInv, ChargeInv, NEW sl, Within(sl), NEW other \in Slot, other # sl
    PROVE  SlotInv(other)'
<1> SUFFICES ASSUME other \notin overlap'
             PROVE  SlotInv(other)'
  BY DEF SlotInv
<1>1. /\ AtMostOne(other) /\ PagesKnown(other) /\ Alone(other)
      /\ \A q \in Req : req[q].slot = other => Owes(q)
  BY DEF Within, ChargeInv, SlotInv
<1>2. \A s \in Session : ses[s].row \in Row
  BY MemberTyped DEF MemberInv, SessionRecord
<1>3. /\ LiveIntents(other)' \subseteq LiveIntents(other)
      /\ LiveSessions(other)' \subseteq LiveSessions(other)
      /\ LiveTickets(other)' \subseteq LiveTickets(other)
  BY DEF Within, LiveIntents, LiveSessions, LiveTickets
<1>4. AtMostOne(other)'
  BY <1>1, <1>3 DEF AtMostOne
<1>5. PagesKnown(other)'
  <2> SUFFICES ASSUME NEW s \in LiveSessions(other)'
               PROVE  Exists(ses[s].row)' /\ row'[ses'[s].row].session = s
    BY DEF PagesKnown
  <2>1. /\ s \in LiveSessions(other) /\ s \in Session /\ SlotOf[ses'[s].row] = other
    BY <1>3 DEF LiveSessions
  <2>2. ses'[s] = ses[s]
    BY <2>1 DEF Within
  <2>3. Exists(ses[s].row) /\ row[ses[s].row].session = s
    BY <1>1, <2>1 DEF PagesKnown
  <2>4. row'[ses[s].row] = row[ses[s].row]
    BY <1>2, <2>1, <2>2 DEF Within
  <2> QED BY <2>2, <2>3, <2>4 DEF Exists
<1>6. Alone(other)'
  BY <1>1 DEF Within, Alone, InSlot
<1>7. \A q \in Req : req'[q].slot = other => Owes(q)'
  <2> SUFFICES ASSUME NEW q \in Req, req'[q].slot = other, req'[q].pc # "idle"
               PROVE  Owes(q)'
    BY DEF Owes
  <2>1. req'[q] = req[q]
    BY DEF Within
  <2>2. Owes(q)
    BY <1>1, <2>1
  <2>3. \A i \in LiveIntents(other)' : int'[i] = int[i]
    BY DEF Within, LiveIntents
  <2> QED BY <1>3, <2>1, <2>2, <2>3 DEF Owes
<1> QED BY <1>4, <1>5, <1>6, <1>7 DEF SlotInv

\* A request that enters finds its slot paid for by nothing, unless the slot
\* is one of overlap.
LEMMA EnterFinds ==
    ASSUME MemberInv, ChargeInv, NEW sl \in Slot, NEW r \in Takeable(sl),
           Enter(sl)
    PROVE  /\ overlap \subseteq overlap'
           /\ sl \notin overlap' =>
                 /\ sl \notin overlap /\ InSlot(sl) = {}
                 /\ LiveIntents(sl) = {} /\ LiveSessions(sl) = {}
                 /\ LiveTickets(sl) = {}
<1>1. overlap \subseteq overlap'
  BY DEF Enter
<1> SUFFICES ASSUME sl \notin overlap'
             PROVE  /\ sl \notin overlap /\ InSlot(sl) = {}
                    /\ LiveIntents(sl) = {} /\ LiveSessions(sl) = {}
                    /\ LiveTickets(sl) = {}
  BY <1>1
<1>2. sl \notin overlap /\ InSlot(sl) = {} /\ ~Unseen(sl)
  BY DEF Enter
<1>3. /\ \A i \in Intent : int[i].row \in Row /\ int[i] \in IntentRecord
      /\ \A s \in Session : ses[s].row \in Row
      /\ \A t \in Row : row[t] \in RowRecord
  BY MemberTyped DEF MemberInv, IntentRecord, SessionRecord
<1>4. ASSUME NEW t \in Row, SlotOf[t] = sl, Exists(t)
      PROVE  t = r /\ row[r].status = "unpaid" /\ ConfirmedUnpaid(r)
  <2>1. r \in {t2 \in Row : SlotOf[t2] = sl /\ Exists(t2)}
        /\ row[r].status = "unpaid" /\ ConfirmedUnpaid(r)
    BY <1>4 DEF Takeable
  <2> QED BY <1>4, <2>1 DEF ChargeInv, OneRow
<1>5. LiveIntents(sl) = {}
  <2> SUFFICES ASSUME NEW i \in LiveIntents(sl)
               PROVE  FALSE
    OBVIOUS
  <2>1. i \in Intent /\ SlotOf[int[i].row] = sl
        /\ int[i].status = "succeeded" /\ row[int[i].row].status # "gone"
    BY <1>2 DEF LiveIntents, Unseen
  <2>2. Exists(int[i].row)
    <3>1. row[int[i].row].status # "none"
      BY <2>1 DEF ChargeInv, RowsKnown
    <3> QED BY <1>3, <2>1, <3>1 DEF Exists, RowRecord, RowStatus
  <2>3. int[i].row = r /\ ConfirmedUnpaid(r)
    BY <1>3, <1>4, <2>1, <2>2
  <2>4. i \in SucceededIntents(r)
    BY <2>1, <2>3 DEF SucceededIntents
  <2> QED BY <2>3, <2>4 DEF ConfirmedUnpaid, StripePaid
<1>6. LiveSessions(sl) = {}
  <2> SUFFICES ASSUME NEW s \in LiveSessions(sl)
               PROVE  FALSE
    OBVIOUS
  <2>1. /\ s \in Session /\ SlotOf[ses[s].row] = sl
        /\ ses[s].status \in {"shown", "paid"}
    BY DEF LiveSessions
  <2>2. Exists(ses[s].row) /\ row[ses[s].row].session = s
    BY <1>2 DEF ChargeInv, SlotInv, PagesKnown
  <2>3. ses[s].row = r /\ ConfirmedUnpaid(r)
    BY <1>3, <1>4, <2>1, <2>2
  <2>4. row[r].session # None
    BY <2>1, <2>2, <2>3, Members DEF None
  <2> QED BY <2>1, <2>2, <2>3, <2>4 DEF ConfirmedUnpaid, StripePaid, StripeOpen
<1>7. LiveTickets(sl) = {}
  <2> SUFFICES ASSUME NEW t \in LiveTickets(sl)
               PROVE  FALSE
    OBVIOUS
  <2>1. t \in Row /\ SlotOf[t] = sl /\ usage[t].grant # NoGrant
    BY DEF LiveTickets
  <2>2. row[t].status = "paid"
    BY <2>1 DEF MemberInv, RowSound
  <2> QED BY <1>4, <2>1, <2>2 DEF Exists
<1> QED BY <1>2, <1>5, <1>6, <1>7

\* The slot of a request that enters: nothing of what was paid changes.
LEMMA EnterSlot ==
    ASSUME MemberInv, ChargeInv, NEW sl \in Slot, NEW r \in Takeable(sl),
           Enter(sl), UNCHANGED <<usage, int, ses>>,
           NEW q \in Req, \A p \in Req : p # q => req'[p] = req[p]
    PROVE  SlotInv(sl)'
<1> SUFFICES ASSUME sl \notin overlap'
             PROVE  SlotInv(sl)'
  BY DEF SlotInv
<1>1. /\ InSlot(sl) = {}
      /\ LiveIntents(sl) = {} /\ LiveSessions(sl) = {} /\ LiveTickets(sl) = {}
  BY EnterFinds
<1>2. LiveIntents(sl)' = {} /\ LiveSessions(sl)' = {} /\ LiveTickets(sl)' = {}
  BY <1>1 DEF LiveIntents, LiveSessions, LiveTickets
<1>3. AtMostOne(sl)' /\ PagesKnown(sl)'
  BY <1>2 DEF AtMostOne, PagesKnown
<1>4. Alone(sl)'
  BY <1>1 DEF Alone, InSlot
<1>5. \A p \in Req : req'[p].slot = sl => Owes(p)'
  BY <1>2 DEF Owes
<1> QED BY <1>3, <1>4, <1>5 DEF SlotInv

LEMMA TakenAlone ==
    ASSUME MemberInv, ChargeInv, NEW sl \in Slot, NEW r \in Takeable(sl)
    PROVE  \A t \in Row : Exists(t) /\ SlotOf[t] = sl => t = r
<1> SUFFICES ASSUME NEW t \in Row, Exists(t), SlotOf[t] = sl
             PROVE  t = r
  OBVIOUS
<1>1. r \in {t2 \in Row : SlotOf[t2] = sl /\ Exists(t2)}
  BY DEF Takeable
<1> QED BY <1>1 DEF ChargeInv, OneRow

LEMMA ReserveUnpaidCharge ==
    ASSUME MemberInv, ChargeInv, NEW q \in Req, NEW sl \in Slot, NEW r \in Row,
           ReserveUnpaid(q, sl, r)
    PROVE  ChargeInv'
<1> DEFINE stamp == IF row[r].status = "none" THEN 0 ELSE row[r].stamp + 1
           x == [[NoRow EXCEPT !.refunded = row[r].refunded]
                   EXCEPT !.status = "unpaid", !.stamp = stamp]
           y == [Idle EXCEPT !.pc = IF sl \in Free THEN "zero" ELSE "charge",
                             !.slot = sl, !.row = r, !.stamp = stamp]
<1>1. /\ r \in Takeable(sl) /\ ~Locked(sl) /\ Enter(sl)
      /\ row' = [row EXCEPT ![r] = x]
      /\ req' = [req EXCEPT ![q] = y]
      /\ UNCHANGED <<usage, int, ses>>
  BY DEF ReserveUnpaid, Reused
<1>2. x.session = None /\ x.status = "unpaid"
  BY DEF NoRow
<1>3. y.pc \in {"zero", "charge"} /\ y.slot = sl /\ y.row = r
  BY DEF Idle
<1> HIDE DEF x, y, stamp
<1>4. /\ \A t \in Row : row'[t] = IF t = r THEN x ELSE row[t]
      /\ \A p \in Req : req'[p] = IF p = q THEN y ELSE req[p]
  BY <1>1 DEF MemberInv, TypeOK
<1>5. SlotOf[r] = sl
  BY <1>1, TakeableRows
<1>6. /\ \A i \in Intent : int[i].row \in Row
      /\ \A p \in Req : req[p].row \in Row
  BY MemberTyped DEF MemberInv, IntentRecord, ReqRecord
<1>7. RowsKnown'
  BY <1>1, <1>2, <1>3, <1>4, <1>6 DEF ChargeInv, RowsKnown
<1>8. OneRow'
  <2>1. \A t \in Row : Exists(t) /\ SlotOf[t] = sl => t = r
    BY <1>1, TakenAlone
  <2>2. \A t \in Row : Exists(t)' => Exists(t) \/ t = r
    BY <1>4 DEF Exists
  <2>3. \A p \in Req : req'[p].pc = "spend" => req'[p] = req[p] /\ req[p].slot # sl
    BY <1>1, <1>3, <1>4 DEF Locked
  <2>4. \A t, u \in Row : Exists(t)' /\ Exists(u)' /\ SlotOf[t] = SlotOf[u] => t = u
    BY <1>5, <2>1, <2>2 DEF ChargeInv, OneRow
  <2>5. \A p \in Req, t \in Row :
           req'[p].pc = "spend" /\ Exists(t)' /\ SlotOf[t] = req'[p].slot
             => t = req'[p].row
    BY <1>5, <2>2, <2>3 DEF ChargeInv, OneRow
  <2> QED BY <2>4, <2>5 DEF OneRow
<1>9. overlap \subseteq overlap'
  BY <1>1, EnterFinds
<1>10. Within(sl)
  BY <1>1, <1>3, <1>4, <1>5, <1>9 DEF Within
<1>11. SlotInv(sl)'
  BY <1>1, <1>4, EnterSlot
<1> QED BY <1>7, <1>8, <1>10, <1>11, OtherSlots DEF ChargeInv

LEMMA CountTicketsCharge ==
    ASSUME MemberInv, ChargeInv, NEW q \in Req, NEW sl \in Slot, NEW r \in Row,
           CountTickets(q, sl, r)
    PROVE  ChargeInv'
<1> DEFINE y == [Idle EXCEPT !.pc = "spend", !.slot = sl, !.row = r,
                             !.left = UsableGrants(sl)]
<1>1. /\ r \in Takeable(sl) /\ Enter(sl)
      /\ req' = [req EXCEPT ![q] = y]
      /\ UNCHANGED <<row, usage, int, ses>>
  BY DEF CountTickets
<1>2. y.pc = "spend" /\ y.slot = sl /\ y.row = r
  BY DEF Idle
<1> HIDE DEF y
<1>3. \A p \in Req : req'[p] = IF p = q THEN y ELSE req[p]
  BY <1>1 DEF MemberInv, TypeOK
<1>4. RowsKnown'
  BY <1>1, <1>2, <1>3 DEF ChargeInv, RowsKnown
<1>5. OneRow'
  <2>1. \A t \in Row : Exists(t)' <=> Exists(t)
    BY <1>1 DEF Exists
  <2>2. \A t \in Row : Exists(t) /\ SlotOf[t] = sl => t = r
    BY <1>1, TakenAlone
  <2> QED BY <1>2, <1>3, <2>1, <2>2 DEF ChargeInv, OneRow
<1>6. overlap \subseteq overlap'
  BY <1>1, EnterFinds
<1>7. Within(sl)
  BY <1>1, <1>2, <1>3, <1>6 DEF Within
<1>8. SlotInv(sl)'
  BY <1>1, <1>3, EnterSlot
<1> QED BY <1>4, <1>5, <1>7, <1>8, OtherSlots DEF ChargeInv

LEMMA SpendTicketCharge ==
    ASSUME MemberInv, ChargeInv, NEW q \in Req, NEW g \in Grant, SpendTicket(q, g)
    PROVE  ChargeInv'
<1>0. PICK r \in Row : r = req[q].row
  BY ReqFacts
<1>1. PICK sl \in Slot : sl = req[q].slot
  BY ReqFacts DEF ReqRecord
<1> DEFINE x == [[NoRow EXCEPT !.refunded = row[r].refunded]
                   EXCEPT !.status = "paid", !.ticket = TRUE]
<1>2. /\ req[q].pc = "spend"
      /\ row' = [row EXCEPT ![r] = x]
      /\ req' = [req EXCEPT ![q] = Idle]
      /\ UNCHANGED <<int, ses, overlap>>
  BY <1>0 DEF SpendTicket, Reused
<1>3. x.status = "paid" /\ x.session = None
  BY DEF NoRow
<1> HIDE DEF x
<1>4. SpendsOn(g, r) /\ SlotOf[r] = sl
  BY <1>0, <1>1, <1>2, SpendTicketFacts, ReqFacts DEF ReqSound
<1>5. \A t \in Row : /\ row'[t] = IF t = r THEN x ELSE row[t]
                     /\ t # r => usage'[t] = usage[t]
  BY <1>2, <1>4 DEF SpendsOn, MemberInv, TypeOK
<1>6. /\ req'[q].pc = "idle"
      /\ \A p \in Req : p # q => req'[p] = req[p]
  BY <1>2 DEF Idle, MemberInv, TypeOK
<1>7. /\ \A i \in Intent : int[i].row \in Row
      /\ \A p \in Req : req[p].row \in Row
  BY MemberTyped DEF MemberInv, IntentRecord, ReqRecord
<1>8. RowsKnown'
  BY <1>2, <1>3, <1>5, <1>6, <1>7 DEF ChargeInv, RowsKnown
<1>9. OneRow'
  <2>1. \A t \in Row : Exists(t) /\ SlotOf[t] = sl => t = r
    BY <1>0, <1>1, <1>2 DEF ChargeInv, OneRow
  <2>2. \A t \in Row : Exists(t)' => Exists(t) \/ t = r
    BY <1>5 DEF Exists
  <2>3. \A p \in Req : req'[p].pc = "spend" => req'[p] = req[p] /\ req[p].slot # sl
    BY <1>1, <1>2, <1>6 DEF MemberInv, Apart
  <2>4. \A t, u \in Row : Exists(t)' /\ Exists(u)' /\ SlotOf[t] = SlotOf[u] => t = u
    BY <1>4, <2>1, <2>2 DEF ChargeInv, OneRow
  <2>5. \A p \in Req, t \in Row :
           req'[p].pc = "spend" /\ Exists(t)' /\ SlotOf[t] = req'[p].slot
             => t = req'[p].row
    BY <1>4, <2>2, <2>3 DEF ChargeInv, OneRow
  <2> QED BY <2>4, <2>5 DEF OneRow
<1>10. Within(sl)
  BY <1>2, <1>4, <1>5, <1>6 DEF Within
<1>11. SlotInv(sl)'
  <2> SUFFICES ASSUME sl \notin overlap
               PROVE  SlotInv(sl)'
    BY <1>2 DEF SlotInv
  <2>1. /\ LiveIntents(sl) = {} /\ LiveSessions(sl) = {} /\ LiveTickets(sl) = {}
        /\ \A p \in Req : p # q /\ req[p].slot = sl => req[p].pc = "idle"
    BY <1>1, <1>2, OwesNow DEF Owes
  <2>2. LiveIntents(sl)' = {} /\ LiveSessions(sl)' = {}
    BY <1>2, <2>1 DEF LiveIntents, LiveSessions
  <2>3. LiveTickets(sl)' \subseteq {r}
    BY <1>5, <2>1 DEF LiveTickets
  <2>4. \A p \in Req : req'[p].slot = sl => req'[p].pc = "idle"
    BY <1>6, <2>1
  <2>5. AtMostOne(sl)' /\ PagesKnown(sl)'
    BY <2>2, <2>3 DEF AtMostOne, PagesKnown
  <2> QED BY <2>4, <2>5 DEF SlotInv, Alone, InSlot, Owes
<1> QED BY <1>8, <1>9, <1>10, <1>11, OtherSlots DEF ChargeInv

\* A request goes on with its row at Stripe, and no row or ticket changes.
LEMMA AtStripe ==
    ASSUME MemberInv, ChargeInv, NEW q \in Req, NEW y, NEW sl \in Slot,
           sl = req[q].slot, req[q].pc \in {"charge", "page"},
           y.pc \in {"page", "land", "store"},
           y.row = req[q].row, y.slot = sl,
           req' = [req EXCEPT ![q] = y], UNCHANGED <<row, usage, overlap>>,
           \A i \in Intent : \/ int'[i] = int[i]
                             \/ int'[i].row = req[q].row,
           \A s \in Session : \/ ses'[s] = ses[s]
                              \/ /\ ses[s].status = "none"
                                 /\ ses'[s].status = "open"
                                 /\ ses'[s].row = req[q].row,
           sl \notin overlap =>
              /\ y.pc = "store" => LiveIntents(sl)' = {}
              /\ y.pc = "page" => \A i \in LiveIntents(sl)' :
                    int'[i].row = y.row /\ int'[i].stamp = y.stamp
              /\ \A i, j \in LiveIntents(sl)' : i = j
    PROVE  ChargeInv'
<1>2. \A p \in Req : req'[p] = IF p = q THEN y ELSE req[p]
  BY DEF MemberInv, TypeOK
<1>3. /\ SlotOf[req[q].row] = sl /\ row[req[q].row].status # "none"
      /\ req[q].row \in Row
  BY ReqFacts DEF ReqSound, ChargeInv, RowsKnown
<1>4. \A r \in Row : row[r].session # None =>
        row[r].session \in Session /\ ses[row[r].session].status # "none"
  BY MemberTyped, MemberAssumption
     DEF MemberInv, RowSound, RowRecord, None, Session
<1>5. RowsKnown'
  <2>1. \A i \in Intent : int'[i].status # "none" => row'[int'[i].row].status # "none"
    BY <1>3 DEF ChargeInv, RowsKnown
  <2>2. \A p \in Req : req'[p].pc \notin {"idle", "spend"} =>
          row'[req'[p].row].status # "none"
    BY <1>2, <1>3 DEF ChargeInv, RowsKnown
  <2>3. \A r \in Row : row'[r].session # None =>
          ses'[row'[r].session].status # "open"
    BY <1>4 DEF ChargeInv, RowsKnown
  <2> QED BY <2>1, <2>2, <2>3 DEF RowsKnown
<1>6. OneRow'
  <2>1. \A r \in Row : Exists(r)' <=> Exists(r)
    BY DEF Exists
  <2>2. \A p \in Req : req'[p].pc = "spend" => req'[p] = req[p]
    BY <1>2
  <2> QED BY <2>1, <2>2 DEF ChargeInv, OneRow
<1>7. Within(sl)
  BY <1>2, <1>3 DEF Within
<1>8. SlotInv(sl)'
  <2> SUFFICES ASSUME sl \notin overlap
               PROVE  SlotInv(sl)'
    BY DEF SlotInv
  <2>1. /\ LiveSessions(sl) = {} /\ LiveTickets(sl) = {}
        /\ \A p \in Req : p # q /\ req[p].slot = sl => req[p].pc = "idle"
    BY OwesNow DEF Owes
  <2>2. LiveSessions(sl)' = {} /\ LiveTickets(sl)' = {}
    BY <2>1 DEF LiveSessions, LiveTickets
  <2>3. AtMostOne(sl)' /\ PagesKnown(sl)'
    BY <2>2 DEF AtMostOne, PagesKnown
  <2>4. \A p \in Req : req'[p].slot = sl => p = q \/ req'[p].pc = "idle"
    BY <1>2, <2>1
  <2>5. Alone(sl)'
    BY <2>4 DEF Alone, InSlot
  <2>6. Owes(q)'
    BY <1>2, <2>2 DEF Owes
  <2> QED BY <2>3, <2>4, <2>5, <2>6 DEF SlotInv, Owes
<1> QED BY <1>5, <1>6, <1>7, <1>8, OtherSlots DEF ChargeInv

LEMMA ChargeSavedCardCharge ==
    ASSUME MemberInv, ChargeInv, NEW q \in Req, ChargeSavedCard(q)
    PROVE  ChargeInv'
<1>1. req[q].pc = "charge" /\ UNCHANGED <<row, usage, ses, overlap>>
  BY DEF ChargeSavedCard
<1>2. PICK sl \in Slot : sl = req[q].slot /\ req[q] \in ReqRecord
  BY ReqFacts DEF ReqRecord
<1>3. sl \notin overlap => LiveIntents(sl) = {}
  BY <1>1, <1>2, OwesNow DEF Owes
<1>4. CASE req' = [req EXCEPT ![q].pc = "page"] /\ UNCHANGED int
  <2> DEFINE y == [req[q] EXCEPT !.pc = "page"]
  <2>1. y.pc = "page" /\ y.row = req[q].row /\ y.slot = sl
    BY <1>2 DEF ReqRecord
  <2>2. req' = [req EXCEPT ![q] = y]
    BY <1>4
  <2>3. sl \notin overlap => LiveIntents(sl)' = {}
    BY <1>3, <1>4 DEF LiveIntents
  <2> HIDE DEF y
  <2> QED BY <1>1, <1>2, <1>4, <2>1, <2>2, <2>3, AtStripe
<1>5. CASE \E i \in Intent, status \in {"succeeded", "refused", "processing"} :
             /\ NewIntent(i)
             /\ int' = [int EXCEPT ![i] = [status |-> status, row |-> req[q].row,
                                           stamp |-> req[q].stamp]]
             /\ req' = [req EXCEPT
                          ![q].pc = IF status = "succeeded" THEN "land" ELSE "page",
                          ![q].intent = i]
  <2>1. PICK i \in Intent, status \in {"succeeded", "refused", "processing"} :
             /\ int' = [int EXCEPT ![i] = [status |-> status, row |-> req[q].row,
                                           stamp |-> req[q].stamp]]
             /\ req' = [req EXCEPT
                          ![q].pc = IF status = "succeeded" THEN "land" ELSE "page",
                          ![q].intent = i]
    BY <1>5
  <2> DEFINE y == [req[q] EXCEPT !.pc = IF status = "succeeded" THEN "land"
                                        ELSE "page", !.intent = i]
  <2>2. /\ y.pc \in {"land", "page"} /\ y.row = req[q].row
        /\ y.slot = sl /\ y.stamp = req[q].stamp
    BY <1>2 DEF ReqRecord
  <2>3. req' = [req EXCEPT ![q] = y]
    BY <2>1
  <2>4. /\ int'[i].row = req[q].row /\ int'[i].stamp = req[q].stamp
        /\ \A j \in Intent : j # i => int'[j] = int[j]
    BY <2>1 DEF MemberInv, TypeOK
  <2>5. sl \notin overlap => LiveIntents(sl)' \subseteq {i}
    BY <1>3, <2>4 DEF LiveIntents
  <2> HIDE DEF y
  <2> QED BY <1>1, <1>2, <2>2, <2>3, <2>4, <2>5, AtStripe
<1> QED BY <1>4, <1>5 DEF ChargeSavedCard

LEMMA OpenPageCharge ==
    ASSUME MemberInv, ChargeInv, NEW q \in Req, OpenPage(q)
    PROVE  ChargeInv'
<1>1. /\ req[q].pc = "page" /\ ~KeyIsTaken(q)
      /\ UNCHANGED <<row, usage, int, overlap>>
  BY DEF OpenPage
<1>2. PICK s \in Session :
        /\ NewSession(s)
        /\ ses' = [ses EXCEPT ![s] = [status |-> "open", row |-> req[q].row,
                                      hook |-> "none"]]
        /\ req' = [req EXCEPT ![q].pc = "store", ![q].session = s]
  BY DEF OpenPage
<1>3. PICK sl \in Slot : sl = req[q].slot /\ req[q] \in ReqRecord
  BY ReqFacts DEF ReqRecord
<1> DEFINE y == [req[q] EXCEPT !.pc = "store", !.session = s]
<1>4. y.pc = "store" /\ y.row = req[q].row /\ y.slot = sl
  BY <1>3 DEF ReqRecord
<1>5. req' = [req EXCEPT ![q] = y]
  BY <1>2
<1>6. /\ ses[s].status = "none" /\ ses'[s].status = "open"
      /\ ses'[s].row = req[q].row
      /\ \A t \in Session : t # s => ses'[t] = ses[t]
  BY <1>2 DEF NewSession, MemberInv, TypeOK
<1>7. sl \notin overlap => LiveIntents(sl)' = {}
  <2> SUFFICES ASSUME sl \notin overlap, NEW i \in LiveIntents(sl)'
               PROVE  FALSE
    OBVIOUS
  <2>1. /\ i \in LiveIntents(sl) /\ i \in Intent
        /\ int[i].status \in {"processing", "succeeded"}
    BY <1>1 DEF LiveIntents
  <2>2. int[i].row = req[q].row /\ int[i].stamp = req[q].stamp
    BY <1>1, <1>3, <2>1, OwesNow DEF Owes
  <2> QED BY <1>1, <2>1, <2>2 DEF KeyIsTaken
<1> HIDE DEF y
<1> QED BY <1>1, <1>3, <1>4, <1>5, <1>6, <1>7, AtStripe

LEMMA StorePageCharge ==
    ASSUME MemberInv, ChargeInv, NEW q \in Req, StorePage(q)
    PROVE  ChargeInv'
<1>0. PICK r \in Row : r = req[q].row
  BY ReqFacts
<1>1. PICK s \in Session : /\ s = req[q].session /\ ses[s].status # "none"
                           /\ ses[s].row = r
  BY <1>0, ReqFacts DEF StorePage, ReqSound
<1>2. PICK sl \in Slot : sl = req[q].slot
  BY ReqFacts DEF ReqRecord
<1> DEFINE x == [row[r] EXCEPT !.session = s]
           z == [ses[s] EXCEPT !.status =
                   IF @ = "open" /\ Exists(r) THEN "shown" ELSE @]
<1>3. /\ req[q].pc = "store" /\ req' = [req EXCEPT ![q] = Idle]
      /\ UNCHANGED <<usage, int, overlap>>
      /\ row' = IF Exists(r) THEN [row EXCEPT ![r] = x] ELSE row
      /\ ses' = [ses EXCEPT ![s] = z]
  BY <1>0, <1>1 DEF StorePage, Save
<1>4. SlotOf[r] = sl
  BY <1>0, <1>2, <1>3, ReqFacts DEF ReqSound
<1>5. ses[s] \in SessionRecord /\ row[r] \in RowRecord
  BY MemberTyped DEF MemberInv
<1>6. x.session = s /\ x.status = row[r].status
  BY <1>5 DEF RowRecord
<1>7. /\ z.status = IF ses[s].status = "open" /\ Exists(r) THEN "shown" ELSE ses[s].status
      /\ z.row = r
  BY <1>1, <1>5 DEF SessionRecord
<1> HIDE DEF x, z
<1>8. /\ \A t \in Row : row'[t] = IF Exists(r) /\ t = r THEN x ELSE row[t]
      /\ \A t \in Session : ses'[t] = IF t = s THEN z ELSE ses[t]
      /\ \A p \in Req : p # q => req'[p] = req[p]
      /\ req'[q].pc = "idle"
  BY <1>3 DEF MemberInv, TypeOK, Idle
<1>9. sl \notin overlap =>
        /\ LiveIntents(sl) = {} /\ LiveSessions(sl) = {} /\ LiveTickets(sl) = {}
        /\ \A p \in Req : p # q /\ req[p].slot = sl => req[p].pc = "idle"
  BY <1>2, <1>3, OwesNow DEF Owes
<1>10. /\ \A i \in Intent : int[i].row \in Row
       /\ \A p \in Req : req[p].row \in Row
       /\ \A t \in Row : row[t].session # None => row[t].session \in Session
  BY MemberTyped, MemberAssumption
     DEF MemberInv, IntentRecord, ReqRecord, RowRecord, None, Session
<1>11. \A t \in Row : /\ Exists(t)' <=> Exists(t)
                      /\ row'[t].status = row[t].status
  BY <1>6, <1>8 DEF Exists
<1>12. RowsKnown'
  <2>1. \A i \in Intent : int'[i].status # "none" => row'[int'[i].row].status # "none"
    BY <1>3, <1>10, <1>11 DEF ChargeInv, RowsKnown
  <2>2. \A p \in Req : req'[p].pc \notin {"idle", "spend"} =>
          row'[req'[p].row].status # "none"
    BY <1>8, <1>10, <1>11 DEF ChargeInv, RowsKnown
  <2>3. \A t \in Row : row'[t].session # None =>
          ses'[row'[t].session].status # "open"
    BY <1>6, <1>7, <1>8, <1>10 DEF ChargeInv, RowsKnown
  <2> QED BY <2>1, <2>2, <2>3 DEF RowsKnown
<1>13. OneRow'
  BY <1>8, <1>11 DEF ChargeInv, OneRow
<1>14. Within(sl)
  BY <1>3, <1>4, <1>7, <1>8 DEF Within
<1>15. SlotInv(sl)'
  <2> SUFFICES ASSUME sl \notin overlap
               PROVE  SlotInv(sl)'
    BY <1>3 DEF SlotInv
  <2>1. LiveIntents(sl)' = {} /\ LiveTickets(sl)' = {}
    BY <1>3, <1>9 DEF LiveIntents, LiveTickets
  <2>2. LiveSessions(sl)' \subseteq {s}
    BY <1>8, <1>9 DEF LiveSessions
  <2>3. AtMostOne(sl)'
    BY <2>1, <2>2 DEF AtMostOne
  <2>4. PagesKnown(sl)'
    <3> SUFFICES ASSUME s \in LiveSessions(sl)'
                 PROVE  Exists(r)' /\ row'[r].session = s /\ ses'[s].row = r
      BY <1>7, <1>8, <2>2 DEF PagesKnown, Exists
    <3>1. z.status \in {"shown", "paid"}
      BY <1>8 DEF LiveSessions
    <3>2. s \notin LiveSessions(sl)
      BY <1>9
    <3>3. ses[s].status \notin {"shown", "paid"}
      BY <1>1, <1>4, <3>2 DEF LiveSessions
    <3>4. Exists(r)
      BY <1>7, <3>1, <3>3
    <3> QED BY <1>6, <1>7, <1>8, <1>11, <3>4
  <2>5. \A p \in Req : req'[p].slot = sl => req'[p].pc = "idle"
    BY <1>8, <1>9
  <2> QED BY <2>3, <2>4, <2>5 DEF SlotInv, Alone, InSlot, Owes
<1> QED BY <1>12, <1>13, <1>14, <1>15, OtherSlots DEF ChargeInv

LEMMA ChargeStep == MemberInv /\ ChargeInv /\ Next => ChargeInv'
<1> SUFFICES ASSUME MemberInv, ChargeInv, Next
             PROVE  ChargeInv'
  OBVIOUS
<1>1. CASE \E r \in Row : \/ FindPayment(r) \/ ShowOpenPage(r) \/ Reconcile(r)
                          \/ Cancel(r) \/ Restore(r) \/ RefundTicket(r)
  BY <1>1, CalmRecords, CalmShown, CalmRefund, CalmStep
<1>2. CASE \E q \in Req, sl \in Slot, r \in Row :
              ReserveUnpaid(q, sl, r) \/ CountTickets(q, sl, r)
  BY <1>2, ReserveUnpaidCharge, CountTicketsCharge
<1>3. CASE \E q \in Req, g \in Grant : SpendTicket(q, g)
  BY <1>3, SpendTicketCharge
<1>4. CASE \E q \in Req : \/ SaveFree(q) \/ LandCharge(q) \/ FailPage(q) \/ Crash(q)
  BY <1>4, CalmSaves, CalmFailure, CalmStep
<1>5. CASE \E q \in Req : ChargeSavedCard(q) \/ OpenPage(q) \/ StorePage(q)
  BY <1>5, ChargeSavedCardCharge, OpenPageCharge, StorePageCharge
<1>6. CASE \/ \E i \in Intent : SettleIntent(i)
           \/ \E s \in Session : Pay(s) \/ Expire(s) \/ LoseWebhook(s)
  BY <1>6, CalmStripe, CalmStep
<1>7. CASE \E s \in Session : Webhook(s)
  BY <1>7, CalmWebhook, CalmStep
<1> QED
  BY <1>1, <1>2, <1>3, <1>4, <1>5, <1>6, <1>7 DEF Next

\* The payments that were made for a slot are live, so there is one at most.
LEMMA PaidOnce ==
    ASSUME ChargeInv, NEW sl \in Slot \ overlap
    PROVE  Payments(sl) <= 1
<1> DEFINE I == {i \in Intent : int[i].status = "succeeded" /\ SlotOf[int[i].row] = sl}
           S == {s \in Session : ses[s].status = "paid" /\ SlotOf[ses[s].row] = sl}
           T == LiveTickets(sl)
<1>1. I \subseteq LiveIntents(sl) /\ S \subseteq LiveSessions(sl)
  BY DEF LiveIntents, LiveSessions
<1>2. AtMostOne(sl)
  BY DEF ChargeInv, SlotInv
<1>3. /\ \A i, j \in I : i = j
      /\ \A i, j \in S : i = j
      /\ \A i, j \in T : i = j
      /\ I = {} \/ S = {}
      /\ I = {} \/ T = {}
      /\ S = {} \/ T = {}
  BY <1>1, <1>2 DEF AtMostOne
<1>4. Payments(sl) = Cardinality(I) + Cardinality(S) + Cardinality(T)
  BY DEF Payments, LiveTickets
<1> HIDE DEF I, S, T
<1>5. Cardinality({}) = 0
  BY FS_EmptySet
<1>6. ASSUME NEW A, \A i, j \in A : i = j
      PROVE  Cardinality(A) \in {0, 1}
  <2>1. CASE A = {}
    BY <1>5, <2>1
  <2>2. CASE A # {}
    <3>1. PICK a \in A : A = {a}
      BY <1>6, <2>2
    <3> QED BY <3>1, FS_Singleton
  <2> QED BY <2>1, <2>2
<1>7. Cardinality(I) \in {0, 1} /\ Cardinality(S) \in {0, 1} /\ Cardinality(T) \in {0, 1}
  BY <1>3, <1>6
<1> QED BY <1>3, <1>4, <1>5, <1>7

\* Lost answers, dead workers, expired pages, late webhooks and retries never
\* make a member pay twice for a lesson and date: only a request that began
\* while another one ran, or while a charge could not be seen, can.
THEOREM ChargedOnceOutsideOverlap == TicketsSpec => []ChargedTwiceOnlyByOverlap
<1>1. TicketsInit => TicketsInv /\ ChargeInv
  BY TicketsInductive, ChargeInit DEF TicketsInit
<1>2. TicketsInv /\ ChargeInv /\ [TicketsNext]_ticketVars => (TicketsInv /\ ChargeInv)'
  <2> SUFFICES ASSUME TicketsInv, ChargeInv, [TicketsNext]_ticketVars
               PROVE  TicketsInv' /\ ChargeInv'
    OBVIOUS
  <2>1. TicketsInv'
    BY TicketsInductive
  <2>2. CASE Next
    BY <2>1, <2>2, ChargeStep DEF TicketsInv
  <2>3. CASE UNCHANGED <<row, usage, req, int, ses, overlap>>
    <3>1. Calm
      BY <2>3, CalmRowless
    <3> QED BY <2>1, <3>1, CalmStep DEF TicketsInv
  <2> QED BY <2>1, <2>2, <2>3 DEF TicketsNext, ticketVars, vars
<1>3. ChargeInv => ChargedTwiceOnlyByOverlap
  BY PaidOnce DEF ChargedTwiceOnlyByOverlap
<1> QED
  BY <1>1, <1>2, <1>3, PTL DEF TicketsSpec
=============================================================================
