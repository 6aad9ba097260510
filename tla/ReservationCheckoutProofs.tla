----------------------- MODULE ReservationCheckoutProofs -----------------------
(***************************************************************************)
(* Proofs about ReservationCheckout, for any number of reservations,       *)
(* guests, links, requests and Checkout Sessions and any durations.        *)
(***************************************************************************)
EXTENDS ReservationCheckout, FiniteSetTheorems, TLAPS

\* A webhook that waits is about a session that was paid.
HooksArePaid == \A s \in Session : ses[s].hook = "pending" => ses[s].status = "paid"

\* A row that is not in the table has no link, a request has one, and a start
\* has rows that are, or were, in the table and were not paid.
RowsInTable ==
    /\ \A r \in Row : ~Exists(row[r]) =>
          row[r].token = NoToken /\ ~row[r].deleted
    /\ \A c \in Click :
          /\ click[c].pc # "idle" => click[c].token \in Token
          /\ \A r \in Row : click[c].prev[r].status \in PendingStatus
          /\ \A r \in click[c].rows : row[r].status # "none"

\* The inductive invariant.
CheckoutInv ==
    /\ TypeOK /\ HooksArePaid /\ RowsInTable
    /\ SessionsCoverTheirRows /\ PaidWasCaptured /\ PaidNotDeleted

\* The initial tables are well formed.
LEMMA InitType == Init => TypeOK
  BY CheckoutAssumption
  DEF Init, TypeOK, NoRow, Idle, NoPrev, RowRecord, SessionRecord, ClickRecord,
      Snapshot, RowStatus, SessionStatus, PendingStatus, ClickPC, Age, Session,
      NoSession

\* Members of the types that the steps write.
LEMMA Members ==
    /\ 0 \in Age
    /\ NoSession \in 0..MaxSession
    /\ Session \subseteq 0..MaxSession
    /\ PendingStatus \subseteq RowStatus
    /\ "paid" \in RowStatus /\ "gone" \in RowStatus
    /\ "unpaid" \in PendingStatus /\ "not_started" \in PendingStatus
    /\ \A x \in RowStatus :
          x \in PendingStatus \/ x \in {"none", "gone", "paid"}
  BY CheckoutAssumption DEF Age, Session, NoSession, PendingStatus, RowStatus

LEMMA OlderType ==
    ASSUME NEW a \in Age, NEW n \in Nat
    PROVE  Older(a, n) \in Age
  BY CheckoutAssumption DEF Older, Age

LEMMA RecordedType ==
    ASSUME NEW x \in RowRecord, NEW s \in 0..MaxSession
    PROVE  Recorded(x, s) \in RowRecord
  BY Members DEF Recorded, RowRecord

LEMMA RequestedType ==
    ASSUME NEW t \in Token
    PROVE  Requested(t) \in RowRecord
  BY Members DEF Requested, RowRecord

\* The rows as _prepare sees them after _revive_deleted_reservations.
LEMMA RevivedType ==
    ASSUME TypeOK, NEW t
    PROVE  Revived(t) \in [Row -> RowRecord]
<1> SUFFICES ASSUME NEW r \in Row
             PROVE  Revived(t)[r] \in RowRecord
  BY DEF Revived
<1>1. row[r] \in RowRecord /\ row[r].session \in 0..MaxSession
  BY DEF TypeOK, RowRecord
<1>2. Recorded(row[r], row[r].session) \in RowRecord
  BY <1>1, RecordedType
<1>3. [row[r] EXCEPT !.deleted = FALSE] \in RowRecord
  BY <1>1 DEF RowRecord
<1> QED
  BY <1>1, <1>2, <1>3 DEF Revived

\* A request that is over.
LEMMA IdleType == Idle \in ClickRecord
  BY Members DEF Idle, NoPrev, NoSession, ClickRecord, ClickPC, Snapshot,
                 PendingStatus

LEMMA EndOfRequest ==
    ASSUME TypeOK, NEW c \in Click, click' = [click EXCEPT ![c] = Idle]
    PROVE  click' \in [Click -> ClickRecord]
  BY IdleType DEF TypeOK

LEMMA PrepareFreeType ==
    ASSUME TypeOK, NEW c \in Click, NEW t \in Token \cup {NoToken},
           PrepareFree(c, t)
    PROVE  TypeOK'
<1> DEFINE table == Revived(t)
           rows == OpenRows(t, table)
           new(r) == [table[r] EXCEPT !.status = "paid", !.deleted = FALSE,
                                      !.age = 0]
<1>1. table \in [Row -> RowRecord]
  BY RevivedType
<1>2. \A r \in Row : new(r) \in RowRecord
  <2> HIDE DEF table
  <2> QED BY <1>1, Members DEF RowRecord
<1>3. row' = [r \in Row |-> IF r \in rows THEN new(r) ELSE table[r]]
  BY DEF PrepareFree
<1>4. row' \in [Row -> RowRecord]
  <2> HIDE DEF table, rows, new
  <2> QED BY <1>1, <1>2, <1>3
<1> QED
  BY <1>4, EndOfRequest DEF PrepareFree, TypeOK

LEMMA PrepareReuseType ==
    ASSUME TypeOK, NEW c \in Click, NEW t \in Token, PrepareReuse(c, t)
    PROVE  TypeOK'
<1>1. PICK s \in Session :
        click' = [click EXCEPT ![c] = [Idle EXCEPT !.pc = "look", !.token = t,
                                                   !.session = s]]
  BY DEF PrepareReuse
<1> DEFINE new == [Idle EXCEPT !.pc = "look", !.token = t, !.session = s]
<1>2. new \in ClickRecord
  BY IdleType, Members DEF ClickRecord, ClickPC
<1>3. click' \in [Click -> ClickRecord]
  <2>1. click' = [click EXCEPT ![c] = new]
    BY <1>1
  <2> HIDE DEF new
  <2> QED BY <1>2, <2>1 DEF TypeOK
<1>4. row' = Revived(t) /\ ses' = ses
  BY DEF PrepareReuse
<1> QED
  BY <1>3, <1>4, RevivedType DEF TypeOK

LEMMA PrepareCreateType ==
    ASSUME TypeOK, NEW c \in Click, NEW t \in Token \cup {NoToken},
           PrepareCreate(c, t)
    PROVE  TypeOK'
<1> DEFINE table == Revived(t)
           rows == OpenRows(t, table)
           held(r) == [table[r] EXCEPT !.status = "unpaid", !.age = 0,
                                       !.session = NoSession,
                                       !.deleted = FALSE]
           prev == [r \in Row |->
                      IF r \in rows
                        THEN [status |-> table[r].status,
                              session |-> table[r].session,
                              age |-> table[r].age]
                        ELSE NoPrev[r]]
           new == [pc |-> "open", token |-> t, rows |-> rows, prev |-> prev,
                   session |-> NoSession, delay |-> 0]
<1>1. table \in [Row -> RowRecord]
  BY RevivedType
<1>2. \A r \in rows : r \in Row /\ table[r].status # "paid"
  BY DEF OpenRows, RowsOf
<1>3. \A r \in Row : held(r) \in RowRecord
  <2> HIDE DEF table
  <2> QED BY <1>1, Members DEF RowRecord
<1>4. row' = [r \in Row |-> IF r \in rows THEN held(r) ELSE table[r]]
  BY DEF PrepareCreate
<1>5. row' \in [Row -> RowRecord]
  <2> HIDE DEF table, rows, held
  <2> QED BY <1>1, <1>3, <1>4
<1>6. prev \in [Row -> Snapshot]
  <2>1. \A r \in Row : NoPrev[r] \in Snapshot
    BY Members DEF NoPrev, Snapshot
  <2> HIDE DEF table, rows
  <2> QED BY <1>1, <1>2, <2>1 DEF Snapshot, RowRecord
<1>7. new \in ClickRecord
  <2>1. rows \subseteq Row
    BY <1>2
  <2> HIDE DEF prev, rows
  <2> QED BY <1>6, <2>1, Members DEF ClickRecord, ClickPC
<1>8. click' = [click EXCEPT ![c] = new] /\ ses' = ses
  BY DEF PrepareCreate
<1>9. click' \in [Click -> ClickRecord]
  <2> HIDE DEF new
  <2> QED BY <1>7, <1>8 DEF TypeOK
<1> QED
  BY <1>5, <1>8, <1>9 DEF TypeOK

LEMMA RequestType ==
    ASSUME TypeOK,
           \/ \E r \in Row : SaveVisitorReservation(r)
           \/ \E people \in SUBSET Person : SaveTrialReservations(people)
    PROVE  TypeOK'
<1>1. GoneRow \in RowRecord
  BY Members DEF GoneRow, NoRow, RowRecord, RowStatus, PendingStatus
<1>2. CASE \E r \in Row : SaveVisitorReservation(r)
  <2>1. PICK r \in Row : SaveVisitorReservation(r)
    BY <1>2
  <2>2. PICK t \in Token : row' = [row EXCEPT ![r] = Requested(t)]
    BY <2>1 DEF SaveVisitorReservation
  <2> QED
    BY <2>1, <2>2, RequestedType DEF SaveVisitorReservation, TypeOK
<1>3. CASE \E people \in SUBSET Person : SaveTrialReservations(people)
  <2>1. PICK people \in SUBSET Person : SaveTrialReservations(people)
    BY <1>3
  <2>2. PICK fresh \in SUBSET {row[r].token : r \in Trial}, t \in Token,
             rows \in SUBSET {r \in Trial : Who[r] \in people} :
          row' = [r \in Row |->
                    IF r \in rows THEN Requested(t)
                    ELSE IF r \in ReplacedTrialRows(people, fresh) THEN GoneRow
                    ELSE row[r]]
    BY <2>1, ZenonT(60) DEF SaveTrialReservations
  <2>3. UNCHANGED <<ses, click>>
    BY <2>1 DEF SaveTrialReservations
  <2>4. Requested(t) \in RowRecord
    BY RequestedType
  <2>5. row \in [Row -> RowRecord]
    BY DEF TypeOK
  <2>6. row' \in [Row -> RowRecord]
    BY <1>1, <2>2, <2>4, <2>5
  <2> QED
    BY <2>3, <2>6 DEF TypeOK
<1> QED
  BY <1>2, <1>3

LEMMA BeginType ==
    ASSUME TypeOK, NEW c \in Click, NEW t \in Token, Begin(c, t)
    PROVE  TypeOK'
<1>1. CASE PrepareDone(c, t)
  BY <1>1, RevivedType, EndOfRequest DEF PrepareDone, TypeOK
<1>2. CASE PrepareFree(c, t)
  BY <1>2, PrepareFreeType
<1>3. CASE PrepareReuse(c, t)
  BY <1>3, PrepareReuseType
<1>4. CASE PrepareCreate(c, t)
  BY <1>4, PrepareCreateType
<1> QED
  BY <1>1, <1>2, <1>3, <1>4 DEF Begin

\* A request moves to its next step.
LEMMA MoveType ==
    ASSUME TypeOK, NEW c \in Click, NEW pc \in ClickPC,
           NEW s \in 0..MaxSession
    PROVE  /\ [click EXCEPT ![c].pc = pc] \in [Click -> ClickRecord]
           /\ [click EXCEPT ![c].pc = pc, ![c].session = s]
                \in [Click -> ClickRecord]
<1> DEFINE moved == [click[c] EXCEPT !.pc = pc]
           linked == [moved EXCEPT !.session = s]
<1>1. click[c] \in ClickRecord
  BY DEF TypeOK
<1>2. moved \in ClickRecord
  BY <1>1 DEF ClickRecord
<1>3. linked \in ClickRecord
  <2> HIDE DEF moved
  <2> QED BY <1>2 DEF ClickRecord
<1>4. [click EXCEPT ![c] = moved] \in [Click -> ClickRecord]
  <2> HIDE DEF moved
  <2> QED BY <1>2 DEF TypeOK
<1>5. [click EXCEPT ![c] = linked] \in [Click -> ClickRecord]
  <2> HIDE DEF linked
  <2> QED BY <1>3 DEF TypeOK
<1> QED
  BY <1>4, <1>5 DEF TypeOK

\* A Checkout Session changes status; one that ends also gets age 0.
LEMMA SessionMoveType ==
    ASSUME TypeOK, NEW s, NEW status \in SessionStatus,
           NEW hook \in {"none", "pending", "over"}
    PROVE  /\ [ses EXCEPT ![s].status = status] \in [Session -> SessionRecord]
           /\ [ses EXCEPT ![s].status = status, ![s].age = 0]
                \in [Session -> SessionRecord]
           /\ [ses EXCEPT ![s].hook = hook] \in [Session -> SessionRecord]
           /\ [ses EXCEPT ![s].status = status, ![s].age = 0,
                          ![s].hook = hook] \in [Session -> SessionRecord]
<1>1. ses \in [Session -> SessionRecord] /\ 0 \in 0..Life
  BY CheckoutAssumption DEF TypeOK
<1>2. ASSUME NEW q \in Session
      PROVE  /\ [ses[q] EXCEPT !.status = status] \in SessionRecord
             /\ [ses[q] EXCEPT !.status = status, !.age = 0] \in SessionRecord
             /\ [ses[q] EXCEPT !.hook = hook] \in SessionRecord
             /\ [ses[q] EXCEPT !.status = status, !.age = 0, !.hook = hook]
                  \in SessionRecord
  BY <1>1, <1>2 DEF SessionRecord
<1> DEFINE A(q) == [ses[q] EXCEPT !.status = status]
           B(q) == [ses[q] EXCEPT !.status = status, !.age = 0]
           C(q) == [ses[q] EXCEPT !.hook = hook]
           D(q) == [ses[q] EXCEPT !.status = status, !.age = 0, !.hook = hook]
<1>3. \A q \in Session : /\ A(q) \in SessionRecord /\ B(q) \in SessionRecord
                         /\ C(q) \in SessionRecord /\ D(q) \in SessionRecord
  BY <1>2
<1>4. /\ [ses EXCEPT ![s] = A(s)] \in [Session -> SessionRecord]
      /\ [ses EXCEPT ![s] = B(s)] \in [Session -> SessionRecord]
      /\ [ses EXCEPT ![s] = C(s)] \in [Session -> SessionRecord]
      /\ [ses EXCEPT ![s] = D(s)] \in [Session -> SessionRecord]
  <2> HIDE DEF A, B, C, D
  <2> QED BY <1>1, <1>3
<1> QED
  BY <1>1, <1>4

\* What _restore writes on a row.
LEMMA PutBackRow ==
    ASSUME TypeOK, NEW c \in Click, NEW r \in Row
    PROVE  LET old == click[c].prev[r] IN
           /\ PutBack(c, r) \in RowRecord
           /\ PutBack(c, r).status = old.status
           /\ PutBack(c, r).session = old.session
           /\ PutBack(c, r).token = row[r].token
           /\ PutBack(c, r).deleted = row[r].deleted
           /\ PutBack(c, r).age = IF old.status = "unpaid"
                                    THEN Older(old.age, click[c].delay) ELSE 0
           /\ old \in Snapshot
<1> DEFINE old == click[c].prev[r]
           age == IF old.status = "unpaid"
                    THEN Older(old.age, click[c].delay) ELSE 0
           new == [row[r] EXCEPT !.status = old.status,
                                 !.session = old.session, !.age = age]
<1>1. row[r] \in RowRecord /\ click[c] \in ClickRecord
  BY DEF TypeOK
<1>2. old \in Snapshot /\ click[c].delay \in Nat
  BY <1>1, CheckoutAssumption DEF ClickRecord, Age
<1>3. age \in Age
  BY <1>2, OlderType, Members DEF Snapshot
<1>4. old.status \in RowStatus /\ old.session \in 0..MaxSession
  BY <1>2 DEF Snapshot
<1>5. PutBack(c, r) = new
  BY DEF PutBack
<1> HIDE DEF age, old
<1>6. /\ new \in RowRecord /\ new.status = old.status
      /\ new.session = old.session /\ new.age = age
      /\ new.token = row[r].token /\ new.deleted = row[r].deleted
  BY <1>1, <1>3, <1>4 DEF RowRecord
<1> QED BY <1>2, <1>5, <1>6 DEF old, age

LEMMA StartType ==
    ASSUME TypeOK, NEW c \in Click,
           \/ ReusableCheckoutUrl(c)
           \/ PrepareAgain(c)
           \/ OpenNewCheckout(c)
           \/ SaveSession(c)
           \/ ExpireSession(c)
           \/ Restore(c)
           \/ Crash(c)
    PROVE  TypeOK'
<1>1. /\ row \in [Row -> RowRecord]
      /\ ses \in [Session -> SessionRecord]
      /\ click \in [Click -> ClickRecord]
      /\ click[c] \in ClickRecord
  BY DEF TypeOK
<1>2. CASE ReusableCheckoutUrl(c)
  <2>1. click' \in [Click -> ClickRecord]
    <3>1. [click EXCEPT ![c].pc = "again"] \in [Click -> ClickRecord]
      <4>1. "again" \in ClickPC  BY DEF ClickPC
      <4> QED BY <4>1, MoveType, Members
    <3>2. [click EXCEPT ![c] = Idle] \in [Click -> ClickRecord]
      BY <1>1, IdleType
    <3> QED BY <1>2, <3>1, <3>2 DEF ReusableCheckoutUrl
  <2>2. ses' \in [Session -> SessionRecord]
    <3> DEFINE s == click[c].session
    <3>1. [ses EXCEPT ![s].status = "shown"] \in [Session -> SessionRecord]
      <4>1. "shown" \in SessionStatus  BY DEF SessionStatus
      <4> HIDE DEF s
      <4> QED BY <4>1, SessionMoveType
    <3> QED BY <1>1, <1>2, <3>1 DEF ReusableCheckoutUrl
  <2> QED
    BY <1>1, <1>2, <2>1, <2>2 DEF ReusableCheckoutUrl, TypeOK
<1>3. CASE PrepareAgain(c)
  <2> DEFINE t == click[c].token
  <2>1. t \in Token \/ t = NoToken
    BY <1>1 DEF ClickRecord
  <2>2. CASE PrepareDone(c, t)
    BY <2>2, EndOfRequest, RevivedType DEF PrepareDone, TypeOK
  <2>3. CASE PrepareFree(c, t)
    BY <2>1, <2>3, PrepareFreeType
  <2>4. CASE PrepareCreate(c, t)
    BY <2>1, <2>4, PrepareCreateType
  <2> QED
    BY <1>3, <2>2, <2>3, <2>4 DEF PrepareAgain
<1>4. CASE OpenNewCheckout(c)
  <2>1. CASE ses' = ses /\ click' = [click EXCEPT ![c].pc = "restore"]
    BY <1>1, <1>4, <2>1, MoveType, Members
       DEF OpenNewCheckout, TypeOK, ClickPC
  <2>2. ASSUME NEW s \in Session, NEW pc \in {"save", "restore"},
               NEW rows \in SUBSET click[c].rows,
               ses' = [ses EXCEPT ![s] = [status |-> "open", age |-> 0,
                                          rows |-> rows, hook |-> "none"]],
               click' = [click EXCEPT
                           ![c].pc = pc,
                           ![c].session = IF pc = "save" THEN s
                                          ELSE NoSession]
        PROVE  TypeOK'
    <3>1. [status |-> "open", age |-> 0, rows |-> rows,
           hook |-> "none"] \in SessionRecord
      BY <1>1, CheckoutAssumption
         DEF SessionRecord, SessionStatus, ClickRecord
    <3>2. (IF pc = "save" THEN s ELSE NoSession) \in 0..MaxSession
      BY Members
    <3>3. click' \in [Click -> ClickRecord]
      BY <2>2, <3>2, MoveType DEF ClickPC
    <3>4. ses' \in [Session -> SessionRecord]
      BY <1>1, <2>2, <3>1
    <3> QED
      BY <1>1, <1>4, <3>3, <3>4 DEF OpenNewCheckout, TypeOK
  <2> QED
    BY <1>4, <2>1, <2>2 DEF OpenNewCheckout
<1>5. CASE SaveSession(c)
  <2>1. click[c].session \in 0..MaxSession
    BY <1>1 DEF ClickRecord
  <2>2. \A r \in Row :
          [row[r] EXCEPT !.session = click[c].session] \in RowRecord
    BY <1>1, <2>1 DEF RowRecord
  <2>3. row' \in [Row -> RowRecord]
    BY <1>1, <1>5, <2>2 DEF SaveSession
  <2>4. click' \in [Click -> ClickRecord]
    <3>1. [click EXCEPT ![c].pc = "expire"] \in [Click -> ClickRecord]
      <4>1. "expire" \in ClickPC  BY DEF ClickPC
      <4> QED BY <4>1, MoveType, Members
    <3>2. [click EXCEPT ![c] = Idle] \in [Click -> ClickRecord]
      BY <1>1, IdleType
    <3> QED BY <1>5, <3>1, <3>2 DEF SaveSession
  <2>5. ses' \in [Session -> SessionRecord]
    <3> DEFINE s == click[c].session
               status == IF ses[s].status = "open" THEN "shown"
                         ELSE ses[s].status
    <3>1. ses' = ses \/ ses' = [ses EXCEPT ![s].status = status]
      BY <1>5 DEF SaveSession
    <3>2. CASE s \in Session
      <4>1. status \in SessionStatus
        <5>1. ses[s] \in SessionRecord  BY <1>1, <3>2
        <5> HIDE DEF s
        <5> QED BY <5>1 DEF SessionRecord, SessionStatus
      <4>2. [ses EXCEPT ![s].status = status] \in [Session -> SessionRecord]
        <5> HIDE DEF s, status
        <5> QED BY <4>1, SessionMoveType
      <4> QED BY <1>1, <3>1, <4>2
    <3>3. CASE s \notin Session
      <4>1. [ses EXCEPT ![s].status = status] = ses
        <5> HIDE DEF s, status
        <5> QED BY <1>1, <3>3
      <4> QED BY <1>1, <3>1, <4>1
    <3> QED BY <3>2, <3>3
  <2> QED
    BY <2>3, <2>4, <2>5 DEF TypeOK
<1>6. CASE ExpireSession(c)
  <2>1. click' \in [Click -> ClickRecord]
    BY <1>6, MoveType, Members DEF ExpireSession, ClickPC
  <2>2. ses' \in [Session -> SessionRecord]
    <3> DEFINE s == click[c].session
    <3>1. [ses EXCEPT ![s].status = "expired", ![s].age = 0]
            \in [Session -> SessionRecord]
      <4>1. "expired" \in SessionStatus  BY DEF SessionStatus
      <4> HIDE DEF s
      <4> QED BY <4>1, SessionMoveType
    <3> QED BY <1>1, <1>6, <3>1 DEF ExpireSession
  <2> QED
    BY <1>1, <1>6, <2>1, <2>2 DEF ExpireSession, TypeOK
<1>7. CASE Restore(c)
  <2>1. PICK r \in Row : RestoreRow(c, r)
    BY <1>7 DEF Restore
  <2>2. PutBack(c, r) \in RowRecord
    BY PutBackRow
  <2>3. row' \in [Row -> RowRecord]
    BY <1>1, <2>1, <2>2 DEF RestoreRow
  <2>4. [click EXCEPT ![c].pc = "halfway", ![c].rows = click[c].rows \ {r}]
          \in [Click -> ClickRecord]
    BY <1>1 DEF ClickRecord, ClickPC
  <2>5. click' \in [Click -> ClickRecord]
    BY <2>1, <2>4, IdleType, <1>1 DEF RestoreRow
  <2> QED
    BY <1>1, <2>1, <2>3, <2>5 DEF RestoreRow, TypeOK
<1>8. CASE Crash(c)
  BY <1>1, <1>8, EndOfRequest DEF Crash, TypeOK
<1> QED
  BY <1>2, <1>3, <1>4, <1>5, <1>6, <1>7, <1>8

LEMMA OutsideType ==
    ASSUME TypeOK,
           \/ \E s \in Session : Pay(s) \/ Webhook(s) \/ LoseWebhook(s)
           \/ \E r \in Row : ReconcileReservation(r)
           \/ Tick
    PROVE  TypeOK'
<1>1. /\ row \in [Row -> RowRecord]
      /\ ses \in [Session -> SessionRecord]
      /\ click \in [Click -> ClickRecord]
  BY DEF TypeOK
<1>2. ASSUME NEW s \in Session, Pay(s)  PROVE TypeOK'
  <2>1. [ses EXCEPT ![s].status = "paid", ![s].age = 0, ![s].hook = "pending"]
          \in [Session -> SessionRecord]
    <3>1. "paid" \in SessionStatus  BY DEF SessionStatus
    <3> QED BY <3>1, SessionMoveType
  <2> QED BY <1>1, <1>2, <2>1 DEF Pay, TypeOK
<1>3. ASSUME NEW s \in Session, Webhook(s)  PROVE TypeOK'
  <2>1. PICK hook \in {"pending", "over"} : ses' = [ses EXCEPT ![s].hook = hook]
    BY <1>3 DEF Webhook
  <2>2. [ses EXCEPT ![s].hook = hook] \in [Session -> SessionRecord]
    <3>1. "paid" \in SessionStatus  BY DEF SessionStatus
    <3> QED BY <3>1, SessionMoveType
  <2>3. \A r \in Row : Recorded(row[r], s) \in RowRecord
    BY <1>1, RecordedType, Members
  <2>4. CompletePaidCheckout(s) \in [Row -> RowRecord]
    BY <1>1, <2>3 DEF CompletePaidCheckout
  <2> QED BY <1>1, <1>3, <2>1, <2>2, <2>4 DEF Webhook, TypeOK
<1>4. ASSUME NEW s \in Session, LoseWebhook(s)  PROVE TypeOK'
  <2>1. [ses EXCEPT ![s].hook = "over"] \in [Session -> SessionRecord]
    <3>1. "paid" \in SessionStatus  BY DEF SessionStatus
    <3> QED BY <3>1, SessionMoveType
  <2> QED BY <1>1, <1>4, <2>1 DEF LoseWebhook, TypeOK
<1>5. ASSUME NEW r \in Row, ReconcileReservation(r)  PROVE TypeOK'
  <2>1. PICK s \in SessionsToCheck(r) :
          row' = [row EXCEPT ![r] =
                    IF ses[s].status = "paid" THEN Recorded(@, s)
                    ELSE IF ses[s].status = "expired"
                      THEN [@ EXCEPT !.deleted = TRUE]
                    ELSE [@ EXCEPT !.session = s]]
    BY <1>5 DEF ReconcileReservation
  <2>2. s \in 0..MaxSession
    <3>1. row[r].session \in 0..MaxSession
      BY <1>1 DEF RowRecord
    <3> QED BY <3>1, Members DEF SessionsToCheck, Latest, PaidSessionsNaming,
                                SessionsNaming
  <2>3. Recorded(row[r], s) \in RowRecord
    BY <1>1, <2>2, RecordedType
  <2>4. [row[r] EXCEPT !.deleted = TRUE] \in RowRecord
    BY <1>1 DEF RowRecord
  <2>5. [row[r] EXCEPT !.session = s] \in RowRecord
    BY <1>1, <2>2 DEF RowRecord
  <2>6. row' \in [Row -> RowRecord]
    BY <1>1, <2>1, <2>3, <2>4, <2>5
  <2> QED BY <1>1, <1>5, <2>6 DEF ReconcileReservation, TypeOK
<1>6. CASE Tick
  <2>1. \A a \in Age : Older(a, 1) \in Age
    BY OlderType
  <2>2. \A r \in Row : [row[r] EXCEPT !.age = Older(row[r].age, 1)] \in RowRecord
    BY <1>1, <2>1 DEF RowRecord
  <2>3. row' \in [Row -> RowRecord]
    BY <1>1, <1>6, <2>2 DEF Tick
  <2>4. \A c \in Click :
          [click[c] EXCEPT !.delay = Older(click[c].delay, 1)] \in ClickRecord
    BY <1>1, <2>1 DEF ClickRecord
  <2>5. click' \in [Click -> ClickRecord]
    BY <1>1, <1>6, <2>4 DEF Tick
  <2>6. \A s \in Session :
          /\ ses[s].age + 1 < Life =>
               [ses[s] EXCEPT !.age = ses[s].age + 1] \in SessionRecord
          /\ [ses[s] EXCEPT !.age = 0, !.status = "expired"] \in SessionRecord
    <3> SUFFICES ASSUME NEW s \in Session
                 PROVE  /\ ses[s].age + 1 < Life =>
                             [ses[s] EXCEPT !.age = ses[s].age + 1]
                               \in SessionRecord
                        /\ [ses[s] EXCEPT !.age = 0, !.status = "expired"]
                             \in SessionRecord
      OBVIOUS
    <3>1. ses[s] \in SessionRecord /\ ses[s].age \in 0..Life
      BY <1>1 DEF SessionRecord
    <3>2. ses[s].age + 1 < Life => ses[s].age + 1 \in 0..Life
      BY <3>1, CheckoutAssumption
    <3>3. ASSUME NEW a \in 0..Life
          PROVE  [ses[s] EXCEPT !.age = a] \in SessionRecord
      BY <3>1 DEF SessionRecord
    <3>4. [ses[s] EXCEPT !.age = 0, !.status = "expired"] \in SessionRecord
      <4>1. "expired" \in SessionStatus /\ 0 \in 0..Life
        BY CheckoutAssumption DEF SessionStatus
      <4> QED BY <3>1, <4>1 DEF SessionRecord
    <3> QED BY <3>2, <3>3, <3>4
  <2>7. ses' \in [Session -> SessionRecord]
    BY <1>1, <1>6, <2>6 DEF Tick
  <2> QED BY <2>3, <2>5, <2>7 DEF TypeOK
<1> QED
  BY <1>2, <1>3, <1>4, <1>5, <1>6

\* Every value stays in its type: ages and delays stay within their caps,
\* session ids are ids of sessions Stripe may make, a snapshot never says paid.
THEOREM TypeCorrect == Spec => []TypeOK
<1>1. TypeOK /\ [Next]_vars => TypeOK'
  <2>1. TypeOK /\ Next => TypeOK'
    BY RequestType, BeginType, StartType, OutsideType DEF Next
  <2>2. TypeOK /\ UNCHANGED vars => TypeOK'
    BY DEF vars, TypeOK
  <2> QED
    BY <2>1, <2>2
<1> QED
  BY InitType, <1>1, PTL DEF Spec

-----------------------------------------------------------------------------
(* A reservation that counts as paid was paid for.                         *)

\* Stripe forgets no session: it keeps its rows, and a paid one stays paid.
SessionsKept ==
    \A s \in Session : ses[s].status # "none" =>
        /\ ses'[s].status # "none"
        /\ ses'[s].rows = ses[s].rows
        /\ ses[s].status = "paid" => ses'[s].status = "paid"

\* Covers of a session id of the next state.
CoversAfter(s, r) ==
    s \in Session /\ ses'[s].status # "none" /\ r \in ses'[s].rows

\* What a step may do to a row: record only a session that covers it, and
\* call it paid, and not deleted, only for money captured or nothing due.
RowSound(r) ==
    /\ \/ row'[r].session = NoSession
       \/ row'[r].session = row[r].session
       \/ CoversAfter(row'[r].session, r)
    /\ row'[r].status = "paid" =>
         /\ ~row'[r].deleted
         /\ row[r].status = "paid" \/ r \in Free \/ Captured(r)'
RowsSound == \A r \in Row : RowSound(r)

\* What a step may do to a running start.
PrevSound(c, r) ==
    \/ click'[c].prev[r].session = NoSession
    \/ click'[c].prev[r].session = click[c].prev[r].session
    \/ click'[c].prev[r].session = row[r].session
SavingSound(c) ==
    click'[c].pc = "save" =>
      \/ /\ click[c].pc = "save"
         /\ click'[c].session = click[c].session
         /\ click'[c].rows = click[c].rows
      \/ /\ click'[c].session \in Session
         /\ \A r \in click'[c].rows :
               CoversAfter(click'[c].session, r) \/ row'[r].status = "gone"
ClicksSound ==
    \A c \in Click : SavingSound(c) /\ \A r \in Row : PrevSound(c, r)

\* A row that was deleted from the table never comes back.
GoneKept == \A r \in Row : row[r].status = "gone" => row'[r].status = "gone"

LEMMA SoundStep ==
    ASSUME TypeOK, SessionsCoverTheirRows, PaidWasCaptured, PaidNotDeleted,
           SessionsKept, RowsSound, ClicksSound, GoneKept
    PROVE  SessionsCoverTheirRows' /\ PaidWasCaptured' /\ PaidNotDeleted'
<1>1. \A s \in Session : \A r : Covers(s, r) => CoversAfter(s, r)
  BY DEF SessionsKept, Covers, CoversAfter
<1>2. \A s \in 0..MaxSession : s # NoSession => s \in Session
  BY CheckoutAssumption DEF Session, NoSession
<1>3. \A r \in Row : row[r].session # NoSession => CoversAfter(row[r].session, r)
  <2>1. \A r \in Row : row[r].session \in 0..MaxSession
    BY DEF TypeOK, RowRecord
  <2> QED BY <2>1, <1>1, <1>2 DEF SessionsCoverTheirRows
<1>4. \A c \in Click, r \in Row :
        click[c].prev[r].session # NoSession =>
          CoversAfter(click[c].prev[r].session, r)
  <2>1. \A c \in Click, r \in Row : click[c].prev[r].session \in 0..MaxSession
    BY DEF TypeOK, ClickRecord, Snapshot
  <2> QED BY <2>1, <1>1, <1>2 DEF SessionsCoverTheirRows
<1>5. \A r \in Row : row'[r].session # NoSession =>
        CoversAfter(row'[r].session, r)
  BY <1>3 DEF RowsSound, RowSound
<1>6. \A c \in Click, r \in Row : click'[c].prev[r].session # NoSession =>
        CoversAfter(click'[c].prev[r].session, r)
  BY <1>3, <1>4 DEF ClicksSound, PrevSound
<1>7. \A c \in Click : click'[c].pc = "save" =>
        /\ click'[c].session \in Session
        /\ \A r \in click'[c].rows :
              CoversAfter(click'[c].session, r) \/ row'[r].status = "gone"
  <2> TAKE c \in Click
  <2>1. SavingSound(c)
    BY DEF ClicksSound
  <2>2. click[c].pc = "save" =>
          /\ click[c].session \in Session
          /\ \A r \in click[c].rows :
                Covers(click[c].session, r) \/ row[r].status = "gone"
    BY DEF SessionsCoverTheirRows
  <2>3. click[c].rows \subseteq Row
    BY DEF TypeOK, ClickRecord
  <2> QED BY <2>1, <2>2, <2>3, <1>1 DEF SavingSound, GoneKept
<1>8. SessionsCoverTheirRows'
  BY <1>5, <1>6, <1>7 DEF SessionsCoverTheirRows, Covers, CoversAfter
<1>9. \A r \in Row : Captured(r) => Captured(r)'
  BY DEF SessionsKept, Captured
<1> QED
  BY <1>8, <1>9 DEF RowsSound, RowSound, PaidWasCaptured, PaidNotDeleted

LEMMA InitInv == Init => CheckoutInv
<1>1. Init => /\ \A r \in Row : row[r].session = NoSession /\ row[r].status = "none"
              /\ \A c \in Click : click[c] = Idle
  BY DEF Init, NoRow
<1>2. Idle.pc = "idle" /\ \A r \in Row : Idle.prev[r].session = NoSession
  BY DEF Idle, NoPrev
<1>3. Init => SessionsCoverTheirRows
  BY <1>1, <1>2 DEF SessionsCoverTheirRows
<1>4. Init => HooksArePaid
  BY DEF Init, HooksArePaid
<1>5. Init => RowsInTable
  BY Members DEF Init, RowsInTable, NoRow, Idle, NoPrev
<1> QED
  BY <1>1, <1>3, <1>4, <1>5, InitType DEF CheckoutInv, PaidWasCaptured, PaidNotDeleted

\* A request that ends or only changes its step is sound.
LEMMA EndSound ==
    ASSUME TypeOK, NEW c \in Click, click' = [click EXCEPT ![c] = Idle]
    PROVE  ClicksSound
<1>1. Idle.pc = "idle" /\ \A r \in Row : Idle.prev[r].session = NoSession
  BY DEF Idle, NoPrev
<1> QED BY <1>1 DEF ClicksSound, SavingSound, PrevSound, TypeOK

LEMMA MoveSound ==
    ASSUME TypeOK, NEW c \in Click, NEW pc, pc # "save",
           click' = [click EXCEPT ![c].pc = pc]
    PROVE  ClicksSound
<1>1. click \in [Click -> ClickRecord]
  BY DEF TypeOK
<1>2. \A d \in Click : /\ click'[d].prev = click[d].prev
                       /\ click'[d].rows = click[d].rows
                       /\ click'[d].session = click[d].session
                       /\ click'[d].pc = "save" => click[d].pc = "save"
  BY <1>1 DEF ClickRecord
<1> QED BY <1>2 DEF ClicksSound, SavingSound, PrevSound

LEMMA RevivedSound ==
    ASSUME TypeOK, PaidNotDeleted, SessionsCoverTheirRows, NEW t, NEW r \in Row
    PROVE  /\ Revived(t)[r].session = row[r].session
           /\ Revived(t)[r].status = "paid" =>
                /\ ~Revived(t)[r].deleted
                /\ row[r].status = "paid" \/ Captured(r)
<1>1. row[r] \in RowRecord
  BY DEF TypeOK
<1>2. CASE row[r].token # t \/ ~row[r].deleted
  BY <1>2 DEF Revived, PaidNotDeleted
<1>3. CASE /\ ~(row[r].token # t \/ ~row[r].deleted)
           /\ row[r].status # "paid" /\ StripePaid(r)
  <2>1. Revived(t)[r] = Recorded(row[r], row[r].session)
    BY <1>3 DEF Revived
  <2>2. Captured(r)
    BY <1>3 DEF StripePaid, Captured, SessionsCoverTheirRows, Covers, Session,
                NoSession
  <2> QED BY <1>1, <2>1, <2>2 DEF Recorded, RowRecord
<1>4. CASE /\ ~(row[r].token # t \/ ~row[r].deleted)
           /\ ~(row[r].status # "paid" /\ StripePaid(r))
  <2>1. Revived(t)[r] = [row[r] EXCEPT !.deleted = FALSE]
    BY <1>4 DEF Revived
  <2> QED BY <1>1, <2>1 DEF RowRecord
<1> QED BY <1>2, <1>3, <1>4

LEMMA UnchangedSound ==
    ASSUME TypeOK, PaidNotDeleted
    PROVE  /\ UNCHANGED ses => SessionsKept
           /\ UNCHANGED click => ClicksSound
           /\ UNCHANGED row => RowsSound
<1>1. UNCHANGED ses => SessionsKept
  BY DEF SessionsKept
<1>2. UNCHANGED click => ClicksSound
  BY DEF ClicksSound, SavingSound, PrevSound
<1>3. UNCHANGED row => RowsSound
  BY DEF RowsSound, RowSound, PaidNotDeleted
<1> QED BY <1>1, <1>2, <1>3

\* The rows a request writes are neither paid nor tied to a session.
LEMMA RequestSound ==
    ASSUME TypeOK, PaidNotDeleted,
           \/ \E r \in Row : SaveVisitorReservation(r)
           \/ \E people \in SUBSET Person : SaveTrialReservations(people)
    PROVE  SessionsKept /\ RowsSound /\ ClicksSound
<1>1. /\ \A r \in Row : \/ row'[r] = row[r]
                        \/ row'[r] = GoneRow
                        \/ \E t \in Token : row'[r] = Requested(t)
      /\ UNCHANGED <<ses, click>>
  <2>1. CASE \E r \in Row : SaveVisitorReservation(r)
    BY <2>1, Zenon DEF SaveVisitorReservation, TypeOK
  <2>2. CASE \E people \in SUBSET Person : SaveTrialReservations(people)
    BY <2>2, ZenonT(60) DEF SaveTrialReservations
  <2> QED BY <2>1, <2>2
<1>2. /\ GoneRow.session = NoSession /\ GoneRow.status # "paid"
      /\ \A t \in Token : /\ Requested(t).session = NoSession
                          /\ Requested(t).status # "paid"
  BY DEF GoneRow, NoRow, Requested
<1>3. RowsSound
  BY <1>1, <1>2 DEF RowsSound, RowSound, PaidNotDeleted
<1> QED BY <1>1, <1>3, UnchangedSound

\* _revive_deleted_reservations alone is sound.
LEMMA ReviveSound ==
    ASSUME TypeOK, PaidNotDeleted, SessionsCoverTheirRows, NEW t,
           row' = Revived(t), UNCHANGED ses
    PROVE  RowsSound
<1>1. \A r \in Row : Captured(r)' = Captured(r)
  BY DEF Captured
<1> QED BY <1>1, RevivedSound DEF RowsSound, RowSound

LEMMA PrepareFreeSound ==
    ASSUME TypeOK, PaidNotDeleted, SessionsCoverTheirRows,
           NEW c \in Click, NEW t, PrepareFree(c, t)
    PROVE  SessionsKept /\ RowsSound /\ ClicksSound
<1> DEFINE rows == OpenRows(t, Revived(t))
<1> DEFINE paid(x) == [x EXCEPT !.status = "paid", !.deleted = FALSE, !.age = 0]
<1>1. /\ rows \subseteq Free
      /\ \A r \in Row : row'[r] = IF r \in rows THEN paid(Revived(t)[r])
                                  ELSE Revived(t)[r]
      /\ click' = [click EXCEPT ![c] = Idle]
      /\ UNCHANGED ses
  BY DEF PrepareFree
<1>2. \A x \in RowRecord : paid(x).session = x.session /\ ~paid(x).deleted
  BY DEF RowRecord
<1> HIDE DEF rows, paid
<1>3. \A r \in Row : Revived(t)[r] \in RowRecord
  BY RevivedType
<1>4. \A r \in Row : Captured(r)' = Captured(r)
  BY <1>1 DEF Captured
<1>5. \A r \in Row : RowSound(r)
  <2> TAKE r \in Row
  <2>1. CASE r \in rows
    BY <1>1, <1>2, <1>3, <2>1, RevivedSound DEF RowSound
  <2>2. CASE r \notin rows
    BY <1>1, <1>4, <2>2, RevivedSound DEF RowSound
  <2> QED BY <2>1, <2>2
<1> QED BY <1>1, <1>5, EndSound, UnchangedSound DEF RowsSound

LEMMA PrepareReuseSound ==
    ASSUME TypeOK, PaidNotDeleted, SessionsCoverTheirRows,
           NEW c \in Click, NEW t, PrepareReuse(c, t)
    PROVE  SessionsKept /\ RowsSound /\ ClicksSound
<1>1. /\ row' = Revived(t) /\ UNCHANGED ses
      /\ \E s \in Session :
            click' = [click EXCEPT ![c] = [Idle EXCEPT !.pc = "look",
                                             !.token = t, !.session = s]]
  BY DEF PrepareReuse
<1>2. PICK s \in Session :
        click' = [click EXCEPT ![c] = [Idle EXCEPT !.pc = "look",
                                         !.token = t, !.session = s]]
  BY <1>1
<1> DEFINE new == [Idle EXCEPT !.pc = "look", !.token = t, !.session = s]
<1>3. new.pc = "look" /\ \A r \in Row : new.prev[r].session = NoSession
  BY DEF Idle, NoPrev
<1> HIDE DEF new
<1>4. ClicksSound
  BY <1>2, <1>3 DEF ClicksSound, SavingSound, PrevSound, TypeOK, new
<1> QED BY <1>1, <1>4, ReviveSound, UnchangedSound

\* The snapshot holds the sessions the rows had.
LEMMA PrepareCreateSound ==
    ASSUME TypeOK, PaidNotDeleted, SessionsCoverTheirRows,
           NEW c \in Click, NEW t, PrepareCreate(c, t)
    PROVE  SessionsKept /\ RowsSound /\ ClicksSound
<1> DEFINE rows == OpenRows(t, Revived(t))
<1> DEFINE held(x) == [x EXCEPT !.status = "unpaid", !.age = 0,
                                !.session = NoSession, !.deleted = FALSE]
<1> DEFINE prev == [r \in Row |->
                      IF r \in rows
                        THEN [status |-> Revived(t)[r].status,
                              session |-> Revived(t)[r].session,
                              age |-> Revived(t)[r].age]
                        ELSE NoPrev[r]]
<1> DEFINE new == [pc |-> "open", token |-> t, rows |-> rows, prev |-> prev,
                   session |-> NoSession, delay |-> 0]
<1>1. /\ \A r \in Row : row'[r] = IF r \in rows THEN held(Revived(t)[r])
                                  ELSE Revived(t)[r]
      /\ click' = [click EXCEPT ![c] = new]
      /\ UNCHANGED ses
  BY DEF PrepareCreate
<1>2. \A x \in RowRecord : held(x).session = NoSession /\ held(x).status = "unpaid"
  BY DEF RowRecord
<1>3. \A r \in Row : \/ prev[r].session = Revived(t)[r].session
                     \/ prev[r].session = NoSession
  BY DEF NoPrev
<1>4. new.pc = "open" /\ new.prev = prev
  OBVIOUS
<1> HIDE DEF rows, held, prev, new
<1>5. \A r \in Row : Revived(t)[r] \in RowRecord
  BY RevivedType
<1>6. \A r \in Row : Captured(r)' = Captured(r)
  BY <1>1 DEF Captured
<1>7. \A r \in Row : RowSound(r)
  <2> TAKE r \in Row
  <2>1. CASE r \in rows
    BY <1>1, <1>2, <1>5, <2>1 DEF RowSound
  <2>2. CASE r \notin rows
    BY <1>1, <1>6, <2>2, RevivedSound DEF RowSound
  <2> QED BY <2>1, <2>2
<1>8. ClicksSound
  <2>1. \A r \in Row : Revived(t)[r].session = row[r].session
    BY RevivedSound
  <2> QED BY <1>1, <1>3, <1>4, <2>1
          DEF ClicksSound, SavingSound, PrevSound, TypeOK
<1> QED BY <1>1, <1>7, <1>8, UnchangedSound DEF RowsSound

LEMMA BeginSound ==
    ASSUME TypeOK, PaidNotDeleted, SessionsCoverTheirRows, NEW c \in Click,
           \/ \E t \in Token : Begin(c, t)
           \/ PrepareAgain(c)
    PROVE  SessionsKept /\ RowsSound /\ ClicksSound
<1>1. \E t : \/ PrepareDone(c, t) \/ PrepareFree(c, t)
             \/ PrepareReuse(c, t) \/ PrepareCreate(c, t)
  BY DEF Begin, PrepareAgain
<1>2. ASSUME NEW t, PrepareDone(c, t)
      PROVE  SessionsKept /\ RowsSound /\ ClicksSound
  BY <1>2, ReviveSound, EndSound, UnchangedSound DEF PrepareDone
<1> QED
  BY <1>1, <1>2, PrepareFreeSound, PrepareReuseSound, PrepareCreateSound

\* A change of one session's status that never leaves "paid".
LEMMA StatusSound ==
    ASSUME TypeOK, NEW s \in Session, ses[s].status # "none",
           ses'[s].status # "none",
           ses[s].status = "paid" => ses'[s].status = "paid",
           ses'[s].rows = ses[s].rows,
           \A q \in Session : q # s => ses'[q] = ses[q]
    PROVE  SessionsKept
  BY DEF SessionsKept

LEMMA LookSound ==
    ASSUME TypeOK, PaidNotDeleted, NEW c \in Click, ReusableCheckoutUrl(c)
    PROVE  SessionsKept /\ RowsSound /\ ClicksSound
<1> DEFINE s == click[c].session
<1>1. CASE /\ ses[s].status \in {"open", "shown"}
           /\ ses' = [ses EXCEPT ![s].status = "shown"]
           /\ click' = [click EXCEPT ![c] = Idle]
  <2>1. SessionsKept
    BY <1>1 DEF SessionsKept, TypeOK, SessionRecord
  <2> QED BY <2>1, <1>1, EndSound, UnchangedSound DEF ReusableCheckoutUrl
<1>2. CASE /\ click' = [click EXCEPT ![c].pc = "again"]
           /\ UNCHANGED ses
  <2>1. ClicksSound
    BY <1>2, MoveSound
  <2> QED BY <2>1, <1>2, UnchangedSound DEF ReusableCheckoutUrl
<1> QED BY <1>1, <1>2 DEF ReusableCheckoutUrl

\* The new session is made for the rows of the start that asked for it.
LEMMA OpenSound ==
    ASSUME TypeOK, RowsInTable, PaidNotDeleted, NEW c \in Click,
           OpenNewCheckout(c)
    PROVE  SessionsKept /\ RowsSound /\ ClicksSound
<1>1. RowsSound
  BY UnchangedSound DEF OpenNewCheckout
<1>2. ASSUME NEW s \in Session, NEW pc \in {"save", "restore"},
             NEW rows \in SUBSET click[c].rows,
             {r \in click[c].rows : Exists(row[r])} \subseteq rows,
             ses[s].status = "none",
             ses' = [ses EXCEPT ![s] = [status |-> "open", age |-> 0,
                                        rows |-> rows, hook |-> "none"]],
             click' = [click EXCEPT ![c].pc = pc,
                                    ![c].session = IF pc = "save" THEN s
                                                   ELSE NoSession]
      PROVE  SessionsKept /\ ClicksSound
  <2>1. /\ ses'[s].status = "open" /\ ses'[s].rows = rows
        /\ \A q \in Session : q # s => ses'[q] = ses[q]
    BY <1>2 DEF TypeOK
  <2>2. SessionsKept
    BY <1>2, <2>1 DEF SessionsKept
  <2>3. click \in [Click -> ClickRecord]
    BY DEF TypeOK
  <2>4. /\ click'[c].prev = click[c].prev
        /\ click'[c].rows = click[c].rows
        /\ click'[c].pc = pc
        /\ pc = "save" => click'[c].session = s
        /\ \A d \in Click : d # c => click'[d] = click[d]
    BY <1>2, <2>3 DEF ClickRecord
  <2>5. \A r \in click[c].rows : r \in rows \/ row'[r].status = "gone"
    BY <1>2 DEF OpenNewCheckout, RowsInTable, Exists
  <2>6. ASSUME click'[c].pc = "save"
        PROVE  /\ click'[c].session \in Session
               /\ \A r \in click'[c].rows :
                     \/ CoversAfter(click'[c].session, r)
                     \/ row'[r].status = "gone"
    BY <2>1, <2>4, <2>5, <2>6 DEF CoversAfter
  <2>7. ClicksSound
    BY <2>4, <2>6 DEF ClicksSound, SavingSound, PrevSound
  <2> QED BY <2>2, <2>7
<1>3. ASSUME click' = [click EXCEPT ![c].pc = "restore"], UNCHANGED ses
      PROVE  SessionsKept /\ ClicksSound
  BY <1>3, MoveSound, UnchangedSound
<1> QED BY <1>1, <1>2, <1>3 DEF OpenNewCheckout

LEMMA SaveSound ==
    ASSUME TypeOK, PaidNotDeleted, SessionsCoverTheirRows,
           NEW c \in Click, SaveSession(c)
    PROVE  SessionsKept /\ RowsSound /\ ClicksSound
<1> DEFINE s == click[c].session
           unpaid == {r \in click[c].rows : row[r].status = "unpaid"}
<1>1. s \in Session /\ \A r \in unpaid : Covers(s, r)
  BY DEF SaveSession, SessionsCoverTheirRows
<1>2. \A r \in Row : row'[r] = IF r \in unpaid THEN [row[r] EXCEPT !.session = s]
                               ELSE row[r]
  BY DEF SaveSession
<1>3. SessionsKept /\ ClicksSound
  <2>1. CASE /\ ses' = [ses EXCEPT ![s].status =
                          IF @ = "open" THEN "shown" ELSE @]
             /\ click' = [click EXCEPT ![c] = Idle]
    <3>1. SessionsKept
      BY <1>1, <2>1 DEF SessionsKept, TypeOK, SessionRecord
    <3> QED BY <3>1, <2>1, EndSound
  <2>2. CASE /\ click' = [click EXCEPT ![c].pc = "expire"]
             /\ UNCHANGED ses
    BY <2>2, MoveSound, UnchangedSound
  <2> QED BY <2>1, <2>2 DEF SaveSession
<1> HIDE DEF s
<1>4. \A r \in Row : RowSound(r)
  <2> TAKE r \in Row
  <2>1. row[r] \in RowRecord
    BY DEF TypeOK
  <2>2. CASE r \in unpaid
    <3>1. /\ row'[r].session = s /\ row'[r].status = "unpaid"
      BY <1>2, <2>1, <2>2 DEF RowRecord
    <3>2. CoversAfter(s, r)
      BY <1>1, <1>3, <2>2 DEF Covers, CoversAfter, SessionsKept
    <3> QED BY <3>1, <3>2 DEF RowSound
  <2>3. CASE r \notin unpaid
    BY <1>2, <2>3 DEF RowSound, PaidNotDeleted
  <2> QED BY <2>2, <2>3
<1> QED BY <1>3, <1>4 DEF RowsSound

\* A snapshot never says paid, and its sessions cover its rows.
LEMMA RestoreSound ==
    ASSUME TypeOK, PaidNotDeleted, SessionsCoverTheirRows,
           NEW c \in Click, Restore(c)
    PROVE  SessionsKept /\ RowsSound /\ ClicksSound
<1>1. PICK q \in Row : RestoreRow(c, q)
  BY DEF Restore
<1>2. \A r \in Row : row'[r] = row[r] \/ row'[r] = PutBack(c, r)
  BY <1>1 DEF RestoreRow, TypeOK
<1>3. \A r \in Row : RowSound(r)
  <2> TAKE r \in Row
  <2>1. CASE row'[r] = row[r]
    BY <2>1 DEF RowSound, PaidNotDeleted
  <2>2. CASE row'[r] = PutBack(c, r)
    <3>1. /\ row'[r].status = click[c].prev[r].status
          /\ row'[r].session = click[c].prev[r].session
          /\ click[c].prev[r] \in Snapshot
      BY <2>2, PutBackRow
    <3>2. click[c].prev[r].session = NoSession \/ Covers(click[c].prev[r].session, r)
      BY DEF SessionsCoverTheirRows
    <3>3. \/ click[c].prev[r].session = NoSession
          \/ CoversAfter(click[c].prev[r].session, r)
      BY <1>1, <3>1, <3>2, CheckoutAssumption
      DEF RestoreRow, Snapshot, Covers, CoversAfter, Session, NoSession
    <3> QED BY <3>1, <3>3 DEF RowSound, Snapshot
  <2> QED BY <1>2, <2>1, <2>2
<1>4. ClicksSound
  <2>1. CASE click' = [click EXCEPT ![c] = Idle]
    BY <2>1, EndSound
  <2>2. CASE click' = [click EXCEPT ![c].pc = "halfway",
                                    ![c].rows = click[c].rows \ {q}]
    <3>1. click \in [Click -> ClickRecord]
      BY DEF TypeOK
    <3>2. /\ click'[c].pc = "halfway" /\ click'[c].prev = click[c].prev
          /\ \A d \in Click : d # c => click'[d] = click[d]
      BY <2>2, <3>1 DEF ClickRecord
    <3> QED BY <3>2 DEF ClicksSound, SavingSound, PrevSound
  <2> QED BY <1>1, <2>1, <2>2 DEF RestoreRow
<1> QED BY <1>1, <1>3, <1>4, UnchangedSound DEF RowsSound, RestoreRow

LEMMA StartSound ==
    ASSUME TypeOK, RowsInTable, PaidNotDeleted, SessionsCoverTheirRows,
           NEW c \in Click,
           \/ ReusableCheckoutUrl(c) \/ OpenNewCheckout(c) \/ SaveSession(c)
           \/ ExpireSession(c) \/ Restore(c) \/ Crash(c)
    PROVE  SessionsKept /\ RowsSound /\ ClicksSound
<1>1. CASE ExpireSession(c)
  <2>1. SessionsKept
    <3>1. CASE UNCHANGED ses
      BY <3>1, UnchangedSound
    <3> DEFINE s == click[c].session
    <3>2. CASE /\ ses[s].status \in {"open", "shown"}
               /\ ses' = [ses EXCEPT ![s].status = "expired", ![s].age = 0]
      BY <3>2 DEF SessionsKept, TypeOK, SessionRecord
    <3> QED BY <1>1, <3>1, <3>2 DEF ExpireSession
  <2>2. ClicksSound
    BY <1>1, MoveSound DEF ExpireSession
  <2> QED BY <1>1, <2>1, <2>2, UnchangedSound DEF ExpireSession
<1>2. CASE Crash(c)
  BY <1>2, EndSound, UnchangedSound DEF Crash
<1> QED
  BY <1>1, <1>2, LookSound, OpenSound, SaveSound, RestoreSound

\* A session that is checked for a row is a session for that row.
LEMMA CheckedSessionCovers ==
    ASSUME TypeOK, SessionsCoverTheirRows, NEW r \in Row,
           NEW s \in SessionsToCheck(r)
    PROVE  s \in Session /\ Covers(s, r)
<1>1. row[r].session \in 0..MaxSession
  BY DEF TypeOK, RowRecord
<1> QED BY <1>1, CheckoutAssumption
        DEF SessionsToCheck, Latest, PaidSessionsNaming, SessionsNaming,
            SessionsCoverTheirRows, Covers, Session, NoSession

LEMMA RecordedFields ==
    ASSUME NEW x \in RowRecord, NEW s
    PROVE  /\ Recorded(x, s).session = s
           /\ Recorded(x, s).status = "paid"
           /\ ~Recorded(x, s).deleted
  BY DEF Recorded, RowRecord

LEMMA WebhookSound ==
    ASSUME TypeOK, PaidNotDeleted, SessionsCoverTheirRows,
           NEW s \in Session, Webhook(s), ses[s].status = "paid"
    PROVE  SessionsKept /\ RowsSound /\ ClicksSound
<1>1. PICK hook \in {"pending", "over"} : ses' = [ses EXCEPT ![s].hook = hook]
  BY DEF Webhook
<1>2. /\ ses'[s].status = "paid" /\ ses'[s].rows = ses[s].rows
      /\ \A q \in Session : q # s => ses'[q] = ses[q]
  BY <1>1 DEF TypeOK, SessionRecord
<1>3. \A r \in Row : \/ row'[r] = row[r]
                     \/ r \in ses[s].rows /\ row'[r] = Recorded(row[r], s)
  BY DEF Webhook, CompletePaidCheckout
<1>4. \A r \in Row : RowSound(r)
  <2> TAKE r \in Row
  <2>1. CASE row'[r] = row[r]
    BY <2>1 DEF RowSound, PaidNotDeleted
  <2>2. CASE r \in ses[s].rows /\ row'[r] = Recorded(row[r], s)
    <3>1. row[r] \in RowRecord
      BY DEF TypeOK
    <3>2. CoversAfter(s, r) /\ Captured(r)'
      BY <1>2, <2>2 DEF CoversAfter, Captured
    <3> QED BY <2>2, <3>1, <3>2, RecordedFields DEF RowSound
  <2> QED BY <1>3, <2>1, <2>2
<1>5. SessionsKept
  BY <1>2 DEF SessionsKept
<1> QED BY <1>4, <1>5, UnchangedSound DEF Webhook, RowsSound

LEMMA ReconcileSound ==
    ASSUME TypeOK, PaidNotDeleted, SessionsCoverTheirRows,
           NEW r \in Row, ReconcileReservation(r)
    PROVE  SessionsKept /\ RowsSound /\ ClicksSound
<1>1. PICK s \in SessionsToCheck(r) :
        row' = [row EXCEPT ![r] =
                  IF ses[s].status = "paid" THEN Recorded(@, s)
                  ELSE IF ses[s].status = "expired"
                    THEN [@ EXCEPT !.deleted = TRUE]
                  ELSE [@ EXCEPT !.session = s]]
  BY DEF ReconcileReservation
<1>2. /\ row[r] \in RowRecord /\ row[r].status = "unpaid"
      /\ UNCHANGED <<ses, click>>
  BY DEF ReconcileReservation, TypeOK
<1>3. \A q \in Row : q # r => row'[q] = row[q]
  BY <1>1 DEF TypeOK
<1>4. s \in Session /\ Covers(s, r)
  BY CheckedSessionCovers
<1>5. CoversAfter(s, r)
  BY <1>2, <1>4 DEF Covers, CoversAfter
<1>6. CASE ses[s].status = "paid"
  <2>1. row'[r] = Recorded(row[r], s)
    BY <1>1, <1>6 DEF TypeOK
  <2>2. Captured(r)'
    BY <1>2, <1>4, <1>6 DEF Captured, Covers
  <2>3. RowSound(r)
    BY <1>2, <1>5, <2>1, <2>2, RecordedFields DEF RowSound
  <2> QED BY <1>2, <1>3, <2>3, UnchangedSound
          DEF RowsSound, RowSound, PaidNotDeleted
<1>7. CASE ses[s].status # "paid"
  <2>1. \/ row'[r] = [row[r] EXCEPT !.deleted = TRUE]
        \/ row'[r] = [row[r] EXCEPT !.session = s]
    BY <1>1, <1>7 DEF TypeOK
  <2>2. /\ row'[r].status = "unpaid"
        /\ row'[r].session = row[r].session \/ row'[r].session = s
    BY <1>2, <2>1 DEF RowRecord
  <2>3. RowSound(r)
    BY <1>5, <2>2 DEF RowSound
  <2> QED BY <1>2, <1>3, <2>3, UnchangedSound
          DEF RowsSound, RowSound, PaidNotDeleted
<1> QED BY <1>6, <1>7

LEMMA TickSound ==
    ASSUME TypeOK, PaidNotDeleted, SessionsCoverTheirRows, Tick
    PROVE  SessionsKept /\ RowsSound /\ ClicksSound
<1>1. SessionsKept
  BY DEF Tick, SessionsKept, TypeOK, SessionRecord
<1>2. \A r \in Row : /\ row'[r].status = row[r].status
                     /\ row'[r].session = row[r].session
                     /\ row'[r].deleted = row[r].deleted
  BY DEF Tick, TypeOK, RowRecord
<1>3. \A c \in Click : /\ click'[c].pc = click[c].pc
                       /\ click'[c].session = click[c].session
                       /\ click'[c].rows = click[c].rows
                       /\ click'[c].prev = click[c].prev
  BY DEF Tick, TypeOK, ClickRecord
<1>4. RowsSound
  BY <1>2 DEF RowsSound, RowSound, PaidNotDeleted
<1>5. ClicksSound
  BY <1>3 DEF ClicksSound, SavingSound, PrevSound
<1> QED BY <1>1, <1>4, <1>5

LEMMA HooksStep ==
    ASSUME TypeOK, HooksArePaid, Next
    PROVE  HooksArePaid'
<1>1. CASE UNCHANGED ses
  BY <1>1 DEF HooksArePaid
<1>2. \A c \in Click : \A t : PrepareDone(c, t) \/ PrepareFree(c, t)
        \/ PrepareReuse(c, t) \/ PrepareCreate(c, t) => UNCHANGED ses
  BY Zenon DEF PrepareDone, PrepareFree, PrepareReuse, PrepareCreate
<1>3. ASSUME NEW c \in Click, OpenNewCheckout(c)
      PROVE  HooksArePaid'
  BY <1>3 DEF OpenNewCheckout, HooksArePaid, TypeOK
<1>4. ASSUME NEW c \in Click,
             ReusableCheckoutUrl(c) \/ SaveSession(c) \/ ExpireSession(c)
      PROVE  HooksArePaid'
  BY <1>4 DEF ReusableCheckoutUrl, SaveSession, ExpireSession, HooksArePaid,
              TypeOK, SessionRecord
<1>5. ASSUME NEW s \in Session, Pay(s) \/ Webhook(s) \/ LoseWebhook(s)
      PROVE  HooksArePaid'
  BY <1>5 DEF Pay, Webhook, LoseWebhook, HooksArePaid, TypeOK, SessionRecord
<1>6. CASE Tick
  BY <1>6 DEF Tick, HooksArePaid, TypeOK, SessionRecord
<1>7. CASE \/ \E r \in Row : SaveVisitorReservation(r) \/ ReconcileReservation(r)
           \/ \E people \in SUBSET Person : SaveTrialReservations(people)
  BY <1>1, <1>7, Zenon
  DEF SaveVisitorReservation, ReconcileReservation, SaveTrialReservations
<1>8. CASE \E c \in Click : \/ \E t \in Token : Begin(c, t)
                            \/ PrepareAgain(c) \/ Restore(c) \/ Crash(c)
  BY <1>1, <1>2, <1>8, Zenon DEF Begin, PrepareAgain, Restore, RestoreRow, Crash
<1> QED
  BY <1>3, <1>4, <1>5, <1>6, <1>7, <1>8 DEF Next

LEMMA NextSound ==
    ASSUME TypeOK, RowsInTable, PaidNotDeleted, SessionsCoverTheirRows,
           HooksArePaid, Next
    PROVE  SessionsKept /\ RowsSound /\ ClicksSound
<1>1. ASSUME NEW s \in Session, Pay(s)
      PROVE  SessionsKept /\ RowsSound /\ ClicksSound
  <2>1. SessionsKept
    BY <1>1 DEF Pay, SessionsKept, TypeOK, SessionRecord
  <2> QED BY <1>1, <2>1, UnchangedSound DEF Pay
<1>2. ASSUME NEW s \in Session, LoseWebhook(s)
      PROVE  SessionsKept /\ RowsSound /\ ClicksSound
  <2>1. SessionsKept
    BY <1>2 DEF LoseWebhook, SessionsKept, TypeOK, SessionRecord
  <2> QED BY <1>2, <2>1, UnchangedSound DEF LoseWebhook
<1>3. ASSUME NEW s \in Session, Webhook(s)
      PROVE  SessionsKept /\ RowsSound /\ ClicksSound
  <2>1. ses[s].status = "paid"
    BY <1>3 DEF Webhook, HooksArePaid
  <2> QED BY <1>3, <2>1, WebhookSound
<1> QED
  BY <1>1, <1>2, <1>3, RequestSound, BeginSound, StartSound, ReconcileSound,
     TickSound DEF Next

-----------------------------------------------------------------------------
(* Rows that are not in the table stay out of the starts.                  *)

\* What a step may do to a row's presence in the table.
RowStays(r) ==
    /\ ~Exists(row'[r]) => row'[r].token = NoToken /\ ~row'[r].deleted
    /\ row[r].status = "gone" => row'[r].status = "gone"
    /\ row'[r].status = "none" => row[r].status = "none"
RowsStay == \A r \in Row : RowStays(r)

\* A request ends, goes on with what it has, or starts on rows of the table.
StartStays(c) ==
    \/ click'[c] = Idle
    \/ /\ click'[c].token = click[c].token
       /\ click'[c].pc # "idle" => click[c].pc # "idle"
       /\ click'[c].prev = click[c].prev
       /\ click'[c].rows \subseteq click[c].rows
    \/ /\ click'[c].token \in Token
       /\ \A r \in Row : click'[c].prev[r].status \in PendingStatus
       /\ click'[c].rows \subseteq Row
       /\ \A r \in click'[c].rows : Exists(row[r])
StartsStay == \A c \in Click : StartStays(c)

LEMMA StaysStep ==
    ASSUME TypeOK, RowsInTable, RowsStay, StartsStay
    PROVE  RowsInTable' /\ GoneKept
<1>1. GoneKept
  BY DEF RowsStay, RowStays, GoneKept
<1>2. \A r \in Row : ~Exists(row'[r]) => row'[r].token = NoToken /\ ~row'[r].deleted
  BY DEF RowsStay, RowStays
<1>3. ASSUME NEW c \in Click
      PROVE  /\ click'[c].pc # "idle" => click'[c].token \in Token
             /\ \A r \in Row : click'[c].prev[r].status \in PendingStatus
             /\ \A r \in click'[c].rows : row'[r].status # "none"
  <2>1. click[c].rows \subseteq Row
    BY DEF TypeOK, ClickRecord
  <2>2. CASE click'[c] = Idle
    BY <2>2, Members DEF Idle, NoPrev
  <2>3. CASE /\ click'[c].token = click[c].token
             /\ click'[c].pc # "idle" => click[c].pc # "idle"
             /\ click'[c].prev = click[c].prev
             /\ click'[c].rows \subseteq click[c].rows
    BY <2>1, <2>3 DEF RowsInTable, RowsStay, RowStays
  <2>4. CASE /\ click'[c].token \in Token
             /\ \A r \in Row : click'[c].prev[r].status \in PendingStatus
             /\ click'[c].rows \subseteq Row
             /\ \A r \in click'[c].rows : Exists(row[r])
    BY <2>4 DEF RowsStay, RowStays, Exists
  <2> QED BY <2>2, <2>3, <2>4 DEF StartsStay, StartStays
<1> QED BY <1>1, <1>2, <1>3 DEF RowsInTable

LEMMA UnchangedStays ==
    ASSUME TypeOK, RowsInTable
    PROVE  /\ UNCHANGED row => RowsStay
           /\ UNCHANGED click => StartsStay
           /\ \A c \in Click : click' = [click EXCEPT ![c] = Idle] => StartsStay
           /\ \A c \in Click : \A pc :
                 click[c].pc # "idle" /\ click' = [click EXCEPT ![c].pc = pc] =>
                   StartsStay
<1>1. UNCHANGED row => RowsStay
  BY DEF RowsInTable, RowsStay, RowStays
<1>2. UNCHANGED click => StartsStay
  BY DEF StartsStay, StartStays
<1>3. \A c \in Click : click' = [click EXCEPT ![c] = Idle] => StartsStay
  BY DEF StartsStay, StartStays, TypeOK
<1>4. ASSUME NEW c \in Click, NEW pc, click[c].pc # "idle",
             click' = [click EXCEPT ![c].pc = pc]
      PROVE  StartsStay
  <2>1. click \in [Click -> ClickRecord]
    BY DEF TypeOK
  <2> QED BY <1>4, <2>1 DEF StartsStay, StartStays, ClickRecord
<1> QED BY <1>1, <1>2, <1>3, <1>4

LEMMA RequestStays ==
    ASSUME TypeOK, RowsInTable,
           \/ \E r \in Row : SaveVisitorReservation(r)
           \/ \E people \in SUBSET Person : SaveTrialReservations(people)
    PROVE  RowsStay /\ StartsStay
<1>1. /\ \A r \in Row : \/ row'[r] = row[r]
                        \/ row[r].status # "gone" /\ row'[r] = GoneRow
                        \/ /\ row[r].status # "gone"
                           /\ \E t \in Token : row'[r] = Requested(t)
      /\ UNCHANGED click
  <2>1. CASE \E r \in Row : SaveVisitorReservation(r)
    BY <2>1 DEF SaveVisitorReservation, PendingStatus, TypeOK
  <2>2. ASSUME NEW people \in SUBSET Person, SaveTrialReservations(people)
        PROVE  <1>1!1 /\ <1>1!2
    <3>1. PICK fresh \in SUBSET {row[r].token : r \in Trial}, t \in Token,
               rows \in SUBSET {r \in Trial : Who[r] \in people} :
            /\ \A r \in rows : row[r].status \in {"none"} \cup PendingStatus
            /\ row' = [r \in Row |->
                         IF r \in rows THEN Requested(t)
                         ELSE IF r \in ReplacedTrialRows(people, fresh)
                           THEN GoneRow
                         ELSE row[r]]
      BY <2>2, ZenonT(60) DEF SaveTrialReservations
    <3>2. \A r \in ReplacedTrialRows(people, fresh) : row[r].status # "gone"
      BY DEF ReplacedTrialRows, PendingStatus
    <3> QED BY <2>2, <3>1, <3>2 DEF SaveTrialReservations, PendingStatus
  <2> QED BY <2>1, <2>2
<1>2. /\ GoneRow.status = "gone" /\ GoneRow.token = NoToken /\ ~GoneRow.deleted
      /\ \A t \in Token : Requested(t).status = "not_started"
  BY DEF GoneRow, NoRow, Requested
<1>3. RowsStay
  BY <1>1, <1>2 DEF RowsStay, RowStays, RowsInTable, Exists
<1> QED BY <1>1, <1>3, UnchangedStays

\* The rows of a link are in the table and stay there.
LEMMA RevivedStays ==
    ASSUME TypeOK, RowsInTable, NEW t \in Token, NEW r \in Row
    PROVE  /\ ~Exists(row[r]) => /\ row[r].token # t
                                 /\ Revived(t)[r] = row[r]
           /\ Exists(row[r]) => Exists(Revived(t)[r])
           /\ r \in OpenRows(t, Revived(t)) =>
                 Exists(row[r]) /\ Revived(t)[r].status \in PendingStatus
<1>1. row[r] \in RowRecord /\ Revived(t)[r] \in RowRecord
  BY RevivedType DEF TypeOK
<1>2. ~Exists(row[r]) => row[r].token # t
  BY CheckoutAssumption DEF RowsInTable
<1>3. /\ row[r].token # t => Revived(t)[r] = row[r]
      /\ Revived(t)[r].status \in {row[r].status, "paid"}
  BY <1>1 DEF Revived, Recorded, RowRecord
<1>4. Exists(row[r]) => Exists(Revived(t)[r])
  BY <1>3 DEF Exists
<1>5. ASSUME r \in OpenRows(t, Revived(t))
      PROVE  Exists(row[r]) /\ Revived(t)[r].status \in PendingStatus
  <2>1. row[r].token = t /\ Revived(t)[r].status # "paid"
    BY <1>5 DEF OpenRows, RowsOf
  <2>2. Exists(Revived(t)[r]) /\ Exists(row[r])
    BY <1>2, <1>4, <2>1
  <2> QED BY <1>1, <2>1, <2>2, Members DEF Exists, RowRecord
<1> QED BY <1>2, <1>3, <1>4, <1>5

LEMMA PrepareStays ==
    ASSUME TypeOK, RowsInTable, NEW c \in Click, NEW t \in Token,
           \/ PrepareDone(c, t) \/ PrepareFree(c, t)
           \/ PrepareReuse(c, t) \/ PrepareCreate(c, t)
    PROVE  RowsStay /\ StartsStay
<1> DEFINE rows == OpenRows(t, Revived(t))
<1> DEFINE paid(x) == [x EXCEPT !.status = "paid", !.deleted = FALSE, !.age = 0]
           held(x) == [x EXCEPT !.status = "unpaid", !.age = 0,
                                !.session = NoSession, !.deleted = FALSE]
<1>1. \A r \in Row : \/ row'[r] = Revived(t)[r]
                     \/ r \in rows /\ row'[r].status \in {"paid", "unpaid"}
  <2>1. \A r \in Row : Revived(t)[r] \in RowRecord
    BY RevivedType
  <2>2. \A x \in RowRecord : paid(x).status = "paid" /\ held(x).status = "unpaid"
    BY DEF RowRecord
  <2>4. ASSUME PrepareFree(c, t), NEW r \in Row
        PROVE  row'[r] = IF r \in rows THEN paid(Revived(t)[r]) ELSE Revived(t)[r]
    BY <2>4 DEF PrepareFree
  <2>5. ASSUME PrepareCreate(c, t), NEW r \in Row
        PROVE  row'[r] = IF r \in rows THEN held(Revived(t)[r]) ELSE Revived(t)[r]
    BY <2>5 DEF PrepareCreate
  <2> HIDE DEF rows, paid, held
  <2> TAKE r \in Row
  <2>6. CASE PrepareFree(c, t)
    <3>1. paid(Revived(t)[r]).status = "paid"
      BY <2>1, <2>2
    <3> QED BY <2>4, <2>6, <3>1
  <2>7. CASE PrepareCreate(c, t)
    <3>1. held(Revived(t)[r]).status = "unpaid"
      BY <2>1, <2>2
    <3> QED BY <2>5, <2>7, <3>1
  <2>8. CASE PrepareDone(c, t)
    BY <2>8 DEF PrepareDone
  <2>9. CASE PrepareReuse(c, t)
    BY <2>9 DEF PrepareReuse
  <2> QED BY <2>6, <2>7, <2>8, <2>9
<1>2. RowsStay
  BY <1>1, RevivedStays DEF RowsStay, RowStays, RowsInTable, Exists
<1>3. CASE PrepareDone(c, t) \/ PrepareFree(c, t)
  BY <1>2, <1>3, UnchangedStays DEF PrepareDone, PrepareFree
<1>4. CASE PrepareReuse(c, t)
  <2>1. PICK s \in Session :
          click' = [click EXCEPT ![c] = [Idle EXCEPT !.pc = "look", !.token = t,
                                                     !.session = s]]
    BY <1>4 DEF PrepareReuse
  <2>2. /\ click'[c].token = t /\ click'[c].rows = {}
        /\ \A r \in Row : click'[c].prev[r].status = "not_started"
        /\ \A d \in Click : d # c => click'[d] = click[d]
    BY <2>1 DEF Idle, NoPrev, TypeOK
  <2> QED BY <1>2, <2>2, Members DEF StartsStay, StartStays
<1>5. CASE PrepareCreate(c, t)
  <2>1. /\ click'[c].token = t /\ click'[c].rows = rows
        /\ \A r \in Row : \/ r \in rows /\ click'[c].prev[r].status
                                             = Revived(t)[r].status
                          \/ click'[c].prev[r].status = "not_started"
        /\ \A d \in Click : d # c => click'[d] = click[d]
    BY <1>5 DEF PrepareCreate, NoPrev, TypeOK
  <2>2. \A r \in rows : r \in Row
    BY DEF OpenRows, RowsOf
  <2> QED BY <1>2, <2>1, <2>2, RevivedStays, Members DEF StartsStay, StartStays
<1> QED BY <1>3, <1>4, <1>5

LEMMA StartedStays ==
    ASSUME TypeOK, RowsInTable, NEW c \in Click,
           \/ ReusableCheckoutUrl(c) \/ OpenNewCheckout(c) \/ SaveSession(c)
           \/ ExpireSession(c) \/ Restore(c) \/ Crash(c)
    PROVE  RowsStay /\ StartsStay
<1>1. click \in [Click -> ClickRecord] /\ row \in [Row -> RowRecord]
  BY DEF TypeOK
<1>2. CASE \/ ReusableCheckoutUrl(c) \/ ExpireSession(c) \/ Crash(c)
  BY <1>2, UnchangedStays DEF ReusableCheckoutUrl, ExpireSession, Crash
<1>3. CASE OpenNewCheckout(c)
  <2>1. /\ click[c].pc = "open" /\ UNCHANGED row
        /\ click'[c].token = click[c].token /\ click'[c].prev = click[c].prev
        /\ click'[c].rows = click[c].rows
        /\ \A d \in Click : d # c => click'[d] = click[d]
    BY <1>1, <1>3 DEF OpenNewCheckout, ClickRecord
  <2> QED BY <2>1, UnchangedStays DEF StartsStay, StartStays
<1>4. CASE SaveSession(c)
  <2>1. \A r \in Row : \/ row'[r] = row[r]
                       \/ /\ row[r].status = "unpaid"
                          /\ row'[r] = [row[r] EXCEPT !.session = click[c].session]
    BY <1>4 DEF SaveSession
  <2>2. \A r \in Row : \/ row'[r] = row[r]
                       \/ row[r].status = "unpaid" /\ row'[r].status = "unpaid"
    <3> TAKE r \in Row
    <3>1. row[r] \in RowRecord
      BY <1>1
    <3>2. CASE row'[r] = row[r]
      BY <3>2
    <3>3. CASE row'[r] = [row[r] EXCEPT !.session = click[c].session]
      BY <2>1, <3>1, <3>3 DEF RowRecord
    <3> QED BY <2>1, <3>2, <3>3
  <2>3. RowsStay
    BY <2>2 DEF RowsStay, RowStays, RowsInTable, Exists
  <2> QED BY <1>4, <2>3, UnchangedStays DEF SaveSession
<1>5. CASE Restore(c)
  <2>1. PICK r \in Row : RestoreRow(c, r)
    BY <1>5 DEF Restore
  <2>2. PutBack(c, r).status \in PendingStatus
    BY PutBackRow DEF RowsInTable
  <2>3. RowsStay
    BY <1>1, <2>1, <2>2 DEF RestoreRow, RowsStay, RowStays, RowsInTable, Exists,
                            PendingStatus
  <2>4. ASSUME click' = [click EXCEPT ![c].pc = "halfway",
                                      ![c].rows = click[c].rows \ {r}]
        PROVE  StartsStay
    BY <1>1, <2>1, <2>4 DEF RestoreRow, StartsStay, StartStays, ClickRecord
  <2> QED BY <2>1, <2>3, <2>4, UnchangedStays DEF RestoreRow
<1> QED BY <1>2, <1>3, <1>4, <1>5

LEMMA TableStep ==
    ASSUME TypeOK, RowsInTable, Next
    PROVE  RowsInTable' /\ GoneKept
<1> SUFFICES RowsStay /\ StartsStay
  BY StaysStep
<1>1. row \in [Row -> RowRecord] /\ click \in [Click -> ClickRecord]
  BY DEF TypeOK
<1>2. ASSUME NEW c \in Click, (\E t \in Token : Begin(c, t)) \/ PrepareAgain(c)
      PROVE  RowsStay /\ StartsStay
  <2>1. PICK t \in Token : \/ PrepareDone(c, t) \/ PrepareFree(c, t)
                           \/ PrepareReuse(c, t) \/ PrepareCreate(c, t)
    BY <1>2, Zenon DEF Begin, PrepareAgain, RowsInTable
  <2> QED BY <2>1, PrepareStays
<1>3. ASSUME NEW s \in Session, Pay(s) \/ LoseWebhook(s)
      PROVE  RowsStay /\ StartsStay
  BY <1>3, UnchangedStays DEF Pay, LoseWebhook
<1>4. ASSUME NEW s \in Session, Webhook(s)
      PROVE  RowsStay /\ StartsStay
  <2>1. \A r \in Row : \/ row'[r] = row[r]
                       \/ Exists(row[r]) /\ row'[r] = Recorded(row[r], s)
    <3>1. \/ row' = row
          \/ /\ \A r \in ses[s].rows : Exists(row[r])
             /\ \A r \in Row : \/ row'[r] = row[r]
                               \/ r \in ses[s].rows /\ row'[r] = Recorded(row[r], s)
      <4>1. CASE \E r \in ses[s].rows : ~Exists(row[r]) \/ SessionMismatch(s, r)
        <5>1. CompletePaidCheckout(s) = row
          BY <4>1 DEF CompletePaidCheckout
        <5> QED BY <1>4, <5>1 DEF Webhook
      <4>2. CASE ~\E r \in ses[s].rows : ~Exists(row[r]) \/ SessionMismatch(s, r)
        <5>1. \A r \in Row : \/ row'[r] = row[r]
                             \/ r \in ses[s].rows /\ row'[r] = Recorded(row[r], s)
          BY <1>4 DEF Webhook, CompletePaidCheckout
        <5> QED BY <4>2, <5>1
      <4> QED BY <4>1, <4>2
    <3> QED BY <3>1
  <2>2. \A r \in Row : Recorded(row[r], s).status = "paid"
    BY <1>1 DEF Recorded, RowRecord
  <2>3. RowsStay
    BY <2>1, <2>2 DEF RowsStay, RowStays, RowsInTable, Exists
  <2> QED BY <1>4, <2>3, UnchangedStays DEF Webhook
<1>5. ASSUME NEW r \in Row, ReconcileReservation(r)
      PROVE  RowsStay /\ StartsStay
  <2>1. row[r].status = "unpaid" /\ UNCHANGED click
    BY <1>5 DEF ReconcileReservation
  <2>2. /\ row'[r].status \in {"paid", "unpaid"}
        /\ \A q \in Row : q # r => row'[q] = row[q]
    BY <1>1, <1>5 DEF ReconcileReservation, Recorded, RowRecord
  <2>3. RowsStay
    BY <2>1, <2>2 DEF RowsStay, RowStays, RowsInTable, Exists
  <2> QED BY <2>1, <2>3, UnchangedStays
<1>6. CASE Tick
  <2>1. \A r \in Row : \/ row'[r] = row[r]
                       \/ row[r].status = "unpaid" /\ row'[r].status = "unpaid"
    <3>1. \A r \in Row : \/ row'[r] = row[r]
                         \/ /\ row[r].status = "unpaid"
                            /\ row'[r] = [row[r] EXCEPT !.age = Older(row[r].age, 1)]
      BY <1>6 DEF Tick
    <3> TAKE r \in Row
    <3>2. row[r] \in RowRecord
      BY <1>1
    <3>3. CASE row'[r] = [row[r] EXCEPT !.age = Older(row[r].age, 1)]
      BY <3>1, <3>2, <3>3 DEF RowRecord
    <3> QED BY <3>1, <3>3
  <2>2. RowsStay
    BY <2>1 DEF RowsStay, RowStays, RowsInTable, Exists
  <2>3. \A c \in Click : /\ click'[c].token = click[c].token
                         /\ click'[c].pc = click[c].pc
                         /\ click'[c].prev = click[c].prev
                         /\ click'[c].rows = click[c].rows
    <3>1. \A c \in Click :
             \/ click'[c] = click[c]
             \/ click'[c] = [click[c] EXCEPT !.delay = Older(click[c].delay, 1)]
      BY <1>6 DEF Tick
    <3> TAKE c \in Click
    <3>2. click[c] \in ClickRecord
      BY <1>1
    <3>3. CASE click'[c] = [click[c] EXCEPT !.delay = Older(click[c].delay, 1)]
      BY <3>2, <3>3 DEF ClickRecord
    <3> QED BY <3>1, <3>3
  <2> QED BY <2>2, <2>3 DEF StartsStay, StartStays
<1> QED
  BY <1>2, <1>3, <1>4, <1>5, <1>6, RequestStays, StartedStays DEF Next

\* The invariant that carries all of it is inductive, however starts,
\* restores, webhooks, the reconciler and crashes interleave.
THEOREM CheckoutInvariant == Spec => []CheckoutInv
<1>1. Init => CheckoutInv
  BY InitInv
<1>2. CheckoutInv /\ [Next]_vars => CheckoutInv'
  <2> SUFFICES ASSUME CheckoutInv, [Next]_vars
               PROVE  CheckoutInv'
    OBVIOUS
  <2>1. CASE Next
    <3>1. TypeOK'
      BY <2>1, RequestType, BeginType, StartType, OutsideType
      DEF Next, CheckoutInv
    <3>2. HooksArePaid'
      BY <2>1, HooksStep DEF CheckoutInv
    <3>3. RowsInTable' /\ GoneKept
      BY <2>1, TableStep DEF CheckoutInv
    <3>4. SessionsCoverTheirRows' /\ PaidWasCaptured' /\ PaidNotDeleted'
      BY <2>1, <3>3, NextSound, SoundStep DEF CheckoutInv
    <3> QED BY <3>1, <3>2, <3>3, <3>4 DEF CheckoutInv
  <2>2. CASE UNCHANGED vars
    BY <2>2 DEF CheckoutInv, TypeOK, SessionsCoverTheirRows, Covers,
                PaidWasCaptured, Captured, PaidNotDeleted, HooksArePaid,
                RowsInTable, vars
  <2> QED BY <2>1, <2>2
<1> QED
  BY <1>1, <1>2, PTL DEF Spec

\* complete_paid_checkout, record_stripe_payment and the free start credit no
\* reservation that was not free or paid for in one of its own sessions.
THEOREM PaidIsPaidFor == Spec => []PaidWasCaptured
<1>1. CheckoutInv => PaidWasCaptured
  BY DEF CheckoutInv
<1> QED
  BY <1>1, CheckoutInvariant, PTL

\* A reservation that was deleted and then found paid is there again.
THEOREM PaidIsKept == Spec => []PaidNotDeleted
<1>1. CheckoutInv => PaidNotDeleted
  BY DEF CheckoutInv
<1> QED
  BY <1>1, CheckoutInvariant, PTL

\* The program never files a session under a reservation it is not for.
THEOREM SessionsAreFiledRight == Spec => []SessionsCoverTheirRows
<1>1. CheckoutInv => SessionsCoverTheirRows
  BY DEF CheckoutInv
<1> QED
  BY <1>1, CheckoutInvariant, PTL

-----------------------------------------------------------------------------
(* Who takes a place, and who takes a payment back.                        *)

\* A row that takes a place without a count is one whose payment was late.
TakesPlaceByRight(r) ==
    HoldsSpot(row'[r]) => HoldsSpot(row[r]) \/ LatePayment(r)

KeepsPayment(r) == row[r].status = "paid" => row'[r].status = "paid"

\* A step that counts no places.
Uncounted == \A r \in Row : TakesPlaceByRight(r) /\ KeepsPayment(r)

\* A step that counts the places it leaves.
Counted ==
    /\ Cardinality(SpotsTaken(row)') <= Limit
    /\ \A r \in Row : KeepsPayment(r)

\* A row that is taken back to its beginning, or deleted, holds no place.
LEMMA PendingHoldsNothing ==
    ASSUME NEW x, x.status \in {"not_started", "gone", "none"} \/ x.deleted
    PROVE  ~HoldsSpot(x)
  BY DEF HoldsSpot

LEMMA RequestByRight ==
    ASSUME CheckoutInv,
           \/ \E r \in Row : SaveVisitorReservation(r)
           \/ \E people \in SUBSET Person : SaveTrialReservations(people)
    PROVE  Uncounted
<1> SUFFICES ASSUME NEW q \in Row
             PROVE  TakesPlaceByRight(q) /\ KeepsPayment(q)
  BY DEF Uncounted
<1>1. \A t : ~HoldsSpot(Requested(t))
  BY DEF Requested, HoldsSpot
<1>2. ~HoldsSpot(GoneRow)
  BY DEF GoneRow, NoRow, HoldsSpot
<1>3. row \in [Row -> RowRecord]
  BY DEF CheckoutInv, TypeOK
<1>4. CASE \E r \in Row : SaveVisitorReservation(r)
  <2>1. PICK r \in Row : SaveVisitorReservation(r)
    BY <1>4
  <2>2. PICK t \in Token : row' = [row EXCEPT ![r] = Requested(t)]
    BY <2>1 DEF SaveVisitorReservation
  <2>3. row[r].status # "paid"
    BY <2>1 DEF SaveVisitorReservation, PendingStatus
  <2>4. row'[q] = IF q = r THEN Requested(t) ELSE row[q]
    BY <1>3, <2>2
  <2> QED
    BY <1>1, <2>3, <2>4 DEF TakesPlaceByRight, KeepsPayment
<1>5. CASE \E people \in SUBSET Person : SaveTrialReservations(people)
  <2>1. PICK people \in SUBSET Person : SaveTrialReservations(people)
    BY <1>5
  <2>2. PICK fresh \in SUBSET {row[r].token : r \in Trial}, t \in Token,
             rows \in SUBSET {r \in Trial : Who[r] \in people} :
          /\ \A r \in rows :
                \/ /\ row[r].status = "none"
                   /\ \A q2 \in TrialRows(Who[r]) : ~row[q2].deleted
                \/ /\ row[r].status \in PendingStatus
                   /\ row[r].deleted
                   /\ ConfirmedUnpaid(r)
          /\ row' = [r \in Row |->
                       IF r \in rows THEN Requested(t)
                       ELSE IF r \in ReplacedTrialRows(people, fresh) THEN GoneRow
                       ELSE row[r]]
    BY <2>1, ZenonT(60) DEF SaveTrialReservations
  <2>5. \A r \in rows : row[r].status # "paid"
    BY <2>2 DEF PendingStatus
  <2>3. q \in ReplacedTrialRows(people, fresh) => row[q].status # "paid"
    BY DEF ReplacedTrialRows, PendingStatus
  <2>4. \/ row'[q] = row[q]
        \/ row[q].status # "paid" /\ row'[q] \in {Requested(t), GoneRow}
    BY <2>2, <2>3, <2>5
  <2> QED
    BY <1>1, <1>2, <2>4 DEF TakesPlaceByRight, KeepsPayment
<1> QED BY <1>4, <1>5

\* The rows as a link finds them: one that is paid there was paid already, or
\* its payment is found now.
LEMMA RevivedByRight ==
    ASSUME CheckoutInv, NEW t, NEW r \in Row
    PROVE  /\ row[r].status = "paid" => Revived(t)[r].status = "paid"
           /\ Revived(t)[r].status = "paid" => ~Revived(t)[r].deleted
           /\ row[r].status # "paid" /\ Revived(t)[r].status = "paid" =>
                 /\ Captured(r)
                 /\ row[r].deleted
           /\ r \notin RowsOf(t) => Revived(t)[r] = row[r]
           /\ r \in OpenRows(t, Revived(t)) => row[r].status # "paid"
<1>1. row[r] \in RowRecord /\ (row[r].status = "paid" => ~row[r].deleted)
  BY DEF CheckoutInv, TypeOK, PaidNotDeleted
<1>2. Revived(t)[r] = IF row[r].token # t \/ ~row[r].deleted THEN row[r]
                      ELSE IF row[r].status # "paid" /\ StripePaid(r)
                        THEN Recorded(row[r], row[r].session)
                      ELSE [row[r] EXCEPT !.deleted = FALSE]
  BY DEF Revived
<1>3. StripePaid(r) => Captured(r)
  <2>1. NoSession \notin Session
    BY CheckoutAssumption DEF Session, NoSession
  <2> QED
    BY <2>1 DEF StripePaid, Captured, CheckoutInv, SessionsCoverTheirRows, Covers
<1>4. CASE row[r].token # t \/ ~row[r].deleted
  BY <1>1, <1>2, <1>4 DEF OpenRows, RowsOf
<1>5. CASE row[r].token = t /\ row[r].deleted /\ row[r].status # "paid" /\ StripePaid(r)
  <2>1. Revived(t)[r] = Recorded(row[r], row[r].session)
    BY <1>2, <1>5
  <2>2. Revived(t)[r].status = "paid" /\ ~Revived(t)[r].deleted
    BY <1>1, <2>1 DEF Recorded, RowRecord
  <2> QED BY <1>3, <1>5, <2>2 DEF OpenRows, RowsOf
<1>6. CASE row[r].token = t /\ row[r].deleted /\ ~(row[r].status # "paid" /\ StripePaid(r))
  <2>1. Revived(t)[r] = [row[r] EXCEPT !.deleted = FALSE]
    BY <1>2, <1>6
  <2>2. Revived(t)[r].status = row[r].status
    BY <1>1, <2>1 DEF RowRecord
  <2> QED BY <1>1, <1>6, <2>2 DEF OpenRows, RowsOf
<1> QED BY <1>4, <1>5, <1>6

LEMMA PrepareDoneByRight ==
    ASSUME CheckoutInv, NEW c, NEW t, PrepareDone(c, t)
    PROVE  Uncounted
<1> SUFFICES ASSUME NEW r \in Row
             PROVE  TakesPlaceByRight(r) /\ KeepsPayment(r)
  BY DEF Uncounted
<1>1. row' = Revived(t) /\ OpenRows(t, Revived(t)) = {}
  BY DEF PrepareDone
<1>2. row'[r] = Revived(t)[r]
  BY <1>1
<1>3. r \in RowsOf(t) => Revived(t)[r].status = "paid"
  BY <1>1 DEF OpenRows
<1>4. CASE r \notin RowsOf(t)
  BY <1>2, <1>4, RevivedByRight DEF TakesPlaceByRight, KeepsPayment
<1>5. CASE r \in RowsOf(t) /\ row[r].status # "paid"
  BY <1>2, <1>3, <1>5, RevivedByRight
     DEF TakesPlaceByRight, KeepsPayment, LatePayment, HoldsSpot
<1>6. CASE r \in RowsOf(t) /\ row[r].status = "paid"
  BY <1>2, <1>3, <1>6
     DEF TakesPlaceByRight, KeepsPayment, HoldsSpot, CheckoutInv,
         PaidNotDeleted
<1> QED BY <1>4, <1>5, <1>6

\* The places counted for the rows of a link leave room for these rows.
LEMMA PlacesCounted ==
    ASSUME NEW table, NEW rows, rows \subseteq Row,
           LessonHasSpots(table, rows, Cardinality(rows)),
           NEW T, T \subseteq (SpotsTaken(table) \ rows) \cup rows
    PROVE  Cardinality(T) <= Limit
<1> DEFINE others == SpotsTaken(table) \ rows
<1>1. others \subseteq Row
  BY DEF SpotsTaken
<1>2. Cardinality(others) + Cardinality(rows) <= Limit
  BY DEF LessonHasSpots
<1> HIDE DEF others
<1>3. /\ IsFiniteSet(others) /\ IsFiniteSet(rows)
      /\ Cardinality(others) \in Nat /\ Cardinality(rows) \in Nat
  BY <1>1, CheckoutAssumption, FS_Subset, FS_CardinalityType
<1>4. /\ IsFiniteSet(others \cup rows)
      /\ Cardinality(others \cup rows) =
            Cardinality(others) + Cardinality(rows) - Cardinality(others \cap rows)
  BY <1>3, FS_Union
<1>5. Cardinality(others \cap rows) \in Nat
  <2>1. IsFiniteSet(others \cap rows)
    BY <1>3, FS_Intersection
  <2> QED BY <2>1, FS_CardinalityType
<1>6. T \subseteq others \cup rows
  BY DEF others
<1>7. /\ Cardinality(T) <= Cardinality(others \cup rows)
      /\ Cardinality(T) \in Nat /\ Cardinality(others \cup rows) \in Nat
  BY <1>4, <1>6, FS_Subset, FS_CardinalityType
<1> QED
  BY <1>2, <1>3, <1>4, <1>5, <1>7, CheckoutAssumption

\* The three outcomes of _prepare that count.
LEMMA PrepareByRight ==
    ASSUME CheckoutInv, NEW c, NEW t,
           PrepareFree(c, t) \/ PrepareReuse(c, t) \/ PrepareCreate(c, t)
    PROVE  Counted
<1> DEFINE table == Revived(t)
           rows == OpenRows(t, table)
<1>1. LessonHasSpots(table, rows, Cardinality(rows))
  BY Zenon DEF PrepareFree, PrepareReuse, PrepareCreate, Admitted
<1>2. rows \subseteq Row
  BY DEF OpenRows, RowsOf
<1>3. \A r \in Row \ rows : row'[r] = table[r]
  <2>1. CASE PrepareFree(c, t)
    <3> HIDE DEF table
    <3>1. row' = [r \in Row |->
                    IF r \in rows THEN [table[r] EXCEPT !.status = "paid",
                                                        !.deleted = FALSE, !.age = 0]
                    ELSE table[r]]
      BY <2>1 DEF PrepareFree, table
    <3> QED BY <3>1
  <2>2. CASE PrepareReuse(c, t)
    BY <2>2 DEF PrepareReuse
  <2>3. CASE PrepareCreate(c, t)
    <3> HIDE DEF table
    <3>1. row' = [r \in Row |->
                    IF r \in rows THEN [table[r] EXCEPT !.status = "unpaid", !.age = 0,
                                                        !.session = NoSession,
                                                        !.deleted = FALSE]
                    ELSE table[r]]
      BY <2>3 DEF PrepareCreate, table
    <3> QED BY <3>1
  <2> QED BY <2>1, <2>2, <2>3
<1>4. SpotsTaken(row)' \subseteq (SpotsTaken(table) \ rows) \cup rows
  <2> HIDE DEF table, rows
  <2> QED BY <1>3 DEF SpotsTaken
<1>5. Cardinality(SpotsTaken(row)') <= Limit
  <2> HIDE DEF table, rows
  <2> QED BY <1>1, <1>2, <1>4, PlacesCounted
<1>6. \A r \in Row : KeepsPayment(r)
  <2> SUFFICES ASSUME NEW r \in Row, row[r].status = "paid"
               PROVE  row'[r].status = "paid"
    BY DEF KeepsPayment
  <2>1. r \notin rows /\ table[r].status = "paid"
    BY RevivedByRight
  <2> QED BY <1>3, <2>1
<1> QED BY <1>5, <1>6 DEF Counted

\* The clean-up of a failed start writes the row that it puts back.
LEMMA RestoreWrites ==
    ASSUME TypeOK, NEW c \in Click, Restore(c), NEW r \in Row
    PROVE  row'[r] = row[r] \/ RestoreRow(c, r)
  BY DEF Restore, RestoreRow, TypeOK

LEMMA SaveByRight ==
    ASSUME CheckoutInv, NEW c \in Click, SaveSession(c)
    PROVE  Uncounted
<1> SUFFICES ASSUME NEW r \in Row
             PROVE  TakesPlaceByRight(r) /\ KeepsPayment(r)
  BY DEF Uncounted
<1>1. row[r] \in RowRecord
  BY DEF CheckoutInv, TypeOK
<1>2. row'[r] = row[r] \/ row'[r] = [row[r] EXCEPT !.session = click[c].session]
  BY DEF SaveSession
<1>3. /\ row'[r].status = row[r].status /\ row'[r].deleted = row[r].deleted
      /\ row'[r].age = row[r].age
  BY <1>1, <1>2 DEF RowRecord
<1> QED
  BY <1>3 DEF TakesPlaceByRight, KeepsPayment, HoldsSpot, HoldIsActive

\* A payment that is recorded on a row was captured for it.
LEMMA RecordedByRight ==
    ASSUME CheckoutInv, NEW r \in Row, NEW s, Captured(r),
           row'[r] = Recorded(row[r], s)
    PROVE  TakesPlaceByRight(r) /\ KeepsPayment(r)
<1>1. row[r] \in RowRecord
  BY DEF CheckoutInv, TypeOK
<1>2. row'[r].status = "paid" /\ ~row'[r].deleted
  BY <1>1 DEF Recorded, RowRecord
<1> QED
  BY <1>2 DEF TakesPlaceByRight, KeepsPayment, LatePayment, HoldsSpot,
              CheckoutInv, PaidNotDeleted

LEMMA WebhookByRight ==
    ASSUME CheckoutInv, NEW s \in Session, Webhook(s)
    PROVE  Uncounted
<1> SUFFICES ASSUME NEW r \in Row
             PROVE  TakesPlaceByRight(r) /\ KeepsPayment(r)
  BY DEF Uncounted
<1>1. ses[s].status = "paid"
  BY DEF Webhook, CheckoutInv, HooksArePaid
<1>2. row' = CompletePaidCheckout(s)
  BY DEF Webhook
<1>3. row'[r] = row[r] \/ (r \in ses[s].rows /\ row'[r] = Recorded(row[r], s))
  BY <1>2 DEF CompletePaidCheckout
<1>4. r \in ses[s].rows => Captured(r)
  BY <1>1 DEF Captured
<1> QED
  BY <1>3, <1>4, RecordedByRight DEF TakesPlaceByRight, KeepsPayment

LEMMA ReconcileByRight ==
    ASSUME CheckoutInv, NEW q \in Row, ReconcileReservation(q)
    PROVE  Uncounted
<1> SUFFICES ASSUME NEW r \in Row
             PROVE  TakesPlaceByRight(r) /\ KeepsPayment(r)
  BY DEF Uncounted
<1>1. row[q].status = "unpaid" /\ row[q] \in RowRecord /\ row \in [Row -> RowRecord]
  BY DEF ReconcileReservation, CheckoutInv, TypeOK
<1>2. PICK s \in SessionsToCheck(q) :
          row' = [row EXCEPT ![q] =
                    IF ses[s].status = "paid" THEN Recorded(@, s)
                    ELSE IF ses[s].status = "expired"
                      THEN [@ EXCEPT !.deleted = TRUE]
                    ELSE [@ EXCEPT !.session = s]]
  BY DEF ReconcileReservation
<1>3. CASE r # q
  <2>1. row'[r] = row[r]
    BY <1>1, <1>2, <1>3
  <2> QED BY <2>1 DEF TakesPlaceByRight, KeepsPayment
<1>4. CASE r = q /\ ses[s].status = "paid"
  <2>1. row'[r] = Recorded(row[r], s)
    BY <1>1, <1>2, <1>4
  <2>2. s \in Session /\ r \in ses[s].rows
    BY <1>4, CheckedSessionCovers DEF Covers, CheckoutInv
  <2>3. Captured(r)
    BY <1>4, <2>2 DEF Captured
  <2> QED BY <2>1, <2>3, RecordedByRight
<1>5. CASE r = q /\ ses[s].status # "paid"
  <2>1. \/ row'[r] = [row[r] EXCEPT !.deleted = TRUE]
        \/ row'[r] = [row[r] EXCEPT !.session = s]
    BY <1>1, <1>2, <1>5
  <2>2. HoldsSpot(row'[r]) => HoldsSpot(row[r])
    BY <1>1, <1>5, <2>1 DEF HoldsSpot, HoldIsActive, RowRecord
  <2> QED BY <1>1, <1>5, <2>2 DEF TakesPlaceByRight, KeepsPayment
<1> QED BY <1>3, <1>4, <1>5

LEMMA TickByRight ==
    ASSUME CheckoutInv, Tick
    PROVE  Uncounted
<1> SUFFICES ASSUME NEW r \in Row
             PROVE  TakesPlaceByRight(r) /\ KeepsPayment(r)
  BY DEF Uncounted
<1>1. row[r] \in RowRecord /\ row[r].age \in Age
  BY DEF CheckoutInv, TypeOK, RowRecord
<1>2. \/ row'[r] = row[r]
      \/ row[r].status = "unpaid" /\ row'[r] = [row[r] EXCEPT !.age = Older(@, 1)]
  BY DEF Tick
<1>3. Older(row[r].age, 1) <= Hold => row[r].age <= Hold
  BY <1>1, CheckoutAssumption DEF Older, Age
<1>4. HoldsSpot(row'[r]) => HoldsSpot(row[r])
  BY <1>1, <1>2, <1>3 DEF HoldsSpot, HoldIsActive, RowRecord
<1> QED
  BY <1>2, <1>4 DEF TakesPlaceByRight, KeepsPayment

\* All steps but the clean-up of a failed start.
LEMMA NextByRight ==
    ASSUME CheckoutInv, Next
    PROVE  Uncounted \/ Counted \/ \E c \in Click : Restore(c)
<1>1. ASSUME NEW c \in Click, NEW t,
             \/ PrepareDone(c, t) \/ PrepareFree(c, t)
             \/ PrepareReuse(c, t) \/ PrepareCreate(c, t)
      PROVE  Uncounted \/ Counted
  BY <1>1, PrepareDoneByRight, PrepareByRight
<1>2. CASE UNCHANGED row
  BY <1>2 DEF Uncounted, TakesPlaceByRight, KeepsPayment
<1>3. CASE \E c \in Click : (\E t \in Token : Begin(c, t)) \/ PrepareAgain(c)
  <2>1. PICK c \in Click : (\E t \in Token : Begin(c, t)) \/ PrepareAgain(c)
    BY <1>3
  <2>2. \E t : \/ PrepareDone(c, t) \/ PrepareFree(c, t)
               \/ PrepareReuse(c, t) \/ PrepareCreate(c, t)
    BY <2>1, Zenon DEF Begin, PrepareAgain
  <2> QED BY <1>1, <2>2
<1>4. CASE \/ \E c \in Click : \/ ReusableCheckoutUrl(c) \/ OpenNewCheckout(c)
                             \/ ExpireSession(c) \/ Crash(c)
           \/ \E s \in Session : Pay(s) \/ LoseWebhook(s)
  <2>1. UNCHANGED row
    BY <1>4 DEF ReusableCheckoutUrl, OpenNewCheckout, ExpireSession, Crash, Pay,
                LoseWebhook
  <2> QED BY <1>2, <2>1
<1> QED
  BY <1>3, <1>4, RequestByRight, SaveByRight, WebhookByRight,
     ReconcileByRight, TickByRight DEF Next

\* For any number of overlapping requests of any length: a lesson passes its
\* limit only by a payment that was late or a place that a failed start puts
\* back.
THEOREM LateWritesAloneOverfill == Spec => OverfullOnlyByLateWrite
<1> DEFINE Step == \/ SpotsTaken(row)' \subseteq SpotsTaken(row)
                   \/ Cardinality(SpotsTaken(row)') <= Limit
                   \/ \E r \in Row : \/ LatePayment(r)
                                     \/ \E c \in Click : RestoreRow(c, r)
<1>1. CheckoutInv /\ [Next]_vars => [Step]_vars
  <2> SUFFICES ASSUME CheckoutInv, Next,
                      \A r \in Row : /\ ~LatePayment(r)
                                     /\ \A c \in Click : ~RestoreRow(c, r),
                      ~(Cardinality(SpotsTaken(row)') <= Limit)
               PROVE  SpotsTaken(row)' \subseteq SpotsTaken(row)
    OBVIOUS
  <2>1. CASE Uncounted
    BY <2>1 DEF Uncounted, TakesPlaceByRight, SpotsTaken
  <2>2. CASE \E c \in Click : Restore(c)
    BY <2>2 DEF Restore
  <2> QED BY <2>1, <2>2, NextByRight DEF Counted
<1> QED
  BY <1>1, CheckoutInvariant, PTL DEF Spec, OverfullOnlyByLateWrite

\* Once a reservation is paid, only the clean-up of a failed start takes it
\* back, in the step that writes that very row.
THEOREM RestoreAloneUnpays == Spec => OnlyRestoreUnpays
<1> DEFINE Step == \A r \in Row :
                      row[r].status = "paid" /\ row'[r].status # "paid" =>
                        \E c \in Click : RestoreRow(c, r)
<1>1. CheckoutInv /\ [Next]_vars => [Step]_vars
  <2> SUFFICES ASSUME CheckoutInv, Next
               PROVE  Step
    OBVIOUS
  <2>1. CASE Uncounted \/ Counted
    BY <2>1 DEF Uncounted, Counted, KeepsPayment
  <2>2. CASE \E c \in Click : Restore(c)
    BY <2>2, RestoreWrites DEF CheckoutInv
  <2> QED BY <2>1, <2>2, NextByRight
<1> QED
  BY <1>1, CheckoutInvariant, PTL DEF Spec, OnlyRestoreUnpays
-----------------------------------------------------------------------------
(* Pages that can be paid, where the requests of one link do not overlap.  *)

Running(c) == click[c].pc # "idle"

\* Requests that run at the same time are for different links.
OneRequestPerLink ==
    \A c, d \in Click : c # d /\ Running(c) /\ Running(d) =>
        click[c].token # click[d].token

\* A hold outlasts a Checkout Session by as long as a request may run.
HoldsOutlastPages == Life + MaxDelay <= Hold + 1

\* _prepare has marked the rows of the request.
Prepared(c) == click[c].pc \in {"open", "save", "expire", "restore", "halfway"}

Live(s) == ses[s].status \in {"open", "shown"}

\* The row is paid, or it waits for this session and its hold is not much
\* older than the session.
HeldFor(s, r) ==
    \/ row[r].status = "paid"
    \/ /\ row[r].status = "unpaid"
       /\ ~row[r].deleted
       /\ row[r].session = s
       /\ row[r].age <= ses[s].age + MaxDelay

\* The session is recorded on its rows, and the unpaid ones are all that its
\* link still has to pay.
Filed(s) ==
    /\ \A r \in ses[s].rows : HeldFor(s, r) /\ row[r].token \in Token
    /\ \A r, q \in ses[s].rows : row[r].token = row[q].token
    /\ \A r \in ses[s].rows, q \in Row :
          row[r].status = "unpaid" /\ row[q].token = row[r].token =>
            q \in ses[s].rows \/ row[q].status = "paid"

\* A clean-up that has begun is about to put the row back.
Withdrawn(r) == \E c \in Click : click[c].pc = "halfway" /\ r \in click[c].rows

\* A row that a clean-up has put back: no page for it can be paid, and an open
\* session that it names is not one that its hold lets a start find.
Settled(r) ==
    \A s \in Session :
        /\ ses[s].status = "shown" => r \notin ses[s].rows
        /\ row[r].status = "unpaid" /\ row[r].session = s /\ Live(s) =>
              ~HoldIsActive(row[r])

\* A page that was shown is filed, and so is an open session that a row with
\* an active hold knows: it is the one that _can_reuse_session finds.
SessionsFiled ==
    /\ \A s \in Session : Live(s) => ses[s].age < Life
    /\ \A s \in Session : ses[s].status = "shown" => Filed(s)
    /\ \A s \in Session, r \in Row :
          /\ row[r].status = "unpaid"
          /\ HoldIsActive(row[r])
          /\ row[r].session = s
          /\ Live(s)
          => Filed(s) \/ Withdrawn(r)

ReqFits(c) ==
    Running(c) => click[c].delay <= MaxDelay /\ click[c].token \in Token

\* A request that looks at a recorded session: its link has no other, and when
\* it starts again that session is over.
LookFits(c) ==
    click[c].pc \in {"look", "again"} =>
      \E s \in Session :
        /\ click[c].session = s
        /\ ses[s].status # "none"
        /\ \A r \in Row : row[r].token = click[c].token =>
              \/ row[r].status = "paid"
              \/ row[r].status = "unpaid" /\ row[r].session = s
        /\ click[c].pc = "again" => ~Live(s)
        /\ click[c].pc = "look" /\ Live(s) =>
              /\ Filed(s)
              /\ \A r \in ses[s].rows : row[r].token = click[c].token

\* A start that is on its way: its rows keep their places, they are all that
\* its link has to pay, no page for them can be paid, and a session that the
\* snapshot brings back is not one that a row with an active hold knows.
StartFits(c) ==
    Prepared(c) =>
      /\ \A r \in click[c].rows :
            /\ row[r].token = click[c].token
            /\ ~row[r].deleted
            /\ \/ row[r].status = "paid"
               \/ row[r].status = "unpaid" /\ row[r].age <= click[c].delay
            /\ \A s \in Session :
                  /\ ses[s].status = "shown" => r \notin ses[s].rows
                  /\ /\ click[c].prev[r].status = "unpaid"
                     /\ click[c].prev[r].session = s
                     /\ Live(s)
                     => click[c].prev[r].age > Hold
      /\ \A r \in Row : row[r].token = click[c].token =>
            \/ r \in click[c].rows
            \/ row[r].status = "paid"
            \/ click[c].pc = "halfway" /\ Settled(r)
      /\ click[c].pc = "save" =>
            \A s \in Session : click[c].session = s =>
              ses[s].status # "none" /\ ses[s].rows = click[c].rows

Fits(c) == ReqFits(c) /\ LookFits(c) /\ StartFits(c)

\* The inductive invariant.
PageInv == SessionsFiled /\ \A c \in Click : Fits(c)

LEMMA IdleFits ==
    ASSUME NEW c \in Click, click[c] = Idle
    PROVE  Fits(c)
  BY DEF Fits, ReqFits, LookFits, StartFits, Running, Prepared, Idle

LEMMA InitPage == Init => PageInv
<1> SUFFICES ASSUME Init
             PROVE  PageInv
  OBVIOUS
<1>1. \A s \in Session : ses[s].status = "none"
  BY DEF Init
<1>2. SessionsFiled
  BY <1>1 DEF SessionsFiled, Live
<1>3. \A c \in Click : click[c] = Idle
  BY DEF Init
<1> QED BY <1>2, <1>3, IdleFits DEF PageInv

\* The row keeps its place.
Held(r) ==
    \/ row[r].status = "paid"
    \/ row[r].status = "unpaid" /\ ~row[r].deleted /\ HoldIsActive(row[r])

LEMMA Durations ==
    ASSUME HoldsOutlastPages
    PROVE  /\ Life \in Nat /\ Hold \in Nat /\ MaxDelay \in Nat
           /\ Life >= 1 /\ MaxDelay <= Hold
  BY CheckoutAssumption DEF HoldsOutlastPages

LEMMA Ages ==
    ASSUME TypeOK
    PROVE  /\ \A r \in Row : row[r].age \in Nat
           /\ \A s \in Session : ses[s].age \in Nat /\ ses[s].rows \subseteq Row
           /\ \A c \in Click : click[c].delay \in Nat /\ click[c].rows \subseteq Row
           /\ \A c \in Click, r \in Row : click[c].prev[r].age \in Nat
  BY CheckoutAssumption
  DEF TypeOK, RowRecord, SessionRecord, ClickRecord, Snapshot, Age

\* Rows of a filed session, and of a start on its way, keep their places.
LEMMA FiledHeld ==
    ASSUME TypeOK, SessionsFiled, HoldsOutlastPages,
           NEW s \in Session, Live(s), Filed(s), NEW r \in ses[s].rows
    PROVE  Held(r) /\ r \in Row
<1>1. HeldFor(s, r) /\ r \in Row /\ row[r].age \in Nat /\ ses[s].age \in Nat
  BY Ages DEF Filed
<1>2. ses[s].age < Life
  BY DEF SessionsFiled
<1> QED BY <1>1, <1>2, Durations DEF HeldFor, Held, HoldIsActive, HoldsOutlastPages

LEMMA PreparedHeld ==
    ASSUME TypeOK, HoldsOutlastPages,
           NEW c \in Click, Fits(c), Prepared(c), NEW r \in click[c].rows
    PROVE  Held(r) /\ r \in Row
<1>1. r \in Row /\ row[r].age \in Nat /\ click[c].delay \in Nat
  BY Ages
<1>2. click[c].delay <= MaxDelay
  BY DEF Fits, ReqFits, Running, Prepared
<1>3. /\ ~row[r].deleted
      /\ \/ row[r].status = "paid"
         \/ row[r].status = "unpaid" /\ row[r].age <= click[c].delay
  BY DEF Fits, StartFits
<1> QED BY <1>1, <1>2, <1>3, Durations DEF Held, HoldIsActive

\* What the steps do to a row that keeps its place: nothing, or it is paid.
Steady(r) ==
    \/ row'[r] = row[r]
    \/ row'[r].status = "paid" /\ row'[r].token = row[r].token

\* What they do to another row: it is given back, given up or given a session
\* that is found at Stripe, or it is taken for a new link or deleted.
SameLink(r) ==
    /\ row'[r].token = row[r].token
    /\ row'[r].status = row[r].status
    /\ row'[r].age = row[r].age
    /\ \/ row'[r].session = row[r].session
       \/ row[r].session = NoSession /\ ~HoldIsActive(row[r])
NewLink(r) ==
    /\ row'[r].status \notin {"unpaid", "paid"}
    /\ row'[r].token \in Token => FreshToken(row'[r].token)

Gentle ==
    \A r \in Row : \/ Steady(r)
                   \/ ~Held(r) /\ (SameLink(r) \/ NewLink(r))

\* Sessions are only opened, and those that live stay as old as they are.
SessionsMild ==
    \A s \in Session :
        /\ ses[s].status # "none" =>
             ses'[s].status # "none" /\ ses'[s].rows = ses[s].rows
        /\ Live(s)' =>
             \/ /\ ses[s].status = "none"
                /\ ses'[s].status = "open" /\ ses'[s].age = 0
             \/ Live(s) /\ ses'[s].age = ses[s].age

\* A row that was put back stays so while its hold does not begin anew.
LEMMA SettledStays ==
    ASSUME TypeOK, SessionsCoverTheirRows, NEW r \in Row, Settled(r),
           \A s \in Session : ses'[s].status = "shown" =>
              \/ ses[s].status = "shown" /\ ses'[s].rows = ses[s].rows
              \/ r \notin ses'[s].rows,
           \A s \in Session : Live(s)' /\ ses[s].status # "none" => Live(s),
           row'[r].status = "unpaid" /\ HoldIsActive(row'[r]) =>
              /\ row[r].status = "unpaid" /\ HoldIsActive(row[r])
              /\ row'[r].session = row[r].session
    PROVE  Settled(r)'
<1> SUFFICES ASSUME NEW s \in Session
             PROVE  /\ ses'[s].status = "shown" => r \notin ses'[s].rows
                    /\ row'[r].status = "unpaid" /\ row'[r].session = s /\ Live(s)' =>
                          ~HoldIsActive(row'[r])
  BY DEF Settled
<1>1. ses'[s].status = "shown" => r \notin ses'[s].rows
  BY DEF Settled
<1>2. ASSUME row'[r].status = "unpaid", row'[r].session = s, Live(s)',
             HoldIsActive(row'[r])
      PROVE  FALSE
  <2>1. row[r].status = "unpaid" /\ HoldIsActive(row[r]) /\ row[r].session = s
    BY <1>2
  <2>2. ses[s].status # "none"
    BY <2>1 DEF SessionsCoverTheirRows, Covers, Session, NoSession
  <2> QED BY <1>2, <2>1, <2>2 DEF Settled
<1> QED BY <1>1, <1>2

\* A filed session stays filed when only rows that hold no place change, or
\* rows are paid.
LEMMA GentleFiled ==
    ASSUME TypeOK, SessionsFiled, HoldsOutlastPages, Gentle,
           NEW s \in Session, Live(s), Filed(s),
           ses'[s].rows = ses[s].rows, ses'[s].age = ses[s].age
    PROVE  /\ Filed(s)'
           /\ \A r \in ses[s].rows : row'[r].token = row[r].token
<1>1. \A r \in ses[s].rows : r \in Row /\ Held(r)
  BY FiledHeld
<1>2. \A r \in ses[s].rows : Steady(r)
  BY <1>1 DEF Gentle
<1>3. \A r \in ses[s].rows : row'[r].token = row[r].token
  BY <1>2 DEF Steady
<1>4. \A r \in ses[s].rows : HeldFor(s, r)'
  BY <1>2 DEF Filed, HeldFor, Steady
<1>5. ASSUME NEW r \in ses[s].rows, NEW q \in Row,
             row'[r].status = "unpaid", row'[q].token = row'[r].token
      PROVE  q \in ses[s].rows \/ row'[q].status = "paid"
  <2>1. row'[r] = row[r] /\ row[r].token \in Token /\ row[r].status = "unpaid"
    BY <1>2, <1>5 DEF Steady, Filed
  <2>2. ~FreshToken(row[r].token)
    BY <1>1 DEF FreshToken
  <2>3. row'[q].token = row[q].token \/ NewLink(q)
    BY DEF Gentle, Steady, SameLink
  <2>4. row'[q].token = row[q].token
    BY <1>5, <2>1, <2>2, <2>3 DEF NewLink
  <2>5. q \in ses[s].rows \/ row[q].status = "paid"
    BY <1>5, <2>1, <2>4 DEF Filed
  <2>6. row[q].status = "paid" => Steady(q)
    BY DEF Gentle, Held
  <2> QED BY <2>5, <2>6 DEF Steady
<1> QED BY <1>3, <1>4, <1>5 DEF Filed

LEMMA GentleSessions ==
    ASSUME TypeOK, SessionsCoverTheirRows, SessionsFiled, HoldsOutlastPages,
           Gentle, SessionsMild, \A r \in Row : Withdrawn(r) => Withdrawn(r)',
           \A s \in Session : ses'[s].status = "shown" =>
              ses[s].status = "shown" \/ (Live(s) /\ Filed(s))
    PROVE  SessionsFiled'
<1>1. \A s \in Session : Live(s)' => ses'[s].age < Life
  BY Durations DEF SessionsMild, SessionsFiled
<1>2. ASSUME NEW s \in Session, Live(s), Live(s)', Filed(s)
      PROVE  Filed(s)'
  <2>1. ses'[s].rows = ses[s].rows /\ ses'[s].age = ses[s].age
    BY <1>2 DEF SessionsMild, Live
  <2> QED BY <1>2, <2>1, GentleFiled
<1>3. ASSUME NEW s \in Session, ses'[s].status = "shown"
      PROVE  Filed(s)'
  <2>1. Live(s) /\ Live(s)' /\ Filed(s)
    BY <1>3 DEF SessionsFiled, Live
  <2> QED BY <1>2, <2>1
<1>4. ASSUME NEW s \in Session, NEW r \in Row, row'[r].status = "unpaid",
             HoldIsActive(row'[r]), row'[r].session = s, Live(s)'
      PROVE  Filed(s)' \/ Withdrawn(r)'
  <2>1. s # NoSession
    BY DEF Session, NoSession
  <2>2. /\ row[r].status = "unpaid" /\ HoldIsActive(row[r])
        /\ row[r].session = s
    BY <1>4 DEF Gentle, Steady, SameLink, NewLink, HoldIsActive
  <2>3. ses[s].status # "none"
    BY <2>1, <2>2 DEF SessionsCoverTheirRows, Covers
  <2>4. Live(s)
    BY <1>4, <2>3 DEF SessionsMild
  <2>5. Filed(s) \/ Withdrawn(r)
    BY <2>2, <2>4 DEF SessionsFiled
  <2> QED BY <1>2, <1>4, <2>4, <2>5
<1> QED BY <1>1, <1>3, <1>4 DEF SessionsFiled

\* A request that is not the one that moves.
LEMMA GentleRequest ==
    ASSUME TypeOK, SessionsCoverTheirRows, SessionsFiled, HoldsOutlastPages,
           PaidNotDeleted', Gentle, SessionsMild,
           NEW d \in Click, Fits(d), click'[d] = click[d],
           \A s \in Session : ses'[s].status = "shown" =>
              \/ ses[s].status = "shown"
              \/ \A r \in ses'[s].rows : row[r].token # click[d].token
    PROVE  Fits(d)'
<1>1. ReqFits(d)'
  BY DEF Fits, ReqFits, Running
<1>2. CASE Running(d)
  <2>1. click[d].token \in Token
    BY <1>2 DEF Fits, ReqFits
  <2>2. \A r \in Row : ~(NewLink(r) /\ row'[r].token = click[d].token)
    BY <2>1 DEF NewLink, FreshToken
  <2>3. \A r \in Row : row'[r].token = click[d].token =>
           /\ row[r].token = click[d].token
           /\ row'[r] = row[r] \/ row'[r].status = "paid" \/ SameLink(r)
    BY <2>2 DEF Gentle, Steady, SameLink
  <2>4. \A r \in Row : row[r].status = "paid" => row'[r].status = "paid"
    BY DEF Gentle, Held, Steady
  <2>5. LookFits(d)'
    <3> SUFFICES ASSUME click[d].pc \in {"look", "again"}
                 PROVE  LookFits(d)'
      BY DEF LookFits
    <3>1. PICK s \in Session :
            /\ click[d].session = s
            /\ ses[s].status # "none"
            /\ \A r \in Row : row[r].token = click[d].token =>
                  \/ row[r].status = "paid"
                  \/ row[r].status = "unpaid" /\ row[r].session = s
            /\ click[d].pc = "again" => ~Live(s)
            /\ click[d].pc = "look" /\ Live(s) =>
                  /\ Filed(s)
                  /\ \A r \in ses[s].rows : row[r].token = click[d].token
      BY DEF Fits, LookFits
    <3>2. ses'[s].status # "none" /\ ses'[s].rows = ses[s].rows /\ s # NoSession
      BY <3>1 DEF SessionsMild, Session, NoSession
    <3>3. Live(s)' => Live(s) /\ ses'[s].age = ses[s].age
      BY <3>1 DEF SessionsMild
    <3>4. \A r \in Row : row'[r].token = click[d].token =>
             \/ row'[r].status = "paid"
             \/ row'[r].status = "unpaid" /\ row'[r].session = s
      BY <2>3, <2>4, <3>1, <3>2 DEF SameLink
    <3>5. click[d].pc = "look" /\ Live(s)' =>
             /\ Filed(s)'
             /\ \A r \in ses'[s].rows : row'[r].token = click[d].token
      <4> SUFFICES ASSUME click[d].pc = "look", Live(s)'
                   PROVE  /\ Filed(s)'
                          /\ \A r \in ses'[s].rows : row'[r].token = click[d].token
        OBVIOUS
      <4>1. Live(s) /\ Filed(s)
        BY <3>1, <3>3
      <4>2. Filed(s)' /\ \A r \in ses[s].rows : row'[r].token = row[r].token
        BY <3>2, <3>3, <4>1, GentleFiled
      <4> QED BY <3>1, <3>2, <4>1, <4>2
    <3> QED BY <3>1, <3>2, <3>3, <3>4, <3>5 DEF LookFits
  <2>6. StartFits(d)'
    <3> SUFFICES ASSUME Prepared(d)
                 PROVE  StartFits(d)'
      BY DEF StartFits, Prepared
    <3>1. StartFits(d)
      BY DEF Fits
    <3>2. \A r \in click[d].rows : r \in Row /\ Steady(r)
      BY PreparedHeld DEF Gentle
    <3>3. ASSUME NEW r \in click[d].rows
          PROVE  /\ row'[r].token = click[d].token
                 /\ ~row'[r].deleted
                 /\ \/ row'[r].status = "paid"
                    \/ row'[r].status = "unpaid" /\ row'[r].age <= click[d].delay
      BY <3>1, <3>2 DEF StartFits, Steady, PaidNotDeleted
    <3>4. ASSUME NEW r \in click[d].rows, NEW s \in Session,
                 ses'[s].status = "shown"
          PROVE  r \notin ses'[s].rows
      <4>1. CASE ses[s].status = "shown"
        BY <3>1, <4>1 DEF StartFits, SessionsMild
      <4>2. CASE \A q \in ses'[s].rows : row[q].token # click[d].token
        BY <3>1, <4>2 DEF StartFits
      <4> QED BY <3>4, <4>1, <4>2
    <3>5. ASSUME NEW r \in click[d].rows, NEW s \in Session,
                 click[d].prev[r].status = "unpaid",
                 click[d].prev[r].session = s, Live(s)'
          PROVE  click[d].prev[r].age > Hold
      <4>1. ses[s].status # "none"
        BY <3>2, <3>5 DEF SessionsCoverTheirRows, Covers, Session, NoSession
      <4>2. Live(s)
        BY <3>5, <4>1 DEF SessionsMild
      <4> QED BY <3>1, <3>5, <4>2 DEF StartFits
    <3>6. ASSUME NEW r \in Row, row'[r].token = click[d].token,
                 r \notin click[d].rows, row'[r].status # "paid"
          PROVE  click[d].pc = "halfway" /\ Settled(r)'
      <4>1. row[r].token = click[d].token /\ row[r].status # "paid"
        BY <2>3, <2>4, <3>6
      <4>2. click[d].pc = "halfway" /\ Settled(r)
        BY <3>1, <3>6, <4>1 DEF StartFits
      <4>3. \A s \in Session : ses'[s].status = "shown" =>
              \/ ses[s].status = "shown" /\ ses'[s].rows = ses[s].rows
              \/ r \notin ses'[s].rows
        BY <4>1 DEF SessionsMild
      <4>4. \A s \in Session : Live(s)' /\ ses[s].status # "none" => Live(s)
        BY DEF SessionsMild
      <4>5. row'[r] = row[r] \/ SameLink(r)
        BY <2>3, <3>6
      <4>6. row'[r].status = "unpaid" /\ HoldIsActive(row'[r]) =>
              /\ row[r].status = "unpaid" /\ HoldIsActive(row[r])
              /\ row'[r].session = row[r].session
        BY <4>5 DEF SameLink, HoldIsActive
      <4> QED BY <4>2, <4>3, <4>4, <4>6, SettledStays
    <3>7. click[d].pc = "save" =>
             \A s \in Session : click[d].session = s =>
               ses'[s].status # "none" /\ ses'[s].rows = click[d].rows
      BY <3>1 DEF StartFits, SessionsMild
    <3> QED BY <3>3, <3>4, <3>5, <3>6, <3>7 DEF StartFits
  <2> QED BY <1>1, <2>5, <2>6 DEF Fits
<1>3. CASE ~Running(d)
  BY <1>1, <1>3 DEF Fits, LookFits, StartFits, Running, Prepared
<1> QED BY <1>2, <1>3

\* no clean-up of this request is under way
Whole(c) == click[c].pc # "halfway"

\* Together: nothing is shown, and whoever moves fits afterwards.
LEMMA GentleStep ==
    ASSUME CheckoutInv, CheckoutInv', PageInv, HoldsOutlastPages, Gentle,
           SessionsMild,
           \A s \in Session : ses'[s].status = "shown" => ses[s].status = "shown",
           \A d \in Click : click'[d] = click[d] \/ (Fits(d)' /\ Whole(d))
    PROVE  PageInv'
<1>1. SessionsFiled'
  <2>1. \A r \in Row : Withdrawn(r) => Withdrawn(r)'
    BY DEF Withdrawn, Whole
  <2> QED BY <2>1, GentleSessions DEF CheckoutInv, PageInv
<1>2. \A d \in Click : Fits(d)'
  BY GentleRequest DEF CheckoutInv, PageInv
<1> QED BY <1>1, <1>2 DEF PageInv

LEMMA MildUnchanged ==
    /\ UNCHANGED row => Gentle
    /\ UNCHANGED ses => /\ SessionsMild
                        /\ \A s \in Session : ses'[s].status = "shown" =>
                              ses[s].status = "shown"
  BY DEF Gentle, Steady, SessionsMild, Live

\* The rows that a request for a place writes hold no place.
LEMMA RequestPage ==
    ASSUME CheckoutInv, CheckoutInv', PageInv, HoldsOutlastPages,
           \/ \E r \in Row : SaveVisitorReservation(r)
           \/ \E people \in SUBSET Person : SaveTrialReservations(people)
    PROVE  PageInv'
<1>1. row \in [Row -> RowRecord]
  BY DEF CheckoutInv, TypeOK
<1>2. \A t : Requested(t).status = "not_started" /\ Requested(t).token = t
  BY DEF Requested
<1>3. GoneRow.status = "gone" /\ GoneRow.token = NoToken /\ NoToken \notin Token
  BY CheckoutAssumption DEF GoneRow, NoRow
<1>4. CASE \E r \in Row : SaveVisitorReservation(r)
  <2>1. PICK r \in Row : SaveVisitorReservation(r)
    BY <1>4
  <2>2. PICK t \in Token : FreshToken(t) /\ row' = [row EXCEPT ![r] = Requested(t)]
    BY <2>1 DEF SaveVisitorReservation
  <2>3. ~Held(r)
    BY <2>1 DEF SaveVisitorReservation, Held, PendingStatus
  <2>4. row'[r] = Requested(t) /\ \A q \in Row : q # r => row'[q] = row[q]
    BY <1>1, <2>2
  <2>5. NewLink(r)
    BY <1>2, <2>2, <2>4 DEF NewLink
  <2>6. Gentle
    BY <2>3, <2>4, <2>5 DEF Gentle, Steady
  <2>7. UNCHANGED <<ses, click>>
    BY <2>1 DEF SaveVisitorReservation
  <2> QED BY <2>6, <2>7, MildUnchanged, GentleStep
<1>5. CASE \E people \in SUBSET Person : SaveTrialReservations(people)
  <2>1. PICK people \in SUBSET Person : SaveTrialReservations(people)
    BY <1>5
  <2>2. PICK fresh \in SUBSET {row[r].token : r \in Trial}, t \in Token,
             rows \in SUBSET {r \in Trial : Who[r] \in people} :
          /\ FreshToken(t)
          /\ \A r \in rows :
                \/ /\ row[r].status = "none"
                   /\ \A q2 \in TrialRows(Who[r]) : ~row[q2].deleted
                \/ /\ row[r].status \in PendingStatus
                   /\ row[r].deleted
                   /\ ConfirmedUnpaid(r)
          /\ row' = [r \in Row |->
                       IF r \in rows THEN Requested(t)
                       ELSE IF r \in ReplacedTrialRows(people, fresh) THEN GoneRow
                       ELSE row[r]]
    BY <2>1, ZenonT(60) DEF SaveTrialReservations
  <2>3. \A r \in rows : ~Held(r)
    BY <2>2 DEF Held, PendingStatus
  <2>4. \A r \in ReplacedTrialRows(people, fresh) : ~Held(r)
    BY DEF ReplacedTrialRows, Held, PendingStatus
  <2>5. ASSUME NEW q \in Row
        PROVE  Steady(q) \/ (~Held(q) /\ NewLink(q))
    <3>1. CASE q \in rows
      <4>1. row'[q] = Requested(t)
        BY <2>2, <3>1
      <4> QED BY <1>2, <2>2, <2>3, <3>1, <4>1 DEF NewLink
    <3>2. CASE q \notin rows /\ q \in ReplacedTrialRows(people, fresh)
      <4>1. row'[q] = GoneRow
        BY <2>2, <3>2
      <4> QED BY <1>3, <2>4, <3>2, <4>1 DEF NewLink
    <3>3. CASE q \notin rows /\ q \notin ReplacedTrialRows(people, fresh)
      BY <2>2, <3>3 DEF Steady
    <3> QED BY <3>1, <3>2, <3>3
  <2>6. Gentle
    BY <2>5 DEF Gentle
  <2>7. UNCHANGED <<ses, click>>
    BY <2>1 DEF SaveTrialReservations
  <2> QED BY <2>6, <2>7, MildUnchanged, GentleStep
<1> QED BY <1>4, <1>5

\* What _revive_deleted_reservations does to a row of the link.
LEMMA RevivedRow ==
    ASSUME CheckoutInv, NEW t, NEW r \in Row
    PROVE  /\ Revived(t)[r].token = row[r].token
           /\ row[r].token # t \/ ~row[r].deleted => Revived(t)[r] = row[r]
           /\ row[r].status = "paid" => Revived(t)[r] = row[r]
           /\ \/ Revived(t)[r].status = "paid"
              \/ /\ Revived(t)[r].status = row[r].status
                 /\ Revived(t)[r].age = row[r].age
           /\ Revived(t)[r].session = row[r].session
<1>1. row[r] \in RowRecord /\ (row[r].status = "paid" => ~row[r].deleted)
  BY DEF CheckoutInv, TypeOK, PaidNotDeleted
<1>2. Revived(t)[r] = IF row[r].token # t \/ ~row[r].deleted THEN row[r]
                      ELSE IF row[r].status # "paid" /\ StripePaid(r)
                        THEN Recorded(row[r], row[r].session)
                      ELSE [row[r] EXCEPT !.deleted = FALSE]
  BY DEF Revived
<1>3. /\ Recorded(row[r], row[r].session).status = "paid"
      /\ Recorded(row[r], row[r].session).token = row[r].token
      /\ Recorded(row[r], row[r].session).session = row[r].session
  BY <1>1 DEF Recorded, RowRecord
<1>4. LET x == [row[r] EXCEPT !.deleted = FALSE] IN
      /\ x.token = row[r].token /\ x.session = row[r].session
      /\ x.status = row[r].status /\ x.age = row[r].age
  BY <1>1 DEF RowRecord
<1> QED BY <1>1, <1>2, <1>3, <1>4

\* A row that is deleted holds no place, so reviving it is gentle.
LEMMA RevivedGentle ==
    ASSUME CheckoutInv, NEW t, NEW r \in Row, row'[r] = Revived(t)[r]
    PROVE  Steady(r) \/ (~Held(r) /\ SameLink(r))
<1>1. CASE row[r].token # t \/ ~row[r].deleted \/ row[r].status = "paid"
  BY <1>1, RevivedRow DEF Steady
<1>2. CASE row[r].deleted /\ row[r].status # "paid"
  BY <1>2, RevivedRow DEF Steady, SameLink, Held
<1> QED BY <1>1, <1>2

LEMMA PrepareDonePage ==
    ASSUME CheckoutInv, CheckoutInv', PageInv, HoldsOutlastPages,
           NEW c \in Click, NEW t, Whole(c),
           PrepareDone(c, t)
    PROVE  PageInv'
<1>1. Gentle
  BY RevivedGentle DEF PrepareDone, Gentle
<1>2. UNCHANGED ses /\ click'[c] = Idle
      /\ \A d \in Click : d # c => click'[d] = click[d]
  BY DEF PrepareDone, CheckoutInv, TypeOK
<1>3. Fits(c)'
  BY <1>2, IdleFits DEF Fits, ReqFits, LookFits, StartFits, Running, Prepared, Idle
<1> QED BY <1>1, <1>2, <1>3, MildUnchanged, GentleStep

LEMMA PrepareFreePage ==
    ASSUME CheckoutInv, CheckoutInv', PageInv, HoldsOutlastPages,
           NEW c \in Click, NEW t, Whole(c),
           PrepareFree(c, t)
    PROVE  PageInv'
<1> DEFINE rows == OpenRows(t, Revived(t))
<1> DEFINE paid(x) == [x EXCEPT !.status = "paid", !.deleted = FALSE, !.age = 0]
<1>1. /\ \A r \in Row : row'[r] = IF r \in rows THEN paid(Revived(t)[r])
                                  ELSE Revived(t)[r]
      /\ click' = [click EXCEPT ![c] = Idle]
      /\ UNCHANGED ses
  BY DEF PrepareFree
<1>2. \A x \in RowRecord : paid(x).status = "paid" /\ paid(x).token = x.token
  BY DEF RowRecord
<1> HIDE DEF rows, paid
<1>3. \A r \in Row : Revived(t)[r] \in RowRecord
  BY RevivedType DEF CheckoutInv
<1>4. \A r \in Row : Steady(r) \/ (~Held(r) /\ SameLink(r))
  <2> TAKE r \in Row
  <2>1. CASE r \in rows
    BY <1>1, <1>2, <1>3, <2>1, RevivedRow DEF Steady
  <2>2. CASE r \notin rows
    BY <1>1, <2>2, RevivedGentle
  <2> QED BY <2>1, <2>2
<1>5. click'[c] = Idle /\ \A d \in Click : d # c => click'[d] = click[d]
  BY <1>1 DEF CheckoutInv, TypeOK
<1>6. Fits(c)'
  BY <1>5 DEF Fits, ReqFits, LookFits, StartFits, Running, Prepared, Idle
<1>7. Gentle
  BY <1>4 DEF Gentle
<1> QED BY <1>1, <1>5, <1>6, <1>7, MildUnchanged, GentleStep

\* The link is used again while its session may still be open.
LEMMA PrepareReusePage ==
    ASSUME CheckoutInv, CheckoutInv', PageInv, HoldsOutlastPages,
           OneRequestPerLink', NEW c \in Click, Whole(c),
           NEW t \in Token, PrepareReuse(c, t)
    PROVE  PageInv'
<1> DEFINE rows == OpenRows(t, Revived(t))
<1>1. /\ row' = Revived(t) /\ UNCHANGED ses /\ rows # {}
  BY DEF PrepareReuse, Admitted
<1>2. PICK s \in Session :
        /\ CanReuseSession(rows, Revived(t), s)
        /\ click' = [click EXCEPT ![c] = [Idle EXCEPT !.pc = "look",
                                            !.token = t, !.session = s]]
  BY DEF PrepareReuse
<1>3. \A r \in Row : row'[r] = Revived(t)[r]
  BY <1>1
<1>4. Gentle
  BY <1>3, RevivedGentle DEF Gentle
<1> DEFINE new == [Idle EXCEPT !.pc = "look", !.token = t, !.session = s]
<1>5. /\ new.pc = "look" /\ new.token = t /\ new.session = s /\ new.delay = 0
  BY DEF Idle
<1>6. click'[c] = new /\ \A d \in Click : d # c => click'[d] = click[d]
  BY <1>2 DEF CheckoutInv, TypeOK
<1> HIDE DEF new
<1>7. \A r \in rows : /\ r \in Row /\ row[r].token = t
                      /\ row'[r].status = "unpaid" /\ row'[r].session = s
                      /\ row[r].status = "unpaid" /\ row[r].session = s
                      /\ HoldIsActive(row[r])
  BY <1>2, <1>3, RevivedRow DEF CanReuseSession, OpenRows, RowsOf, HoldIsActive
<1>8. PICK r0 \in rows : TRUE
  BY <1>1
<1>9. ses[s].status # "none" /\ r0 \in ses[s].rows
  BY <1>7, <1>8 DEF CheckoutInv, SessionsCoverTheirRows, Covers, Session, NoSession
<1>10. \A r \in Row : row'[r].token = t =>
          \/ row'[r].status = "paid"
          \/ row'[r].status = "unpaid" /\ row'[r].session = s
  <2> SUFFICES ASSUME NEW r \in Row, row'[r].token = t, row'[r].status # "paid"
               PROVE  row'[r].status = "unpaid" /\ row'[r].session = s
    OBVIOUS
  <2>1. r \in rows
    BY <1>3, RevivedRow DEF OpenRows, RowsOf
  <2> QED BY <1>7, <2>1
<1>11. Live(s)' => Filed(s)' /\ \A r \in ses'[s].rows : row'[r].token = t
  <2> SUFFICES ASSUME Live(s)
               PROVE  Filed(s)' /\ \A r \in ses[s].rows : row'[r].token = t
    BY <1>1 DEF Live
  <2>1. Filed(s)
    <3> SUFFICES ASSUME Withdrawn(r0)
                 PROVE  FALSE
      BY <1>7, <1>8 DEF PageInv, SessionsFiled
    <3>1. PICK d \in Click : click[d].pc = "halfway" /\ r0 \in click[d].rows
      BY DEF Withdrawn
    <3>2. row[r0].token = click[d].token
      BY <3>1 DEF PageInv, Fits, StartFits, Prepared
    <3>3. d # c
      BY <3>1 DEF Whole
    <3>4. click'[d] = click[d] /\ click[d].token = t
      BY <1>6, <1>7, <1>8, <3>2, <3>3
    <3> QED BY <1>5, <1>6, <3>1, <3>3, <3>4 DEF OneRequestPerLink, Running
  <2>2. Filed(s)' /\ \A r \in ses[s].rows : row'[r].token = row[r].token
    BY <1>1, <1>4, <2>1, GentleFiled DEF CheckoutInv, PageInv
  <2> QED BY <1>7, <1>8, <1>9, <2>1, <2>2 DEF Filed
<1>12. ReqFits(c)' /\ StartFits(c)'
  BY <1>5, <1>6, CheckoutAssumption DEF ReqFits, StartFits, Prepared
<1>13. LookFits(c)'
  BY <1>1, <1>5, <1>6, <1>9, <1>10, <1>11 DEF LookFits
<1> QED
  BY <1>1, <1>4, <1>6, <1>12, <1>13, MildUnchanged, GentleStep DEF Fits

LEMMA WebhookPage ==
    ASSUME CheckoutInv, CheckoutInv', PageInv, HoldsOutlastPages,
           NEW s \in Session, Webhook(s)
    PROVE  PageInv'
<1>1. \A r \in Row : row'[r] = row[r] \/ row'[r] = Recorded(row[r], s)
  BY DEF Webhook, CompletePaidCheckout
<1>2. \A x \in RowRecord : Recorded(x, s).status = "paid" /\ Recorded(x, s).token = x.token
  BY DEF Recorded, RowRecord
<1>3. Gentle
  BY <1>1, <1>2 DEF Gentle, Steady, CheckoutInv, TypeOK
<1>4. UNCHANGED click /\ \E hook : ses' = [ses EXCEPT ![s].hook = hook]
  BY DEF Webhook
<1>5. \A q \in Session : /\ ses'[q].status = ses[q].status
                         /\ ses'[q].rows = ses[q].rows /\ ses'[q].age = ses[q].age
  BY <1>4 DEF CheckoutInv, TypeOK, SessionRecord
<1> QED BY <1>3, <1>4, <1>5, GentleStep DEF SessionsMild, Live

LEMMA StripePage ==
    ASSUME CheckoutInv, CheckoutInv', PageInv, HoldsOutlastPages,
           NEW s \in Session, Pay(s) \/ LoseWebhook(s)
    PROVE  PageInv'
<1>1. UNCHANGED row /\ UNCHANGED click
  BY DEF Pay, LoseWebhook
<1>2. \A q \in Session :
         /\ ses'[q].rows = ses[q].rows
         /\ \/ ses'[q].status = ses[q].status /\ ses'[q].age = ses[q].age
            \/ ses'[q].status = "paid"
  BY DEF Pay, LoseWebhook, CheckoutInv, TypeOK, SessionRecord
<1>3. SessionsMild /\ \A q \in Session : ses'[q].status = "shown" =>
                                            ses[q].status = "shown"
  BY <1>2 DEF SessionsMild, Live
<1> QED BY <1>1, <1>3, MildUnchanged, GentleStep

\* The reconciler looks at rows whose hold is over.
LEMMA ReconcilePage ==
    ASSUME CheckoutInv, CheckoutInv', PageInv, HoldsOutlastPages,
           NEW q \in Row, ReconcileReservation(q)
    PROVE  PageInv'
<1>1. PICK s \in SessionsToCheck(q) :
          row' = [row EXCEPT ![q] =
                    IF ses[s].status = "paid" THEN Recorded(@, s)
                    ELSE IF ses[s].status = "expired"
                      THEN [@ EXCEPT !.deleted = TRUE]
                    ELSE [@ EXCEPT !.session = s]]
  BY DEF ReconcileReservation
<1>2. /\ row \in [Row -> RowRecord]
      /\ ~HoldIsActive(row[q]) /\ row[q].status = "unpaid"
      /\ UNCHANGED <<ses, click>>
  BY DEF ReconcileReservation, CheckoutInv, TypeOK
<1>3. \A r \in Row : r # q => Steady(r)
  BY <1>1, <1>2 DEF Steady
<1>4. row[q].session = NoSession \/ s = row[q].session
  BY DEF SessionsToCheck
<1>5. ~Held(q)
  BY <1>2 DEF Held
<1>6. Steady(q) \/ SameLink(q)
  <2>1. CASE ses[s].status = "paid"
    <3>1. row'[q] = Recorded(row[q], s)
      BY <1>1, <1>2, <2>1
    <3>2. row'[q].status = "paid" /\ row'[q].token = row[q].token
      BY <1>2, <3>1 DEF Recorded, RowRecord
    <3> QED BY <3>2 DEF Steady
  <2>2. CASE ses[s].status # "paid"
    <3>1. \/ row'[q] = [row[q] EXCEPT !.deleted = TRUE]
          \/ row'[q] = [row[q] EXCEPT !.session = s]
      BY <1>1, <1>2, <2>2
    <3>2. /\ row'[q].token = row[q].token /\ row'[q].status = row[q].status
          /\ row'[q].age = row[q].age
          /\ row'[q].session = row[q].session \/ row'[q].session = s
      BY <1>2, <3>1 DEF RowRecord
    <3> QED BY <1>2, <1>4, <3>2 DEF SameLink
  <2> QED BY <2>1, <2>2
<1>7. Gentle
  BY <1>3, <1>5, <1>6 DEF Gentle
<1> QED BY <1>2, <1>7, MildUnchanged, GentleStep

\* A request that dies, or that comes to the end of a step at Stripe.
LEMMA CrashPage ==
    ASSUME CheckoutInv, CheckoutInv', PageInv, HoldsOutlastPages,
           NEW c \in Click, Crash(c), Whole(c)
    PROVE  PageInv'
<1>1. UNCHANGED <<row, ses>> /\ click'[c] = Idle
      /\ \A d \in Click : d # c => click'[d] = click[d]
  BY DEF Crash, CheckoutInv, TypeOK
<1>2. Fits(c)'
  BY <1>1 DEF Fits, ReqFits, LookFits, StartFits, Running, Prepared, Idle
<1> QED BY <1>1, <1>2, MildUnchanged, GentleStep

\* A start goes on, and Stripe has opened or closed its session.
LEMMA MovedStart ==
    ASSUME CheckoutInv, PageInv, UNCHANGED row, SessionsMild,
           \A s \in Session : ses'[s].status = "shown" => ses[s].status = "shown",
           NEW c \in Click, Prepared(c), Prepared(c)', Whole(c),
           click'[c].token = click[c].token, click'[c].rows = click[c].rows,
           click'[c].prev = click[c].prev, click'[c].delay = click[c].delay,
           click'[c].pc = "save" =>
              \A s \in Session : click'[c].session = s =>
                ses'[s].status # "none" /\ ses'[s].rows = click[c].rows
    PROVE  Fits(c)'
<1>1. StartFits(c) /\ ReqFits(c)
  BY DEF PageInv, Fits
<1>2. ReqFits(c)'
  BY <1>1 DEF ReqFits, Running, Prepared
<1>3. LookFits(c)'
  BY DEF LookFits, Prepared
<1>4. click[c].rows \subseteq Row
  BY DEF CheckoutInv, TypeOK, ClickRecord
<1>5. ASSUME NEW r \in click[c].rows, NEW s \in Session
      PROVE  /\ ses'[s].status = "shown" => r \notin ses'[s].rows
             /\ /\ click[c].prev[r].status = "unpaid"
                /\ click[c].prev[r].session = s
                /\ Live(s)'
                => click[c].prev[r].age > Hold
  <2>1. ses'[s].status = "shown" => r \notin ses'[s].rows
    BY <1>1 DEF StartFits, SessionsMild
  <2>2. click[c].prev[r].session = s => ses[s].status # "none"
    BY <1>4 DEF CheckoutInv, SessionsCoverTheirRows, Covers, Session, NoSession
  <2>3. Live(s)' /\ ses[s].status # "none" => Live(s)
    BY DEF SessionsMild
  <2> QED BY <1>1, <2>1, <2>2, <2>3 DEF StartFits
<1>6. StartFits(c)'
  BY <1>1, <1>5 DEF StartFits, Whole
<1> QED BY <1>2, <1>3, <1>6 DEF Fits

LEMMA OpenPage ==
    ASSUME CheckoutInv, CheckoutInv', PageInv, HoldsOutlastPages,
           NEW c \in Click, OpenNewCheckout(c)
    PROVE  PageInv'
<1>1. UNCHANGED row /\ click[c].pc = "open" /\ click \in [Click -> ClickRecord]
      /\ ses \in [Session -> SessionRecord]
  BY DEF OpenNewCheckout, CheckoutInv, TypeOK
<1>4. \A r \in click[c].rows : Exists(row[r])
  BY <1>1 DEF PageInv, Fits, StartFits, Prepared, Exists
<1>5. Whole(c)
  BY <1>1 DEF Whole
<1>2. ASSUME NEW s \in Session, NEW pc \in {"save", "restore"},
             NEW rows \in SUBSET click[c].rows,
             {r \in click[c].rows : Exists(row[r])} \subseteq rows,
             ses[s].status = "none",
             ses' = [ses EXCEPT ![s] = [status |-> "open", age |-> 0,
                                        rows |-> rows, hook |-> "none"]],
             click' = [click EXCEPT ![c].pc = pc,
                                    ![c].session = IF pc = "save" THEN s
                                                   ELSE NoSession]
      PROVE  PageInv'
  <2>1. /\ ses'[s].status = "open" /\ ses'[s].rows = click[c].rows
        /\ ses'[s].age = 0
        /\ \A q \in Session : q # s => ses'[q] = ses[q]
    <3>1. rows = click[c].rows
      BY <1>2, <1>4
    <3> QED BY <1>1, <1>2, <3>1
  <2>2. /\ click'[c].token = click[c].token /\ click'[c].rows = click[c].rows
        /\ click'[c].prev = click[c].prev /\ click'[c].delay = click[c].delay
        /\ click'[c].pc = pc /\ (pc = "save" => click'[c].session = s)
        /\ \A d \in Click : d # c => click'[d] = click[d]
    BY <1>1, <1>2 DEF ClickRecord
  <2>3. SessionsMild /\ \A q \in Session : ses'[q].status = "shown" =>
                                              ses[q].status = "shown"
    BY <1>2, <2>1 DEF SessionsMild, Live
  <2>4. Prepared(c) /\ Prepared(c)'
    BY <1>1, <2>2 DEF Prepared
  <2>5. Fits(c)'
    BY <1>1, <1>5, <2>1, <2>2, <2>3, <2>4, MovedStart
  <2> QED BY <1>1, <1>5, <2>2, <2>3, <2>5, MildUnchanged, GentleStep
<1>3. ASSUME click' = [click EXCEPT ![c].pc = "restore"], UNCHANGED ses
      PROVE  PageInv'
  <2>1. /\ click'[c].token = click[c].token /\ click'[c].rows = click[c].rows
        /\ click'[c].prev = click[c].prev /\ click'[c].delay = click[c].delay
        /\ click'[c].pc = "restore"
        /\ \A d \in Click : d # c => click'[d] = click[d]
    BY <1>1, <1>3 DEF ClickRecord
  <2>2. Prepared(c) /\ Prepared(c)'
    BY <1>1, <2>1 DEF Prepared
  <2>3. Fits(c)'
    BY <1>1, <1>3, <1>5, <2>1, <2>2, MildUnchanged, MovedStart
  <2> QED BY <1>1, <1>3, <1>5, <2>1, <2>3, MildUnchanged, GentleStep
<1> QED BY <1>2, <1>3 DEF OpenNewCheckout

LEMMA ExpirePage ==
    ASSUME CheckoutInv, CheckoutInv', PageInv, HoldsOutlastPages,
           NEW c \in Click, ExpireSession(c)
    PROVE  PageInv'
<1>1. UNCHANGED row /\ click[c].pc = "expire" /\ click \in [Click -> ClickRecord]
      /\ ses \in [Session -> SessionRecord]
  BY DEF ExpireSession, CheckoutInv, TypeOK
<1>2. \A q \in Session :
         /\ ses'[q].rows = ses[q].rows
         /\ \/ ses'[q].status = ses[q].status /\ ses'[q].age = ses[q].age
            \/ ses'[q].status = "expired"
  BY <1>1 DEF ExpireSession, SessionRecord
<1>3. SessionsMild /\ \A q \in Session : ses'[q].status = "shown" =>
                                            ses[q].status = "shown"
  BY <1>2 DEF SessionsMild, Live
<1>4. /\ click'[c].token = click[c].token /\ click'[c].rows = click[c].rows
      /\ click'[c].prev = click[c].prev /\ click'[c].delay = click[c].delay
      /\ click'[c].pc = "restore"
      /\ \A d \in Click : d # c => click'[d] = click[d]
  BY <1>1 DEF ExpireSession, ClickRecord
<1>5. Prepared(c) /\ Prepared(c)'
  BY <1>1, <1>4 DEF Prepared
<1>7. Whole(c)
  BY <1>1 DEF Whole
<1>6. Fits(c)'
  BY <1>1, <1>3, <1>4, <1>5, <1>7, MovedStart
<1> QED BY <1>1, <1>3, <1>4, <1>6, <1>7, MildUnchanged, GentleStep

\* The page of an open session is shown again: it is the one of this link.
LEMMA LookPage ==
    ASSUME CheckoutInv, CheckoutInv', PageInv, HoldsOutlastPages,
           OneRequestPerLink, NEW c \in Click, ReusableCheckoutUrl(c)
    PROVE  PageInv'
<1>1. /\ UNCHANGED row /\ click[c].pc = "look"
      /\ click \in [Click -> ClickRecord] /\ ses \in [Session -> SessionRecord]
  BY DEF ReusableCheckoutUrl, CheckoutInv, TypeOK
<1>2. PICK s \in Session :
        /\ click[c].session = s
        /\ ses[s].status # "none"
        /\ \A r \in Row : row[r].token = click[c].token =>
              \/ row[r].status = "paid"
              \/ row[r].status = "unpaid" /\ row[r].session = s
        /\ Live(s) =>
              /\ Filed(s)
              /\ \A r \in ses[s].rows : row[r].token = click[c].token
  BY <1>1 DEF PageInv, Fits, LookFits
<1>3. CASE Live(s)
  <2>1. /\ ses' = [ses EXCEPT ![s].status = "shown"]
        /\ click' = [click EXCEPT ![c] = Idle]
    BY <1>2, <1>3 DEF ReusableCheckoutUrl, Live
  <2>2. /\ \A q \in Session : ses'[q].rows = ses[q].rows /\ ses'[q].age = ses[q].age
        /\ ses'[s].status = "shown"
        /\ \A q \in Session : q # s => ses'[q].status = ses[q].status
    BY <1>1, <2>1 DEF SessionRecord
  <2>3. SessionsMild
    BY <1>3, <2>2 DEF SessionsMild, Live
  <2>8. \A r \in Row : Withdrawn(r) => Withdrawn(r)'
    BY <1>1, <2>1 DEF Withdrawn
  <2>4. SessionsFiled'
    BY <1>1, <1>2, <1>3, <2>2, <2>3, <2>8, MildUnchanged, GentleSessions
    DEF CheckoutInv, PageInv
  <2>5. click'[c] = Idle /\ \A d \in Click : d # c => click'[d] = click[d]
    BY <1>1, <2>1
  <2>6. Fits(c)'
    BY <2>5 DEF Fits, ReqFits, LookFits, StartFits, Running, Prepared, Idle
  <2>7. ASSUME NEW d \in Click, d # c
        PROVE  Fits(d)'
    <3>1. CASE Running(d)
      <4>1. click[d].token # click[c].token
        BY <1>1, <2>7, <3>1 DEF OneRequestPerLink, Running
      <4>2. \A q \in Session : ses'[q].status = "shown" =>
              \/ ses[q].status = "shown"
              \/ \A r \in ses'[q].rows : row[r].token # click[d].token
        BY <1>2, <1>3, <2>2, <4>1
      <4> QED
        BY <1>1, <2>3, <2>5, <2>7, <4>2, MildUnchanged, GentleRequest
        DEF CheckoutInv, PageInv
    <3>2. CASE ~Running(d)
      BY <2>5, <2>7, <3>2
      DEF Fits, ReqFits, LookFits, StartFits, Running, Prepared
    <3> QED BY <3>1, <3>2
  <2> QED BY <2>4, <2>6, <2>7 DEF PageInv
<1>4. CASE ~Live(s)
  <2>1. click' = [click EXCEPT ![c].pc = "again"] /\ UNCHANGED ses
    BY <1>2, <1>4 DEF ReusableCheckoutUrl, Live
  <2>2. /\ click'[c].pc = "again" /\ click'[c].session = s
        /\ click'[c].token = click[c].token /\ click'[c].delay = click[c].delay
        /\ \A d \in Click : d # c => click'[d] = click[d]
    BY <1>1, <1>2, <2>1 DEF ClickRecord
  <2>3. ReqFits(c)' /\ StartFits(c)'
    BY <1>1, <2>2 DEF PageInv, Fits, ReqFits, StartFits, Running, Prepared
  <2>4. LookFits(c)'
    BY <1>1, <1>2, <1>4, <2>1, <2>2 DEF LookFits, Live
  <2>5. Whole(c) /\ Fits(c)'
    BY <1>1, <2>3, <2>4 DEF Whole, Fits
  <2> QED BY <1>1, <2>1, <2>2, <2>5, MildUnchanged, GentleStep
<1> QED BY <1>3, <1>4

\* A step that writes rows of one link only.
Local(t) ==
    \A r \in Row : /\ row'[r].token = row[r].token
                   /\ row[r].token # t => row'[r] = row[r]

\* It writes no row of the session, which has none of its unpaid rows.
Untouched(s, t) ==
    \A r \in ses[s].rows : /\ row'[r] = row[r]
                           /\ row[r].status = "unpaid" => row[r].token # t

LEMMA LocalFiled ==
    ASSUME TypeOK, NEW t, Local(t), NEW s \in Session, Filed(s), Untouched(s, t),
           ses'[s].rows = ses[s].rows, ses'[s].age = ses[s].age
    PROVE  Filed(s)'
<1>1. ses[s].rows \subseteq Row
  BY Ages
<1>2. \A r \in ses[s].rows : HeldFor(s, r)' /\ row'[r].token \in Token
  BY DEF Untouched, Filed, HeldFor
<1>3. \A r, q \in ses[s].rows : row'[r].token = row'[q].token
  BY DEF Untouched, Filed
<1>4. ASSUME NEW r \in ses[s].rows, NEW q \in Row,
             row'[r].status = "unpaid", row'[q].token = row'[r].token
      PROVE  q \in ses[s].rows \/ row'[q].status = "paid"
  <2>1. row'[q] = row[q]
    BY <1>1, <1>4 DEF Local, Untouched
  <2> QED BY <1>4, <2>1 DEF Untouched, Filed
<1> QED BY <1>2, <1>3, <1>4 DEF Filed

LEMMA LocalSessions ==
    ASSUME TypeOK, SessionsFiled, HoldsOutlastPages, SessionsMild,
           NEW t, Local(t),
           \A s \in Session : ses'[s].status = "shown" =>
              Filed(s)' \/ (ses[s].status = "shown" /\ Untouched(s, t)),
           \A s \in Session, r \in Row :
              /\ row'[r].status = "unpaid"
              /\ HoldIsActive(row'[r])
              /\ row'[r].session = s
              /\ Live(s)'
              => \/ Filed(s)'
                 \/ Live(s) /\ Filed(s) /\ Untouched(s, t)
                 \/ Withdrawn(r)'
    PROVE  SessionsFiled'
<1>1. \A s \in Session : Live(s)' => ses'[s].age < Life
  BY Durations DEF SessionsMild, SessionsFiled
<1>2. ASSUME NEW s \in Session, Live(s), Live(s)', Filed(s), Untouched(s, t)
      PROVE  Filed(s)'
  <2>1. ses'[s].rows = ses[s].rows /\ ses'[s].age = ses[s].age
    BY <1>2 DEF SessionsMild, Live
  <2> QED BY <1>2, <2>1, LocalFiled
<1>3. \A s \in Session : ses'[s].status = "shown" => Filed(s)'
  BY <1>2 DEF SessionsFiled, Live
<1> QED BY <1>1, <1>2, <1>3 DEF SessionsFiled

LEMMA LocalRequest ==
    ASSUME TypeOK, SessionsCoverTheirRows, SessionsFiled, SessionsMild,
           NEW t, Local(t),
           NEW d \in Click, Fits(d), click'[d] = click[d],
           Running(d) => click[d].token # t,
           \A s \in Session : ses'[s].status = "shown" =>
              \/ ses[s].status = "shown"
              \/ \A r \in ses'[s].rows : row[r].token = t
    PROVE  Fits(d)'
<1>1. ReqFits(d)'
  BY DEF Fits, ReqFits, Running
<1>2. CASE Running(d)
  <2>1. \A r \in Row :
          \/ row'[r] = row[r]
          \/ row[r].token = t /\ row'[r].token = t
    BY DEF Local
  <2>2. LookFits(d)'
    <3> SUFFICES ASSUME click[d].pc \in {"look", "again"}
                 PROVE  LookFits(d)'
      BY DEF LookFits
    <3>1. PICK s \in Session :
            /\ click[d].session = s
            /\ ses[s].status # "none"
            /\ \A r \in Row : row[r].token = click[d].token =>
                  \/ row[r].status = "paid"
                  \/ row[r].status = "unpaid" /\ row[r].session = s
            /\ click[d].pc = "again" => ~Live(s)
            /\ click[d].pc = "look" /\ Live(s) =>
                  /\ Filed(s)
                  /\ \A r \in ses[s].rows : row[r].token = click[d].token
      BY DEF Fits, LookFits
    <3>2. ses'[s].status # "none" /\ ses'[s].rows = ses[s].rows
      BY <3>1 DEF SessionsMild
    <3>3. Live(s)' => Live(s) /\ ses'[s].age = ses[s].age
      BY <3>1 DEF SessionsMild
    <3>4. \A r \in Row : row'[r].token = click[d].token =>
             \/ row'[r].status = "paid"
             \/ row'[r].status = "unpaid" /\ row'[r].session = s
      BY <1>2, <2>1, <3>1
    <3>5. click[d].pc = "look" /\ Live(s)' =>
             /\ Filed(s)'
             /\ \A r \in ses'[s].rows : row'[r].token = click[d].token
      <4> SUFFICES ASSUME click[d].pc = "look", Live(s)'
                   PROVE  /\ Filed(s)'
                          /\ \A r \in ses[s].rows : row'[r].token = click[d].token
        BY <3>2
      <4>1. Filed(s) /\ \A r \in ses[s].rows : r \in Row /\ row[r].token # t
        BY <1>2, <3>1, <3>3, Ages
      <4>2. Untouched(s, t)
        BY <4>1 DEF Untouched, Local
      <4> QED BY <3>1, <3>2, <3>3, <4>1, <4>2, LocalFiled DEF Untouched
    <3> QED BY <3>1, <3>2, <3>3, <3>4, <3>5 DEF LookFits
  <2>3. StartFits(d)'
    <3> SUFFICES ASSUME Prepared(d)
                 PROVE  StartFits(d)'
      BY DEF StartFits, Prepared
    <3>1. StartFits(d) /\ click[d].rows \subseteq Row
      BY Ages DEF Fits
    <3>2. \A r \in click[d].rows : row'[r] = row[r]
      BY <1>2, <3>1 DEF StartFits, Local
    <3>3. ASSUME NEW r \in click[d].rows
          PROVE  /\ row'[r].token = click[d].token
                 /\ ~row'[r].deleted
                 /\ \/ row'[r].status = "paid"
                    \/ row'[r].status = "unpaid" /\ row'[r].age <= click[d].delay
      BY <3>1, <3>2 DEF StartFits
    <3>4. ASSUME NEW r \in click[d].rows, NEW s \in Session,
                 ses'[s].status = "shown"
          PROVE  r \notin ses'[s].rows
      BY <1>2, <3>1, <3>4 DEF StartFits, SessionsMild
    <3>5. ASSUME NEW r \in click[d].rows, NEW s \in Session,
                 click[d].prev[r].status = "unpaid",
                 click[d].prev[r].session = s, Live(s)'
          PROVE  click[d].prev[r].age > Hold
      <4>1. ses[s].status # "none"
        BY <3>1, <3>5 DEF SessionsCoverTheirRows, Covers, Session, NoSession
      <4>2. Live(s)
        BY <3>5, <4>1 DEF SessionsMild
      <4> QED BY <3>1, <3>5, <4>2 DEF StartFits
    <3>6. ASSUME NEW r \in Row, row'[r].token = click[d].token,
                 r \notin click[d].rows, row'[r].status # "paid"
          PROVE  click[d].pc = "halfway" /\ Settled(r)'
      <4>1. row'[r] = row[r] /\ row[r].token # t
        BY <1>2, <2>1, <3>6
      <4>2. click[d].pc = "halfway" /\ Settled(r)
        BY <3>1, <3>6, <4>1 DEF StartFits
      <4>3. \A s \in Session : ses'[s].status = "shown" =>
              \/ ses[s].status = "shown" /\ ses'[s].rows = ses[s].rows
              \/ r \notin ses'[s].rows
        BY <4>1 DEF SessionsMild
      <4>4. \A s \in Session : Live(s)' /\ ses[s].status # "none" => Live(s)
        BY DEF SessionsMild
      <4> QED BY <4>1, <4>2, <4>3, <4>4, SettledStays
    <3>7. click[d].pc = "save" =>
             \A s \in Session : click[d].session = s =>
               ses'[s].status # "none" /\ ses'[s].rows = click[d].rows
      BY <3>1 DEF StartFits, SessionsMild
    <3> QED BY <3>3, <3>4, <3>5, <3>6, <3>7 DEF StartFits
  <2> QED BY <1>1, <2>2, <2>3 DEF Fits
<1>3. CASE ~Running(d)
  BY <1>1, <1>3 DEF Fits, LookFits, StartFits, Running, Prepared
<1> QED BY <1>2, <1>3

\* A start marks its rows, none of which a filed session is for.
LEMMA PrepareCreatePage ==
    ASSUME CheckoutInv, CheckoutInv', PageInv, HoldsOutlastPages,
           OneRequestPerLink', NEW c \in Click, Whole(c),
           NEW t \in Token, PrepareCreate(c, t),
           \A s \in Session, r \in OpenRows(t, Revived(t)) :
              Live(s) /\ Filed(s) => r \notin ses[s].rows
    PROVE  PageInv'
<1> DEFINE rows == OpenRows(t, Revived(t))
<1> DEFINE held(x) == [x EXCEPT !.status = "unpaid", !.age = 0,
                                !.session = NoSession, !.deleted = FALSE]
<1> DEFINE prev == [r \in Row |->
                      IF r \in rows
                        THEN [status |-> Revived(t)[r].status,
                              session |-> Revived(t)[r].session,
                              age |-> Revived(t)[r].age]
                        ELSE NoPrev[r]]
<1> DEFINE new == [pc |-> "open", token |-> t, rows |-> rows, prev |-> prev,
                   session |-> NoSession, delay |-> 0]
<1>1. /\ \A r \in Row : row'[r] = IF r \in rows THEN held(Revived(t)[r])
                                  ELSE Revived(t)[r]
      /\ click' = [click EXCEPT ![c] = new]
      /\ UNCHANGED ses
  BY DEF PrepareCreate
<1>2. \A x \in RowRecord : /\ held(x).status = "unpaid" /\ held(x).age = 0
                           /\ held(x).session = NoSession /\ ~held(x).deleted
                           /\ held(x).token = x.token
  BY DEF RowRecord
<1>3. \A r \in rows : /\ prev[r].status = Revived(t)[r].status
                      /\ prev[r].session = Revived(t)[r].session
                      /\ prev[r].age = Revived(t)[r].age
  BY DEF OpenRows, RowsOf
<1>4. /\ new.pc = "open" /\ new.token = t /\ new.rows = rows /\ new.prev = prev
      /\ new.delay = 0
  OBVIOUS
<1>5. \A r \in rows : /\ r \in Row /\ row[r].token = t
                      /\ Revived(t)[r].status # "paid" /\ row[r].status # "paid"
  BY RevivedRow DEF OpenRows, RowsOf
<1>6. \A r \in Row : row[r].token = t /\ r \notin rows =>
                        Revived(t)[r].status = "paid"
  BY DEF OpenRows, RowsOf
<1>7. \A s \in Session, r \in rows : Live(s) /\ Filed(s) => r \notin ses[s].rows
  OBVIOUS
<1> HIDE DEF rows, held, prev, new
<1>8. \A r \in Row : Revived(t)[r] \in RowRecord
  BY RevivedType DEF CheckoutInv
<1>21. Whole(c)
  OBVIOUS
<1>9. click'[c] = new /\ \A d \in Click : d # c => click'[d] = click[d]
  BY <1>1 DEF CheckoutInv, TypeOK
<1>10. \A r \in rows : /\ row'[r].status = "unpaid" /\ row'[r].age = 0
                       /\ row'[r].session = NoSession /\ ~row'[r].deleted
                       /\ row'[r].token = t
  BY <1>1, <1>2, <1>5, <1>8, RevivedRow
<1>11. Local(t)
  <2> SUFFICES ASSUME NEW r \in Row
               PROVE  /\ row'[r].token = row[r].token
                      /\ row[r].token # t => row'[r] = row[r]
    BY DEF Local
  <2> QED BY <1>1, <1>5, <1>10, RevivedRow
<1>20. \A r \in Row : Withdrawn(r) => row[r].token # t /\ Withdrawn(r)'
  <2> SUFFICES ASSUME NEW r \in Row, NEW d \in Click, click[d].pc = "halfway",
                      r \in click[d].rows
               PROVE  row[r].token # t /\ Withdrawn(r)'
    BY DEF Withdrawn
  <2>1. d # c
    BY <1>21 DEF Whole
  <2>2. click'[d] = click[d]
    BY <1>9, <2>1
  <2>3. click[d].token # t
    BY <1>4, <1>9, <2>1, <2>2 DEF OneRequestPerLink, Running
  <2>4. row[r].token = click[d].token
    BY DEF PageInv, Fits, StartFits, Prepared
  <2> QED BY <2>2, <2>3, <2>4 DEF Withdrawn
<1>12. SessionsMild
  BY <1>1, MildUnchanged
<1>13. ASSUME NEW s \in Session, Live(s), Filed(s)
       PROVE  Untouched(s, t)
  <2> SUFFICES ASSUME NEW r \in ses[s].rows
               PROVE  /\ row'[r] = row[r]
                      /\ row[r].status = "unpaid" => row[r].token # t
    BY DEF Untouched
  <2>1. r \in Row /\ r \notin rows /\ HeldFor(s, r)
    BY <1>7, <1>13, Ages DEF CheckoutInv, Filed
  <2>2. row'[r] = Revived(t)[r] /\ Revived(t)[r] = row[r]
    BY <1>1, <2>1, RevivedRow DEF HeldFor
  <2> QED BY <1>6, <2>1, <2>2
<1>14. ASSUME NEW s \in Session, NEW r \in Row, row'[r].status = "unpaid",
              HoldIsActive(row'[r]), row'[r].session = s, Live(s)
       PROVE  Filed(s) \/ Withdrawn(r)'
  <2>1. r \notin rows
    BY <1>10, <1>14 DEF Session, NoSession
  <2>2. row'[r] = row[r]
    BY <1>1, <1>6, <1>11, <1>14, <2>1 DEF Local
  <2> QED BY <1>14, <1>20, <2>2 DEF PageInv, SessionsFiled
<1>15. SessionsFiled'
  <2>1. \A s \in Session : ses'[s].status = "shown" =>
           ses[s].status = "shown" /\ Untouched(s, t)
    BY <1>1, <1>13 DEF PageInv, SessionsFiled, Live
  <2>2. \A s \in Session : Live(s)' => Live(s)
    BY <1>1 DEF Live
  <2> QED
    BY <1>11, <1>12, <1>13, <1>14, <2>1, <2>2, LocalSessions
    DEF CheckoutInv, PageInv
<1>16. StartFits(c)'
  <2>1. ASSUME NEW r \in rows, NEW s \in Session, ses[s].status = "shown"
        PROVE  r \notin ses[s].rows
    BY <1>7, <2>1 DEF PageInv, SessionsFiled, Live
  <2>2. ASSUME NEW r \in rows, NEW s \in Session, prev[r].status = "unpaid",
               prev[r].session = s, Live(s)
        PROVE  prev[r].age > Hold
    <3>1. /\ row[r].status = "unpaid" /\ row[r].session = s
          /\ prev[r].age = row[r].age
      BY <1>3, <1>5, <2>2, RevivedRow
    <3>2. r \in ses[s].rows
      BY <1>5, <3>1 DEF CheckoutInv, SessionsCoverTheirRows, Covers, Session,
                        NoSession
    <3>3. ~HoldIsActive(row[r])
      BY <1>5, <1>7, <1>20, <2>2, <3>1, <3>2 DEF PageInv, SessionsFiled
    <3>4. row[r].age \in Nat /\ Hold \in Nat
      BY <1>5, Ages, CheckoutAssumption DEF CheckoutInv
    <3> QED BY <3>1, <3>3, <3>4 DEF HoldIsActive
  <2>3. \A r \in Row : row'[r].token = t => r \in rows \/ row'[r].status = "paid"
    BY <1>1, <1>6, <1>11 DEF Local
  <2> QED
    BY <1>1, <1>4, <1>9, <1>10, <2>1, <2>2, <2>3, 0 <= 0
    DEF StartFits, Live
<1>17. ReqFits(c)' /\ LookFits(c)'
  BY <1>4, <1>9, CheckoutAssumption DEF ReqFits, LookFits
<1>18. ASSUME NEW d \in Click, d # c
       PROVE  Fits(d)'
  <2>1. Running(d) => click[d].token # t
    BY <1>4, <1>9, <1>18 DEF OneRequestPerLink, Running
  <2> QED
    BY <1>1, <1>9, <1>11, <1>12, <1>18, <2>1, LocalRequest
    DEF CheckoutInv, PageInv
<1> QED BY <1>15, <1>16, <1>17, <1>18 DEF PageInv, Fits

\* The first transaction: an open session that is filed would be used again.
LEMMA BeginPage ==
    ASSUME CheckoutInv, CheckoutInv', PageInv, HoldsOutlastPages,
           OneRequestPerLink', NEW c \in Click, NEW t \in Token, Begin(c, t)
    PROVE  PageInv'
<1> DEFINE rows == OpenRows(t, Revived(t))
<1>1. CASE /\ ~\E s \in Session : CanReuseSession(rows, Revived(t), s)
           /\ PrepareCreate(c, t)
  <2> SUFFICES ASSUME NEW s \in Session, NEW r \in rows, Live(s), Filed(s),
                      r \in ses[s].rows
               PROVE  CanReuseSession(rows, Revived(t), s)
    BY <1>1, PrepareCreatePage DEF Begin, Whole
  <2>1. \A q \in rows : q \in Row /\ row[q].token = t /\ row[q].status # "paid"
    BY RevivedRow DEF OpenRows, RowsOf
  <2>2. row[r].status = "unpaid"
    BY <2>1 DEF Filed, HeldFor
  <2>3. \A q \in rows : q \in ses[s].rows
    BY <2>1, <2>2 DEF Filed
  <2>4. ASSUME NEW q \in rows
        PROVE  /\ Revived(t)[q].status = "unpaid"
               /\ HoldIsActive(Revived(t)[q])
               /\ Revived(t)[q].session = s
    <3>1. HeldFor(s, q) /\ Held(q)
      BY <2>3, FiledHeld DEF Filed, CheckoutInv, PageInv
    <3>2. row[q].status = "unpaid" /\ ~row[q].deleted
      BY <2>1, <3>1 DEF HeldFor
    <3>3. Revived(t)[q] = row[q]
      BY <2>1, <3>2, RevivedRow
    <3> QED BY <3>1, <3>2, <3>3 DEF HeldFor, Held
  <2> QED BY <2>4 DEF CanReuseSession
<1> QED
  <2>1. Whole(c)
    BY DEF Begin, Whole
  <2> QED
    BY <1>1, <2>1, PrepareDonePage, PrepareFreePage, PrepareReusePage, Zenon
    DEF Begin

\* force_new: the one session the link had is over.
LEMMA AgainPage ==
    ASSUME CheckoutInv, CheckoutInv', PageInv, HoldsOutlastPages,
           OneRequestPerLink', NEW c \in Click, PrepareAgain(c)
    PROVE  PageInv'
<1> DEFINE t == click[c].token
<1>1. t \in Token /\ click[c].pc = "again"
  BY DEF PrepareAgain, PageInv, Fits, ReqFits, Running
<1>3. Whole(c)
  BY <1>1 DEF Whole
<1>2. CASE PrepareCreate(c, t)
  <2>1. PICK s0 \in Session :
          /\ \A r \in Row : row[r].token = t =>
                \/ row[r].status = "paid"
                \/ row[r].status = "unpaid" /\ row[r].session = s0
          /\ ~Live(s0)
    BY <1>1 DEF PageInv, Fits, LookFits
  <2>2. \A s \in Session, r \in OpenRows(t, Revived(t)) :
           Live(s) /\ Filed(s) => r \notin ses[s].rows
    <3> SUFFICES ASSUME NEW s \in Session, NEW r \in OpenRows(t, Revived(t)),
                        Live(s), Filed(s), r \in ses[s].rows
                 PROVE  FALSE
      OBVIOUS
    <3>1. r \in Row /\ row[r].token = t /\ row[r].status # "paid"
      BY RevivedRow DEF OpenRows, RowsOf
    <3>2. row[r].session = s0 /\ row[r].session = s
      BY <2>1, <3>1 DEF Filed, HeldFor
    <3> QED BY <2>1, <3>2
  <2> QED BY <1>1, <1>2, <1>3, <2>2, PrepareCreatePage
<1> QED
  BY <1>1, <1>2, <1>3, PrepareDonePage, PrepareFreePage, Zenon DEF PrepareAgain

\* The session is saved on the rows it was made for.
LEMMA SavePage ==
    ASSUME CheckoutInv, CheckoutInv', PageInv, HoldsOutlastPages,
           OneRequestPerLink, NEW c \in Click, SaveSession(c)
    PROVE  PageInv'
<1> DEFINE t == click[c].token
           unpaid == {r \in click[c].rows : row[r].status = "unpaid"}
<1>1. /\ click[c].pc = "save" /\ Prepared(c) /\ Running(c)
      /\ click \in [Click -> ClickRecord] /\ ses \in [Session -> SessionRecord]
      /\ row \in [Row -> RowRecord] /\ click[c].rows \subseteq Row
  BY Ages DEF SaveSession, Prepared, Running, CheckoutInv, TypeOK
<1>2. PICK s \in Session : s = click[c].session
  BY <1>1 DEF CheckoutInv, SessionsCoverTheirRows
<1>3. StartFits(c) /\ ReqFits(c)
  BY DEF PageInv, Fits
<1>4. ses[s].status # "none" /\ ses[s].rows = click[c].rows
  BY <1>1, <1>2, <1>3 DEF StartFits
<1>5. \A r \in Row : row'[r] = IF r \in unpaid THEN [row[r] EXCEPT !.session = s]
                               ELSE row[r]
  BY <1>2 DEF SaveSession
<1>6. \A q \in Session : /\ ses'[q].rows = ses[q].rows /\ ses'[q].age = ses[q].age
                         /\ Live(q)' <=> Live(q)
                         /\ ses[q].status # "none" => ses'[q].status # "none"
                         /\ q # s => ses'[q] = ses[q]
  BY <1>1, <1>2 DEF SaveSession, SessionRecord, Live
<1>7. \A d \in Click : d # c => click'[d] = click[d]
  BY <1>1 DEF SaveSession
<1>8. \A r \in click[c].rows :
         /\ row[r].token = t /\ ~row[r].deleted
         /\ \/ row[r].status = "paid"
            \/ row[r].status = "unpaid" /\ row[r].age <= click[c].delay
  BY <1>1, <1>3 DEF StartFits
<1>9. \A r \in Row : row[r].token = t => r \in click[c].rows \/ row[r].status = "paid"
  BY <1>1, <1>3 DEF StartFits
<1> HIDE DEF t
<1>10. \A r \in Row : /\ row'[r].token = row[r].token
                      /\ row'[r].status = row[r].status
                      /\ row'[r].deleted = row[r].deleted
                      /\ row'[r].age = row[r].age
                      /\ r \in unpaid => row'[r].session = s
                      /\ r \notin unpaid => row'[r] = row[r]
  BY <1>1, <1>5 DEF RowRecord
<1>11. Local(t)
  BY <1>8, <1>10 DEF Local
<1>12. SessionsMild
  BY <1>6 DEF SessionsMild, Live
<1>13. Filed(s)'
  <2>1. ASSUME NEW r \in click[c].rows
        PROVE  HeldFor(s, r)' /\ row'[r].token = t /\ t \in Token
    <3>1. t \in Token /\ click[c].delay <= MaxDelay
      BY <1>1, <1>3 DEF ReqFits, t
    <3>2. r \in Row /\ row[r].age \in Nat /\ ses[s].age \in Nat
          /\ click[c].delay \in Nat
      BY <1>1, <1>2, Ages DEF CheckoutInv
    <3>3. row[r].age <= click[c].delay => row[r].age <= ses[s].age + MaxDelay
      BY <3>1, <3>2, CheckoutAssumption
    <3> QED BY <1>2, <1>6, <1>8, <1>10, <3>1, <3>2, <3>3 DEF HeldFor
  <2>2. \A q \in Row : row'[q].token = t =>
           q \in click[c].rows \/ row'[q].status = "paid"
    BY <1>9, <1>10
  <2> QED BY <1>2, <1>4, <1>6, <2>1, <2>2 DEF Filed
<1>14. \A q \in Session : ses'[q].status = "shown" =>
          Filed(q)' \/ (ses[q].status = "shown" /\ Untouched(q, t))
  <2> SUFFICES ASSUME NEW q \in Session, ses'[q].status = "shown", q # s
               PROVE  ses[q].status = "shown" /\ Untouched(q, t)
    BY <1>13
  <2>1. ses[q].status = "shown" /\ ses[q].rows \subseteq Row
    BY <1>6, Ages DEF CheckoutInv
  <2>2. \A r \in ses[q].rows : r \notin click[c].rows
    BY <1>1, <1>3, <2>1 DEF StartFits
  <2> QED BY <1>9, <1>10, <2>1, <2>2 DEF Untouched
<1>15. \A q \in Session, r \in Row :
          /\ row'[r].status = "unpaid"
          /\ HoldIsActive(row'[r])
          /\ row'[r].session = q
          /\ Live(q)'
          => \/ Filed(q)'
             \/ Live(q) /\ Filed(q) /\ Untouched(q, t)
             \/ Withdrawn(r)'
  <2> SUFFICES ASSUME NEW q \in Session, NEW r \in Row, q # s,
                      row'[r].status = "unpaid", HoldIsActive(row'[r]),
                      row'[r].session = q, Live(q)', ~Withdrawn(r)'
               PROVE  Live(q) /\ Filed(q) /\ Untouched(q, t)
    BY <1>13
  <2>6. ~Withdrawn(r)
    BY <1>1, <1>7 DEF Withdrawn
  <2>1. r \notin click[c].rows /\ row'[r] = row[r]
    BY <1>10
  <2>2. row[r].token # t
    BY <1>9, <2>1
  <2>3. Live(q) /\ Filed(q)
    BY <1>6, <2>1, <2>6 DEF PageInv, SessionsFiled
  <2>4. r \in ses[q].rows
    BY <2>1 DEF CheckoutInv, SessionsCoverTheirRows, Covers, Session, NoSession
  <2>5. \A p \in ses[q].rows : p \in Row /\ row[p].token # t
    BY <2>2, <2>3, <2>4, Ages DEF Filed, CheckoutInv
  <2> QED BY <1>11, <2>3, <2>5 DEF Untouched, Local
<1>16. SessionsFiled'
  BY <1>11, <1>12, <1>14, <1>15, LocalSessions DEF CheckoutInv, PageInv
<1>17. ASSUME NEW d \in Click, d # c
       PROVE  Fits(d)'
  <2>1. Running(d) => click[d].token # t
    BY <1>1, <1>17 DEF OneRequestPerLink, t
  <2>2. \A q \in Session : ses'[q].status = "shown" =>
          \/ ses[q].status = "shown"
          \/ \A r \in ses'[q].rows : row[r].token = t
    BY <1>4, <1>6, <1>8
  <2> QED
    BY <1>7, <1>11, <1>12, <1>17, <2>1, <2>2, LocalRequest
    DEF CheckoutInv, PageInv
<1>18. Fits(c)'
  <2>1. CASE click'[c] = Idle
    BY <2>1 DEF Fits, ReqFits, LookFits, StartFits, Running, Prepared, Idle
  <2>2. CASE click' = [click EXCEPT ![c].pc = "expire"] /\ UNCHANGED ses
    <3>1. /\ click'[c].token = t /\ click'[c].rows = click[c].rows
          /\ click'[c].prev = click[c].prev /\ click'[c].delay = click[c].delay
          /\ click'[c].pc = "expire"
      BY <1>1, <2>2 DEF ClickRecord, t
    <3>2. ReqFits(c)' /\ LookFits(c)'
      BY <1>1, <1>3, <3>1 DEF ReqFits, LookFits, Running, t
    <3>3. ASSUME NEW r \in click[c].rows, NEW q \in Session
          PROVE  /\ ses[q].status = "shown" => r \notin ses[q].rows
                 /\ /\ click[c].prev[r].status = "unpaid"
                    /\ click[c].prev[r].session = q
                    /\ Live(q)
                    => click[c].prev[r].age > Hold
      BY <1>1, <1>3 DEF StartFits
    <3>4. StartFits(c)'
      BY <1>1, <1>8, <1>9, <1>10, <2>2, <3>1, <3>3 DEF StartFits, Live
    <3> QED BY <3>2, <3>4 DEF Fits
  <2>3. click' = [click EXCEPT ![c] = Idle] => click'[c] = Idle
    BY <1>1
  <2> QED BY <2>1, <2>2, <2>3 DEF SaveSession
<1> QED BY <1>16, <1>17, <1>18 DEF PageInv

\* A row of the snapshot is written back: the session it names is over, or the
\* row's hold is.
LEMMA RestorePage ==
    ASSUME CheckoutInv, CheckoutInv', PageInv, HoldsOutlastPages,
           OneRequestPerLink, NEW c \in Click, Restore(c)
    PROVE  PageInv'
<1> DEFINE t == click[c].token
<1>1. /\ click[c].pc \in {"restore", "halfway"} /\ Prepared(c) /\ Running(c)
      /\ click \in [Click -> ClickRecord]
      /\ row \in [Row -> RowRecord] /\ click[c].rows \subseteq Row
      /\ UNCHANGED ses
  BY Ages DEF Restore, RestoreRow, Prepared, Running, CheckoutInv, TypeOK
<1>2. PICK q \in Row : RestoreRow(c, q)
  BY DEF Restore
<1>3. StartFits(c) /\ ReqFits(c)
  BY DEF PageInv, Fits
<1>4. \A r \in click[c].rows :
         /\ r \in Row /\ row[r].token = t
         /\ row[r].status \in {"paid", "unpaid"}
  BY <1>1, <1>3 DEF StartFits
<1>5. \A r \in Row : row[r].token = t =>
         \/ r \in click[c].rows
         \/ row[r].status = "paid"
         \/ Settled(r)
  BY <1>1, <1>3 DEF StartFits
<1>6. /\ q \in click[c].rows /\ row'[q] = PutBack(c, q)
      /\ \A r \in Row : r # q => row'[r] = row[r]
  BY <1>1, <1>2, <1>4 DEF RestoreRow, Exists
<1>7. \A d \in Click : d # c => click'[d] = click[d]
  BY <1>1, <1>2 DEF RestoreRow
<1>8. \/ click'[c] = Idle /\ click[c].rows = {q}
      \/ /\ click'[c].pc = "halfway" /\ click'[c].rows = click[c].rows \ {q}
         /\ click'[c].token = t /\ click'[c].prev = click[c].prev
         /\ click'[c].delay = click[c].delay
  BY <1>1, <1>2 DEF RestoreRow, ClickRecord
<1> HIDE DEF t
<1>9. /\ row'[q].status = click[c].prev[q].status
      /\ row'[q].session = click[c].prev[q].session
      /\ row'[q].token = t
      /\ click[c].prev[q].status = "unpaid" =>
           row'[q].age = Older(click[c].prev[q].age, click[c].delay)
  BY <1>4, <1>6, PutBackRow DEF CheckoutInv
<1>10. Local(t)
  BY <1>4, <1>6, <1>9 DEF Local
<1>11. SessionsMild
  BY <1>1, MildUnchanged
<1>12. Settled(q)'
  <2> SUFFICES ASSUME NEW s \in Session
               PROVE  /\ ses[s].status = "shown" => q \notin ses[s].rows
                      /\ row'[q].status = "unpaid" /\ row'[q].session = s /\ Live(s) =>
                            ~HoldIsActive(row'[q])
    BY <1>1 DEF Settled, Live
  <2>1. ses[s].status = "shown" => q \notin ses[s].rows
    BY <1>1, <1>3, <1>6 DEF StartFits
  <2>2. ASSUME row'[q].status = "unpaid", row'[q].session = s, Live(s)
        PROVE  ~HoldIsActive(row'[q])
    <3>1. click[c].prev[q].age > Hold
      BY <1>1, <1>3, <1>6, <1>9, <2>2 DEF StartFits
    <3>2. click[c].prev[q].age \in Nat /\ click[c].delay \in Nat /\ Hold \in Nat
      BY Ages, CheckoutAssumption DEF CheckoutInv
    <3>3. row'[q].age = Hold + 1
      BY <1>9, <2>2, <3>1, <3>2 DEF Older
    <3> QED BY <3>2, <3>3 DEF HoldIsActive
  <2> QED BY <2>1, <2>2
<1>13. \A s \in Session : ses'[s].status = "shown" =>
          ses[s].status = "shown" /\ Untouched(s, t)
  <2> SUFFICES ASSUME NEW s \in Session, ses[s].status = "shown"
               PROVE  Untouched(s, t)
    BY <1>1
  <2>1. ses[s].rows \subseteq Row /\ \A r \in ses[s].rows : r \notin click[c].rows
    BY <1>1, <1>3, Ages DEF StartFits, CheckoutInv
  <2>2. \A r \in ses[s].rows : ~Settled(r)
    BY DEF Settled
  <2> QED BY <1>5, <1>6, <2>1, <2>2 DEF Untouched
<1>14. ASSUME NEW s \in Session, NEW r \in Row, row'[r].status = "unpaid",
              HoldIsActive(row'[r]), row'[r].session = s, Live(s), ~Withdrawn(r)'
       PROVE  Filed(s) /\ Untouched(s, t)
  <2>1. r # q
    BY <1>1, <1>12, <1>14 DEF Settled, Live
  <2>2. row'[r] = row[r]
    BY <1>6, <2>1
  <2>3. r \notin click[c].rows
    BY <1>8, <1>14, <2>1 DEF Withdrawn
  <2>4. row[r].token # t
    BY <1>5, <1>14, <2>2, <2>3 DEF Settled
  <2>5. ~Withdrawn(r)
    BY <1>7, <1>14, <2>3 DEF Withdrawn
  <2>6. Filed(s)
    BY <1>14, <2>2, <2>5 DEF PageInv, SessionsFiled
  <2>7. r \in ses[s].rows
    BY <1>14, <2>2 DEF CheckoutInv, SessionsCoverTheirRows, Covers, Session,
                       NoSession
  <2>8. \A p \in ses[s].rows : p \in Row /\ row[p].token # t
    BY <2>4, <2>6, <2>7, Ages DEF Filed, CheckoutInv
  <2> QED BY <1>10, <2>6, <2>8 DEF Untouched, Local
<1>15. SessionsFiled'
  <2>1. \A s \in Session : Live(s)' => Live(s)
    BY <1>1 DEF Live
  <2> QED
    BY <1>10, <1>11, <1>13, <1>14, <2>1, LocalSessions DEF CheckoutInv, PageInv
<1>16. ASSUME NEW d \in Click, d # c
       PROVE  Fits(d)'
  <2>1. Running(d) => click[d].token # t
    BY <1>1, <1>16 DEF OneRequestPerLink, t
  <2> QED
    BY <1>1, <1>7, <1>10, <1>11, <1>16, <2>1, LocalRequest DEF CheckoutInv, PageInv
<1>17. Fits(c)'
  <2>1. CASE click'[c] = Idle
    BY <2>1 DEF Fits, ReqFits, LookFits, StartFits, Running, Prepared, Idle
  <2>2. CASE /\ click'[c].pc = "halfway" /\ click'[c].rows = click[c].rows \ {q}
             /\ click'[c].token = t /\ click'[c].prev = click[c].prev
             /\ click'[c].delay = click[c].delay
    <3>1. ReqFits(c)' /\ LookFits(c)'
      BY <1>1, <1>3, <2>2 DEF ReqFits, LookFits, Running, t
    <3>2. ASSUME NEW r \in click[c].rows \ {q}
          PROVE  /\ row'[r].token = t
                 /\ ~row'[r].deleted
                 /\ \/ row'[r].status = "paid"
                    \/ row'[r].status = "unpaid" /\ row'[r].age <= click[c].delay
                 /\ \A s \in Session :
                       /\ ses'[s].status = "shown" => r \notin ses'[s].rows
                       /\ /\ click[c].prev[r].status = "unpaid"
                          /\ click[c].prev[r].session = s
                          /\ Live(s)'
                          => click[c].prev[r].age > Hold
      <4>1. r \in click[c].rows /\ r \in Row /\ row'[r] = row[r]
        BY <1>1, <1>6
      <4> QED BY <1>1, <1>3, <4>1 DEF StartFits, Live, t
    <3>3. ASSUME NEW r \in Row, row'[r].token = t
          PROVE  \/ r \in click[c].rows \ {q}
                 \/ row'[r].status = "paid"
                 \/ Settled(r)'
      <4>1. CASE r = q
        BY <1>12, <4>1
      <4>2. CASE r # q
        <5>1. row'[r] = row[r]
          BY <1>6, <4>2
        <5>2. Settled(r) => Settled(r)'
          BY <1>1, <5>1 DEF Settled, Live
        <5> QED BY <1>5, <3>3, <4>2, <5>1, <5>2
      <4> QED BY <4>1, <4>2
    <3>4. StartFits(c)'
      BY <2>2, <3>2, <3>3 DEF StartFits
    <3> QED BY <3>1, <3>4 DEF Fits
  <2> QED BY <1>8, <2>1, <2>2
<1> QED BY <1>15, <1>16, <1>17 DEF PageInv

\* Rows, sessions and requests grow older together.
LEMMA TickPage ==
    ASSUME CheckoutInv, CheckoutInv', PageInv, HoldsOutlastPages, Tick
    PROVE  PageInv'
<1>1. ASSUME NEW r \in Row
      PROVE  /\ row'[r].token = row[r].token /\ row'[r].status = row[r].status
             /\ row'[r].deleted = row[r].deleted
             /\ row'[r].session = row[r].session
             /\ row'[r].age = row[r].age \/ row'[r].age = Older(row[r].age, 1)
             /\ row[r].age \in Nat
  BY Ages DEF Tick, CheckoutInv, TypeOK, RowRecord
<1>2. ASSUME NEW s \in Session
      PROVE  /\ ses'[s].rows = ses[s].rows /\ ses[s].age \in Nat
             /\ ses[s].status # "none" => ses'[s].status # "none"
             /\ ses'[s].status = "shown" => ses[s].status = "shown"
             /\ Live(s)' => /\ Live(s) /\ ses'[s].age = ses[s].age + 1
                            /\ ses'[s].age < Life
  BY Ages DEF Tick, CheckoutInv, TypeOK, SessionRecord, Live
<1>3. ASSUME NEW c \in Click
      PROVE  /\ click'[c].pc = click[c].pc /\ click'[c].token = click[c].token
             /\ click'[c].rows = click[c].rows /\ click'[c].prev = click[c].prev
             /\ click'[c].session = click[c].session
             /\ Running(c) => /\ click'[c].delay = Older(click[c].delay, 1)
                              /\ click[c].delay < MaxDelay
             /\ click[c].delay \in Nat /\ click[c].rows \subseteq Row
  <2>1. /\ click[c] \in ClickRecord
        /\ click[c].delay \in Nat /\ click[c].rows \subseteq Row
    BY Ages DEF CheckoutInv, TypeOK
  <2>2. CASE Running(c)
    <3>1. click'[c] = [click[c] EXCEPT !.delay = Older(@, 1)]
      BY <2>2 DEF Tick, Running
    <3>2. click[c].delay < MaxDelay
      BY <2>2 DEF Tick, Running
    <3> QED BY <2>1, <3>1, <3>2 DEF ClickRecord
  <2>3. CASE ~Running(c)
    BY <2>1, <2>3 DEF Tick, Running
  <2> QED BY <2>2, <2>3
<1>4. \A a \in Nat : /\ Older(a, 1) <= a + 1
                     /\ Older(a, 1) <= Hold => a <= Hold
                     /\ a < MaxDelay => Older(a, 1) = a + 1
  BY Durations, CheckoutAssumption DEF Older
<1>5. ASSUME NEW s \in Session, Filed(s), Live(s)'
      PROVE  Filed(s)'
  <2>1. ses[s].rows \subseteq Row
    BY Ages DEF CheckoutInv
  <2>2. ASSUME NEW r \in ses[s].rows
        PROVE  HeldFor(s, r)'
    <3>1. HeldFor(s, r) /\ r \in Row
      BY <1>5, <2>1 DEF Filed
    <3>2. row'[r].age <= row[r].age + 1
      BY <1>1, <1>4, <3>1
    <3>3. row'[r].age \in Nat /\ ses'[s].age = ses[s].age + 1
      BY <1>2, <1>5, <3>1, Ages DEF CheckoutInv, TypeOK, RowRecord, Age
    <3>4. row[r].age <= ses[s].age + MaxDelay => row'[r].age <= ses'[s].age + MaxDelay
      BY <1>1, <1>2, <3>1, <3>2, <3>3, CheckoutAssumption
    <3> QED BY <1>1, <3>1, <3>4 DEF HeldFor
  <2>3. \A r \in ses[s].rows, q \in Row :
           row'[r].status = "unpaid" /\ row'[q].token = row'[r].token =>
             q \in ses[s].rows \/ row'[q].status = "paid"
    BY <1>1, <1>5, <2>1 DEF Filed
  <2> QED BY <1>1, <1>2, <1>5, <2>1, <2>2, <2>3 DEF Filed
<1>6. SessionsFiled'
  <2>1. \A s \in Session : ses'[s].status = "shown" => Filed(s)'
    BY <1>2, <1>5 DEF PageInv, SessionsFiled, Live
  <2>2. ASSUME NEW s \in Session, NEW r \in Row, row'[r].status = "unpaid",
               HoldIsActive(row'[r]), row'[r].session = s, Live(s)'
        PROVE  Filed(s)' \/ Withdrawn(r)'
    <3>1. HoldIsActive(row[r])
      BY <1>1, <1>4, <2>2 DEF HoldIsActive
    <3>2. Withdrawn(r) => Withdrawn(r)'
      BY <1>3 DEF Withdrawn
    <3> QED BY <1>1, <1>2, <1>5, <2>2, <3>1, <3>2 DEF PageInv, SessionsFiled
  <2> QED BY <1>2, <2>1, <2>2 DEF SessionsFiled
<1>7. ASSUME NEW c \in Click
      PROVE  Fits(c)'
  <2>1. Fits(c)
    BY DEF PageInv
  <2>2. ReqFits(c)'
    BY <1>3, <1>4, <2>1, CheckoutAssumption DEF Fits, ReqFits, Running
  <2>3. LookFits(c)'
    <3> SUFFICES ASSUME click[c].pc \in {"look", "again"}
                 PROVE  LookFits(c)'
      BY <1>3 DEF LookFits
    <3>1. PICK s \in Session :
            /\ click[c].session = s
            /\ ses[s].status # "none"
            /\ \A r \in Row : row[r].token = click[c].token =>
                  \/ row[r].status = "paid"
                  \/ row[r].status = "unpaid" /\ row[r].session = s
            /\ click[c].pc = "again" => ~Live(s)
            /\ click[c].pc = "look" /\ Live(s) =>
                  /\ Filed(s)
                  /\ \A r \in ses[s].rows : row[r].token = click[c].token
      BY <2>1 DEF Fits, LookFits
    <3>2. ses[s].rows \subseteq Row
      BY Ages DEF CheckoutInv
    <3>3. click[c].pc = "look" /\ Live(s)' =>
             /\ Filed(s)'
             /\ \A r \in ses'[s].rows : row'[r].token = click[c].token
      BY <1>1, <1>2, <1>5, <3>1, <3>2
    <3> QED BY <1>1, <1>2, <1>3, <3>1, <3>3 DEF LookFits
  <2>4. StartFits(c)'
    <3> SUFFICES ASSUME Prepared(c)
                 PROVE  StartFits(c)'
      BY <1>3 DEF StartFits, Prepared
    <3>1. StartFits(c) /\ Running(c)
      BY <2>1 DEF Fits, Running, Prepared
    <3>2. ASSUME NEW r \in click[c].rows
          PROVE  /\ row'[r].token = click'[c].token
                 /\ ~row'[r].deleted
                 /\ \/ row'[r].status = "paid"
                    \/ row'[r].status = "unpaid" /\ row'[r].age <= click'[c].delay
      <4>1. r \in Row /\ row'[r].age <= row[r].age + 1
        BY <1>1, <1>3, <1>4
      <4>2. click'[c].delay = click[c].delay + 1
        BY <1>3, <1>4, <3>1
      <4>3. row'[r].age \in Nat
        BY <4>1, CheckoutAssumption DEF CheckoutInv, TypeOK, RowRecord, Age
      <4>4. row[r].age <= click[c].delay => row'[r].age <= click'[c].delay
        BY <1>1, <1>3, <4>1, <4>2, <4>3
      <4> QED BY <1>1, <1>3, <3>1, <4>1, <4>4 DEF StartFits
    <3>3. ASSUME NEW r \in click[c].rows, NEW s \in Session
          PROVE  /\ ses'[s].status = "shown" => r \notin ses'[s].rows
                 /\ /\ click[c].prev[r].status = "unpaid"
                    /\ click[c].prev[r].session = s
                    /\ Live(s)'
                    => click[c].prev[r].age > Hold
      BY <1>2, <3>1 DEF StartFits
    <3>4. ASSUME NEW r \in Row, row'[r].token = click'[c].token,
                 r \notin click'[c].rows, row'[r].status # "paid"
          PROVE  click'[c].pc = "halfway" /\ Settled(r)'
      <4>1. click[c].pc = "halfway" /\ Settled(r)
        BY <1>1, <1>3, <3>1, <3>4 DEF StartFits
      <4>2. row'[r].status = "unpaid" /\ HoldIsActive(row'[r]) =>
              /\ row[r].status = "unpaid" /\ HoldIsActive(row[r])
              /\ row'[r].session = row[r].session
        BY <1>1, <1>4 DEF HoldIsActive
      <4> QED BY <1>2, <1>3, <4>1, <4>2, SettledStays DEF CheckoutInv
    <3>5. click'[c].pc = "save" =>
             \A s \in Session : click'[c].session = s =>
               ses'[s].status # "none" /\ ses'[s].rows = click'[c].rows
      BY <1>2, <1>3, <3>1 DEF StartFits
    <3> QED BY <1>3, <3>2, <3>3, <3>4, <3>5 DEF StartFits
  <2> QED BY <2>2, <2>3, <2>4 DEF Fits
<1> QED BY <1>6, <1>7 DEF PageInv

LEMMA NextPage ==
    ASSUME CheckoutInv, CheckoutInv', PageInv, HoldsOutlastPages,
           OneRequestPerLink, OneRequestPerLink', Next,
           \A c \in Click : ~CutShort(c)
    PROVE  PageInv'
<1>1. CASE \/ \E r \in Row : SaveVisitorReservation(r)
           \/ \E people \in SUBSET Person : SaveTrialReservations(people)
  BY <1>1, RequestPage
<1>2. CASE \E c \in Click, t \in Token : Begin(c, t)
  BY <1>2, BeginPage
<1>5. ASSUME NEW c \in Click, Crash(c)
      PROVE  PageInv'
  <2>1. click'[c] = Idle
    BY <1>5 DEF Crash, CheckoutInv, TypeOK
  <2>2. CASE Whole(c)
    BY <1>5, <2>2, CrashPage
  <2>3. CASE ~Whole(c)
    BY <1>5, <2>1, <2>3, RestorePage DEF CutShort, Whole
  <2> QED BY <2>2, <2>3
<1>3. CASE \E c \in Click :
              \/ ReusableCheckoutUrl(c) \/ PrepareAgain(c) \/ OpenNewCheckout(c)
              \/ SaveSession(c) \/ ExpireSession(c) \/ Restore(c) \/ Crash(c)
  BY <1>3, <1>5, LookPage, AgainPage, OpenPage, SavePage, ExpirePage, RestorePage
<1>4. CASE \/ \E s \in Session : Pay(s) \/ Webhook(s) \/ LoseWebhook(s)
           \/ \E r \in Row : ReconcileReservation(r)
           \/ Tick
  BY <1>4, StripePage, WebhookPage, ReconcilePage, TickPage
<1> QED BY <1>1, <1>2, <1>3, <1>4 DEF Next

LEMMA UnchangedPage ==
    ASSUME PageInv, UNCHANGED vars
    PROVE  PageInv'
<1>1. \A s : (Filed(s)' <=> Filed(s)) /\ (Live(s)' <=> Live(s))
  BY DEF vars, Filed, HeldFor, Live
<1>2. SessionsFiled'
  BY <1>1 DEF PageInv, SessionsFiled, Withdrawn, vars
<1>3. \A c \in Click : Fits(c)'
  <2>1. \A r : Settled(r)' <=> Settled(r)
    BY <1>1 DEF Settled, vars
  <2> QED BY <1>1, <2>1 DEF PageInv, Fits, ReqFits, LookFits, StartFits, Running,
                            Prepared, vars
<1> QED BY <1>2, <1>3 DEF PageInv

\* The clean-up of a start for several reservations is not cut short when it
\* has put back some of them.
CleanUpsEnd == [][\A c \in Click : ~CutShort(c)]_vars

\* It is inductive for any number of links, requests, sessions and rows, as
\* long as the requests of one link do not overlap and clean-ups end.
THEOREM PageInvariant ==
    ASSUME HoldsOutlastPages
    PROVE  Spec /\ []OneRequestPerLink /\ CleanUpsEnd => []PageInv
<1>1. Init => PageInv
  BY InitPage
<1>2. /\ CheckoutInv /\ CheckoutInv' /\ PageInv
      /\ OneRequestPerLink /\ OneRequestPerLink' /\ [Next]_vars
      /\ [\A c \in Click : ~CutShort(c)]_vars
      => PageInv'
  BY NextPage, UnchangedPage
<1> QED
  BY <1>1, <1>2, CheckoutInvariant, PTL DEF Spec, CleanUpsEnd

\* Where the requests of one link do not overlap, clean-ups end, and a request
\* takes no longer than holds outlast Checkout Sessions, a page that can be paid
\* is recorded on all its reservations that are not paid.
THEOREM PagesAreRecorded ==
    ASSUME HoldsOutlastPages
    PROVE  Spec /\ []OneRequestPerLink /\ CleanUpsEnd => []PayableIsRecorded
<1>1. CheckoutInv /\ PageInv => PayableIsRecorded
  <2> SUFFICES ASSUME CheckoutInv, PageInv, NEW s \in Session,
                      ses[s].status = "shown", NEW r \in ses[s].rows
               PROVE  \/ row[r].status = "paid"
                      \/ /\ row[r].status = "unpaid"
                         /\ row[r].session = s
                         /\ HoldsSpot(row[r])
    BY DEF PayableIsRecorded
  <2>1. Live(s) /\ Filed(s)
    BY DEF PageInv, SessionsFiled, Live
  <2>2. Held(r) /\ HeldFor(s, r)
    BY <2>1, FiledHeld DEF CheckoutInv, PageInv, Filed
  <2> QED BY <2>2 DEF Held, HeldFor, HoldsSpot
<1> QED
  BY <1>1, PageInvariant, CheckoutInvariant, PTL

\* Under the same conditions the clean-up of a failed start puts back no place
\* that was given away: the lesson passes its limit by late payments alone.
THEOREM LatePaymentsAloneOverfill ==
    ASSUME HoldsOutlastPages
    PROVE  Spec /\ []OneRequestPerLink /\ CleanUpsEnd => OverfullOnlyByLatePayment
<1> DEFINE Step == \/ SpotsTaken(row)' \subseteq SpotsTaken(row)
                   \/ Cardinality(SpotsTaken(row)') <= Limit
                   \/ \E r \in Row : LatePayment(r)
<1>1. CheckoutInv /\ PageInv /\ [Next]_vars => [Step]_vars
  <2> SUFFICES ASSUME CheckoutInv, PageInv, Next,
                      \A r \in Row : ~LatePayment(r),
                      ~(Cardinality(SpotsTaken(row)') <= Limit)
               PROVE  SpotsTaken(row)' \subseteq SpotsTaken(row)
    OBVIOUS
  <2>1. CASE Uncounted
    BY <2>1 DEF Uncounted, TakesPlaceByRight, SpotsTaken
  <2>2. ASSUME NEW c \in Click, Restore(c)
        PROVE  SpotsTaken(row)' \subseteq SpotsTaken(row)
    <3>1. \A r \in Row : row'[r] = row[r] \/ (Prepared(c) /\ r \in click[c].rows)
      BY <2>2, RestoreWrites DEF CheckoutInv, RestoreRow, Prepared
    <3>2. \A r \in click[c].rows : Prepared(c) => HoldsSpot(row[r])
      BY PreparedHeld DEF CheckoutInv, PageInv, PaidNotDeleted, Held, HoldsSpot
    <3> QED BY <3>1, <3>2 DEF SpotsTaken
  <2> QED BY <2>1, <2>2, NextByRight DEF Counted
<1> QED
  BY <1>1, PageInvariant, CheckoutInvariant, PTL DEF Spec, OverfullOnlyByLatePayment
=============================================================================
