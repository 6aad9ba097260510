---------------------- MODULE SubscriptionBillingProofs ----------------------
(***************************************************************************)
(* Proofs about the billing of a subscription: its types, and in which ways*)
(* a member comes to be asked twice for a cycle.                           *)
(***************************************************************************)
EXTENDS SubscriptionBilling, FiniteSetTheorems, TLAPS

-----------------------------------------------------------------------------
(* The inductive invariant.                                                *)

\* A task works on a row that is linked, and a row that will be half is linked.
Linked ==
    /\ Locked => row.link \in Sub
    /\ half # Idle /\ half.hook[1] = "paid" => half.row \in RowRecord /\ half.row.link \in Sub

\* The club's own invoices are in cash and no task takes them.
CashIsOurs ==
    \A i \in DOMAIN invoice :
        i[1] = NoSub => invoice[i].method = "cash" /\ invoice[i].moving = "none"

\* Nothing is billed before its cycle, or by a subscription that is not there yet.
BilledInTime ==
    /\ \A b \in Bill : bill[b] # "none" =>
          b[2] <= cycle /\ stripe[b[1]] \notin {"none", "session"}
    /\ \A i \in DOMAIN invoice : i[2] <= cycle

\* What the club knows of Stripe's invoices is about some that exist.
KnownExist ==
    /\ \A i \in DOMAIN invoice : i \in Bill => bill[i] # "none"
    /\ \A s \in Sub, c \in Cycle :
          /\ <<"created", s, c>> \in hooks => bill[<<s, c>>] # "none" /\ c = cycle
          /\ <<"paid", s, c>> \in hooks => bill[<<s, c>>] # "none"
    /\ \A b \in told : bill[b] # "none" /\ (~late => b[2] < row.due)

\* So is a delivery that is half-way, and no later cycle was told of since.
HalfKnown ==
    half # Idle =>
        \A s \in Sub, c \in Cycle :
            /\ half.hook = <<"created", s, c>> =>
                  bill[<<s, c>>] # "none" /\ \A b \in told : b[2] <= c
            /\ half.hook = <<"paid", s, c>> => bill[<<s, c>>] # "none"

\* When the task has listed what there is, that is void or paid, or open and on its list.
LookedAt ==
    Locked /\ task.pc = "rest" =>
        \A i \in Unpaid : i[1] = task.link =>
            bill[i] \in {"void", "paid"} \/ (bill[i] = "open" /\ i[2] \in task.rest)

BillingInv ==
    TypeOK /\ Linked /\ CashIsOurs /\ BilledInTime /\ KnownExist /\ HalfKnown /\ LookedAt

-----------------------------------------------------------------------------
(* What the actions write.                                                 *)

\* The table of the club's invoices.
IsTable(t) ==
    /\ DOMAIN t \subseteq (Sub \cup {NoSub}) \X Cycle
    /\ \A i \in DOMAIN t : t[i] \in InvoiceRecord

\* One invoice of a table is written, if it is there.
LEMMA WritingOne ==
    ASSUME NEW t, IsTable(t), NEW i, NEW v, i \in DOMAIN t => v \in InvoiceRecord
    PROVE  IsTable([t EXCEPT ![i] = v])
BY DEF IsTable

\* A copy of an invoice of Stripe's is made unless there is one.
LEMMA CopiedIs ==
    ASSUME IsTable(invoice), NEW b \in Bill
    PROVE  /\ IsTable(Copied(b))
           /\ DOMAIN Copied(b) = DOMAIN invoice \cup {b}
           /\ \A i \in DOMAIN invoice : Copied(b)[i] = invoice[i]
           /\ b \notin DOMAIN invoice => Copied(b)[b] = NewInvoice("stripe")
BY DEF IsTable, Copied, Put, NewInvoice, InvoiceRecord, Bill

\* Invoices are turned to cash.
LEMMA InCashIs ==
    ASSUME IsTable(invoice), NEW ids
    PROVE  /\ IsTable(InCash(ids))
           /\ DOMAIN InCash(ids) = DOMAIN invoice
           /\ \A i \in DOMAIN invoice :
                /\ i \in ids => InCash(ids)[i] = [invoice[i] EXCEPT !.method = "cash"]
                /\ i \notin ids => InCash(ids)[i] = invoice[i]
BY DEF IsTable, InCash, InvoiceRecord

\* The types, variable by variable.
TypedRow == row \in RowRecord /\ plans \in BOOLEAN
TypedStripe ==
    /\ stripe \in [Sub -> {"none", "session", "active", "ending", "canceled"}]
    /\ bill \in [Bill -> {"none", "draft", "open", "paid", "void"}]
TypedHooks == hooks \subseteq HookId
TypedWork ==
    /\ half = Idle \/ half \in HalfRecord
    /\ task = Idle \/ task \in TaskRecord
TypedRest ==
    /\ cycle \in 0..MaxCycle /\ crashes \in 0..MaxCrash
    /\ told \subseteq Bill /\ late \in BOOLEAN

\* The types are those of the parts.
LEMMA TypedParts ==
    /\ TypeOK <=> TypedRow /\ TypedStripe /\ TypedHooks /\ TypedWork /\ TypedRest /\ IsTable(invoice)
    /\ TypeOK' <=> TypedRow' /\ TypedStripe' /\ TypedHooks' /\ TypedWork' /\ TypedRest' /\ IsTable(invoice')
BY DEF TypeOK, TypedRow, TypedStripe, TypedHooks, TypedWork, TypedRest, IsTable

\* The row keeps its type: what is half or linked to is a row, or a subscription.
LEMMA RowTyped ==
    ASSUME TypeOK, Linked, CashIsOurs, Next
    PROVE  TypedRow'
PROOF
<1>1. CASE \/ \E b \in Bill : Finalize(b) \/ PayBill(b) \/ FailBill(b) \/ HookPaid(b)
                              \/ HookFailed(b) \/ ReadCreated(b)
           \/ \E s \in Sub : CancelOutside(s) \/ AskMigration(s) \/ PaySession(s)
                             \/ ReadDeleted(s) \/ ReadMigrated(s)
           \/ \E h \in hooks : LoseHook(h)
           \/ \E i \in DOMAIN invoice : MarkPaid(i) \/ TakeInvoice(i)
           \/ Anchor \/ VoidTrigger \/ ListRest \/ VoidRest \/ CancelAtStripe \/ Crash
           \/ DeliveryFails
  <2>1. UNCHANGED <<row, plans>>
    BY <1>1 DEF Anchor, Finalize, PayBill, FailBill, HookPaid, Deliver, HookFailed,
          CancelOutside, Canceled, AskMigration, PaySession, LoseHook, MarkPaid,
          TakeInvoice, VoidTrigger, Step, ListRest, VoidRest, CancelAtStripe, Crash,
          ReadCreated, ReadDeleted, ReadMigrated, Read, DeliveryFails
  <2>2. QED BY <2>1 DEF TypedRow, TypeOK, RowRecord, Cycle, Bill, Linked
<1>2. CASE \/ \E b \in Bill : HookCreated(b)
  <2>1. PICK b \in Bill : HookCreated(b)
    BY <1>2
  <2>2. row' = [row EXCEPT !.due = b[2] + 1] /\ plans' = plans /\ b[2] \in 1..MaxCycle
    BY <2>1 DEF HookCreated, Bill, Cycle
  <2>3. QED BY <2>2, BillingAssumption DEF TypedRow, TypeOK, RowRecord
<1>3. CASE \/ \E s \in Sub : HookDeleted(s) \/ HookMigrated(s)
           \/ FindCanceled \/ FindExpired \/ ReconcileCanceled
  <2>1. plans' = plans /\ (row' = row \/ \E s \in Sub \cup {NoSub} :
          \/ row' = [row EXCEPT !.method = "cash", !.link = s, !.ending = FALSE]
          \/ row' = [row EXCEPT !.status = "canceled", !.link = s, !.ending = FALSE]
          \/ row' = [row EXCEPT !.link = s, !.ending = FALSE, !.status = "active"]
          \/ row' = [row EXCEPT !.link = s, !.method = "stripe"])
    BY <1>3 DEF HookDeleted, GoOnInCash, GiveUp, HookMigrated, FindCanceled, FindExpired,
          ReconcileCanceled
  <2>2. QED BY <2>1 DEF TypedRow, TypeOK, RowRecord
<1>4. CASE \/ CancelLastPlan \/ ResumePlan \/ AddPlan
  BY <1>4, BillingAssumption DEF TypedRow, TypeOK, RowRecord, Cycle, Bill, Linked,
        CancelLastPlan, SetPlans, ResumePlan, AddPlan
<1>5. CASE \/ CreateCycleInvoice
  BY <1>5, BillingAssumption DEF TypedRow, TypeOK, RowRecord, Cycle, Bill, Linked,
        CreateCycleInvoice
<1>6. CASE \/ CommitCash \/ FinishTransition
  BY <1>6, BillingAssumption DEF TypedRow, TypeOK, RowRecord, Cycle, Bill, Linked,
        CommitCash, FinishTransition
<1>7. CASE \/ SaveRow
  BY <1>7, BillingAssumption DEF TypedRow, TypeOK, RowRecord, Cycle, Bill, Linked,
        SaveRow
<1>8. QED BY <1>1, <1>2, <1>3, <1>4, <1>5, <1>6, <1>7 DEF Next, Convert

\* So do Stripe's subscriptions and invoices; the task that changes some is linked.
LEMMA StripeTyped ==
    ASSUME TypeOK, Linked, CashIsOurs, Next
    PROVE  TypedStripe'
PROOF
<1>1. CASE \/ \E b \in Bill : FailBill(b) \/ HookCreated(b) \/ HookPaid(b)
                              \/ HookFailed(b) \/ ReadCreated(b)
           \/ \E s \in Sub : HookDeleted(s) \/ HookMigrated(s)
                             \/ ReadDeleted(s) \/ ReadMigrated(s)
           \/ \E h \in hooks : LoseHook(h)
           \/ \E i \in DOMAIN invoice : MarkPaid(i) \/ TakeInvoice(i)
           \/ CreateCycleInvoice \/ FindCanceled \/ FindExpired \/ CommitCash
           \/ FinishTransition \/ Crash \/ SaveRow \/ ListRest \/ ReconcileCanceled
           \/ DeliveryFails
  <2>1. UNCHANGED <<stripe, bill>>
    BY <1>1 DEF FailBill, HookCreated, Deliver, HookPaid, HookFailed, HookDeleted,
          GoOnInCash, GiveUp, HookMigrated, LoseHook, MarkPaid, TakeInvoice,
          CreateCycleInvoice, FindCanceled, FindExpired, CommitCash, FinishTransition,
          Crash, SaveRow, ReadCreated, ReadDeleted, ReadMigrated, Read, ListRest,
          ReconcileCanceled, DeliveryFails
  <2>2. QED BY <2>1 DEF TypedStripe, TypeOK, Running, Bill
<1>2. CASE \/ \E b \in Bill : Finalize(b) \/ PayBill(b)
           \/ \E s \in Sub : CancelOutside(s) \/ AskMigration(s) \/ PaySession(s)
           \/ Anchor \/ CancelLastPlan \/ ResumePlan \/ AddPlan \/ VoidTrigger
           \/ CancelAtStripe
  BY <1>2 DEF TypedStripe, TypeOK, Running, Bill, Anchor, Finalize, PayBill,
        CancelOutside, Canceled, AskMigration, PaySession, CancelLastPlan, SetPlans,
        ResumePlan, AddPlan, VoidTrigger, Step, CancelAtStripe
<1>3. CASE VoidRest
  <2>1. PICK x, v : bill' = [bill EXCEPT ![x] = v] /\ v \in {"void", bill[x]}
    BY <1>3 DEF VoidRest
  <2>2. stripe' = stripe
    BY <1>3 DEF VoidRest
  <2>3. QED BY <2>1, <2>2 DEF TypedStripe, TypeOK
<1>4. QED BY <1>1, <1>2, <1>3 DEF Next, Convert

\* So do the events.
LEMMA HooksTyped ==
    ASSUME TypeOK, Linked, CashIsOurs, Next
    PROVE  TypedHooks'
PROOF
<1>1. CASE \/ \E b \in Bill : Finalize(b)
           \/ \E s \in Sub : AskMigration(s)
           \/ \E i \in DOMAIN invoice : MarkPaid(i) \/ TakeInvoice(i)
           \/ CancelLastPlan \/ ResumePlan \/ AddPlan \/ CreateCycleInvoice
           \/ FindCanceled \/ FindExpired \/ VoidTrigger \/ VoidRest \/ CommitCash
           \/ FinishTransition \/ Crash \/ SaveRow \/ ListRest \/ ReconcileCanceled
  <2>1. UNCHANGED hooks
    BY <1>1 DEF Finalize, AskMigration, CancelLastPlan, SetPlans, ResumePlan, AddPlan,
          MarkPaid, TakeInvoice, CreateCycleInvoice, FindCanceled, GoOnInCash,
          FindExpired, GiveUp, VoidTrigger, Step, VoidRest, CommitCash, FinishTransition,
          Crash, SaveRow, ListRest, ReconcileCanceled
  <2>2. QED BY <2>1 DEF TypedHooks, TypeOK, Bill, Cycle
<1>2. CASE \/ \E b \in Bill : PayBill(b) \/ FailBill(b)
           \/ \E s \in Sub : CancelOutside(s) \/ PaySession(s)
           \/ CancelAtStripe
  <2>1. \E k \in {"paid", "failed", "deleted", "migrated"}, s \in Sub, c \in 0..MaxCycle :
          hooks' \in {hooks, hooks \cup {<<k, s, c>>}}
    <3>1. 0 \in 0..MaxCycle /\ \A b \in Bill : b[1] \in Sub /\ b[2] \in 0..MaxCycle
      BY BillingAssumption DEF Bill, Cycle
    <3>2. CASE CancelAtStripe
      <4>1. Running(task.link) => task.link \in Sub
        BY <3>2 DEF CancelAtStripe, TypeOK, TaskRecord, Locked
      <4>2. QED BY <3>1, <3>2, <4>1, BillingAssumption DEF CancelAtStripe, Canceled, Locked, TypeOK, TaskRecord
    <3>3. QED BY <1>2, <3>1, <3>2 DEF PayBill, FailBill, CancelOutside, Canceled, PaySession
  <2>2. QED BY <2>1 DEF TypedHooks, TypeOK, HookId
<1>3. CASE \/ Anchor
  <2>1. cycle + 1 \in 0..MaxCycle
    BY <1>3 DEF Anchor, Cycle
  <2>2. hooks' \subseteq hooks
          \cup {<<"created", s, cycle + 1>> : s \in Sub} \cup {<<"deleted", s, 0>> : s \in Sub}
    BY <1>3 DEF Anchor
  <2>3. 0 \in 0..MaxCycle
    BY BillingAssumption
  <2>4. QED BY <2>1, <2>2, <2>3 DEF TypedHooks, TypeOK, HookId
<1>4. CASE \/ \E b \in Bill : ReadCreated(b) \/ HookCreated(b) \/ HookPaid(b) \/ HookFailed(b)
           \/ \E s \in Sub : ReadDeleted(s) \/ HookDeleted(s) \/ ReadMigrated(s)
                             \/ HookMigrated(s)
           \/ \E h \in hooks : LoseHook(h)
  <2>1. hooks' \subseteq hooks
    BY <1>4 DEF ReadCreated, HookCreated, Read, Deliver, HookPaid, HookFailed, ReadDeleted,
          HookDeleted, ReadMigrated, HookMigrated, LoseHook
  <2>2. QED BY <2>1 DEF TypedHooks, TypeOK
<1>5. CASE DeliveryFails
  BY <1>5 DEF TypedHooks, TypeOK, DeliveryFails, HalfRecord
<1>6. QED BY <1>1, <1>2, <1>3, <1>4, <1>5 DEF Next, Convert

\* So do the delivery that is half-way and the task: what a task takes is Stripe's.
LEMMA WorkTyped ==
    ASSUME TypeOK, Linked, CashIsOurs, Next
    PROVE  TypedWork'
PROOF
<1>1. CASE \/ \E b \in Bill : Finalize(b) \/ PayBill(b) \/ FailBill(b) \/ HookFailed(b)
           \/ \E s \in Sub : CancelOutside(s) \/ AskMigration(s) \/ PaySession(s)
           \/ \E h \in hooks : LoseHook(h)
           \/ \E i \in DOMAIN invoice : MarkPaid(i)
           \/ Anchor \/ CancelLastPlan \/ ResumePlan \/ AddPlan \/ CreateCycleInvoice
           \/ FindCanceled \/ FindExpired
  <2>1. UNCHANGED <<half, task>>
    BY <1>1 DEF Anchor, Finalize, PayBill, FailBill, Deliver, HookFailed, CancelOutside,
          Canceled, AskMigration, PaySession, GoOnInCash, GiveUp, LoseHook,
          CancelLastPlan, SetPlans, ResumePlan, AddPlan, MarkPaid, CreateCycleInvoice,
          FindCanceled, FindExpired
  <2>2. QED BY <2>1 DEF TypedWork, TypeOK, Locked, TaskRecord, CashIsOurs, Linked, Unpaid, Bill
<1>2. CASE \/ VoidTrigger \/ ListRest \/ VoidRest \/ CommitCash \/ CancelAtStripe
  <2>1. task \in TaskRecord /\ row.link \in Sub /\ half' = half
    BY <1>2 DEF TypeOK, Linked, Locked, VoidTrigger, ListRest, VoidRest, CommitCash,
          Committing, CancelAtStripe
  <2>2. \/ task' = Idle
        \/ \E pc \in {"list", "finish"} : task' = [task EXCEPT !.pc = pc]
        \/ task' = [task EXCEPT !.pc = "cancel", !.link = row.link]
        \/ \E r \in SUBSET Cycle : task' = [task EXCEPT !.pc = "rest", !.link = row.link, !.rest = r]
        \/ \E c : task' = [task EXCEPT !.rest = task.rest \ {c}]
    <3>1. {c \in Cycle : bill[<<row.link, c>>] = "open"} \in SUBSET Cycle
      OBVIOUS
    <3>2. CASE VoidTrigger \/ CommitCash \/ CancelAtStripe
      BY <3>2 DEF VoidTrigger, Step, CommitCash, CancelAtStripe
    <3>3. CASE ListRest
      BY <3>1, <3>3 DEF ListRest
    <3>4. CASE VoidRest
      BY <3>4 DEF VoidRest
    <3>5. QED BY <1>2, <3>2, <3>3, <3>4
  <2>3. task' = Idle \/ task' \in TaskRecord
    BY <2>1, <2>2 DEF TaskRecord
  <2>4. QED BY <2>1, <2>3 DEF TypedWork, TypeOK
<1>3. CASE \/ \E b \in Bill : ReadCreated(b) \/ HookCreated(b) \/ HookPaid(b)
           \/ \E s \in Sub : ReadDeleted(s) \/ HookDeleted(s) \/ ReadMigrated(s)
                             \/ HookMigrated(s)
           \/ SaveRow \/ ReconcileCanceled \/ DeliveryFails
  <2>1. task' = task /\ (\/ half' \in {half, Idle}
                         \/ half # Idle /\ half' = [half EXCEPT !.ended = TRUE]
                         \/ \E h \in hooks, r \in {row, Idle} :
                               half' = [hook |-> h, row |-> r, ended |-> FALSE])
    <3>1. CASE \/ \E b \in Bill : ReadCreated(b) \/ HookPaid(b)
      BY <3>1 DEF ReadCreated, HookPaid, Read, Deliver
    <3>2. CASE \E s \in Sub : ReadDeleted(s)
      BY <3>2 DEF ReadDeleted, Read, Deliver
    <3>3. CASE \E s \in Sub : ReadMigrated(s)
      BY <3>3 DEF ReadMigrated, Read, Deliver
    <3>4. CASE \/ \E b \in Bill : HookCreated(b)
               \/ \E s \in Sub : HookDeleted(s) \/ HookMigrated(s)
               \/ SaveRow \/ ReconcileCanceled \/ DeliveryFails
      BY <3>4 DEF HookCreated, HookDeleted, HookMigrated, HalfWay, SaveRow,
            ReconcileCanceled, DeliveryFails
    <3>5. QED BY <1>3, <3>1, <3>2, <3>3, <3>4
  <2>2. \/ half' = Idle
        \/ half \in HalfRecord /\ (half' = half \/ half' = [half EXCEPT !.ended = TRUE])
        \/ \E h \in HookId, r \in RowRecord \cup {Idle} :
              half' = [hook |-> h, row |-> r, ended |-> FALSE]
    BY <2>1 DEF TypeOK
  <2>3. half' = Idle \/ half' \in HalfRecord
    <3>1. ASSUME half \in HalfRecord PROVE [half EXCEPT !.ended = TRUE] \in HalfRecord
      BY <3>1 DEF HalfRecord
    <3>2. ASSUME NEW h \in HookId, NEW r \in RowRecord \cup {Idle}
          PROVE  [hook |-> h, row |-> r, ended |-> FALSE] \in HalfRecord
      BY DEF HalfRecord
    <3>3. QED BY <2>2, <3>1, <3>2
  <2>4. QED BY <2>1, <2>3 DEF TypedWork, TypeOK
<1>4. CASE \/ \E i \in DOMAIN invoice : TakeInvoice(i)
  BY <1>4, BillingAssumption DEF TypedWork, TypeOK, Locked, TaskRecord, CashIsOurs,
        Linked, Unpaid, Bill, TakeInvoice
<1>5. CASE \/ FinishTransition \/ Crash
  BY <1>5, BillingAssumption DEF TypedWork, TypeOK, Locked, TaskRecord, CashIsOurs,
        Linked, Unpaid, Bill, Crash, FinishTransition
<1>6. QED BY <1>1, <1>2, <1>3, <1>4, <1>5 DEF Next, Convert

\* So do the counters and the history.
LEMMA RestTyped ==
    ASSUME TypeOK, Linked, CashIsOurs, Next
    PROVE  TypedRest'
PROOF
<1>1. CASE \/ \E b \in Bill : Finalize(b) \/ PayBill(b) \/ FailBill(b) \/ HookPaid(b)
                              \/ HookFailed(b) \/ ReadCreated(b)
           \/ \E s \in Sub : CancelOutside(s) \/ AskMigration(s) \/ PaySession(s)
                             \/ HookDeleted(s) \/ HookMigrated(s)
                             \/ ReadDeleted(s) \/ ReadMigrated(s)
           \/ \E h \in hooks : LoseHook(h)
           \/ \E i \in DOMAIN invoice : MarkPaid(i) \/ TakeInvoice(i)
           \/ CancelLastPlan \/ ResumePlan \/ AddPlan \/ CreateCycleInvoice
           \/ FindCanceled \/ FindExpired \/ VoidTrigger \/ VoidRest \/ CommitCash
           \/ CancelAtStripe \/ FinishTransition \/ ListRest \/ ReconcileCanceled
           \/ DeliveryFails
  <2>1. UNCHANGED <<cycle, crashes, told, late>>
    BY <1>1 DEF Finalize, PayBill, FailBill, HookPaid, Deliver, HookFailed,
          CancelOutside, Canceled, AskMigration, PaySession, HookDeleted, GoOnInCash,
          GiveUp, HookMigrated, LoseHook, CancelLastPlan, SetPlans, ResumePlan, AddPlan,
          MarkPaid, TakeInvoice, CreateCycleInvoice, FindCanceled, FindExpired,
          VoidTrigger, Step, VoidRest, CommitCash, CancelAtStripe, FinishTransition,
          ReadCreated, ReadDeleted, ReadMigrated, Read, ListRest, ReconcileCanceled,
          DeliveryFails
  <2>2. QED BY <2>1 DEF TypedRest, TypeOK, Cycle, Locked
<1>2. CASE \/ Anchor \/ Crash
  <2>1. cycle' \in 0..MaxCycle /\ crashes' \in 0..MaxCrash
    BY <1>2, BillingAssumption DEF Anchor, Crash, TypeOK, Cycle
  <2>2. UNCHANGED <<told, late>>
    BY <1>2 DEF Anchor, Crash
  <2>3. QED BY <2>1, <2>2 DEF TypedRest, TypeOK
<1>3. CASE \/ \E b \in Bill : HookCreated(b)
  BY <1>3 DEF TypedRest, TypeOK, Cycle, Locked, HookCreated, Deliver
<1>4. CASE \/ SaveRow
  BY <1>4 DEF TypedRest, TypeOK, Cycle, Locked, SaveRow
<1>5. QED BY <1>1, <1>2, <1>3, <1>4 DEF Next, Convert

\* So does the club's table of invoices.
LEMMA TableTyped ==
    ASSUME TypeOK, Linked, CashIsOurs, Next
    PROVE  IsTable(invoice)'
PROOF
<1>1. CASE \/ \E b \in Bill : Finalize(b) \/ PayBill(b) \/ FailBill(b) \/ ReadCreated(b)
           \/ \E s \in Sub : CancelOutside(s) \/ AskMigration(s) \/ PaySession(s)
                             \/ ReadDeleted(s) \/ HookDeleted(s)
                             \/ ReadMigrated(s) \/ HookMigrated(s)
           \/ \E h \in hooks : LoseHook(h)
           \/ Anchor \/ CancelLastPlan \/ ResumePlan \/ AddPlan \/ FindExpired
           \/ VoidTrigger \/ ListRest \/ VoidRest \/ CancelAtStripe \/ Crash \/ SaveRow
           \/ DeliveryFails
  <2>1. UNCHANGED invoice
    BY <1>1 DEF Anchor, Finalize, PayBill, FailBill, CancelOutside, Canceled,
          AskMigration, PaySession, HookMigrated, Deliver, LoseHook, CancelLastPlan,
          SetPlans, ResumePlan, AddPlan, FindExpired, GiveUp, VoidTrigger, Step,
          ListRest, VoidRest, CancelAtStripe, Crash, SaveRow, ReadCreated, ReadDeleted,
          HookDeleted, ReadMigrated, Read, DeliveryFails
  <2>2. QED BY <2>1 DEF IsTable, TypeOK
<1>2. IsTable(invoice)
  BY DEF TypeOK, IsTable
<1>3. ASSUME NEW b \in Bill, HookCreated(b) PROVE IsTable(invoice)'
  BY <1>2, <1>3, CopiedIs DEF HookCreated
<1>4. ASSUME NEW b \in Bill, HookPaid(b) PROVE IsTable(invoice)'
  <2>1. b \in DOMAIN Copied(b) /\ IsTable(Copied(b))
    BY <1>2, CopiedIs
  <2>2. [Copied(b)[b] EXCEPT !.status = "charged"] \in InvoiceRecord
    BY <2>1 DEF IsTable, InvoiceRecord
  <2>3. invoice' = [Copied(b) EXCEPT ![b] = [Copied(b)[b] EXCEPT !.status = "charged"]]
    BY <1>4 DEF HookPaid
  <2>4. QED BY <2>1, <2>2, <2>3, WritingOne
<1>5. ASSUME \/ \E b \in Bill : HookFailed(b)
             \/ \E i \in DOMAIN invoice : MarkPaid(i) \/ TakeInvoice(i)
             \/ FinishTransition
      PROVE  IsTable(invoice)'
  <2>1. invoice' = invoice \/ \E i :
          \/ invoice' = [invoice EXCEPT ![i] = [invoice[i] EXCEPT !.failed = TRUE]]
          \/ invoice' = [invoice EXCEPT ![i] = [invoice[i] EXCEPT !.status = "cashed"]]
          \/ invoice' = [invoice EXCEPT ![i] = [invoice[i] EXCEPT !.moving = "started"]]
          \/ invoice' = [invoice EXCEPT ![i] = [invoice[i] EXCEPT !.moving = "succeeded"]]
    BY <1>5 DEF HookFailed, MarkPaid, TakeInvoice, FinishTransition
  <2>2. \A i \in DOMAIN invoice :
          /\ [invoice[i] EXCEPT !.failed = TRUE] \in InvoiceRecord
          /\ [invoice[i] EXCEPT !.status = "cashed"] \in InvoiceRecord
          /\ [invoice[i] EXCEPT !.moving = "started"] \in InvoiceRecord
          /\ [invoice[i] EXCEPT !.moving = "succeeded"] \in InvoiceRecord
    BY <1>2 DEF IsTable, InvoiceRecord
  <2>3. invoice' = invoice \/ \E i, v : (i \in DOMAIN invoice => v \in InvoiceRecord)
                                        /\ invoice' = [invoice EXCEPT ![i] = v]
    BY <2>1, <2>2
  <2>4. QED BY <1>2, <2>3, WritingOne
<1>6. ASSUME FindCanceled \/ ReconcileCanceled \/ CommitCash
      PROVE  IsTable(invoice)'
  <2>1. invoice' = invoice \/ \E ids : invoice' = InCash(ids)
    BY <1>6 DEF ReconcileCanceled, GoOnInCash, FindCanceled, CommitCash
  <2>2. QED BY <1>2, <2>1, InCashIs
<1>7. ASSUME CreateCycleInvoice PROVE IsTable(invoice)'
  <2>1. invoice' = Put(invoice, <<NoSub, row.due>>, NewInvoice("cash")) /\ row.due \in Cycle
    BY <1>7, BillingAssumption DEF CreateCycleInvoice, TypeOK, RowRecord, Cycle
  <2>2. NewInvoice("cash") \in InvoiceRecord
    BY DEF NewInvoice, InvoiceRecord
  <2>3. QED BY <1>2, <2>1, <2>2 DEF IsTable, Put
<1>8. QED BY <1>1, <1>3, <1>4, <1>5, <1>6, <1>7 DEF Next, Convert

\* All of them together.
LEMMA TypeStep ==
    ASSUME TypeOK, Linked, CashIsOurs, Next
    PROVE  TypeOK'
BY RowTyped, StripeTyped, HooksTyped, WorkTyped, RestTyped, TableTyped, TypedParts

-----------------------------------------------------------------------------
(* How the state moves in a step.                                          *)

\* What an anchor does, invoice by invoice and subscription by subscription.
LEMMA AnchorIs ==
    ASSUME BillingInv, Anchor
    PROVE  /\ cycle' = cycle + 1 /\ cycle' \in Cycle
           /\ \A b \in Bill : bill'[b] = IF stripe[b[1]] = "active" /\ b[2] = cycle'
                                         THEN "draft" ELSE bill[b]
           /\ \A s \in Sub : stripe'[s] = CASE stripe[s] = "ending" -> "canceled"
                                            [] stripe[s] = "session" -> "none"
                                            [] OTHER -> stripe[s]
           /\ \A s \in Sub, c \in Cycle :
                /\ <<"created", s, c>> \in hooks' => stripe[s] = "active" /\ c = cycle'
                /\ <<"paid", s, c>> \in hooks' => <<"paid", s, c>> \in hooks
PROOF
<1>1. cycle' = cycle + 1 /\ cycle' \in Cycle
  BY DEF Anchor
<1>2. \A b \in Bill : bill'[b] = IF stripe[b[1]] = "active" /\ b[2] = cycle'
                                 THEN "draft" ELSE bill[b]
  BY DEF Anchor, Bill
<1>3. \A s \in Sub : stripe'[s] = CASE stripe[s] = "ending" -> "canceled"
                                    [] stripe[s] = "session" -> "none"
                                    [] OTHER -> stripe[s]
  BY DEF Anchor
<1>4. ASSUME NEW s \in Sub, NEW c \in Cycle
      PROVE  /\ <<"created", s, c>> \in hooks' => stripe[s] = "active" /\ c = cycle'
             /\ <<"paid", s, c>> \in hooks' => <<"paid", s, c>> \in hooks
  BY DEF Anchor
<1>5. QED BY <1>1, <1>2, <1>3, <1>4

\* The task voids the newest invoice on its list, if it is open still.
LEMMA VoidRestIs ==
    ASSUME BillingInv, VoidRest
    PROVE  \E c \in task.rest :
              /\ c \in Cycle /\ task' = [task EXCEPT !.rest = task.rest \ {c}]
              /\ \A b \in Bill : bill'[b] = IF b = <<task.link, c>> /\ bill[b] = "open"
                                            THEN "void" ELSE bill[b]
PROOF
<1>1. PICK c \in task.rest :
        /\ bill' = [bill EXCEPT ![<<task.link, c>>] = IF @ = "open" THEN "void" ELSE @]
        /\ task' = [task EXCEPT !.rest = task.rest \ {c}]
  BY DEF VoidRest
<1>2. c \in Cycle
  BY DEF BillingInv, TypeOK, VoidRest, Locked, TaskRecord
<1>3. \A b \in Bill : bill'[b] = IF b = <<task.link, c>> /\ bill[b] = "open"
                                THEN "void" ELSE bill[b]
  BY <1>1 DEF BillingInv, TypeOK
<1>4. QED BY <1>1, <1>2, <1>3

\* The invoice that failed is voided, if it is open still.
LEMMA VoidTriggerIs ==
    ASSUME BillingInv, VoidTrigger
    PROVE  /\ \/ task' = Idle
              \/ task' = [task EXCEPT !.pc = "list"]
           /\ \A b \in Bill : \/ bill'[b] = bill[b]
                              \/ b = task.id /\ bill[b] = "open" /\ bill'[b] = "void"
BY DEF VoidTrigger, Step, BillingInv, TypeOK

\* How an invoice moves at Stripe.
BillMove(b) ==
    \/ bill'[b] = bill[b]
    \/ /\ Anchor /\ b[2] = cycle' /\ stripe[b[1]] = "active"
       /\ bill[b] = "none" /\ bill'[b] = "draft"
    \/ bill[b] = "draft" /\ bill'[b] = "open" /\ Running(b[1])
    \/ bill[b] = "open" /\ bill'[b] = "paid"
    \/ bill[b] = "open" /\ bill'[b] = "void" /\ (VoidTrigger \/ VoidRest)

\* Every step moves it like that.
LEMMA BillMoves ==
    ASSUME BillingInv, Next, NEW b \in Bill
    PROVE  BillMove(b)
PROOF
<1>1. CASE \/ \E a \in Bill : FailBill(a) \/ HookCreated(a) \/ HookPaid(a)
                              \/ HookFailed(a) \/ ReadCreated(a)
           \/ \E s \in Sub : CancelOutside(s) \/ AskMigration(s) \/ PaySession(s)
                             \/ HookDeleted(s) \/ HookMigrated(s)
                             \/ ReadDeleted(s) \/ ReadMigrated(s)
           \/ \E h \in hooks : LoseHook(h)
           \/ \E i \in DOMAIN invoice : MarkPaid(i) \/ TakeInvoice(i)
           \/ CancelLastPlan \/ ResumePlan \/ AddPlan \/ CreateCycleInvoice
           \/ FindCanceled \/ FindExpired \/ CommitCash \/ CancelAtStripe
           \/ FinishTransition \/ Crash \/ SaveRow \/ ListRest \/ ReconcileCanceled
           \/ DeliveryFails
  <2>1. UNCHANGED bill
    BY <1>1 DEF FailBill, HookCreated, Deliver, HookPaid, HookFailed, CancelOutside,
          Canceled, AskMigration, PaySession, HookDeleted, GoOnInCash, GiveUp,
          HookMigrated, LoseHook, CancelLastPlan, SetPlans, ResumePlan, AddPlan,
          MarkPaid, TakeInvoice, CreateCycleInvoice, FindCanceled, FindExpired,
          CommitCash, CancelAtStripe, Step, FinishTransition, Crash, SaveRow,
          ReadCreated, ReadDeleted, ReadMigrated, Read, ListRest, ReconcileCanceled,
          DeliveryFails
  <2>2. QED BY <2>1 DEF BillMove
<1>2. CASE Anchor
  <2>1. stripe[b[1]] = "active" /\ b[2] = cycle' => bill[b] = "none"
    BY <1>2, AnchorIs DEF BillingInv, BilledInTime, TypeOK, Bill, Cycle
  <2>2. QED BY <1>2, <2>1, AnchorIs DEF BillMove
<1>3. CASE \E a \in Bill : Finalize(a) \/ PayBill(a)
  BY <1>3 DEF Finalize, PayBill, BillMove, Running, BillingInv, TypeOK
<1>4. CASE VoidTrigger
  BY <1>4, VoidTriggerIs DEF BillMove
<1>5. CASE VoidRest
  BY <1>5, VoidRestIs DEF BillMove
<1>6. QED BY <1>1, <1>2, <1>3, <1>4, <1>5 DEF Next, Convert

\* How a subscription moves at Stripe: once it runs, it never comes to be again.
StripeMove(s) ==
    /\ stripe'[s] \in {"none", "session"} => stripe[s] \in {"none", "session"}
    /\ Running(s)' => Running(s) \/ stripe[s] = "session"

\* Every step moves it like that.
LEMMA StripeMoves ==
    ASSUME BillingInv, Next, NEW s \in Sub
    PROVE  StripeMove(s)
PROOF
<1>1. CASE \/ \E b \in Bill : Finalize(b) \/ PayBill(b) \/ FailBill(b) \/ HookCreated(b)
                              \/ HookPaid(b) \/ HookFailed(b) \/ ReadCreated(b)
           \/ \E t \in Sub : HookDeleted(t) \/ HookMigrated(t)
                             \/ ReadDeleted(t) \/ ReadMigrated(t)
           \/ \E h \in hooks : LoseHook(h)
           \/ \E i \in DOMAIN invoice : MarkPaid(i) \/ TakeInvoice(i)
           \/ CreateCycleInvoice \/ FindCanceled \/ FindExpired \/ VoidTrigger
           \/ VoidRest \/ CommitCash \/ FinishTransition \/ Crash \/ SaveRow
           \/ ListRest \/ ReconcileCanceled \/ DeliveryFails
  <2>1. UNCHANGED stripe
    BY <1>1 DEF Finalize, PayBill, FailBill, HookCreated, Deliver, HookPaid, HookFailed,
          HookDeleted, GoOnInCash, GiveUp, HookMigrated, LoseHook, MarkPaid, TakeInvoice,
          CreateCycleInvoice, FindCanceled, FindExpired, VoidTrigger, Step, VoidRest,
          CommitCash, FinishTransition, Crash, SaveRow, ReadCreated, ReadDeleted,
          ReadMigrated, Read, ListRest, ReconcileCanceled, DeliveryFails
  <2>2. QED BY <2>1 DEF StripeMove, Running
<1>2. CASE Anchor
  BY <1>2, AnchorIs DEF StripeMove, Running, BillingInv, TypeOK
<1>3. CASE \/ \E t \in Sub : CancelOutside(t) \/ AskMigration(t) \/ PaySession(t)
           \/ CancelLastPlan \/ ResumePlan \/ AddPlan \/ CancelAtStripe
  BY <1>3 DEF StripeMove, Running, BillingInv, TypeOK, CancelOutside, Canceled,
        AskMigration, PaySession, CancelLastPlan, SetPlans, ResumePlan, AddPlan,
        CancelAtStripe
<1>4. QED BY <1>1, <1>2, <1>3 DEF Next, Convert

\* The cycle goes on, or stays.
LEMMA CycleMoves ==
    ASSUME BillingInv, Next
    PROVE  cycle' = cycle \/ (Anchor /\ cycle' = cycle + 1)
PROOF
<1>1. CASE \/ \E b \in Bill : Finalize(b) \/ PayBill(b) \/ FailBill(b) \/ HookCreated(b)
                              \/ HookPaid(b) \/ HookFailed(b) \/ ReadCreated(b)
           \/ \E s \in Sub : CancelOutside(s) \/ AskMigration(s) \/ PaySession(s)
                             \/ HookDeleted(s) \/ HookMigrated(s)
                             \/ ReadDeleted(s) \/ ReadMigrated(s)
           \/ \E h \in hooks : LoseHook(h)
           \/ \E i \in DOMAIN invoice : MarkPaid(i) \/ TakeInvoice(i)
           \/ CancelLastPlan \/ ResumePlan \/ AddPlan \/ CreateCycleInvoice
           \/ FindCanceled \/ FindExpired \/ VoidTrigger \/ VoidRest \/ CommitCash
           \/ CancelAtStripe \/ FinishTransition \/ Crash \/ SaveRow
           \/ ListRest \/ ReconcileCanceled \/ DeliveryFails
  <2>1. cycle' = cycle
    BY <1>1 DEF Finalize, PayBill, FailBill, HookCreated, Deliver, HookPaid, HookFailed,
          CancelOutside, Canceled, AskMigration, PaySession, HookDeleted, GoOnInCash,
          GiveUp, HookMigrated, LoseHook, CancelLastPlan, SetPlans, ResumePlan, AddPlan,
          MarkPaid, TakeInvoice, CreateCycleInvoice, FindCanceled, FindExpired,
          VoidTrigger, Step, VoidRest, CommitCash, CancelAtStripe, FinishTransition,
          Crash, SaveRow, ReadCreated, ReadDeleted, ReadMigrated, Read, ListRest,
          ReconcileCanceled, DeliveryFails
  <2>2. QED BY <2>1
<1>2. CASE Anchor
  BY <1>2, AnchorIs
<1>3. QED BY <1>1, <1>2 DEF Next, Convert

\* Events about invoices come from invoices, and those about drafts stay for a cycle.
HookMove(s, c) ==
    /\ <<"created", s, c>> \in hooks' =>
          \/ <<"created", s, c>> \in hooks /\ cycle' = cycle
          \/ bill'[<<s, c>>] = "draft" /\ c = cycle'
          \/ HalfWay(<<"created", s, c>>) /\ c = cycle /\ cycle' = cycle
    /\ <<"paid", s, c>> \in hooks' =>
          \/ <<"paid", s, c>> \in hooks \/ bill'[<<s, c>>] = "paid"
          \/ HalfWay(<<"paid", s, c>>)

\* Every step leaves it like that.
LEMMA HookMoves ==
    ASSUME BillingInv, Next, NEW s \in Sub, NEW c \in Cycle
    PROVE  HookMove(s, c)
PROOF
<1>1. CASE \/ \E b \in Bill : Finalize(b)
           \/ \E t \in Sub : AskMigration(t)
           \/ \E i \in DOMAIN invoice : MarkPaid(i) \/ TakeInvoice(i)
           \/ CancelLastPlan \/ ResumePlan \/ AddPlan \/ CreateCycleInvoice
           \/ FindCanceled \/ FindExpired \/ VoidTrigger \/ VoidRest \/ CommitCash
           \/ FinishTransition \/ Crash \/ SaveRow \/ ListRest \/ ReconcileCanceled
  <2>1. UNCHANGED <<cycle, hooks>>
    BY <1>1 DEF Finalize, AskMigration, CancelLastPlan, SetPlans, ResumePlan, AddPlan,
          MarkPaid, TakeInvoice, CreateCycleInvoice, FindCanceled, GoOnInCash,
          FindExpired, GiveUp, VoidTrigger, Step, VoidRest, CommitCash, FinishTransition,
          Crash, SaveRow, ListRest, ReconcileCanceled
  <2>2. QED BY <2>1 DEF HookMove
<1>2. CASE Anchor
  <2>1. <<s, c>> \in Bill /\ <<s, c>>[1] = s /\ <<s, c>>[2] = c
    BY DEF Bill
  <2>2. QED BY <1>2, <2>1, AnchorIs DEF HookMove
<1>3. ASSUME NEW b \in Bill, PayBill(b) PROVE HookMove(s, c)
  <2>1. cycle' = cycle /\ bill'[b] = "paid" /\ hooks' = hooks \cup {<<"paid", b[1], b[2]>>}
    BY <1>3 DEF PayBill, BillingInv, TypeOK
  <2>2. b = <<s, c>> <=> b[1] = s /\ b[2] = c
    BY DEF Bill
  <2>3. QED BY <2>1, <2>2 DEF HookMove
<1>4. ASSUME \/ \E b \in Bill : FailBill(b) \/ ReadCreated(b) \/ HookCreated(b) \/ HookPaid(b)
                                \/ HookFailed(b)
             \/ \E t \in Sub : CancelOutside(t) \/ PaySession(t) \/ HookDeleted(t)
                               \/ HookMigrated(t) \/ ReadDeleted(t) \/ ReadMigrated(t)
             \/ \E h \in hooks : LoseHook(h)
             \/ CancelAtStripe
      PROVE  HookMove(s, c)
  <2>1. cycle' = cycle /\ \E k \in {"failed", "deleted", "migrated"} : \E t, d :
          hooks' \subseteq hooks \cup {<<k, t, d>>}
    BY <1>4 DEF FailBill, HookCreated, Deliver, HookPaid, HookFailed, CancelOutside,
          Canceled, PaySession, HookDeleted, HookMigrated, LoseHook, CancelAtStripe,
          ReadCreated, ReadDeleted, ReadMigrated, Read
  <2>2. QED BY <2>1 DEF HookMove
<1>5. CASE DeliveryFails
  <2>1. cycle' = cycle /\ half # Idle
        /\ hooks' = IF half.hook[1] = "created" /\ half.hook[3] # cycle THEN hooks
                    ELSE hooks \cup {half.hook}
    BY <1>5 DEF DeliveryFails
  <2>2. <<"created", s, c>>[1] = "created" /\ <<"created", s, c>>[3] = c
    OBVIOUS
  <2>3. QED BY <2>1, <2>2 DEF HookMove, HalfWay
<1>6. QED BY <1>1, <1>2, <1>3, <1>4, <1>5 DEF Next, Convert

\* A delivery that is half-way stays what it was when it read the row, and meanwhile
\* the club is told of nothing else.
HalfMove ==
    \/ half' = Idle
    \/ /\ told' = told /\ half # Idle /\ half' # Idle
       /\ half'.hook = half.hook /\ half'.row = half.row
    \/ /\ told' = told
       /\ \E h \in hooks, r \in {row, Idle} :
             /\ half' = [hook |-> h, row |-> r, ended |-> FALSE]
             /\ h[1] = "paid" => r = row /\ row.link \in Sub

\* Every step leaves it like that.
LEMMA HalfMoves ==
    ASSUME TypeOK, Next
    PROVE  HalfMove
PROOF
<1>1. CASE \/ \E b \in Bill : Finalize(b) \/ PayBill(b) \/ FailBill(b) \/ HookFailed(b)
           \/ \E s \in Sub : CancelOutside(s) \/ AskMigration(s) \/ PaySession(s)
           \/ \E h \in hooks : LoseHook(h)
           \/ \E i \in DOMAIN invoice : MarkPaid(i) \/ TakeInvoice(i)
           \/ Anchor \/ CancelLastPlan \/ ResumePlan \/ AddPlan \/ CreateCycleInvoice
           \/ FindCanceled \/ FindExpired \/ VoidTrigger \/ ListRest \/ VoidRest
           \/ CommitCash \/ CancelAtStripe \/ FinishTransition \/ Crash
  <2>1. UNCHANGED <<half, told>>
    BY <1>1 DEF Anchor, Finalize, PayBill, FailBill, HookFailed, CancelOutside,
          AskMigration, PaySession, LoseHook, CancelLastPlan, SetPlans, ResumePlan,
          AddPlan, MarkPaid, TakeInvoice, CreateCycleInvoice, FindCanceled, FindExpired,
          VoidTrigger, ListRest, VoidRest, CommitCash, CancelAtStripe, FinishTransition,
          Crash
  <2>2. QED BY <2>1 DEF HalfMove
<1>2. CASE \/ \E b \in Bill : HookCreated(b)
           \/ \E s \in Sub : HookMigrated(s)
           \/ SaveRow \/ ReconcileCanceled \/ DeliveryFails
  BY <1>2 DEF HookCreated, HookMigrated, SaveRow, ReconcileCanceled, DeliveryFails, HalfMove
<1>3. ASSUME NEW s \in Sub, HookDeleted(s) PROVE HalfMove
  <2>1. half \in HalfRecord /\ told' = told
    BY <1>3 DEF HookDeleted, HalfWay, TypeOK
  <2>2. half' = Idle \/ half' = [half EXCEPT !.ended = TRUE]
    BY <1>3 DEF HookDeleted
  <2>3. QED BY <1>3, <2>1, <2>2 DEF HalfMove, HalfRecord, HookDeleted, HalfWay, Idle
<1>4. ASSUME NEW b \in Bill, ReadCreated(b) \/ HookPaid(b) PROVE HalfMove
  <2>1. told' = told /\ row.link \in Sub
    BY <1>4 DEF ReadCreated, HookPaid, Bill
  <2>2. QED BY <1>4, <2>1 DEF HalfMove, ReadCreated, HookPaid, Read, Deliver
<1>5. ASSUME NEW s \in Sub, ReadDeleted(s) \/ ReadMigrated(s) PROVE HalfMove
  <2>1. told' = told
    BY <1>5 DEF ReadDeleted, ReadMigrated
  <2>2. \/ half' = half
        \/ \E h \in hooks : h[1] # "paid" /\ half' = [hook |-> h, row |-> Idle, ended |-> FALSE]
    BY <1>5 DEF ReadDeleted, ReadMigrated, Read, Deliver
  <2>3. QED BY <2>1, <2>2 DEF HalfMove
<1>6. QED BY <1>1, <1>2, <1>3, <1>4, <1>5 DEF Next, Convert

\* What the club was told is in the past of the row, until an outdated row is half.
ToldMove(b) ==
    \/ b \in told /\ (~late' => ~late /\ row'.due >= row.due)
    \/ bill[b] # "none" /\ b[2] < row'.due

\* Every step leaves it like that.
LEMMA ToldMoves ==
    ASSUME BillingInv, Next, NEW b \in told'
    PROVE  ToldMove(b)
PROOF
<1>t. TypeOK /\ row.due \in Int
  BY DEF BillingInv, TypeOK, RowRecord
<1>1. CASE \/ \E a \in Bill : Finalize(a) \/ PayBill(a) \/ FailBill(a) \/ HookPaid(a)
                              \/ HookFailed(a) \/ ReadCreated(a)
           \/ \E s \in Sub : CancelOutside(s) \/ AskMigration(s) \/ PaySession(s)
                             \/ ReadDeleted(s) \/ ReadMigrated(s)
           \/ \E h \in hooks : LoseHook(h)
           \/ \E i \in DOMAIN invoice : MarkPaid(i) \/ TakeInvoice(i)
           \/ Anchor \/ VoidTrigger \/ ListRest \/ VoidRest \/ CancelAtStripe \/ Crash
           \/ DeliveryFails
  <2>1. UNCHANGED <<told, late, row>>
    BY <1>1 DEF Anchor, Finalize, PayBill, FailBill, HookPaid, Deliver, HookFailed,
          CancelOutside, Canceled, AskMigration, PaySession, LoseHook, MarkPaid,
          TakeInvoice, VoidTrigger, Step, ListRest, VoidRest, CancelAtStripe, Crash,
          ReadCreated, ReadDeleted, ReadMigrated, Read, DeliveryFails
  <2>2. QED BY <1>t, <2>1 DEF ToldMove
<1>2. ASSUME NEW a \in Bill, HookCreated(a) PROVE ToldMove(b)
  <2>1. half # Idle /\ half.hook = <<"created", a[1], a[2]>>
        /\ row' = [row EXCEPT !.due = a[2] + 1] /\ told' = told \cup {a}
    BY <1>2 DEF HookCreated, HalfWay
  <2>2. a[1] \in Sub /\ a[2] \in Cycle /\ a[2] \in Int /\ a = <<a[1], a[2]>>
    BY DEF Bill, Cycle
  <2>3. bill[a] # "none" /\ \A d \in told : d[2] <= a[2]
    BY <2>1, <2>2 DEF BillingInv, HalfKnown
  <2>4. row'.due = a[2] + 1
    BY <1>t, <2>1 DEF TypeOK, RowRecord
  <2>5. b \in told => bill[b] # "none" /\ b[2] \in Int
    BY <1>t DEF BillingInv, KnownExist, TypeOK, Bill, Cycle
  <2>6. QED BY <2>1, <2>2, <2>3, <2>4, <2>5 DEF ToldMove
<1>3. ASSUME SaveRow PROVE ToldMove(b)
  <2>1. told' = told /\ (~late' => ~late /\ row = half.row)
        /\ row' = [half.row EXCEPT !.status = "active"]
    BY <1>3 DEF SaveRow
  <2>2. row = half.row => row'.due = row.due
    BY <1>t, <2>1 DEF TypeOK, RowRecord
  <2>3. QED BY <1>t, <2>1, <2>2 DEF ToldMove
<1>4. ASSUME CreateCycleInvoice PROVE ToldMove(b)
  <2>1. told' = told /\ late' = late /\ row'.due = row.due + 1
    BY <1>t, <1>4 DEF CreateCycleInvoice, TypeOK, RowRecord
  <2>2. QED BY <1>t, <2>1 DEF ToldMove
<1>5. ASSUME \/ \E s \in Sub : HookDeleted(s) \/ HookMigrated(s)
             \/ CancelLastPlan \/ ResumePlan \/ AddPlan \/ FindCanceled \/ FindExpired
             \/ CommitCash \/ FinishTransition \/ ReconcileCanceled
      PROVE  ToldMove(b)
  <2>1. told' = told /\ late' = late /\ row'.due = row.due
    BY <1>t, <1>5 DEF HookDeleted, HookMigrated, GoOnInCash, GiveUp, CancelLastPlan, SetPlans,
          ResumePlan, AddPlan, FindCanceled, FindExpired, CommitCash, FinishTransition,
          ReconcileCanceled, TypeOK, RowRecord
  <2>2. QED BY <1>t, <2>1 DEF ToldMove
<1>6. QED BY <1>1, <1>2, <1>3, <1>4, <1>5 DEF Next, Convert

\* A task voids what it has listed, and nobody else writes what it keeps.
LEMMA TaskMoves ==
    ASSUME BillingInv, Next, Locked', task'.pc = "rest"
    PROVE  Locked /\ (ListRest \/ VoidRest \/ task' = task)
PROOF
<1>t. TypeOK /\ (task = Idle \/ task \in TaskRecord)
  BY DEF BillingInv, TypeOK
<1>1. CASE \/ \E b \in Bill : Finalize(b) \/ PayBill(b) \/ FailBill(b) \/ HookCreated(b)
                              \/ HookPaid(b) \/ HookFailed(b) \/ ReadCreated(b)
           \/ \E s \in Sub : CancelOutside(s) \/ AskMigration(s) \/ PaySession(s)
                             \/ HookDeleted(s) \/ HookMigrated(s)
                             \/ ReadDeleted(s) \/ ReadMigrated(s)
           \/ \E h \in hooks : LoseHook(h)
           \/ \E i \in DOMAIN invoice : MarkPaid(i)
           \/ Anchor \/ CancelLastPlan \/ ResumePlan \/ AddPlan \/ CreateCycleInvoice
           \/ FindCanceled \/ FindExpired \/ SaveRow \/ ReconcileCanceled \/ DeliveryFails
  <2>1. task' = task
    BY <1>1 DEF Anchor, Finalize, PayBill, FailBill, HookCreated, Deliver, HookPaid,
          HookFailed, CancelOutside, Canceled, AskMigration, PaySession, HookDeleted,
          GoOnInCash, GiveUp, HookMigrated, LoseHook, CancelLastPlan, SetPlans,
          ResumePlan, AddPlan, MarkPaid, CreateCycleInvoice, FindCanceled, FindExpired,
          SaveRow, ReadCreated, ReadDeleted, ReadMigrated, Read, ReconcileCanceled,
          DeliveryFails
  <2>2. QED BY <2>1 DEF Locked
<1>2. CASE ListRest \/ VoidRest
  BY <1>2 DEF ListRest, VoidRest
<1>3. CASE \/ \E i \in DOMAIN invoice : TakeInvoice(i)
           \/ FinishTransition \/ Crash
  BY <1>3 DEF TakeInvoice, FinishTransition, Crash, Locked, Idle
<1>4. CASE VoidTrigger \/ CommitCash \/ CancelAtStripe
  <2>1. task \in TaskRecord
    BY <1>t, <1>4 DEF VoidTrigger, CommitCash, Committing, CancelAtStripe, Locked
  <2>2. \/ task' = Idle
        \/ task' = [task EXCEPT !.pc = "list"]
        \/ task' = [task EXCEPT !.pc = "cancel", !.link = row.link]
        \/ task' = [task EXCEPT !.pc = "finish"]
    BY <1>4 DEF VoidTrigger, Step, CommitCash, CancelAtStripe
  <2>3. QED BY <2>1, <2>2 DEF Locked, TaskRecord
<1>5. QED BY <1>1, <1>2, <1>3, <1>4 DEF Next, Convert

\* How the club's table of invoices moves: none is open again, its own ones stay what
\* they are, and a copy is of an invoice that exists.
InvoiceMove(i) ==
    \/ /\ i \in DOMAIN invoice
       /\ invoice'[i].status = "open" => invoice[i].status = "open"
       /\ i[1] = NoSub => invoice'[i].method = "cash" /\ invoice'[i].moving = "none"
    \/ /\ i = <<NoSub, row.due>> /\ row.due <= cycle
       /\ invoice'[i] = NewInvoice("cash")
    \/ /\ i \in Bill /\ bill[i] # "none" /\ i[2] <= cycle
       /\ invoice'[i].status = "open" => ~Locked

\* Every step moves it like that.
LEMMA InvoiceMoves ==
    ASSUME BillingInv, Next, NEW i \in DOMAIN invoice'
    PROVE  InvoiceMove(i)
PROOF
<1>t. IsTable(invoice) /\ TypeOK /\ CashIsOurs
  BY DEF BillingInv, TypeOK, IsTable
<1>1. CASE \/ \E b \in Bill : Finalize(b) \/ PayBill(b) \/ FailBill(b) \/ ReadCreated(b)
           \/ \E s \in Sub : CancelOutside(s) \/ AskMigration(s) \/ PaySession(s)
                             \/ ReadDeleted(s) \/ HookDeleted(s)
                             \/ ReadMigrated(s) \/ HookMigrated(s)
           \/ \E h \in hooks : LoseHook(h)
           \/ Anchor \/ CancelLastPlan \/ ResumePlan \/ AddPlan \/ FindExpired
           \/ VoidTrigger \/ ListRest \/ VoidRest \/ CancelAtStripe \/ Crash \/ SaveRow
           \/ DeliveryFails
  <2>1. UNCHANGED invoice
    BY <1>1 DEF Anchor, Finalize, PayBill, FailBill, CancelOutside, Canceled,
          AskMigration, PaySession, HookMigrated, Deliver, LoseHook, CancelLastPlan,
          SetPlans, ResumePlan, AddPlan, FindExpired, GiveUp, VoidTrigger, Step,
          ListRest, VoidRest, CancelAtStripe, Crash, SaveRow, ReadCreated, ReadDeleted,
          HookDeleted, ReadMigrated, Read, DeliveryFails
  <2>2. QED BY <1>t, <2>1 DEF InvoiceMove, CashIsOurs
<1>2. ASSUME NEW b \in Bill, HookCreated(b) \/ HookPaid(b) PROVE InvoiceMove(i)
  <2>1. b = <<b[1], b[2]>> /\ b[1] \in Sub /\ b[2] \in Cycle
    BY DEF Bill
  <2>2. HalfWay(<<"created", b[1], b[2]>>) \/ <<"paid", b[1], b[2]>> \in hooks
    BY <1>2 DEF HookCreated, HookPaid, Read, Deliver
  <2>3. bill[b] # "none" /\ b[2] <= cycle
    BY <2>1, <2>2 DEF BillingInv, KnownExist, HalfKnown, HalfWay, BilledInTime
  <2>4. b[1] # NoSub
    BY <2>1, BillingAssumption
  <2>5. \/ invoice' = Copied(b) /\ ~Locked
        \/ invoice' = [Copied(b) EXCEPT ![b] = [Copied(b)[b] EXCEPT !.status = "charged"]]
    BY <1>2 DEF HookCreated, HookPaid
  <2>6. DOMAIN invoice' = DOMAIN invoice \cup {b}
    BY <1>t, <2>5, CopiedIs
  <2>7. CASE i # b
    <3>1. i \in DOMAIN invoice /\ invoice'[i] = invoice[i]
      BY <1>t, <2>5, <2>6, <2>7, CopiedIs
    <3>2. QED BY <1>t, <3>1 DEF InvoiceMove, CashIsOurs
  <2>8. CASE i = b
    <3>1. invoice'[i].status = "open" => ~Locked
      <4>1. b \in DOMAIN Copied(b) /\ Copied(b)[b] \in InvoiceRecord
        BY <1>t, CopiedIs DEF IsTable
      <4>2. [Copied(b)[b] EXCEPT !.status = "charged"].status # "open"
        BY <4>1 DEF InvoiceRecord
      <4>3. QED BY <2>5, <2>8, <4>1, <4>2
    <3>2. QED BY <2>3, <2>8, <3>1 DEF InvoiceMove
  <2>9. QED BY <2>7, <2>8
<1>3. ASSUME CreateCycleInvoice PROVE InvoiceMove(i)
  <2>1. invoice' = Put(invoice, <<NoSub, row.due>>, NewInvoice("cash")) /\ row.due <= cycle
    BY <1>3 DEF CreateCycleInvoice
  <2>2. \/ i = <<NoSub, row.due>> /\ invoice'[i] = NewInvoice("cash")
        \/ i \in DOMAIN invoice /\ invoice'[i] = invoice[i]
    BY <2>1 DEF Put
  <2>3. QED BY <1>t, <2>1, <2>2 DEF InvoiceMove, CashIsOurs
<1>4. ASSUME FindCanceled \/ ReconcileCanceled \/ CommitCash
      PROVE  InvoiceMove(i)
  <2>1. invoice' = invoice \/ \E ids : invoice' = InCash(ids)
    BY <1>4 DEF ReconcileCanceled, GoOnInCash, FindCanceled, CommitCash
  <2>2. /\ i \in DOMAIN invoice
        /\ \/ invoice'[i] = invoice[i]
           \/ invoice'[i] = [invoice[i] EXCEPT !.method = "cash"]
    <3>1. CASE invoice' = invoice
      BY <3>1
    <3>2. ASSUME NEW ids, invoice' = InCash(ids)
          PROVE  /\ i \in DOMAIN invoice
                 /\ \/ invoice'[i] = invoice[i]
                    \/ invoice'[i] = [invoice[i] EXCEPT !.method = "cash"]
      <4>1. i \in DOMAIN invoice
        BY <1>t, <3>2, InCashIs
      <4>2. QED BY <1>t, <3>2, <4>1, InCashIs
    <3>3. QED BY <2>1, <3>1, <3>2
  <2>3. invoice[i] \in InvoiceRecord
    BY <1>t, <2>2 DEF IsTable
  <2>4. QED BY <1>t, <2>2, <2>3 DEF InvoiceMove, CashIsOurs, InvoiceRecord
<1>5. ASSUME \/ \E b \in Bill : HookFailed(b)
             \/ \E j \in DOMAIN invoice : MarkPaid(j) \/ TakeInvoice(j)
             \/ FinishTransition
      PROVE  InvoiceMove(i)
  <2>1. i \in DOMAIN invoice /\ invoice[i] \in InvoiceRecord
    BY <1>t, <1>5 DEF IsTable, HookFailed, MarkPaid, TakeInvoice, FinishTransition
  <2>2. \/ invoice'[i] = invoice[i]
        \/ invoice'[i] = [invoice[i] EXCEPT !.failed = TRUE]
        \/ invoice'[i] = [invoice[i] EXCEPT !.status = "cashed"]
        \/ invoice'[i] = [invoice[i] EXCEPT !.moving = "started"] /\ i[1] # NoSub
        \/ invoice'[i] = [invoice[i] EXCEPT !.moving = "succeeded"] /\ i[1] # NoSub
    <3>1. ASSUME NEW j \in DOMAIN invoice, TakeInvoice(j) PROVE j[1] # NoSub
      BY <1>t, <3>1 DEF TakeInvoice, CashIsOurs
    <3>2. ASSUME FinishTransition PROVE task.id[1] # NoSub
      BY <1>t, <3>2, BillingAssumption DEF FinishTransition, TypeOK, Locked, TaskRecord, Bill
    <3>3. QED BY <1>5, <2>1, <3>1, <3>2 DEF HookFailed, MarkPaid, TakeInvoice, FinishTransition
  <2>3. QED BY <1>t, <2>1, <2>2 DEF InvoiceMove, CashIsOurs, InvoiceRecord
<1>6. QED BY <1>1, <1>2, <1>3, <1>4, <1>5 DEF Next, Convert

-----------------------------------------------------------------------------
(* The invariant is kept.                                                  *)

\* Whoever clears the link of the row has seen that there is no task.
LEMMA LinkedStep ==
    ASSUME BillingInv, Next
    PROVE  Linked'
PROOF
<1>t. TypeOK /\ Linked /\ row \in RowRecord
  BY DEF BillingInv, TypeOK
<1>1. half' # Idle /\ half'.hook[1] = "paid" => half'.row \in RowRecord /\ half'.row.link \in Sub
  BY <1>t, HalfMoves DEF HalfMove, Linked
<1>2. SUFFICES ASSUME Locked' PROVE row'.link \in Sub
  BY <1>1 DEF Linked
<1>3. CASE \/ \E b \in Bill : Finalize(b) \/ PayBill(b) \/ FailBill(b) \/ HookFailed(b)
                              \/ ReadCreated(b) \/ HookPaid(b)
           \/ \E s \in Sub : CancelOutside(s) \/ AskMigration(s) \/ PaySession(s)
                             \/ ReadDeleted(s) \/ ReadMigrated(s)
           \/ \E h \in hooks : LoseHook(h)
           \/ \E i \in DOMAIN invoice : MarkPaid(i)
           \/ Anchor \/ DeliveryFails
  <2>1. UNCHANGED <<row, task>>
    BY <1>3 DEF Anchor, Finalize, PayBill, FailBill, HookFailed, Deliver, CancelOutside,
          Canceled, AskMigration, PaySession, LoseHook, MarkPaid, ReadCreated, HookPaid,
          ReadDeleted, ReadMigrated, Read, DeliveryFails
  <2>2. QED BY <1>t, <1>2, <2>1 DEF Linked, Locked
<1>4. CASE \/ \E b \in Bill : HookCreated(b)
           \/ \E s \in Sub : HookDeleted(s)
           \/ CancelLastPlan \/ ResumePlan \/ AddPlan
           \/ ReconcileCanceled \/ FindCanceled \/ FindExpired
  <2>1. ~Locked /\ task' = task
    BY <1>4 DEF HookCreated, HookDeleted, ReconcileCanceled, FindCanceled, FindExpired,
          CancelLastPlan, ResumePlan, AddPlan, SetPlans
  <2>2. QED BY <1>2, <2>1 DEF Locked
<1>5. CASE \/ \E s \in Sub : HookMigrated(s)
           \/ SaveRow \/ CreateCycleInvoice
  BY <1>t, <1>2, <1>5 DEF RowRecord, Linked, Locked, HookMigrated, SaveRow, CreateCycleInvoice
<1>6. CASE \/ \E i \in DOMAIN invoice : TakeInvoice(i)
           \/ VoidTrigger \/ ListRest \/ VoidRest \/ CommitCash \/ CancelAtStripe
  BY <1>t, <1>6 DEF RowRecord, Linked, Locked, TakeInvoice, VoidTrigger, ListRest, VoidRest,
        CommitCash, Committing, CancelAtStripe
<1>7. CASE FinishTransition \/ Crash
  BY <1>2, <1>7 DEF FinishTransition, Crash, Locked
<1>8. QED BY <1>3, <1>4, <1>5, <1>6, <1>7 DEF Next, Convert

\* The club's own invoices stay in cash and out of the task's reach.
LEMMA CashIsOursStep ==
    ASSUME BillingInv, Next
    PROVE  CashIsOurs'
PROOF
<1>1. ASSUME NEW i \in DOMAIN invoice', i[1] = NoSub
      PROVE  invoice'[i].method = "cash" /\ invoice'[i].moving = "none"
  <2>1. InvoiceMove(i)
    BY InvoiceMoves
  <2>2. i \notin Bill
    BY <1>1, BillingAssumption DEF Bill
  <2>3. QED BY <1>1, <2>1, <2>2 DEF InvoiceMove, NewInvoice
<1>2. QED BY <1>1 DEF CashIsOurs

\* Nothing is billed ahead: what Stripe drafts and what the club bills is of this cycle.
LEMMA BilledInTimeStep ==
    ASSUME BillingInv, Next
    PROVE  BilledInTime'
PROOF
<1>1. cycle' >= cycle /\ cycle \in Int /\ cycle' \in Int
  BY CycleMoves DEF BillingInv, TypeOK
<1>2. ASSUME NEW b \in Bill, bill'[b] # "none"
      PROVE  b[2] <= cycle' /\ stripe'[b[1]] \notin {"none", "session"}
  <2>1. b[1] \in Sub /\ b[2] \in Int
    BY DEF Bill, Cycle
  <2>2. BillMove(b) /\ StripeMove(b[1])
    BY <2>1, BillMoves, StripeMoves
  <2>3. \/ bill[b] # "none"
        \/ b[2] = cycle' /\ stripe[b[1]] = "active"
    BY <1>2, <2>2 DEF BillMove
  <2>4. QED BY <1>1, <2>1, <2>2, <2>3 DEF StripeMove, BillingInv, BilledInTime
<1>3. ASSUME NEW i \in DOMAIN invoice' PROVE i[2] <= cycle'
  <2>1. InvoiceMove(i)
    BY InvoiceMoves
  <2>2. i[2] <= cycle
    BY <2>1 DEF InvoiceMove, BillingInv, BilledInTime
  <2>3. i \in DOMAIN invoice \/ i = <<NoSub, row.due>> \/ i \in Bill
    BY <2>1 DEF InvoiceMove
  <2>4. i[2] \in Int
    BY <2>3 DEF BillingInv, TypeOK, RowRecord, Bill, Cycle
  <2>5. QED BY <1>1, <2>2, <2>4
<1>4. QED BY <1>2, <1>3 DEF BilledInTime

\* Events and copies stay about invoices that exist.
LEMMA KnownExistStep ==
    ASSUME BillingInv, Next
    PROVE  KnownExist'
PROOF
<1>1. \A b \in Bill : bill[b] # "none" => bill'[b] # "none"
  BY BillMoves DEF BillMove
<1>2. ASSUME NEW i \in DOMAIN invoice', i \in Bill PROVE bill'[i] # "none"
  <2>1. InvoiceMove(i)
    BY InvoiceMoves
  <2>2. i[1] # NoSub
    BY <1>2, BillingAssumption DEF Bill
  <2>3. i # <<NoSub, row.due>>
    BY <2>2
  <2>4. bill[i] # "none"
    BY <1>2, <2>1, <2>3 DEF InvoiceMove, BillingInv, KnownExist
  <2>5. QED BY <1>1, <1>2, <2>4
<1>3. ASSUME NEW s \in Sub, NEW c \in Cycle
      PROVE  /\ <<"created", s, c>> \in hooks' => bill'[<<s, c>>] # "none" /\ c = cycle'
             /\ <<"paid", s, c>> \in hooks' => bill'[<<s, c>>] # "none"
  <2>1. HookMove(s, c)
    BY HookMoves
  <2>2. <<s, c>> \in Bill
    BY DEF Bill
  <2>3. QED BY <1>1, <2>1, <2>2 DEF HookMove, HalfWay, BillingInv, KnownExist, HalfKnown
<1>4. ASSUME NEW b \in told' PROVE bill'[b] # "none" /\ (~late' => b[2] < row'.due)
  <2>1. ToldMove(b)
    BY ToldMoves
  <2>2. told' \subseteq Bill /\ row' \in RowRecord
    <3>1. TypeOK'
      BY TypeStep DEF BillingInv
    <3>2. QED BY <3>1 DEF TypeOK
  <2>3. b = <<b[1], b[2]>> /\ b[1] \in Sub /\ b[2] \in Cycle /\ b \in Bill /\ b[2] \in Int
    BY <2>2 DEF Bill, Cycle
  <2>4. row.due \in Int /\ row'.due \in Int /\ cycle \in Int
    BY <2>2 DEF BillingInv, TypeOK, RowRecord
  <2>5. bill[b] # "none"
    BY <2>1, <2>3 DEF ToldMove, BillingInv, KnownExist
  <2>6. b[2] <= cycle
    BY <2>3, <2>5 DEF BillingInv, BilledInTime
  <2>7. ~late' => b[2] < row'.due
    BY <2>1, <2>3, <2>4, <2>6 DEF ToldMove, BillingInv, KnownExist
  <2>8. QED BY <1>1, <2>3, <2>5, <2>7
<1>5. QED BY <1>2, <1>3, <1>4 DEF KnownExist

\* So does the delivery that is half-way, until it is over.
LEMMA HalfKnownStep ==
    ASSUME BillingInv, Next
    PROVE  HalfKnown'
PROOF
<1>t. TypeOK /\ KnownExist /\ BilledInTime /\ HalfKnown
  BY DEF BillingInv
<1>1. SUFFICES ASSUME half' # Idle, NEW s \in Sub, NEW c \in Cycle
               PROVE  /\ half'.hook = <<"created", s, c>> =>
                            bill'[<<s, c>>] # "none" /\ \A b \in told' : b[2] <= c
                      /\ half'.hook = <<"paid", s, c>> => bill'[<<s, c>>] # "none"
  BY DEF HalfKnown
<1>2. bill[<<s, c>>] # "none" => bill'[<<s, c>>] # "none"
  BY BillMoves DEF BillMove, Bill
<1>3. CASE /\ told' = told /\ half # Idle
           /\ half'.hook = half.hook
  BY <1>t, <1>2, <1>3 DEF HalfKnown
<1>4. CASE told' = told /\ \E h \in hooks, r \in {row, Idle} :
             half' = [hook |-> h, row |-> r, ended |-> FALSE]
  <2>1. half'.hook \in hooks
    BY <1>4
  <2>2. \A b \in told : b[2] <= cycle
    BY <1>t DEF KnownExist, BilledInTime, TypeOK
  <2>3. QED BY <1>t, <1>2, <1>4, <2>1, <2>2 DEF KnownExist
<1>5. QED BY <1>t, <1>1, <1>3, <1>4, HalfMoves DEF HalfMove

\* Once the task has listed them, no invoice of the row's subscription opens, or it is
\* on the list.
LEMMA LookedAtStep ==
    ASSUME BillingInv, Next
    PROVE  LookedAt'
PROOF
<1>1. SUFFICES ASSUME Locked', task'.pc = "rest", NEW i \in Unpaid', i[1] = task'.link
               PROVE  bill'[i] \in {"void", "paid"} \/ (bill'[i] = "open" /\ i[2] \in task'.rest)
  BY DEF LookedAt
<1>2. task' \in TaskRecord /\ DOMAIN invoice' \subseteq (Sub \cup {NoSub}) \X Cycle
  <2>1. TypeOK'
    BY TypeStep DEF BillingInv
  <2>2. QED BY <1>1, <2>1 DEF TypeOK, Locked
<1>3. i \in DOMAIN invoice' /\ invoice'[i].status = "open"
  BY <1>1 DEF Unpaid
<1>4. i \in Bill /\ i[1] # NoSub /\ i = <<i[1], i[2]>> /\ i[2] \in Cycle
  BY <1>1, <1>2, <1>3, BillingAssumption DEF TaskRecord, Bill
<1>5. Locked /\ (ListRest \/ VoidRest \/ task' = task)
  BY <1>1, TaskMoves
<1>6. i \in Unpaid
  <2>1. InvoiceMove(i)
    BY <1>3, InvoiceMoves
  <2>2. i # <<NoSub, row.due>>
    BY <1>4
  <2>3. QED BY <1>3, <1>5, <2>1, <2>2 DEF InvoiceMove, Unpaid
<1>7. bill[i] \in {"draft", "open", "paid", "void"} /\ task \in TaskRecord
  BY <1>4, <1>5, <1>6 DEF BillingInv, KnownExist, Unpaid, TypeOK, Locked
<1>8. CASE ListRest
  <2>1. /\ bill' = bill /\ \A c \in Cycle : bill[<<row.link, c>>] # "draft"
        /\ task' = [task EXCEPT !.pc = "rest", !.link = row.link,
                       !.rest = {c \in Cycle : bill[<<row.link, c>>] = "open"}]
    BY <1>1, <1>8 DEF ListRest, Locked
  <2>2. task'.link = row.link /\ task'.rest = {c \in Cycle : bill[<<row.link, c>>] = "open"}
    BY <1>7, <2>1 DEF TaskRecord
  <2>3. QED BY <1>1, <1>4, <1>7, <2>1, <2>2
<1>9. CASE VoidRest
  <2>1. PICK c \in task.rest :
          /\ c \in Cycle /\ task' = [task EXCEPT !.rest = task.rest \ {c}]
          /\ \A b \in Bill : bill'[b] = IF b = <<task.link, c>> /\ bill[b] = "open"
                                        THEN "void" ELSE bill[b]
    BY <1>9, VoidRestIs
  <2>2. task'.link = task.link /\ task'.rest = task.rest \ {c} /\ task.pc = "rest"
    BY <1>7, <1>9, <2>1 DEF TaskRecord, VoidRest
  <2>3. bill[i] \in {"void", "paid"} \/ (bill[i] = "open" /\ i[2] \in task.rest)
    BY <1>1, <1>5, <1>6, <2>2 DEF BillingInv, LookedAt
  <2>4. QED BY <1>1, <1>4, <2>1, <2>2, <2>3
<1>10. CASE task' = task
  <2>1. bill[i] \in {"void", "paid"} \/ (bill[i] = "open" /\ i[2] \in task.rest)
    BY <1>1, <1>5, <1>6, <1>10 DEF BillingInv, LookedAt
  <2>2. QED BY <1>4, <1>10, <2>1, BillMoves DEF BillMove
<1>11. QED BY <1>5, <1>8, <1>9, <1>10

\* A step keeps the invariant.
LEMMA InvStep ==
    ASSUME BillingInv, Next
    PROVE  BillingInv'
<1>1. TypeOK'
  BY TypeStep DEF BillingInv
<1>2. QED BY <1>1, LinkedStep, CashIsOursStep, BilledInTimeStep, KnownExistStep,
       HalfKnownStep, LookedAtStep
       DEF BillingInv

-----------------------------------------------------------------------------
(* Who asks for a cycle.                                                   *)

StripeAsks(b) ==
    bill[b] \in {"open", "paid"} \/ (bill[b] = "draft" /\ Running(b[1]))
ClubAsks(i) ==
    \/ invoice[i].status = "cashed"
    \/ invoice[i].status = "open" /\ (invoice[i].method = "cash" \/ bill[i] = "void")

\* Invoices are finitely many.
LEMMA FewInvoices ==
    ASSUME NEW D, D \subseteq (Sub \cup {NoSub}) \X Cycle
    PROVE  IsFiniteSet(D) /\ Cardinality(D) \in Nat
PROOF
<1>1. IsFiniteSet(Sub \cup {NoSub})
  BY BillingAssumption, FS_AddElement
<1>2. IsFiniteSet(Cycle)
  BY BillingAssumption, FS_Interval DEF Cycle
<1>3. IsFiniteSet((Sub \cup {NoSub}) \X Cycle)
  BY <1>1, <1>2, FS_Product
<1>4. QED BY <1>3, FS_Subset, FS_CardinalityType

\* Two sets of invoices, each part of one before, hold no more than these ...
LEMMA PartsHoldNoMore ==
    ASSUME NEW A, NEW A1, NEW B, NEW B1,
           A \subseteq (Sub \cup {NoSub}) \X Cycle, B \subseteq (Sub \cup {NoSub}) \X Cycle,
           A1 \subseteq A, B1 \subseteq B
    PROVE  Cardinality(A1) + Cardinality(B1) <= Cardinality(A) + Cardinality(B)
PROOF
<1>1. IsFiniteSet(A) /\ IsFiniteSet(B)
  BY FewInvoices
<1>2. Cardinality(A1) <= Cardinality(A) /\ Cardinality(B1) <= Cardinality(B)
  BY <1>1, FS_Subset
<1>3. /\ Cardinality(A) \in Nat /\ Cardinality(A1) \in Nat
      /\ Cardinality(B) \in Nat /\ Cardinality(B1) \in Nat
  BY FewInvoices
<1>4. QED BY <1>2, <1>3

\* ... nor do they when one invoice goes from the first to the second.
LEMMA ExchangeHoldsNoMore ==
    ASSUME NEW A, NEW A1, NEW B, NEW B1, NEW x,
           A \subseteq (Sub \cup {NoSub}) \X Cycle, B \subseteq (Sub \cup {NoSub}) \X Cycle,
           x \in A, A1 \subseteq A \ {x}, B1 \subseteq B \cup {x}
    PROVE  Cardinality(A1) + Cardinality(B1) <= Cardinality(A) + Cardinality(B)
PROOF
<1>1. IsFiniteSet(A) /\ IsFiniteSet(B)
  BY FewInvoices
<1>2. /\ IsFiniteSet(A \ {x}) /\ Cardinality(A \ {x}) = Cardinality(A) - 1
      /\ IsFiniteSet(B \cup {x}) /\ Cardinality(B \cup {x}) <= Cardinality(B) + 1
  BY <1>1, FS_RemoveElement, FS_AddElement, FS_CardinalityType
<1>3. Cardinality(A1) <= Cardinality(A \ {x}) /\ Cardinality(B1) <= Cardinality(B \cup {x})
  BY <1>2, FS_Subset
<1>4. /\ Cardinality(A) \in Nat /\ Cardinality(A1) \in Nat
      /\ Cardinality(B) \in Nat /\ Cardinality(B1) \in Nat
      /\ Cardinality(A \ {x}) \in Nat /\ Cardinality(B \cup {x}) \in Nat
  <2>1. x \in (Sub \cup {NoSub}) \X Cycle
    OBVIOUS
  <2>2. QED BY <2>1, FewInvoices
<1>5. QED BY <1>2, <1>3, <1>4

\* A set that holds one invoice at most.
LEMMA OneAtMost ==
    ASSUME NEW A, NEW B, NEW x, A \subseteq {x}, B = {}
    PROVE  Cardinality(A) + Cardinality(B) <= 1 /\ Cardinality(B) + Cardinality(A) <= 1
PROOF
<1>1. A = {} \/ A = {x}
  OBVIOUS
<1>2. Cardinality({}) = 0 /\ Cardinality({x}) = 1
  BY FS_EmptySet, FS_Singleton
<1>3. Cardinality(B) = 0 /\ (Cardinality(A) = 0 \/ Cardinality(A) = 1)
  BY <1>1, <1>2
<1>4. QED BY <1>3

\* Those who ask are invoices.
LEMMA AskedAre ==
    ASSUME TypeOK, NEW c \in Cycle
    PROVE  /\ AskedByStripe(c) = {b \in Bill : b[2] = c /\ StripeAsks(b)}
           /\ AskedByClub(c) = {i \in DOMAIN invoice : i[2] = c /\ ClubAsks(i)}
           /\ AskedByStripe(c) \subseteq (Sub \cup {NoSub}) \X Cycle
           /\ AskedByClub(c) \subseteq (Sub \cup {NoSub}) \X Cycle
BY DEF AskedByStripe, AskedByClub, StripeAsks, ClubAsks, TypeOK, Bill

\* The same, after a step.
LEMMA AskedAreThen ==
    ASSUME TypeOK', NEW c \in Cycle
    PROVE  /\ AskedByStripe(c)' = {b \in Bill : b[2] = c /\ StripeAsks(b)'}
           /\ AskedByClub(c)' = {i \in DOMAIN invoice' : i[2] = c /\ ClubAsks(i)'}
           /\ AskedByStripe(c)' \subseteq (Sub \cup {NoSub}) \X Cycle
           /\ AskedByClub(c)' \subseteq (Sub \cup {NoSub}) \X Cycle
BY DEF AskedByStripe, AskedByClub, StripeAsks, ClubAsks, TypeOK, Bill, Running

\* Stripe comes to ask only at an anchor, for the cycle that begins.
LEMMA StripeAsksNoMore ==
    ASSUME BillingInv, Next, NEW b \in Bill, StripeAsks(b)'
    PROVE  \/ StripeAsks(b) /\ ~(b[2] = cycle' /\ Anchor)
           \/ Anchor /\ b[2] = cycle' /\ bill[b] = "none" /\ bill'[b] = "draft"
PROOF
<1>1. b[1] \in Sub /\ b[2] \in Int
  BY DEF Bill, Cycle
<1>2. BillMove(b) /\ StripeMove(b[1])
  BY <1>1, BillMoves, StripeMoves
<1>3. bill[b] # "none" => stripe[b[1]] # "session" /\ b[2] <= cycle
  BY DEF BillingInv, BilledInTime
<1>4. Anchor => cycle' = cycle + 1 /\ cycle \in Int
  BY AnchorIs DEF BillingInv, TypeOK
<1>5. QED BY <1>1, <1>2, <1>3, <1>4 DEF StripeAsks, BillMove, StripeMove

\* What the club writes about an invoice, as far as it is about who asks.
ClubMove(i) ==
    \/ /\ i \in DOMAIN invoice
       /\ invoice'[i].status = invoice[i].status /\ invoice'[i].method = invoice[i].method
    \/ invoice'[i].status = "charged"
    \/ i \in Unpaid /\ invoice[i].method = "cash"
    \/ MarkedAtStripe \/ EndedIsTurned
    \/ CreateCycleInvoice /\ i = <<NoSub, row.due>>
    \/ i \in Bill \ DOMAIN invoice /\ invoice'[i] = NewInvoice("stripe")
    \/ CommitCash /\ invoice' # invoice /\ i \in Unpaid /\ invoice[i].method = "stripe"

\* Every step writes it like that.
LEMMA ClubMoves ==
    ASSUME BillingInv, Next, NEW i \in DOMAIN invoice'
    PROVE  ClubMove(i)
PROOF
<1>t. IsTable(invoice) /\ TypeOK
  BY DEF BillingInv, TypeOK, IsTable
<1>1. CASE \/ \E b \in Bill : Finalize(b) \/ PayBill(b) \/ FailBill(b) \/ ReadCreated(b)
           \/ \E s \in Sub : CancelOutside(s) \/ AskMigration(s) \/ PaySession(s)
                             \/ ReadDeleted(s) \/ HookDeleted(s)
                             \/ ReadMigrated(s) \/ HookMigrated(s)
           \/ \E h \in hooks : LoseHook(h)
           \/ Anchor \/ CancelLastPlan \/ ResumePlan \/ AddPlan \/ FindExpired
           \/ VoidTrigger \/ ListRest \/ VoidRest \/ CancelAtStripe \/ Crash \/ SaveRow
           \/ DeliveryFails
  <2>1. UNCHANGED invoice
    BY <1>1 DEF Anchor, Finalize, PayBill, FailBill, CancelOutside, Canceled,
          AskMigration, PaySession, HookMigrated, Deliver, LoseHook, CancelLastPlan,
          SetPlans, ResumePlan, AddPlan, FindExpired, GiveUp, VoidTrigger, Step,
          ListRest, VoidRest, CancelAtStripe, Crash, SaveRow, ReadCreated, ReadDeleted,
          HookDeleted, ReadMigrated, Read, DeliveryFails
  <2>2. QED BY <2>1 DEF ClubMove
<1>2. ASSUME NEW b \in Bill, HookCreated(b) \/ HookPaid(b) PROVE ClubMove(i)
  <2>1. \/ invoice' = Copied(b)
        \/ invoice' = [Copied(b) EXCEPT ![b] = [Copied(b)[b] EXCEPT !.status = "charged"]]
    BY <1>2 DEF HookCreated, HookPaid
  <2>2. DOMAIN invoice' = DOMAIN invoice \cup {b}
    BY <1>t, <2>1, CopiedIs
  <2>3. CASE i # b
    <3>1. i \in DOMAIN invoice /\ invoice'[i] = invoice[i]
      BY <1>t, <2>1, <2>2, <2>3, CopiedIs
    <3>2. QED BY <3>1 DEF ClubMove
  <2>4. CASE i = b
    <3>1. b \in DOMAIN Copied(b) /\ Copied(b)[b] \in InvoiceRecord
      BY <1>t, CopiedIs DEF IsTable
    <3>2. [Copied(b)[b] EXCEPT !.status = "charged"].status = "charged"
      BY <3>1 DEF InvoiceRecord
    <3>3. invoice'[i] = Copied(b)[b] \/ invoice'[i].status = "charged"
      BY <2>1, <2>4, <3>1, <3>2
    <3>4. QED BY <1>t, <2>4, <3>3, CopiedIs DEF ClubMove
  <2>5. QED BY <2>3, <2>4
<1>3. ASSUME CreateCycleInvoice PROVE ClubMove(i)
  BY <1>3 DEF CreateCycleInvoice, Put, ClubMove
<1>4. ASSUME FindCanceled \/ ReconcileCanceled
      PROVE  ClubMove(i)
  <2>1. CASE invoice' = invoice
    BY <2>1 DEF ClubMove
  <2>2. CASE invoice' # invoice
    <3>1. row.link \in Sub /\ row' = [row EXCEPT !.method = "cash", !.link = NoSub, !.ending = FALSE]
      BY <1>4, <2>2 DEF ReconcileCanceled, FindCanceled, GoOnInCash
    <3>2. row.link # NoSub /\ row'.link = NoSub
      BY <1>t, <3>1, BillingAssumption DEF TypeOK, RowRecord
    <3>3. QED BY <2>2, <3>2 DEF ClubMove, EndedIsTurned
  <2>3. QED BY <2>1, <2>2
<1>5. ASSUME CommitCash PROVE ClubMove(i)
  <2>1. i \in DOMAIN invoice
        /\ (i \in Unpaid => invoice'[i] = [invoice[i] EXCEPT !.method = "cash"])
        /\ (i \notin Unpaid => invoice'[i] = invoice[i])
    BY <1>t, <1>5, InCashIs DEF CommitCash
  <2>2. invoice[i] \in InvoiceRecord
    BY <1>t, <2>1 DEF IsTable
  <2>3. CASE i \in Unpaid /\ invoice[i].method = "stripe"
    <3>1. invoice'[i] # invoice[i]
      BY <2>1, <2>2, <2>3 DEF InvoiceRecord
    <3>2. QED BY <1>5, <2>3, <3>1 DEF ClubMove
  <2>4. CASE ~(i \in Unpaid /\ invoice[i].method = "stripe")
    BY <2>1, <2>2, <2>4 DEF ClubMove, InvoiceRecord
  <2>5. QED BY <2>3, <2>4
<1>6. ASSUME NEW j \in DOMAIN invoice, MarkPaid(j) PROVE ClubMove(i)
  <2>1. i \in DOMAIN invoice /\ invoice[j] \in InvoiceRecord /\ j \in Unpaid
    BY <1>t, <1>6 DEF IsTable, MarkPaid
  <2>2. invoice' = [invoice EXCEPT ![j] = [invoice[j] EXCEPT !.status = "cashed"]]
    BY <1>6 DEF MarkPaid
  <2>3. CASE i # j
    BY <2>1, <2>2, <2>3 DEF ClubMove
  <2>4. CASE i = j
    <3>1. invoice'[j].status = "cashed"
      BY <2>1, <2>2 DEF InvoiceRecord
    <3>2. invoice[j].method \in {"cash", "stripe"}
      BY <2>1 DEF InvoiceRecord
    <3>3. QED BY <2>1, <2>4, <3>1, <3>2 DEF ClubMove, MarkedAtStripe
  <2>5. QED BY <2>3, <2>4
<1>7. ASSUME \/ \E b \in Bill : HookFailed(b)
             \/ \E j \in DOMAIN invoice : TakeInvoice(j)
             \/ FinishTransition
      PROVE  ClubMove(i)
  <2>1. i \in DOMAIN invoice /\ invoice[i] \in InvoiceRecord
    BY <1>t, <1>7 DEF IsTable, HookFailed, TakeInvoice, FinishTransition
  <2>2. \/ invoice'[i] = invoice[i]
        \/ invoice'[i] = [invoice[i] EXCEPT !.failed = TRUE]
        \/ invoice'[i] = [invoice[i] EXCEPT !.moving = "started"]
        \/ invoice'[i] = [invoice[i] EXCEPT !.moving = "succeeded"]
    BY <1>7, <2>1 DEF HookFailed, TakeInvoice, FinishTransition
  <2>3. QED BY <2>1, <2>2 DEF ClubMove, InvoiceRecord
<1>8. QED BY <1>1, <1>2, <1>3, <1>4, <1>5, <1>6, <1>7 DEF Next, Convert

\* Apart from the new invoice of a cycle, the club comes to ask only in known ways, if
\* the task voids nothing.
LEMMA ClubAsksNoMore ==
    ASSUME BillingInv, Next, ~VoidTrigger, ~VoidRest, NEW i \in DOMAIN invoice', ClubAsks(i)'
    PROVE  \/ i \in DOMAIN invoice /\ ClubAsks(i)
           \/ CreateCycleInvoice /\ i = <<NoSub, row.due>>
           \/ VoidIsCopied \/ PaidIsTurned \/ AnothersIsTurned \/ EndedIsTurned
           \/ MarkedAtStripe
PROOF
<1>1. i \in DOMAIN invoice => invoice[i] \in InvoiceRecord /\ (i \in Bill \/ i[1] = NoSub)
  BY DEF BillingInv, TypeOK, Bill
<1>2. i \in Bill /\ bill'[i] = "void" => bill[i] = "void"
  BY BillMoves DEF BillMove
<1>3. CASE /\ i \in DOMAIN invoice
           /\ invoice'[i].status = invoice[i].status /\ invoice'[i].method = invoice[i].method
  <2>1. CASE i \in Bill
    BY <1>2, <1>3, <2>1 DEF ClubAsks
  <2>2. CASE i[1] = NoSub
    <3>1. invoice[i].method = "cash"
      BY <1>3, <2>2 DEF BillingInv, CashIsOurs
    <3>2. QED BY <1>3, <3>1 DEF ClubAsks
  <2>3. QED BY <1>1, <1>3, <2>1, <2>2
<1>4. CASE invoice'[i].status = "charged"
  BY <1>4 DEF ClubAsks
<1>5. CASE i \in Unpaid /\ invoice[i].method = "cash"
  BY <1>5 DEF Unpaid, ClubAsks
<1>6. CASE i \in Bill \ DOMAIN invoice /\ invoice'[i] = NewInvoice("stripe")
  <2>1. bill'[i] = "void"
    BY <1>6 DEF ClubAsks, NewInvoice
  <2>2. QED BY <1>2, <1>6, <2>1 DEF VoidIsCopied
<1>7. CASE CommitCash /\ invoice' # invoice /\ i \in Unpaid /\ invoice[i].method = "stripe"
  <2>1. i \in DOMAIN invoice /\ i \in Bill /\ bill[i] # "none"
    <3>1. i \in DOMAIN invoice
      BY <1>7 DEF Unpaid
    <3>2. i[1] # NoSub
      BY <1>7, <3>1 DEF BillingInv, CashIsOurs
    <3>3. QED BY <1>1, <3>1, <3>2 DEF BillingInv, KnownExist
  <2>2. bill[i] \in {"draft", "open", "paid", "void"}
    BY <2>1 DEF BillingInv, TypeOK
  <2>3. CASE bill[i] = "void"
    BY <1>7, <2>1, <2>3 DEF ClubAsks, Unpaid
  <2>4. CASE bill[i] = "paid"
    BY <1>7, <2>1, <2>4 DEF PaidIsTurned, CommitCash
  <2>5. CASE bill[i] \in {"draft", "open"}
    <3>1. i[1] # task.link
      BY <1>7, <2>5 DEF BillingInv, LookedAt, CommitCash, Committing
    <3>2. QED BY <1>7, <2>1, <2>5, <3>1 DEF AnothersIsTurned, CommitCash
  <2>6. QED BY <2>2, <2>3, <2>4, <2>5
<1>8. QED BY <1>3, <1>4, <1>5, <1>6, <1>7, ClubMoves DEF ClubMove

-----------------------------------------------------------------------------
(* Asked twice.                                                            *)

AskedKnown(c) ==
    \/ Asked(c)' <= 1 \/ Asked(c)' <= Asked(c)
    \/ BilledAstray \/ BilledUnaware \/ VoidIsCopied
    \/ PaidIsTurned \/ AnothersIsTurned \/ EndedIsTurned \/ MarkedAtStripe

\* At an anchor Stripe bills what runs; if that is the row's, it is one.
LEMMA AskedAtAnchor ==
    ASSUME BillingInv, Next, BillingInv', Anchor, NEW c \in Cycle, c = cycle'
    PROVE  AskedKnown(c)
PROOF
<1>1. c = cycle + 1 /\ cycle \in Int
  BY AnchorIs DEF BillingInv, TypeOK
<1>2. SUFFICES ASSUME ~BilledAstray PROVE Asked(c)' <= 1
  BY DEF AskedKnown
<1>3. AskedByStripe(c)' \subseteq {<<row.link, c>>}
  <2>1. ASSUME NEW b \in Bill, b[2] = c, StripeAsks(b)' PROVE b = <<row.link, c>>
    <3>1. bill[b] = "none" /\ bill'[b] = "draft"
      BY <2>1, StripeAsksNoMore
    <3>2. row.link = b[1]
      BY <1>2, <3>1 DEF BilledAstray
    <3>3. QED BY <2>1, <3>2 DEF Bill
  <2>2. QED BY <2>1, AskedAreThen DEF BillingInv
<1>4. AskedByClub(c)' = {}
  <2>1. invoice' = invoice
    BY DEF Anchor
  <2>2. \A i \in DOMAIN invoice : i[2] # c
    BY <1>1 DEF BillingInv, BilledInTime
  <2>3. QED BY <1>1, <2>1, <2>2, AskedAreThen DEF BillingInv
<1>5. QED BY <1>3, <1>4, OneAtMost DEF Asked

\* The club bills a cycle; if it knows what Stripe has billed, Stripe has not billed this.
LEMMA AskedByCycleInvoice ==
    ASSUME BillingInv, Next, BillingInv', CreateCycleInvoice, NEW c \in Cycle, c = row.due
    PROVE  AskedKnown(c)
PROOF
<1>1. c \in Int
  BY DEF Cycle
<1>2. SUFFICES ASSUME ~BilledUnaware PROVE Asked(c)' <= 1
  BY DEF AskedKnown
<1>3. <<NoSub, c>> \in DOMAIN invoice' \ DOMAIN invoice
  BY DEF CreateCycleInvoice, Put
<1>4. ASSUME NEW b \in Bill, b[2] = c PROVE bill[b] = "none"
  <2>1. SUFFICES ASSUME bill[b] # "none" PROVE FALSE
    OBVIOUS
  <2>2. b = <<b[1], c>> /\ b[1] \in Sub
    BY <1>4 DEF Bill
  <2>3. c \in Billed(b[1])
    BY <1>1, <2>1, <2>2 DEF Billed
  <2>4. ~late /\ b \in told
    BY <1>2, <1>3, <2>2, <2>3 DEF BilledUnaware
  <2>5. b[2] < c
    BY <2>4 DEF BillingInv, KnownExist
  <2>6. QED BY <1>1, <1>4, <2>5
<1>5. AskedByStripe(c)' = {}
  <2>1. bill' = bill
    BY DEF CreateCycleInvoice
  <2>2. \A b \in Bill : b[2] = c => ~StripeAsks(b)'
    BY <1>4, <2>1 DEF StripeAsks
  <2>3. QED BY <1>1, <2>2, AskedAreThen DEF BillingInv
<1>6. AskedByClub(c)' \subseteq {<<NoSub, c>>}
  <2>1. ASSUME NEW i \in DOMAIN invoice', i[2] = c PROVE i = <<NoSub, c>>
    <3>1. DOMAIN invoice' = DOMAIN invoice \cup {<<NoSub, c>>}
      BY DEF CreateCycleInvoice, Put
    <3>2. i \in DOMAIN invoice => i \notin Bill
      BY <1>4, <2>1 DEF BillingInv, KnownExist
    <3>3. QED BY <2>1, <3>1, <3>2 DEF BillingInv, TypeOK, Bill
  <2>2. QED BY <1>1, <2>1, AskedAreThen DEF BillingInv
<1>7. QED BY <1>5, <1>6, OneAtMost DEF Asked

\* The task voids an invoice: Stripe asks no more, the club may.
LEMMA AskedWhenVoided ==
    ASSUME BillingInv, Next, BillingInv', NEW c \in Cycle, NEW x,
           UNCHANGED <<invoice, stripe>>,
           \A b \in Bill : b[2] = c =>
               \/ bill'[b] = bill[b]
               \/ b = x /\ bill[b] = "open" /\ bill'[b] = "void"
    PROVE  Asked(c)' <= Asked(c)
PROOF
<1>1. TypeOK /\ TypeOK'
  BY DEF BillingInv
<1>2. \A i \in DOMAIN invoice : i \in Bill \/ invoice[i].method = "cash"
  BY DEF BillingInv, TypeOK, CashIsOurs, Bill
<1>3. CASE x \in Bill /\ x[2] = c /\ bill[x] = "open" /\ bill'[x] = "void"
  <2>1. x \in AskedByStripe(c)
    BY <1>3 DEF AskedByStripe
  <2>2. AskedByStripe(c)' \subseteq AskedByStripe(c) \ {x}
    BY <1>1, <1>3, AskedAre, AskedAreThen DEF StripeAsks, Running
  <2>3. AskedByClub(c)' \subseteq AskedByClub(c) \cup {x}
    BY <1>1, <1>2, AskedAre, AskedAreThen DEF ClubAsks
  <2>4. QED BY <1>1, <2>1, <2>2, <2>3, AskedAre, ExchangeHoldsNoMore DEF Asked
<1>4. CASE ~(x \in Bill /\ x[2] = c /\ bill[x] = "open" /\ bill'[x] = "void")
  <2>1. AskedByStripe(c)' \subseteq AskedByStripe(c)
    BY <1>1, <1>4, AskedAre, AskedAreThen DEF StripeAsks, Running
  <2>2. AskedByClub(c)' \subseteq AskedByClub(c)
    BY <1>1, <1>2, <1>4, AskedAre, AskedAreThen DEF ClubAsks
  <2>3. QED BY <1>1, <2>1, <2>2, AskedAre, PartsHoldNoMore DEF Asked
<1>5. QED BY <1>3, <1>4

\* Every step is one of the known ones, or the member is not asked more than once.
LEMMA AskedStep ==
    ASSUME BillingInv, Next, BillingInv', NEW c \in Cycle
    PROVE  AskedKnown(c)
PROOF
<1>1. TypeOK /\ TypeOK'
  BY DEF BillingInv
<1>2. CASE Anchor /\ c = cycle'
  BY <1>2, AskedAtAnchor
<1>3. CASE CreateCycleInvoice /\ c = row.due
  BY <1>3, AskedByCycleInvoice
<1>4. CASE VoidTrigger
  <2>1. \A b \in Bill : \/ bill'[b] = bill[b]
                        \/ b = task.id /\ bill[b] = "open" /\ bill'[b] = "void"
    BY <1>4, VoidTriggerIs
  <2>2. UNCHANGED <<invoice, stripe>>
    BY <1>4 DEF VoidTrigger
  <2>3. QED BY <2>1, <2>2, AskedWhenVoided DEF AskedKnown
<1>5. CASE VoidRest
  <2>1. \A b \in Bill : b[2] = c =>
          \/ bill'[b] = bill[b]
          \/ b = <<task.link, c>> /\ bill[b] = "open" /\ bill'[b] = "void"
    BY <1>5, VoidRestIs DEF Bill
  <2>2. UNCHANGED <<invoice, stripe>>
    BY <1>5 DEF VoidRest
  <2>3. QED BY <2>1, <2>2, AskedWhenVoided DEF AskedKnown
<1>6. CASE /\ ~VoidTrigger /\ ~VoidRest
           /\ ~(Anchor /\ c = cycle') /\ ~(CreateCycleInvoice /\ c = row.due)
  <2>1. SUFFICES ASSUME ~VoidIsCopied, ~PaidIsTurned, ~AnothersIsTurned, ~EndedIsTurned,
                        ~MarkedAtStripe
                 PROVE  Asked(c)' <= Asked(c)
    BY DEF AskedKnown
  <2>2. AskedByStripe(c)' \subseteq AskedByStripe(c)
    <3>1. ASSUME NEW b \in Bill, b[2] = c, StripeAsks(b)' PROVE StripeAsks(b)
      BY <1>6, <3>1, StripeAsksNoMore
    <3>2. QED BY <1>1, <3>1, AskedAre, AskedAreThen
  <2>3. AskedByClub(c)' \subseteq AskedByClub(c)
    <3>1. ASSUME NEW i \in DOMAIN invoice', i[2] = c, ClubAsks(i)'
          PROVE  i \in DOMAIN invoice /\ ClubAsks(i)
      <4>1. ~(CreateCycleInvoice /\ i = <<NoSub, row.due>>)
        BY <1>6, <3>1
      <4>2. QED BY <1>6, <2>1, <3>1, <4>1, ClubAsksNoMore
    <3>2. QED BY <1>1, <3>1, AskedAre, AskedAreThen
  <2>4. QED BY <1>1, <2>2, <2>3, AskedAre, PartsHoldNoMore DEF Asked
<1>7. QED BY <1>2, <1>3, <1>4, <1>5, <1>6

-----------------------------------------------------------------------------
(* The theorems.                                                           *)

\* The invariant holds at first.
LEMMA InvInit == Init => BillingInv
PROOF
<1>1. SUFFICES ASSUME Init PROVE BillingInv
  OBVIOUS
<1>2. PICK s \in Started :
        /\ row = [method |-> IF s = NoSub THEN "cash" ELSE "stripe", link |-> s,
                  status |-> "active", ending |-> FALSE, due |-> 1]
        /\ stripe = [t \in Sub |-> IF t = s THEN "active" ELSE "none"]
  BY <1>1 DEF Init
<1>3. DOMAIN invoice = {}
  BY <1>1 DEF Init
<1>4. /\ cycle = 0 /\ plans = TRUE /\ bill = [b \in Bill |-> "none"] /\ hooks = {}
      /\ half = Idle /\ task = Idle /\ told = {} /\ late = FALSE /\ crashes = 0
  BY <1>1 DEF Init
<1>5. row \in RowRecord
  BY <1>2, BillingAssumption DEF RowRecord
<1>6. /\ stripe \in [Sub -> {"none", "session", "active", "ending", "canceled"}]
      /\ bill \in [Bill -> {"none", "draft", "open", "paid", "void"}]
  BY <1>2, <1>4
<1>7. TypeOK
  <2>1. cycle \in 0..MaxCycle /\ crashes \in 0..MaxCrash
    BY <1>4, BillingAssumption
  <2>2. /\ DOMAIN invoice \subseteq (Sub \cup {NoSub}) \X Cycle
        /\ \A i \in DOMAIN invoice : invoice[i] \in InvoiceRecord
    BY <1>3
  <2>3. QED BY <1>4, <1>5, <1>6, <2>1, <2>2 DEF TypeOK
<1>8. Linked /\ HalfKnown /\ LookedAt
  BY <1>4 DEF Linked, HalfKnown, LookedAt, Locked
<1>9. CashIsOurs /\ BilledInTime /\ KnownExist
  BY <1>3, <1>4 DEF CashIsOurs, BilledInTime, KnownExist
<1>10. QED BY <1>7, <1>8, <1>9 DEF BillingInv

\* A step that changes nothing keeps it.
LEMMA InvStutter ==
    ASSUME BillingInv, UNCHANGED vars
    PROVE  BillingInv'
BY DEF BillingInv, vars, TypeOK, Linked, CashIsOurs, BilledInTime, KnownExist, HalfKnown, LookedAt, Locked,
       Unpaid

\* The invariant holds of every behaviour.
THEOREM BillingInvariant == Spec => []BillingInv
PROOF
<1>1. Init => BillingInv
  BY InvInit
<1>2. BillingInv /\ [Next]_vars => BillingInv'
  BY InvStep, InvStutter
<1>3. QED BY <1>1, <1>2, PTL DEF Spec

\* Every value keeps its type: among other things, nobody clears the link of a row while
\* a task works with it.
THEOREM BillingTypeCorrect == Spec => []TypeOK
PROOF
<1>1. BillingInv => TypeOK
  BY DEF BillingInv
<1>2. QED BY <1>1, BillingInvariant, PTL

\* However many Stripe subscriptions there are, a member is asked twice for a cycle only
\* by a step of one of the seven known kinds.
THEOREM AskedTwiceOnlyInKnownWays == Spec => AskedTwiceOnlyByKnownSteps
PROOF
<1>1. BillingInv /\ BillingInv' /\ [Next]_vars
        => [\A c \in Cycle :
              \/ Asked(c)' <= 1 \/ Asked(c)' <= Asked(c)
              \/ BilledAstray \/ BilledUnaware \/ VoidIsCopied
              \/ PaidIsTurned \/ AnothersIsTurned \/ EndedIsTurned \/ MarkedAtStripe]_vars
  BY AskedStep DEF AskedKnown
<1>2. QED BY <1>1, BillingInvariant, PTL DEF Spec, AskedTwiceOnlyByKnownSteps
=============================================================================
