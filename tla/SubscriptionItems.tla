-------------------------- MODULE SubscriptionItems --------------------------
(***************************************************************************)
(* The plans on one subscription of a club (service_subscription,          *)
(* service_add_plan, service_subscription_cash, StripeSubscriptionReconciler*)
(* and MembershipPlanDeletionReconciler).                                  *)
(*                                                                         *)
(* A subscription has one row per member and plan (SubscriptionItem, unique*)
(* on subscription, member and plan).  Stripe has, per plan, one item with *)
(* a quantity: the number of active rows.  Five operations change both     *)
(* sides: cancel, resume, change, undo of a change, and add.  Each runs    *)
(* under a lock in the cache that ends by itself, records a mutation before*)
(* it calls Stripe and closes the mutation with its last transaction, so   *)
(* that what a dead worker left open is finished by the reconciler.  The   *)
(* owner may delete a plan, which cancels the rows that are active.        *)
(*                                                                         *)
(* A transaction is one action and so is a call of Stripe.  What only ever *)
(* refuses has no state: days near the billing day, ages, bundles, missing *)
(* settings.  The days near the billing day keep requests away from the end*)
(* of a period.                                                            *)
(***************************************************************************)
EXTENDS Integers, FiniteSets, Sequences, SequencesExt

CONSTANTS
    Row,        \* the subscription items: a member and a plan each
    MemberOf,   \* the member of a row
    PlanOf,     \* the plan of a row
    Group,      \* sets of plans of which a member may hold one (MembershipPlanGroup)
    Method,     \* billing methods the subscription may have
    Req,        \* requests and tasks that run at the same time
    Slow,       \* those that may work longer than the lock lives
    Mutation,   \* bound: mutations that are open or held at the same time
    Held,       \* sets of rows that may be active at first
    Source,     \* what they were changed from in an earlier period, or themselves
    Doomed,     \* plans that the owner may delete
    MaxAsk,     \* bound: requests of members
    MaxFault    \* bound: workers that die, calls of Stripe that fail, locks
                \* that run out too early

Plan == {PlanOf[r] : r \in Row}

ASSUME ItemsAssumption ==
    /\ Row # {} /\ IsFiniteSet(Row)
    /\ MemberOf \in [Row -> {MemberOf[r] : r \in Row}]
    /\ PlanOf \in [Row -> {PlanOf[r] : r \in Row}]
    /\ \A r, s \in Row : MemberOf[r] = MemberOf[s] /\ PlanOf[r] = PlanOf[s] => r = s
    /\ Group \subseteq SUBSET Plan
    /\ Method \subseteq {"stripe", "cash"} /\ Method # {}
    /\ Source \in [Row -> Row] /\ \A r \in Row : MemberOf[Source[r]] = MemberOf[r]
    /\ Held \subseteq SUBSET Row /\ Doomed \subseteq Plan
    /\ Slow \subseteq Req
    /\ Mutation \subseteq Nat /\ 0 \notin Mutation
    /\ MaxAsk \in Nat /\ MaxFault \in Nat
    /\ {"free", "dead"} \cap Req = {}

VARIABLES
    method,   \* subscription.billing_method
    row,      \* the SubscriptionItem table
    plan,     \* is a plan for sale, scheduled for deletion, deleted
    ending,   \* subscription.cancel_at_period_end
    qty,      \* Stripe's items: the quantity of each plan, 0 is no item
    ends,     \* Stripe's cancel_at_period_end
    open,     \* mutations that are pending or processing, oldest first
    used,     \* the idempotency keys each mutation has used, with their amounts
    blocked,  \* successes that block the same operation until the period ends
    inv,      \* Stripe's invoice of the open addition of a row; "retry": none,
              \* and the reconciler has seen that once
    lock,     \* the cache key stripe_sub_lock
    req,      \* the requests and tasks
    asks,     \* requests of members so far
    faults,   \* what MaxFault counts, so far
    hist      \* history: not read by the code

vars == <<method, row, plan, ending, qty, ends, open, used, blocked, inv, lock,
          req, asks, faults, hist>>
tables == <<row, plan, ending, open, blocked>>
stripe == <<qty, ends, inv, used>>

Op == {"cancel", "resume", "change", "undo", "add"}

\* on: deleted_at is null.  until: access_until, "end" is the end of the
\* period that runs, "past" is over, "none" is null.  linked: the row names
\* Stripe's item of its plan.  from: source_item, or the row itself for null.
RowRecord == [on : BOOLEAN, until : {"none", "end", "past"},
              linked : BOOLEAN, from : Row]
NoRow(r) == [on |-> FALSE, until |-> "none", linked |-> FALSE, from |-> r]

\* A mutation: what it does to item (and, for a change and its undo, to the
\* new row).
MutationRecord == [id : Mutation, op : Op, item : Row, new : Row]

Key == {"modify", "create", "take", "delete", "end", "uncancel"}

ReqPC == {"idle", "asked", "uncancel", "put", "take", "end", "flag", "bill",
          "finalize", "pay", "commit", "apply", "sync", "settle", "release", "drop"}

\* task: a cancellation by the task that deletes a plan.  on, until, linked,
\* ending: the item and the subscription as they are in memory.
\* mut: the mutation it works on.  done: those its reconciliation applied.
ReqRecord == [pc : ReqPC, op : Op \cup {"reconcile"}, item : Row, new : Row,
              task : BOOLEAN, on : BOOLEAN, until : {"none", "end", "past"},
              linked : BOOLEAN, ending : BOOLEAN, mut : Mutation \cup {0},
              done : SUBSET Mutation]

AnyRow == CHOOSE r \in Row : TRUE
Idle == [pc |-> "idle", op |-> "reconcile", item |-> AnyRow, new |-> AnyRow,
         task |-> FALSE, on |-> FALSE, until |-> "none", linked |-> FALSE,
         ending |-> FALSE, mut |-> 0, done |-> {}]

\* astray: a call counted on a row that had moved, or on its own earlier
\* attempt, or its key was used before the quantity moved, or an operation
\* passed over a plan whose quantity was off, and no reconciliation came since.
\* kept: plans whose items Stripe kept when the last row was canceled.  late: a
\* lock ran out while its holder worked.  leftover: rows that were being
\* activated when their plan left the shop.
HistRecord == [astray : BOOLEAN, kept : SUBSET Plan, late : BOOLEAN,
               leftover : SUBSET Row]

-----------------------------------------------------------------------------
(* What is read.                                                           *)

\* item_state: active, grace; a row that was never made is neither
Active(r) == row[r].on
Grace(r) == ~row[r].on /\ row[r].until = "end"

ActiveOf(p) == {r \in Row : row[r].on /\ PlanOf[r] = p}
Wanted(p) == Cardinality(ActiveOf(p))
AnyActive == \E r \in Row : row[r].on

\* active_items_q: the plans a member holds; a plan that was paid for until
\* the end of the period still counts
Holds(m) == {r \in Row : MemberOf[r] = m /\ (Active(r) \/ Grace(r))}

\* validate_group_rule
OnePerGroup(rows) ==
    \A g \in Group : Cardinality({r \in rows : PlanOf[r] \in g}) <= 1

\* the group rule for what the member would hold, one dropped and one added
MayHold(drop, add) == OnePerGroup((Holds(MemberOf[add]) \ {drop}) \cup {add})

\* mutant: the plan is looked up without its flags
ForSaleAlways(p) == p \in Plan

\* assert_plan_is_activatable
ForSale(p) == plan[p] = "live"

IsOpen(op, r) == \E k \in DOMAIN open : open[k].op = op /\ open[k].item = r
OpenId(op, r) == (CHOOSE u \in Range(open) : u.op = op /\ u.item = r).id

\* the mutations that stay open, in their order
Staying(ids) ==
    LET first[k \in 0 .. Len(open)] ==
          IF k = 0 THEN <<>>
          ELSE IF open[k].id \in ids THEN first[k - 1]
          ELSE Append(first[k - 1], open[k])
    IN  first[Len(open)]

\* mutations are closed; their keys are done with unless another request
\* holds them
Close(q, ids) ==
    /\ open' = Staying(ids)
    /\ used' = [u \in Mutation |->
                  IF u \in ids /\ \A k \in Req \ {q} : req[k].mut # u THEN {} ELSE used[u]]

\* the rows of the additions among some mutations
Additions(us) == {u.item : u \in {v \in us : v.op = "add"}}

\* assert_mutation_not_locked: an addition never asks
MutationLocked(op, r) == op # "add" /\ <<op, r>> \in blocked

\* ids that no open mutation has and no request holds
FreeMutation == Mutation \ ({u.id : u \in Range(open)} \cup {req[q].mut : q \in Req})

-----------------------------------------------------------------------------
(* A request: the view checks what it loaded, then takes the lock.         *)

Asked(q, op, i, n, loaded) ==
    /\ req[q].pc = "idle"
    /\ req' = [req EXCEPT ![q] =
                 [pc |-> "asked", op |-> op, item |-> i, new |-> n, task |-> FALSE,
                  on |-> row[i].on, until |-> row[i].until,
                  linked |-> row[loaded].linked, ending |-> ending,
                  mut |-> 0, done |-> {}]]
    /\ asks' = IF op = "reconcile" THEN asks ELSE asks + 1
    /\ asks' <= MaxAsk
    /\ UNCHANGED <<method, tables, stripe, lock, faults, hist>>

\* cancel_member_subscription and cancel_cash_member_subscription
AskCancel(q, r) == Active(r) /\ Asked(q, "cancel", r, r, r)

\* resume_member_subscription, can_resume_subscription
AskResume(q, r) == Grace(r) /\ ForSale(PlanOf[r]) /\ Asked(q, "resume", r, r, r)

\* change_member_plan, validate_subscription_transition
AskChange(q, r, n) ==
    /\ r # n /\ MemberOf[r] = MemberOf[n]
    /\ Active(r) \/ Grace(r)
    /\ ForSale(PlanOf[n])
    /\ ~Active(n) /\ ~Grace(n)
    /\ MayHold(r, n)
    /\ Asked(q, "change", r, n, r)

\* cancel_member_plan_change: whether the new row is active is not asked
AskUndo(q, n) ==
    LET r == row[n].from IN
    r # n /\ ForSale(PlanOf[r]) /\ Asked(q, "undo", r, n, n)

\* add_plan_to_subscription_view
AskAdd(q, r) ==
    /\ ForSale(PlanOf[r])
    /\ ~Active(r) /\ ~Grace(r)
    /\ MayHold(r, r)
    /\ Asked(q, "add", r, r, r)

\* reconcile_subscription_mutations, and the same by hand
AskReconcile(q) == open # <<>> /\ Asked(q, "reconcile", AnyRow, AnyRow, AnyRow)

\* process_plan: one active row of a plan that is scheduled for deletion
AskDeletion(q, r) ==
    /\ plan[PlanOf[r]] = "scheduled" /\ Active(r)
    /\ req[q].pc = "idle"
    /\ req' = [req EXCEPT ![q] = [Idle EXCEPT !.pc = "asked", !.op = "cancel",
                                              !.item = r, !.new = r, !.task = TRUE]]
    /\ UNCHANGED <<method, tables, stripe, lock, asks, faults, hist>>

\* CashSubscriptionItemService; the deletion of a plan does not know it
ByCash(x) == method = "cash" /\ ~x.task

FirstStep(x) ==
    IF x.op = "reconcile" THEN "apply"
    ELSE IF ByCash(x) THEN "commit"
    ELSE CASE x.op = "resume" -> "uncancel"
           [] x.op = "change" -> "put"
           [] x.op = "add" -> "bill"
           [] x.op = "cancel" /\ Cardinality({r \in Row : row[r].on}) <= 1 -> "end"
           [] OTHER -> "take"

\* the rules that are asked under the lock
Allowed(x) ==
    /\ x.task => Active(x.item)
    /\ x.op = "resume" => MayHold(x.item, x.item)
    /\ x.op = "undo" => MayHold(x.new, x.item)
    /\ x.op # "reconcile" /\ ~ByCash(x) => ~MutationLocked(x.op, x.item)

\* get_or_create_mutation_strict: a mutation that is open is taken up again
MutationFor(x) ==
    IF x.op = "reconcile" \/ ByCash(x) THEN 0
    ELSE IF IsOpen(x.op, x.item) THEN OpenId(x.op, x.item)
    ELSE CHOOSE u \in FreeMutation : TRUE

\* bound: a request that takes up an open mutation is for the same rows (the
\* README tells what happens otherwise)
SameRows(x) ==
    \A u \in Range(open) : u.op = x.op /\ u.item = x.item => u.new = x.new

Recorded(x, u) ==
    IF u \in {0} \cup {v.id : v \in Range(open)} THEN UNCHANGED <<open, used>>
    ELSE /\ open' = Append(open, [id |-> u, op |-> x.op, item |-> x.item,
                                  new |-> x.new])
         /\ used' = [used EXCEPT ![u] = {}]

\* the request goes on under the lock
Entered(q) ==
    LET x == req[q] IN
    /\ x.pc = "asked" /\ Allowed(x)
    /\ FreeMutation # {} /\ SameRows(x)
    /\ Recorded(x, MutationFor(x))
    /\ req' = [req EXCEPT ![q].pc = FirstStep(x), ![q].mut = MutationFor(x),
                          ![q].linked = IF x.task THEN row[x.item].linked ELSE @]
    /\ lock' = q
    /\ UNCHANGED <<method, row, plan, ending, blocked, qty, ends, inv, asks, faults, hist>>

\* mutant: the lock is taken without looking
EnterAnyway(q) == Entered(q)

\* subscription_lock, then the checks and the mutation of the operation
Enter(q) == lock = "free" /\ Entered(q)

\* CacheLockError, MutationLockedError, ValidationError
TurnAway(q) ==
    /\ req[q].pc = "asked"
    /\ lock # "free" \/ ~Allowed(req[q])
    /\ req' = [req EXCEPT ![q] = Idle]
    /\ UNCHANGED <<method, tables, stripe, lock, asks, faults, hist>>

-----------------------------------------------------------------------------
(* Calls of Stripe.  A key that was used with the same amount is answered  *)
(* as before and nothing happens; with another it is refused.              *)

Used(q) == IF req[q].mut = 0 THEN {} ELSE used[req[q].mut]

\* mutant: a call without its key
RefusedNever(q, key, n) == FALSE

Refused(q, key, n) == \E k \in Used(q) : k[1] = key /\ k[2] # n
Replayed(q, key, n) == <<key, n>> \in Used(q)
Uses(q, key, n) == used' = [used EXCEPT ![req[q].mut] = @ \cup {<<key, n>>}]

\* old_item_is_grace
InGrace(x) == ~x.on /\ x.until = "end"

\* the step after a call, by operation
AfterPut(x) == IF x.op \in {"change", "add"} /\ x.ending THEN "uncancel"
               ELSE IF x.op = "change" /\ ~InGrace(x) THEN "take"
               ELSE "commit"
AfterUncancel(x) == CASE x.op = "resume" -> "put"
                      [] x.op = "change" /\ ~InGrace(x) -> "take"
                      [] OTHER -> "commit"
AfterTake(x) == IF x.op = "undo" THEN "put" ELSE "commit"

Step(q, pc) == req' = [req EXCEPT ![q].pc = pc]

\* an exception: the mutation stays open
Raise(q) == Step(q, "release") /\ UNCHANGED <<method, tables, stripe, lock, asks, faults, hist>>

\* one more of a plan: the quantity is the active rows and one, except that a
\* change reads it from Stripe; an item that is not there is made, with one
\* except by the undo of a change
PutAmount(x, p) ==
    CASE qty[p] > 0 /\ x.op = "change" -> qty[p] + 1
      [] qty[p] = 0 /\ x.op # "undo" -> 1
      [] OTHER -> Wanted(p) + 1

\* Stripe does not have as many of p as there are rows, and did not keep more
Off(p) == qty[p] < Wanted(p) \/ (qty[p] > Wanted(p) /\ p \notin hist.kept)

\* history: the call counts on what has moved; the items of p are as wanted
Counted(moved, p) == hist' = [hist EXCEPT !.astray = @ \/ moved, !.kept = @ \ p]

\* the rows an operation gives and takes, and the plan of the latter
PutRow(x) == IF x.op = "undo" THEN x.item ELSE x.new
TakeRow(x) == IF x.op = "undo" THEN x.new ELSE x.item
TakePlan(x) == PlanOf[TakeRow(x)]

\* SubscriptionItem.modify or create
Put(q) ==
    LET x == req[q]
        p == PlanOf[PutRow(x)]
        key == IF qty[p] > 0 THEN "modify" ELSE "create"
        n == PutAmount(x, p)
    IN  /\ x.pc = "put" /\ ~Refused(q, key, n)
        /\ qty' = IF Replayed(q, key, n) THEN qty ELSE [qty EXCEPT ![p] = n]
        /\ Uses(q, key, n)
        /\ Step(q, AfterPut(x))
        /\ Counted(\/ Active(PutRow(x))
                   \/ x.op = "change" /\ \/ x.on # Active(x.item) \/ Off(p)
                                         \/ InGrace(x) /\ Off(TakePlan(x))
                   \/ Replayed(q, key, n) /\ qty[p] # n,
                   IF x.op = "change" \/ Replayed(q, key, n) THEN {} ELSE {p})
        /\ UNCHANGED <<method, tables, ends, inv, lock, asks, faults>>

PutRefused(q) ==
    LET p == PlanOf[PutRow(req[q])] IN
    /\ req[q].pc = "put"
    /\ Refused(q, IF qty[p] > 0 THEN "modify" ELSE "create", PutAmount(req[q], p))
    /\ Raise(q)

\* one less of a plan, on the item that the row in memory names
Found(x) == x.linked /\ qty[TakePlan(x)] > 0

\* SubscriptionItem.modify: others keep the plan
TakeSome(q) ==
    LET x == req[q]
        n == Wanted(TakePlan(x)) - 1
    IN  /\ x.pc = "take" /\ Found(x) /\ n > 0 /\ ~Refused(q, "take", n)
        /\ qty' = IF Replayed(q, "take", n) THEN qty
                  ELSE [qty EXCEPT ![TakePlan(x)] = n]
        /\ Uses(q, "take", n)
        /\ Step(q, AfterTake(x))
        /\ Counted(~Active(TakeRow(x)) \/ (Replayed(q, "take", n) /\ qty[TakePlan(x)] # n),
                   {})
        /\ UNCHANGED <<method, tables, ends, inv, lock, asks, faults>>

\* Stripe deletes the item of a plan: nothing names it any more
Deleted(p) ==
    /\ qty' = [qty EXCEPT ![p] = 0]
    /\ row' = [r \in Row |-> [row[r] EXCEPT !.linked = @ /\ PlanOf[r] # p]]
StillLinked(x, p) == [x EXCEPT !.linked = @ /\ TakePlan(x) # p]

\* SubscriptionItem.delete: nobody keeps the plan; another item cannot be
\* deleted with the same key
TakeAll(q) ==
    LET x == req[q]
        p == TakePlan(x)
    IN  /\ x.pc = "take" /\ Found(x) /\ Wanted(p) <= 1
        /\ ~Replayed(q, "delete", 0)
        /\ Deleted(p)
        /\ Uses(q, "delete", 0)
        /\ req' = [r \in Req |-> IF r = q THEN [x EXCEPT !.pc = AfterTake(x)]
                                 ELSE StillLinked(req[r], p)]
        /\ Counted(~Active(TakeRow(x)), {p})
        /\ UNCHANGED <<method, plan, ending, open, blocked, ends, inv, lock, asks, faults>>

TakeRefused(q) ==
    LET x == req[q]
        n == Wanted(TakePlan(x)) - 1
    IN  /\ x.pc = "take"
        /\ \/ Found(x) /\ n > 0 /\ Refused(q, "take", n)
           \/ Found(x) /\ n <= 0 /\ Replayed(q, "delete", 0)
           \/ ~Found(x) /\ x.op = "change"
        /\ Raise(q)

\* no such item: an undo passes over it, a cancellation closes the row and
\* leaves its mutation open
TakeNone(q) ==
    LET x == req[q] IN
    /\ x.pc = "take" /\ ~Found(x) /\ x.op \in {"undo", "cancel"}
    /\ row' = IF x.op = "undo" THEN row
              ELSE [row EXCEPT ![x.item].on = FALSE, ![x.item].until = "end"]
    /\ Step(q, IF x.op = "undo" THEN "put" ELSE "release")
    /\ Counted(x.op = "undo" /\ (Active(x.new) \/ Off(TakePlan(x))), {})
    /\ UNCHANGED <<method, plan, ending, open, blocked, stripe, lock, asks, faults>>

\* cancel_item of the last active row: Stripe's flag, then the column
EndAtPeriodEnd(q) ==
    /\ req[q].pc = "end"
    /\ ends' = (ends \/ ~Replayed(q, "end", 0))
    /\ Uses(q, "end", 0)
    /\ Step(q, "flag")
    /\ hist' = [hist EXCEPT !.kept = {p \in Plan : qty[p] > 0},
                            !.astray = @ \/ ~Active(req[q].item)]
    /\ UNCHANGED <<method, tables, qty, inv, lock, asks, faults>>

Flag(q) ==
    /\ req[q].pc = "flag"
    /\ ending' = TRUE
    /\ Step(q, "commit")
    /\ UNCHANGED <<method, row, plan, open, blocked, stripe, lock, asks, faults, hist>>

\* Stripe's flag is cleared: always by a resumption, and if the subscription
\* was loaded as ending by a change (whose call has a key, and which saves the
\* column) and by an addition
Uncancel(q) ==
    LET x == req[q] IN
    /\ x.pc = "uncancel" /\ x.op # "add"
    /\ IF x.op = "change"
         THEN /\ ends' = (ends /\ Replayed(q, "uncancel", 0))
              /\ Uses(q, "uncancel", 0)
              /\ ending' = FALSE
         ELSE ends' = FALSE /\ UNCHANGED <<used, ending>>
    /\ req' = [req EXCEPT ![q].pc = AfterUncancel(x),
                          ![q].ending = @ /\ x.op # "change"]
    /\ UNCHANGED <<method, row, plan, open, blocked, qty, inv, lock, asks, faults, hist>>

\* an addition first deletes the items that no row wants: all with one key, so
\* that a second deletion is refused
Unwanted(x) == {p \in Plan \ {PlanOf[x.item]} : qty[p] > 0 /\ Wanted(p) = 0}

UncancelForAdd(q) ==
    /\ req[q].pc = "uncancel" /\ req[q].op = "add"
    /\ Unwanted(req[q]) = {}
    /\ ends' = FALSE
    /\ Step(q, "commit")
    /\ UNCHANGED <<method, tables, qty, inv, used, lock, asks, faults, hist>>

CleanUp(q) ==
    LET x == req[q] IN
    /\ x.pc = "uncancel" /\ x.op = "add"
    /\ \E p \in Unwanted(x) :
         /\ Deleted(p)
         /\ req' = [r \in Req |-> IF r = q
                                    THEN [x EXCEPT !.pc = IF Unwanted(x) = {p} THEN @ ELSE "release"]
                                    ELSE StillLinked(req[r], p)]
         /\ Counted(FALSE, {p})
    /\ Uses(q, "delete", 0)
    /\ UNCHANGED <<method, plan, ending, open, blocked, ends, inv, lock, asks, faults>>

-----------------------------------------------------------------------------
(* The invoice of an addition.                                             *)

\* Invoice.create and its items, with keys: a second time is answered as before
Bill(q) ==
    LET r == req[q].item IN
    /\ req[q].pc = "bill"
    /\ inv' = IF inv[r] \in {"none", "retry"} THEN [inv EXCEPT ![r] = "draft"] ELSE inv
    /\ Step(q, "finalize")
    /\ UNCHANGED <<method, tables, qty, ends, used, lock, asks, faults, hist>>

\* Invoice.finalize_invoice, and the local invoice: nothing due is paid
Finalize(q) ==
    LET r == req[q].item IN
    /\ req[q].pc = "finalize" /\ inv[r] = "draft"
    /\ \/ inv' = [inv EXCEPT ![r] = "open"] /\ Step(q, "pay")
       \/ inv' = [inv EXCEPT ![r] = "paid"] /\ Step(q, "put")
    /\ Counted(Active(r), {})
    /\ UNCHANGED <<method, tables, qty, ends, used, lock, asks, faults>>

\* Stripe refuses to finalize an invoice a second time
FinalizeRefused(q) ==
    /\ req[q].pc = "finalize" /\ inv[req[q].item] # "draft"
    /\ Raise(q)

\* Invoice.pay: paid, declined, or the bank asks the member to confirm; the
\* last two are exceptions
PayInvoice(q) ==
    LET r == req[q].item IN
    /\ req[q].pc = "pay"
    /\ \/ inv' = [inv EXCEPT ![r] = "paid"] /\ Step(q, "put")
       \/ inv' = inv /\ Step(q, "release")
       \/ inv' = [inv EXCEPT ![r] = "attempted"] /\ Step(q, "release")
    /\ UNCHANGED <<method, tables, qty, ends, used, lock, asks, faults, hist>>

-----------------------------------------------------------------------------
(* The last transaction of an operation.                                   *)

\* what an operation does to the rows; u is access_until of the row it closes
Moved(t, op, i, n, u) ==
    CASE op = "cancel" -> [t EXCEPT ![i].on = FALSE, ![i].until = "end"]
      [] op = "resume" -> [t EXCEPT ![i].on = TRUE, ![i].until = "none"]
      [] op = "change" -> [t EXCEPT ![i].on = FALSE, ![i].until = u,
                                    ![n].on = TRUE, ![n].from = i]
      [] op = "undo" -> [t EXCEPT ![i].on = TRUE, ![i].until = "none",
                                  ![n].on = FALSE, ![n].until = "past", ![n].from = n]
      [] op = "add" -> [t EXCEPT ![i].on = TRUE]

\* the closed row of a change keeps the access_until that was loaded
KeptUntil(x) == IF x.until = "none" THEN "end" ELSE x.until

\* the row names the item that was put, except that an added row that existed
\* keeps what it named
Named(t, x) ==
    LET r == PutRow(x) IN
    IF x.op = "cancel" \/ (x.op = "add" /\ row[r] # NoRow(r)) THEN t
    ELSE [t EXCEPT ![r].linked = qty[PlanOf[r]] > 0]

Commit(q) ==
    LET x == req[q] IN
    /\ x.pc = "commit" /\ ~ByCash(x)
    /\ row' = Named(Moved(row, x.op, x.item, x.new, KeptUntil(x)), x)
    /\ ending' = (ending /\ x.op \notin {"resume", "add"})
    /\ Close(q, {x.mut})
    /\ inv' = IF x.op = "add" THEN [inv EXCEPT ![x.item] = "none"] ELSE inv
    /\ blocked' = IF x.op = "add" THEN blocked ELSE blocked \cup {<<x.op, x.item>>}
    /\ req' = [req EXCEPT ![q].pc = IF x.op = "change" THEN "apply" ELSE "release",
                          ![q].mut = 0]
    /\ UNCHANGED <<method, plan, qty, ends, lock, asks, faults, hist>>

\* CashSubscriptionItemService and add_plan for cash: one transaction
CommitCash(q) ==
    LET x == req[q]
        moved == Moved(row, x.op, x.item, x.new, KeptUntil(x))
    IN  /\ x.pc = "commit" /\ ByCash(x)
        /\ row' = IF x.op = "undo" THEN [moved EXCEPT ![x.item].from = x.item] ELSE moved
        /\ ending' = CASE x.op = "cancel" -> ending \/ Cardinality({r \in Row : Active(r)}) <= 1
                       [] x.op = "resume" -> FALSE
                       [] OTHER -> ending
        /\ Step(q, "release")
        /\ UNCHANGED <<method, plan, open, blocked, stripe, lock, asks, faults, hist>>

-----------------------------------------------------------------------------
(* StripeSubscriptionReconciler.reconcile                                  *)

\* mutant: an addition whose payment waits for the member is given up
GivenUpEarly(u) == u.op = "add" /\ inv[u.item] \in {"open", "attempted", "void", "retry"}

\* an addition is given up when its invoice was never tried, or was void, or
\* was not there for the second time
GivenUp(u) == u.op = "add" /\ inv[u.item] \in {"open", "void", "retry"}
PutOff(u) == u.op = "add" /\ inv[u.item] = "none"

\* what one open mutation does to the rows.  A row that did not exist names
\* the item there is, for an addition
Applied(t, u) ==
    LET moved == Moved(t, u.op, u.item, u.new, "end") IN
    IF GivenUp(u) \/ PutOff(u) THEN t
    ELSE CASE u.op = "undo" -> [moved EXCEPT ![u.item].from = u.item]
           [] u.op = "add" /\ t[u.item] = NoRow(u.item) ->
                [moved EXCEPT ![u.item].linked = qty[PlanOf[u.item]] > 0]
           [] OTHER -> moved

AllApplied ==
    LET after[k \in 0 .. Len(open)] ==
          IF k = 0 THEN row ELSE Applied(after[k - 1], open[k])
    IN  after[Len(open)]

\* first half, one transaction: every open mutation in its order
Apply(q) ==
    LET all == Range(open)
        failed == {u \in all : GivenUp(u)}
        waiting == {u \in all : PutOff(u)}
    IN  /\ req[q].pc = "apply"
        /\ row' = AllApplied
        /\ Close(q, {u.id : u \in failed})
        /\ inv' = [r \in Row |-> CASE r \in Additions(failed) -> "none"
                                   [] r \in Additions(waiting) -> "retry"
                                   [] OTHER -> inv[r]]
        /\ req' = [req EXCEPT ![q].pc = "sync",
                              ![q].done = {u.id : u \in all \ (failed \cup waiting)}]
        /\ UNCHANGED <<method, plan, ending, blocked, qty, ends, lock, asks, faults, hist>>

\* an invoice that was never tried is voided, and the transaction fails
ApplyFails(q) ==
    /\ faults < MaxFault
    /\ req[q].pc = "apply"
    /\ \E u \in Range(open) :
         u.op = "add" /\ inv[u.item] = "open" /\ inv' = [inv EXCEPT ![u.item] = "void"]
    /\ faults' = faults + 1
    /\ Step(q, "release")
    /\ UNCHANGED <<method, tables, qty, ends, used, lock, asks, hist>>

\* second half: Stripe's items follow the active rows, plan by plan
InStep(p) == qty[p] = Wanted(p) /\ \A r \in ActiveOf(p) : row[r].linked

Sync(q) ==
    /\ req[q].pc = "sync" /\ method = "stripe"
    /\ \E p \in Plan :
         /\ ~InStep(p)
         /\ qty' = [qty EXCEPT ![p] = Wanted(p)]
         /\ row' = [r \in Row |-> IF PlanOf[r] # p THEN row[r]
                                  ELSE [row[r] EXCEPT !.linked = row[r].on
                                                        \/ (@ /\ Wanted(p) > 0)]]
         /\ req' = [r \in Req |-> IF Wanted(p) > 0 THEN req[r] ELSE StillLinked(req[r], p)]
    /\ UNCHANGED <<method, plan, ending, open, blocked, ends, inv, used, lock, asks, faults, hist>>

\* then Stripe's flag, if the column as it is in memory is not what the rows say
SyncFlag(q) ==
    LET x == req[q] IN
    /\ x.pc = "sync" /\ method = "stripe" /\ \A p \in Plan : InStep(p)
    /\ IF x.ending = AnyActive
         THEN ends' = ~AnyActive /\ ending' = ~AnyActive
         ELSE UNCHANGED <<ends, ending>>
    /\ Step(q, "settle")
    /\ hist' = [hist EXCEPT !.astray = FALSE, !.kept = {}]
    /\ UNCHANGED <<method, row, plan, open, blocked, qty, inv, used, lock, asks, faults>>

\* a subscription that is paid in cash has no id to ask Stripe for
SyncCash(q) == req[q].pc = "sync" /\ method = "cash" /\ Raise(q)

\* the mutations that were applied are finished
Settle(q) ==
    /\ req[q].pc = "settle"
    /\ Close(q, req[q].done)
    /\ inv' = [r \in Row |-> IF r \in Additions({u \in Range(open) : u.id \in req[q].done})
                               THEN "none" ELSE inv[r]]
    /\ Step(q, "release")
    /\ UNCHANGED <<method, row, plan, ending, blocked, qty, ends, lock, asks, faults, hist>>

-----------------------------------------------------------------------------
(* The lock, the owner, time and faults.                                   *)

\* subscription_lock gives the lock back only if it still has its token; the
\* look and the deletion are two calls of the cache
Release(q) ==
    /\ req[q].pc = "release"
    /\ req' = [req EXCEPT ![q] = IF lock = q THEN [Idle EXCEPT !.pc = "drop"] ELSE Idle]
    /\ UNCHANGED <<method, tables, stripe, lock, asks, faults, hist>>

Drop(q) ==
    /\ req[q].pc = "drop"
    /\ lock' = "free"
    /\ req' = [req EXCEPT ![q] = Idle]
    /\ UNCHANGED <<method, tables, stripe, asks, faults, hist>>

\* 300 seconds: the holder died
LockExpires ==
    /\ lock = "dead"
    /\ lock' = "free"
    /\ UNCHANGED <<method, tables, stripe, req, asks, faults, hist>>

\* 300 seconds: the holder works on
Overrun ==
    /\ lock \in Slow /\ faults < MaxFault
    /\ lock' = "free"
    /\ faults' = faults + 1
    /\ hist' = [hist EXCEPT !.late = TRUE]
    /\ UNCHANGED <<method, tables, stripe, req, asks>>

\* history: the rows that unfinished work may still activate
Unfinished == {PutRow(u) : u \in {v \in Range(open) \cup {req[q] : q \in Req} :
                                      v.op \notin {"cancel", "reconcile"}}}

\* MembershipPlanViewSet.perform_destroy
DeletePlan(p) ==
    /\ plan[p] = "live"
    /\ plan' = [plan EXCEPT ![p] = IF ActiveOf(p) # {} THEN "scheduled" ELSE "deleted"]
    /\ hist' = [hist EXCEPT !.leftover = @ \cup {r \in Unfinished : PlanOf[r] = p}]
    /\ UNCHANGED <<method, row, ending, open, blocked, stripe, lock, req, asks, faults>>

\* process_plan, once no active row remains
FinalizePlan(p) ==
    /\ plan[p] = "scheduled" /\ ActiveOf(p) = {}
    /\ plan' = [plan EXCEPT ![p] = "deleted"]
    /\ UNCHANGED <<method, row, ending, open, blocked, stripe, lock, req, asks, faults, hist>>

\* the next period begins, and what was paid for until then is over
EndPeriod ==
    /\ ~ends /\ \A q \in Req : req[q].pc = "idle"
    /\ row' = [r \in Row |-> IF row[r].until = "end" THEN [row[r] EXCEPT !.until = "past"]
                             ELSE row[r]]
    /\ blocked' = {}
    /\ row' # row \/ blocked # {}
    /\ UNCHANGED <<method, plan, ending, open, stripe, lock, req, asks, faults, hist>>

\* a call of Stripe does not come back with an answer
Fail(q) ==
    /\ faults < MaxFault
    /\ req[q].pc \in {"uncancel", "put", "take", "end", "bill", "finalize", "pay",
                      "apply", "sync"}
    /\ faults' = faults + 1
    /\ Step(q, "release")
    /\ UNCHANGED <<method, tables, stripe, lock, asks, hist>>

\* a worker dies
Crash(q) ==
    /\ faults < MaxFault
    /\ req[q].pc \notin {"idle", "asked"}
    /\ faults' = faults + 1
    /\ req' = [req EXCEPT ![q] = Idle]
    /\ lock' = IF lock = q THEN "dead" ELSE lock
    /\ UNCHANGED <<method, tables, stripe, asks, hist>>

-----------------------------------------------------------------------------
\* a subscription that runs, with some of its plans
Init ==
    /\ method \in Method
    /\ \E held \in Held :
         row = [r \in Row |->
                  IF r \in held
                    THEN [NoRow(r) EXCEPT !.on = TRUE, !.from = Source[r],
                                          !.linked = method = "stripe"]
                  ELSE IF r \in {Source[h] : h \in held}
                    THEN [NoRow(r) EXCEPT !.until = "past"]
                    ELSE NoRow(r)]
    /\ plan = [p \in Plan |-> "live"]
    /\ ending = FALSE
    /\ qty = [p \in Plan |-> IF method = "stripe" THEN Wanted(p) ELSE 0]
    /\ ends = FALSE
    /\ open = <<>>
    /\ used = [u \in Mutation |-> {}]
    /\ blocked = {}
    /\ inv = [r \in Row |-> "none"]
    /\ lock = "free"
    /\ req = [q \in Req |-> Idle]
    /\ asks = 0 /\ faults = 0
    /\ hist = [astray |-> FALSE, kept |-> {}, late |-> FALSE, leftover |-> {}]

Ask(q) ==
    \/ \E r \in Row : AskCancel(q, r) \/ AskResume(q, r) \/ AskUndo(q, r)
                      \/ AskAdd(q, r) \/ AskDeletion(q, r)
    \/ \E r, n \in Row : AskChange(q, r, n)
    \/ AskReconcile(q)

\* a request that has the lock, or had it, goes on
Work(q) ==
    \/ Put(q) \/ PutRefused(q)
    \/ TakeSome(q) \/ TakeAll(q) \/ TakeRefused(q) \/ TakeNone(q)
    \/ EndAtPeriodEnd(q) \/ Flag(q)
    \/ Uncancel(q) \/ UncancelForAdd(q) \/ CleanUp(q)
    \/ Bill(q) \/ Finalize(q) \/ FinalizeRefused(q) \/ PayInvoice(q)
    \/ Commit(q) \/ CommitCash(q)
    \/ Apply(q) \/ Sync(q) \/ SyncFlag(q) \/ SyncCash(q) \/ Settle(q)
    \/ Release(q) \/ Drop(q)

Next ==
    \/ \E q \in Req : Ask(q) \/ Enter(q) \/ TurnAway(q) \/ Work(q) \/ Fail(q) \/ ApplyFails(q) \/ Crash(q)
    \/ \E p \in Doomed : DeletePlan(p) \/ FinalizePlan(p)
    \/ LockExpires \/ Overrun \/ EndPeriod

Spec == Init /\ [][Next]_vars

-----------------------------------------------------------------------------
(* Properties.                                                             *)

\* Types; and a key of a mutation has one amount (stripe_idempotency_key).
TypeOK ==
    /\ method \in Method
    /\ row \in [Row -> RowRecord]
    /\ plan \in [Plan -> {"live", "scheduled", "deleted"}]
    /\ ending \in BOOLEAN /\ ends \in BOOLEAN
    /\ qty \in [Plan -> Nat]
    /\ open \in Seq(MutationRecord)
    /\ used \in [Mutation -> SUBSET (Key \X Nat)]
    /\ \A u \in Mutation : \A j, k \in used[u] : j[1] = k[1] => j = k
    /\ blocked \subseteq Op \X Row
    /\ inv \in [Row -> {"none", "retry", "draft", "open", "attempted", "paid", "void"}]
    /\ lock \in Req \cup {"free", "dead"}
    /\ req \in [Req -> ReqRecord]
    /\ asks \in 0 .. MaxAsk /\ faults \in 0 .. MaxFault
    /\ hist \in HistRecord

\* nothing is under way and nothing is left to finish
Quiet == open = <<>> /\ \A q \in Req : req[q].pc \in {"idle", "asked"}

\* When every operation is over and every mutation is closed, Stripe bills
\* each plan for the rows that are active, whichever operations failed, died
\* and were repeated on the way (service_subscription, service_add_plan and the
\* reconciler).  Three cases are set apart, and the README tells how each
\* comes about: a lock that ran out under its holder; a call that counted on a
\* row which had moved since it was loaded, or was answered from a key of an
\* earlier attempt, or an operation that passed over a plan whose quantity was
\* off, until a reconciliation comes; and the items that Stripe keeps after the
\* last row.
QuantityFollowsRows ==
    Quiet /\ method = "stripe" /\ ~hist.astray /\ ~hist.late
      => \A p \in Plan : ~Off(p)

\* A plan whose deletion is final has no member, except through work that had
\* begun before the owner deleted it (perform_destroy, process_plan against the
\* five operations and the replay of their mutations).
DeletedPlanStaysEmpty ==
    \A r \in Row : plan[PlanOf[r]] = "deleted" /\ row[r].on => r \in hist.leftover

\* a mutation is open that takes the plan away again which an older one adds
AddedAndTaken(r) ==
    \E j, k \in DOMAIN open :
        /\ j < k
        /\ open[j].op = "add" /\ open[j].item = r
        /\ open[k].op \in {"cancel", "change", "undo"} /\ TakeRow(open[k]) = r

\* The mutation of an addition whose invoice was paid, or waits for the member
\* to confirm, is only closed by giving the plan to the member, who may have
\* left it again since (add_plan_to_existing_subscription and
\* StripeSubscriptionReconciler).
PaidAdditionLands ==
    [][\A r \in Row : IsOpen("add", r) /\ ~IsOpen("add", r)' /\ inv[r] \in {"paid", "attempted"}
         => row'[r].on \/ AddedAndTaken(r) \/ hist.late]_vars
=============================================================================
