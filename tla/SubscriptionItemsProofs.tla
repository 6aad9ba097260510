----------------------- MODULE SubscriptionItemsProofs -----------------------
(***************************************************************************)
(* Proofs about SubscriptionItems, for any rows, plans and groups, any     *)
(* number of requests, mutations and faults.                               *)
(***************************************************************************)
EXTENDS SubscriptionItems, CountingProofs

\* The steps between the lock and the last transaction of an operation.
Calling == {"uncancel", "put", "take", "end", "flag", "bill", "finalize", "pay", "commit"}

\* The operations that lower a quantity, and those that raise one.
Takers == {"cancel", "change", "undo"}
Putters == {"resume", "change", "undo", "add"}

\* What an operation is about: one row, or two of one member.
Fits(y) ==
    /\ y.op \in {"change", "undo"} =>
          y.item # y.new /\ MemberOf[y.item] = MemberOf[y.new]
    /\ y.op \in {"cancel", "resume", "add"} => y.item = y.new

\* Which operations come by a step.
OnItsWay(x) ==
    /\ x.pc \in {"end", "flag"} => x.op = "cancel"
    /\ x.pc \in {"bill", "finalize", "pay"} => x.op = "add"
    /\ x.pc = "take" => x.op \in Takers /\ (x.op = "change" => ~InGrace(x))
    /\ x.pc = "uncancel" => x.op \in Putters \ {"undo"}
    /\ x.pc = "put" => x.op \in Putters
    /\ x.pc = "commit" => x.op # "reconcile"
    /\ x.pc \in Calling => (x.mut = 0 <=> ByCash(x))

\* A deleted plan is only given by work that had begun.
BegunBefore(y) ==
    y.op \in Putters /\ plan[PlanOf[PutRow(y)]] # "live" => PutRow(y) \in hist.leftover

\* The calls without an amount.
NoAmount == {"delete", "end", "uncancel"}

\* Mutations differ in their ids, and in what they do to which row.
OneOf(us) == \A u, v \in us : u.id = v.id \/ (u.op = v.op /\ u.item = v.item) => u = v

\* What rows, requests and mutations are about; calls without an amount have
\* none in their key.
WorkFits ==
    /\ \A r \in Row : MemberOf[row[r].from] = MemberOf[r]
    /\ \A q \in Req : Fits(req[q]) /\ OnItsWay(req[q])
    /\ \A u \in Range(open) : Fits(u)
    /\ OneOf(Range(open))
    /\ \A u \in Mutation : \A k \in used[u] : k[1] \in NoAmount => k[2] = 0

\* A deleted plan is left to those who had begun.
LeavesPlans ==
    /\ \A q \in Req : req[q].pc # "idle" => BegunBefore(req[q])
    /\ \A u \in Range(open) : BegunBefore(u)
    /\ DeletedPlanStaysEmpty

-----------------------------------------------------------------------------
(* As long as no lock has run out under its holder.                        *)

\* Only the holder of the lock works.
HoldsLock(q) == req[q].pc \notin {"idle", "asked"} => lock = q

\* its mutation is open
Registered(q) ==
    req[q].pc \in Calling /\ req[q].mut # 0 =>
        [id |-> req[q].mut, op |-> req[q].op, item |-> req[q].item,
         new |-> req[q].new] \in Range(open)

\* An addition that gives its plan has a paid invoice.
Invoiced(q) ==
    /\ req[q].pc = "pay" => inv[req[q].item] = "open"
    /\ req[q].op = "add" /\ ~ByCash(req[q]) /\ req[q].pc \in {"put", "uncancel", "commit"} =>
          inv[req[q].item] = "paid"

\* what its reconciliation applied has landed
Landed(q) ==
    req[q].pc \in {"sync", "settle"} =>
        \A j \in DOMAIN open : open[j].op = "add" /\ open[j].id \in req[q].done =>
            row[open[j].item].on \/ AddedAndTaken(open[j].item)

\* As long as no lock has run out under its holder.
AllLanded == ~hist.late => \A q \in Req : Landed(q)

Alone == ~hist.late => \A q \in Req : HoldsLock(q) /\ Registered(q) /\ Invoiced(q)

-----------------------------------------------------------------------------
(* Quantities.                                                             *)

\* An addition that the next reconciliation will replay.
Solid(u) == u.op = "add" => inv[u.item] \in {"draft", "attempted", "paid"}
Touches(u, p) == p \in {PlanOf[u.item], PlanOf[u.new]}

\* Why Stripe may have too few of p, and too many
Lacks(u, p) ==
    /\ Touches(u, p) /\ Solid(u)
    /\ u.op \in {"resume", "add"} => row[u.item].on
Exceeds(u, p) ==
    /\ Touches(u, p)
    /\ u.op = "add" => inv[u.item] = "paid"

\* n of p would be as many as Stripe has, but for what the mutations us left undone
Agrees(p, n, us) ==
    /\ qty[p] < n => \E u \in us : Lacks(u, p)
    /\ qty[p] > n => p \in hist.kept \/ \E u \in us : Exceeds(u, p)

\* The operation has raised the quantity, and its row is not active yet.
HasPut(x) ==
    \/ x.op = "resume" /\ x.pc = "commit"
    \/ x.op = "change" /\ x.pc \in {"uncancel", "take", "commit"}
    \/ x.op = "add" /\ x.pc \in {"uncancel", "commit"}
    \/ x.op = "undo" /\ x.pc = "commit"

\* The operation has lowered the quantity, and its row is still active.
HasTaken(x) ==
    \/ x.op = "change" /\ x.pc = "commit" /\ ~InGrace(x)
    \/ x.op = "undo" /\ x.pc \in {"put", "commit"}
    \/ x.op = "cancel" /\ x.pc = "commit"

\* The mutations that are open besides its own.
Others(x) == {u \in Range(open) : u.id # x.mut}

\* It has moved the quantity of p.
HasDone(x, p) ==
    \/ HasPut(x) /\ p = PlanOf[PutRow(x)]
    \/ HasTaken(x) /\ p = TakePlan(x)

\* the last row is left, and what Stripe keeps of it is known
LastLeft(x) ==
    /\ \A r \in Row : row[r].on <=> r = x.item
    /\ \A p \in Plan : qty[p] > 0 => p \in hist.kept

\* What the operation under way has done so far.
EvenAt(q) == LET x == req[q] IN
    /\ HasPut(x) => /\ ~row[PutRow(x)].on
                    /\ Agrees(PlanOf[PutRow(x)], Wanted(PlanOf[PutRow(x)]) + 1, Others(x))
    /\ HasPut(x) /\ x.op = "change" /\ InGrace(x) => ~row[x.item].on /\ ~Off(TakePlan(x))
    /\ HasTaken(x) =>
         \/ row[TakeRow(x)].on /\ qty[TakePlan(x)] = Wanted(TakePlan(x)) - 1
         \/ x.op = "undo" /\ ~row[TakeRow(x)].on /\ ~Off(TakePlan(x))
         \/ x.op = "cancel" /\ LastLeft(x)
    /\ x.pc = "flag" => LastLeft(x)
    /\ x.pc = "end" => Cardinality({r \in Row : row[r].on}) <= 1
    /\ x.pc = "settle" => \A p \in Plan : qty[p] = Wanted(p)

\* Every quantity is explained, by an open mutation or the operation under way.
Even ==
    /\ \A p \in Plan :
         (\A q \in Req : ~HasDone(req[q], p)) => Agrees(p, Wanted(p), Range(open))
    /\ \A q \in Req : EvenAt(q)

\* The invariant of what Stripe bills.
Billed == method = "stripe" /\ ~hist.late /\ ~hist.astray => Even

\* The inductive invariant.
WorkInv == TypeOK /\ WorkFits /\ LeavesPlans /\ Alone /\ AllLanded

-----------------------------------------------------------------------------
(* What the recursive functions return.                                    *)

\* What a table holds after a row is added.
LEMMA AppendRange ==
    ASSUME NEW T, NEW s \in Seq(T), NEW e \in T
    PROVE  Range(Append(s, e)) = Range(s) \cup {e}
PROOF
<1>1. Len(s) \in Nat /\ DOMAIN s = 1..Len(s) /\ DOMAIN Append(s, e) = 1..(Len(s) + 1)
  OBVIOUS
<1>2. \A k \in 1..Len(s) : Append(s, e)[k] = s[k]
  OBVIOUS
<1>3. Append(s, e)[Len(s) + 1] = e /\ Len(s) + 1 \in 1..(Len(s) + 1)
  BY <1>1
<1>4. QED BY <1>1, <1>2, <1>3 DEF Range

\* Closing mutations leaves the others in their order, and makes none.
LEMMA StayingIs ==
    ASSUME open \in Seq(MutationRecord), NEW ids
    PROVE  /\ Staying(ids) \in Seq(MutationRecord)
           /\ Range(Staying(ids)) = {u \in Range(open) : u.id \notin ids}
           /\ \A j, i \in 1..Len(open) :
                j < i /\ open[j].id \notin ids /\ open[i].id \notin ids =>
                  \E m, n \in 1..Len(Staying(ids)) :
                    m < n /\ Staying(ids)[m] = open[j] /\ Staying(ids)[n] = open[i]
PROOF
<1> DEFINE N == Len(open)
           S == Seq(MutationRecord)
           G == [z \in (1..N) \X S |-> IF open[z[1]].id \in ids THEN z[2]
                                       ELSE Append(z[2], open[z[1]])]
           first == CHOOSE f : f = [k \in 0 .. Len(open) |->
                                      IF k = 0 THEN <<>>
                                      ELSE IF open[k].id \in ids THEN f[k - 1]
                                      ELSE Append(f[k - 1], open[k])]
<1>1. N \in Nat /\ <<>> \in S /\ \A k \in 1..N : open[k] \in MutationRecord
  OBVIOUS
<1>2. G \in [(1..N) \X S -> S]
  OBVIOUS
<1>3. PICK f \in [0..N -> S] :
        f[0] = <<>> /\ \A i \in 1..N : f[i] = G[<<i, f[i - 1]>>]
  <2>1. N \in Nat /\ <<>> \in S
    BY <1>1
  <2>2. Stepwise(N, S, <<>>, G)
    <3> HIDE DEF N, S, G
    <3>1. QED BY <2>1, <1>2, StepByStep
  <2>3. QED BY <2>2 DEF Stepwise
<1>4. ASSUME NEW k \in 0..N
      PROVE  f[k] = IF k = 0 THEN <<>>
                    ELSE IF open[k].id \in ids THEN f[k - 1]
                    ELSE Append(f[k - 1], open[k])
  <2>1. CASE k = 0
    BY <1>3, <2>1
  <2>2. CASE k # 0
    <3>1. k \in 1..N /\ k - 1 \in 0..N
      BY <2>2
    <3>2. f[k - 1] \in S
      BY <1>3, <3>1
    <3>3. <<k, f[k - 1]>> \in (1..N) \X S
      BY <3>1, <3>2
    <3>4. f[k] = G[<<k, f[k - 1]>>]
      BY <1>3, <3>1
    <3>5. QED BY <3>3, <3>4, <2>2
  <2>3. QED BY <2>1, <2>2
<1>5. f = [k \in 0 .. Len(open) |-> IF k = 0 THEN <<>>
                                    ELSE IF open[k].id \in ids THEN f[k - 1]
                                    ELSE Append(f[k - 1], open[k])]
  BY <1>3, <1>4
<1>6. first = [k \in 0 .. Len(open) |-> IF k = 0 THEN <<>>
                                        ELSE IF open[k].id \in ids THEN first[k - 1]
                                        ELSE Append(first[k - 1], open[k])]
  BY <1>5
<1>7. Staying(ids) = first[N]
  BY DEF Staying
<1> HIDE DEF first
<1> DEFINE Left(k) == {u \in {open[j] : j \in 1..k} : u.id \notin ids}
           InOrder(k) ==
             \A j, i \in 1..k : j < i /\ open[j].id \notin ids /\ open[i].id \notin ids =>
               \E m, n \in 1..Len(first[k]) :
                 m < n /\ first[k][m] = open[j] /\ first[k][n] = open[i]
           Claim == {k \in 0..N : first[k] \in S /\ Range(first[k]) = Left(k) /\ InOrder(k)}
<1>8. 0 \in Claim
  <2>1. first[0] = <<>>
    BY <1>6
  <2>2. Range(<<>>) = {} /\ Left(0) = {}
    BY DEF Range
  <2>3. InOrder(0)
    OBVIOUS
  <2>4. QED BY <2>1, <2>2, <2>3
<1>9. ASSUME NEW k \in 1..N, k - 1 \in Claim PROVE k \in Claim
  <2>1. first[k] = IF open[k].id \in ids THEN first[k - 1]
                   ELSE Append(first[k - 1], open[k])
    <3>1. k \in 0 .. Len(open) /\ k # 0
      OBVIOUS
    <3> HIDE DEF N
    <3>2. QED BY <1>6, <3>1
  <2>2. first[k - 1] \in S /\ Range(first[k - 1]) = Left(k - 1) /\ InOrder(k - 1)
    BY <1>9
  <2>3. {open[j] : j \in 1..k} = {open[j] : j \in 1..(k - 1)} \cup {open[k]}
    OBVIOUS
  <2>4. CASE open[k].id \in ids
    <3>1. first[k] = first[k - 1]
      BY <2>1, <2>4
    <3>2. Left(k) = Left(k - 1)
      BY <2>3, <2>4
    <3>3. \A j \in 1..k : open[j].id \notin ids => j \in 1..(k - 1)
      BY <2>4
    <3>4. InOrder(k)
      BY <2>2, <3>1, <3>3
    <3> HIDE DEF Left, S, InOrder
    <3>5. QED BY <2>2, <3>1, <3>2, <3>4
  <2>5. CASE open[k].id \notin ids
    <3>1. open[k] \in MutationRecord
      OBVIOUS
    <3>2. Range(Append(first[k - 1], open[k])) = Range(first[k - 1]) \cup {open[k]}
      BY <2>2, <3>1, AppendRange
    <3>3. Append(first[k - 1], open[k]) \in S
      BY <2>2, <3>1
    <3>4. Left(k) = Left(k - 1) \cup {open[k]}
      BY <2>3, <2>5
    <3>5. first[k] = Append(first[k - 1], open[k])
      BY <2>1, <2>5
    <3>6. InOrder(k)
      <4> SUFFICES ASSUME NEW j \in 1..k, NEW i \in 1..k, j < i,
                          open[j].id \notin ids, open[i].id \notin ids
                   PROVE  \E m, n \in 1..Len(first[k]) :
                            m < n /\ first[k][m] = open[j] /\ first[k][n] = open[i]
        OBVIOUS
      <4> DEFINE L == Len(first[k - 1])
      <4>1. L \in Nat /\ Len(first[k]) = L + 1 /\ first[k][L + 1] = open[k]
            /\ \A m \in 1..L : first[k][m] = first[k - 1][m]
        BY <2>2, <3>1, <3>5
      <4>2. j \in 1..(k - 1)
        OBVIOUS
      <4>3. CASE i = k
        <5>1. open[j] \in Range(first[k - 1])
          BY <2>2, <4>2
        <5>2. PICK m \in 1..L : first[k - 1][m] = open[j]
          <6>1. DOMAIN first[k - 1] = 1..L
            BY <2>2
          <6>2. QED BY <5>1, <6>1 DEF Range
        <5>3. m \in 1..(L + 1) /\ L + 1 \in 1..(L + 1) /\ m < L + 1
          BY <4>1
        <5>4. QED BY <5>2, <5>3, <4>1, <4>3
      <4>4. CASE i # k
        <5>1. PICK m \in 1..L, n \in 1..L :
                m < n /\ first[k - 1][m] = open[j] /\ first[k - 1][n] = open[i]
          <6>1. i \in 1..(k - 1)
            BY <4>4
          <6>2. QED BY <6>1, <4>2, <2>2
        <5>2. m \in 1..(L + 1) /\ n \in 1..(L + 1)
          BY <4>1
        <5>3. QED BY <5>1, <5>2, <4>1
      <4>5. QED BY <4>3, <4>4
    <3> HIDE DEF Left, S, N, InOrder
    <3>7. first[k] \in S /\ Range(first[k]) = Left(k) /\ k \in 0..N
      BY <2>2, <3>2, <3>3, <3>4, <3>5, <1>1 DEF N
    <3>8. QED BY <3>6, <3>7
  <2>6. QED BY <2>4, <2>5
<1>10. N \in Claim
  <2>1. Claim \in SUBSET Nat
    OBVIOUS
  <2> HIDE DEF Claim
  <2>2. \A k \in 0..N : k \in Claim
    BY <1>1, <1>8, <1>9, <2>1, UpTo
  <2>3. QED BY <1>1, <2>2
<1>11. Range(open) = {open[j] : j \in 1..N}
  BY DEF Range
<1>12. QED BY <1>7, <1>10, <1>11

-----------------------------------------------------------------------------
(* What an operation does to the rows.                                     *)

TurnsOn(y) == IF y.op \in Putters THEN {PutRow(y)} ELSE {}
TurnsOff(y) == IF y.op \in Takers THEN {TakeRow(y)} ELSE {}

\* A table in which a row comes from a row of the same member.
OwnFrom(t) == \A r \in Row : MemberOf[t[r].from] = MemberOf[r]

\* A row turns on, a row turns off, and the others stay.
LEMMA MovedIs ==
    ASSUME NEW t \in [Row -> RowRecord], OwnFrom(t),
           NEW y, y.op \in Op, y.item \in Row, y.new \in Row, Fits(y),
           NEW u \in {"none", "end", "past"}
    PROVE  LET m == Moved(t, y.op, y.item, y.new, u)
           IN  /\ m \in [Row -> RowRecord] /\ OwnFrom(m)
               /\ \A r \in Row : m[r].on <=> r \in TurnsOn(y) \/ (t[r].on /\ r \notin TurnsOff(y))
               /\ \A r \in Row : r \notin {y.item, y.new} => m[r] = t[r]
PROOF
<1> DEFINE m == Moved(t, y.op, y.item, y.new, u)
<1>1. CASE y.op = "cancel"
  <2>1. m = [t EXCEPT ![y.item] = [@ EXCEPT !.on = FALSE, !.until = "end"]]
    BY <1>1 DEF Moved
  <2>2. TurnsOn(y) = {} /\ TurnsOff(y) = {y.item}
    BY <1>1 DEF TurnsOn, TurnsOff, TakeRow, Takers, Putters
  <2> HIDE DEF m
  <2>3. m \in [Row -> RowRecord]
    BY <2>1 DEF RowRecord
  <2>4. m[y.item].on = FALSE /\ m[y.item].from = t[y.item].from
    BY <2>1 DEF RowRecord
  <2>5. \A r \in Row : r # y.item => m[r] = t[r]
    BY <2>1
  <2>6. OwnFrom(m)
    BY <2>4, <2>5 DEF OwnFrom
  <2>7. QED BY <2>2, <2>3, <2>4, <2>5, <2>6 DEF m
<1>2. CASE y.op \in {"resume", "add"}
  <2>1. TurnsOn(y) = {y.item} /\ TurnsOff(y) = {}
    BY <1>2 DEF TurnsOn, TurnsOff, PutRow, Takers, Putters, Fits
  <2>2. /\ m \in [Row -> RowRecord]
        /\ m[y.item].on = TRUE /\ m[y.item].from = t[y.item].from
        /\ \A r \in Row : r # y.item => m[r] = t[r]
    <3>1. CASE y.op = "resume"
      <4>1. m = [t EXCEPT ![y.item] = [@ EXCEPT !.on = TRUE, !.until = "none"]]
        BY <3>1 DEF Moved
      <4> HIDE DEF m
      <4>2. m \in [Row -> RowRecord]
        BY <4>1 DEF RowRecord
      <4>3. m[y.item].on = TRUE /\ m[y.item].from = t[y.item].from
        BY <4>1 DEF RowRecord
      <4>4. QED BY <4>1, <4>2, <4>3
    <3>2. CASE y.op = "add"
      <4>1. m = [t EXCEPT ![y.item] = [@ EXCEPT !.on = TRUE]]
        BY <3>2 DEF Moved
      <4> HIDE DEF m
      <4>2. m \in [Row -> RowRecord]
        BY <4>1 DEF RowRecord
      <4>3. m[y.item].on = TRUE /\ m[y.item].from = t[y.item].from
        BY <4>1 DEF RowRecord
      <4>4. QED BY <4>1, <4>2, <4>3
    <3>3. QED BY <1>2, <3>1, <3>2
  <2> HIDE DEF m
  <2>3. OwnFrom(m)
    BY <2>2 DEF OwnFrom
  <2>4. QED BY <2>1, <2>2, <2>3 DEF m
<1>3. CASE y.op = "change"
  <2>1. y.item # y.new /\ MemberOf[y.item] = MemberOf[y.new]
    BY <1>3 DEF Fits
  <2>2. m = [[t EXCEPT ![y.item] = [@ EXCEPT !.on = FALSE, !.until = u]]
               EXCEPT ![y.new] = [@ EXCEPT !.on = TRUE, !.from = y.item]]
    BY <1>3, <2>1 DEF Moved
  <2>3. TurnsOn(y) = {y.new} /\ TurnsOff(y) = {y.item}
    BY <1>3 DEF TurnsOn, TurnsOff, PutRow, TakeRow, Takers, Putters
  <2> HIDE DEF m
  <2>4. m \in [Row -> RowRecord]
    <3> DEFINE a == [t[y.item] EXCEPT !.on = FALSE, !.until = u]
               b == [t[y.new] EXCEPT !.on = TRUE, !.from = y.item]
    <3>1. t[y.item] \in RowRecord /\ t[y.new] \in RowRecord
      OBVIOUS
    <3>2. a \in RowRecord /\ b \in RowRecord
      BY <3>1 DEF RowRecord
    <3>3. m = [[t EXCEPT ![y.item] = a] EXCEPT ![y.new] = b]
      BY <2>1, <2>2
    <3> HIDE DEF a, b
    <3>4. QED BY <3>2, <3>3
  <2>5. m[y.item].on = FALSE /\ m[y.item].from = t[y.item].from
    <3>1. m[y.item] = [t[y.item] EXCEPT !.on = FALSE, !.until = u] /\ t[y.item] \in RowRecord
      BY <2>1, <2>2
    <3>2. QED BY <3>1 DEF RowRecord
  <2>6. m[y.new].on = TRUE /\ m[y.new].from = y.item
    BY <2>1, <2>2 DEF RowRecord
  <2>7. \A r \in Row : r # y.item /\ r # y.new => m[r] = t[r]
    BY <2>2
  <2>8. OwnFrom(m)
    BY <2>1, <2>5, <2>6, <2>7 DEF OwnFrom
  <2>9. QED BY <2>1, <2>3, <2>4, <2>5, <2>6, <2>7, <2>8 DEF m
<1>4. CASE y.op = "undo"
  <2>1. y.item # y.new
    BY <1>4 DEF Fits
  <2>2. m = [[t EXCEPT ![y.item] = [@ EXCEPT !.on = TRUE, !.until = "none"]]
               EXCEPT ![y.new] = [@ EXCEPT !.on = FALSE, !.until = "past", !.from = y.new]]
    BY <1>4, <2>1 DEF Moved
  <2>3. TurnsOn(y) = {y.item} /\ TurnsOff(y) = {y.new}
    BY <1>4 DEF TurnsOn, TurnsOff, PutRow, TakeRow, Takers, Putters
  <2> HIDE DEF m
  <2>4. m \in [Row -> RowRecord]
    <3> DEFINE a == [t[y.item] EXCEPT !.on = TRUE, !.until = "none"]
               b == [t[y.new] EXCEPT !.on = FALSE, !.until = "past", !.from = y.new]
    <3>1. t[y.item] \in RowRecord /\ t[y.new] \in RowRecord
      OBVIOUS
    <3>2. a \in RowRecord /\ b \in RowRecord
      BY <3>1 DEF RowRecord
    <3>3. m = [[t EXCEPT ![y.item] = a] EXCEPT ![y.new] = b]
      BY <2>1, <2>2
    <3> HIDE DEF a, b
    <3>4. QED BY <3>2, <3>3
  <2>5. m[y.item].on = TRUE /\ m[y.item].from = t[y.item].from
    <3>1. m[y.item] = [t[y.item] EXCEPT !.on = TRUE, !.until = "none"] /\ t[y.item] \in RowRecord
      BY <2>1, <2>2
    <3>2. QED BY <3>1 DEF RowRecord
  <2>6. m[y.new].on = FALSE /\ m[y.new].from = y.new
    BY <2>1, <2>2 DEF RowRecord
  <2>7. \A r \in Row : r # y.item /\ r # y.new => m[r] = t[r]
    BY <2>2
  <2>8. OwnFrom(m)
    BY <2>1, <2>5, <2>6, <2>7 DEF OwnFrom
  <2>9. QED BY <2>1, <2>3, <2>4, <2>5, <2>6, <2>7, <2>8 DEF m
<1>5. QED BY <1>1, <1>2, <1>3, <1>4 DEF Op

\* A mutation of the reconciler turns rows on and off as its operation does,
\* unless it is an addition that is given up or put off.
LEMMA AppliedIs ==
    ASSUME NEW t \in [Row -> RowRecord], OwnFrom(t),
           NEW u \in MutationRecord, Fits(u)
    PROVE  LET b == Applied(t, u)
           IN  /\ b \in [Row -> RowRecord] /\ OwnFrom(b)
               /\ GivenUp(u) \/ PutOff(u) => b = t
               /\ ~GivenUp(u) /\ ~PutOff(u) => \A r \in Row :
                    b[r].on <=> r \in TurnsOn(u) \/ (t[r].on /\ r \notin TurnsOff(u))
PROOF
<1> DEFINE m == Moved(t, u.op, u.item, u.new, "end")
           b == Applied(t, u)
<1>1. u.op \in Op /\ u.item \in Row /\ u.new \in Row
  BY DEF MutationRecord
<1>2. /\ m \in [Row -> RowRecord] /\ OwnFrom(m)
      /\ \A r \in Row : m[r].on <=> r \in TurnsOn(u) \/ (t[r].on /\ r \notin TurnsOff(u))
  BY <1>1, MovedIs
<1> HIDE DEF m
<1>3. CASE GivenUp(u) \/ PutOff(u)
  <2>1. b = t
    BY <1>3 DEF Applied
  <2> HIDE DEF b
  <2>2. QED BY <2>1, <1>3 DEF b
<1>4. CASE ~GivenUp(u) /\ ~PutOff(u)
  <2> DEFINE Is(i, v, l) ==
        b = [m EXCEPT ![i] = [@ EXCEPT !.from = v, !.linked = l]]
  <2>1. m[u.item] \in RowRecord
    BY <1>1, <1>2
  <2>2. \E i \in Row, v \in Row, l \in BOOLEAN : Is(i, v, l) /\ v \in {i, m[i].from}
    <3>1. CASE u.op = "undo"
      <4>1. b = [m EXCEPT ![u.item].from = u.item]
        BY <1>4, <3>1 DEF Applied, m
      <4>2. Is(u.item, u.item, m[u.item].linked)
        BY <4>1, <1>1, <1>2 DEF RowRecord
      <4>3. m[u.item].linked \in BOOLEAN
        BY <2>1 DEF RowRecord
      <4> HIDE DEF Is
      <4>4. QED BY <4>2, <4>3, <1>1
    <3>2. CASE u.op = "add" /\ t[u.item] = NoRow(u.item)
      <4> DEFINE l == qty[PlanOf[u.item]] > 0
      <4>1. b = [m EXCEPT ![u.item].linked = l]
        BY <1>4, <3>2 DEF Applied, m
      <4> HIDE DEF l
      <4>2. Is(u.item, m[u.item].from, l)
        BY <4>1, <1>1, <1>2 DEF RowRecord
      <4>3. l \in BOOLEAN /\ m[u.item].from \in Row
        BY <2>1 DEF RowRecord, l
      <4> HIDE DEF Is
      <4>4. QED BY <4>2, <4>3, <1>1
    <3>3. CASE u.op # "undo" /\ ~(u.op = "add" /\ t[u.item] = NoRow(u.item))
      <4>1. b = m
        BY <1>4, <3>3 DEF Applied, m
      <4>2. [m[u.item] EXCEPT !.from = m[u.item].from, !.linked = m[u.item].linked] = m[u.item]
        BY <2>1 DEF RowRecord
      <4>3. Is(u.item, m[u.item].from, m[u.item].linked)
        BY <4>1, <4>2, <1>1, <1>2
      <4>4. m[u.item].linked \in BOOLEAN /\ m[u.item].from \in Row
        BY <2>1 DEF RowRecord
      <4> HIDE DEF Is
      <4>5. QED BY <4>3, <4>4, <1>1
    <3>4. QED BY <3>1, <3>2, <3>3
  <2>3. PICK i \in Row, v \in Row, l \in BOOLEAN : Is(i, v, l) /\ v \in {i, m[i].from}
    BY <2>2
  <2> HIDE DEF b
  <2>4. b \in [Row -> RowRecord]
    <3>1. [m[i] EXCEPT !.from = v, !.linked = l] \in RowRecord
      <4>1. m[i] \in RowRecord
        BY <1>2
      <4>2. QED BY <4>1 DEF RowRecord
    <3>2. QED BY <3>1, <2>3, <1>2
  <2>5. \A r \in Row : r # i => b[r] = m[r]
    BY <2>3, <1>2
  <2>6. b[i].on = m[i].on /\ b[i].from = v
    BY <2>3, <1>2 DEF RowRecord
  <2>7. OwnFrom(b)
    BY <2>3, <2>5, <2>6, <1>2 DEF OwnFrom
  <2>8. QED BY <1>4, <1>2, <2>4, <2>5, <2>6, <2>7 DEF b
<1>5. QED BY <1>3, <1>4

Done(u) == ~GivenUp(u) /\ ~PutOff(u)

\* The reconciler only turns on what a mutation gives and only turns off what one
\* takes, and a row that one gives is on unless a later one takes it.
LEMMA AllAppliedIs ==
    ASSUME row \in [Row -> RowRecord], OwnFrom(row),
           open \in Seq(MutationRecord), \A u \in Range(open) : Fits(u)
    PROVE  /\ AllApplied \in [Row -> RowRecord] /\ OwnFrom(AllApplied)
           /\ \A r \in Row : AllApplied[r].on /\ ~row[r].on =>
                \E j \in 1..Len(open) : Done(open[j]) /\ r \in TurnsOn(open[j])
           /\ \A r \in Row : row[r].on /\ ~AllApplied[r].on =>
                \E j \in 1..Len(open) : Done(open[j]) /\ r \in TurnsOff(open[j])
           /\ \A j \in 1..Len(open), r \in Row : Done(open[j]) /\ r \in TurnsOn(open[j]) =>
                \/ AllApplied[r].on
                \/ \E i \in 1..Len(open) : j < i /\ r \in TurnsOff(open[i])
PROOF
<1> DEFINE N == Len(open)
           S == {t \in [Row -> RowRecord] : OwnFrom(t)}
           G == [z \in (1..N) \X S |-> Applied(z[2], open[z[1]])]
           after == CHOOSE f : f = [k \in 0 .. Len(open) |->
                                      IF k = 0 THEN row ELSE Applied(f[k - 1], open[k])]
<1>1. N \in Nat /\ row \in S
  OBVIOUS
<1>2. \A k \in 1..N : open[k] \in MutationRecord /\ Fits(open[k])
  BY DEF Range
<1>3. ASSUME NEW t \in S, NEW k \in 1..N
      PROVE  /\ Applied(t, open[k]) \in S
             /\ ~Done(open[k]) => Applied(t, open[k]) = t
             /\ Done(open[k]) => \A r \in Row :
                  Applied(t, open[k])[r].on <=>
                    r \in TurnsOn(open[k]) \/ (t[r].on /\ r \notin TurnsOff(open[k]))
  BY <1>2, AppliedIs DEF Done
<1>4. G \in [(1..N) \X S -> S]
  <2>1. \A z \in (1..N) \X S : z[1] \in 1..N /\ z[2] \in S
    OBVIOUS
  <2> HIDE DEF N, S
  <2>2. \A z \in (1..N) \X S : Applied(z[2], open[z[1]]) \in S
    BY <2>1, <1>3
  <2>3. QED BY <2>2
<1>5. PICK f \in [0..N -> S] : f[0] = row /\ \A i \in 1..N : f[i] = G[<<i, f[i - 1]>>]
  <2>1. Stepwise(N, S, row, G)
    <3> HIDE DEF N, S, G
    <3>1. QED BY <1>1, <1>4, StepByStep
  <2>2. QED BY <2>1 DEF Stepwise
<1>6. ASSUME NEW k \in 0..N
      PROVE  f[k] = IF k = 0 THEN row ELSE Applied(f[k - 1], open[k])
  <2>1. CASE k = 0
    BY <1>5, <2>1
  <2>2. CASE k # 0
    <3>1. k \in 1..N /\ k - 1 \in 0..N
      BY <2>2
    <3>2. f[k - 1] \in S
      BY <1>5, <3>1
    <3>3. <<k, f[k - 1]>> \in (1..N) \X S
      BY <3>1, <3>2
    <3>4. f[k] = G[<<k, f[k - 1]>>]
      BY <1>5, <3>1
    <3>5. QED BY <3>3, <3>4, <2>2
  <2>3. QED BY <2>1, <2>2
<1>7. f = [k \in 0 .. Len(open) |-> IF k = 0 THEN row ELSE Applied(f[k - 1], open[k])]
  BY <1>5, <1>6
<1>8. after = [k \in 0 .. Len(open) |-> IF k = 0 THEN row ELSE Applied(after[k - 1], open[k])]
  BY <1>7
<1>9. AllApplied = after[N]
  BY DEF AllApplied
<1> HIDE DEF after
<1>10. after[0] = row /\ \A k \in 1..N : after[k] = Applied(after[k - 1], open[k])
  <2>1. N \in Nat
    BY <1>1
  <2>2. \A k \in 0 .. Len(open) : after[k] = IF k = 0 THEN row ELSE Applied(after[k - 1], open[k])
    BY <1>8
  <2>3. QED BY <2>1, <2>2
<1> DEFINE TurnedOn(k, r) == \E j \in 1..k : Done(open[j]) /\ r \in TurnsOn(open[j])
           TurnedOff(k, r) == \E j \in 1..k : Done(open[j]) /\ r \in TurnsOff(open[j])
           Lasts(k, j, r) == after[k][r].on \/ \E i \in 1..k : j < i /\ r \in TurnsOff(open[i])
           Right(k) ==
             /\ after[k] \in S
             /\ \A r \in Row : after[k][r].on /\ ~row[r].on => TurnedOn(k, r)
             /\ \A r \in Row : row[r].on /\ ~after[k][r].on => TurnedOff(k, r)
             /\ \A j \in 1..k, r \in Row : Done(open[j]) /\ r \in TurnsOn(open[j]) => Lasts(k, j, r)
           Claim == {k \in 0..N : Right(k)}
<1>11. 0 \in Claim
  BY <1>1, <1>10
<1>12. ASSUME NEW k \in 1..N, k - 1 \in Claim PROVE k \in Claim
  <2> DEFINE b == after[k - 1]
             c == after[k]
             u == open[k]
  <2>1. b \in S /\ c = Applied(b, u)
    BY <1>12, <1>10
  <2>2. /\ c \in S
        /\ ~Done(u) => c = b
        /\ Done(u) => \A r \in Row :
             c[r].on <=> r \in TurnsOn(u) \/ (b[r].on /\ r \notin TurnsOff(u))
    <3> HIDE DEF b, c, S, N
    <3>1. QED BY <2>1, <1>3
  <2>3. k \in 1..k /\ \A j \in 1..(k - 1) : j \in 1..k /\ j < k
    OBVIOUS
  <2>4. \A j \in 1..k : j = k \/ j \in 1..(k - 1)
    OBVIOUS
  <2>5. ASSUME NEW r \in Row, c[r].on, ~row[r].on PROVE TurnedOn(k, r)
    <3>1. CASE b[r].on
      <4>1. TurnedOn(k - 1, r)
        BY <1>12, <2>5, <3>1
      <4>2. QED BY <4>1, <2>3
    <3>2. CASE ~b[r].on
      BY <2>2, <2>3, <2>5, <3>2
    <3>3. QED BY <3>1, <3>2
  <2>6. ASSUME NEW r \in Row, row[r].on, ~c[r].on PROVE TurnedOff(k, r)
    <3>1. CASE ~b[r].on
      <4>1. TurnedOff(k - 1, r)
        BY <1>12, <2>6, <3>1
      <4>2. QED BY <4>1, <2>3
    <3>2. CASE b[r].on
      BY <2>2, <2>3, <2>6, <3>2
    <3>3. QED BY <3>1, <3>2
  <2>7. ASSUME NEW j \in 1..k, NEW r \in Row, Done(open[j]), r \in TurnsOn(open[j])
        PROVE  Lasts(k, j, r)
    <3>1. CASE j = k
      BY <2>2, <2>7, <3>1
    <3>2. CASE j \in 1..(k - 1)
      <4>1. Lasts(k - 1, j, r)
        BY <1>12, <2>7, <3>2
      <4>2. CASE b[r].on /\ ~c[r].on
        BY <2>2, <2>3, <3>2, <4>2
      <4>3. CASE b[r].on /\ c[r].on
        BY <4>3
      <4>4. CASE ~b[r].on
        BY <4>1, <4>4, <2>3
      <4>5. QED BY <4>2, <4>3, <4>4
    <3>3. QED BY <3>1, <3>2, <2>4
  <2> HIDE DEF TurnedOn, TurnedOff, Lasts
  <2>8. QED BY <2>2, <2>5, <2>6, <2>7
<1>13. N \in Claim
  <2>1. Claim \in SUBSET Nat
    OBVIOUS
  <2> HIDE DEF Claim
  <2>2. \A k \in 0..N : k \in Claim
    BY <1>1, <1>11, <1>12, <2>1, UpTo
  <2>3. QED BY <1>1, <2>2
<1>14. QED BY <1>9, <1>13

-----------------------------------------------------------------------------
(* Types.                                                                  *)

\* An idle request is a request.
LEMMA IdleTyped == Idle \in ReqRecord /\ AnyRow \in Row
PROOF
<1>1. AnyRow \in Row
  BY ItemsAssumption DEF AnyRow
<1>2. QED BY <1>1 DEF Idle, ReqRecord, ReqPC

\* Every row is of a plan.
LEMMA PlanTyped == \A r \in Row : PlanOf[r] \in Plan
BY DEF Plan

\* The active rows can be counted.
LEMMA WantedTyped ==
    /\ \A p : Wanted(p) \in Nat /\ IsFiniteSet(ActiveOf(p))
    /\ \A rows \in SUBSET Row : IsFiniteSet(rows) /\ Cardinality(rows) \in Nat
PROOF
<1>1. ASSUME NEW rows \in SUBSET Row PROVE IsFiniteSet(rows) /\ Cardinality(rows) \in Nat
  <2>1. IsFiniteSet(rows)
    BY ItemsAssumption, FS_Subset
  <2>2. QED BY <2>1, FS_CardinalityType
<1>2. \A p : ActiveOf(p) \in SUBSET Row
  BY DEF ActiveOf
<1>3. QED BY <1>1, <1>2 DEF Wanted

\* A step of a request changes only where it is.
LEMMA StepIs ==
    ASSUME req \in [Req -> ReqRecord], NEW q \in Req, NEW pc \in ReqPC, Step(q, pc)
    PROVE  /\ req' \in [Req -> ReqRecord]
           /\ req'[q] = [req[q] EXCEPT !.pc = pc]
           /\ \A o \in Req : o # q => req'[o] = req[o]
PROOF
<1>1. req' = [req EXCEPT ![q] = [@ EXCEPT !.pc = pc]]
  BY DEF Step
<1>2. req[q] \in ReqRecord
  OBVIOUS
<1>3. [req[q] EXCEPT !.pc = pc] \in ReqRecord
  BY <1>2 DEF ReqRecord
<1>4. QED BY <1>1, <1>3

\* A key has one amount, and those without an amount have none.
KeysFit(keys) ==
    /\ keys \in SUBSET (Key \X Nat)
    /\ \A j, k \in keys : j[1] = k[1] => j = k
    /\ \A k \in keys : k[1] \in NoAmount => k[2] = 0

\* A key of Stripe is used with one amount.
LEMMA KeysFitAll ==
    ASSUME TypeOK, WorkFits
    PROVE  used \in [Mutation -> SUBSET (Key \X Nat)] /\ \A u \in Mutation : KeysFit(used[u])
BY DEF TypeOK, WorkFits, KeysFit

\* A call of Stripe that is not refused keeps the keys so.
LEMMA UsesIs ==
    ASSUME TypeOK, WorkFits, NEW q \in Req, NEW key \in Key, NEW n \in Nat,
           ~Refused(q, key, n) \/ key \in NoAmount, key \in NoAmount => n = 0,
           Uses(q, key, n)
    PROVE  used' \in [Mutation -> SUBSET (Key \X Nat)] /\ \A u \in Mutation : KeysFit(used'[u])
PROOF
<1> DEFINE m == req[q].mut
<1>1. used \in [Mutation -> SUBSET (Key \X Nat)] /\ \A u \in Mutation : KeysFit(used[u])
  BY KeysFitAll
<1>2. used' = [used EXCEPT ![m] = @ \cup {<<key, n>>}]
  BY DEF Uses
<1>3. \A u \in Mutation : u # m => used'[u] = used[u]
  BY <1>1, <1>2
<1>4. ASSUME m \in Mutation PROVE KeysFit(used'[m])
  <2> HIDE DEF m
  <2>1. used'[m] = used[m] \cup {<<key, n>>}
    BY <1>1, <1>2, <1>4
  <2>2. KeysFit(used[m])
    BY <1>1, <1>4
  <2>3. \A k \in used[m] : k[1] = key => k[2] = n
    <3>1. CASE key \in NoAmount
      BY <3>1, <2>2 DEF KeysFit
    <3>2. CASE ~Refused(q, key, n)
      <4>1. m # 0
        BY <1>4, ItemsAssumption
      <4>2. Used(q) = used[m]
        BY <4>1 DEF Used, m
      <4>3. QED BY <4>2, <3>2 DEF Refused
    <3>3. QED BY <3>1, <3>2
  <2>4. \A k \in used[m] : k = <<k[1], k[2]>>
    BY <2>2 DEF KeysFit
  <2>5. QED BY <2>1, <2>2, <2>3, <2>4 DEF KeysFit
<1>5. \A u \in Mutation : KeysFit(used'[u])
  BY <1>1, <1>3, <1>4
<1>6. used' \in [Mutation -> SUBSET (Key \X Nat)]
  <2>1. DOMAIN used' = Mutation /\ used' = [u \in Mutation |-> used'[u]]
    BY <1>1, <1>2
  <2>2. \A u \in Mutation : used'[u] \in SUBSET (Key \X Nat)
    BY <1>5 DEF KeysFit
  <2>3. QED BY <2>1, <2>2
<1>7. QED BY <1>5, <1>6

\* Mutations are closed with their keys.
LEMMA CloseIs ==
    ASSUME TypeOK, WorkFits, NEW q \in Req, NEW ids, Close(q, ids)
    PROVE  /\ open' \in Seq(MutationRecord)
           /\ Range(open') = {u \in Range(open) : u.id \notin ids}
           /\ \A j, i \in 1..Len(open) :
                j < i /\ open[j].id \notin ids /\ open[i].id \notin ids =>
                  \E m, n \in 1..Len(open') : m < n /\ open'[m] = open[j] /\ open'[n] = open[i]
           /\ used' \in [Mutation -> SUBSET (Key \X Nat)]
           /\ \A u \in Mutation : KeysFit(used'[u])
PROOF
<1>1. open \in Seq(MutationRecord)
  BY DEF TypeOK
<1>2. open' = Staying(ids)
  BY DEF Close
<1>3. /\ open' \in Seq(MutationRecord) /\ Range(open') = {u \in Range(open) : u.id \notin ids}
      /\ \A j, i \in 1..Len(open) :
           j < i /\ open[j].id \notin ids /\ open[i].id \notin ids =>
             \E m, n \in 1..Len(open') : m < n /\ open'[m] = open[j] /\ open'[n] = open[i]
  BY <1>1, <1>2, StayingIs
<1>4. used \in [Mutation -> SUBSET (Key \X Nat)] /\ \A u \in Mutation : KeysFit(used[u])
  BY KeysFitAll
<1>5. used' = [u \in Mutation |-> IF u \in ids /\ \A k \in Req \ {q} : req[k].mut # u
                                    THEN {} ELSE used[u]]
  BY DEF Close
<1>6. \A u \in Mutation : used'[u] = {} \/ used'[u] = used[u]
  BY <1>5
<1>7. KeysFit({})
  BY DEF KeysFit
<1>8. \A u \in Mutation : KeysFit(used'[u])
  BY <1>4, <1>6, <1>7
<1>9. used' \in [Mutation -> SUBSET (Key \X Nat)]
  BY <1>5, <1>8 DEF KeysFit
<1>10. QED BY <1>3, <1>8, <1>9

\* The mutation of a request is new, or open for the same operation and rows.
LEMMA RecordedIs ==
    ASSUME TypeOK, WorkFits, NEW q \in Req, FreeMutation # {}, SameRows(req[q]),
           Recorded(req[q], MutationFor(req[q])), req[q].op \in Op, ~ByCash(req[q])
    PROVE  LET x == req[q]
               m == MutationFor(x)
               u == [id |-> m, op |-> x.op, item |-> x.item, new |-> x.new]
           IN  /\ m \in Mutation /\ u \in MutationRecord
               /\ open' \in Seq(MutationRecord)
               /\ Range(open') = Range(open) \cup {u}
               /\ u \in Range(open) \/ m \in FreeMutation
               /\ OneOf(Range(open'))
               /\ used' \in [Mutation -> SUBSET (Key \X Nat)]
               /\ \A w \in Mutation : KeysFit(used'[w])
PROOF
<1> DEFINE x == req[q]
           m == MutationFor(x)
           u == [id |-> m, op |-> x.op, item |-> x.item, new |-> x.new]
<1>1. open \in Seq(MutationRecord) /\ Range(open) \subseteq MutationRecord /\ x \in ReqRecord
  BY DEF TypeOK, Range
<1>2. used \in [Mutation -> SUBSET (Key \X Nat)] /\ \A w \in Mutation : KeysFit(used[w])
  BY KeysFitAll
<1>3. OneOf(Range(open))
  BY DEF WorkFits
<1>4. x.op # "reconcile"
  BY DEF Op
<1>5. x.item \in Row /\ x.new \in Row
  BY <1>1 DEF ReqRecord
<1>6. CASE IsOpen(x.op, x.item)
  <2>1. m = OpenId(x.op, x.item)
    BY <1>4, <1>6 DEF MutationFor
  <2> DEFINE v == CHOOSE w \in Range(open) : w.op = x.op /\ w.item = x.item
  <2>2. \E w \in Range(open) : w.op = x.op /\ w.item = x.item
    BY <1>6 DEF IsOpen, Range
  <2>3. v \in Range(open) /\ v.op = x.op /\ v.item = x.item
    BY <2>2
  <2>4. m = v.id
    BY <2>1 DEF OpenId
  <2> HIDE DEF v, m, x
  <2>5. v.new = x.new
    BY <2>3 DEF SameRows, x
  <2>6. v \in MutationRecord
    BY <2>3, <1>1
  <2>7. v = u /\ v.id \in Mutation
    BY <2>3, <2>4, <2>5, <2>6 DEF MutationRecord
  <2>8. m \in {w.id : w \in Range(open)}
    BY <2>3, <2>4
  <2>9. open' = open /\ used' = used
    BY <2>8 DEF Recorded, m, x
  <2>10. Range(open') = Range(open) \cup {u}
    BY <2>9, <2>7, <2>3
  <2> HIDE DEF u
  <2>11. QED BY <1>1, <1>2, <1>3, <2>3, <2>4, <2>6, <2>7, <2>9, <2>10 DEF m, u, x
<1>7. CASE ~IsOpen(x.op, x.item)
  <2>1. m \in FreeMutation
    BY <1>4, <1>7 DEF MutationFor
  <2> HIDE DEF m, x
  <2>2. m \in Mutation /\ m \notin {w.id : w \in Range(open)} /\ m # 0
    BY <2>1, ItemsAssumption DEF FreeMutation
  <2>3. open' = Append(open, u) /\ used' = [used EXCEPT ![m] = {}]
    BY <2>2 DEF Recorded, m, x
  <2>4. u \in MutationRecord
    BY <2>2, <1>5 DEF MutationRecord, x
  <2>5. open' \in Seq(MutationRecord) /\ Range(open') = Range(open) \cup {u}
    <3> HIDE DEF u
    <3>1. QED BY <2>3, <2>4, <1>1, AppendRange
  <2>6. \A w \in Range(open) : ~(w.op = x.op /\ w.item = x.item)
    BY <1>7 DEF IsOpen, Range
  <2>7. OneOf(Range(open'))
    BY <2>2, <2>5, <2>6, <1>3 DEF OneOf
  <2>8. KeysFit({}) /\ {} \in SUBSET (Key \X Nat)
    BY DEF KeysFit
  <2>9. used' \in [Mutation -> SUBSET (Key \X Nat)] /\ \A w \in Mutation : KeysFit(used'[w])
    BY <2>3, <2>8, <1>2
  <2> HIDE DEF u
  <2>10. QED BY <2>1, <2>2, <2>4, <2>5, <2>7, <2>9 DEF m, u, x
<1>8. QED BY <1>6, <1>7

\* A deletion of an item only changes whether a request finds its own linked.
LEMMA StillLinkedIs ==
    ASSUME NEW x \in ReqRecord, NEW p
    PROVE  /\ StillLinked(x, p) \in ReqRecord
           /\ \E l \in BOOLEAN : StillLinked(x, p) = [x EXCEPT !.linked = l]
PROOF
<1> DEFINE l == x.linked /\ TakePlan(x) # p
<1>1. StillLinked(x, p) = [x EXCEPT !.linked = l] /\ l \in BOOLEAN
  BY DEF StillLinked
<1> HIDE DEF l
<1>2. [x EXCEPT !.linked = l] \in ReqRecord
  BY <1>1 DEF ReqRecord
<1>3. QED BY <1>1, <1>2

\* Types, with what a row comes from and with keys.
Typed == TypeOK /\ OwnFrom(row) /\ \A u \in Mutation : KeysFit(used[u])

\* The types, and what the work of a request adds to them.
LEMMA TypedIs == ASSUME TypeOK, WorkFits PROVE Typed
BY KeysFitAll DEF Typed, OwnFrom, WorkFits

\* What Typed says of the variables that most steps leave alone.
TypedTables ==
    /\ row \in [Row -> RowRecord] /\ OwnFrom(row)
    /\ plan \in [Plan -> {"live", "scheduled", "deleted"}]
    /\ ending \in BOOLEAN
    /\ open \in Seq(MutationRecord)
    /\ blocked \subseteq Op \X Row
TypedKeys ==
    /\ used \in [Mutation -> SUBSET (Key \X Nat)]
    /\ \A u \in Mutation : KeysFit(used[u])
TypedStripe ==
    /\ qty \in [Plan -> Nat]
    /\ ends \in BOOLEAN
    /\ inv \in [Row -> {"none", "retry", "draft", "open", "attempted", "paid", "void"}]
TypedRest ==
    /\ method \in Method
    /\ lock \in Req \cup {"free", "dead"}
    /\ asks \in 0 .. MaxAsk /\ faults \in 0 .. MaxFault
TypedReq == req \in [Req -> ReqRecord]
TypedHist == hist \in HistRecord

\* The types part by part.
LEMMA TypedParts ==
    /\ Typed => TypedTables /\ TypedKeys /\ TypedStripe /\ TypedRest /\ TypedReq /\ TypedHist
    /\ TypedTables /\ TypedKeys /\ TypedStripe /\ TypedRest /\ TypedReq /\ TypedHist => Typed
    /\ TypedTables' /\ TypedKeys' /\ TypedStripe' /\ TypedRest' /\ TypedReq' /\ TypedHist'
         => Typed'
BY DEF Typed, TypeOK, KeysFit, TypedTables, TypedKeys, TypedStripe, TypedRest, TypedReq,
       TypedHist

\* At the start everything has its type.
LEMMA InitTyped == Init => Typed
PROOF
<1> SUFFICES ASSUME Init PROVE Typed
  OBVIOUS
<1>1. PICK held \in Held :
         row = [r \in Row |->
                  IF r \in held
                    THEN [NoRow(r) EXCEPT !.on = TRUE, !.from = Source[r],
                                          !.linked = method = "stripe"]
                  ELSE IF r \in {Source[h] : h \in held}
                    THEN [NoRow(r) EXCEPT !.until = "past"]
                    ELSE NoRow(r)]
  BY DEF Init
<1>1a. /\ method \in Method /\ plan = [p \in Plan |-> "live"] /\ ending = FALSE
      /\ open = <<>> /\ blocked = {} /\ lock = "free" /\ asks = 0 /\ faults = 0
  BY DEF Init
<1>2. \A r \in Row : Source[r] \in Row /\ MemberOf[Source[r]] = MemberOf[r]
  BY ItemsAssumption
<1>3. ASSUME NEW r \in Row PROVE row[r] \in RowRecord /\ MemberOf[row[r].from] = MemberOf[r]
  <2>1. CASE r \in held
    <3> DEFINE l == method = "stripe"
    <3>1. row[r] = [on |-> TRUE, until |-> "none", linked |-> l, from |-> Source[r]]
      BY <1>1, <2>1 DEF NoRow
    <3>2. l \in BOOLEAN
      OBVIOUS
    <3> HIDE DEF l
    <3>3. QED BY <3>1, <3>2, <1>2 DEF RowRecord
  <2>2. CASE r \notin held
    <3>1. PICK u \in {"none", "past"} :
            row[r] = [on |-> FALSE, until |-> u, linked |-> FALSE, from |-> r]
      BY <1>1, <2>2 DEF NoRow
    <3>2. QED BY <3>1 DEF RowRecord
  <2>3. QED BY <2>1, <2>2
<1>4. row \in [Row -> RowRecord] /\ OwnFrom(row)
  <2>1. row = [r \in Row |-> row[r]]
    BY <1>1
  <2>2. QED BY <2>1, <1>3 DEF OwnFrom
<1>5. TypedTables
  <2>1. open \in Seq(MutationRecord) /\ blocked \subseteq Op \X Row
    BY <1>1a
  <2>2. plan \in [Plan -> {"live", "scheduled", "deleted"}] /\ ending \in BOOLEAN
    BY <1>1a
  <2>3. QED BY <1>4, <2>1, <2>2 DEF TypedTables
<1>6. TypedKeys
  BY DEF Init, TypedKeys, KeysFit
<1>7. TypedStripe
  BY WantedTyped DEF Init, TypedStripe
<1>8. TypedRest
  BY <1>1a, ItemsAssumption DEF TypedRest
<1>9. TypedReq
  BY IdleTyped DEF Init, TypedReq
<1>10. TypedHist
  BY DEF Init, TypedHist, HistRecord
<1>11. QED BY <1>5, <1>6, <1>7, <1>8, <1>9, <1>10, TypedParts

\* Requests come and take the lock.
LEMMA AskTyped ==
    ASSUME TypeOK, WorkFits, NEW q \in Req, Ask(q) \/ Enter(q) \/ TurnAway(q)
    PROVE  Typed'
PROOF
<1>1. TypedTables /\ TypedKeys /\ TypedStripe /\ TypedRest /\ TypedReq /\ TypedHist
  BY TypedIs, TypedParts
<1>2. ASSUME NEW op \in Op \cup {"reconcile"}, NEW i \in Row, NEW n \in Row, NEW l \in Row,
             Asked(q, op, i, n, l)
      PROVE  Typed'
  <2> DEFINE new == [pc |-> "asked", op |-> op, item |-> i, new |-> n, task |-> FALSE,
                     on |-> row[i].on, until |-> row[i].until, linked |-> row[l].linked,
                     ending |-> ending, mut |-> 0, done |-> {}]
  <2>1. row[i] \in RowRecord /\ row[l] \in RowRecord
    BY <1>1, <1>2 DEF TypedTables
  <2>2. new \in ReqRecord
    BY <2>1, <1>1 DEF ReqRecord, RowRecord, ReqPC, TypedTables
  <2>3. req' = [req EXCEPT ![q] = new]
    BY <1>2 DEF Asked
  <2> HIDE DEF new
  <2>4. TypedReq'
    BY <2>2, <2>3, <1>1 DEF TypedReq
  <2>5. TypedTables' /\ TypedKeys' /\ TypedStripe' /\ TypedHist'
    BY <1>1, <1>2 DEF Asked, tables, stripe, TypedTables, TypedKeys, TypedStripe, TypedHist
  <2>6. asks' \in 0 .. MaxAsk
    <3>1. asks \in 0 .. MaxAsk /\ MaxAsk \in Nat
      BY <1>1, ItemsAssumption DEF TypedRest
    <3>2. asks' <= MaxAsk /\ (asks' = asks \/ asks' = asks + 1)
      BY <1>2 DEF Asked
    <3>3. QED BY <3>1, <3>2
  <2>7. TypedRest'
    BY <1>1, <1>2, <2>6 DEF Asked, TypedRest
  <2>8. QED BY <2>4, <2>5, <2>7, TypedParts
<1>3. ASSUME NEW r \in Row, AskDeletion(q, r) PROVE Typed'
  <2> DEFINE new == [Idle EXCEPT !.pc = "asked", !.op = "cancel",
                                 !.item = r, !.new = r, !.task = TRUE]
  <2>1. new \in ReqRecord
    BY IdleTyped DEF Idle, ReqRecord, ReqPC, Op
  <2>2. req' = [req EXCEPT ![q] = new]
    BY <1>3 DEF AskDeletion
  <2> HIDE DEF new
  <2>3. TypedReq'
    BY <2>1, <2>2, <1>1 DEF TypedReq
  <2>4. TypedTables' /\ TypedKeys' /\ TypedStripe' /\ TypedHist' /\ TypedRest'
    BY <1>1, <1>3 DEF AskDeletion, tables, stripe, TypedTables, TypedKeys, TypedStripe,
                      TypedHist, TypedRest
  <2>5. QED BY <2>3, <2>4, TypedParts
<1>4. CASE Ask(q)
  <2>1. ASSUME NEW r \in Row, AskCancel(q, r) \/ AskResume(q, r) \/ AskAdd(q, r) PROVE Typed'
    BY <1>2, <2>1 DEF AskCancel, AskResume, AskAdd, Op
  <2>2. ASSUME NEW r \in Row, NEW n \in Row, AskChange(q, r, n) PROVE Typed'
    BY <1>2, <2>2 DEF AskChange, Op
  <2>3. ASSUME NEW n \in Row, AskUndo(q, n) PROVE Typed'
    <3>1. row[n].from \in Row
      BY <1>1 DEF TypedTables, RowRecord
    <3>2. QED BY <1>2, <2>3, <3>1 DEF AskUndo, Op
  <2>4. ASSUME AskReconcile(q) PROVE Typed'
    BY <1>2, <2>4, IdleTyped DEF AskReconcile
  <2>5. QED BY <1>3, <1>4, <2>1, <2>2, <2>3, <2>4 DEF Ask
<1>5. CASE Enter(q)
  <2> DEFINE x == req[q]
             m == MutationFor(x)
             l == IF x.task THEN row[x.item].linked ELSE x.linked
  <2>1. /\ x.pc = "asked" /\ FreeMutation # {} /\ SameRows(x) /\ Recorded(x, m)
        /\ UNCHANGED <<method, row, plan, ending, blocked, qty, ends, inv, asks, faults, hist>>
        /\ lock' = q
    BY <1>5 DEF Enter, Entered
  <2>2. x \in ReqRecord /\ row[x.item] \in RowRecord
    BY <1>1 DEF TypedReq, TypedTables, ReqRecord
  <2>3. /\ m \in Mutation \cup {0} /\ open' \in Seq(MutationRecord)
        /\ used' \in [Mutation -> SUBSET (Key \X Nat)]
        /\ \A w \in Mutation : KeysFit(used'[w])
    <3>1. CASE x.op = "reconcile" \/ ByCash(x)
      <4>1. m = 0
        BY <3>1 DEF MutationFor
      <4>2. open' = open /\ used' = used
        BY <4>1, <2>1 DEF Recorded
      <4>3. QED BY <4>1, <4>2, <1>1 DEF TypedTables, TypedKeys
    <3>2. CASE ~(x.op = "reconcile" \/ ByCash(x))
      <4>1. x.op \in Op
        BY <3>2, <2>2 DEF ReqRecord
      <4>2. QED BY <4>1, <3>2, <2>1, RecordedIs
    <3>3. QED BY <3>1, <3>2
  <2>4. FirstStep(x) \in ReqPC /\ l \in BOOLEAN
    BY <2>2 DEF FirstStep, ReqPC, ReqRecord, RowRecord
  <2>5. req' = [req EXCEPT ![q] = [@ EXCEPT !.pc = FirstStep(x), !.mut = m, !.linked = l]]
    BY <1>5 DEF Enter, Entered
  <2> HIDE DEF m, l
  <2>6. [x EXCEPT !.pc = FirstStep(x), !.mut = m, !.linked = l] \in ReqRecord
    <3> HIDE DEF x
    <3>1. QED BY <2>2, <2>3, <2>4 DEF ReqRecord
  <2>7. TypedReq'
    BY <2>5, <2>6, <1>1 DEF TypedReq
  <2>8. TypedTables' /\ TypedKeys'
    BY <2>1, <2>3, <1>1 DEF TypedTables, TypedKeys
  <2>9. TypedStripe' /\ TypedHist' /\ TypedRest'
    BY <2>1, <1>1 DEF TypedStripe, TypedHist, TypedRest
  <2>10. QED BY <2>7, <2>8, <2>9, TypedParts
<1>6. CASE TurnAway(q)
  <2>1. TypedReq'
    BY <1>1, <1>6, IdleTyped DEF TurnAway, TypedReq
  <2>2. TypedTables' /\ TypedKeys' /\ TypedStripe' /\ TypedHist' /\ TypedRest'
    BY <1>1, <1>6 DEF TurnAway, tables, stripe, TypedTables, TypedKeys, TypedStripe,
                      TypedHist, TypedRest
  <2>3. QED BY <2>1, <2>2, TypedParts
<1>7. QED BY <1>4, <1>5, <1>6

\* What a step leaves alone keeps its type.
LEMMA TypedSame ==
    ASSUME TypeOK, WorkFits
    PROVE  /\ UNCHANGED tables => TypedTables'
           /\ UNCHANGED used => TypedKeys'
           /\ UNCHANGED <<qty, ends, inv>> => TypedStripe'
           /\ UNCHANGED <<method, lock, asks, faults>> => TypedRest'
           /\ UNCHANGED req => TypedReq'
           /\ UNCHANGED hist => TypedHist'
           /\ TypedTables /\ TypedKeys /\ TypedStripe /\ TypedRest /\ TypedReq /\ TypedHist
BY TypedIs, TypedParts DEF tables, TypedTables, TypedKeys, TypedStripe, TypedRest, TypedReq,
                           TypedHist

\* A request that raises an error keeps the types.
LEMMA RaiseTyped ==
    ASSUME TypeOK, WorkFits, NEW q \in Req, Raise(q)
    PROVE  Typed'
PROOF
<1>1. TypedReq'
  BY TypedSame, StepIs DEF Raise, ReqPC, TypedReq
<1>2. TypedTables' /\ TypedKeys' /\ TypedStripe' /\ TypedHist' /\ TypedRest'
  BY TypedSame DEF Raise, stripe
<1>3. QED BY <1>1, <1>2, TypedParts

\* A quantity that is counted keeps the types of what is remembered.
LEMMA CountedTyped ==
    ASSUME TypeOK, WorkFits, NEW moved \in BOOLEAN, NEW p, Counted(moved, p)
    PROVE  TypedHist'
PROOF
<1>1. hist \in HistRecord
  BY DEF TypeOK
<1>2. hist' = [hist EXCEPT !.astray = hist.astray \/ moved, !.kept = hist.kept \ p]
  BY DEF Counted
<1>3. (hist.astray \/ moved) \in BOOLEAN /\ (hist.kept \ p) \in SUBSET Plan
  BY <1>1 DEF HistRecord
<1>4. QED BY <1>1, <1>2, <1>3 DEF HistRecord, TypedHist

\* Calls of Stripe.
LEMMA PutTyped ==
    ASSUME TypeOK, WorkFits, NEW q \in Req,
           \/ Put(q) \/ TakeSome(q) \/ TakeAll(q) \/ TakeNone(q)
           \/ EndAtPeriodEnd(q) \/ Flag(q) \/ Uncancel(q) \/ UncancelForAdd(q) \/ CleanUp(q)
    PROVE  Typed'
PROOF
<1> DEFINE x == req[q]
<1>1. x \in ReqRecord /\ x.item \in Row /\ x.new \in Row /\ x.linked \in BOOLEAN
      /\ x.ending \in BOOLEAN
  BY TypedSame DEF TypedReq, ReqRecord
<1>2. row \in [Row -> RowRecord] /\ OwnFrom(row) /\ qty \in [Plan -> Nat] /\ ends \in BOOLEAN
  BY TypedSame DEF TypedTables, TypedStripe
<1>3. ASSUME NEW p \in Plan, Deleted(p)
      PROVE  row' \in [Row -> RowRecord] /\ OwnFrom(row)' /\ qty' \in [Plan -> Nat]
  <2>1. row' = [r \in Row |-> [row[r] EXCEPT !.linked = row[r].linked /\ PlanOf[r] # p]]
    BY <1>3 DEF Deleted
  <2>2. ASSUME NEW r \in Row
        PROVE  [row[r] EXCEPT !.linked = row[r].linked /\ PlanOf[r] # p] \in RowRecord
    <3> DEFINE l == row[r].linked /\ PlanOf[r] # p
    <3>1. row[r] \in RowRecord /\ l \in BOOLEAN
      BY <1>2
    <3> HIDE DEF l
    <3>2. [row[r] EXCEPT !.linked = l] \in RowRecord
      BY <3>1 DEF RowRecord
    <3>3. QED BY <3>2 DEF l
  <2>3. row' \in [Row -> RowRecord]
    BY <2>1, <2>2
  <2>4. \A r \in Row : row'[r].from = row[r].from
    BY <2>1, <1>2 DEF RowRecord
  <2>5. QED BY <2>3, <2>4, <1>2, <1>3 DEF OwnFrom, Deleted
<1>4. CASE Put(q)
  <2> DEFINE p == PlanOf[PutRow(x)]
             key == IF qty[p] > 0 THEN "modify" ELSE "create"
             n == PutAmount(x, p)
  <2>1. p \in Plan
    BY <1>1, PlanTyped DEF PutRow
  <2>2. n \in Nat
    BY <2>1, <1>2, WantedTyped DEF PutAmount
  <2>3. key \in Key
    BY DEF Key
  <2>4. /\ ~Refused(q, key, n) /\ Uses(q, key, n) /\ Step(q, AfterPut(x))
        /\ qty' = qty \/ qty' = [qty EXCEPT ![p] = n]
    BY <1>4 DEF Put
  <2>5. key \notin NoAmount
    BY DEF NoAmount
  <2> HIDE DEF n, key
  <2>6. TypedKeys'
    BY <2>2, <2>3, <2>4, <2>5, UsesIs DEF TypedKeys
  <2>7. TypedReq'
    BY <2>4, StepIs, TypedSame DEF AfterPut, ReqPC, TypedReq
  <2>8. qty' \in [Plan -> Nat]
    BY <2>1, <2>2, <2>4, <1>2
  <2>9. TypedStripe'
    BY <2>8, <1>4, TypedSame DEF Put, TypedStripe
  <2>10. TypedHist'
    BY <1>4, CountedTyped DEF Put
  <2>11. TypedTables' /\ TypedRest'
    BY <1>4, TypedSame DEF Put, TypedRest
  <2>12. QED BY <2>6, <2>7, <2>9, <2>10, <2>11, TypedParts
<1>5. CASE TakeSome(q)
  <2> DEFINE p == TakePlan(x)
             n == Wanted(p) - 1
  <2>1. p \in Plan
    BY <1>1, PlanTyped DEF TakePlan, TakeRow
  <2>2. n \in Nat
    BY <1>5, WantedTyped DEF TakeSome
  <2>3. "take" \in Key /\ "take" \notin NoAmount
    BY DEF Key, NoAmount
  <2>4. /\ ~Refused(q, "take", n) /\ Uses(q, "take", n) /\ Step(q, AfterTake(x))
        /\ qty' = qty \/ qty' = [qty EXCEPT ![p] = n]
    BY <1>5 DEF TakeSome
  <2> HIDE DEF n
  <2>5. TypedKeys'
    BY <2>2, <2>3, <2>4, UsesIs DEF TypedKeys
  <2>6. TypedReq'
    BY <2>4, StepIs, TypedSame DEF AfterTake, ReqPC, TypedReq
  <2>7. qty' \in [Plan -> Nat]
    BY <2>1, <2>2, <2>4, <1>2
  <2>8. TypedStripe'
    BY <2>7, <1>5, TypedSame DEF TakeSome, TypedStripe
  <2>9. TypedHist'
    BY <1>5, CountedTyped DEF TakeSome
  <2>10. TypedTables' /\ TypedRest'
    BY <1>5, TypedSame DEF TakeSome, TypedRest
  <2>11. QED BY <2>5, <2>6, <2>8, <2>9, <2>10, TypedParts
<1>6. CASE TakeAll(q)
  <2> DEFINE p == TakePlan(x)
  <2>1. p \in Plan
    BY <1>1, PlanTyped DEF TakePlan, TakeRow
  <2>2. Deleted(p) /\ Uses(q, "delete", 0)
    BY <1>6 DEF TakeAll
  <2>3. TypedKeys'
    <3>1. "delete" \in Key /\ "delete" \in NoAmount /\ 0 \in Nat
      BY DEF Key, NoAmount
    <3>2. QED BY <2>2, <3>1, UsesIs DEF TypedKeys
  <2>4. TypedTables'
    BY <2>1, <2>2, <1>3, <1>6, TypedSame DEF TakeAll, TypedTables
  <2>5. TypedStripe'
    BY <2>1, <2>2, <1>3, <1>6, TypedSame DEF TakeAll, TypedStripe
  <2>6. TypedReq'
    <3>1. req' = [r \in Req |-> IF r = q THEN [x EXCEPT !.pc = AfterTake(x)]
                                ELSE StillLinked(req[r], p)]
      BY <1>6 DEF TakeAll
    <3>2. [x EXCEPT !.pc = AfterTake(x)] \in ReqRecord
      <4>1. AfterTake(x) \in ReqPC
        BY DEF AfterTake, ReqPC
      <4>2. QED BY <4>1, <1>1 DEF ReqRecord
    <3>3. \A r \in Req : StillLinked(req[r], p) \in ReqRecord
      BY StillLinkedIs, TypedSame DEF TypedReq
    <3>4. QED BY <3>1, <3>2, <3>3 DEF TypedReq
  <2>7. TypedHist'
    BY <1>6, CountedTyped DEF TakeAll
  <2>8. TypedRest'
    BY <1>6, TypedSame DEF TakeAll, TypedRest
  <2>9. QED BY <2>3, <2>4, <2>5, <2>6, <2>7, <2>8, TypedParts
<1>7. CASE TakeNone(q)
  <2>1. row' \in [Row -> RowRecord] /\ OwnFrom(row)'
    <3>1. CASE row' = row
      BY <3>1, <1>2 DEF OwnFrom
    <3>2. CASE row' = [row EXCEPT ![x.item].on = FALSE, ![x.item].until = "end"]
      <4>1. row' = [row EXCEPT ![x.item] = [@ EXCEPT !.on = FALSE, !.until = "end"]]
        BY <3>2
      <4>2. row[x.item] \in RowRecord
        BY <1>1, <1>2
      <4>3. [row[x.item] EXCEPT !.on = FALSE, !.until = "end"] \in RowRecord
            /\ [row[x.item] EXCEPT !.on = FALSE, !.until = "end"].from = row[x.item].from
        BY <4>2 DEF RowRecord
      <4>4. QED BY <4>1, <4>3, <1>1, <1>2 DEF OwnFrom
    <3>3. QED BY <3>1, <3>2, <1>7 DEF TakeNone
  <2>2. TypedTables'
    BY <2>1, <1>7, TypedSame DEF TakeNone, TypedTables
  <2>3. TypedReq'
    BY <1>7, StepIs, TypedSame DEF TakeNone, ReqPC, TypedReq
  <2>4. TypedHist'
    BY <1>7, CountedTyped DEF TakeNone
  <2>5. TypedKeys' /\ TypedStripe' /\ TypedRest'
    BY <1>7, TypedSame DEF TakeNone, stripe, TypedRest
  <2>6. QED BY <2>2, <2>3, <2>4, <2>5, TypedParts
<1>8. CASE EndAtPeriodEnd(q)
  <2>1. TypedKeys'
    <3>1. "end" \in Key /\ "end" \in NoAmount /\ 0 \in Nat
      BY DEF Key, NoAmount
    <3>2. QED BY <1>8, <3>1, UsesIs DEF EndAtPeriodEnd, TypedKeys
  <2>2. TypedReq'
    BY <1>8, StepIs, TypedSame DEF EndAtPeriodEnd, ReqPC, TypedReq
  <2>3. TypedStripe'
    BY <1>8, TypedSame DEF EndAtPeriodEnd, TypedStripe
  <2>4. TypedHist'
    <3> DEFINE kept == {p \in Plan : qty[p] > 0}
               gone == hist.astray \/ ~Active(x.item)
    <3>1. hist' = [hist EXCEPT !.kept = kept, !.astray = gone]
      BY <1>8 DEF EndAtPeriodEnd
    <3>2. hist \in HistRecord /\ kept \in SUBSET Plan /\ gone \in BOOLEAN
      BY TypedSame DEF TypedHist
    <3> HIDE DEF kept, gone
    <3>3. QED BY <3>1, <3>2 DEF TypedHist, HistRecord
  <2>5. TypedTables' /\ TypedRest'
    BY <1>8, TypedSame DEF EndAtPeriodEnd, TypedRest
  <2>6. QED BY <2>1, <2>2, <2>3, <2>4, <2>5, TypedParts
<1>9. CASE Flag(q)
  <2>1. TypedReq'
    BY <1>9, StepIs, TypedSame DEF Flag, ReqPC, TypedReq
  <2>2. TypedTables'
    BY <1>9, TypedSame DEF Flag, TypedTables
  <2>3. TypedKeys' /\ TypedStripe' /\ TypedRest' /\ TypedHist'
    BY <1>9, TypedSame DEF Flag, stripe, TypedRest
  <2>4. QED BY <2>1, <2>2, <2>3, TypedParts
<1>10. CASE Uncancel(q)
  <2>1. TypedKeys' /\ ends' \in BOOLEAN /\ ending' \in BOOLEAN
    <3>1. CASE x.op = "change"
      <4>1. "uncancel" \in Key /\ "uncancel" \in NoAmount /\ 0 \in Nat
        BY DEF Key, NoAmount
      <4>2. Uses(q, "uncancel", 0) /\ ends' \in BOOLEAN /\ ending' \in BOOLEAN
        BY <1>2, <1>10, <3>1 DEF Uncancel
      <4>3. QED BY <4>1, <4>2, UsesIs DEF TypedKeys
    <3>2. CASE x.op # "change"
      BY <1>10, <3>2, TypedSame DEF Uncancel, TypedTables
    <3>3. QED BY <3>1, <3>2
  <2>2. TypedReq'
    <3> DEFINE e == x.ending /\ x.op # "change"
    <3>1. req' = [req EXCEPT ![q] = [@ EXCEPT !.pc = AfterUncancel(x), !.ending = e]]
      BY <1>10 DEF Uncancel
    <3>2. AfterUncancel(x) \in ReqPC /\ e \in BOOLEAN
      BY DEF AfterUncancel, ReqPC
    <3> HIDE DEF e
    <3>3. [x EXCEPT !.pc = AfterUncancel(x), !.ending = e] \in ReqRecord
      BY <3>2, <1>1 DEF ReqRecord
    <3>4. QED BY <3>1, <3>3, TypedSame DEF TypedReq
  <2>3. TypedTables'
    BY <2>1, <1>10, TypedSame DEF Uncancel, TypedTables
  <2>4. TypedStripe'
    BY <2>1, <1>10, TypedSame DEF Uncancel, TypedStripe
  <2>5. TypedRest' /\ TypedHist'
    BY <1>10, TypedSame DEF Uncancel, TypedRest
  <2>6. QED BY <2>1, <2>2, <2>3, <2>4, <2>5, TypedParts
<1>11. CASE UncancelForAdd(q)
  <2>1. TypedReq'
    BY <1>11, StepIs, TypedSame DEF UncancelForAdd, ReqPC, TypedReq
  <2>2. TypedStripe'
    BY <1>11, TypedSame DEF UncancelForAdd, TypedStripe
  <2>3. TypedTables' /\ TypedKeys' /\ TypedRest' /\ TypedHist'
    BY <1>11, TypedSame DEF UncancelForAdd, TypedRest
  <2>4. QED BY <2>1, <2>2, <2>3, TypedParts
<1>12. CASE CleanUp(q)
  <2>1. PICK p \in Unwanted(x) :
         /\ Deleted(p)
         /\ req' = [r \in Req |-> IF r = q
                                    THEN [x EXCEPT !.pc = IF Unwanted(x) = {p} THEN @ ELSE "release"]
                                    ELSE StillLinked(req[r], p)]
         /\ Counted(FALSE, {p})
    BY <1>12 DEF CleanUp
  <2>2. p \in Plan
    BY DEF Unwanted
  <2>3. TypedKeys'
    <3>1. "delete" \in Key /\ "delete" \in NoAmount /\ 0 \in Nat
      BY DEF Key, NoAmount
    <3>2. QED BY <1>12, <3>1, UsesIs DEF CleanUp, TypedKeys
  <2>4. TypedTables'
    BY <2>1, <2>2, <1>3, <1>12, TypedSame DEF CleanUp, TypedTables
  <2>5. TypedStripe'
    BY <2>1, <2>2, <1>3, <1>12, TypedSame DEF CleanUp, TypedStripe
  <2>6. TypedReq'
    <3> DEFINE pc == IF Unwanted(x) = {p} THEN x.pc ELSE "release"
    <3>1. req' = [r \in Req |-> IF r = q THEN [x EXCEPT !.pc = pc] ELSE StillLinked(req[r], p)]
      BY <2>1
    <3>2. pc \in ReqPC
      BY <1>1 DEF ReqPC, ReqRecord
    <3> HIDE DEF pc
    <3>3. [x EXCEPT !.pc = pc] \in ReqRecord
      BY <3>2, <1>1 DEF ReqRecord
    <3>4. \A r \in Req : StillLinked(req[r], p) \in ReqRecord
      BY StillLinkedIs, TypedSame DEF TypedReq
    <3>5. QED BY <3>1, <3>3, <3>4 DEF TypedReq
  <2>7. TypedHist'
    BY <2>1, CountedTyped
  <2>8. TypedRest'
    BY <1>12, TypedSame DEF CleanUp, TypedRest
  <2>9. QED BY <2>3, <2>4, <2>5, <2>6, <2>7, <2>8, TypedParts
<1>13. QED BY <1>4, <1>5, <1>6, <1>7, <1>8, <1>9, <1>10, <1>11, <1>12

\* What the last transaction of an operation does to the rows.
LEMMA CommittedIs ==
    ASSUME TypeOK, WorkFits, NEW q \in Req, Commit(q) \/ CommitCash(q)
    PROVE  LET x == req[q]
           IN  /\ x.op \in Op
               /\ row' \in [Row -> RowRecord] /\ OwnFrom(row')
               /\ \A r \in Row : row'[r].on <=>
                                   r \in TurnsOn(x) \/ (row[r].on /\ r \notin TurnsOff(x))
PROOF
<1> DEFINE x == req[q]
           m == Moved(row, x.op, x.item, x.new, KeptUntil(x))
           On(t) == \A r \in Row : t[r].on <=>
                                   r \in TurnsOn(x) \/ (row[r].on /\ r \notin TurnsOff(x))
<1>1. x \in ReqRecord /\ x.item \in Row /\ x.new \in Row /\ x.pc = "commit"
  BY TypedSame DEF TypedReq, ReqRecord, Commit, CommitCash
<1>2. x.op \in Op
  BY <1>1 DEF WorkFits, OnItsWay, ReqRecord
<1>3. KeptUntil(x) \in {"none", "end", "past"} /\ Fits(x)
  BY <1>1 DEF KeptUntil, WorkFits, ReqRecord
<1>4. row \in [Row -> RowRecord] /\ OwnFrom(row)
  BY TypedSame DEF TypedTables
<1>5. m \in [Row -> RowRecord] /\ OwnFrom(m) /\ On(m)
  <2> HIDE DEF x
  <2>1. QED BY <1>1, <1>2, <1>3, <1>4, MovedIs
<1> HIDE DEF m
<1>6. ASSUME NEW t, NEW r \in Row, NEW l \in BOOLEAN, t = [m EXCEPT ![r].linked = l]
      PROVE  t \in [Row -> RowRecord] /\ OwnFrom(t) /\ On(t)
  <2>1. t = [m EXCEPT ![r] = [@ EXCEPT !.linked = l]] /\ m[r] \in RowRecord
    BY <1>5, <1>6
  <2>2. [m[r] EXCEPT !.linked = l] \in RowRecord
    BY <2>1 DEF RowRecord
  <2>3. [m[r] EXCEPT !.linked = l].on = m[r].on
        /\ [m[r] EXCEPT !.linked = l].from = m[r].from
    BY <2>1 DEF RowRecord
  <2>4. t \in [Row -> RowRecord] /\ \A o \in Row : t[o].on = m[o].on /\ t[o].from = m[o].from
    BY <2>1, <2>2, <2>3, <1>5
  <2>5. QED BY <2>4, <1>5 DEF OwnFrom
<1>7. CASE Commit(q)
  <2> DEFINE r == PutRow(x)
             l == qty[PlanOf[r]] > 0
  <2>1. row' = Named(m, x) /\ r \in Row /\ l \in BOOLEAN
    BY <1>1, <1>7 DEF Commit, m, PutRow
  <2> HIDE DEF l
  <2>2. row' = m \/ row' = [m EXCEPT ![r].linked = l]
    BY <2>1 DEF Named, l
  <2>3. QED BY <2>1, <2>2, <1>2, <1>5, <1>6
<1>8. CASE CommitCash(q)
  <2>1. CASE row' = m
    BY <2>1, <1>2, <1>5
  <2>2. CASE row' = [m EXCEPT ![x.item].from = x.item]
    <3> DEFINE i == x.item
    <3>1. row' = [m EXCEPT ![i] = [@ EXCEPT !.from = i]] /\ m[i] \in RowRecord
      BY <1>1, <1>5, <2>2
    <3>2. [m[i] EXCEPT !.from = i] \in RowRecord
      BY <3>1, <1>1 DEF RowRecord
    <3>3. [m[i] EXCEPT !.from = i].on = m[i].on /\ [m[i] EXCEPT !.from = i].from = i
      BY <3>1 DEF RowRecord
    <3>4. row' \in [Row -> RowRecord] /\ (\A o \in Row : row'[o].on = m[o].on)
          /\ \A o \in Row : row'[o].from \in {m[o].from, o}
      BY <3>1, <3>2, <3>3, <1>1, <1>5
    <3>5. QED BY <3>4, <1>2, <1>5 DEF OwnFrom
  <2>3. QED BY <2>1, <2>2, <1>8 DEF CommitCash, m
<1>9. QED BY <1>7, <1>8

\* The invoice of an addition, and the last transaction.
LEMMA CommitTyped ==
    ASSUME TypeOK, WorkFits, NEW q \in Req,
           \/ Bill(q) \/ Finalize(q) \/ PayInvoice(q) \/ Commit(q) \/ CommitCash(q)
    PROVE  Typed'
PROOF
<1> DEFINE x == req[q]
<1>1. x \in ReqRecord /\ x.item \in Row /\ x.new \in Row
  BY TypedSame DEF TypedReq, ReqRecord
<1>2. /\ inv \in [Row -> {"none", "retry", "draft", "open", "attempted", "paid", "void"}]
      /\ ending \in BOOLEAN /\ blocked \subseteq Op \X Row
  BY TypedSame DEF TypedStripe, TypedTables
<1>3. CASE Bill(q)
  <2>1. TypedReq'
    BY <1>3, StepIs, TypedSame DEF Bill, ReqPC, TypedReq
  <2>2. TypedStripe'
    BY <1>1, <1>2, <1>3, TypedSame DEF Bill, TypedStripe
  <2>3. TypedTables' /\ TypedKeys' /\ TypedRest' /\ TypedHist'
    BY <1>3, TypedSame DEF Bill, TypedRest
  <2>4. QED BY <2>1, <2>2, <2>3, TypedParts
<1>4. CASE Finalize(q)
  <2>1. TypedReq'
    BY <1>4, StepIs, TypedSame DEF Finalize, ReqPC, TypedReq
  <2>2. TypedStripe'
    BY <1>1, <1>2, <1>4, TypedSame DEF Finalize, TypedStripe
  <2>3. TypedHist'
    <3>1. Active(x.item) \in BOOLEAN
      BY <1>1, TypedSame DEF Active, TypedTables, RowRecord
    <3>2. QED BY <1>4, <3>1, CountedTyped DEF Finalize
  <2>4. TypedTables' /\ TypedKeys' /\ TypedRest'
    BY <1>4, TypedSame DEF Finalize, TypedRest
  <2>5. QED BY <2>1, <2>2, <2>3, <2>4, TypedParts
<1>5. CASE PayInvoice(q)
  <2>1. TypedReq'
    BY <1>5, StepIs, TypedSame DEF PayInvoice, ReqPC, TypedReq
  <2>2. TypedStripe'
    BY <1>1, <1>2, <1>5, TypedSame DEF PayInvoice, TypedStripe
  <2>3. TypedTables' /\ TypedKeys' /\ TypedRest' /\ TypedHist'
    BY <1>5, TypedSame DEF PayInvoice, TypedRest
  <2>4. QED BY <2>1, <2>2, <2>3, TypedParts
<1>6. CASE Commit(q)
  <2>1. x.op \in Op /\ row' \in [Row -> RowRecord] /\ OwnFrom(row')
    BY <1>6, CommittedIs
  <2>2. open' \in Seq(MutationRecord) /\ TypedKeys'
    BY <1>6, CloseIs DEF Commit, TypedKeys
  <2>3. blocked' \subseteq Op \X Row
    BY <2>1, <1>1, <1>2, <1>6 DEF Commit
  <2>4. ending' \in BOOLEAN /\ plan' = plan
    BY <1>6 DEF Commit
  <2>5. TypedTables'
    BY <2>1, <2>2, <2>3, <2>4, TypedSame DEF TypedTables
  <2>6. TypedStripe'
    BY <1>1, <1>2, <1>6, TypedSame DEF Commit, TypedStripe
  <2>7. TypedReq'
    <3> DEFINE pc == IF x.op = "change" THEN "apply" ELSE "release"
    <3>1. req' = [req EXCEPT ![q] = [@ EXCEPT !.pc = pc, !.mut = 0]] /\ pc \in ReqPC
      BY <1>6 DEF Commit, ReqPC
    <3> HIDE DEF pc
    <3>2. [x EXCEPT !.pc = pc, !.mut = 0] \in ReqRecord
      BY <3>1, <1>1 DEF ReqRecord
    <3>3. QED BY <3>1, <3>2, TypedSame DEF TypedReq
  <2>8. TypedRest' /\ TypedHist'
    BY <1>6, TypedSame DEF Commit, TypedRest
  <2>9. QED BY <2>2, <2>5, <2>6, <2>7, <2>8, TypedParts
<1>7. CASE CommitCash(q)
  <2>1. row' \in [Row -> RowRecord] /\ OwnFrom(row')
    BY <1>7, CommittedIs
  <2>2. ending' \in BOOLEAN
    BY <1>2, <1>7 DEF CommitCash
  <2>3. TypedTables'
    BY <2>1, <2>2, <1>7, TypedSame DEF CommitCash, TypedTables
  <2>4. TypedReq'
    BY <1>7, StepIs, TypedSame DEF CommitCash, ReqPC, TypedReq
  <2>5. TypedKeys' /\ TypedStripe' /\ TypedRest' /\ TypedHist'
    BY <1>7, TypedSame DEF CommitCash, stripe, TypedRest
  <2>6. QED BY <2>3, <2>4, <2>5, TypedParts
<1>8. QED BY <1>3, <1>4, <1>5, <1>6, <1>7

\* The reconciler, and the lock.
LEMMA ApplyTyped ==
    ASSUME TypeOK, WorkFits, NEW q \in Req,
           \/ Apply(q) \/ Sync(q) \/ SyncFlag(q) \/ Settle(q) \/ Release(q) \/ Drop(q)
    PROVE  Typed'
PROOF
<1> DEFINE x == req[q]
<1>1. x \in ReqRecord /\ x.item \in Row /\ x.new \in Row /\ x.done \in SUBSET Mutation
  BY TypedSame DEF TypedReq, ReqRecord
<1>2. /\ inv \in [Row -> {"none", "retry", "draft", "open", "attempted", "paid", "void"}]
      /\ ending \in BOOLEAN /\ ends \in BOOLEAN /\ qty \in [Plan -> Nat]
      /\ row \in [Row -> RowRecord] /\ OwnFrom(row)
  BY TypedSame DEF TypedStripe, TypedTables
<1>3. open \in Seq(MutationRecord) /\ Range(open) \subseteq MutationRecord
      /\ \A u \in Range(open) : Fits(u)
  BY TypedSame DEF TypedTables, Range, WorkFits
<1>4. CASE Apply(q)
  <2> DEFINE all == Range(open)
             failed == {u \in all : GivenUp(u)}
             waiting == {u \in all : PutOff(u)}
             done == {u.id : u \in all \ (failed \cup waiting)}
  <2>1. row' \in [Row -> RowRecord] /\ OwnFrom(row')
    BY <1>2, <1>3, <1>4, AllAppliedIs DEF Apply
  <2>2. open' \in Seq(MutationRecord) /\ TypedKeys'
    BY <1>4, CloseIs DEF Apply, TypedKeys
  <2>3. TypedTables'
    BY <2>1, <2>2, <1>4, TypedSame DEF Apply, TypedTables
  <2>4. inv' \in [Row -> {"none", "retry", "draft", "open", "attempted", "paid", "void"}]
    <3>1. inv' = [r \in Row |-> CASE r \in Additions(failed) -> "none"
                                   [] r \in Additions(waiting) -> "retry"
                                   [] OTHER -> inv[r]]
      BY <1>4 DEF Apply
    <3> HIDE DEF failed, waiting
    <3>2. QED BY <3>1, <1>2
  <2>5. TypedStripe'
    BY <2>4, <1>4, TypedSame DEF Apply, TypedStripe
  <2>6. TypedReq'
    <3>1. req' = [req EXCEPT ![q] = [@ EXCEPT !.pc = "sync", !.done = done]]
      BY <1>4 DEF Apply
    <3>2. done \in SUBSET Mutation
      BY <1>3 DEF MutationRecord
    <3> HIDE DEF done
    <3>3. [x EXCEPT !.pc = "sync", !.done = done] \in ReqRecord
      BY <3>2, <1>1 DEF ReqRecord, ReqPC
    <3>4. QED BY <3>1, <3>3, TypedSame DEF TypedReq
  <2>7. TypedRest' /\ TypedHist'
    BY <1>4, TypedSame DEF Apply, TypedRest
  <2>8. QED BY <2>2, <2>3, <2>5, <2>6, <2>7, TypedParts
<1>5. CASE Sync(q)
  <2>1. PICK p \in Plan :
          /\ qty' = [qty EXCEPT ![p] = Wanted(p)]
          /\ row' = [r \in Row |-> IF PlanOf[r] # p THEN row[r]
                                   ELSE [row[r] EXCEPT !.linked = row[r].on
                                                         \/ (@ /\ Wanted(p) > 0)]]
          /\ req' = [r \in Req |-> IF Wanted(p) > 0 THEN req[r] ELSE StillLinked(req[r], p)]
    BY <1>5 DEF Sync
  <2>2. qty' \in [Plan -> Nat]
    BY <2>1, <1>2, WantedTyped
  <2>3. ASSUME NEW r \in Row PROVE row'[r] \in RowRecord /\ row'[r].from = row[r].from
    <3> DEFINE l == row[r].on \/ (row[r].linked /\ Wanted(p) > 0)
    <3>1. row'[r] = row[r] \/ row'[r] = [row[r] EXCEPT !.linked = l]
      BY <2>1
    <3>2. row[r] \in RowRecord /\ l \in BOOLEAN
      BY <1>2
    <3> HIDE DEF l
    <3>3. QED BY <3>1, <3>2 DEF RowRecord
  <2>4. row' \in [Row -> RowRecord] /\ OwnFrom(row')
    <3>1. row' = [r \in Row |-> row'[r]]
      BY <2>1
    <3>2. QED BY <3>1, <2>3, <1>2 DEF OwnFrom
  <2>5. TypedTables'
    BY <2>4, <1>5, TypedSame DEF Sync, TypedTables
  <2>6. TypedStripe'
    BY <2>2, <1>5, TypedSame DEF Sync, TypedStripe
  <2>7. TypedReq'
    <3>1. \A r \in Req : StillLinked(req[r], p) \in ReqRecord /\ req[r] \in ReqRecord
      BY StillLinkedIs, TypedSame DEF TypedReq
    <3>2. QED BY <2>1, <3>1 DEF TypedReq
  <2>8. TypedKeys' /\ TypedRest' /\ TypedHist'
    BY <1>5, TypedSame DEF Sync, TypedRest
  <2>9. QED BY <2>5, <2>6, <2>7, <2>8, TypedParts
<1>6. CASE SyncFlag(q)
  <2>1. ending' \in BOOLEAN /\ ends' \in BOOLEAN
    BY <1>2, <1>6 DEF SyncFlag
  <2>2. TypedTables'
    BY <2>1, <1>6, TypedSame DEF SyncFlag, TypedTables
  <2>3. TypedStripe'
    BY <2>1, <1>6, TypedSame DEF SyncFlag, TypedStripe
  <2>4. TypedReq'
    BY <1>6, StepIs, TypedSame DEF SyncFlag, ReqPC, TypedReq
  <2>5. TypedHist'
    BY <1>6, TypedSame DEF SyncFlag, TypedHist, HistRecord
  <2>6. TypedKeys' /\ TypedRest'
    BY <1>6, TypedSame DEF SyncFlag, TypedRest
  <2>7. QED BY <2>2, <2>3, <2>4, <2>5, <2>6, TypedParts
<1>7. CASE Settle(q)
  <2>1. open' \in Seq(MutationRecord) /\ TypedKeys'
    BY <1>7, CloseIs DEF Settle, TypedKeys
  <2>2. TypedTables'
    BY <2>1, <1>7, TypedSame DEF Settle, TypedTables
  <2>3. TypedStripe'
    BY <1>2, <1>7, TypedSame DEF Settle, TypedStripe
  <2>4. TypedReq'
    BY <1>7, StepIs, TypedSame DEF Settle, ReqPC, TypedReq
  <2>5. TypedRest' /\ TypedHist'
    BY <1>7, TypedSame DEF Settle, TypedRest
  <2>6. QED BY <2>1, <2>2, <2>3, <2>4, <2>5, TypedParts
<1>8. CASE Release(q)
  <2> DEFINE new == IF lock = q THEN [Idle EXCEPT !.pc = "drop"] ELSE Idle
  <2>1. new \in ReqRecord
    <3>1. [Idle EXCEPT !.pc = "drop"] \in ReqRecord
      BY IdleTyped DEF ReqRecord, ReqPC
    <3>2. QED BY <3>1, IdleTyped
  <2>2. req' = [req EXCEPT ![q] = new]
    BY <1>8 DEF Release
  <2> HIDE DEF new
  <2>3. TypedReq'
    BY <2>1, <2>2, TypedSame DEF TypedReq
  <2>4. TypedTables' /\ TypedKeys' /\ TypedStripe' /\ TypedRest' /\ TypedHist'
    BY <1>8, TypedSame DEF Release, stripe, TypedRest
  <2>5. QED BY <2>3, <2>4, TypedParts
<1>9. CASE Drop(q)
  <2>1. TypedReq'
    BY <1>9, IdleTyped, TypedSame DEF Drop, TypedReq
  <2>2. TypedRest'
    BY <1>9, TypedSame DEF Drop, TypedRest
  <2>3. TypedTables' /\ TypedKeys' /\ TypedStripe' /\ TypedHist'
    BY <1>9, TypedSame DEF Drop, stripe
  <2>4. QED BY <2>1, <2>2, <2>3, TypedParts
<1>10. QED BY <1>4, <1>5, <1>6, <1>7, <1>8, <1>9

\* Faults, the owner and time.
LEMMA FaultTyped ==
    ASSUME TypeOK, WorkFits,
           \/ \E q \in Req : Fail(q) \/ ApplyFails(q) \/ Crash(q)
           \/ \E p \in Doomed : DeletePlan(p) \/ FinalizePlan(p)
           \/ LockExpires \/ Overrun \/ EndPeriod
    PROVE  Typed'
PROOF
<1>1. /\ inv \in [Row -> {"none", "retry", "draft", "open", "attempted", "paid", "void"}]
      /\ row \in [Row -> RowRecord] /\ OwnFrom(row)
      /\ plan \in [Plan -> {"live", "scheduled", "deleted"}]
      /\ faults \in 0 .. MaxFault /\ MaxFault \in Nat
      /\ hist \in HistRecord /\ req \in [Req -> ReqRecord]
  BY ItemsAssumption, TypedSame
     DEF TypedStripe, TypedTables, TypedRest, TypedHist, TypedReq
<1>2. faults < MaxFault => faults + 1 \in 0 .. MaxFault
  BY <1>1
<1>3. ASSUME NEW q \in Req, Fail(q) PROVE Typed'
  <2>1. TypedReq'
    BY <1>3, StepIs, TypedSame DEF Fail, ReqPC, TypedReq
  <2>2. TypedRest'
    BY <1>2, <1>3, TypedSame DEF Fail, TypedRest
  <2>3. TypedTables' /\ TypedKeys' /\ TypedStripe' /\ TypedHist'
    BY <1>3, TypedSame DEF Fail, stripe
  <2>4. QED BY <2>1, <2>2, <2>3, TypedParts
<1>4. ASSUME NEW q \in Req, ApplyFails(q) PROVE Typed'
  <2>1. TypedReq'
    BY <1>4, StepIs, TypedSame DEF ApplyFails, ReqPC, TypedReq
  <2>2. TypedRest'
    BY <1>2, <1>4, TypedSame DEF ApplyFails, TypedRest
  <2>3. TypedStripe'
    BY <1>1, <1>4, TypedSame DEF ApplyFails, TypedStripe
  <2>4. TypedTables' /\ TypedKeys' /\ TypedHist'
    BY <1>4, TypedSame DEF ApplyFails
  <2>5. QED BY <2>1, <2>2, <2>3, <2>4, TypedParts
<1>5. ASSUME NEW q \in Req, Crash(q) PROVE Typed'
  <2>1. TypedReq'
    BY <1>5, IdleTyped, TypedSame DEF Crash, TypedReq
  <2>2. TypedRest'
    BY <1>2, <1>5, TypedSame DEF Crash, TypedRest
  <2>3. TypedTables' /\ TypedKeys' /\ TypedStripe' /\ TypedHist'
    BY <1>5, TypedSame DEF Crash, stripe
  <2>4. QED BY <2>1, <2>2, <2>3, TypedParts
<1>6. ASSUME NEW p \in Doomed, DeletePlan(p) PROVE Typed'
  <2>1. TypedTables'
    BY <1>1, <1>6, TypedSame DEF DeletePlan, TypedTables
  <2>2. TypedHist'
    <3> DEFINE more == hist.leftover \cup {r \in Unfinished : PlanOf[r] = p}
    <3>1. hist' = [hist EXCEPT !.leftover = more]
      BY <1>6 DEF DeletePlan
    <3>2. Unfinished \subseteq Row
      <4>1. \A u \in Range(open) \cup {req[q] : q \in Req} : u.item \in Row /\ u.new \in Row
        <5>1. \A u \in Range(open) : u.item \in Row /\ u.new \in Row
          <6>1. Range(open) \subseteq MutationRecord
            BY TypedSame DEF TypedTables, Range
          <6>2. QED BY <6>1 DEF MutationRecord
        <5>2. \A q \in Req : req[q].item \in Row /\ req[q].new \in Row
          BY <1>1 DEF ReqRecord
        <5>3. QED BY <5>1, <5>2
      <4>2. QED BY <4>1 DEF Unfinished, PutRow
    <3>3. more \in SUBSET Row
      BY <3>2, <1>1 DEF HistRecord
    <3> HIDE DEF more
    <3>4. QED BY <3>1, <3>3, <1>1 DEF TypedHist, HistRecord
  <2>3. TypedReq' /\ TypedKeys' /\ TypedStripe' /\ TypedRest'
    BY <1>6, TypedSame DEF DeletePlan, stripe, TypedRest
  <2>4. QED BY <2>1, <2>2, <2>3, TypedParts
<1>7. ASSUME NEW p \in Doomed, FinalizePlan(p) PROVE Typed'
  <2>1. TypedTables'
    BY <1>1, <1>7, TypedSame DEF FinalizePlan, TypedTables
  <2>2. TypedReq' /\ TypedKeys' /\ TypedStripe' /\ TypedRest' /\ TypedHist'
    BY <1>7, TypedSame DEF FinalizePlan, stripe, TypedRest
  <2>3. QED BY <2>1, <2>2, TypedParts
<1>8. ASSUME LockExpires \/ Overrun PROVE Typed'
  <2>1. TypedRest'
    BY <1>2, <1>8, TypedSame DEF LockExpires, Overrun, TypedRest
  <2>2. TypedHist'
    BY <1>1, <1>8 DEF LockExpires, Overrun, TypedHist, HistRecord
  <2>3. TypedTables' /\ TypedReq' /\ TypedKeys' /\ TypedStripe'
    BY <1>8, TypedSame DEF LockExpires, Overrun, stripe
  <2>4. QED BY <2>1, <2>2, <2>3, TypedParts
<1>9. ASSUME EndPeriod PROVE Typed'
  <2>1. row' = [r \in Row |-> IF row[r].until = "end" THEN [row[r] EXCEPT !.until = "past"]
                              ELSE row[r]]
    BY <1>9 DEF EndPeriod
  <2>2. ASSUME NEW r \in Row PROVE row'[r] \in RowRecord /\ row'[r].from = row[r].from
    <3>1. row[r] \in RowRecord /\ (row'[r] = row[r] \/ row'[r] = [row[r] EXCEPT !.until = "past"])
      BY <2>1, <1>1
    <3>2. QED BY <3>1 DEF RowRecord
  <2>3. row' \in [Row -> RowRecord] /\ OwnFrom(row')
    <3>1. row' = [r \in Row |-> row'[r]]
      BY <2>1
    <3>2. QED BY <3>1, <2>2, <1>1 DEF OwnFrom
  <2>4. TypedTables'
    BY <2>3, <1>9, TypedSame DEF EndPeriod, TypedTables
  <2>5. TypedReq' /\ TypedKeys' /\ TypedStripe' /\ TypedRest' /\ TypedHist'
    BY <1>9, TypedSame DEF EndPeriod, stripe, TypedRest
  <2>6. QED BY <2>4, <2>5, TypedParts
<1>10. QED BY <1>3, <1>4, <1>5, <1>6, <1>7, <1>8, <1>9

\* Every step keeps the types.
LEMMA StepTyped ==
    ASSUME TypeOK, WorkFits, [Next]_vars
    PROVE  Typed'
PROOF
<1>1. CASE UNCHANGED vars
  <2>1. TypedTables' /\ TypedReq' /\ TypedKeys' /\ TypedStripe' /\ TypedRest' /\ TypedHist'
    BY <1>1, TypedSame DEF vars, tables, TypedRest
  <2>2. QED BY <2>1, TypedParts
<1>2. ASSUME NEW q \in Req, Work(q) PROVE Typed'
  <2>1. ASSUME PutRefused(q) \/ TakeRefused(q) \/ FinalizeRefused(q) \/ SyncCash(q) PROVE Raise(q)
    BY <2>1 DEF PutRefused, TakeRefused, FinalizeRefused, SyncCash
  <2>2. QED BY <2>1, <1>2, RaiseTyped, PutTyped, CommitTyped, ApplyTyped DEF Work
<1>3. QED BY <1>1, <1>2, AskTyped, FaultTyped DEF Next

-----------------------------------------------------------------------------
(* Where the requests go.                                                  *)

\* A request keeps what it was asked for.
Alike(y, x) ==
    /\ y.op = x.op /\ y.item = x.item /\ y.new = x.new /\ y.task = x.task
    /\ y.on = x.on /\ y.until = x.until

\* It stays where it is.
Still(y, x) ==
    /\ Alike(y, x)
    /\ y.pc = x.pc /\ y.mut = x.mut /\ y.done = x.done /\ y.ending = x.ending

OthersStill(q) == \A o \in Req : o # q => Still(req'[o], req[o])

MovesTo(q, pc) ==
    /\ Alike(req'[q], req[q])
    /\ req'[q].pc = pc /\ req'[q].mut = req[q].mut /\ req'[q].done = req[q].done
    /\ OthersStill(q)

\* A request that stays as it is.
LEMMA StillStill ==
    ASSUME NEW x
    PROVE  Still(x, x)
BY DEF Still, Alike

\* A request stays linked to its mutation.
LEMMA LinkedStill ==
    ASSUME NEW x \in ReqRecord, NEW p
    PROVE  Still(StillLinked(x, p), x)
PROOF
<1>1. PICK l \in BOOLEAN : StillLinked(x, p) = [x EXCEPT !.linked = l]
  BY StillLinkedIs
<1>2. QED BY <1>1 DEF Still, Alike, ReqRecord

\* Where the next call of an operation leads.
LEMMA StepMoves ==
    ASSUME req \in [Req -> ReqRecord], NEW q \in Req, NEW pc \in ReqPC, Step(q, pc)
    PROVE  /\ MovesTo(q, pc)
           /\ req'[q].linked = req[q].linked /\ req'[q].ending = req[q].ending
PROOF
<1>1. /\ req'[q] = [req[q] EXCEPT !.pc = pc] /\ req[q] \in ReqRecord
      /\ \A o \in Req : o # q => req'[o] = req[o]
  BY StepIs
<1>2. OthersStill(q)
  BY <1>1, StillStill DEF OthersStill
<1>3. /\ Alike(req'[q], req[q])
      /\ req'[q].pc = pc /\ req'[q].mut = req[q].mut /\ req'[q].done = req[q].done
      /\ req'[q].linked = req[q].linked /\ req'[q].ending = req[q].ending
  BY <1>1 DEF Alike, ReqRecord
<1>4. QED BY <1>2, <1>3 DEF MovesTo

\* What one step of the work of a request does to the requests and the tables.
LEMMA Moves ==
    ASSUME TypeOK, WorkFits, NEW q \in Req
    PROVE  LET x == req[q] IN
           /\ Raise(q) => MovesTo(q, "release")
           /\ Put(q) => MovesTo(q, AfterPut(x))
           /\ TakeSome(q) \/ TakeAll(q) => MovesTo(q, AfterTake(x))
           /\ TakeNone(q) => MovesTo(q, IF x.op = "undo" THEN "put" ELSE "release")
           /\ EndAtPeriodEnd(q) => MovesTo(q, "flag")
           /\ Flag(q) => MovesTo(q, "commit")
           /\ Uncancel(q) => MovesTo(q, AfterUncancel(x))
           /\ UncancelForAdd(q) => MovesTo(q, "commit")
           /\ CleanUp(q) => MovesTo(q, "uncancel") \/ MovesTo(q, "release")
           /\ Bill(q) => MovesTo(q, "finalize")
           /\ Finalize(q) => MovesTo(q, "pay") \/ MovesTo(q, "put")
           /\ PayInvoice(q) => MovesTo(q, "put") \/ MovesTo(q, "release")
           /\ CommitCash(q) => MovesTo(q, "release")
           /\ Sync(q) => MovesTo(q, "sync")
           /\ SyncFlag(q) => MovesTo(q, "settle")
           /\ Settle(q) => MovesTo(q, "release")
           /\ Fail(q) \/ ApplyFails(q) => MovesTo(q, "release")
PROOF
<1> DEFINE x == req[q]
<1>1. req \in [Req -> ReqRecord] /\ x \in ReqRecord
  BY DEF TypeOK
<1>2. /\ {"release", "flag", "commit", "finalize", "pay", "put", "sync", "settle"} \subseteq ReqPC
      /\ AfterPut(x) \in ReqPC /\ AfterTake(x) \in ReqPC /\ AfterUncancel(x) \in ReqPC
  BY DEF ReqPC, AfterPut, AfterTake, AfterUncancel
<1>3. ASSUME TakeAll(q) PROVE MovesTo(q, AfterTake(x))
  <2> DEFINE p == TakePlan(x)
  <2>1. req' = [r \in Req |-> IF r = q THEN [x EXCEPT !.pc = AfterTake(x)]
                              ELSE StillLinked(req[r], p)]
    BY <1>3 DEF TakeAll
  <2>2. OthersStill(q)
    BY <2>1, <1>1, LinkedStill DEF OthersStill
  <2>3. req'[q] = [x EXCEPT !.pc = AfterTake(x)]
    BY <2>1
  <2>4. QED BY <2>2, <2>3, <1>1 DEF MovesTo, Alike, ReqRecord
<1>4. ASSUME CleanUp(q) PROVE MovesTo(q, "uncancel") \/ MovesTo(q, "release")
  <2>1. PICK p :
          req' = [r \in Req |-> IF r = q
                                  THEN [x EXCEPT !.pc = IF Unwanted(x) = {p} THEN @ ELSE "release"]
                                  ELSE StillLinked(req[r], p)]
    BY <1>4 DEF CleanUp
  <2> DEFINE pc == IF Unwanted(x) = {p} THEN x.pc ELSE "release"
  <2>2. OthersStill(q)
    BY <2>1, <1>1, LinkedStill DEF OthersStill
  <2>3. req'[q] = [x EXCEPT !.pc = pc]
    BY <2>1
  <2>4. pc = "uncancel" \/ pc = "release"
    BY <1>4 DEF CleanUp
  <2> HIDE DEF pc
  <2>5. MovesTo(q, pc)
    BY <2>2, <2>3, <1>1 DEF MovesTo, Alike, ReqRecord
  <2>6. QED BY <2>4, <2>5
<1>5. ASSUME Uncancel(q) PROVE MovesTo(q, AfterUncancel(x))
  <2> DEFINE e == x.ending /\ x.op # "change"
             pc == AfterUncancel(x)
  <2>1. req' = [req EXCEPT ![q] = [@ EXCEPT !.pc = pc, !.ending = e]]
    BY <1>5 DEF Uncancel
  <2>2. req'[q] = [x EXCEPT !.pc = pc, !.ending = e]
    BY <2>1, <1>1
  <2>3. OthersStill(q)
    BY <2>1, <1>1, StillStill DEF OthersStill
  <2> HIDE DEF e, pc
  <2>4. MovesTo(q, pc)
    BY <2>2, <2>3, <1>1 DEF MovesTo, Alike, ReqRecord
  <2>5. QED BY <2>4 DEF pc
<1>6. ASSUME Sync(q) PROVE MovesTo(q, "sync")
  <2>1. PICK p : req' = [r \in Req |-> IF Wanted(p) > 0 THEN req[r] ELSE StillLinked(req[r], p)]
    BY <1>6 DEF Sync
  <2>2. \A o \in Req : Still(req'[o], req[o])
    BY <2>1, <1>1, LinkedStill, StillStill
  <2>3. x.pc = "sync"
    BY <1>6 DEF Sync
  <2>4. QED BY <2>2, <2>3 DEF MovesTo, OthersStill, Still
<1>7. Raise(q) \/ CommitCash(q) \/ Settle(q) \/ Fail(q) \/ ApplyFails(q) => MovesTo(q, "release")
  BY <1>1, <1>2, StepMoves DEF Raise, CommitCash, Settle, Fail, ApplyFails
<1>8. (Put(q) => MovesTo(q, AfterPut(x))) /\ (TakeSome(q) => MovesTo(q, AfterTake(x)))
  BY <1>1, <1>2, StepMoves DEF Put, TakeSome
<1>9. TakeNone(q) => MovesTo(q, IF x.op = "undo" THEN "put" ELSE "release")
  BY <1>1, <1>2, StepMoves DEF TakeNone
<1>10. /\ EndAtPeriodEnd(q) => MovesTo(q, "flag")
       /\ Flag(q) \/ UncancelForAdd(q) => MovesTo(q, "commit")
       /\ SyncFlag(q) => MovesTo(q, "settle")
  BY <1>1, <1>2, StepMoves DEF EndAtPeriodEnd, Flag, UncancelForAdd, SyncFlag
<1>11. /\ Bill(q) => MovesTo(q, "finalize")
       /\ Finalize(q) => MovesTo(q, "pay") \/ MovesTo(q, "put")
       /\ PayInvoice(q) => MovesTo(q, "put") \/ MovesTo(q, "release")
  BY <1>1, <1>2, StepMoves DEF Bill, Finalize, PayInvoice
<1>12. QED BY <1>3, <1>4, <1>5, <1>6, <1>7, <1>8, <1>9, <1>10, <1>11

\* A new request, and one that is over.
IsIdle(y) == y.op = "reconcile" /\ y.pc \in {"idle", "drop"} /\ y.mut = 0

\* What the end of a request does.
LEMMA MovesOver ==
    ASSUME TypeOK, NEW q \in Req, TurnAway(q) \/ Release(q) \/ Drop(q) \/ Crash(q)
    PROVE  IsIdle(req'[q]) /\ OthersStill(q) /\ (req'[q].pc = "drop" => Release(q) /\ lock = q)
PROOF
<1>1. req \in [Req -> ReqRecord]
  BY DEF TypeOK
<1>2. req' = [req EXCEPT ![q] = Idle]
      \/ (req' = [req EXCEPT ![q] = [Idle EXCEPT !.pc = "drop"]] /\ Release(q) /\ lock = q)
  BY DEF TurnAway, Release, Drop, Crash
<1>3. OthersStill(q)
  BY <1>1, <1>2, StillStill DEF OthersStill
<1>4. req'[q] = Idle \/ (req'[q] = [Idle EXCEPT !.pc = "drop"] /\ Release(q) /\ lock = q)
  BY <1>1, <1>2
<1>5. QED BY <1>3, <1>4 DEF IsIdle, Idle

\* What asking does.
LEMMA AskMoves ==
    ASSUME TypeOK, WorkFits, NEW q \in Req, Ask(q)
    PROVE  /\ req[q].pc = "idle"
           /\ req'[q].pc = "asked" /\ req'[q].mut = 0 /\ Fits(req'[q])
           /\ req'[q].op \in Putters => plan[PlanOf[PutRow(req'[q])]] = "live"
           /\ OthersStill(q)
           /\ UNCHANGED <<method, tables, stripe, lock, faults, hist>>
PROOF
<1>1. req \in [Req -> ReqRecord]
  BY DEF TypeOK
<1>2. ASSUME NEW op, NEW i, NEW n, NEW l, Asked(q, op, i, n, l)
      PROVE  /\ req[q].pc = "idle"
             /\ req'[q].pc = "asked" /\ req'[q].mut = 0
             /\ req'[q].op = op /\ req'[q].item = i /\ req'[q].new = n
             /\ OthersStill(q)
             /\ UNCHANGED <<method, tables, stripe, lock, faults, hist>>
  <2>1. req' = [req EXCEPT ![q] =
                 [pc |-> "asked", op |-> op, item |-> i, new |-> n, task |-> FALSE,
                  on |-> row[i].on, until |-> row[i].until,
                  linked |-> row[l].linked, ending |-> ending,
                  mut |-> 0, done |-> {}]]
    BY <1>2 DEF Asked
  <2>2. OthersStill(q)
    BY <2>1, <1>1, StillStill DEF OthersStill
  <2>3. req'[q].pc = "asked" /\ req'[q].mut = 0
        /\ req'[q].op = op /\ req'[q].item = i /\ req'[q].new = n
    BY <2>1, <1>1
  <2>4. QED BY <2>2, <2>3, <1>2 DEF Asked
<1>3. ASSUME NEW r \in Row, AskDeletion(q, r)
      PROVE  /\ req[q].pc = "idle"
             /\ req'[q].pc = "asked" /\ req'[q].mut = 0
             /\ req'[q].op = "cancel" /\ req'[q].item = r /\ req'[q].new = r
             /\ OthersStill(q)
             /\ UNCHANGED <<method, tables, stripe, lock, faults, hist>>
  <2>1. req' = [req EXCEPT ![q] = [Idle EXCEPT !.pc = "asked", !.op = "cancel",
                                               !.item = r, !.new = r, !.task = TRUE]]
    BY <1>3 DEF AskDeletion
  <2>2. OthersStill(q)
    BY <2>1, <1>1, StillStill DEF OthersStill
  <2>3. req'[q].pc = "asked" /\ req'[q].mut = 0
        /\ req'[q].op = "cancel" /\ req'[q].item = r /\ req'[q].new = r
    BY <2>1, <1>1 DEF Idle
  <2>4. QED BY <2>2, <2>3, <1>3 DEF AskDeletion
<1>4. ASSUME NEW r, AskCancel(q, r) \/ AskDeletion(q, r), r \in Row
      PROVE  Fits(req'[q]) /\ req'[q].op \notin Putters
  BY <1>2, <1>3, <1>4 DEF AskCancel, Fits, Putters
<1>5. ASSUME NEW r \in Row, AskResume(q, r) \/ AskAdd(q, r)
      PROVE  Fits(req'[q]) /\ plan[PlanOf[PutRow(req'[q])]] = "live"
  BY <1>2, <1>5 DEF AskResume, AskAdd, Fits, ForSale, PutRow
<1>6. ASSUME NEW r \in Row, NEW n \in Row, AskChange(q, r, n)
      PROVE  Fits(req'[q]) /\ plan[PlanOf[PutRow(req'[q])]] = "live"
  BY <1>2, <1>6 DEF AskChange, Fits, ForSale, PutRow
<1>7. ASSUME NEW n \in Row, AskUndo(q, n)
      PROVE  Fits(req'[q]) /\ plan[PlanOf[PutRow(req'[q])]] = "live"
  BY <1>2, <1>7 DEF AskUndo, Fits, ForSale, PutRow, WorkFits
<1>8. ASSUME AskReconcile(q) PROVE Fits(req'[q]) /\ req'[q].op \notin Putters
  BY <1>2, <1>8 DEF AskReconcile, Fits, Putters
<1>9. \/ \E op, i, n, l : Asked(q, op, i, n, l)
      \/ \E r \in Row : AskDeletion(q, r)
  BY DEF Ask, AskCancel, AskResume, AskAdd, AskChange, AskUndo, AskReconcile
<1>10. /\ req[q].pc = "idle"
       /\ req'[q].pc = "asked" /\ req'[q].mut = 0 /\ OthersStill(q)
       /\ UNCHANGED <<method, tables, stripe, lock, faults, hist>>
  BY <1>2, <1>3, <1>9
<1>11. /\ Fits(req'[q])
       /\ req'[q].op \in Putters => plan[PlanOf[PutRow(req'[q])]] = "live"
  BY <1>4, <1>5, <1>6, <1>7, <1>8 DEF Ask
<1>12. QED BY <1>10, <1>11

\* What entering with the lock does.
LEMMA EnterMoves ==
    ASSUME TypeOK, NEW q \in Req, Enter(q)
    PROVE  /\ req[q].pc = "asked" /\ lock = "free" /\ lock' = q
           /\ Alike(req'[q], req[q])
           /\ req'[q].pc = FirstStep(req[q]) /\ req'[q].mut = MutationFor(req[q])
           /\ OthersStill(q)
PROOF
<1> DEFINE x == req[q]
           pc == FirstStep(x)
           m == MutationFor(x)
           l == IF x.task THEN row[x.item].linked ELSE x.linked
<1>1. req \in [Req -> ReqRecord] /\ x \in ReqRecord
  BY DEF TypeOK
<1>2. req' = [req EXCEPT ![q] = [@ EXCEPT !.pc = pc, !.mut = m, !.linked = l]]
  BY DEF Enter, Entered
<1>3. x.pc = "asked" /\ lock = "free" /\ lock' = q
  BY DEF Enter, Entered
<1> HIDE DEF pc, m, l
<1>4. OthersStill(q)
  BY <1>1, <1>2, StillStill DEF OthersStill
<1>5. req'[q] = [x EXCEPT !.pc = pc, !.mut = m, !.linked = l]
  BY <1>1, <1>2
<1>6. Alike(req'[q], x) /\ req'[q].pc = pc /\ req'[q].mut = m
  BY <1>1, <1>5 DEF Alike, ReqRecord
<1>7. QED BY <1>3, <1>4, <1>6 DEF pc, m

\* What the write at the end of an operation does.
LEMMA CommitMoves ==
    ASSUME TypeOK, NEW q \in Req, Commit(q)
    PROVE  /\ Alike(req'[q], req[q]) /\ req'[q].mut = 0
           /\ req'[q].pc = (IF req[q].op = "change" THEN "apply" ELSE "release")
           /\ OthersStill(q)
PROOF
<1> DEFINE x == req[q]
           pc == IF x.op = "change" THEN "apply" ELSE "release"
<1>1. req \in [Req -> ReqRecord] /\ x \in ReqRecord
  BY DEF TypeOK
<1>2. req' = [req EXCEPT ![q] = [@ EXCEPT !.pc = pc, !.mut = 0]]
  BY DEF Commit
<1> HIDE DEF pc
<1>3. OthersStill(q)
  BY <1>1, <1>2, StillStill DEF OthersStill
<1>4. req'[q] = [x EXCEPT !.pc = pc, !.mut = 0]
  BY <1>1, <1>2
<1>5. Alike(req'[q], x) /\ req'[q].pc = pc /\ req'[q].mut = 0
  BY <1>1, <1>4 DEF Alike, ReqRecord
<1>6. QED BY <1>3, <1>5 DEF pc

\* What a reconciliation does with the mutations it takes up.
LEMMA ApplyMoves ==
    ASSUME TypeOK, NEW q \in Req, Apply(q)
    PROVE  /\ Alike(req'[q], req[q]) /\ req'[q].mut = req[q].mut /\ req'[q].pc = "sync"
           /\ req'[q].done = {u.id : u \in {v \in Range(open) : Done(v)}}
           /\ OthersStill(q)
PROOF
<1> DEFINE x == req[q]
           all == Range(open)
           failed == {u \in all : GivenUp(u)}
           waiting == {u \in all : PutOff(u)}
           d == {u.id : u \in all \ (failed \cup waiting)}
<1>1. req \in [Req -> ReqRecord] /\ x \in ReqRecord
  BY DEF TypeOK
<1>2. req' = [req EXCEPT ![q] = [@ EXCEPT !.pc = "sync", !.done = d]]
  BY DEF Apply
<1>3. d = {u.id : u \in {v \in Range(open) : Done(v)}}
  BY DEF Done
<1> HIDE DEF d
<1>4. OthersStill(q)
  BY <1>1, <1>2, StillStill DEF OthersStill
<1>5. req'[q] = [x EXCEPT !.pc = "sync", !.done = d]
  BY <1>1, <1>2
<1>6. Alike(req'[q], x) /\ req'[q].pc = "sync" /\ req'[q].mut = x.mut /\ req'[q].done = d
  BY <1>1, <1>5 DEF Alike, ReqRecord
<1>7. QED BY <1>3, <1>4, <1>6

\* Whatever happens, the method of billing is not changed.
LEMMA MethodStays ==
    ASSUME TypeOK, WorkFits, [Next]_vars
    PROVE  method' = method
PROOF
<1>1. ASSUME NEW q \in Req, Work(q) PROVE method' = method
  BY <1>1 DEF Work, Put, PutRefused, TakeSome, TakeAll, TakeRefused, TakeNone,
              EndAtPeriodEnd, Flag, Uncancel, UncancelForAdd, CleanUp, Bill, Finalize,
              FinalizeRefused, PayInvoice, Commit, CommitCash, Apply, Sync, SyncFlag,
              SyncCash, Settle, Release, Drop, Raise
<1>2. ASSUME NEW q \in Req, Enter(q) \/ TurnAway(q) \/ Fail(q) \/ ApplyFails(q) \/ Crash(q)
      PROVE  method' = method
  BY <1>2 DEF Enter, Entered, TurnAway, Fail, ApplyFails, Crash
<1>3. ASSUME NEW p, DeletePlan(p) \/ FinalizePlan(p) PROVE method' = method
  BY <1>3 DEF DeletePlan, FinalizePlan
<1>4. QED BY <1>1, <1>2, <1>3, AskMoves DEF Next, LockExpires, Overrun, EndPeriod, vars

-----------------------------------------------------------------------------
(* WorkFits is inductive.                                                  *)

\* A request that stays as it is stays on its way.
LEMMA StillWay ==
    ASSUME NEW x, NEW y, Still(y, x), Fits(x), OnItsWay(x)
    PROVE  Fits(y) /\ OnItsWay(y)
BY DEF Still, Alike, Fits, OnItsWay, InGrace, ByCash

\* A request that works goes a way of its operation.
LEMMA WorkWay ==
    ASSUME TypeOK, WorkFits, NEW q \in Req, Work(q) \/ Fail(q) \/ ApplyFails(q) \/ Crash(q)
    PROVE  Fits(req'[q]) /\ OnItsWay(req'[q]) /\ OthersStill(q)
PROOF
<1> DEFINE x == req[q]
           y == req'[q]
<1>1. Fits(x) /\ OnItsWay(x)
  BY DEF WorkFits
<1>2. ASSUME Alike(y, x) PROVE Fits(y)
  BY <1>1, <1>2 DEF Alike, Fits
<1>3. ASSUME IsIdle(y) PROVE Fits(y) /\ OnItsWay(y)
  BY <1>3 DEF IsIdle, Fits, OnItsWay, Calling
<1>4. ASSUME Alike(y, x), y.pc \in {"release", "apply", "sync", "settle"} PROVE OnItsWay(y)
  BY <1>4 DEF OnItsWay, Calling
<1>5. ASSUME NEW pc, MovesTo(q, pc), x.pc \in Calling, pc \in Calling,
             \/ x.op = "cancel" /\ pc \in {"end", "flag", "take", "commit"}
             \/ x.op = "add" /\ pc \in {"bill", "finalize", "pay", "uncancel", "put", "commit"}
             \/ x.op = "resume" /\ pc \in {"uncancel", "put", "commit"}
             \/ x.op = "undo" /\ pc \in {"take", "put", "commit"}
             \/ x.op = "change" /\ pc \in {"uncancel", "put", "commit"}
             \/ x.op = "change" /\ pc = "take" /\ ~InGrace(x)
      PROVE  OnItsWay(y)
  <2>1. /\ y.pc = pc /\ y.mut = x.mut /\ y.op = x.op
        /\ InGrace(y) = InGrace(x) /\ ByCash(y) = ByCash(x)
    BY <1>5 DEF MovesTo, Alike, InGrace, ByCash
  <2>2. x.mut = 0 <=> ByCash(x)
    BY <1>1, <1>5 DEF OnItsWay
  <2>3. QED BY <2>1, <2>2, <1>5 DEF OnItsWay, Putters, Takers
<1>6. ASSUME NEW pc \in {"release", "sync", "settle"}, MovesTo(q, pc)
      PROVE  Fits(y) /\ OnItsWay(y) /\ OthersStill(q)
  BY <1>2, <1>4, <1>6 DEF MovesTo
<1>7. ASSUME NEW pc, MovesTo(q, pc) PROVE Fits(y) /\ OthersStill(q)
  BY <1>2, <1>7 DEF MovesTo
<1>8. CASE Put(q)
  <2>1. MovesTo(q, AfterPut(x)) /\ x.pc = "put" /\ x.op \in Putters /\ x.pc \in Calling
    BY <1>1, <1>8, Moves DEF Put, OnItsWay, Calling
  <2>2. OnItsWay(y)
    BY <2>1, <1>5 DEF AfterPut, Putters, Calling
  <2>3. QED BY <2>1, <2>2, <1>7
<1>9. CASE TakeSome(q) \/ TakeAll(q)
  <2>1. MovesTo(q, AfterTake(x)) /\ x.pc = "take" /\ x.op \in Takers /\ x.pc \in Calling
    BY <1>1, <1>9, Moves DEF TakeSome, TakeAll, OnItsWay, Calling
  <2>2. OnItsWay(y)
    BY <2>1, <1>5 DEF AfterTake, Takers, Calling
  <2>3. QED BY <2>1, <2>2, <1>7
<1>10. CASE TakeNone(q)
  <2>1. CASE x.op = "undo"
    <3>1. MovesTo(q, "put") /\ x.pc \in Calling
      BY <1>10, <2>1, Moves DEF TakeNone, Calling
    <3>2. OnItsWay(y)
      BY <3>1, <2>1, <1>5 DEF Calling
    <3>3. QED BY <3>1, <3>2, <1>7
  <2>2. CASE x.op # "undo"
    <3>1. MovesTo(q, "release")
      BY <1>10, <2>2, Moves
    <3>2. QED BY <3>1, <1>6
  <2>3. QED BY <2>1, <2>2
<1>11. CASE EndAtPeriodEnd(q) \/ Flag(q)
  <2>1. PICK pc \in {"flag", "commit"} : MovesTo(q, pc)
    BY <1>11, Moves
  <2>2. x.op = "cancel" /\ x.pc \in Calling
    BY <1>1, <1>11 DEF EndAtPeriodEnd, Flag, OnItsWay, Calling
  <2>3. OnItsWay(y)
    BY <2>1, <2>2, <1>5 DEF Calling
  <2>4. QED BY <2>1, <2>3, <1>7
<1>12. CASE Uncancel(q)
  <2>1. MovesTo(q, AfterUncancel(x)) /\ x.op \in {"resume", "change"} /\ x.pc \in Calling
    BY <1>1, <1>12, Moves DEF Uncancel, OnItsWay, Calling, Putters
  <2>2. OnItsWay(y)
    BY <2>1, <1>5 DEF AfterUncancel, Calling
  <2>3. QED BY <2>1, <2>2, <1>7
<1>13. CASE UncancelForAdd(q) \/ CleanUp(q)
  <2>1. PICK pc \in {"commit", "uncancel", "release"} : MovesTo(q, pc)
    BY <1>13, Moves
  <2>2. x.op = "add" /\ x.pc \in Calling
    BY <1>13 DEF UncancelForAdd, CleanUp, Calling
  <2>3. OnItsWay(y)
    BY <2>1, <2>2, <1>5, <1>6 DEF Calling
  <2>4. QED BY <2>1, <2>3, <1>7
<1>14. CASE Bill(q) \/ Finalize(q) \/ PayInvoice(q)
  <2>1. PICK pc \in {"finalize", "pay", "put", "release"} : MovesTo(q, pc)
    BY <1>14, Moves
  <2>2. x.op = "add" /\ x.pc \in Calling
    BY <1>1, <1>14 DEF Bill, Finalize, PayInvoice, OnItsWay, Calling
  <2>3. OnItsWay(y)
    BY <2>1, <2>2, <1>5, <1>6 DEF Calling
  <2>4. QED BY <2>1, <2>3, <1>7
<1>15. CASE Raise(q) \/ CommitCash(q) \/ Settle(q) \/ Fail(q) \/ ApplyFails(q)
  BY <1>15, <1>6, Moves
<1>16. CASE Sync(q) \/ SyncFlag(q)
  BY <1>16, <1>6, Moves
<1>17. CASE Commit(q)
  <2>1. Alike(y, x) /\ y.pc \in {"release", "apply"} /\ OthersStill(q)
    BY <1>17, CommitMoves
  <2>2. QED BY <2>1, <1>2, <1>4
<1>18. CASE Apply(q)
  <2>1. Alike(y, x) /\ y.pc = "sync" /\ OthersStill(q)
    BY <1>18, ApplyMoves
  <2>2. QED BY <2>1, <1>2, <1>4
<1>19. CASE Release(q) \/ Drop(q) \/ Crash(q)
  BY <1>3, <1>19, MovesOver
<1>20. ASSUME PutRefused(q) \/ TakeRefused(q) \/ FinalizeRefused(q) \/ SyncCash(q)
       PROVE  Raise(q)
  BY <1>20 DEF PutRefused, TakeRefused, FinalizeRefused, SyncCash
<1> HIDE DEF x, y
<1>21. QED BY <1>8, <1>9, <1>10, <1>11, <1>12, <1>13, <1>14, <1>15, <1>16, <1>17, <1>18,
              <1>19, <1>20 DEF Work, y

\* And so does one that comes or takes the lock.
LEMMA AskWay ==
    ASSUME TypeOK, WorkFits, NEW q \in Req, Ask(q) \/ Enter(q) \/ TurnAway(q)
    PROVE  Fits(req'[q]) /\ OnItsWay(req'[q]) /\ OthersStill(q)
PROOF
<1> DEFINE x == req[q]
           y == req'[q]
<1>1. CASE Ask(q)
  BY <1>1, AskMoves DEF OnItsWay, Calling
<1>2. CASE TurnAway(q)
  BY <1>2, MovesOver DEF IsIdle, Fits, OnItsWay, Calling
<1>3. CASE Enter(q)
  <2>1. /\ Alike(y, x) /\ OthersStill(q)
        /\ y.pc = FirstStep(x) /\ y.mut = MutationFor(x)
    BY <1>3, EnterMoves
  <2>2. Fits(y)
    BY <2>1 DEF Alike, Fits, WorkFits
  <2>3. x \in ReqRecord /\ x.op \in Op \cup {"reconcile"}
    BY DEF TypeOK, ReqRecord
  <2>4. CASE x.op = "reconcile"
    <3>1. y.pc = "apply"
      BY <2>1, <2>4 DEF FirstStep
    <3>2. QED BY <2>1, <2>2, <3>1 DEF OnItsWay, Calling
  <2>5. CASE x.op \in Op /\ ByCash(x)
    <3>1. y.pc = "commit" /\ y.mut = 0 /\ y.op = x.op /\ x.op # "reconcile" /\ ByCash(y)
      BY <2>1, <2>5 DEF FirstStep, MutationFor, Alike, Op, ByCash
    <3>2. QED BY <2>1, <2>2, <3>1 DEF OnItsWay
  <2>6. CASE x.op \in Op /\ ~ByCash(x)
    <3>1. /\ FreeMutation # {} /\ SameRows(x) /\ Recorded(x, MutationFor(x))
      BY <1>3 DEF Enter, Entered
    <3>2. y.mut \in Mutation
      BY <3>1, <2>1, <2>6, RecordedIs
    <3>3. y.mut # 0 /\ ~ByCash(y) /\ y.op = x.op
      BY <3>2, <2>1, <2>6, ItemsAssumption DEF Alike, ByCash
    <3>4. \/ x.op = "resume" /\ y.pc = "uncancel"
          \/ x.op = "change" /\ y.pc = "put"
          \/ x.op = "add" /\ y.pc = "bill"
          \/ x.op = "cancel" /\ y.pc = "end"
          \/ x.op \in {"cancel", "undo"} /\ y.pc = "take"
      BY <2>1, <2>6 DEF FirstStep, Op
    <3>5. QED BY <2>1, <2>2, <3>3, <3>4 DEF OnItsWay, Putters, Takers
  <2>7. QED BY <2>3, <2>4, <2>5, <2>6
<1>4. QED BY <1>1, <1>2, <1>3

\* Every step keeps every request on its way.
LEMMA WayStep ==
    ASSUME TypeOK, WorkFits, [Next]_vars, NEW o \in Req
    PROVE  Fits(req'[o]) /\ OnItsWay(req'[o])
PROOF
<1>1. Fits(req[o]) /\ OnItsWay(req[o])
  BY DEF WorkFits
<1>2. CASE req' = req
  BY <1>1, <1>2
<1>3. ASSUME NEW q \in Req, \/ Ask(q) \/ Enter(q) \/ TurnAway(q)
                            \/ Work(q) \/ Fail(q) \/ ApplyFails(q) \/ Crash(q)
      PROVE  Fits(req'[o]) /\ OnItsWay(req'[o])
  <2>1. Fits(req'[q]) /\ OnItsWay(req'[q]) /\ OthersStill(q)
    BY <1>3, AskWay, WorkWay
  <2>2. CASE o # q
    <3>1. Still(req'[o], req[o])
      BY <2>1, <2>2 DEF OthersStill
    <3>2. QED BY <3>1, <1>1, StillWay
  <2>3. QED BY <2>1, <2>2
<1>4. CASE \/ \E p \in Doomed : DeletePlan(p) \/ FinalizePlan(p)
           \/ LockExpires \/ Overrun \/ EndPeriod \/ UNCHANGED vars
  BY <1>2, <1>4 DEF DeletePlan, FinalizePlan, LockExpires, Overrun, EndPeriod, vars
<1>5. QED BY <1>3, <1>4 DEF Next

\* The mutation that a request takes up or makes.
MutationOf(x) == [id |-> MutationFor(x), op |-> x.op, item |-> x.item, new |-> x.new]

\* A request that enters may open a mutation; no other step does.
LEMMA OpenMoves ==
    ASSUME TypeOK, WorkFits, [Next]_vars
    PROVE  \/ Range(open') \subseteq Range(open)
           \/ \E q \in Req : /\ Enter(q) /\ req[q].op \in Op /\ ~ByCash(req[q])
                             /\ Range(open') = Range(open) \cup {MutationOf(req[q])}
PROOF
<1>1. ASSUME NEW q \in Req, Work(q) PROVE Range(open') \subseteq Range(open)
  <2>1. CASE Commit(q) \/ Apply(q) \/ Settle(q)
    <3>1. \E ids : Close(q, ids)
      BY <2>1 DEF Commit, Apply, Settle
    <3>2. QED BY <3>1, CloseIs
  <2>2. CASE ~(Commit(q) \/ Apply(q) \/ Settle(q))
    <3>1. open' = open
      BY <1>1, <2>2 DEF Work, Put, PutRefused, TakeSome, TakeAll, TakeRefused, TakeNone,
              EndAtPeriodEnd, Flag, Uncancel, UncancelForAdd, CleanUp, Bill, Finalize,
              FinalizeRefused, PayInvoice, CommitCash, Sync, SyncFlag,
              SyncCash, Release, Drop, Raise, tables
    <3>2. QED BY <3>1
  <2>3. QED BY <2>1, <2>2
<1>2. ASSUME NEW q \in Req, Enter(q)
      PROVE  \/ Range(open') \subseteq Range(open)
             \/ /\ req[q].op \in Op /\ ~ByCash(req[q])
                /\ Range(open') = Range(open) \cup {MutationOf(req[q])}
  <2> DEFINE x == req[q]
  <2>1. /\ FreeMutation # {} /\ SameRows(x) /\ Recorded(x, MutationFor(x))
    BY <1>2 DEF Enter, Entered
  <2>2. x.op \in Op \cup {"reconcile"}
    BY DEF TypeOK, ReqRecord
  <2>3. CASE x.op \in Op /\ ~ByCash(x)
    BY <2>1, <2>3, RecordedIs DEF MutationOf
  <2>4. CASE x.op = "reconcile" \/ ByCash(x)
    <3>1. MutationFor(x) = 0
      BY <2>4 DEF MutationFor
    <3>2. open' = open
      BY <3>1, <2>1 DEF Recorded
    <3>3. QED BY <3>2
  <2>5. QED BY <2>2, <2>3, <2>4
<1>3. ASSUME NEW q \in Req, Ask(q) PROVE open' = open
  BY <1>3, AskMoves DEF tables
<1>4. ASSUME NEW q \in Req, TurnAway(q) \/ Fail(q) \/ ApplyFails(q) \/ Crash(q)
      PROVE open' = open
  BY <1>4 DEF TurnAway, Fail, ApplyFails, Crash, tables
<1>5. ASSUME \/ \E p \in Doomed : DeletePlan(p) \/ FinalizePlan(p)
             \/ LockExpires \/ Overrun \/ EndPeriod \/ UNCHANGED vars
      PROVE  open' = open
  BY <1>5 DEF DeletePlan, FinalizePlan, LockExpires, Overrun, EndPeriod, vars, tables
<1>6. QED BY <1>1, <1>2, <1>3, <1>4, <1>5 DEF Next

\* WorkFits is inductive.
LEMMA WorkFitsStep ==
    ASSUME TypeOK, WorkFits, [Next]_vars
    PROVE  WorkFits'
PROOF
<1>1. Typed'
  BY StepTyped
<1>2. \A r \in Row : MemberOf[row'[r].from] = MemberOf[r]
  BY <1>1 DEF Typed, OwnFrom
<1>3. \A u \in Mutation : \A k \in used'[u] : k[1] \in NoAmount => k[2] = 0
  BY <1>1 DEF Typed, KeysFit
<1>4. \A q \in Req : Fits(req'[q]) /\ OnItsWay(req'[q])
  BY WayStep
<1>5. \A q \in Req : (Fits(req[q]) /\ OnItsWay(req[q]))'
  BY <1>4, MethodStays DEF Fits, OnItsWay, ByCash, InGrace
<1>6. (\A u \in Range(open') : Fits(u)) /\ OneOf(Range(open'))
  <2>1. CASE Range(open') \subseteq Range(open)
    BY <2>1 DEF WorkFits, OneOf
  <2>2. ASSUME NEW q \in Req, Enter(q), req[q].op \in Op, ~ByCash(req[q]),
               Range(open') = Range(open) \cup {MutationOf(req[q])}
        PROVE  (\A u \in Range(open') : Fits(u)) /\ OneOf(Range(open'))
    <3>1. FreeMutation # {} /\ SameRows(req[q]) /\ Recorded(req[q], MutationFor(req[q]))
      BY <2>2 DEF Enter, Entered
    <3>2. OneOf(Range(open'))
      BY <2>2, <3>1, RecordedIs
    <3>3. Fits(MutationOf(req[q]))
      BY DEF WorkFits, Fits, MutationOf
    <3>4. QED BY <2>2, <3>2, <3>3 DEF WorkFits
  <2>3. QED BY <2>1, <2>2, OpenMoves
<1>7. (\A u \in Range(open) : Fits(u))' /\ OneOf(Range(open))'
  BY <1>6 DEF Fits, OneOf
<1>8. QED BY <1>2, <1>3, <1>5, <1>7 DEF WorkFits

\* At the start nobody works.
LEMMA InitWorkFits == Init => WorkFits
PROOF
<1> SUFFICES ASSUME Init PROVE WorkFits
  OBVIOUS
<1>1. Typed
  BY InitTyped
<1>2. open = <<>> /\ \A q \in Req : req[q] = Idle
  BY DEF Init
<1>3. \A q \in Req : Fits(req[q]) /\ OnItsWay(req[q])
  BY <1>2 DEF Idle, Fits, OnItsWay, Calling
<1>4. Range(open) = {}
  BY <1>2 DEF Range
<1>5. QED BY <1>1, <1>3, <1>4 DEF WorkFits, Typed, OwnFrom, KeysFit, OneOf

-----------------------------------------------------------------------------
(* LeavesPlans is inductive.                                               *)

\* Which rows are active only changes in a last transaction, in the first half of
\* a reconciliation, and when a cancellation finds no item.
LEMMA OnMoves ==
    ASSUME TypeOK, WorkFits, [Next]_vars,
           ~\E q \in Req : Commit(q) \/ CommitCash(q) \/ Apply(q)
                           \/ (TakeNone(q) /\ req[q].op = "cancel")
    PROVE  \A r \in Row : row'[r].on = row[r].on
PROOF
<1>1. row \in [Row -> RowRecord]
  BY DEF TypeOK
<1>2. CASE row' = row
  BY <1>2
<1>3. ASSUME NEW p, Deleted(p) PROVE \A r \in Row : row'[r].on = row[r].on
  BY <1>1, <1>3 DEF Deleted, RowRecord
<1>4. ASSUME NEW q \in Req, Work(q), row' # row PROVE \A r \in Row : row'[r].on = row[r].on
  <2>1. TakeAll(q) \/ CleanUp(q) \/ Sync(q)
    BY <1>4 DEF Work, Put, PutRefused, TakeSome, TakeRefused, TakeNone,
              EndAtPeriodEnd, Flag, Uncancel, UncancelForAdd, Bill, Finalize,
              FinalizeRefused, PayInvoice, SyncFlag,
              SyncCash, Settle, Release, Drop, Raise, tables
  <2>2. CASE TakeAll(q) \/ CleanUp(q)
    <3>1. \E p : Deleted(p)
      BY <2>2 DEF TakeAll, CleanUp
    <3>2. QED BY <3>1, <1>3
  <2>3. CASE Sync(q)
    <3>1. PICK p \in Plan :
            row' = [r \in Row |-> IF PlanOf[r] # p THEN row[r]
                                  ELSE [row[r] EXCEPT !.linked = row[r].on
                                                        \/ (@ /\ Wanted(p) > 0)]]
      BY <2>3 DEF Sync
    <3>2. QED BY <3>1, <1>1 DEF RowRecord
  <2>4. QED BY <2>1, <2>2, <2>3
<1>5. ASSUME NEW q \in Req, Ask(q) PROVE row' = row
  BY <1>5, AskMoves DEF tables
<1>6. ASSUME NEW q \in Req, Enter(q) \/ TurnAway(q) \/ Fail(q) \/ ApplyFails(q) \/ Crash(q)
      PROVE row' = row
  BY <1>6 DEF Enter, Entered, TurnAway, Fail, ApplyFails, Crash, tables
<1>7. ASSUME EndPeriod PROVE \A r \in Row : row'[r].on = row[r].on
  BY <1>1, <1>7 DEF EndPeriod, RowRecord
<1>8. ASSUME \/ \E p \in Doomed : DeletePlan(p) \/ FinalizePlan(p)
             \/ LockExpires \/ Overrun \/ UNCHANGED vars
      PROVE  row' = row
  BY <1>8 DEF DeletePlan, FinalizePlan, LockExpires, Overrun, vars, tables
<1>9. QED BY <1>2, <1>4, <1>5, <1>6, <1>7, <1>8 DEF Next

\* A row is only turned on by an operation that gives it, or by its mutation.
LEMMA TurnedOnBy ==
    ASSUME TypeOK, WorkFits, [Next]_vars, NEW r \in Row, row'[r].on, ~row[r].on
    PROVE  \/ \E q \in Req : req[q].pc = "commit" /\ r \in TurnsOn(req[q])
           \/ \E u \in Range(open) : r \in TurnsOn(u)
PROOF
<1>1. row \in [Row -> RowRecord] /\ OwnFrom(row)
      /\ open \in Seq(MutationRecord) /\ \A u \in Range(open) : Fits(u)
  BY DEF TypeOK, WorkFits, OwnFrom
<1>2. PICK q \in Req : Commit(q) \/ CommitCash(q) \/ Apply(q)
                       \/ (TakeNone(q) /\ req[q].op = "cancel")
  BY OnMoves
<1>3. CASE Commit(q) \/ CommitCash(q)
  BY <1>3, CommittedIs DEF Commit, CommitCash
<1>4. CASE Apply(q)
  <2>1. row' = AllApplied
    BY <1>4 DEF Apply
  <2>2. \E j \in 1..Len(open) : r \in TurnsOn(open[j])
    BY <2>1, <1>1, AllAppliedIs
  <2>3. QED BY <2>2, <1>1 DEF Range
<1>5. CASE TakeNone(q) /\ req[q].op = "cancel"
  <2>1. row' = [row EXCEPT ![req[q].item] = [@ EXCEPT !.on = FALSE, !.until = "end"]]
    BY <1>5 DEF TakeNone
  <2>2. QED BY <2>1, <1>1 DEF RowRecord
<1>6. QED BY <1>2, <1>3, <1>4, <1>5

\* The plans and the rows that were left over change with the owner only.
LEMMA PlanMoves ==
    ASSUME TypeOK, WorkFits, [Next]_vars
    PROVE  \/ plan' = plan /\ hist'.leftover = hist.leftover
           \/ \E p \in Doomed : (DeletePlan(p) \/ FinalizePlan(p)) /\ plan[p] # "deleted"
                /\ hist.leftover \subseteq hist'.leftover
PROOF
<1>1. hist \in HistRecord
  BY DEF TypeOK
<1>2. ASSUME NEW moved, NEW p, Counted(moved, p) PROVE hist'.leftover = hist.leftover
  BY <1>1, <1>2 DEF Counted, HistRecord
<1>3. ASSUME NEW q \in Req, Work(q) PROVE plan' = plan
  BY <1>3 DEF Work, Put, PutRefused, TakeSome, TakeAll, TakeRefused, TakeNone,
              EndAtPeriodEnd, Flag, Uncancel, UncancelForAdd, CleanUp, Bill, Finalize,
              FinalizeRefused, PayInvoice, Commit, CommitCash, Apply, Sync, SyncFlag,
              SyncCash, Settle, Release, Drop, Raise, tables
<1>4. ASSUME NEW q \in Req, Work(q) PROVE hist'.leftover = hist.leftover
  <2>1. CASE \/ Put(q) \/ TakeSome(q) \/ TakeAll(q) \/ TakeNone(q) \/ CleanUp(q) \/ Finalize(q)
    <3>1. \E moved, p : Counted(moved, p)
      BY <2>1 DEF Put, TakeSome, TakeAll, TakeNone, CleanUp, Finalize
    <3>2. QED BY <3>1, <1>2
  <2>2. CASE EndAtPeriodEnd(q) \/ SyncFlag(q)
    BY <2>2, <1>1 DEF EndAtPeriodEnd, SyncFlag, HistRecord
  <2>3. CASE hist' = hist
    BY <2>3
  <2>4. QED BY <1>4, <2>1, <2>2, <2>3
        DEF Work, PutRefused, TakeRefused, Flag, Uncancel, UncancelForAdd, Bill,
              FinalizeRefused, PayInvoice, Commit, CommitCash, Apply, Sync,
              SyncCash, Settle, Release, Drop, Raise
<1>5. ASSUME NEW q \in Req, Ask(q) PROVE plan' = plan /\ hist' = hist
  BY <1>5, AskMoves DEF tables
<1>6. ASSUME NEW q \in Req, Enter(q) \/ TurnAway(q) \/ Fail(q) \/ ApplyFails(q) \/ Crash(q)
      PROVE plan' = plan /\ hist' = hist
  BY <1>6 DEF Enter, Entered, TurnAway, Fail, ApplyFails, Crash, tables
<1>7. ASSUME EndPeriod \/ LockExpires \/ UNCHANGED vars PROVE plan' = plan /\ hist' = hist
  BY <1>7 DEF EndPeriod, LockExpires, tables, vars
<1>8. ASSUME Overrun PROVE plan' = plan /\ hist'.leftover = hist.leftover
  BY <1>1, <1>8 DEF Overrun, tables, HistRecord
<1>9. ASSUME NEW p \in Doomed, DeletePlan(p) \/ FinalizePlan(p)
      PROVE  plan[p] # "deleted" /\ hist.leftover \subseteq hist'.leftover
  <2>1. CASE DeletePlan(p)
    <3> DEFINE more == hist.leftover \cup {r \in Unfinished : PlanOf[r] = p}
    <3>1. hist' = [hist EXCEPT !.leftover = more] /\ plan[p] = "live"
      BY <2>1 DEF DeletePlan
    <3>2. hist'.leftover = more
      BY <3>1, <1>1 DEF HistRecord
    <3>3. QED BY <3>1, <3>2
  <2>2. CASE FinalizePlan(p)
    BY <2>2 DEF FinalizePlan
  <2>3. QED BY <1>9, <2>1, <2>2
<1>10. QED BY <1>3, <1>4, <1>5, <1>6, <1>7, <1>8, <1>9 DEF Next

\* The rows that a mutation or a request names.
LEMMA RowsTyped ==
    ASSUME TypeOK, NEW y \in Range(open) \cup {req[q] : q \in Req}
    PROVE  y.item \in Row /\ y.new \in Row /\ PutRow(y) \in Row /\ TakeRow(y) \in Row
PROOF
<1>1. CASE y \in Range(open)
  <2>1. y \in MutationRecord
    BY <1>1 DEF TypeOK, Range
  <2>2. QED BY <2>1 DEF MutationRecord, PutRow, TakeRow
<1>2. CASE y \in {req[q] : q \in Req}
  <2>1. y \in ReqRecord
    BY <1>2 DEF TypeOK
  <2>2. QED BY <2>1 DEF ReqRecord, PutRow, TakeRow
<1>3. QED BY <1>1, <1>2

\* Work that was known before a step is still known to have begun before.
LEMMA BegunStays ==
    ASSUME TypeOK, WorkFits, [Next]_vars,
           NEW y \in Range(open) \cup {req[q] : q \in Req}, BegunBefore(y),
           NEW z, z.op = y.op, z.item = y.item, z.new = y.new
    PROVE  z.op \in Putters /\ plan'[PlanOf[PutRow(z)]] # "live" => PutRow(z) \in hist'.leftover
PROOF
<1> SUFFICES ASSUME z.op \in Putters, plan'[PlanOf[PutRow(z)]] # "live"
             PROVE  PutRow(z) \in hist'.leftover
  OBVIOUS
<1>1. PutRow(z) = PutRow(y) /\ y.op \in Putters
  BY DEF PutRow
<1>2. CASE plan[PlanOf[PutRow(y)]] # "live"
  BY <1>1, <1>2, PlanMoves DEF BegunBefore
<1>3. CASE plan[PlanOf[PutRow(y)]] = "live"
  <2>1. PICK p \in Doomed : (DeletePlan(p) \/ FinalizePlan(p)) /\ plan' # plan
    BY <1>1, <1>3, PlanMoves
  <2>2. plan \in [Plan -> {"live", "scheduled", "deleted"}] /\ hist \in HistRecord
    BY DEF TypeOK
  <2>3. p = PlanOf[PutRow(y)]
    <3>1. PlanOf[PutRow(y)] \in Plan
      BY RowsTyped, PlanTyped
    <3>2. \A o \in Plan : o # p => plan'[o] = plan[o]
      BY <2>1, <2>2 DEF DeletePlan, FinalizePlan
    <3>3. QED BY <1>1, <1>3, <3>1, <3>2
  <2>4. DeletePlan(p)
    BY <1>3, <2>1, <2>3 DEF FinalizePlan
  <2>5. PutRow(y) \in Unfinished
    BY <1>1 DEF Unfinished, Putters
  <2> DEFINE more == hist.leftover \cup {r \in Unfinished : PlanOf[r] = p}
  <2>6. hist' = [hist EXCEPT !.leftover = more]
    BY <2>4 DEF DeletePlan
  <2>7. hist'.leftover = more
    BY <2>2, <2>6 DEF HistRecord
  <2>8. QED BY <1>1, <2>3, <2>5, <2>7
<1>4. QED BY <1>2, <1>3

\* LeavesPlans is inductive.
LEMMA LeavesPlansStep ==
    ASSUME TypeOK, WorkFits, LeavesPlans, [Next]_vars
    PROVE  LeavesPlans'
PROOF
<1>1. ASSUME NEW o \in Req, req'[o].pc # "idle", req'[o].op \in Putters,
             plan'[PlanOf[PutRow(req'[o])]] # "live"
      PROVE  PutRow(req'[o]) \in hist'.leftover
  <2> DEFINE x == req[o]
             y == req'[o]
  <2>1. ASSUME Alike(y, x), x.pc # "idle" PROVE PutRow(y) \in hist'.leftover
    <3>1. BegunBefore(x) /\ x \in Range(open) \cup {req[q] : q \in Req}
      BY <2>1 DEF LeavesPlans
    <3>2. y.op = x.op /\ y.item = x.item /\ y.new = x.new
      BY <2>1 DEF Alike
    <3> HIDE DEF x, y
    <3>3. QED BY <3>1, <3>2, <1>1, BegunStays DEF y
  <2>2. ASSUME NEW q \in Req, OthersStill(q), q # o PROVE Alike(y, x) /\ x.pc # "idle"
    BY <2>2, <1>1 DEF OthersStill, Still
  <2>3. ASSUME NEW q \in Req, Ask(q) PROVE PutRow(y) \in hist'.leftover
    <3>1. CASE q = o
      <4>1. plan[PlanOf[PutRow(y)]] = "live" /\ plan' = plan
        BY <2>3, <3>1, <1>1, AskMoves DEF tables
      <4>2. QED BY <4>1, <1>1
    <3>2. QED BY <2>1, <2>2, <2>3, <3>1, AskMoves
  <2>4. ASSUME NEW q \in Req, TurnAway(q) \/ Release(q) \/ Drop(q) \/ Crash(q)
        PROVE  PutRow(y) \in hist'.leftover
    <3>1. CASE q = o
      BY <2>4, <3>1, <1>1, MovesOver DEF IsIdle, Putters
    <3>2. QED BY <2>1, <2>2, <2>4, <3>1, MovesOver
  <2>5. ASSUME NEW q \in Req, OthersStill(q), Alike(req'[q], req[q]), req[q].pc # "idle"
        PROVE  PutRow(y) \in hist'.leftover
    BY <2>1, <2>2, <2>5
  <2>6. ASSUME NEW q \in Req, Enter(q) \/ Commit(q) \/ Apply(q)
        PROVE  PutRow(y) \in hist'.leftover
    <3>1. OthersStill(q) /\ Alike(req'[q], req[q])
      BY <2>6, EnterMoves, CommitMoves, ApplyMoves
    <3>2. req[q].pc # "idle"
      BY <2>6 DEF Enter, Entered, Commit, Apply
    <3>3. QED BY <3>1, <3>2, <2>5
  <2>7. ASSUME NEW q \in Req, NEW pc, MovesTo(q, pc), req[q].pc # "idle"
        PROVE  PutRow(y) \in hist'.leftover
    BY <2>5, <2>7 DEF MovesTo
  <2>8. ASSUME NEW q \in Req, \/ Put(q) \/ TakeSome(q) \/ TakeAll(q) \/ TakeNone(q)
                              \/ EndAtPeriodEnd(q) \/ Flag(q) \/ Uncancel(q)
                              \/ UncancelForAdd(q) \/ CleanUp(q)
        PROVE  PutRow(y) \in hist'.leftover
    <3>1. \E pc : MovesTo(q, pc)
      BY <2>8, Moves
    <3>2. req[q].pc # "idle"
      BY <2>8 DEF Put, TakeSome, TakeAll, TakeNone, EndAtPeriodEnd, Flag, Uncancel,
                  UncancelForAdd, CleanUp
    <3>3. QED BY <3>1, <3>2, <2>7
  <2>9. ASSUME NEW q \in Req, \/ Bill(q) \/ Finalize(q) \/ PayInvoice(q) \/ CommitCash(q)
                              \/ Sync(q) \/ SyncFlag(q) \/ Settle(q) \/ Fail(q) \/ ApplyFails(q)
        PROVE  PutRow(y) \in hist'.leftover
    <3>1. \E pc : MovesTo(q, pc)
      BY <2>9, Moves
    <3>2. req[q].pc # "idle"
      BY <2>9 DEF Bill, Finalize, PayInvoice, CommitCash, Sync, SyncFlag, Settle, Fail,
                  ApplyFails
    <3>3. QED BY <3>1, <3>2, <2>7
  <2>10. ASSUME NEW q \in Req, PutRefused(q) \/ TakeRefused(q) \/ FinalizeRefused(q) \/ SyncCash(q)
         PROVE  PutRow(y) \in hist'.leftover
    <3>1. Raise(q) /\ req[q].pc # "idle"
      BY <2>10 DEF PutRefused, TakeRefused, FinalizeRefused, SyncCash
    <3>2. QED BY <3>1, <2>7, Moves
  <2>11. ASSUME NEW q \in Req, Work(q) PROVE PutRow(y) \in hist'.leftover
    BY <2>4, <2>6, <2>8, <2>9, <2>10, <2>11 DEF Work
  <2>12. ASSUME req' = req PROVE PutRow(y) \in hist'.leftover
    BY <2>1, <2>12, <1>1 DEF Alike
  <2>13. ASSUME \/ \E p \in Doomed : DeletePlan(p) \/ FinalizePlan(p)
                \/ LockExpires \/ Overrun \/ EndPeriod \/ UNCHANGED vars
         PROVE  PutRow(y) \in hist'.leftover
    BY <2>12, <2>13 DEF DeletePlan, FinalizePlan, LockExpires, Overrun, EndPeriod, vars
  <2> HIDE DEF y
  <2>14. QED BY <2>3, <2>4, <2>6, <2>9, <2>11, <2>13 DEF Next, y
<1>2. ASSUME NEW u \in Range(open'), u.op \in Putters, plan'[PlanOf[PutRow(u)]] # "live"
      PROVE  PutRow(u) \in hist'.leftover
  <2>1. CASE u \in Range(open)
    BY <2>1, <1>2, BegunStays DEF LeavesPlans
  <2>2. ASSUME NEW q \in Req, Enter(q), u = MutationOf(req[q])
        PROVE  PutRow(u) \in hist'.leftover
    <3>1. BegunBefore(req[q]) /\ req[q] \in Range(open) \cup {req[o] : o \in Req}
      BY <2>2, EnterMoves DEF LeavesPlans
    <3>2. u.op = req[q].op /\ u.item = req[q].item /\ u.new = req[q].new
      BY <2>2 DEF MutationOf
    <3>3. QED BY <3>1, <3>2, <1>2, BegunStays
  <2>3. QED BY <2>1, <2>2, <1>2, OpenMoves
<1>3. ASSUME NEW r \in Row, plan'[PlanOf[r]] = "deleted", row'[r].on
      PROVE  r \in hist'.leftover
  <2>1. CASE row[r].on /\ plan[PlanOf[r]] = "deleted"
    BY <2>1, PlanMoves DEF LeavesPlans, DeletedPlanStaysEmpty
  <2>2. CASE plan[PlanOf[r]] # "deleted"
    <3>1. PICK p \in Doomed : DeletePlan(p) \/ FinalizePlan(p)
      BY <1>3, <2>2, PlanMoves
    <3>2. plan \in [Plan -> {"live", "scheduled", "deleted"}] /\ PlanOf[r] \in Plan
      BY PlanTyped DEF TypeOK
    <3>3. \A o \in Plan : o # p => plan'[o] = plan[o]
      BY <3>1, <3>2 DEF DeletePlan, FinalizePlan
    <3>4. p = PlanOf[r]
      BY <1>3, <2>2, <3>2, <3>3
    <3>5. ActiveOf(p) = {} /\ row' = row
      BY <1>3, <3>1, <3>2, <3>4 DEF DeletePlan, FinalizePlan
    <3>6. QED BY <3>4, <3>5, <1>3 DEF ActiveOf
  <2>3. CASE ~row[r].on /\ plan[PlanOf[r]] = "deleted"
    <3>1. \E y \in Range(open) \cup {req[q] : q \in Req} : BegunBefore(y) /\ r \in TurnsOn(y)
      BY <1>3, <2>3, TurnedOnBy DEF LeavesPlans
    <3>2. r \in hist.leftover
      BY <3>1, <2>3 DEF BegunBefore, TurnsOn
    <3>3. QED BY <3>2, PlanMoves
  <2>4. QED BY <2>1, <2>2, <2>3
<1>4. \A q \in Req : (req[q].pc # "idle" => BegunBefore(req[q]))'
  BY <1>1 DEF BegunBefore, PutRow
<1>5. (\A u \in Range(open) : BegunBefore(u))'
  BY <1>2 DEF BegunBefore, PutRow
<1>6. DeletedPlanStaysEmpty'
  BY <1>3 DEF DeletedPlanStaysEmpty
<1>7. QED BY <1>4, <1>5, <1>6 DEF LeavesPlans

-----------------------------------------------------------------------------
(* Alone is inductive.                                                     *)

AloneAt(q) == HoldsLock(q) /\ Registered(q) /\ Invoiced(q)

\* A lock that ran out under its holder is remembered.
LEMMA LateMoves ==
    ASSUME TypeOK, WorkFits, [Next]_vars
    PROVE  hist'.late = hist.late \/ (Overrun /\ hist'.late)
PROOF
<1>1. hist \in HistRecord
  BY DEF TypeOK
<1>2. ASSUME NEW moved, NEW p, Counted(moved, p) PROVE hist'.late = hist.late
  BY <1>1, <1>2 DEF Counted, HistRecord
<1>3. ASSUME NEW q \in Req, Work(q) PROVE hist'.late = hist.late
  <2>1. CASE \/ Put(q) \/ TakeSome(q) \/ TakeAll(q) \/ TakeNone(q) \/ CleanUp(q) \/ Finalize(q)
    <3>1. \E moved, p : Counted(moved, p)
      BY <2>1 DEF Put, TakeSome, TakeAll, TakeNone, CleanUp, Finalize
    <3>2. QED BY <3>1, <1>2
  <2>2. CASE EndAtPeriodEnd(q) \/ SyncFlag(q)
    BY <2>2, <1>1 DEF EndAtPeriodEnd, SyncFlag, HistRecord
  <2>3. CASE hist' = hist
    BY <2>3
  <2>4. QED BY <1>3, <2>1, <2>2, <2>3
        DEF Work, PutRefused, TakeRefused, Flag, Uncancel, UncancelForAdd, Bill,
              FinalizeRefused, PayInvoice, Commit, CommitCash, Apply, Sync,
              SyncCash, Settle, Release, Drop, Raise
<1>4. ASSUME NEW q \in Req, Ask(q) PROVE hist' = hist
  BY <1>4, AskMoves
<1>5. ASSUME NEW q \in Req, Enter(q) \/ TurnAway(q) \/ Fail(q) \/ ApplyFails(q) \/ Crash(q)
      PROVE hist' = hist
  BY <1>5 DEF Enter, Entered, TurnAway, Fail, ApplyFails, Crash
<1>6. ASSUME \/ \E p \in Doomed : FinalizePlan(p)
             \/ EndPeriod \/ LockExpires \/ UNCHANGED vars
      PROVE  hist' = hist
  BY <1>6 DEF EndPeriod, LockExpires, FinalizePlan, vars
<1>7. ASSUME Overrun PROVE hist'.late
  BY <1>1, <1>7 DEF Overrun, HistRecord
<1>8. ASSUME NEW p \in Doomed, DeletePlan(p) PROVE hist'.late = hist.late
  BY <1>1, <1>8 DEF DeletePlan, HistRecord
<1>9. QED BY <1>3, <1>4, <1>5, <1>6, <1>7, <1>8 DEF Next

\* While one works the others are not under way.
LEMMA OthersWait ==
    ASSUME Alone, ~hist.late, NEW q \in Req, req[q].pc \notin {"idle", "asked"}
    PROVE  lock = q /\ \A o \in Req : o # q => req[o].pc \in {"idle", "asked"}
BY DEF Alone, HoldsLock

\* A request that waits needs no lock.
LEMMA WaitingAlone ==
    ASSUME NEW q \in Req, req'[q].pc \in {"idle", "asked"}
    PROVE  AloneAt(q)'
BY DEF AloneAt, HoldsLock, Registered, Invoiced, Calling

\* One that works leaves the others where they are.
LEMMA StillWaiting ==
    ASSUME Alone, ~hist.late, NEW q \in Req, req[q].pc \notin {"idle", "asked"}, OthersStill(q)
    PROVE  \A o \in Req : o # q => AloneAt(o)'
PROOF
<1>1. \A o \in Req : o # q => req'[o].pc \in {"idle", "asked"}
  BY OthersWait DEF OthersStill, Still
<1>2. QED BY <1>1, WaitingAlone

\* A call that leaves the mutations alone, and the invoice as far as it matters.
LEMMA CallAlone ==
    ASSUME TypeOK, WorkFits, Alone, ~hist.late, NEW q \in Req, NEW pc, MovesTo(q, pc),
           UNCHANGED <<method, open, lock>>,
           req[q].pc \notin {"idle", "asked"}, pc \in Calling => req[q].pc \in Calling,
           pc = "pay" => inv'[req[q].item] = "open",
           pc \in {"put", "uncancel", "commit"} /\ req[q].op = "add" /\ ~ByCash(req[q]) =>
               \/ inv'[req[q].item] = "paid"
               \/ req[q].pc \in {"put", "uncancel", "commit"} /\ inv' = inv
    PROVE  \A o \in Req : AloneAt(o)'
PROOF
<1> DEFINE x == req[q]
           y == req'[q]
<1>1. y.op = x.op /\ y.item = x.item /\ y.new = x.new /\ y.task = x.task
      /\ y.pc = pc /\ y.mut = x.mut /\ OthersStill(q)
  BY DEF MovesTo, Alike
<1>2. lock' = q
  BY OthersWait
<1>3. HoldsLock(q)'
  BY <1>2 DEF HoldsLock
<1>4. Registered(q)'
  BY <1>1 DEF Registered, Alone
<1>5. Invoiced(q)'
  <2>1. x.op = "add" /\ ~ByCash(x) /\ x.pc \in {"put", "uncancel", "commit"} =>
          inv[x.item] = "paid"
    BY DEF Alone, Invoiced
  <2>2. QED BY <1>1, <2>1 DEF Invoiced, ByCash
<1>6. QED BY <1>1, <1>3, <1>4, <1>5, StillWaiting DEF AloneAt

\* Alone is inductive.
LEMMA AloneStep ==
    ASSUME TypeOK, WorkFits, Alone, [Next]_vars
    PROVE  Alone'
PROOF
<1> SUFFICES ASSUME ~hist'.late PROVE \A o \in Req : AloneAt(o)'
  BY DEF Alone, AloneAt
<1>1. ~hist.late
  BY LateMoves
<1>2. \A o \in Req : AloneAt(o)
  BY <1>1 DEF Alone, AloneAt
<1>3. \A o \in Req : OnItsWay(req[o]) /\ Fits(req[o]) /\ req[o] \in ReqRecord
  BY DEF WorkFits, TypeOK
<1>4. ASSUME UNCHANGED <<method, open, inv, lock, req>> PROVE \A o \in Req : AloneAt(o)'
  BY <1>2, <1>4 DEF AloneAt, HoldsLock, Registered, Invoiced, ByCash
<1>5. ASSUME NEW q \in Req, Ask(q) PROVE \A o \in Req : AloneAt(o)'
  <2>1. req'[q].pc = "asked" /\ OthersStill(q) /\ UNCHANGED <<method, open, inv, lock>>
    BY <1>5, AskMoves DEF tables, stripe
  <2>2. ASSUME NEW o \in Req, o # q PROVE AloneAt(o)'
    BY <1>2, <2>1, <2>2 DEF OthersStill, Still, Alike, AloneAt, HoldsLock, Registered,
                            Invoiced, ByCash
  <2>3. QED BY <2>1, <2>2, WaitingAlone
<1>6. ASSUME NEW q \in Req, TurnAway(q) PROVE \A o \in Req : AloneAt(o)'
  <2>1. req'[q].pc = "idle" /\ OthersStill(q) /\ UNCHANGED <<method, open, inv, lock>>
    BY <1>6, MovesOver DEF TurnAway, tables, stripe, IsIdle, Release
  <2>2. ASSUME NEW o \in Req, o # q PROVE AloneAt(o)'
    BY <1>2, <2>1, <2>2 DEF OthersStill, Still, Alike, AloneAt, HoldsLock, Registered,
                            Invoiced, ByCash
  <2>3. QED BY <2>1, <2>2, WaitingAlone
<1>7. ASSUME NEW q \in Req, Enter(q) PROVE \A o \in Req : AloneAt(o)'
  <2> DEFINE x == req[q]
             y == req'[q]
  <2>1. /\ lock = "free" /\ lock' = q /\ Alike(y, x) /\ OthersStill(q)
        /\ y.pc = FirstStep(x) /\ y.mut = MutationFor(x)
    BY <1>7, EnterMoves
  <2>2. ASSUME NEW o \in Req, o # q PROVE AloneAt(o)'
    <3>1. req[o].pc \in {"idle", "asked"}
      BY <1>2, <2>1, ItemsAssumption DEF AloneAt, HoldsLock
    <3>2. QED BY <2>1, <2>2, <3>1, WaitingAlone DEF OthersStill, Still
  <2>3. HoldsLock(q)'
    BY <2>1 DEF HoldsLock
  <2>4. Registered(q)'
    <3>1. CASE x.op = "reconcile" \/ ByCash(x)
      <4>1. y.mut = 0
        BY <2>1, <3>1 DEF MutationFor
      <4>2. QED BY <4>1 DEF Registered
    <3>2. CASE ~(x.op = "reconcile" \/ ByCash(x))
      <4>1. x.op \in Op
        BY <3>2, <1>3 DEF ReqRecord
      <4>2. FreeMutation # {} /\ SameRows(x) /\ Recorded(x, MutationFor(x))
        BY <1>7 DEF Enter, Entered
      <4>3. MutationOf(x) \in Range(open')
        BY <3>2, <4>1, <4>2, RecordedIs DEF MutationOf
      <4>4. QED BY <4>3, <2>1 DEF Registered, MutationOf, Alike
    <3>3. QED BY <3>1, <3>2
  <2>5. Invoiced(q)'
    <3>1. y.pc # "pay" /\ ~(y.op = "add" /\ y.pc \in {"put", "uncancel", "commit"} /\ ~ByCash(x))
      BY <2>1 DEF FirstStep, Alike
    <3>2. method' = method
      BY <1>7 DEF Enter, Entered
    <3>3. QED BY <3>1, <3>2, <2>1 DEF Invoiced, ByCash, Alike
  <2>6. QED BY <2>2, <2>3, <2>4, <2>5 DEF AloneAt
<1>8. ASSUME NEW q \in Req, \/ Put(q) \/ TakeSome(q) \/ TakeAll(q) \/ TakeNone(q)
                            \/ EndAtPeriodEnd(q) \/ Flag(q) \/ Uncancel(q)
                            \/ UncancelForAdd(q) \/ CleanUp(q)
      PROVE  \A o \in Req : AloneAt(o)'
  <2> DEFINE x == req[q]
  <2>1. x.pc \in {"put", "take", "end", "flag", "uncancel"} /\ inv' = inv
        /\ UNCHANGED <<method, open, lock>>
    BY <1>8 DEF Put, TakeSome, TakeAll, TakeNone, EndAtPeriodEnd, Flag, Uncancel,
                UncancelForAdd, CleanUp, tables, stripe
  <2>2. \E pc : MovesTo(q, pc) /\ pc # "pay" /\
                (x.op = "add" /\ pc \in {"put", "uncancel", "commit"} => x.pc \in {"put", "uncancel"})
    <3>1. CASE Put(q)
      BY <3>1, Moves DEF Put, AfterPut
    <3>2. CASE \/ TakeSome(q) \/ TakeAll(q) \/ TakeNone(q) \/ EndAtPeriodEnd(q) \/ Flag(q)
      <4>1. x.op # "add"
        BY <3>2, <1>3 DEF TakeSome, TakeAll, TakeNone, EndAtPeriodEnd, Flag, OnItsWay, Takers
      <4>2. QED BY <3>2, <4>1, Moves DEF AfterTake
    <3>3. CASE Uncancel(q) \/ UncancelForAdd(q) \/ CleanUp(q)
      <4>1. x.pc = "uncancel"
        BY <3>3 DEF Uncancel, UncancelForAdd, CleanUp
      <4>2. QED BY <3>3, <4>1, Moves DEF AfterUncancel
    <3>4. QED BY <1>8, <3>1, <3>2, <3>3
  <2>3. PICK pc : MovesTo(q, pc) /\ pc # "pay" /\
                (x.op = "add" /\ pc \in {"put", "uncancel", "commit"} => x.pc \in {"put", "uncancel"})
    BY <2>2
  <2>4. x.pc \in Calling /\ x.pc \notin {"idle", "asked"}
    BY <2>1 DEF Calling
  <2>5. QED BY <1>1, <2>1, <2>3, <2>4, CallAlone
<1>9. ASSUME NEW q \in Req, \/ Bill(q) \/ Finalize(q) \/ PayInvoice(q)
      PROVE  \A o \in Req : AloneAt(o)'
  <2> DEFINE x == req[q]
  <2>1. x.pc \in {"bill", "finalize", "pay"} /\ x.op = "add" /\ x.item \in Row
        /\ UNCHANGED <<method, open, lock>>
    BY <1>3, <1>9 DEF Bill, Finalize, PayInvoice, tables, OnItsWay, ReqRecord
  <2>2. inv \in [Row -> {"none", "retry", "draft", "open", "attempted", "paid", "void"}]
        /\ req \in [Req -> ReqRecord]
        /\ {"finalize", "pay", "put", "release"} \subseteq ReqPC
    BY DEF TypeOK, ReqPC
  <2>3. \E pc : MovesTo(q, pc) /\ pc \in {"finalize", "pay", "put", "release"}
                /\ (pc = "pay" => inv'[x.item] = "open")
                /\ (pc = "put" => inv'[x.item] = "paid")
    <3>1. CASE Bill(q)
      BY <3>1, Moves
    <3>2. CASE Finalize(q)
      <4>1. CASE inv' = [inv EXCEPT ![x.item] = "open"] /\ Step(q, "pay")
        <5>1. MovesTo(q, "pay")
          BY <4>1, <2>2, StepMoves
        <5>2. QED BY <4>1, <5>1, <2>1, <2>2
      <4>2. CASE inv' = [inv EXCEPT ![x.item] = "paid"] /\ Step(q, "put")
        <5>1. MovesTo(q, "put")
          BY <4>2, <2>2, StepMoves
        <5>2. QED BY <4>2, <5>1, <2>1, <2>2
      <4>3. QED BY <3>2, <4>1, <4>2 DEF Finalize
    <3>3. CASE PayInvoice(q)
      <4>1. CASE inv' = [inv EXCEPT ![x.item] = "paid"] /\ Step(q, "put")
        <5>1. MovesTo(q, "put")
          BY <4>1, <2>2, StepMoves
        <5>2. QED BY <4>1, <5>1, <2>1, <2>2
      <4>2. CASE Step(q, "release")
        BY <4>2, <2>2, StepMoves
      <4>3. QED BY <3>3, <4>1, <4>2 DEF PayInvoice
    <3>4. QED BY <1>9, <3>1, <3>2, <3>3
  <2>4. x.pc \in Calling /\ x.pc \notin {"idle", "asked"}
    BY <2>1 DEF Calling
  <2>5. QED BY <1>1, <2>1, <2>3, <2>4, CallAlone
<1>10. ASSUME NEW q \in Req, \/ CommitCash(q) \/ Sync(q) \/ SyncFlag(q) \/ Raise(q) \/ Fail(q)
                             \/ ApplyFails(q), req[q].pc \notin {"idle", "asked"}
       PROVE  \A o \in Req : AloneAt(o)'
  <2>1. PICK pc \in {"release", "sync", "settle"} : MovesTo(q, pc)
    BY <1>10, Moves
  <2>2. UNCHANGED <<method, open, lock>>
    BY <1>10 DEF CommitCash, Sync, SyncFlag, Raise, Fail, ApplyFails, tables
  <2>3. pc \notin Calling
    BY DEF Calling
  <2>4. QED BY <1>1, <1>10, <2>1, <2>2, <2>3, CallAlone
<1>11. ASSUME NEW q \in Req, Commit(q) \/ Apply(q) \/ Settle(q)
       PROVE  \A o \in Req : AloneAt(o)'
  <2>1. req[q].pc \notin {"idle", "asked"} /\ lock' = lock
    BY <1>11 DEF Commit, Apply, Settle
  <2>2. req'[q].pc \in {"release", "apply", "sync"} /\ OthersStill(q)
    BY <1>11, CommitMoves, ApplyMoves, Moves DEF MovesTo
  <2>3. lock' = q
    BY <1>1, <2>1, OthersWait
  <2>4. AloneAt(q)'
    BY <2>2, <2>3 DEF AloneAt, HoldsLock, Registered, Invoiced, Calling
  <2>5. QED BY <1>1, <2>1, <2>2, <2>4, StillWaiting
<1>12. ASSUME NEW q \in Req, Release(q) \/ Drop(q) \/ Crash(q)
       PROVE  \A o \in Req : AloneAt(o)'
  <2>1. req[q].pc \notin {"idle", "asked"}
    BY <1>12 DEF Release, Drop, Crash
  <2>2. IsIdle(req'[q]) /\ OthersStill(q) /\ (req'[q].pc = "drop" => Release(q) /\ lock = q)
    BY <1>12, MovesOver
  <2>3. AloneAt(q)'
    <3>1. CASE req'[q].pc = "idle"
      BY <3>1, WaitingAlone
    <3>2. CASE req'[q].pc = "drop"
      <4>1. lock' = q
        BY <2>2, <3>2 DEF Release
      <4>2. QED BY <3>2, <4>1, <2>2 DEF AloneAt, HoldsLock, Registered, Invoiced, Calling
    <3>3. QED BY <2>2, <3>1, <3>2 DEF IsIdle
  <2>4. QED BY <1>1, <2>1, <2>2, <2>3, StillWaiting
<1>13. ASSUME NEW q \in Req, PutRefused(q) \/ TakeRefused(q) \/ FinalizeRefused(q) \/ SyncCash(q)
       PROVE  \A o \in Req : AloneAt(o)'
  <2>1. Raise(q) /\ req[q].pc \notin {"idle", "asked"}
    BY <1>13 DEF PutRefused, TakeRefused, FinalizeRefused, SyncCash
  <2>2. QED BY <1>10, <2>1
<1>14. ASSUME NEW q \in Req, Work(q) PROVE \A o \in Req : AloneAt(o)'
  <2>1. ASSUME CommitCash(q) \/ Sync(q) \/ SyncFlag(q) PROVE \A o \in Req : AloneAt(o)'
    <3>1. req[q].pc \notin {"idle", "asked"}
      BY <2>1 DEF CommitCash, Sync, SyncFlag
    <3>2. QED BY <2>1, <3>1, <1>10
  <2>2. QED BY <1>14, <2>1, <1>8, <1>9, <1>11, <1>12, <1>13 DEF Work
<1>15. ASSUME NEW q \in Req, Fail(q) \/ ApplyFails(q) PROVE \A o \in Req : AloneAt(o)'
  <2>1. req[q].pc \notin {"idle", "asked"}
    BY <1>15 DEF Fail, ApplyFails
  <2>2. QED BY <1>15, <2>1, <1>10
<1>16. ASSUME \/ \E p \in Doomed : DeletePlan(p) \/ FinalizePlan(p)
              \/ EndPeriod \/ UNCHANGED vars
       PROVE  \A o \in Req : AloneAt(o)'
  <2>1. UNCHANGED <<method, open, inv, lock, req>>
    BY <1>16 DEF DeletePlan, FinalizePlan, EndPeriod, vars, stripe, tables
  <2>2. QED BY <2>1, <1>4
<1>17. ASSUME LockExpires PROVE \A o \in Req : AloneAt(o)'
  <2>1. \A o \in Req : req'[o].pc \in {"idle", "asked"}
    BY <1>2, <1>17, ItemsAssumption DEF LockExpires, AloneAt, HoldsLock
  <2>2. QED BY <2>1, WaitingAlone
<1>18. ~Overrun
  BY LateMoves DEF TypeOK, HistRecord, Overrun
<1>19. QED BY <1>5, <1>6, <1>7, <1>12, <1>14, <1>15, <1>16, <1>17, <1>18 DEF Next

-----------------------------------------------------------------------------
(* AllLanded is inductive, and what it is for.                             *)

\* A row that an addition gives, after it has been applied and when the mutations
\* that were given up are closed.
LEMMA ApplyLands ==
    ASSUME TypeOK, WorkFits, NEW q \in Req, Apply(q)
    PROVE  Landed(q)'
PROOF
<1> DEFINE all == Range(open)
           failed == {u \in all : GivenUp(u)}
           ids == {u.id : u \in failed}
<1>1. /\ row \in [Row -> RowRecord] /\ OwnFrom(row) /\ open \in Seq(MutationRecord)
      /\ \A u \in Range(open) : Fits(u) /\ u \in MutationRecord
      /\ OneOf(Range(open))
  BY DEF TypeOK, WorkFits, OwnFrom, Range
<1>2. row' = AllApplied /\ Close(q, ids)
  BY DEF Apply
<1>3. req'[q].done = {u.id : u \in {v \in Range(open) : Done(v)}}
  BY ApplyMoves
<1> SUFFICES ASSUME NEW k \in DOMAIN open', open'[k].op = "add", open'[k].id \in req'[q].done
             PROVE  \/ row'[open'[k].item].on
                    \/ \E m, n \in DOMAIN open' :
                         /\ m < n
                         /\ open'[m].op = "add" /\ open'[m].item = open'[k].item
                         /\ open'[n].op \in {"cancel", "change", "undo"}
                         /\ TakeRow(open'[n]) = open'[k].item
  BY DEF Landed, AddedAndTaken, TakeRow
<1> DEFINE a == open'[k]
<1>4. a \in Range(open)
  BY <1>2, CloseIs DEF Range
<1>5. Done(a)
  <2>1. PICK v \in Range(open) : Done(v) /\ v.id = a.id
    BY <1>3
  <2>2. QED BY <2>1, <1>1, <1>4 DEF OneOf
<1>6. PICK j \in 1..Len(open) : open[j] = a
  BY <1>4, <1>1 DEF Range
<1>7. a.item \in Row /\ a.item \in TurnsOn(a)
  BY <1>1, <1>4 DEF TurnsOn, PutRow, Putters, Fits, MutationRecord
<1>8. ASSUME ~row'[a.item].on
      PROVE  \E m, n \in DOMAIN open' :
               /\ m < n
               /\ open'[m].op = "add" /\ open'[m].item = a.item
               /\ open'[n].op \in {"cancel", "change", "undo"}
               /\ TakeRow(open'[n]) = a.item
  <2>1. PICK i \in 1..Len(open) : j < i /\ a.item \in TurnsOff(open[i])
    BY <1>1, <1>2, <1>5, <1>6, <1>7, <1>8, AllAppliedIs
  <2>2. open[i].op \in {"cancel", "change", "undo"} /\ TakeRow(open[i]) = a.item
    BY <2>1 DEF TurnsOff, Takers
  <2>3. open[i] \in Range(open) /\ open[j] \in Range(open)
    BY <1>1 DEF Range
  <2>4. open[i].id \notin ids
    <3>1. ASSUME NEW v \in failed, v.id = open[i].id PROVE FALSE
      BY <3>1, <2>2, <2>3, <1>1 DEF OneOf, GivenUp
    <3>2. QED BY <3>1
  <2>5. open[j].id \notin ids
    <3>1. ASSUME NEW v \in failed, v.id = open[j].id PROVE FALSE
      BY <3>1, <2>3, <1>1, <1>5, <1>6 DEF OneOf, Done
    <3>2. QED BY <3>1
  <2>6. PICK m \in 1..Len(open'), n \in 1..Len(open') :
          m < n /\ open'[m] = open[j] /\ open'[n] = open[i]
    <3> HIDE DEF ids
    <3>1. QED BY <1>2, <2>1, <2>4, <2>5, CloseIs
  <2>7. DOMAIN open' = 1..Len(open')
    BY <1>2, CloseIs
  <2>8. QED BY <2>2, <2>6, <2>7, <1>6
<1>9. QED BY <1>8

\* AllLanded is inductive.
LEMMA AllLandedStep ==
    ASSUME TypeOK, WorkFits, Alone, AllLanded, [Next]_vars
    PROVE  AllLanded'
PROOF
<1> SUFFICES ASSUME ~hist'.late, NEW o \in Req PROVE Landed(o)'
  BY DEF AllLanded
<1>1. ~hist.late
  BY LateMoves
<1>2. Landed(o)
  BY <1>1 DEF AllLanded
<1>3. open \in Seq(MutationRecord) /\ \A j \in DOMAIN open : open[j].item \in Row
  BY RowsTyped DEF TypeOK, Range
<1>4. ASSUME open' = open, \A r \in Row : row'[r].on = row[r].on,
             req'[o].pc \in {"sync", "settle"} => req[o].pc \in {"sync", "settle"},
             req'[o].done = req[o].done
      PROVE  Landed(o)'
  BY <1>2, <1>3, <1>4 DEF Landed, AddedAndTaken, TakeRow
<1>5. ASSUME req'[o].pc \notin {"sync", "settle"} PROVE Landed(o)'
  BY <1>5 DEF Landed
<1>6. ASSUME NEW q \in Req, q # o, OthersStill(q), req[q].pc \notin {"idle", "asked"}
      PROVE  Landed(o)'
  <2>1. req'[o].pc \in {"idle", "asked"}
    BY <1>1, <1>6, OthersWait DEF OthersStill, Still
  <2>2. QED BY <2>1, <1>5
<1>7. ASSUME NEW q \in Req, Ask(q) \/ TurnAway(q) PROVE Landed(o)'
  <2>1. open' = open /\ row' = row /\ OthersStill(q) /\ req'[q].pc \in {"idle", "asked"}
    BY <1>7, AskMoves, MovesOver DEF tables, TurnAway, Release, IsIdle
  <2>2. CASE o = q
    BY <2>1, <2>2, <1>5
  <2>3. CASE o # q
    BY <2>1, <2>3, <1>4 DEF OthersStill, Still
  <2>4. QED BY <2>2, <2>3
<1>8. ASSUME NEW q \in Req, Enter(q) PROVE Landed(o)'
  <2>1. OthersStill(q) /\ lock = "free" /\ req'[q].pc = FirstStep(req[q])
    BY <1>8, EnterMoves
  <2>2. req[o].pc \in {"idle", "asked"}
    BY <1>1, <2>1, ItemsAssumption DEF Alone, HoldsLock
  <2>3. CASE o = q
    BY <2>1, <2>3, <1>5 DEF FirstStep
  <2>4. CASE o # q
    BY <2>1, <2>2, <2>4, <1>5 DEF OthersStill, Still
  <2>5. QED BY <2>3, <2>4
<1>9. ASSUME NEW q \in Req, Sync(q) \/ SyncFlag(q) PROVE Landed(o)'
  <2>1. /\ req[q].pc = "sync" /\ OthersStill(q)
        /\ req'[q].pc \in {"sync", "settle"} /\ req'[q].done = req[q].done
    BY <1>9, Moves DEF Sync, SyncFlag, MovesTo
  <2>2. open' = open
    BY <1>9 DEF Sync, SyncFlag
  <2>3. \A r \in Row : row'[r].on = row[r].on
    <3>1. ~\E p \in Req : Commit(p) \/ CommitCash(p) \/ Apply(p)
                           \/ (TakeNone(p) /\ req[p].op = "cancel")
      <4>1. ASSUME NEW p \in Req, Commit(p) \/ CommitCash(p) \/ Apply(p) \/ TakeNone(p)
            PROVE  FALSE
        <5>1. req[p].pc \in {"commit", "apply", "take"}
          BY <4>1 DEF Commit, CommitCash, Apply, TakeNone
        <5>2. QED BY <5>1, <2>1, <1>1, OthersWait
      <4>2. QED BY <4>1
    <3>2. QED BY <3>1, OnMoves
  <2>4. CASE o = q
    BY <2>1, <2>2, <2>3, <2>4, <1>4
  <2>5. CASE o # q
    BY <2>1, <2>5, <1>6
  <2>6. QED BY <2>4, <2>5
<1>10. ASSUME NEW q \in Req, Apply(q) PROVE Landed(o)'
  <2>1. OthersStill(q) /\ req[q].pc = "apply"
    BY <1>10, ApplyMoves DEF Apply
  <2>2. QED BY <2>1, <1>6, <1>10, ApplyLands
<1>11. ASSUME NEW q \in Req, OthersStill(q), req[q].pc \notin {"idle", "asked"},
              req'[q].pc \notin {"sync", "settle"}
       PROVE  Landed(o)'
  BY <1>5, <1>6, <1>11
<1>12. ASSUME NEW q \in Req, NEW pc, MovesTo(q, pc), req[q].pc \notin {"idle", "asked"},
              pc \notin {"sync", "settle"}
       PROVE  Landed(o)'
  BY <1>11, <1>12 DEF MovesTo
<1>13. ASSUME NEW q \in Req, \/ Put(q) \/ TakeSome(q) \/ TakeAll(q) \/ TakeNone(q)
                             \/ EndAtPeriodEnd(q) \/ Flag(q) \/ Uncancel(q)
                             \/ UncancelForAdd(q) \/ CleanUp(q)
       PROVE  Landed(o)'
  <2>1. \E pc : MovesTo(q, pc) /\ pc \notin {"sync", "settle"}
    BY <1>13, Moves DEF AfterPut, AfterTake, AfterUncancel
  <2>2. req[q].pc \notin {"idle", "asked"}
    BY <1>13 DEF Put, TakeSome, TakeAll, TakeNone, EndAtPeriodEnd, Flag, Uncancel,
                 UncancelForAdd, CleanUp
  <2>3. QED BY <2>1, <2>2, <1>12
<1>14. ASSUME NEW q \in Req, \/ Bill(q) \/ Finalize(q) \/ PayInvoice(q) \/ CommitCash(q)
                             \/ Settle(q) \/ Fail(q) \/ ApplyFails(q)
       PROVE  Landed(o)'
  <2>1. \E pc : MovesTo(q, pc) /\ pc \notin {"sync", "settle"}
    BY <1>14, Moves
  <2>2. req[q].pc \notin {"idle", "asked"}
    BY <1>14 DEF Bill, Finalize, PayInvoice, CommitCash, Settle, Fail, ApplyFails
  <2>3. QED BY <2>1, <2>2, <1>12
<1>15. ASSUME NEW q \in Req, PutRefused(q) \/ TakeRefused(q) \/ FinalizeRefused(q) \/ SyncCash(q)
       PROVE  Landed(o)'
  <2>1. Raise(q) /\ req[q].pc \notin {"idle", "asked"}
    BY <1>15 DEF PutRefused, TakeRefused, FinalizeRefused, SyncCash
  <2>2. QED BY <2>1, <1>12, Moves
<1>16. ASSUME NEW q \in Req, Commit(q) PROVE Landed(o)'
  <2>1. OthersStill(q) /\ req'[q].pc \in {"apply", "release"}
    BY <1>16, CommitMoves
  <2>2. req[q].pc = "commit"
    BY <1>16 DEF Commit
  <2>3. QED BY <2>1, <2>2, <1>11
<1>17. ASSUME NEW q \in Req, Release(q) \/ Drop(q) \/ Crash(q) PROVE Landed(o)'
  <2>1. OthersStill(q) /\ req'[q].pc \in {"idle", "drop"}
    BY <1>17, MovesOver DEF IsIdle
  <2>2. req[q].pc \notin {"idle", "asked"}
    BY <1>17 DEF Release, Drop, Crash
  <2>3. QED BY <2>1, <2>2, <1>11
<1>18. ASSUME NEW q \in Req, Work(q) PROVE Landed(o)'
  BY <1>9, <1>10, <1>13, <1>14, <1>15, <1>16, <1>17, <1>18 DEF Work
<1>19. ASSUME \/ \E p \in Doomed : DeletePlan(p) \/ FinalizePlan(p)
              \/ LockExpires \/ Overrun \/ UNCHANGED vars
       PROVE  Landed(o)'
  <2>1. open' = open /\ row' = row /\ req' = req
    BY <1>19 DEF DeletePlan, FinalizePlan, LockExpires, Overrun, vars, tables
  <2>2. QED BY <2>1, <1>4
<1>20. ASSUME EndPeriod PROVE Landed(o)'
  BY <1>5, <1>20 DEF EndPeriod
<1>21. QED BY <1>7, <1>8, <1>14, <1>17, <1>18, <1>19, <1>20 DEF Next

\* What PaidAdditionLands says of a step.
LEMMA LandsStep ==
    ASSUME TypeOK, WorkFits, Alone, AllLanded, [Next]_vars, NEW r \in Row,
           IsOpen("add", r), ~IsOpen("add", r)', inv[r] \in {"paid", "attempted"}, ~hist.late
    PROVE  row'[r].on \/ AddedAndTaken(r)
PROOF
<1>1. PICK j \in DOMAIN open : open[j].op = "add" /\ open[j].item = r
  BY DEF IsOpen
<1> DEFINE u == open[j]
<1>2. u \in Range(open) /\ OneOf(Range(open)) /\ u \in MutationRecord /\ Fits(u)
  BY DEF WorkFits, TypeOK, Range
<1>3. u \notin Range(open')
  BY <1>1 DEF IsOpen, Range
<1>4. ASSUME NEW q \in Req, NEW ids, Close(q, ids) PROVE u.id \in ids
  BY <1>2, <1>3, <1>4, CloseIs
<1>5. ASSUME NEW q \in Req, Apply(q) PROVE FALSE
  <2>1. u.id \in {v.id : v \in {w \in Range(open) : GivenUp(w)}}
    BY <1>4, <1>5 DEF Apply
  <2>2. GivenUp(u)
    BY <2>1, <1>2 DEF OneOf
  <2>3. QED BY <2>2, <1>1 DEF GivenUp
<1>6. ASSUME NEW q \in Req, Commit(q) PROVE row'[r].on
  <2> DEFINE x == req[q]
  <2>1. u.id = x.mut
    BY <1>4, <1>6 DEF Commit
  <2>2. x.pc = "commit" /\ x.mut # 0
    BY <1>6, <1>2, <2>1, ItemsAssumption DEF Commit, MutationRecord
  <2>3. [id |-> x.mut, op |-> x.op, item |-> x.item, new |-> x.new] \in Range(open)
    BY <2>2 DEF Alone, Registered, Calling
  <2>4. u = [id |-> x.mut, op |-> x.op, item |-> x.item, new |-> x.new]
    BY <2>1, <2>3, <1>2 DEF OneOf
  <2>5. x.op = "add" /\ x.item = r /\ x.new = r
    BY <2>4, <1>1, <1>2 DEF Fits
  <2>6. r \in TurnsOn(x)
    BY <2>5 DEF TurnsOn, PutRow, Putters
  <2>7. QED BY <2>6, <1>6, CommittedIs
<1>7. ASSUME NEW q \in Req, Settle(q) PROVE row'[r].on \/ AddedAndTaken(r)
  <2>1. u.id \in req[q].done /\ req[q].pc = "settle" /\ row' = row
    BY <1>4, <1>7 DEF Settle
  <2>2. QED BY <2>1, <1>1 DEF AllLanded, Landed
<1>8. \E q \in Req : Apply(q) \/ Commit(q) \/ Settle(q)
  <2>1. ASSUME NEW q \in Req, Work(q), ~(Apply(q) \/ Commit(q) \/ Settle(q)) PROVE open' = open
    BY <2>1 DEF Work, Put, PutRefused, TakeSome, TakeAll, TakeRefused, TakeNone,
              EndAtPeriodEnd, Flag, Uncancel, UncancelForAdd, CleanUp, Bill, Finalize,
              FinalizeRefused, PayInvoice, CommitCash, Sync, SyncFlag,
              SyncCash, Release, Drop, Raise, tables
  <2>2. ASSUME NEW q \in Req, Ask(q) PROVE open' = open
    BY <2>2, AskMoves DEF tables
  <2>3. ASSUME NEW q \in Req, TurnAway(q) \/ Fail(q) \/ ApplyFails(q) \/ Crash(q)
        PROVE open' = open
    BY <2>3 DEF TurnAway, Fail, ApplyFails, Crash, tables
  <2>4. ASSUME NEW q \in Req, Enter(q) PROVE Range(open) \subseteq Range(open')
    <3>1. open' = open \/ \E e \in MutationRecord : open' = Append(open, e)
      <4>1. Recorded(req[q], MutationFor(req[q]))
        BY <2>4 DEF Enter, Entered
      <4>2. CASE MutationFor(req[q]) \in {0} \cup {v.id : v \in Range(open)}
        BY <4>1, <4>2 DEF Recorded
      <4>3. CASE MutationFor(req[q]) \notin {0} \cup {v.id : v \in Range(open)}
        <5>1. req[q].op \in Op /\ ~ByCash(req[q])
          <6>1. req[q].op \in Op \cup {"reconcile"}
            BY DEF TypeOK, ReqRecord
          <6>2. QED BY <4>3, <6>1 DEF MutationFor
        <5>2. MutationOf(req[q]) \in MutationRecord
          BY <5>1, <4>1, <2>4, RecordedIs DEF MutationOf, Enter, Entered
        <5>3. QED BY <5>2, <4>1, <4>3 DEF Recorded, MutationOf
      <4>4. QED BY <4>2, <4>3
    <3>2. open \in Seq(MutationRecord)
      BY DEF TypeOK
    <3>3. CASE open' = open
      BY <3>3
    <3>4. CASE \E e \in MutationRecord : open' = Append(open, e)
      <4>1. PICK e \in MutationRecord : open' = Append(open, e)
        BY <3>4
      <4>2. Range(Append(open, e)) = Range(open) \cup {e}
        BY <3>2, AppendRange
      <4>3. Range(open') = Range(open) \cup {e}
        BY <4>1, <4>2
      <4>4. QED BY <4>3
    <3>5. QED BY <3>1, <3>3, <3>4
  <2>5. ASSUME \/ \E p \in Doomed : DeletePlan(p) \/ FinalizePlan(p)
               \/ LockExpires \/ Overrun \/ EndPeriod \/ UNCHANGED vars
        PROVE  open' = open
    BY <2>5 DEF DeletePlan, FinalizePlan, LockExpires, Overrun, EndPeriod, vars, tables
  <2>6. QED BY <2>1, <2>2, <2>3, <2>4, <2>5, <1>2, <1>3 DEF Next
<1>9. QED BY <1>5, <1>6, <1>7, <1>8

-----------------------------------------------------------------------------
(* Even is inductive while no lock has run out.                            *)

\* Counting the active rows of a plan: nothing moved, one more, one less.
LEMMA WantedMoves ==
    ASSUME NEW p
    PROVE  /\ (\A s \in Row : PlanOf[s] = p => row'[s].on = row[s].on) => Wanted(p)' = Wanted(p)
           /\ \A r \in Row :
                /\ PlanOf[r] = p
                /\ \A s \in Row : PlanOf[s] = p /\ s # r => row'[s].on = row[s].on
                => /\ ~row[r].on /\ row'[r].on => Wanted(p)' = Wanted(p) + 1
                   /\ row[r].on /\ ~row'[r].on => Wanted(p)' = Wanted(p) - 1
                   /\ ~row[r].on /\ ~row'[r].on => Wanted(p)' = Wanted(p)
PROOF
<1> DEFINE A == ActiveOf(p)
           B == ActiveOf(p)'
<1>1. A = {s \in Row : row[s].on /\ PlanOf[s] = p} /\ B = {s \in Row : row'[s].on /\ PlanOf[s] = p}
  BY DEF ActiveOf
<1>2. Wanted(p) = Cardinality(A) /\ Wanted(p)' = Cardinality(B)
  BY DEF Wanted
<1>3. IsFiniteSet(A) /\ IsFiniteSet(B) /\ Cardinality(A) \in Nat /\ Cardinality(B) \in Nat
  <2>1. A \in SUBSET Row /\ B \in SUBSET Row
    BY <1>1
  <2>2. QED BY <2>1, WantedTyped
<1> HIDE DEF A, B
<1>4. (\A s \in Row : PlanOf[s] = p => row'[s].on = row[s].on) => A = B
  BY <1>1
<1>5. ASSUME NEW r \in Row, PlanOf[r] = p,
             \A s \in Row : PlanOf[s] = p /\ s # r => row'[s].on = row[s].on
      PROVE  /\ ~row[r].on /\ row'[r].on => Cardinality(B) = Cardinality(A) + 1
             /\ row[r].on /\ ~row'[r].on => Cardinality(B) = Cardinality(A) - 1
             /\ ~row[r].on /\ ~row'[r].on => Cardinality(B) = Cardinality(A)
  <2>1. CASE ~row[r].on /\ row'[r].on
    <3>1. B = A \cup {r} /\ r \notin A
      BY <1>1, <1>5, <2>1
    <3>2. QED BY <3>1, <1>3, <2>1, FS_AddElement
  <2>2. CASE row[r].on /\ ~row'[r].on
    <3>1. B = A \ {r} /\ r \in A
      BY <1>1, <1>5, <2>2
    <3>2. QED BY <3>1, <1>3, <2>2, FS_RemoveElement
  <2>3. CASE ~row[r].on /\ ~row'[r].on
    <3>1. B = A
      BY <1>1, <1>5, <2>3
    <3>2. QED BY <3>1, <2>3
  <2>4. QED BY <2>1, <2>2, <2>3
<1>6. QED BY <1>2, <1>4, <1>5

\* Quantities are numbers.
LEMMA QtyTyped ==
    ASSUME TypeOK
    PROVE  /\ \A p \in Plan : qty[p] \in Nat
           /\ \A p : Wanted(p) \in Nat
BY WantedTyped DEF TypeOK

\* A mutation explains what it explained unless its invoice or its row moves.
Explains(u) ==
    u.op = "add" => \/ inv'[u.item] = inv[u.item]
                    \/ inv[u.item] \notin {"draft", "attempted", "paid"}
                    \/ inv[u.item] = "draft" /\ ~row[u.item].on

\* What was explained stays explained when nothing that explains it moves.
LEMMA AgreesFrame ==
    ASSUME NEW p, NEW n, NEW us, NEW vs, us \subseteq vs,
           Agrees(p, n, us), qty'[p] = qty[p], p \in hist.kept => p \in hist'.kept,
           \A u \in us : Fits(u) /\ Explains(u),
           \A r \in Row : PlanOf[r] = p /\ row[r].on => row'[r].on,
           \A u \in us : u.item \in Row
    PROVE  Agrees(p, n, vs)'
PROOF
<1>1. ASSUME NEW u \in us, Lacks(u, p) PROVE Lacks(u, p)' /\ u \in vs
  <2>1. Touches(u, p)' /\ Touches(u, p)
    BY <1>1 DEF Lacks, Touches
  <2>2. u.op \in {"resume", "add"} => PlanOf[u.item] = p
    BY <2>1 DEF Fits, Touches
  <2>3. u.op \in {"resume", "add"} => row[u.item].on /\ row'[u.item].on
    BY <1>1, <2>2 DEF Lacks
  <2>4. u.op = "add" => inv[u.item] \in {"draft", "attempted", "paid"}
    BY <1>1 DEF Lacks, Solid
  <2>5. u.op = "add" => inv'[u.item] = inv[u.item]
    BY <2>3, <2>4 DEF Explains
  <2>6. QED BY <2>1, <2>3, <2>4, <2>5 DEF Lacks, Solid
<1>2. ASSUME NEW u \in us, Exceeds(u, p) PROVE Exceeds(u, p)' /\ u \in vs
  <2>1. u.op = "add" => inv[u.item] = "paid" /\ inv'[u.item] = "paid"
    BY <1>2 DEF Exceeds, Explains
  <2>2. QED BY <2>1, <1>2 DEF Exceeds, Touches
<1>3. QED BY <1>1, <1>2 DEF Agrees

\* A mutation that takes away explains any quantity of its plans.
LEMMA TakerExplains ==
    ASSUME NEW p, NEW n, NEW us, NEW u \in us, u.op \in Takers, Touches(u, p)
    PROVE  Agrees(p, n, us) /\ Agrees(p, n, us)'
BY DEF Agrees, Lacks, Exceeds, Solid, Takers, Touches

\* The mutation of a request that is under way is open, and different from the others.
LEMMA OwnIs ==
    ASSUME TypeOK, WorkFits, Alone, ~hist.late, method = "stripe", NEW q \in Req,
           req[q].pc \in Calling
    PROVE  LET x == req[q]
               u == [id |-> x.mut, op |-> x.op, item |-> x.item, new |-> x.new]
           IN  /\ x.item \in Row /\ x.new \in Row /\ x.op \in Op /\ x.mut # 0
               /\ u \in Range(open) /\ Fits(u) /\ Fits(x) /\ OnItsWay(x)
               /\ Range(open) = Others(x) \cup {u}
               /\ \A v \in Others(x) : v.op = x.op => v.item # x.item
PROOF
<1> DEFINE x == req[q]
           u == [id |-> x.mut, op |-> x.op, item |-> x.item, new |-> x.new]
<1>1. x \in ReqRecord /\ Fits(x) /\ OnItsWay(x)
  BY DEF TypeOK, WorkFits
<1>2. x.item \in Row /\ x.new \in Row
  BY <1>1 DEF ReqRecord
<1>3. x.mut # 0
  BY <1>1 DEF OnItsWay, ByCash
<1>4. u \in Range(open)
  BY <1>3 DEF Alone, Registered
<1>5. open \in Seq(MutationRecord) /\ OneOf(Range(open))
  BY DEF TypeOK, WorkFits
<1>6. Range(open) \subseteq MutationRecord
  BY <1>5 DEF Range
<1>7. x.op \in Op
  <2>1. u \in MutationRecord
    BY <1>4, <1>6
  <2>2. u.op \in Op
    BY <2>1 DEF MutationRecord
  <2>3. QED BY <2>2
<1>8. \A v \in Range(open) : v.id = x.mut => v = u
  BY <1>4, <1>5 DEF OneOf
<1>9. Range(open) = Others(x) \cup {u}
  BY <1>4, <1>8 DEF Others
<1>10. \A v \in Others(x) : v.op = x.op => v.item # x.item
  BY <1>4, <1>5 DEF Others, OneOf
<1>11. Fits(u)
  BY <1>1 DEF Fits
<1>12. QED BY <1>1, <1>2, <1>3, <1>4, <1>7, <1>9, <1>10, <1>11

\* What is off is explained, in the middle of an operation by its own mutation.
LEMMA Explained ==
    ASSUME TypeOK, WorkFits, Alone, Even, ~hist.late, method = "stripe", NEW p \in Plan
    PROVE  Agrees(p, Wanted(p), Range(open))
PROOF
<1>1. qty[p] \in Nat /\ Wanted(p) \in Nat
  BY QtyTyped
<1>2. CASE \A q \in Req : ~HasDone(req[q], p)
  BY <1>2 DEF Even
<1>3. ASSUME NEW q \in Req, HasDone(req[q], p) PROVE Agrees(p, Wanted(p), Range(open))
  <2> DEFINE x == req[q]
             u == [id |-> x.mut, op |-> x.op, item |-> x.item, new |-> x.new]
  <2>1. x.pc \in Calling
    BY <1>3 DEF HasDone, HasPut, HasTaken, Calling
  <2>2. /\ x.item \in Row /\ x.new \in Row /\ x.op \in Op
        /\ u \in Range(open) /\ Fits(u) /\ Fits(x) /\ OnItsWay(x)
        /\ Range(open) = Others(x) \cup {u}
    BY <2>1, OwnIs
  <2>3. EvenAt(q)
    BY DEF Even
  <2>4. CASE x.op \in Takers
    <3>1. Touches(u, p)
      BY <1>3, <2>2, <2>4 DEF HasDone, HasPut, HasTaken, Touches, TakePlan, PutRow, TakeRow, Fits
    <3>2. QED BY <2>2, <2>4, <3>1, TakerExplains
  <2>5. CASE x.op \notin Takers
    <3>1. HasPut(x) /\ p = PlanOf[PutRow(x)] /\ x.op \in {"resume", "add"}
      BY <1>3, <2>5 DEF HasDone, HasPut, HasTaken, Takers
    <3>2. Agrees(p, Wanted(p) + 1, Others(x))
      BY <2>3, <3>1 DEF EvenAt
    <3>3. Touches(u, p)
      BY <3>1, <2>2 DEF Touches, PutRow, Fits
    <3>4. u.op = "add" => inv[u.item] = "paid"
      <4>1. x.op = "add" => x.pc \in {"uncancel", "commit"} /\ ~ByCash(x)
        BY <3>1 DEF HasPut, ByCash
      <4>2. Invoiced(q)
        BY DEF Alone
      <4>3. QED BY <4>1, <4>2 DEF Invoiced
    <3>5. Exceeds(u, p)
      BY <3>3, <3>4 DEF Exceeds
    <3>6. qty[p] < Wanted(p) => \E v \in Range(open) : Lacks(v, p)
      BY <3>2, <1>1, <2>2 DEF Agrees
    <3>7. QED BY <3>5, <3>6, <2>2 DEF Agrees
  <2>6. QED BY <2>4, <2>5
<1>4. QED BY <1>2, <1>3

\* Work that has not counted on a quantity, or not yet.
Plain(y) == ~HasPut(y) /\ ~HasTaken(y) /\ y.pc \notin {"flag", "end", "settle"}

\* A request that has not begun or is over has moved no quantity.
LEMMA PlainWaits ==
    ASSUME NEW y, y.pc \in {"idle", "asked", "release", "drop", "bill", "finalize", "pay",
                            "apply", "sync"}
    PROVE  Plain(y)
BY DEF Plain, HasPut, HasTaken

\* Of such a request there is nothing to say.
LEMMA PlainEven ==
    ASSUME NEW o \in Req, Plain(req'[o])
    PROVE  EvenAt(o)' /\ \A p : ~HasDone(req'[o], p)
BY DEF EvenAt, Plain, HasPut, HasTaken, HasDone

\* For a step of the holder it is enough to look at the holder.
LEMMA HolderEven ==
    ASSUME NEW q \in Req, \A o \in Req : o # q => Plain(req'[o]),
           EvenAt(q)',
           \A p \in Plan : ~HasDone(req'[q], p) => Agrees(p, Wanted(p), Range(open))'
    PROVE  Even'
PROOF
<1>1. \A o \in Req : EvenAt(o)'
  BY PlainEven
<1>2. \A p \in Plan : (\A o \in Req : ~HasDone(req'[o], p)) => Agrees(p, Wanted(p), Range(open))'
  OBVIOUS
<1>3. QED BY <1>1, <1>2 DEF Even, HasDone, HasPut, HasTaken, TakePlan, TakeRow, PutRow

\* Only the holder of the lock has moved a quantity.
LEMMA OthersPlain ==
    ASSUME Alone, ~hist.late, NEW q \in Req, req[q].pc \notin {"idle", "asked"}, OthersStill(q)
    PROVE  \A o \in Req : o # q => Plain(req'[o])
PROOF
<1>1. \A o \in Req : o # q => req'[o].pc \in {"idle", "asked"}
  BY OthersWait DEF OthersStill, Still
<1>2. QED BY <1>1, PlainWaits

\* A request goes on, and the quantity it counted on is the same.
Follows(y, x) ==
    /\ Alike(y, x) /\ y.mut = x.mut
    /\ HasPut(y) => HasPut(x)
    /\ HasTaken(y) => HasTaken(x) \/ (x.pc = "flag" /\ x.op = "cancel")
    /\ y.pc \in {"flag", "end", "settle"} => y.pc = x.pc

Carries(o) ==
    \/ Plain(req'[o])
    \/ req'[o].pc = "end" /\ req'[o].op = "cancel" /\ Cardinality({r \in Row : row[r].on}) <= 1
    \/ Follows(req'[o], req[o])

\* Nothing moves but requests and invoices, and mutations may be opened.
Calm ==
    /\ \A r \in Row : row'[r].on = row[r].on
    /\ qty' = qty /\ hist'.kept = hist.kept
    /\ Range(open) \subseteq Range(open')
    /\ \A u \in Range(open) : Explains(u)

\* What an open mutation names.
LEMMA OpenFits ==
    ASSUME TypeOK, WorkFits
    PROVE  \A u \in Range(open) : u \in MutationRecord /\ u.item \in Row /\ u.new \in Row /\ Fits(u)
PROOF
<1>1. open \in Seq(MutationRecord)
  BY DEF TypeOK
<1>2. Range(open) \subseteq MutationRecord
  BY <1>1 DEF Range
<1>3. QED BY <1>2 DEF MutationRecord, WorkFits

\* A calm step keeps what the open mutations explain.
LEMMA CalmAgrees ==
    ASSUME TypeOK, WorkFits, Calm, NEW p, NEW n, NEW us, NEW vs, us \subseteq Range(open), us \subseteq vs,
           Agrees(p, n, us)
    PROVE  Agrees(p, n, vs)'
BY AgreesFrame, OpenFits DEF Calm

\* A quantity that is right stays right when neither it nor the rows move.
LEMMA OffStays ==
    ASSUME NEW p, qty'[p] = qty[p], Wanted(p)' = Wanted(p), p \in hist.kept => p \in hist'.kept
    PROVE  ~Off(p) => ~Off(p)'
BY DEF Off

\* A calm step that lets every request carry on keeps everything explained.
LEMMA CalmEven ==
    ASSUME TypeOK, WorkFits, Alone, Even, ~hist.late, method = "stripe", Calm,
           \A o \in Req : Carries(o)
    PROVE  Even'
PROOF
<1>1. \A p : Wanted(p)' = Wanted(p)
  BY WantedMoves DEF Calm
<1>2. ASSUME NEW p \in Plan PROVE Agrees(p, Wanted(p), Range(open))'
  <2> DEFINE n == Wanted(p)
             us == Range(open)
             vs == Range(open)'
  <2>1. Agrees(p, n, us) /\ us \subseteq vs /\ us \subseteq Range(open)
    BY Explained DEF Calm
  <2>2. PICK m, ws : m = n /\ ws = vs
    OBVIOUS
  <2> HIDE DEF n, us, vs
  <2>3. Agrees(p, m, ws)'
    BY <2>1, <2>2, CalmAgrees
  <2>4. m = Wanted(p)' /\ ws = Range(open')
    BY <2>2, <1>1 DEF n, vs
  <2>5. QED BY <2>3, <2>4 DEF Agrees
<1>3. {r \in Row : row'[r].on} = {r \in Row : row[r].on}
  BY DEF Calm
<1>4. \A p \in Plan : ~Off(p) => ~Off(p)'
  BY <1>1, OffStays DEF Calm
<1>5. ASSUME NEW o \in Req PROVE EvenAt(o)'
  <2> DEFINE x == req[o]
             y == req'[o]
  <2>1. CASE Plain(y)
    BY <2>1, PlainEven
  <2>2. CASE y.pc = "end" /\ y.op = "cancel" /\ Cardinality({r \in Row : row[r].on}) <= 1
    BY <2>2, <1>3 DEF EvenAt, HasPut, HasTaken
  <2>3. CASE Follows(y, x)
    <3>1. EvenAt(o) /\ x \in ReqRecord
      BY DEF Even, TypeOK
    <3>2. /\ PutRow(y) = PutRow(x) /\ TakeRow(y) = TakeRow(x) /\ TakePlan(y) = TakePlan(x)
          /\ y.op = x.op /\ y.item = x.item /\ InGrace(y) = InGrace(x) /\ y.mut = x.mut
      BY <2>3 DEF Follows, Alike, PutRow, TakeRow, TakePlan, InGrace
    <3>3. PutRow(x) \in Row /\ TakeRow(x) \in Row /\ TakePlan(x) \in Plan
      BY <3>1, PlanTyped DEF PutRow, TakeRow, TakePlan, ReqRecord
    <3>4. LastLeft(x) => LastLeft(x)'
      BY <3>2 DEF LastLeft, Calm
    <3>5. ASSUME HasPut(x)' PROVE ~row'[PutRow(x)'].on
                                 /\ Agrees(PlanOf[PutRow(x)], Wanted(PlanOf[PutRow(x)]) + 1, Others(x))'
      <4>1. PICK r, p, m, us, vs :
              r \in Row /\ r = PutRow(x) /\ p = PlanOf[r] /\ m = Wanted(p) + 1 /\ us = Others(x) /\ vs = Others(x)'
        BY <3>3
      <4>2. ~row[r].on /\ Agrees(p, m, us)
        BY <4>1, <3>1, <3>5, <2>3 DEF EvenAt, Follows, HasPut
      <4>3. us \subseteq vs /\ us \subseteq Range(open)
        BY <4>1, <3>2 DEF Others, Calm
      <4>4. Agrees(p, m, vs)'
        BY <4>2, <4>3, CalmAgrees
      <4>5. row'[r].on = row[r].on
        BY <4>1 DEF Calm
      <4>6. m = Wanted(p)' + 1
        BY <4>1, <1>1
      <4>7. PutRow(x)' = r
        BY <4>1, <3>2 DEF PutRow
      <4>8. QED BY <4>1, <4>2, <4>4, <4>5, <4>6, <4>7 DEF Agrees
    <3>6. HasPut(x)' /\ y.op = "change" /\ InGrace(y) => ~row'[y.item].on /\ ~Off(TakePlan(x))'
      <4>1. PICK p \in Plan : p = TakePlan(x)
        BY <3>3
      <4>2. SUFFICES ASSUME HasPut(x)', y.op = "change", InGrace(y)
                     PROVE  ~row'[x.item].on /\ ~Off(TakePlan(x))'
        BY <3>2
      <4>3. ~row[x.item].on /\ ~Off(p)
        BY <4>1, <4>2, <3>1, <3>2, <2>3 DEF EvenAt, Follows, HasPut
      <4>4. ~Off(p)' /\ row'[x.item].on = row[x.item].on
        BY <4>3, <1>4, <3>1 DEF Calm, ReqRecord
      <4>5. TakePlan(x)' = p
        BY <4>1, <3>2 DEF TakePlan, TakeRow
      <4>6. QED BY <4>3, <4>4, <4>5 DEF Off
    <3>7. ASSUME HasTaken(x)'
          PROVE \/ row'[TakeRow(x)'].on /\ qty'[TakePlan(x)'] = Wanted(TakePlan(x))' - 1
                \/ y.op = "undo" /\ ~row'[TakeRow(x)'].on /\ ~Off(TakePlan(x))'
                \/ y.op = "cancel" /\ LastLeft(x)'
      <4>1. PICK r \in Row, p \in Plan : r = TakeRow(x) /\ p = TakePlan(x) /\ p = PlanOf[r]
        BY <3>3 DEF TakePlan
      <4>2. \/ row[r].on /\ qty[p] = Wanted(p) - 1
            \/ x.op = "undo" /\ ~row[r].on /\ ~Off(p)
            \/ x.op = "cancel" /\ LastLeft(x)
        BY <4>1, <3>1, <3>7, <2>3 DEF EvenAt, Follows, HasTaken
      <4>3. /\ row[r].on /\ qty[p] = Wanted(p) - 1 => row'[r].on /\ qty'[p] = Wanted(p)' - 1
            /\ ~row[r].on /\ ~Off(p) => ~row'[r].on /\ ~Off(p)'
        BY <1>1, <1>4 DEF Calm
      <4>4. TakeRow(x)' = r /\ TakePlan(x)' = p
        BY <4>1, <3>2 DEF TakePlan, TakeRow
      <4>5. /\ Wanted(TakePlan(x))' = Wanted(p)'
            /\ ~Off(TakePlan(x))' <=> ~Off(p)'
        BY <4>4 DEF Off, Wanted, ActiveOf
      <4>6. QED BY <4>2, <4>3, <4>4, <4>5, <3>2, <3>4
    <3>8. y.pc = "flag" => LastLeft(x)'
      BY <2>3, <3>1, <3>4 DEF Follows, EvenAt
    <3>9. y.pc = "end" => Cardinality({r \in Row : row'[r].on}) <= 1
      BY <2>3, <3>1, <1>3 DEF Follows, EvenAt
    <3>10. y.pc = "settle" => \A p \in Plan : qty'[p] = Wanted(p)'
      BY <2>3, <3>1, <1>1 DEF Follows, EvenAt, Calm
    <3>11. QED BY <3>5, <3>6, <3>7, <3>8, <3>9, <3>10 DEF EvenAt
  <2>4. QED BY <2>1, <2>2, <2>3 DEF Carries
<1>6. QED BY <1>2, <1>5 DEF Even

\* A request that stays, or that waits, carries.
LEMMA StillCarries ==
    ASSUME NEW o \in Req, Still(req'[o], req[o])
    PROVE  Carries(o)
BY DEF Carries, Follows, Still, Alike, HasPut, HasTaken, InGrace

\* The others carry on.
LEMMA OneCarries ==
    ASSUME NEW q \in Req, OthersStill(q), Carries(q)
    PROVE  \A o \in Req : Carries(o)
BY StillCarries DEF OthersStill

\* Steps that touch no row and no quantity.
Unmoved == UNCHANGED <<row, qty>> /\ hist'.kept = hist.kept

\* Such a step is calm when no draft is finalized for an active row.
LEMMA UnmovedCalm ==
    ASSUME Unmoved, open' = open,
           inv' = inv \/ \E r \in Row : /\ \A s \in Row : s # r => inv'[s] = inv[s]
                                        /\ \/ inv[r] \notin {"draft", "attempted", "paid"}
                                           \/ inv[r] = "draft" /\ ~row[r].on,
           \A u \in Range(open) : u.item \in Row
    PROVE  Calm
BY DEF Unmoved, Calm, Explains

\* The requests that ask, enter, are turned away, fail or end.
LEMMA RequestEven ==
    ASSUME TypeOK, WorkFits, Alone, Even, ~hist.late, method = "stripe", NEW q \in Req,
           \/ Ask(q) \/ Enter(q) \/ TurnAway(q) \/ Raise(q) \/ Fail(q) \/ Crash(q)
           \/ Release(q) \/ Drop(q)
    PROVE  Even'
PROOF
<1>1. CASE Ask(q)
  <2>1. UNCHANGED <<row, qty, open, inv, hist>> /\ OthersStill(q) /\ req'[q].pc = "asked"
    BY <1>1, AskMoves DEF tables, stripe
  <2>2. Calm
    BY <2>1 DEF Calm, Explains
  <2>3. Carries(q)
    BY <2>1, PlainWaits DEF Carries
  <2>4. QED BY <2>1, <2>2, <2>3, OneCarries, CalmEven
<1>2. CASE Enter(q)
  <2> DEFINE x == req[q]
             y == req'[q]
  <2>1. /\ OthersStill(q) /\ Alike(y, x) /\ y.pc = FirstStep(x) /\ x.pc = "asked"
        /\ UNCHANGED <<row, qty, inv, hist>> /\ FreeMutation # {} /\ SameRows(x)
        /\ Recorded(x, MutationFor(x))
    BY <1>2, EnterMoves DEF Enter, Entered
  <2>2. Range(open) \subseteq Range(open')
    <3>1. CASE MutationFor(x) \in {0} \cup {v.id : v \in Range(open)}
      BY <2>1, <3>1 DEF Recorded
    <3>2. CASE MutationFor(x) \notin {0} \cup {v.id : v \in Range(open)}
      <4>1. x.op \in Op /\ ~ByCash(x)
        <5>1. x.op \in Op \cup {"reconcile"}
          BY DEF TypeOK, ReqRecord
        <5>2. QED BY <3>2, <5>1 DEF MutationFor
      <4>2. Range(open') = Range(open) \cup {MutationOf(x)}
        BY <4>1, <2>1, RecordedIs DEF MutationOf
      <4>3. QED BY <4>2
    <3>3. QED BY <3>1, <3>2
  <2>3. Calm
    BY <2>1, <2>2 DEF Calm, Explains
  <2>4. Carries(q)
    <3>1. x.op \in Op \cup {"reconcile"} /\ y.op = x.op /\ ~ByCash(x)
      BY <2>1 DEF Alike, TypeOK, ReqRecord, ByCash
    <3>2. CASE y.pc = "end"
      BY <3>1, <3>2, <2>1 DEF FirstStep, Carries, Op
    <3>3. CASE y.pc # "end"
      <4>1. Plain(y)
        BY <3>1, <3>3, <2>1 DEF FirstStep, Plain, HasPut, HasTaken, Op
      <4>2. QED BY <4>1 DEF Carries
    <3>4. QED BY <3>2, <3>3
  <2>5. QED BY <2>1, <2>3, <2>4, OneCarries, CalmEven
<1>3. CASE TurnAway(q) \/ Release(q) \/ Drop(q) \/ Crash(q)
  <2>1. UNCHANGED <<row, qty, open, inv, hist>>
    BY <1>3 DEF TurnAway, Release, Drop, Crash, tables, stripe
  <2>2. OthersStill(q) /\ req'[q].pc \in {"idle", "drop"}
    BY <1>3, MovesOver DEF IsIdle
  <2>3. Calm
    BY <2>1 DEF Calm, Explains
  <2>4. Carries(q)
    BY <2>2, PlainWaits DEF Carries
  <2>5. QED BY <2>2, <2>3, <2>4, OneCarries, CalmEven
<1>4. CASE Raise(q) \/ Fail(q)
  <2>1. UNCHANGED <<row, qty, open, inv, hist>>
    BY <1>4 DEF Raise, Fail, tables, stripe
  <2>2. OthersStill(q) /\ req'[q].pc = "release"
    BY <1>4, Moves DEF MovesTo
  <2>3. Calm
    BY <2>1 DEF Calm, Explains
  <2>4. Carries(q)
    BY <2>2, PlainWaits DEF Carries
  <2>5. QED BY <2>2, <2>3, <2>4, OneCarries, CalmEven
<1>5. QED BY <1>1, <1>2, <1>3, <1>4

\* The invoice of an addition, and the calls that move only flags.
LEMMA CallEven ==
    ASSUME TypeOK, WorkFits, Alone, Even, ~hist.late, method = "stripe", ~hist'.astray,
           NEW q \in Req,
           \/ ApplyFails(q) \/ Bill(q) \/ Finalize(q) \/ PayInvoice(q)
           \/ Flag(q) \/ Uncancel(q) \/ UncancelForAdd(q)
    PROVE  Even'
PROOF
<1> DEFINE x == req[q]
           y == req'[q]
<1>1. x \in ReqRecord /\ Fits(x) /\ OnItsWay(x) /\ x.item \in Row
      /\ inv \in [Row -> {"none", "retry", "draft", "open", "attempted", "paid", "void"}]
      /\ hist \in HistRecord
  BY DEF TypeOK, WorkFits, ReqRecord
<1>2. \A u \in Range(open) : u.item \in Row
  BY OpenFits
<1>3. Calm
  <2>1. CASE Bill(q)
    <3>1. Unmoved /\ open' = open
      BY <2>1 DEF Bill, Unmoved, tables
    <3>2. inv' = inv \/ (inv' = [inv EXCEPT ![x.item] = "draft"] /\ inv[x.item] \in {"none", "retry"})
      BY <2>1 DEF Bill
    <3>3. QED BY <3>1, <3>2, <1>1, <1>2, UnmovedCalm
  <2>2. CASE Finalize(q)
    <3>1. /\ hist' = [hist EXCEPT !.astray = @ \/ Active(x.item), !.kept = @ \ {}]
          /\ UNCHANGED <<row, qty, open>>
      BY <2>2 DEF Finalize, Counted, tables
    <3>2. hist'.kept = hist.kept /\ (hist'.astray <=> (hist.astray \/ Active(x.item)))
      BY <3>1, <1>1 DEF HistRecord
    <3>3. Unmoved /\ open' = open
      BY <3>1, <3>2 DEF Unmoved
    <3>4. inv[x.item] = "draft" /\ ~row[x.item].on
      BY <2>2, <3>2 DEF Finalize, Active
    <3>5. \A s \in Row : s # x.item => inv'[s] = inv[s]
      BY <2>2, <1>1 DEF Finalize
    <3>6. QED BY <3>3, <3>4, <3>5, <1>1, <1>2, UnmovedCalm
  <2>3. CASE PayInvoice(q)
    <3>1. Unmoved /\ open' = open
      BY <2>3 DEF PayInvoice, Unmoved, tables
    <3>2. inv[x.item] = "open"
      BY <2>3 DEF PayInvoice, Alone, Invoiced
    <3>3. \A s \in Row : s # x.item => inv'[s] = inv[s]
      BY <2>3, <1>1 DEF PayInvoice
    <3>4. QED BY <3>1, <3>2, <3>3, <1>1, <1>2, UnmovedCalm
  <2>4. CASE ApplyFails(q)
    <3>1. Unmoved /\ open' = open
      BY <2>4 DEF ApplyFails, Unmoved, tables
    <3>2. PICK u \in Range(open) : inv[u.item] = "open" /\ inv' = [inv EXCEPT ![u.item] = "void"]
      BY <2>4 DEF ApplyFails
    <3>3. \A s \in Row : s # u.item => inv'[s] = inv[s]
      BY <3>2, <1>1
    <3>4. QED BY <3>1, <3>2, <3>3, <1>2, UnmovedCalm
  <2>5. CASE Flag(q) \/ Uncancel(q) \/ UncancelForAdd(q)
    <3>1. Unmoved /\ open' = open /\ inv' = inv
      BY <2>5 DEF Flag, Uncancel, UncancelForAdd, Unmoved, tables, stripe
    <3>2. QED BY <3>1, <1>2, UnmovedCalm
  <2>6. QED BY <2>1, <2>2, <2>3, <2>4, <2>5
<1>4. OthersStill(q) /\ Alike(y, x) /\ y.mut = x.mut
  BY Moves DEF MovesTo
<1>5. Carries(q)
  <2>1. CASE ApplyFails(q) \/ Bill(q)
    <3>1. y.pc \in {"release", "finalize"}
      BY <2>1, Moves DEF MovesTo
    <3>2. QED BY <3>1, PlainWaits DEF Carries
  <2>2. CASE Finalize(q) \/ PayInvoice(q)
    <3>1. y.pc \in {"put", "pay", "release"} /\ x.op = "add" /\ y.op = x.op
      BY <2>2, <1>1, <1>4, Moves DEF MovesTo, Finalize, PayInvoice, OnItsWay, Alike
    <3>2. QED BY <3>1 DEF Carries, Plain, HasPut, HasTaken
  <2>3. CASE Flag(q)
    <3>1. y.pc = "commit" /\ x.pc = "flag" /\ x.op = "cancel"
      BY <2>3, <1>1, Moves DEF MovesTo, Flag, OnItsWay
    <3>2. QED BY <3>1, <1>4 DEF Carries, Follows, HasPut, HasTaken, Alike
  <2>4. CASE Uncancel(q)
    <3>1. y.pc = AfterUncancel(x) /\ x.pc = "uncancel" /\ x.op \in {"resume", "change"} /\ y.op = x.op
      BY <2>4, <1>1, <1>4, Moves DEF MovesTo, Uncancel, OnItsWay, Putters, Alike
    <3>2. InGrace(y) = InGrace(x)
      BY <1>4 DEF Alike, InGrace
    <3>3. CASE x.op = "resume"
      BY <3>1, <3>3 DEF AfterUncancel, Carries, Plain, HasPut, HasTaken
    <3>4. CASE x.op = "change"
      <4>1. y.pc \in {"take", "commit"} /\ (y.pc = "commit" => InGrace(x))
        BY <3>1, <3>4 DEF AfterUncancel
      <4>2. HasPut(x) /\ ~HasTaken(y)
        BY <3>1, <3>2, <3>4, <4>1 DEF HasPut, HasTaken
      <4>3. QED BY <4>1, <4>2, <1>4 DEF Carries, Follows
    <3>5. QED BY <3>1, <3>3, <3>4
  <2>5. CASE UncancelForAdd(q)
    <3>1. y.pc = "commit" /\ x.pc = "uncancel" /\ x.op = "add" /\ y.op = x.op
      BY <2>5, <1>4, Moves DEF MovesTo, UncancelForAdd, Alike
    <3>2. QED BY <3>1, <1>4 DEF Carries, Follows, HasPut, HasTaken
  <2>6. QED BY <2>1, <2>2, <2>3, <2>4, <2>5
<1>6. QED BY <1>3, <1>4, <1>5, OneCarries, CalmEven

\* The owner, time and stuttering.
LEMMA WorldEven ==
    ASSUME TypeOK, WorkFits, Alone, Even, ~hist.late, method = "stripe",
           \/ \E p \in Doomed : DeletePlan(p) \/ FinalizePlan(p)
           \/ LockExpires \/ EndPeriod \/ UNCHANGED vars
    PROVE  Even'
PROOF
<1>1. UNCHANGED <<qty, open, inv, req>> /\ hist'.kept = hist.kept
  <2>1. hist \in HistRecord
    BY DEF TypeOK
  <2>2. UNCHANGED <<qty, open, inv, req>>
    BY DEF DeletePlan, FinalizePlan, LockExpires, EndPeriod, vars, tables, stripe
  <2>3. ASSUME NEW p \in Doomed, DeletePlan(p) PROVE hist'.kept = hist.kept
    <3>1. PICK more : hist' = [hist EXCEPT !.leftover = more]
      BY <2>3 DEF DeletePlan
    <3>2. QED BY <3>1, <2>1 DEF HistRecord
  <2>4. \/ hist' = hist \/ \E p \in Doomed : DeletePlan(p)
    BY DEF FinalizePlan, LockExpires, EndPeriod, vars
  <2>5. QED BY <2>2, <2>3, <2>4
<1>2. \A r \in Row : row'[r].on = row[r].on
  <2>1. row \in [Row -> RowRecord]
    BY DEF TypeOK
  <2>2. CASE EndPeriod
    BY <2>1, <2>2 DEF EndPeriod, RowRecord
  <2>3. CASE ~EndPeriod
    <3>1. row' = row
      BY <2>3 DEF DeletePlan, FinalizePlan, LockExpires, vars, tables
    <3>2. QED BY <3>1
  <2>4. QED BY <2>2, <2>3
<1>3. Calm
  BY <1>1, <1>2 DEF Calm, Explains
<1>4. \A o \in Req : Carries(o)
  BY <1>1, StillStill, StillCarries
<1>5. QED BY <1>3, <1>4, CalmEven

\* What a counted step leaves of kept, and that nothing was astray.
LEMMA CountedIs ==
    ASSUME TypeOK, NEW moved, NEW ps, Counted(moved, ps), ~hist'.astray
    PROVE  ~moved /\ hist'.kept = hist.kept \ ps /\ ~hist.astray
BY DEF TypeOK, HistRecord, Counted

\* The plans of an operation are two.
LEMMA PlansDiffer ==
    ASSUME NEW x, Fits(x), x.item \in Row, x.new \in Row, x.op \in {"change", "undo"}
    PROVE  /\ PlanOf[x.item] # PlanOf[x.new]
           /\ PlanOf[PutRow(x)] # TakePlan(x)
PROOF
<1>1. x.item # x.new /\ MemberOf[x.item] = MemberOf[x.new]
  BY DEF Fits
<1>2. PlanOf[x.item] # PlanOf[x.new]
  BY <1>1, ItemsAssumption
<1>3. QED BY <1>2 DEF PutRow, TakeRow, TakePlan

\* A plan that a step leaves alone.
LEMMA AgreesElsewhere ==
    ASSUME TypeOK, WorkFits, Alone, Even, ~hist.late, method = "stripe", NEW p \in Plan,
           open' = open, inv' = inv, qty'[p] = qty[p], p \in hist.kept => p \in hist'.kept,
           \A r \in Row : PlanOf[r] = p => row'[r].on = row[r].on
    PROVE  Agrees(p, Wanted(p), Range(open))'
PROOF
<1>1. PICK m, us : m = Wanted(p) /\ us = Range(open)
  OBVIOUS
<1>2. Agrees(p, m, us)
  BY <1>1, Explained
<1>3. \A u \in us : Fits(u) /\ Explains(u) /\ u.item \in Row
  BY <1>1, OpenFits DEF Explains
<1>4. Agrees(p, m, us)'
  BY <1>2, <1>3, AgreesFrame
<1>5. Wanted(p)' = m /\ Range(open)' = us
  BY <1>1, WantedMoves
<1>6. QED BY <1>4, <1>5 DEF Agrees

\* A quantity is raised.
LEMMA PutEven ==
    ASSUME TypeOK, WorkFits, Alone, Even, ~hist.late, method = "stripe", ~hist'.astray,
           NEW q \in Req, Put(q)
    PROVE  Even'
PROOF
<1> DEFINE x == req[q]
           y == req'[q]
<1>1. PICK r, p, n, key :
        /\ r \in Row /\ p \in Plan
        /\ r = PutRow(x) /\ p = PlanOf[r] /\ n = PutAmount(x, p)
        /\ key = IF qty[p] > 0 THEN "modify" ELSE "create"
  <2>1. PutRow(x) \in Row
    BY DEF TypeOK, ReqRecord, PutRow
  <2>2. QED BY <2>1, PlanTyped
<1>2. /\ x.pc = "put" /\ x.item \in Row /\ x.new \in Row /\ x.op \in Op /\ Fits(x) /\ OnItsWay(x)
      /\ Range(open) = Others(x) \cup {[id |-> x.mut, op |-> x.op, item |-> x.item, new |-> x.new]}
  <2>1. x.pc = "put"
    BY DEF Put
  <2>2. QED BY <2>1, OwnIs DEF Calling
<1>3. /\ x.op \in Putters /\ OthersStill(q) /\ Alike(y, x) /\ y.mut = x.mut /\ y.pc = AfterPut(x)
      /\ UNCHANGED <<row, open, inv>>
  BY <1>2, Moves DEF OnItsWay, MovesTo, Put, tables
<1>4. /\ qty' = IF Replayed(q, key, n) THEN qty ELSE [qty EXCEPT ![p] = n]
      /\ Counted(\/ Active(r)
                 \/ x.op = "change" /\ \/ x.on # Active(x.item) \/ Off(p)
                                       \/ InGrace(x) /\ Off(TakePlan(x))
                 \/ Replayed(q, key, n) /\ qty[p] # n,
                 IF x.op = "change" \/ Replayed(q, key, n) THEN {} ELSE {p})
  BY <1>1 DEF Put
<1>5. /\ ~row[r].on
      /\ x.op = "change" => (x.on <=> row[x.item].on) /\ ~Off(p) /\ (InGrace(x) => ~Off(TakePlan(x)))
      /\ Replayed(q, key, n) => qty[p] = n
      /\ hist'.kept = hist.kept \ (IF x.op = "change" \/ Replayed(q, key, n) THEN {} ELSE {p})
  <2>1. x.on \in BOOLEAN /\ row[x.item].on \in BOOLEAN
    BY <1>2 DEF TypeOK, ReqRecord, RowRecord
  <2>2. QED BY <1>4, <2>1, CountedIs DEF Active
<1>6. /\ qty'[p] = n
      /\ \A s \in Plan : s # p => qty'[s] = qty[s] /\ (s \in hist.kept => s \in hist'.kept)
      /\ x.op = "change" => hist'.kept = hist.kept
  <2>1. qty \in [Plan -> Nat]
    BY DEF TypeOK
  <2>2. QED BY <1>1, <1>4, <1>5, <2>1
<1>7. qty[p] \in Nat /\ Wanted(p) \in Nat
  BY <1>1, QtyTyped
\* as many as wanted and one, or too few or too many for a reason
<1>8. /\ n < Wanted(p) + 1 => qty[p] < Wanted(p) /\ x.op \in {"resume", "add"}
      /\ n > Wanted(p) + 1 => x.op = "change" /\ p \in hist.kept
  <2>1. CASE x.op = "change"
    <3>1. qty[p] >= Wanted(p) /\ (qty[p] > Wanted(p) => p \in hist.kept)
      BY <1>5, <1>7, <2>1 DEF Off
    <3>2. n = IF qty[p] > 0 THEN qty[p] + 1 ELSE 1
      BY <1>1, <1>7, <2>1 DEF PutAmount
    <3>3. QED BY <3>1, <3>2, <1>7, <2>1
  <2>2. CASE x.op = "undo"
    <3>1. n = Wanted(p) + 1
      BY <1>1, <2>2 DEF PutAmount
    <3>2. QED BY <3>1, <1>7
  <2>3. CASE x.op \in {"resume", "add"}
    <3>1. n = IF qty[p] = 0 THEN 1 ELSE Wanted(p) + 1
      BY <1>1, <1>7, <2>3 DEF PutAmount
    <3>2. QED BY <3>1, <1>7, <2>3
  <2>4. QED BY <1>3, <2>1, <2>2, <2>3 DEF Putters
<1>9. PICK m, us, vs : m = Wanted(p) + 1 /\ us = Others(x) /\ vs = Range(open)
  OBVIOUS
<1>10. Agrees(p, m, us)'
  <2>1. \A u \in us : Lacks(u, p) => Lacks(u, p)'
    BY <1>3 DEF Lacks, Touches, Solid
  <2>2. n < m => \E u \in us : Lacks(u, p)
    <3>1. SUFFICES ASSUME n < m PROVE \E u \in us : Lacks(u, p)
      OBVIOUS
    <3>2. qty[p] < Wanted(p) /\ x.op \in {"resume", "add"}
      BY <1>8, <1>9, <3>1
    <3>3. PICK u \in Range(open) : Lacks(u, p)
      BY <3>2, <1>1, Explained DEF Agrees
    <3>4. r = x.item
      BY <3>2, <1>1, <1>2 DEF PutRow, Fits
    <3>5. u # [id |-> x.mut, op |-> x.op, item |-> x.item, new |-> x.new]
      BY <3>2, <3>3, <3>4, <1>5 DEF Lacks
    <3>6. QED BY <3>3, <3>5, <1>2, <1>9
  <2>3. n > m => p \in hist'.kept
    BY <1>6, <1>8, <1>9
  <2>4. QED BY <1>6, <2>1, <2>2, <2>3 DEF Agrees
<1>11. m = Wanted(p)' + 1 /\ PutRow(x)' = r /\ Others(x)' = us /\ TakePlan(x)' = TakePlan(x)
       /\ TakeRow(x)' = TakeRow(x) /\ InGrace(x)' = InGrace(x)
  <2>1. Wanted(p)' = Wanted(p)
    BY <1>3, WantedMoves
  <2>2. QED BY <2>1, <1>1, <1>3, <1>9 DEF PutRow, Others, Alike, TakePlan, TakeRow, InGrace
<1>12. y.op = x.op /\ y.item = x.item
  BY <1>3 DEF Alike
<1>13. ~row'[PutRow(x)'].on
       /\ Agrees(PlanOf[PutRow(x)], Wanted(PlanOf[PutRow(x)]) + 1, Others(x))'
  BY <1>1, <1>3, <1>5, <1>10, <1>11 DEF Agrees
<1>14. y.op = "change" /\ InGrace(y) => ~row'[y.item].on /\ ~Off(TakePlan(x))'
  <2>1. SUFFICES ASSUME x.op = "change", InGrace(x)
                 PROVE  ~row[x.item].on /\ ~Off(TakePlan(x))'
    BY <1>3, <1>11, <1>12
  <2>2. PICK s \in Plan : s = TakePlan(x)
    BY <1>2, PlanTyped DEF TakePlan, TakeRow
  <2>3. s # p
    BY <1>1, <1>2, <2>1, <2>2, PlansDiffer
  <2>4. Wanted(s)' = Wanted(s)
    BY <1>3, WantedMoves
  <2>5. ~Off(s)'
    BY <1>5, <1>6, <2>1, <2>2, <2>3, <2>4, OffStays
  <2>6. ~row[x.item].on
    BY <1>5, <2>1 DEF InGrace
  <2>7. QED BY <1>11, <2>2, <2>5, <2>6 DEF Off
<1>15. ASSUME HasTaken(x)'
       PROVE \/ row'[TakeRow(x)'].on /\ qty'[TakePlan(x)'] = Wanted(TakePlan(x))' - 1
             \/ y.op = "undo" /\ ~row'[TakeRow(x)'].on /\ ~Off(TakePlan(x))'
  <2>1. x.op = "undo"
    BY <1>3, <1>11, <1>12, <1>15 DEF HasTaken, AfterPut, Putters
  <2>2. HasTaken(x)
    BY <1>2, <2>1 DEF HasTaken
  <2>3. PICK t \in Row, s \in Plan : t = TakeRow(x) /\ s = TakePlan(x)
    BY <1>2, PlanTyped DEF TakePlan, TakeRow
  <2>4. \/ row[t].on /\ qty[s] = Wanted(s) - 1
        \/ ~row[t].on /\ ~Off(s)
    BY <2>1, <2>2, <2>3 DEF Even, EvenAt
  <2>5. s # p
    BY <1>1, <1>2, <2>1, <2>3, PlansDiffer
  <2>6. Wanted(s)' = Wanted(s)
    BY <1>3, WantedMoves
  <2>7. qty'[s] = qty[s] /\ (~Off(s) => ~Off(s)')
    BY <1>6, <2>5, <2>6, OffStays
  <2>8. Wanted(TakePlan(x))' = Wanted(s)' /\ (Off(TakePlan(x))' <=> Off(s)')
    BY <1>11, <2>3 DEF Off, Wanted, ActiveOf
  <2>9. QED BY <1>3, <1>11, <1>12, <2>1, <2>3, <2>4, <2>6, <2>7, <2>8
<1>16. y.pc \notin {"flag", "end", "settle"}
  BY <1>3 DEF AfterPut
<1>17. EvenAt(q)'
  BY <1>13, <1>14, <1>15, <1>16 DEF EvenAt
<1>18. HasDone(y, p)
  <2>1. HasPut(y)
    BY <1>3, <1>12 DEF HasPut, AfterPut, Putters
  <2>2. QED BY <2>1, <1>1, <1>11 DEF HasDone
<1>19. \A s \in Plan : s # p => Agrees(s, Wanted(s), Range(open))'
  BY <1>3, <1>6, AgreesElsewhere
<1>20. \A o \in Req : o # q => Plain(req'[o])
  BY <1>2, <1>3, OthersPlain
<1>21. QED BY <1>17, <1>18, <1>19, <1>20, HolderEven

\* What a request that takes knows of its rows.
LEMMA TakeIs ==
    ASSUME TypeOK, WorkFits, Alone, ~hist.late, method = "stripe", NEW q \in Req,
           TakeSome(q) \/ TakeAll(q) \/ TakeNone(q)
    PROVE  LET x == req[q]
           IN  /\ x.pc = "take" /\ x.item \in Row /\ x.new \in Row /\ x.op \in Takers
               /\ Fits(x) /\ (x.op = "change" => ~InGrace(x))
               /\ TakeRow(x) \in Row /\ TakePlan(x) \in Plan
               /\ OthersStill(q) /\ Alike(req'[q], x) /\ req'[q].mut = x.mut
               /\ [id |-> x.mut, op |-> x.op, item |-> x.item, new |-> x.new] \in Range(open)
PROOF
<1> DEFINE x == req[q]
<1>1. x.pc = "take"
  BY DEF TakeSome, TakeAll, TakeNone
<1>2. /\ x.item \in Row /\ x.new \in Row /\ Fits(x) /\ OnItsWay(x)
      /\ [id |-> x.mut, op |-> x.op, item |-> x.item, new |-> x.new] \in Range(open)
  BY <1>1, OwnIs DEF Calling
<1>3. TakeRow(x) \in Row /\ TakePlan(x) \in Plan
  BY <1>2, PlanTyped DEF TakeRow, TakePlan
<1>4. OthersStill(q) /\ Alike(req'[q], x) /\ req'[q].mut = x.mut
  BY Moves DEF MovesTo
<1>5. QED BY <1>1, <1>2, <1>3, <1>4 DEF OnItsWay

\* One less of the plan that is left.
LEMMA TakeEven ==
    ASSUME TypeOK, WorkFits, Alone, Even, ~hist.late, method = "stripe", ~hist'.astray,
           NEW q \in Req, TakeSome(q) \/ TakeAll(q)
    PROVE  Even'
PROOF
<1> DEFINE x == req[q]
           y == req'[q]
<1>1. PICK t \in Row, s \in Plan : t = TakeRow(x) /\ s = TakePlan(x) /\ s = PlanOf[t]
  BY TakeIs DEF TakePlan
<1>2. /\ x.pc = "take" /\ x.item \in Row /\ x.new \in Row /\ x.op \in Takers /\ Fits(x)
      /\ (x.op = "change" => ~InGrace(x))
      /\ OthersStill(q) /\ Alike(y, x) /\ y.mut = x.mut
  BY TakeIs
<1>3. y.pc = AfterTake(x) /\ y.op = x.op /\ y.item = x.item
  BY <1>2, Moves DEF MovesTo, Alike
<1>4. UNCHANGED <<open, inv>> /\ \A r \in Row : row'[r].on = row[r].on
  <2>1. row \in [Row -> RowRecord]
    BY DEF TypeOK
  <2>2. CASE TakeSome(q)
    BY <2>2 DEF TakeSome, tables
  <2>3. CASE TakeAll(q)
    <3>1. row' = [r \in Row |-> [row[r] EXCEPT !.linked = @ /\ PlanOf[r] # s]] /\ UNCHANGED <<open, inv>>
      BY <1>1, <2>3 DEF TakeAll, Deleted
    <3>2. QED BY <2>1, <3>1 DEF RowRecord
  <2>4. QED BY <2>2, <2>3
<1>5. Wanted(s) \in Nat /\ qty[s] \in Nat /\ qty \in [Plan -> Nat]
  BY QtyTyped DEF TypeOK
<1>6. /\ row[t].on /\ qty'[s] = Wanted(s) - 1
      /\ \A p \in Plan : p # s => qty'[p] = qty[p] /\ (p \in hist.kept => p \in hist'.kept)
  <2>1. CASE TakeSome(q)
    <3>1. PICK n : n = Wanted(s) - 1
      OBVIOUS
    <3>2. /\ qty' = IF Replayed(q, "take", n) THEN qty ELSE [qty EXCEPT ![s] = n]
          /\ Counted(~Active(t) \/ (Replayed(q, "take", n) /\ qty[s] # n), {})
      BY <1>1, <2>1, <3>1 DEF TakeSome
    <3>3. row[t].on /\ (Replayed(q, "take", n) => qty[s] = n) /\ hist'.kept = hist.kept \ {}
      BY <3>2, CountedIs DEF Active
    <3>4. QED BY <3>1, <3>2, <3>3, <1>5
  <2>2. CASE TakeAll(q)
    <3>1. qty' = [qty EXCEPT ![s] = 0] /\ Wanted(s) <= 1 /\ Counted(~Active(t), {s})
      BY <1>1, <2>2 DEF TakeAll, Deleted
    <3>2. row[t].on /\ hist'.kept = hist.kept \ {s}
      BY <3>1, CountedIs DEF Active
    <3>3. Wanted(s) # 0
      <4>1. t \in ActiveOf(s) /\ IsFiniteSet(ActiveOf(s))
        BY <1>1, <3>2, WantedTyped DEF ActiveOf
      <4>2. QED BY <4>1, FS_EmptySet DEF Wanted
    <3>4. QED BY <3>1, <3>2, <3>3, <1>5
  <2>3. QED BY <2>1, <2>2
<1>7. \A p : Wanted(p)' = Wanted(p)
  BY <1>4, WantedMoves
<1>8. TakeRow(x)' = t /\ TakePlan(x)' = s /\ PutRow(x)' = PutRow(x) /\ Others(x)' = Others(x)
      /\ InGrace(x)' = InGrace(x)
  BY <1>1, <1>2, <1>4 DEF TakeRow, TakePlan, PutRow, Others, Alike, InGrace
<1>9. HasTaken(x)'
  BY <1>2, <1>3, <1>8 DEF HasTaken, AfterTake, Takers
<1>10. row'[TakeRow(x)'].on /\ qty'[TakePlan(x)'] = Wanted(TakePlan(x))' - 1
  <2>1. Wanted(TakePlan(x))' = Wanted(s)'
    BY <1>8 DEF Wanted, ActiveOf
  <2>2. QED BY <2>1, <1>4, <1>6, <1>7, <1>8
<1>11. ASSUME HasPut(x)'
       PROVE  /\ y.op = "change" /\ ~InGrace(x)'
              /\ ~row'[PutRow(x)'].on
              /\ Agrees(PlanOf[PutRow(x)], Wanted(PlanOf[PutRow(x)]) + 1, Others(x))'
  <2>1. x.op = "change" /\ HasPut(x) /\ ~InGrace(x)
    BY <1>2, <1>3, <1>11 DEF HasPut, AfterTake, Takers
  <2>2. PICK r, p, m, us :
         /\ r \in Row /\ p \in Plan /\ r = PutRow(x) /\ p = PlanOf[r]
         /\ m = Wanted(p) + 1 /\ us = Others(x)
    BY <1>2, PlanTyped DEF PutRow
  <2>3. ~row[r].on /\ Agrees(p, m, us)
    BY <2>1, <2>2 DEF Even, EvenAt
  <2>4. p # s
    BY <1>1, <1>2, <2>1, <2>2, PlansDiffer
  <2>5. \A u \in us : Fits(u) /\ Explains(u) /\ u.item \in Row
    BY <1>4, <2>2, OpenFits DEF Others, Explains
  <2>6. Agrees(p, m, us)'
    BY <2>1, <2>2, <2>3, <2>4, <2>5, <1>4, <1>6, AgreesFrame
  <2>7. m = Wanted(p)' + 1
    BY <2>2, <1>7
  <2>8. QED BY <2>1, <2>2, <2>3, <2>6, <2>7, <1>3, <1>4, <1>8 DEF Agrees
<1>12. y.pc \notin {"flag", "end", "settle"}
  BY <1>3 DEF AfterTake
<1>13. EvenAt(q)'
  BY <1>9, <1>10, <1>11, <1>12 DEF EvenAt
<1>14. HasDone(y, s)
  BY <1>8, <1>9 DEF HasDone
<1>15. \A p \in Plan : p # s => Agrees(p, Wanted(p), Range(open))'
  BY <1>4, <1>6, AgreesElsewhere
<1>16. \A o \in Req : o # q => Plain(req'[o])
  BY <1>2, OthersPlain
<1>17. QED BY <1>13, <1>14, <1>15, <1>16, HolderEven

\* Stripe has no item: an undo passes over it, a cancellation leaves its mutation.
LEMMA TakeNoneEven ==
    ASSUME TypeOK, WorkFits, Alone, Even, ~hist.late, method = "stripe", ~hist'.astray,
           NEW q \in Req, TakeNone(q)
    PROVE  Even'
PROOF
<1> DEFINE x == req[q]
           y == req'[q]
           u == [id |-> x.mut, op |-> x.op, item |-> x.item, new |-> x.new]
<1>1. PICK t \in Row, s \in Plan : t = TakeRow(x) /\ s = TakePlan(x) /\ s = PlanOf[t]
  BY TakeIs DEF TakePlan
<1>2. /\ x.pc = "take" /\ x.item \in Row /\ x.new \in Row /\ x.op \in Takers /\ Fits(x)
      /\ OthersStill(q) /\ Alike(y, x) /\ y.mut = x.mut /\ u \in Range(open)
  BY TakeIs
<1>3. /\ y.op = x.op /\ y.pc = (IF x.op = "undo" THEN "put" ELSE "release")
      /\ UNCHANGED <<open, inv, qty>>
      /\ Counted(x.op = "undo" /\ (Active(x.new) \/ Off(TakePlan(x))), {})
      /\ x.op \in {"undo", "cancel"}
  BY <1>2, Moves DEF MovesTo, Alike, TakeNone, stripe
<1>4. /\ x.op = "undo" => ~Active(x.new) /\ ~Off(s)
      /\ hist'.kept = hist.kept
  <2>1. /\ ~(x.op = "undo" /\ (Active(x.new) \/ Off(TakePlan(x))))
        /\ hist'.kept = hist.kept \ {}
    BY <1>3, CountedIs
  <2>2. QED BY <1>1, <2>1
<1>5. \A o \in Req : o # q => Plain(req'[o])
  BY <1>2, OthersPlain
<1>6. CASE x.op = "undo"
  <2>1. row' = row /\ t = x.new
    BY <1>1, <1>6 DEF TakeNone, TakeRow
  <2>2. \A p : Wanted(p)' = Wanted(p)
    BY <2>1, WantedMoves
  <2>3. TakeRow(x)' = t /\ TakePlan(x)' = s
    BY <1>1, <1>2 DEF TakeRow, TakePlan, Alike
  <2>4. ~row'[t].on /\ ~Off(s)'
    BY <1>3, <1>4, <1>6, <2>1, <2>2, OffStays DEF Active
  <2>5. ~HasPut(y) /\ HasTaken(y)
    BY <1>3, <1>6 DEF HasPut, HasTaken
  <2>6. Off(TakePlan(x))' <=> Off(s)'
    BY <2>3 DEF Off, Wanted, ActiveOf
  <2>7. EvenAt(q)'
    BY <1>3, <1>6, <2>3, <2>4, <2>5, <2>6 DEF EvenAt
  <2>8. \A p \in Plan : Agrees(p, Wanted(p), Range(open))'
    BY <1>3, <1>4, <2>1, AgreesElsewhere
  <2>9. QED BY <1>5, <2>7, <2>8, HolderEven
<1>7. CASE x.op = "cancel"
  <2>1. Plain(y)
    BY <1>3, <1>7, PlainWaits
  <2>2. EvenAt(q)'
    BY <2>1, PlainEven
  <2>3. row' = [row EXCEPT ![x.item] = [@ EXCEPT !.on = FALSE, !.until = "end"]]
    BY <1>7 DEF TakeNone
  <2>4. row \in [Row -> RowRecord] /\ x.item = t
    BY <1>1, <1>7 DEF TypeOK, TakeRow
  <2>5. \A r \in Row : PlanOf[r] # s => row'[r].on = row[r].on
    BY <1>1, <2>3, <2>4
  <2>6. ASSUME NEW p \in Plan PROVE Agrees(p, Wanted(p), Range(open))'
    <3>1. CASE p = s
      <4>1. PICK m, us, v : m = Wanted(p)' /\ us = Range(open) /\ v = u
        OBVIOUS
      <4>2. v \in us /\ v.op \in Takers /\ Touches(v, p)
        BY <4>1, <3>1, <1>1, <1>2, <2>4 DEF Touches
      <4>3. Agrees(p, m, us)'
        BY <4>2, TakerExplains
      <4>4. Range(open)' = us
        BY <4>1, <1>3
      <4>5. QED BY <4>1, <4>3, <4>4 DEF Agrees
    <3>2. CASE p # s
      BY <3>2, <1>3, <1>4, <2>5, AgreesElsewhere
    <3>3. QED BY <3>1, <3>2
  <2>7. QED BY <1>5, <2>2, <2>6, HolderEven
<1>8. QED BY <1>3, <1>6, <1>7

\* One row of which it is known that it is the only one.
LEMMA OnlyOne ==
    ASSUME NEW r \in Row, row[r].on, Cardinality({s \in Row : row[s].on}) <= 1
    PROVE  \A s \in Row : row[s].on => s = r
PROOF
<1> DEFINE S == {s \in Row : row[s].on}
<1>1. S \in SUBSET Row /\ r \in S
  OBVIOUS
<1>2. IsFiniteSet(S) /\ Cardinality(S) \in Nat
  BY <1>1, WantedTyped
<1>3. SUFFICES ASSUME NEW s \in S, s # r PROVE FALSE
  OBVIOUS
<1>4. IsFiniteSet(S \ {r}) /\ Cardinality(S \ {r}) = Cardinality(S) - 1
  BY <1>1, <1>2, FS_RemoveElement
<1>5. Cardinality(S \ {r}) = 0
  <2>1. Cardinality(S \ {r}) \in Nat
    BY <1>4, FS_CardinalityType
  <2>2. QED BY <2>1, <1>2, <1>4
<1>6. S \ {r} = {}
  BY <1>4, <1>5, FS_EmptySet
<1>7. QED BY <1>3, <1>6

\* The last row is canceled: Stripe keeps its items until the period ends.
LEMMA EndEven ==
    ASSUME TypeOK, WorkFits, Alone, Even, ~hist.late, method = "stripe", ~hist'.astray,
           NEW q \in Req, EndAtPeriodEnd(q)
    PROVE  Even'
PROOF
<1> DEFINE x == req[q]
           y == req'[q]
<1>1. x.pc = "end" /\ y.pc = "flag" /\ Alike(y, x) /\ OthersStill(q)
  BY Moves DEF EndAtPeriodEnd, MovesTo
<1>2. UNCHANGED <<row, qty, open, inv>>
  BY DEF EndAtPeriodEnd, tables
<1>3. hist'.kept = {p \in Plan : qty[p] > 0} /\ row[x.item].on
  <2>1. hist \in HistRecord
    BY DEF TypeOK
  <2>2. hist' = [hist EXCEPT !.kept = {p \in Plan : qty[p] > 0},
                             !.astray = @ \/ ~Active(x.item)]
    BY DEF EndAtPeriodEnd
  <2>3. hist'.kept = {p \in Plan : qty[p] > 0} /\ (hist'.astray <=> hist.astray \/ ~Active(x.item))
    BY <2>1, <2>2 DEF HistRecord
  <2>4. QED BY <2>3 DEF Active
<1>4. x.item \in Row /\ y.item = x.item
  BY <1>1 DEF TypeOK, ReqRecord, Alike
<1>5. Cardinality({r \in Row : row[r].on}) <= 1
  BY <1>1 DEF Even, EvenAt
<1>6. LastLeft(x)'
  BY <1>2, <1>3, <1>4, <1>5, OnlyOne DEF LastLeft
<1>7. EvenAt(q)'
  BY <1>1, <1>6 DEF EvenAt, HasPut, HasTaken
<1>8. ASSUME NEW p \in Plan PROVE Agrees(p, Wanted(p), Range(open))'
  <2>1. Agrees(p, Wanted(p), Range(open)) /\ Wanted(p) \in Nat /\ qty[p] \in Nat
    BY Explained, QtyTyped
  <2>2. Wanted(p)' = Wanted(p)
    BY <1>2, WantedMoves
  <2>3. qty[p] < Wanted(p) => \E u \in Range(open) : Lacks(u, p)'
    BY <2>1, <1>2 DEF Agrees, Lacks, Touches, Solid
  <2>4. qty[p] > Wanted(p) => p \in hist'.kept
    BY <2>1, <1>3
  <2>5. QED BY <2>2, <2>3, <2>4, <1>2 DEF Agrees
<1>9. \A o \in Req : o # q => Plain(req'[o])
  BY <1>1, OthersPlain
<1>10. QED BY <1>7, <1>8, <1>9, HolderEven

\* As many as wanted needs no explanation.
LEMMA EqualAgrees ==
    ASSUME TypeOK, NEW p \in Plan, qty'[p] = Wanted(p), \A r \in Row : row'[r].on = row[r].on
    PROVE  Agrees(p, Wanted(p), Range(open))'
PROOF
<1>1. Wanted(p)' = Wanted(p) /\ Wanted(p) \in Nat
  BY WantedMoves, QtyTyped
<1>2. QED BY <1>1 DEF Agrees

\* An addition deletes an item that no row wants.
LEMMA CleanUpEven ==
    ASSUME TypeOK, WorkFits, Alone, Even, ~hist.late, method = "stripe", ~hist'.astray,
           NEW q \in Req, CleanUp(q)
    PROVE  Even'
PROOF
<1> DEFINE x == req[q]
           y == req'[q]
<1>1. PICK p \in Unwanted(x) : Deleted(p) /\ Counted(FALSE, {p})
  BY DEF CleanUp
<1>2. p \in Plan /\ p # PlanOf[x.item] /\ Wanted(p) = 0
  BY <1>1 DEF Unwanted
<1>3. /\ x.pc = "uncancel" /\ x.op = "add" /\ OthersStill(q) /\ Alike(y, x) /\ y.mut = x.mut
      /\ y.pc \in {"uncancel", "release"}
  BY Moves DEF CleanUp, MovesTo
<1>4. x.item = x.new /\ x.item \in Row /\ y.op = x.op
  BY <1>3 DEF WorkFits, Fits, TypeOK, ReqRecord, Alike
<1>5. UNCHANGED <<open, inv>> /\ \A r \in Row : row'[r].on = row[r].on
  <2>1. row \in [Row -> RowRecord]
    BY DEF TypeOK
  <2>2. row' = [r \in Row |-> [row[r] EXCEPT !.linked = @ /\ PlanOf[r] # p]] /\ UNCHANGED <<open, inv>>
    BY <1>1 DEF CleanUp, Deleted
  <2>3. QED BY <2>1, <2>2 DEF RowRecord
<1>6. /\ qty'[p] = 0 /\ hist'.kept = hist.kept \ {p}
      /\ \A s \in Plan : s # p => qty'[s] = qty[s] /\ (s \in hist.kept => s \in hist'.kept)
  <2>1. qty' = [qty EXCEPT ![p] = 0] /\ qty \in [Plan -> Nat]
    BY <1>1 DEF Deleted, TypeOK
  <2>2. hist'.kept = hist.kept \ {p}
    BY <1>1, CountedIs
  <2>3. QED BY <2>1, <2>2, <1>2
<1>7. \A s \in Plan : Wanted(s)' = Wanted(s)
  BY <1>5, WantedMoves
<1>8. \A s \in Plan : Agrees(s, Wanted(s), Range(open))'
  <2>1. Agrees(p, Wanted(p), Range(open))'
    BY <1>2, <1>5, <1>6, EqualAgrees
  <2>2. \A s \in Plan : s # p => Agrees(s, Wanted(s), Range(open))'
    BY <1>5, <1>6, AgreesElsewhere
  <2>3. QED BY <2>1, <2>2
<1>9. EvenAt(q)'
  <2>1. CASE y.pc = "release"
    BY <2>1, PlainWaits, PlainEven
  <2>2. CASE y.pc = "uncancel"
    <3>1. PICK r, s, m, us :
           /\ r \in Row /\ s \in Plan /\ r = PutRow(x) /\ s = PlanOf[r]
           /\ m = Wanted(s) + 1 /\ us = Others(x)
      BY <1>4, <1>3, PlanTyped DEF PutRow
    <3>2. ~row[r].on /\ Agrees(s, m, us)
      BY <1>3, <3>1 DEF Even, EvenAt, HasPut
    <3>3. s # p
      BY <3>1, <1>2, <1>3, <1>4 DEF PutRow
    <3>4. \A u \in us : Fits(u) /\ Explains(u) /\ u.item \in Row
      BY <1>5, <3>1, OpenFits DEF Others, Explains
    <3>5. Agrees(s, m, us)'
      BY <3>1, <3>2, <3>3, <3>4, <1>5, <1>6, AgreesFrame
    <3>6. PutRow(x)' = r /\ Others(x)' = us /\ m = Wanted(s)' + 1
      BY <3>1, <1>3, <1>5, <1>7 DEF PutRow, Others, Alike
    <3>7. ~row'[PutRow(x)'].on
          /\ Agrees(PlanOf[PutRow(x)], Wanted(PlanOf[PutRow(x)]) + 1, Others(x))'
      BY <3>1, <3>2, <3>5, <3>6, <1>5 DEF Agrees
    <3>8. QED BY <3>7, <2>2, <1>3, <1>4 DEF EvenAt, HasTaken
  <2>3. QED BY <2>1, <2>2, <1>3
<1>10. \A o \in Req : o # q => Plain(req'[o])
  BY <1>3, OthersPlain
<1>11. QED BY <1>8, <1>9, <1>10, HolderEven

\* The second half of a reconciliation.
LEMMA SyncEven ==
    ASSUME TypeOK, WorkFits, Alone, Even, ~hist.late, method = "stripe",
           NEW q \in Req, Sync(q)
    PROVE  Even'
PROOF
<1>1. PICK p \in Plan :
        /\ qty' = [qty EXCEPT ![p] = Wanted(p)]
        /\ row' = [r \in Row |-> IF PlanOf[r] # p THEN row[r]
                                 ELSE [row[r] EXCEPT !.linked = row[r].on
                                                       \/ (@ /\ Wanted(p) > 0)]]
  BY DEF Sync
<1>2. UNCHANGED <<open, inv, hist>>
  BY DEF Sync
<1>3. \A r \in Row : row'[r].on = row[r].on
  BY <1>1 DEF TypeOK, RowRecord
<1>4. qty'[p] = Wanted(p) /\ \A s \in Plan : s # p => qty'[s] = qty[s]
  BY <1>1 DEF TypeOK
<1>5. \A s \in Plan : Agrees(s, Wanted(s), Range(open))'
  BY <1>2, <1>3, <1>4, EqualAgrees, AgreesElsewhere
<1>6. req[q].pc = "sync" /\ req'[q].pc = "sync" /\ OthersStill(q)
  BY Moves DEF Sync, MovesTo
<1>7. EvenAt(q)' /\ \A o \in Req : o # q => Plain(req'[o])
  BY <1>6, PlainWaits, PlainEven, OthersPlain
<1>8. QED BY <1>5, <1>7, HolderEven

\* When the quantities have followed, nothing is off, whatever was before.
LEMMA SyncFlagEven ==
    ASSUME TypeOK, WorkFits, Alone, ~hist.late, NEW q \in Req, SyncFlag(q)
    PROVE  Even'
PROOF
<1>1. UNCHANGED <<row, qty, open, inv>> /\ \A p \in Plan : qty[p] = Wanted(p)
  BY DEF SyncFlag, InStep
<1>2. \A p \in Plan : Agrees(p, Wanted(p), Range(open))' /\ qty'[p] = Wanted(p)'
  BY <1>1, EqualAgrees, WantedMoves
<1>3. req[q].pc = "sync" /\ req'[q].pc = "settle" /\ OthersStill(q)
  BY Moves DEF SyncFlag, MovesTo
<1>4. EvenAt(q)'
  BY <1>2, <1>3 DEF EvenAt, HasPut, HasTaken
<1>5. \A o \in Req : o # q => Plain(req'[o])
  BY <1>3, OthersPlain
<1>6. QED BY <1>2, <1>4, <1>5, HolderEven

\* A reconciliation that has put the quantities right closes what it applied.
LEMMA SettleEven ==
    ASSUME TypeOK, WorkFits, Alone, Even, ~hist.late, NEW q \in Req, Settle(q)
    PROVE  Even'
PROOF
<1>1. UNCHANGED <<row, qty>> /\ req[q].pc = "settle"
  BY DEF Settle
<1>2. \A p \in Plan : qty[p] = Wanted(p)
  BY <1>1 DEF Even, EvenAt
<1>3. \A p \in Plan : Agrees(p, Wanted(p), Range(open))'
  BY <1>1, <1>2, EqualAgrees
<1>4. req'[q].pc = "release" /\ OthersStill(q)
  BY Moves DEF Settle, MovesTo
<1>5. EvenAt(q)' /\ \A o \in Req : o # q => Plain(req'[o])
  BY <1>1, <1>4, PlainWaits, PlainEven, OthersPlain
<1>6. QED BY <1>3, <1>5, HolderEven

\* What is right needs no explanation.
LEMMA NotOffAgrees ==
    ASSUME NEW p, ~Off(p)'
    PROVE  Agrees(p, Wanted(p), Range(open))'
BY DEF Agrees, Off

\* The last transaction: the rows follow what Stripe was told, and the mutation
\* is closed.
LEMMA CommitEven ==
    ASSUME TypeOK, WorkFits, Alone, Even, ~hist.late, method = "stripe",
           NEW q \in Req, Commit(q)
    PROVE  Even'
PROOF
<1> DEFINE x == req[q]
           y == req'[q]
           own == [id |-> x.mut, op |-> x.op, item |-> x.item, new |-> x.new]
<1>1. /\ x.pc = "commit" /\ y.pc \in {"apply", "release"} /\ OthersStill(q)
  BY CommitMoves DEF Commit
<1>2. /\ x.item \in Row /\ x.new \in Row /\ x.op \in Op /\ Fits(x)
      /\ Range(open) = Others(x) \cup {own}
      /\ \A v \in Others(x) : v.op = x.op => v.item # x.item
  BY <1>1, OwnIs DEF Calling
<1>3. /\ \A r \in Row : row'[r].on <=> r \in TurnsOn(x) \/ (row[r].on /\ r \notin TurnsOff(x))
      /\ UNCHANGED <<qty, hist>>
      /\ inv' = IF x.op = "add" THEN [inv EXCEPT ![x.item] = "none"] ELSE inv
  BY CommittedIs DEF Commit
<1>4. Range(open') = Others(x)
  <2>1. Range(open') = {u \in Range(open) : u.id \notin {x.mut}}
    BY CloseIs DEF Commit
  <2>2. QED BY <2>1 DEF Others
<1>5. \A u \in Others(x) : Fits(u) /\ Explains(u) /\ u.item \in Row
  <2>1. \A u \in Others(x) : Fits(u) /\ u.item \in Row
    BY OpenFits DEF Others
  <2>2. \A r \in Row : r # x.item => inv'[r] = inv[r]
    BY <1>3 DEF TypeOK
  <2>3. \A u \in Others(x) : Explains(u)
    BY <1>2, <1>3, <2>1, <2>2 DEF Explains
  <2>4. QED BY <2>1, <2>3
<1>6. PutRow(x) \in Row /\ TakeRow(x) \in Row /\ TakePlan(x) \in Plan /\ PlanOf[PutRow(x)] \in Plan
  BY <1>2, PlanTyped DEF PutRow, TakeRow, TakePlan
<1>7. x.op \in Putters /\ x.op \in Takers => PlanOf[PutRow(x)] # TakePlan(x)
  BY <1>2, PlansDiffer DEF Putters, Takers
<1>8. EvenAt(q)
  BY DEF Even
\* the plan that is given
<1>9. ASSUME x.op \in Putters, NEW p \in Plan, p = PlanOf[PutRow(x)]
      PROVE  Agrees(p, Wanted(p), Range(open))'
  <2>1. PICK r, m, us : r \in Row /\ r = PutRow(x) /\ m = Wanted(p) + 1 /\ us = Others(x)
    BY <1>6
  <2>2. ~row[r].on /\ Agrees(p, m, us)
    <3>1. HasPut(x)
      BY <1>1, <1>9 DEF HasPut, Putters
    <3>2. QED BY <3>1, <2>1, <1>8, <1>9 DEF EvenAt
  <2>3. TurnsOn(x) = {r} /\ \A s \in Row : PlanOf[s] = p => s \notin TurnsOff(x)
    BY <2>1, <1>7, <1>9 DEF TurnsOn, TurnsOff, TakePlan
  <2>4. \A s \in Row : PlanOf[s] = p => (row'[s].on <=> s = r \/ row[s].on)
    BY <2>3, <1>3
  <2>5. Wanted(p)' = m
    <3>1. row'[r].on /\ PlanOf[r] = p
      BY <2>1, <2>4, <1>9
    <3>2. \A s \in Row : PlanOf[s] = p /\ s # r => row'[s].on = row[s].on
      <4>1. row \in [Row -> RowRecord] /\ row' \in [Row -> RowRecord]
        BY CommittedIs DEF TypeOK
      <4>2. \A s \in Row : row[s].on \in BOOLEAN /\ row'[s].on \in BOOLEAN
        BY <4>1 DEF RowRecord
      <4>3. QED BY <2>4, <4>2
    <3>3. QED BY <3>1, <3>2, <2>1, <2>2, WantedMoves
  <2>6. Agrees(p, m, us)'
    BY <2>1, <2>2, <2>4, <1>3, <1>5, AgreesFrame
  <2>7. Range(open)' = us
    BY <1>4, <2>1
  <2>8. QED BY <2>5, <2>6, <2>7 DEF Agrees
\* the plan that is taken
<1>10. ASSUME x.op \in Takers, NEW p \in Plan, p = TakePlan(x), ~(x.op = "cancel" /\ LastLeft(x))
       PROVE  Agrees(p, Wanted(p), Range(open))'
  <2>1. PICK t \in Row : t = TakeRow(x) /\ p = PlanOf[t]
    BY <1>6, <1>10 DEF TakePlan
  <2>2. TurnsOff(x) = {t} /\ t \notin TurnsOn(x)
        /\ \A s \in Row : PlanOf[s] = p => s \notin TurnsOn(x)
    BY <2>1, <1>7, <1>10 DEF TurnsOn, TurnsOff, TakePlan
  <2>3. row \in [Row -> RowRecord] /\ row' \in [Row -> RowRecord]
    BY CommittedIs DEF TypeOK
  <2>4. \A s \in Row : row[s].on \in BOOLEAN /\ row'[s].on \in BOOLEAN
    BY <2>3 DEF RowRecord
  <2>5. ~row'[t].on /\ \A s \in Row : PlanOf[s] = p /\ s # t => row'[s].on = row[s].on
    BY <2>2, <2>4, <1>3
  <2>6. \/ row[t].on /\ qty[p] = Wanted(p) - 1
        \/ ~row[t].on /\ ~Off(p)
    <3>1. CASE x.op = "change" /\ InGrace(x)
      <4>1. HasPut(x) /\ t = x.item
        BY <1>1, <2>1, <3>1 DEF HasPut, TakeRow
      <4>2. QED BY <4>1, <3>1, <1>8, <1>10 DEF EvenAt
    <3>2. CASE ~(x.op = "change" /\ InGrace(x))
      <4>1. HasTaken(x)
        BY <1>1, <1>10, <3>2 DEF HasTaken, Takers
      <4>2. QED BY <4>1, <2>1, <1>8, <1>10 DEF EvenAt
    <3>3. QED BY <3>1, <3>2
  <2>7. CASE row[t].on /\ qty[p] = Wanted(p) - 1
    <3>1. Wanted(p)' = qty'[p]
      BY <2>1, <2>5, <2>7, <1>3, WantedMoves
    <3>2. Wanted(p)' \in Nat
      BY <3>1, <1>3, QtyTyped
    <3>3. QED BY <3>1, <3>2 DEF Agrees
  <2>8. CASE ~row[t].on /\ ~Off(p)
    <3>1. Wanted(p)' = Wanted(p)
      BY <2>1, <2>5, <2>8, WantedMoves
    <3>2. ~Off(p)'
      BY <3>1, <2>8, <1>3, OffStays
    <3>3. QED BY <3>2, NotOffAgrees
  <2>9. QED BY <2>6, <2>7, <2>8
\* the last row of all
<1>11. ASSUME x.op = "cancel", LastLeft(x), NEW p \in Plan
       PROVE  Agrees(p, Wanted(p), Range(open))'
  <2>1. TurnsOn(x) = {} /\ TurnsOff(x) = {x.item}
    BY <1>11 DEF TurnsOn, TurnsOff, Putters, Takers, TakeRow
  <2>2. \A r \in Row : ~row'[r].on
    BY <2>1, <1>3, <1>11 DEF LastLeft
  <2>3. ActiveOf(p)' = {}
    BY <2>2 DEF ActiveOf
  <2>4. Wanted(p)' = 0
    BY <2>3, FS_EmptySet DEF Wanted
  <2>5. qty'[p] \in Nat /\ (qty'[p] > 0 => p \in hist'.kept)
    BY <1>3, <1>11, QtyTyped DEF LastLeft
  <2>6. QED BY <2>4, <2>5 DEF Agrees
\* another plan
<1>12. ASSUME NEW p \in Plan, x.op \in Putters => p # PlanOf[PutRow(x)],
              x.op \in Takers => p # TakePlan(x)
       PROVE  Agrees(p, Wanted(p), Range(open))'
  <2>1. PICK m, us : m = Wanted(p) /\ us = Others(x)
    OBVIOUS
  <2>2. ~Touches(own, p)
    BY <1>2, <1>12 DEF Touches, Fits, Putters, Takers, PutRow, TakeRow, TakePlan, Op
  <2>3. Agrees(p, m, us)
    <3>1. Agrees(p, m, Range(open))
      BY <2>1, Explained
    <3>2. QED BY <3>1, <2>1, <2>2, <1>2 DEF Agrees, Lacks, Exceeds
  <2>4. row \in [Row -> RowRecord] /\ row' \in [Row -> RowRecord]
    BY CommittedIs DEF TypeOK
  <2>5. \A s \in Row : row[s].on \in BOOLEAN /\ row'[s].on \in BOOLEAN
    BY <2>4 DEF RowRecord
  <2>6. \A s \in Row : PlanOf[s] = p => s \notin TurnsOn(x) /\ s \notin TurnsOff(x)
    BY <1>12 DEF TurnsOn, TurnsOff, TakePlan
  <2>7. \A s \in Row : PlanOf[s] = p => row'[s].on = row[s].on
    BY <2>5, <2>6, <1>3
  <2>8. Agrees(p, m, us)'
    BY <2>1, <2>3, <2>7, <1>3, <1>5, AgreesFrame
  <2>9. Wanted(p)' = m /\ Range(open)' = us
    BY <2>1, <2>7, <1>4, WantedMoves
  <2>10. QED BY <2>8, <2>9 DEF Agrees
<1>13. \A p \in Plan : Agrees(p, Wanted(p), Range(open))'
  BY <1>9, <1>10, <1>11, <1>12
<1>14. EvenAt(q)' /\ \A o \in Req : o # q => Plain(req'[o])
  BY <1>1, PlainWaits, PlainEven, OthersPlain
<1>15. QED BY <1>13, <1>14, HolderEven

\* The first half of a reconciliation: what it turns on or off its mutations explain
\* until Stripe has followed.
LEMMA ApplyEven ==
    ASSUME TypeOK, WorkFits, Alone, Even, ~hist.late, method = "stripe",
           NEW q \in Req, Apply(q)
    PROVE  Even'
PROOF
<1> DEFINE failed == {u \in Range(open) : GivenUp(u)}
           waiting == {u \in Range(open) : PutOff(u)}
<1>1. /\ row' = AllApplied /\ Close(q, {u.id : u \in failed}) /\ UNCHANGED <<qty, hist>>
      /\ inv' = [r \in Row |-> CASE r \in Additions(failed) -> "none"
                                 [] r \in Additions(waiting) -> "retry"
                                 [] OTHER -> inv[r]]
  BY DEF Apply
<1>2. /\ row \in [Row -> RowRecord] /\ OwnFrom(row) /\ open \in Seq(MutationRecord)
      /\ \A u \in Range(open) : Fits(u) /\ u.item \in Row /\ u.new \in Row /\ u \in MutationRecord
      /\ OneOf(Range(open))
  BY OpenFits DEF TypeOK, WorkFits, OwnFrom
<1>3. /\ AllApplied \in [Row -> RowRecord]
      /\ \A r \in Row : AllApplied[r].on /\ ~row[r].on =>
           \E j \in 1..Len(open) : Done(open[j]) /\ r \in TurnsOn(open[j])
      /\ \A r \in Row : row[r].on /\ ~AllApplied[r].on =>
           \E j \in 1..Len(open) : Done(open[j]) /\ r \in TurnsOff(open[j])
  BY <1>2, AllAppliedIs
<1>4. \A j \in 1..Len(open) : open[j] \in Range(open)
  BY <1>2 DEF Range
<1>5. Range(open') = {u \in Range(open) : ~GivenUp(u)}
  <2>1. Range(open') = {u \in Range(open) : u.id \notin {v.id : v \in failed}}
    BY <1>1, CloseIs
  <2>2. \A u \in Range(open) : u.id \in {v.id : v \in failed} <=> GivenUp(u)
    BY <1>2 DEF OneOf
  <2>3. QED BY <2>1, <2>2
\* what explains anything stays as it is
<1>6. ASSUME NEW u \in Range(open), Solid(u)
      PROVE  /\ u \in Range(open') /\ Solid(u)'
             /\ u.op = "add" => inv'[u.item] = inv[u.item]
  <2>1. CASE u.op # "add"
    BY <2>1, <1>5 DEF Solid, GivenUp
  <2>2. CASE u.op = "add"
    <3>1. inv[u.item] \in {"draft", "attempted", "paid"}
      BY <1>6, <2>2 DEF Solid
    <3>2. \A v \in Range(open) : v.op = "add" /\ v.item = u.item => v = u
      BY <1>2, <2>2 DEF OneOf
    <3>3. u.item \notin Additions(failed) /\ u.item \notin Additions(waiting)
      BY <3>1, <3>2 DEF Additions, GivenUp, PutOff
    <3>4. inv'[u.item] = inv[u.item]
      BY <1>1, <1>2, <3>3
    <3>5. ~GivenUp(u)
      BY <3>1 DEF GivenUp
    <3>6. QED BY <3>1, <3>4, <3>5, <1>5, <2>2 DEF Solid
  <2>3. QED BY <2>1, <2>2
<1>7. ASSUME NEW p \in Plan PROVE Agrees(p, Wanted(p), Range(open))'
  <2>1. CASE \E u \in Range(open) : u.op \in Takers /\ Touches(u, p)
    <3>1. PICK u \in Range(open) : u.op \in Takers /\ Touches(u, p)
      BY <2>1
    <3>2. PICK m, us : m = Wanted(p)' /\ us = Range(open)'
      OBVIOUS
    <3>3. u \in us
      BY <3>1, <3>2, <1>5 DEF GivenUp, Takers
    <3>4. Agrees(p, m, us)'
      BY <3>1, <3>3, TakerExplains
    <3>5. QED BY <3>2, <3>4 DEF Agrees
  <2>2. CASE ~\E u \in Range(open) : u.op \in Takers /\ Touches(u, p)
    <3>1. \A r \in Row : PlanOf[r] = p /\ row[r].on => row'[r].on
      <4>1. SUFFICES ASSUME NEW r \in Row, PlanOf[r] = p, row[r].on, ~row'[r].on PROVE FALSE
        OBVIOUS
      <4>2. PICK j \in 1..Len(open) : r \in TurnsOff(open[j])
        BY <4>1, <1>1, <1>3
      <4>3. open[j].op \in Takers /\ Touches(open[j], p)
        BY <4>1, <4>2 DEF TurnsOff, TakeRow, Touches
      <4>4. QED BY <4>3, <1>4, <2>2
    <3>2. Wanted(p) \in Nat /\ Wanted(p)' \in Nat /\ Wanted(p) <= Wanted(p)' /\ qty[p] \in Nat
      <4> DEFINE A == ActiveOf(p)
                 B == ActiveOf(p)'
      <4>1. A \in SUBSET B /\ B \in SUBSET Row
        BY <3>1 DEF ActiveOf
      <4>2. IsFiniteSet(B) /\ Cardinality(B) \in Nat /\ Cardinality(A) <= Cardinality(B)
        BY <4>1, WantedTyped, FS_Subset
      <4>3. QED BY <4>2, QtyTyped DEF Wanted
    <3>3. Agrees(p, Wanted(p), Range(open))
      BY Explained
    <3>4. ASSUME NEW u \in Range(open), Exceeds(u, p) PROVE Exceeds(u, p)' /\ u \in Range(open')
      <4>1. Solid(u) /\ (u.op = "add" => inv[u.item] = "paid") /\ Touches(u, p)
        BY <3>4 DEF Exceeds, Solid
      <4>2. QED BY <4>1, <1>6 DEF Exceeds, Touches
    <3>5. qty'[p] > Wanted(p)' => p \in hist'.kept \/ \E u \in Range(open') : Exceeds(u, p)'
      BY <3>2, <3>3, <3>4, <1>1 DEF Agrees
    <3>6. CASE \E r \in Row : PlanOf[r] = p /\ row'[r].on /\ ~row[r].on
      <4>1. PICK r \in Row : PlanOf[r] = p /\ row'[r].on /\ ~row[r].on
        BY <3>6
      <4>2. PICK j \in 1..Len(open) : Done(open[j]) /\ r \in TurnsOn(open[j])
        BY <4>1, <1>1, <1>3
      <4>3. PICK u \in Range(open) : Done(u) /\ r \in TurnsOn(u)
        BY <4>2, <1>4
      <4>4. u.op \in Putters /\ r = PutRow(u)
        BY <4>3 DEF TurnsOn
      <4>5. Touches(u, p)
        BY <4>1, <4>4 DEF PutRow, Touches
      <4>6. u.op \in {"resume", "add"} /\ u.item = r
        <5>1. u.op \notin Takers
          BY <4>5, <2>2
        <5>2. u.op \in {"resume", "add"}
          BY <4>4, <5>1 DEF Putters, Takers
        <5>3. QED BY <5>2, <4>4, <1>2 DEF PutRow, Fits
      <4>7. Solid(u)
        <5>1. inv[u.item] \in {"none", "retry", "draft", "open", "attempted", "paid", "void"}
          BY <1>2 DEF TypeOK
        <5>2. QED BY <5>1, <4>3 DEF Solid, Done, GivenUp, PutOff
      <4>8. u \in Range(open') /\ Lacks(u, p)'
        BY <4>1, <4>5, <4>6, <4>7, <1>6 DEF Lacks, Touches
      <4>9. QED BY <4>8, <3>5 DEF Agrees
    <3>7. CASE ~\E r \in Row : PlanOf[r] = p /\ row'[r].on /\ ~row[r].on
      <4>1. \A r \in Row : row[r].on \in BOOLEAN /\ row'[r].on \in BOOLEAN
        BY <1>1, <1>2, <1>3 DEF RowRecord
      <4>2. \A r \in Row : PlanOf[r] = p => row'[r].on = row[r].on
        BY <3>1, <3>7, <4>1
      <4>3. Wanted(p)' = Wanted(p)
        BY <4>2, WantedMoves
      <4>4. ASSUME NEW u \in Range(open), Lacks(u, p) PROVE Lacks(u, p)' /\ u \in Range(open')
        <5>1. Solid(u) /\ Touches(u, p) /\ (u.op \in {"resume", "add"} => row[u.item].on)
          BY <4>4 DEF Lacks
        <5>2. u.op \in {"resume", "add"} => PlanOf[u.item] = p
          BY <5>1, <1>2 DEF Touches, Fits
        <5>3. QED BY <5>1, <5>2, <4>2, <1>2, <1>6 DEF Lacks, Touches
      <4>5. qty'[p] < Wanted(p)' => \E u \in Range(open') : Lacks(u, p)'
        BY <4>3, <4>4, <3>3, <1>1 DEF Agrees
      <4>6. QED BY <4>5, <3>5 DEF Agrees
    <3>8. QED BY <3>6, <3>7
  <2>3. QED BY <2>1, <2>2
<1>8. req[q].pc = "apply" /\ req'[q].pc = "sync" /\ OthersStill(q)
  BY ApplyMoves DEF Apply
<1>9. EvenAt(q)' /\ \A o \in Req : o # q => Plain(req'[o])
  BY <1>8, PlainWaits, PlainEven, OthersPlain
<1>10. QED BY <1>7, <1>9, HolderEven

\* Only the end of a reconciliation forgets that something was astray.
LEMMA AstrayMoves ==
    ASSUME TypeOK, [Next]_vars, ~hist'.astray
    PROVE  ~hist.astray \/ \E q \in Req : SyncFlag(q)
PROOF
<1>1. hist \in HistRecord
  BY DEF TypeOK
<1>2. ASSUME NEW moved, NEW ps, Counted(moved, ps) PROVE ~hist.astray
  BY <1>2, CountedIs
<1>3. CASE hist' = hist
  BY <1>3
<1>4. ASSUME NEW q \in Req, Work(q), hist' # hist, ~SyncFlag(q) PROVE ~hist.astray
  <2>1. Put(q) \/ TakeSome(q) \/ TakeAll(q) \/ TakeNone(q) \/ CleanUp(q) \/ Finalize(q)
        \/ EndAtPeriodEnd(q)
    BY <1>4 DEF Work, PutRefused, TakeRefused, Flag, Uncancel, UncancelForAdd, Bill,
              FinalizeRefused, PayInvoice, Commit, CommitCash, Apply, Sync, SyncCash, Settle,
              Release, Drop, Raise
  <2>2. CASE EndAtPeriodEnd(q)
    <3>1. hist' = [hist EXCEPT !.kept = {p \in Plan : qty[p] > 0},
                               !.astray = @ \/ ~Active(req[q].item)]
      BY <2>2 DEF EndAtPeriodEnd
    <3>2. QED BY <3>1, <1>1 DEF HistRecord
  <2>3. CASE ~EndAtPeriodEnd(q)
    <3>1. \E moved, ps : Counted(moved, ps)
      BY <2>1, <2>3 DEF Put, TakeSome, TakeAll, TakeNone, CleanUp, Finalize
    <3>2. QED BY <3>1, <1>2
  <2>4. QED BY <2>2, <2>3
<1>5. ASSUME NEW q \in Req, Ask(q) PROVE hist' = hist
  BY <1>5 DEF Ask, AskCancel, AskResume, AskChange, AskUndo, AskAdd, AskReconcile,
            AskDeletion, Asked
<1>6. ASSUME \/ \E q \in Req : Enter(q) \/ TurnAway(q) \/ Fail(q) \/ ApplyFails(q) \/ Crash(q)
             \/ \E p \in Doomed : FinalizePlan(p)
             \/ LockExpires \/ EndPeriod \/ UNCHANGED vars
      PROVE  hist' = hist
  BY <1>6 DEF Enter, Entered, TurnAway, Fail, ApplyFails, Crash, FinalizePlan, LockExpires,
            EndPeriod, vars
<1>7. ASSUME Overrun PROVE ~hist.astray
  <2>1. hist' = [hist EXCEPT !.late = TRUE]
    BY <1>7 DEF Overrun
  <2>2. QED BY <2>1, <1>1 DEF HistRecord
<1>8. ASSUME NEW p \in Doomed, DeletePlan(p) PROVE ~hist.astray
  <2>1. PICK more : hist' = [hist EXCEPT !.leftover = more]
    BY <1>8 DEF DeletePlan
  <2>2. QED BY <2>1, <1>1 DEF HistRecord
<1>9. QED BY <1>3, <1>4, <1>5, <1>6, <1>7, <1>8 DEF Next

\* Billed is inductive.
LEMMA BilledStep ==
    ASSUME TypeOK, WorkFits, Alone, Billed, [Next]_vars
    PROVE  Billed'
PROOF
<1> SUFFICES ASSUME method' = "stripe", ~hist'.late, ~hist'.astray PROVE Even'
  BY DEF Billed
<1>1. method = "stripe" /\ ~hist.late /\ ~Overrun
  <2>1. Overrun => hist'.late
    BY DEF Overrun, TypeOK, HistRecord
  <2>2. QED BY <2>1, MethodStays, LateMoves
<1>2. CASE \E q \in Req : SyncFlag(q)
  BY <1>1, <1>2, SyncFlagEven
<1>3. CASE ~\E q \in Req : SyncFlag(q)
  <2>1. Even
    BY <1>1, <1>3, AstrayMoves DEF Billed
  <2>2. ASSUME NEW q \in Req, Work(q) PROVE Even'
    <3>1. ~CommitCash(q)
      BY <1>1 DEF CommitCash, ByCash
    <3>2. CASE \/ PutRefused(q) \/ TakeRefused(q) \/ FinalizeRefused(q) \/ SyncCash(q)
               \/ Release(q) \/ Drop(q)
      <4>1. Raise(q) \/ Release(q) \/ Drop(q)
        BY <3>2 DEF PutRefused, TakeRefused, FinalizeRefused, SyncCash
      <4>2. QED BY <4>1, <1>1, <2>1, RequestEven
    <3>3. CASE \/ Bill(q) \/ Finalize(q) \/ PayInvoice(q)
               \/ Flag(q) \/ Uncancel(q) \/ UncancelForAdd(q)
      BY <3>3, <1>1, <2>1, CallEven
    <3>4. CASE \/ Put(q) \/ TakeSome(q) \/ TakeAll(q) \/ TakeNone(q) \/ CleanUp(q)
               \/ EndAtPeriodEnd(q)
      BY <3>4, <1>1, <2>1, PutEven, TakeEven, TakeNoneEven, CleanUpEven, EndEven
    <3>5. CASE Commit(q) \/ Apply(q) \/ Sync(q) \/ Settle(q)
      BY <3>5, <1>1, <2>1, CommitEven, ApplyEven, SyncEven, SettleEven
    <3>6. QED BY <2>2, <3>1, <3>2, <3>3, <3>4, <3>5, <1>3 DEF Work
  <2>3. ASSUME NEW q \in Req,
               \/ Ask(q) \/ Enter(q) \/ TurnAway(q) \/ Fail(q) \/ ApplyFails(q) \/ Crash(q)
        PROVE  Even'
    BY <2>3, <1>1, <2>1, RequestEven, CallEven
  <2>4. ASSUME \/ \E p \in Doomed : DeletePlan(p) \/ FinalizePlan(p)
               \/ LockExpires \/ EndPeriod \/ UNCHANGED vars
        PROVE  Even'
    BY <2>4, <1>1, <2>1, WorldEven
  <2>5. QED BY <2>2, <2>3, <2>4, <1>1 DEF Next
<1>4. QED BY <1>2, <1>3

\* At the start Stripe bills for the rows.
LEMMA InitBilled == Init => Billed
PROOF
<1> SUFFICES ASSUME Init, method = "stripe" PROVE Even
  BY DEF Billed
<1>1. TypeOK
  BY InitTyped DEF Typed
<1>2. /\ qty = [p \in Plan |-> IF method = "stripe" THEN Wanted(p) ELSE 0]
      /\ \A q \in Req : req[q] = Idle
  BY DEF Init
<1>3. \A p \in Plan : Agrees(p, Wanted(p), Range(open))
  <2>1. \A p \in Plan : qty[p] = Wanted(p) /\ Wanted(p) \in Nat
    <3>1. ASSUME NEW p \in Plan PROVE Wanted(p) \in Nat
      BY <1>1, QtyTyped
    <3>2. ASSUME NEW p \in Plan PROVE qty[p] = Wanted(p)
      BY <1>2
    <3>3. QED BY <3>1, <3>2
  <2>2. QED BY <2>1 DEF Agrees
<1>4. \A q \in Req : EvenAt(q)
  BY <1>2 DEF EvenAt, Idle, HasPut, HasTaken
<1>5. QED BY <1>3, <1>4 DEF Even

-----------------------------------------------------------------------------
(* The theorems.                                                           *)

\* At the start the invariant holds.
LEMMA InitWorkInv == Init => WorkInv
PROOF
<1> SUFFICES ASSUME Init PROVE WorkInv
  OBVIOUS
<1>1. TypeOK /\ WorkFits
  BY InitTyped, InitWorkFits DEF Typed
<1>2. /\ open = <<>> /\ plan = [p \in Plan |-> "live"]
      /\ \A q \in Req : req[q] = Idle
  BY DEF Init
<1>3. \A q \in Req : req[q].pc = "idle" /\ req[q].op = "reconcile"
  BY <1>2 DEF Idle
<1>4. LeavesPlans
  <2>1. Range(open) = {} /\ \A r \in Row : plan[PlanOf[r]] = "live"
    BY <1>2, PlanTyped DEF Range
  <2>2. QED BY <1>3, <2>1 DEF LeavesPlans, DeletedPlanStaysEmpty
<1>5. Alone
  BY <1>3 DEF Alone, HoldsLock, Registered, Invoiced, Calling
<1>6. AllLanded
  BY <1>3 DEF AllLanded, Landed
<1>7. QED BY <1>1, <1>4, <1>5, <1>6 DEF WorkInv

\* Every step keeps the invariant.
LEMMA WorkInvStep == WorkInv /\ [Next]_vars => WorkInv'
PROOF
<1> SUFFICES ASSUME WorkInv, [Next]_vars PROVE WorkInv'
  OBVIOUS
<1>1. TypeOK /\ WorkFits /\ LeavesPlans /\ Alone /\ AllLanded
  BY DEF WorkInv
<1>2. TypeOK'
  BY <1>1, StepTyped DEF Typed
<1>3. WorkFits'
  BY <1>1, WorkFitsStep
<1>4. LeavesPlans'
  BY <1>1, LeavesPlansStep
<1>5. Alone'
  BY <1>1, AloneStep
<1>6. AllLanded'
  BY <1>1, AllLandedStep
<1>7. QED BY <1>2, <1>3, <1>4, <1>5, <1>6 DEF WorkInv

\* What the work on a subscription is about, what the owner's deletions leave
\* over and who holds the lock: the invariant holds in every reachable state.
THEOREM WorkInvariant == Spec => []WorkInv
  BY InitWorkInv, WorkInvStep, PTL DEF Spec

\* Every value stays in its type, and a key of a mutation has one amount.
THEOREM ItemsTypeCorrect == Spec => []TypeOK
PROOF
<1>1. WorkInv => TypeOK
  BY DEF WorkInv
<1>2. QED BY <1>1, WorkInvariant, PTL

\* A plan that is deleted gets a member only through work that had begun before.
THEOREM DeletedPlansStayEmpty == Spec => []DeletedPlanStaysEmpty
PROOF
<1>1. WorkInv => DeletedPlanStaysEmpty
  BY DEF WorkInv, LeavesPlans
<1>2. QED BY <1>1, WorkInvariant, PTL

\* The mutation of a paid addition is only closed by giving the plan, as long as
\* no lock ran out under its holder.
THEOREM PaidAdditionsLand == Spec => PaidAdditionLands
PROOF
<1> DEFINE Lands ==
      \A r \in Row : IsOpen("add", r) /\ ~IsOpen("add", r)' /\ inv[r] \in {"paid", "attempted"}
        => row'[r].on \/ AddedAndTaken(r) \/ hist.late
<1>1. WorkInv /\ [Next]_vars => [Lands]_vars
  <2> SUFFICES ASSUME WorkInv, Next, NEW r \in Row, ~hist.late,
                      IsOpen("add", r), ~IsOpen("add", r)', inv[r] \in {"paid", "attempted"}
               PROVE  row'[r].on \/ AddedAndTaken(r)
    OBVIOUS
  <2>1. QED BY LandsStep DEF WorkInv
<1>2. QED BY <1>1, WorkInvariant, PTL DEF Spec, PaidAdditionLands

\* In the middle of an operation, after a failure or a death, and while others wait:
\* what Stripe bills differs from the rows only as the mutations that are open
\* explain.
THEOREM QuantitiesAreExplained == Spec => []Billed
PROOF
<1>1. WorkInv /\ Billed /\ [Next]_vars => Billed'
  BY BilledStep DEF WorkInv
<1>2. QED BY <1>1, InitBilled, WorkInvariant, PTL DEF Spec

\* When all is over and closed, Stripe bills each plan for the rows that are active.
THEOREM BilledRowsAreActive == Spec => []QuantityFollowsRows
PROOF
<1>1. WorkInv /\ Billed => QuantityFollowsRows
  <2> SUFFICES ASSUME WorkInv, Billed, Quiet, method = "stripe", ~hist.astray, ~hist.late,
                      NEW p \in Plan
               PROVE  ~Off(p)
    BY DEF QuantityFollowsRows
  <2>1. Even /\ TypeOK
    BY DEF Billed, WorkInv
  <2>2. Range(open) = {}
    BY DEF Quiet, Range
  <2>3. \A q \in Req : ~HasDone(req[q], p)
    BY DEF Quiet, HasDone, HasPut, HasTaken
  <2>4. Agrees(p, Wanted(p), Range(open))
    BY <2>1, <2>3 DEF Even
  <2>5. QED BY <2>2, <2>4 DEF Agrees, Off
<1>2. QED BY <1>1, WorkInvariant, QuantitiesAreExplained, PTL
=============================================================================
