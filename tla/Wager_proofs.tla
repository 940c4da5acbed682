---------------------------- MODULE Wager_proofs ----------------------------
(***************************************************************************)
(* Theorems about Wager, for any bills and payments, any amounts and fee,   *)
(* and any number of requests and of workers.                               *)
(***************************************************************************)
EXTENDS Wager, Sums_proofs

Visits == [pays : SUBSET PayIns, was : PayStatus, order : OrderRecord, price : Int]
PayRecord == [status : PayStatus, amo_ret : Int]
Reqs == [op : Ops \cup {"none"}, ids : SUBSET Bills]

WagerRow ==
    /\ wager \in [status : WagerStatus, bill_ids : SUBSET Bills, winner_ids : SUBSET Bills]
    /\ wager.winner_ids \subseteq Made /\ wager.bill_ids \subseteq Made
    /\ wagers_stack \in Nat

OrderRows ==
    /\ shop_orders \in [Bills -> OrderRecord]
    /\ price \in [Bills -> Int] /\ credited \in [Bills -> Int]

PayRows ==
    /\ pay_ins \in [PayIns -> PayRecord]
    /\ \A p \in PayIns : pay_ins[p].amo_ret \in 0 .. Amount[p]
    /\ pay_ins_stack \subseteq PayIns

ReqRows ==
    /\ req \in [Requests -> Reqs]
    /\ \A r \in Requests : req[r].ids \subseteq Made

\* Payments on the stack wait for a decision, and pay a bill that was made;
\* a worker is at one payment at most, to such a bill.
StackOK ==
    /\ \A p \in pay_ins_stack :
        pay_ins[p].status \in {"NEW", "SOFT", "HARD"} /\ BillOf[p] \in Made
    /\ visit \in [Workers -> Visits]
    /\ \A w \in Workers : \A p, q \in visit[w].pays : p = q /\ BillOf[p] \in Made

Types == WagerRow /\ OrderRows /\ PayRows /\ ReqRows /\ StackOK

\* What the payments of a bill in a status amount to.
AmountIn(b, st) ==
    [p \in PayIns |-> IF BillOf[p] = b /\ pay_ins[p].status = st THEN Amount[p] ELSE 0]
SumIn(b, st) == SumFunctionOnSet(AmountIn(b, st), PayIns)

\* A bill with no price has credited its confirmed payments; a priced one is
\* open as long as they are less than the price; a closed one has credited
\* them all.
OpenOK(b) ==
    LET s == shop_orders[b] IN
    /\ s.payed_soft >= SumIn(b, "SOFT") /\ s.payed_hard >= SumIn(b, "HARD")
    /\ price[b] >= 0
    /\ price[b] = 0 => credited[b] = s.payed_true
    /\ price[b] # 0 =>
        /\ s.payed_true < price[b] /\ price[b] <= AllPayed(s)
        /\ b \notin mixed => credited[b] = 0

DoneOK(b) ==
    /\ credited[b] >= shop_orders[b].payed_true
    /\ b \notin mixed => credited[b] <= shop_orders[b].payed_true

BillOK(b) ==
    /\ shop_orders[b].payed_true >= 0 /\ credited[b] >= 0
    /\ IF shop_orders[b].status \in Unused THEN DoneOK(b) ELSE OpenOK(b)

BillsOK == \A b \in Bills \ crossed : BillOK(b)

\* Without races, rows are added to wagers_stack by one end of the wager.
SolvedOK ==
    /\ solves \in Nat
    /\ raced \cap {"go", "end"} = {} =>
        /\ solves + wagers_stack <= 1
        /\ wager.status # "END" => solves + wagers_stack = 0

PotsOK ==
    /\ pots \in Int
    /\ solves = 0 => pots = 0
    /\ PotBacked

\* The inductive invariant.
IInv == Types /\ BillsOK /\ SolvedOK /\ BetsListedUnlessRaced /\ PotsOK

-----------------------------------------------------------------------------
LEMMA Consts ==
    /\ IsFiniteSet(Bills) /\ IsFiniteSet(PayIns)
    /\ BillOf \in [PayIns -> Bills] /\ TxFee \in Nat
    /\ Amount \in [PayIns -> Int] /\ \A p \in PayIns : Amount[p] > 0
    /\ \A p \in PayIns : Grades[p] \subseteq {"SOFT", "HARD", "TRUE", "INVALID"}
BY WagerAssumption

\* What a step of inputs_update computes from the row it has read.
LEMMA CountedType ==
    ASSUME NEW s \in OrderRecord, NEW old, NEW new, NEW amo \in Int, NEW taken \in Int,
           NEW p \in Int
    PROVE  /\ Counted(s, old, new, amo, taken) \in OrderRecord
           /\ NewStatus(p, Counted(s, old, new, amo, taken), s.status) \in OrderStatus
<1> DEFINE n == Counted(s, old, new, amo, taken)
<1>1. \A st, x : x \in Int => Part(st, new, x) \in Int /\ Part(new, st, x) \in Int
                               /\ Part(old, st, x) \in Int
  BY DEF Part
<1>2. s.status \in OrderStatus /\ s.payed_soft \in Int /\ s.payed_hard \in Int
      /\ s.payed_true \in Int
  BY DEF OrderRecord
<1>3. /\ s.payed_soft - Part(old, "SOFT", amo) + Part(new, "SOFT", amo) \in Int
      /\ s.payed_hard - Part(old, "HARD", amo) + Part(new, "HARD", amo) \in Int
      /\ s.payed_true + Part(new, "TRUE", taken) \in Int
  BY <1>1, <1>2
<1>4. (IF s.status = "NEW" THEN "FILL" ELSE s.status) \in OrderStatus
  BY <1>2 DEF OrderStatus
<1>5. n \in OrderRecord
  BY <1>3, <1>4 DEF Counted, OrderRecord
<1>6. n.status \in OrderStatus
  BY <1>5 DEF OrderRecord
<1> HIDE DEF n
<1>7. NewStatus(p, n, s.status) \in OrderStatus
  BY <1>6 DEF NewStatus, OrderStatus, Unused
<1> QED BY <1>5, <1>7 DEF n

LEMMA WrittenType ==
    ASSUME NEW cur \in OrderRecord, NEW old \in OrderRecord, NEW new \in OrderRecord
    PROVE  Written(cur, old, new) \in OrderRecord
BY DEF Written, OrderRecord

\* A row written over the row that was read is the new row.
LEMMA WrittenIs ==
    ASSUME NEW cur \in OrderRecord, NEW new \in OrderRecord
    PROVE  Written(cur, cur, new) = new
BY DEF Written, OrderRecord

LEMMA TakenType ==
    ASSUME NEW v \in Visits, NEW amo \in Int PROVE Taken(v, amo) \in Int
<1>1. v.price \in Int /\ v.order.payed_true \in Int
  BY DEF Visits, OrderRecord
<1> QED BY <1>1 DEF Taken

LEMMA ChangeType ==
    ASSUME NEW v \in Visits, NEW p \in PayIns
    PROVE  Change(v, Amount[p]) \in 0 .. Amount[p]
<1>1. Amount[p] \in Int /\ Amount[p] > 0 /\ TxFee \in Nat /\ Taken(v, Amount[p]) \in Int
  BY Consts, TakenType
<1> QED BY <1>1 DEF Change

LEMMA NoVisitType == NoVisit \in Visits /\ NoVisit.pays = {}
<1>1. NoOrder \in OrderRecord /\ "NONE" \in PayStatus
  BY DEF NoOrder, OrderRecord, OrderStatus, PayStatus
<1> QED BY <1>1 DEF NoVisit, Visits

LEMMA InitTypes == Init => Types
<1> SUFFICES ASSUME Init PROVE Types
  OBVIOUS
<1>1. NoOrder \in OrderRecord
  BY DEF NoOrder, OrderRecord, OrderStatus
<1>2. WagerRow
  BY DEF Init, WagerRow, WagerStatus
<1>3. OrderRows
  BY <1>1 DEF Init, OrderRows
<1>4. PayRows
  BY Consts DEF Init, PayRows, PayRecord, PayStatus
<1>5. ReqRows
  BY DEF Init, ReqRows, Reqs, Free
<1>6. StackOK
  BY NoVisitType DEF Init, StackOK
<1> QED BY <1>2, <1>3, <1>4, <1>5, <1>6 DEF Types

\* A request takes the bills it has read with it.
LEMMA BeginTypes ==
    ASSUME Types, NEW r \in Requests, NEW op \in Ops, NEW ids \in SUBSET Bills,
           ids \subseteq Made, Begin(r, op, ids)
    PROVE  Types'
<1>1. req' = [req EXCEPT ![r] = [op |-> op, ids |-> ids]] /\ req \in [Requests -> Reqs]
  BY DEF Begin, Types, ReqRows
<1>2. [op |-> op, ids |-> ids] \in Reqs
  BY DEF Reqs
<1>3. req' \in [Requests -> Reqs]
  BY <1>1, <1>2
<1>4. Made' = Made
  BY DEF Begin, orderVars, Made
<1>5. ASSUME NEW q \in Requests PROVE req'[q].ids \subseteq Made
  BY <1>1 DEF Types, ReqRows
<1>6. ReqRows'
  BY <1>3, <1>4, <1>5 DEF ReqRows
<1>7. WagerRow' /\ OrderRows' /\ PayRows' /\ StackOK'
  BY <1>4 DEF Begin, Types, wagerVars, orderVars, WagerRow, OrderRows, PayRows, StackOK
<1> QED BY <1>6, <1>7 DEF Types

LEMMA RequestBegins ==
    ASSUME Types, NEW r \in Requests, BeginBet(r) \/ BeginGo(r) \/ BeginEnd(r)
    PROVE  \E op \in Ops, ids \in SUBSET Bills : ids \subseteq Made /\ Begin(r, op, ids)
<1>1. wager.bill_ids \in SUBSET Bills /\ wager.bill_ids \subseteq Made
  BY DEF Types, WagerRow
<1>2. CASE BeginBet(r)
  BY <1>1, <1>2 DEF BeginBet, Ops
<1>3. CASE BeginGo(r)
  BY <1>1, <1>3 DEF BeginGo, Ops
<1>4. CASE BeginEnd(r)
  <2>1. PICK W \in SUBSET wager.bill_ids : Begin(r, "end", W)
    BY <1>4 DEF BeginEnd
  <2> QED BY <1>1, <2>1 DEF Ops
<1> QED BY <1>2, <1>3, <1>4

\* A request ends, and what the others have read stays in the tables.
LEMMA EndsRows ==
    ASSUME Types, NEW r \in Requests, NEW op, Ends(r, op), Made \subseteq Made'
    PROVE  ReqRows'
<1>1. req' = [req EXCEPT ![r] = Free] /\ req \in [Requests -> Reqs]
  BY DEF Ends, Types, ReqRows
<1>2. Free \in Reqs
  BY DEF Free, Reqs
<1>3. req' \in [Requests -> Reqs]
  BY <1>1, <1>2
<1>4. ASSUME NEW q \in Requests PROVE req'[q].ids \subseteq Made'
  <2>1. CASE q = r
    BY <1>1, <2>1 DEF Free
  <2>2. CASE q # r
    BY <1>1, <2>2 DEF Types, ReqRows
  <2> QED BY <2>1, <2>2
<1> QED BY <1>3, <1>4 DEF ReqRows

LEMMA MakeTypes ==
    ASSUME Types, NEW r \in Requests, NEW b \in Bills, MakeBetBill(r, b)
    PROVE  Types'
<1>1. /\ shop_orders' = [shop_orders EXCEPT ![b].status = "NEW"]
      /\ wager' = [wager EXCEPT !.bill_ids = req[r].ids \cup {b}]
      /\ Ends(r, "bet") /\ UNCHANGED <<wagers_stack, price, pay_ins, pay_ins_stack, visit, credited>>
  BY DEF MakeBetBill
<1>2. shop_orders \in [Bills -> OrderRecord] /\ shop_orders[b] \in OrderRecord
  BY DEF Types, OrderRows
<1>3. [shop_orders[b] EXCEPT !.status = "NEW"] \in OrderRecord
  BY <1>2 DEF OrderRecord, OrderStatus
<1>4. shop_orders' = [shop_orders EXCEPT ![b] = [shop_orders[b] EXCEPT !.status = "NEW"]]
  BY <1>1
<1>5. shop_orders' \in [Bills -> OrderRecord]
  BY <1>2, <1>3, <1>4
<1>6. Made' = Made \cup {b}
  BY <1>1, <1>2 DEF Made, OrderRecord
<1>7. req[r].ids \in SUBSET Bills /\ req[r].ids \subseteq Made
  BY DEF Types, ReqRows, Reqs
<1>8. WagerRow'
  BY <1>1, <1>6, <1>7 DEF Types, WagerRow
<1>9. OrderRows'
  BY <1>1, <1>5 DEF Types, OrderRows
<1>10. PayRows' /\ StackOK'
  BY <1>1, <1>6 DEF Types, PayRows, StackOK
<1>11. ReqRows'
  BY <1>1, <1>6, EndsRows
<1> QED BY <1>8, <1>9, <1>10, <1>11 DEF Types

LEMMA GoTypes == ASSUME Types, NEW r \in Requests, Go(r) PROVE Types'
<1> DEFINE B == req[r].ids
           sum == [b \in Bills |-> AllPayed(shop_orders[b])]
           row(b) ==
               IF b \notin B THEN shop_orders[b]
               ELSE IF sum[b] = 0 THEN [shop_orders[b] EXCEPT !.status = "EXPIRED"]
               ELSE IF Pending(b) = 0 THEN [shop_orders[b] EXCEPT !.status = "CLOSED"]
               ELSE shop_orders[b]
<1>1. /\ wager' = [wager EXCEPT !.status = "RUN"]
      /\ price' = [b \in Bills |->
             IF b \notin B THEN price[b] ELSE IF sum[b] # 0 THEN sum[b] ELSE 1]
      /\ shop_orders' = [b \in Bills |-> row(b)]
      /\ Ends(r, "go") /\ UNCHANGED <<wagers_stack, pay_ins, pay_ins_stack, visit, credited>>
  BY DEF Go
<1>2. B \subseteq Made
  BY DEF Types, ReqRows
<1>3. ASSUME NEW b \in Bills
      PROVE  /\ sum[b] \in Int /\ price[b] \in Int
             /\ row(b) \in OrderRecord
             /\ row(b).status # "NONE" <=> shop_orders[b].status # "NONE"
  <2>1. shop_orders[b] \in OrderRecord /\ price[b] \in Int
    BY DEF Types, OrderRows
  <2>2. sum[b] \in Int
    BY <2>1 DEF OrderRecord, AllPayed
  <2>3. b \in B => shop_orders[b].status # "NONE"
    BY <1>2 DEF Made
  <2> HIDE DEF B, sum
  <2>4. row(b) \in OrderRecord
    BY <2>1 DEF OrderRecord, OrderStatus, Unused
  <2>5. row(b).status # "NONE" <=> shop_orders[b].status # "NONE"
    BY <2>1, <2>3 DEF OrderRecord
  <2> QED BY <2>1, <2>2, <2>4, <2>5
<1> HIDE DEF sum, row, B
<1>4. OrderRows'
  BY <1>1, <1>3 DEF Types, OrderRows
<1>5. Made' = Made
  BY <1>1, <1>3 DEF Made
<1>6. WagerRow'
  BY <1>1, <1>5 DEF Types, WagerRow, WagerStatus
<1>7. PayRows' /\ StackOK'
  BY <1>1, <1>5 DEF Types, PayRows, StackOK
<1>8. ReqRows'
  BY <1>1, <1>5, EndsRows
<1> QED BY <1>4, <1>6, <1>7, <1>8 DEF Types

LEMMA EndTypes == ASSUME Types, NEW r \in Requests, End(r) PROVE Types'
<1>1. /\ wager' = [wager EXCEPT !.status = "END", !.winner_ids = req[r].ids]
      /\ wagers_stack' = wagers_stack + 1 /\ Ends(r, "end")
      /\ UNCHANGED <<orderVars, visit, credited>>
  BY DEF End
<1>2. Made' = Made
  BY <1>1 DEF orderVars, Made
<1>3. req[r].ids \in SUBSET Bills /\ req[r].ids \subseteq Made
  BY DEF Types, ReqRows, Reqs
<1>4. WagerRow'
  <2>1. WagerRow
    BY DEF Types
  <2>2. wager' = [status |-> "END", bill_ids |-> wager.bill_ids, winner_ids |-> req[r].ids]
    BY <1>1, <2>1 DEF WagerRow
  <2>3. /\ wager' \in [status : WagerStatus, bill_ids : SUBSET Bills, winner_ids : SUBSET Bills]
        /\ wager'.winner_ids \subseteq Made /\ wager'.bill_ids \subseteq Made
    BY <1>3, <2>1, <2>2 DEF WagerRow, WagerStatus
  <2>4. wagers_stack' \in Nat
    BY <1>1, <2>1 DEF WagerRow
  <2> QED BY <1>2, <2>3, <2>4 DEF WagerRow
<1>5. OrderRows' /\ PayRows' /\ StackOK'
  BY <1>1, <1>2 DEF Types, OrderRows, PayRows, StackOK, orderVars
<1>6. ReqRows'
  BY <1>1, <1>2, EndsRows
<1> QED BY <1>4, <1>5, <1>6 DEF Types

LEMMA ReceiveTypes == ASSUME Types, NEW p \in PayIns, Receive(p) PROVE Types'
<1>1. /\ pay_ins' = [pay_ins EXCEPT ![p].status = "NEW"] /\ BillOf[p] \in Made
      /\ pay_ins_stack' = pay_ins_stack \cup {p} /\ pay_ins[p].status = "NONE"
      /\ UNCHANGED <<wagerVars, shop_orders, price, visit, req, credited>>
  BY DEF Receive
<1>2. pay_ins \in [PayIns -> PayRecord] /\ pay_ins[p] \in PayRecord
  BY DEF Types, PayRows
<1>3. pay_ins' = [pay_ins EXCEPT ![p] = [status |-> "NEW", amo_ret |-> pay_ins[p].amo_ret]]
  <2>1. [pay_ins[p] EXCEPT !.status = "NEW"] = [status |-> "NEW", amo_ret |-> pay_ins[p].amo_ret]
    BY <1>2 DEF PayRecord
  <2>2. pay_ins' = [pay_ins EXCEPT ![p] = [pay_ins[p] EXCEPT !.status = "NEW"]]
    BY <1>1
  <2> QED BY <2>1, <2>2
<1>4. [status |-> "NEW", amo_ret |-> pay_ins[p].amo_ret] \in PayRecord
  BY <1>2 DEF PayRecord, PayStatus
<1>5. Made' = Made
  BY <1>1 DEF Made
<1>6. PayRows'
  BY <1>1, <1>2, <1>3, <1>4 DEF Types, PayRows
<1>7. StackOK'
  <2>1. \A q \in pay_ins_stack' : q \in PayIns /\ pay_ins'[q].status \in {"NEW", "SOFT", "HARD"}
    BY <1>1, <1>2, <1>3 DEF Types, StackOK, PayRows
  <2> QED BY <1>1, <1>5, <2>1 DEF Types, StackOK
<1>8. WagerRow' /\ OrderRows' /\ ReqRows'
  BY <1>1, <1>5 DEF Types, WagerRow, OrderRows, ReqRows, wagerVars
<1> QED BY <1>6, <1>7, <1>8 DEF Types

LEMMA VisitTypes ==
    ASSUME Types, NEW w \in Workers, NEW p \in PayIns, Visit(w, p) PROVE Types'
<1> DEFINE v == [pays |-> {p}, was |-> pay_ins[p].status,
                 order |-> shop_orders[BillOf[p]], price |-> price[BillOf[p]]]
<1>1. /\ visit' = [visit EXCEPT ![w] = v] /\ p \in pay_ins_stack
      /\ UNCHANGED <<wagerVars, orderVars, req, credited>>
  BY DEF Visit
<1>2. v \in Visits
  BY Consts DEF Types, OrderRows, PayRows, PayRecord, Visits
<1>3. Made' = Made
  BY <1>1 DEF Made, orderVars
<1>4. StackOK'
  <2>1. visit' \in [Workers -> Visits] /\ BillOf[p] \in Made
    BY <1>1, <1>2 DEF Types, StackOK
  <2>2. ASSUME NEW u \in Workers, NEW q \in visit'[u].pays, NEW t \in visit'[u].pays
        PROVE  q = t /\ BillOf[q] \in Made
    <3>1. CASE u = w
      BY <1>1, <2>1, <2>2, <3>1 DEF Types, StackOK
    <3>2. CASE u # w
      BY <1>1, <2>2, <3>2 DEF Types, StackOK
    <3> QED BY <3>1, <3>2
  <2> HIDE DEF v
  <2> QED BY <1>1, <1>3, <2>1, <2>2 DEF Types, StackOK, orderVars
<1>5. WagerRow' /\ OrderRows' /\ PayRows' /\ ReqRows'
  BY <1>1, <1>3 DEF Types, WagerRow, OrderRows, PayRows, ReqRows, wagerVars, orderVars
<1> QED BY <1>4, <1>5 DEF Types

\* A worker is done with its payment.
LEMMA LeavesVisit ==
    ASSUME Types, NEW w \in Workers, visit' = [visit EXCEPT ![w] = NoVisit],
           Made \subseteq Made'
    PROVE  /\ visit' \in [Workers -> Visits]
           /\ \A u \in Workers : \A p, q \in visit'[u].pays : p = q /\ BillOf[p] \in Made'
<1>1. visit' \in [Workers -> Visits]
  BY NoVisitType DEF Types, StackOK
<1>2. ASSUME NEW u \in Workers, NEW p \in visit'[u].pays, NEW q \in visit'[u].pays
      PROVE  p = q /\ BillOf[p] \in Made'
  <2>1. u # w
    BY <1>2, NoVisitType DEF Types, StackOK
  <2> QED BY <1>2, <2>1 DEF Types, StackOK
<1> QED BY <1>1, <1>2

LEMMA AbandonTypes ==
    ASSUME Types, NEW w \in Workers, Abandon(w) PROVE Types'
<1>1. /\ visit' = [visit EXCEPT ![w] = NoVisit]
      /\ UNCHANGED <<wagerVars, orderVars, req, credited>>
  BY DEF Abandon
<1>2. Made' = Made
  BY <1>1 DEF Made, orderVars
<1>3. StackOK'
  BY <1>1, <1>2, LeavesVisit DEF Types, StackOK, orderVars
<1> QED BY <1>1, <1>2, <1>3
       DEF Types, WagerRow, OrderRows, PayRows, ReqRows, wagerVars, orderVars

\* What is known of a payment that is counted.
LEMMA CountIs ==
    ASSUME Types, NEW w \in Workers, NEW p \in PayIns, NEW new \in Grades[p],
           Count(w, p, new)
    PROVE  /\ visit[w] \in Visits /\ BillOf[p] \in Made /\ BillOf[p] \in Bills
           /\ new \in {"SOFT", "HARD", "TRUE", "INVALID"}
<1>1. p \in visit[w].pays
  BY DEF Count
<1> QED BY <1>1, Consts DEF Types, StackOK

\* And when what was read is still so.
LEMMA FreshIs ==
    ASSUME Types, NEW w \in Workers, NEW p \in PayIns, NEW new \in Grades[p],
           Count(w, p, new), BillOf[p] \notin crossed'
    PROVE  /\ visit[w].was = pay_ins[p].status
           /\ visit[w].order = shop_orders[BillOf[p]]
           /\ visit[w].price = price[BillOf[p]]
           /\ pay_ins[p].status \in {"NEW", "SOFT", "HARD"}
           /\ new # pay_ins[p].status /\ ~ (pay_ins[p].status = "HARD" /\ new = "SOFT")
<1>1. Fresh(visit[w], p) /\ new \notin Passed(visit[w].was)
  BY DEF Count
<1>2. /\ visit[w].was = pay_ins[p].status /\ p \in pay_ins_stack
      /\ visit[w].order = shop_orders[BillOf[p]] /\ visit[w].price = price[BillOf[p]]
  BY <1>1 DEF Fresh
<1>3. pay_ins[p].status \in {"NEW", "SOFT", "HARD"}
  BY <1>2 DEF Types, StackOK
<1>4. new \in {"SOFT", "HARD", "TRUE", "INVALID"}
  BY CountIs
<1>5. pay_ins[p].status = "SOFT" => Passed(pay_ins[p].status) = {"SOFT"}
  BY DEF Passed
<1>6. pay_ins[p].status = "HARD" => Passed(pay_ins[p].status) = {"SOFT", "HARD"}
  BY DEF Passed
<1> QED BY <1>1, <1>2, <1>3, <1>4, <1>5, <1>6

\* The row that an open bill gets.
NewRow(v, new, amo) == [Sums(v, new, amo) EXCEPT !.status = StatusOf(v, new, amo)]

LEMMA NewRowType ==
    ASSUME NEW v \in Visits, NEW new, NEW amo \in Int
    PROVE  NewRow(v, new, amo) \in OrderRecord
<1> DEFINE s == Sums(v, new, amo)
<1>1. v.order \in OrderRecord /\ v.price \in Int /\ Taken(v, amo) \in Int
  BY TakenType DEF Visits
<1>2. s \in OrderRecord /\ StatusOf(v, new, amo) \in OrderStatus
  BY <1>1, CountedType DEF Sums, StatusOf
<1> HIDE DEF s
<1>3. [s EXCEPT !.status = StatusOf(v, new, amo)] \in OrderRecord
  BY <1>2 DEF OrderRecord
<1> QED BY <1>3 DEF NewRow, s

\* The status of a bill is never taken back to the time before it was made.
LEMMA WrittenMade ==
    ASSUME NEW v \in Visits, NEW new, NEW amo \in Int,
           NEW cur \in OrderRecord, cur.status # "NONE"
    PROVE  Written(cur, v.order, NewRow(v, new, amo)).status # "NONE"
<1> DEFINE s == v.order
           c == Sums(v, new, amo)
           st == NewStatus(v.price, c, s.status)
           n == NewRow(v, new, amo)
<1>1. n.status = st
  BY DEF Counted, NewRow, Sums, StatusOf
<1>2. c.status = IF s.status = "NEW" THEN "FILL" ELSE s.status
  BY DEF Counted, Sums
<1>3. st = "NONE" => s.status = "NONE"
  <2> HIDE DEF c, s
  <2> QED BY <1>2 DEF NewStatus
<1>4. "status" \in DOMAIN cur
  BY DEF OrderRecord
<1> HIDE DEF n, st, s
<1>5. Written(cur, s, n).status = IF n.status # s.status THEN n.status ELSE cur.status
  BY <1>4 DEF Written
<1>6. Written(cur, s, n).status # "NONE"
  BY <1>1, <1>3, <1>5
<1> QED BY <1>6 DEF n, s

LEMMA CreditType ==
    ASSUME NEW v \in Visits, NEW new, NEW amo \in Int PROVE Credit(v, new, amo) \in Int
<1>1. v.price \in Int
  BY DEF Visits
<1> QED BY <1>1 DEF Credit, Part

LEMMA CountRows ==
    ASSUME Types, NEW w \in Workers, NEW p \in PayIns, NEW new \in Grades[p],
           Count(w, p, new)
    PROVE  /\ OrderRows' /\ PayRows' /\ Made \subseteq Made'
           /\ pay_ins'[p].status = new \/ (new = "TRUE" /\ pay_ins'[p].status = "RETURNED")
           /\ \A q \in PayIns \ {p} : pay_ins'[q] = pay_ins[q]
           /\ price' = price
<1> DEFINE b == BillOf[p]
           amo == IF new = "INVALID" THEN -1 ELSE Amount[p]
           v == visit[w]
<1>1. /\ b \in Bills /\ amo \in Int /\ Amount[p] \in Int /\ Amount[p] > 0
      /\ new \in {"SOFT", "HARD", "TRUE", "INVALID"} /\ v \in Visits
  BY Consts, CountIs
<1>2. /\ shop_orders \in [Bills -> OrderRecord] /\ price \in [Bills -> Int]
      /\ credited \in [Bills -> Int] /\ pay_ins \in [PayIns -> PayRecord]
      /\ \A q \in PayIns : pay_ins[q].amo_ret \in 0 .. Amount[q]
      /\ pay_ins_stack \subseteq PayIns
  BY DEF Types, OrderRows, PayRows
<1>3. pay_ins_stack' \subseteq PayIns /\ price' = price
  BY <1>2 DEF Count
<1>4. ASSUME NEW x \in PayRecord, pay_ins' = [pay_ins EXCEPT ![p] = x],
             x.amo_ret \in 0 .. Amount[p]
      PROVE  PayRows' /\ \A q \in PayIns \ {p} : pay_ins'[q] = pay_ins[q]
  BY <1>2, <1>3, <1>4 DEF PayRows
<1>5. CASE CountOpen(v, p, new, amo)
  <2> DEFINE x == [status |-> new, amo_ret |-> IF new = "TRUE" THEN Change(v, amo) ELSE 0]
  <2>1. /\ shop_orders' = [shop_orders EXCEPT ![b] =
               Written(shop_orders[b], v.order, NewRow(v, new, amo))]
        /\ pay_ins' = [pay_ins EXCEPT ![p] = x]
        /\ credited' = [credited EXCEPT ![b] = credited[b] + Credit(v, new, amo)]
    BY <1>5, Zenon DEF CountOpen, NewRow
  <2>2. Written(shop_orders[b], v.order, NewRow(v, new, amo)) \in OrderRecord
    <3>1. v.order \in OrderRecord /\ NewRow(v, new, amo) \in OrderRecord
      BY <1>1, NewRowType DEF Visits
    <3> QED BY <1>1, <1>2, <3>1, WrittenType
  <2>3. shop_orders' \in [Bills -> OrderRecord]
    BY <1>1, <1>2, <2>1, <2>2
  <2>4. credited' \in [Bills -> Int]
    <3>1. Credit(v, new, amo) \in Int
      BY <1>1, CreditType
    <3> QED BY <1>1, <1>2, <2>1, <3>1
  <2>5. x \in PayRecord /\ x.amo_ret \in 0 .. Amount[p]
    BY <1>1, ChangeType DEF PayRecord, PayStatus
  <2>6. pay_ins'[p].status = new
    BY <1>2, <2>1
  <2>7. Made \subseteq Made'
    <3>1. shop_orders[b].status # "NONE" =>
            Written(shop_orders[b], v.order, NewRow(v, new, amo)).status # "NONE"
      BY <1>1, <1>2, WrittenMade
    <3> QED BY <1>1, <1>2, <2>1, <3>1 DEF Made
  <2> HIDE DEF x
  <2> QED BY <1>2, <1>3, <1>4, <2>1, <2>3, <2>4, <2>5, <2>6, <2>7 DEF OrderRows
<1>6. CASE CountLate(v, p, new)
  <2> DEFINE x == IF new = "TRUE" THEN [status |-> "RETURNED", amo_ret |-> Amount[p]]
                                  ELSE [status |-> new, amo_ret |-> 0]
  <2>1. pay_ins' = [pay_ins EXCEPT ![p] = x] /\ UNCHANGED <<shop_orders, credited>>
    BY <1>6 DEF CountLate
  <2>2. x \in PayRecord /\ x.amo_ret \in 0 .. Amount[p]
    BY <1>1 DEF PayRecord, PayStatus
  <2>3. pay_ins'[p].status = new \/ (new = "TRUE" /\ pay_ins'[p].status = "RETURNED")
    BY <1>2, <2>1
  <2> HIDE DEF x
  <2> QED BY <1>2, <1>3, <1>4, <2>1, <2>2, <2>3 DEF OrderRows, Made
<1>7. CountOpen(v, p, new, amo) \/ CountLate(v, p, new)
  BY DEF Count
<1> QED BY <1>5, <1>6, <1>7

LEMMA CountTypes ==
    ASSUME Types, NEW w \in Workers, NEW p \in PayIns, NEW new \in Grades[p],
           Count(w, p, new)
    PROVE  Types'
<1>1. OrderRows' /\ PayRows' /\ Made \subseteq Made'
  BY CountRows
<1>2. WagerRow' /\ ReqRows'
  BY <1>1 DEF Count, Types, WagerRow, ReqRows, wagerVars
<1>3. StackOK'
  <2>1. visit' = [visit EXCEPT ![w] = NoVisit]
    BY DEF Count
  <2>2. ASSUME NEW q \in pay_ins_stack'
        PROVE  pay_ins'[q].status \in {"NEW", "SOFT", "HARD"} /\ BillOf[q] \in Made'
    <3>1. q \in pay_ins_stack /\ (q = p => new \notin {"TRUE", "INVALID"})
      BY <2>2 DEF Count, Final
    <3>2. CASE q = p
      BY <1>1, <3>1, <3>2, CountIs, CountRows
    <3>3. CASE q # p
      BY <1>1, <3>1, <3>3, CountRows DEF Types, StackOK, PayRows
    <3> QED BY <3>2, <3>3
  <2> QED BY <1>1, <2>1, <2>2, LeavesVisit DEF StackOK
<1> QED BY <1>1, <1>2, <1>3 DEF Types

LEMMA SolveTypes == ASSUME Types, Solve PROVE Types'
<1>1. wagers_stack' = wagers_stack - 1 /\ wagers_stack > 0
      /\ UNCHANGED <<wager, orderVars, visit, req, credited>>
  BY DEF Solve
<1>2. Made' = Made
  BY <1>1 DEF orderVars, Made
<1> QED BY <1>1, <1>2 DEF Types, WagerRow, OrderRows, PayRows, ReqRows, StackOK, orderVars

\* The types are kept by every step.
LEMMA NextTypes == ASSUME Types, [Next]_vars PROVE Types'
<1>1. ASSUME NEW r \in Requests, BeginBet(r) \/ BeginGo(r) \/ BeginEnd(r) PROVE Types'
  BY <1>1, RequestBegins, BeginTypes
<1>2. ASSUME NEW w \in Workers, NEW p \in PayIns, NEW new \in Grades[p], Count(w, p, new)
      PROVE  Types'
  BY <1>2, CountTypes
<1>3. CASE UNCHANGED vars
  <2>1. Made' = Made
    BY <1>3 DEF vars, orderVars, Made
  <2> QED BY <1>3, <2>1 DEF vars, wagerVars, orderVars, Types, WagerRow, OrderRows, PayRows,
                            ReqRows, StackOK
<1> QED BY <1>1, <1>2, <1>3, GoTypes, EndTypes, MakeTypes, ReceiveTypes, VisitTypes,
           AbandonTypes, SolveTypes DEF Next

\* TypeOK: the wager, its bills, the payments and what requests have read are
\* of their types.
THEOREM WagerTypes == Spec => []TypeOK
<1>1. Types => TypeOK
  BY DEF Types, TypeOK, WagerRow, OrderRows, PayRows, ReqRows, PayRecord, Reqs
<1> QED BY InitTypes, NextTypes, <1>1, PTL DEF Spec

-----------------------------------------------------------------------------
LEMMA SumInType ==
    ASSUME NEW b \in Bills, NEW st
    PROVE  SumIn(b, st) \in Nat /\ SumIn(b, st)' \in Nat
<1>1. \A p \in PayIns : AmountIn(b, st)[p] \in Nat /\ AmountIn(b, st)'[p] \in Nat
  BY Consts DEF AmountIn
<1> QED BY <1>1, SumNat, Consts DEF SumIn

\* One payment has moved to another status.
LEMMA SumInStep ==
    ASSUME Types, Types', NEW p \in PayIns, NEW b \in Bills, NEW st,
           \A q \in PayIns \ {p} : pay_ins'[q] = pay_ins[q]
    PROVE  SumIn(b, st)' = SumIn(b, st) + (AmountIn(b, st)'[p] - AmountIn(b, st)[p])
<1> DEFINE f == AmountIn(b, st)
           g == AmountIn(b, st)'
<1>1. IntOn(f, PayIns) /\ IntOn(g, PayIns)
  BY Consts DEF AmountIn, IntOn
<1>2. \A q \in PayIns \ {p} : f[q] = g[q]
  BY DEF AmountIn
<1>3. SumFunctionOnSet(g, PayIns) = SumFunctionOnSet(f, PayIns) + (g[p] - f[p])
  <2> HIDE DEF f, g
  <2> QED BY <1>1, <1>2, SumAt, Consts
<1> QED BY <1>3 DEF SumIn

\* It moves out of one sum and into another one, of its own bill.
LEMMA SumInMoves ==
    ASSUME Types, Types', NEW p \in PayIns, NEW st,
           \A q \in PayIns \ {p} : pay_ins'[q] = pay_ins[q]
    PROVE  /\ \A b \in Bills \ {BillOf[p]} : SumIn(b, st)' = SumIn(b, st)
           /\ SumIn(BillOf[p], st)' = SumIn(BillOf[p], st)
                + Part(st, pay_ins'[p].status, Amount[p])
                - Part(st, pay_ins[p].status, Amount[p])
<1>1. Amount[p] \in Int /\ BillOf[p] \in Bills
  BY Consts
<1>2. ASSUME NEW b \in Bills PROVE SumIn(b, st) \in Int
  BY SumInType
<1>3. ASSUME NEW b \in Bills
      PROVE  AmountIn(b, st)'[p] = (IF BillOf[p] = b THEN Part(st, pay_ins'[p].status, Amount[p]) ELSE 0)
             /\ AmountIn(b, st)[p] = IF BillOf[p] = b THEN Part(st, pay_ins[p].status, Amount[p]) ELSE 0
  BY DEF AmountIn, Part
<1>4. ASSUME NEW b \in Bills \ {BillOf[p]} PROVE SumIn(b, st)' = SumIn(b, st)
  <2>1. SumIn(b, st)' = SumIn(b, st) + (0 - 0)
    BY <1>3, SumInStep
  <2> QED BY <1>2, <2>1
<1>5. SumIn(BillOf[p], st)' = SumIn(BillOf[p], st)
        + (Part(st, pay_ins'[p].status, Amount[p]) - Part(st, pay_ins[p].status, Amount[p]))
  BY <1>1, <1>3, SumInStep
<1>6. /\ Part(st, pay_ins'[p].status, Amount[p]) \in Int
      /\ Part(st, pay_ins[p].status, Amount[p]) \in Int
  BY <1>1 DEF Part
<1> QED BY <1>1, <1>2, <1>4, <1>5, <1>6

LEMMA InitBills == Init => BillsOK
<1> SUFFICES ASSUME Init, NEW b \in Bills PROVE BillOK(b)
  BY DEF BillsOK
<1>1. ASSUME NEW st \in {"SOFT", "HARD"} PROVE SumIn(b, st) = 0
  <2>1. \A p \in PayIns : AmountIn(b, st)[p] = 0
    BY DEF AmountIn, Init
  <2> QED BY <2>1, SumZero, Consts DEF SumIn
<1> QED BY <1>1 DEF Init, BillOK, OpenOK, NoOrder, Unused

\* A step that leaves a bill and its payments alone.
LEMMA BillKept ==
    ASSUME NEW b \in Bills, BillOK(b), shop_orders'[b] = shop_orders[b], price'[b] = price[b],
           credited'[b] = credited[b], b \in mixed' <=> b \in mixed,
           SumIn(b, "SOFT")' = SumIn(b, "SOFT"), SumIn(b, "HARD")' = SumIn(b, "HARD")
    PROVE  BillOK(b)'
BY DEF BillOK, OpenOK, DoneOK

LEMMA BillsKept ==
    ASSUME BillsOK, UNCHANGED <<shop_orders, price, credited, mixed, crossed, pay_ins>>
    PROVE  BillsOK'
<1> SUFFICES ASSUME NEW b \in Bills \ crossed PROVE BillOK(b)'
  BY DEF BillsOK
<1>1. BillOK(b)
  BY DEF BillsOK
<1>2. SumIn(b, "SOFT")' = SumIn(b, "SOFT") /\ SumIn(b, "HARD")' = SumIn(b, "HARD")
  BY DEF SumIn, AmountIn
<1> QED BY <1>1, <1>2, BillKept

LEMMA MakeBills ==
    ASSUME Types, BillsOK, NEW r \in Requests, NEW c \in Bills, MakeBetBill(r, c)
    PROVE  BillsOK'
<1>1. /\ shop_orders' = [shop_orders EXCEPT ![c].status = "NEW"] /\ c \notin Made
      /\ UNCHANGED <<price, credited, mixed, crossed, pay_ins>>
  BY DEF MakeBetBill
<1> SUFFICES ASSUME NEW b \in Bills \ crossed PROVE BillOK(b)'
  BY <1>1 DEF BillsOK
<1>2. BillOK(b)
  BY DEF BillsOK
<1>3. SumIn(b, "SOFT")' = SumIn(b, "SOFT") /\ SumIn(b, "HARD")' = SumIn(b, "HARD")
  BY <1>1 DEF SumIn, AmountIn
<1>4. shop_orders \in [Bills -> OrderRecord]
  BY DEF Types, OrderRows
<1>5. CASE b # c
  BY <1>1, <1>2, <1>3, <1>4, <1>5, BillKept
<1>6. CASE b = c
  <2>2. shop_orders[b].status = "NONE" /\ shop_orders'[b] = [shop_orders[b] EXCEPT !.status = "NEW"]
    BY <1>1, <1>4, <1>6 DEF Made
  <2>3. /\ shop_orders'[b].status = "NEW"
        /\ shop_orders'[b].payed_soft = shop_orders[b].payed_soft
        /\ shop_orders'[b].payed_hard = shop_orders[b].payed_hard
        /\ shop_orders'[b].payed_true = shop_orders[b].payed_true
    BY <1>4, <2>2 DEF OrderRecord
  <2>4. AllPayed(shop_orders'[b]) = AllPayed(shop_orders[b])
    BY <2>3 DEF AllPayed
  <2> QED BY <1>1, <1>2, <1>3, <2>2, <2>3, <2>4 DEF BillOK, OpenOK, Unused
<1> QED BY <1>5, <1>6

LEMMA ReceiveBills ==
    ASSUME Types, Types', BillsOK, NEW p \in PayIns, Receive(p) PROVE BillsOK'
<1>1. /\ pay_ins' = [pay_ins EXCEPT ![p].status = "NEW"] /\ pay_ins[p].status = "NONE"
      /\ UNCHANGED <<shop_orders, price, credited, mixed, crossed>>
  BY DEF Receive, ghosts
<1>2. pay_ins'[p].status = "NEW" /\ \A q \in PayIns \ {p} : pay_ins'[q] = pay_ins[q]
  BY <1>1 DEF Types, PayRows, PayRecord
<1> SUFFICES ASSUME NEW b \in Bills \ crossed PROVE BillOK(b)'
  BY <1>1 DEF BillsOK
<1>3. BillOK(b)
  BY DEF BillsOK
<1>4. ASSUME NEW st \in {"SOFT", "HARD"} PROVE SumIn(b, st)' = SumIn(b, st)
  <2>1. SumIn(BillOf[p], st)' = SumIn(BillOf[p], st) + 0 - 0
    BY <1>1, <1>2, SumInMoves DEF Part
  <2>2. SumIn(b, st) \in Int
    BY SumInType
  <2> QED BY <1>2, <2>1, <2>2, SumInMoves
<1> QED BY <1>1, <1>3, <1>4, BillKept

LEMMA VisitBills ==
    ASSUME BillsOK, NEW w \in Workers, NEW p \in PayIns, Visit(w, p) PROVE BillsOK'
BY BillsKept DEF Visit, orderVars, ghosts

\* What is pending of an open bill is not negative; a priced one has some.
LEMMA OpenPending ==
    ASSUME Types, NEW b \in Bills, BillOK(b), shop_orders[b].status \notin Unused
    PROVE  /\ shop_orders[b] \in OrderRecord /\ price[b] \in Int /\ credited[b] \in Int
           /\ Pending(b) \in Int /\ AllPayed(shop_orders[b]) = shop_orders[b].payed_true + Pending(b)
           /\ Pending(b) >= 0 /\ price[b] >= 0
           /\ price[b] # 0 => Pending(b) > 0
<1> DEFINE s == shop_orders[b]
<1>1. s \in OrderRecord /\ price[b] \in Int /\ credited[b] \in Int
  BY DEF Types, OrderRows
<1>2. s.payed_soft \in Int /\ s.payed_hard \in Int /\ s.payed_true \in Int
  BY <1>1 DEF OrderRecord
<1>3. SumIn(b, "SOFT") \in Nat /\ SumIn(b, "HARD") \in Nat
  BY SumInType
<1>4. s.payed_soft >= 0 /\ s.payed_hard >= 0
  BY <1>2, <1>3 DEF BillOK, OpenOK
<1> QED BY <1>1, <1>2, <1>4 DEF BillOK, OpenOK, Pending, AllPayed

LEMMA GoBill ==
    ASSUME Types, BillsOK, NEW r \in Requests, Go(r), NEW b \in Bills \ crossed,
           b \in req[r].ids
    PROVE  BillOK(b)'
<1> DEFINE s == shop_orders[b]
           sum == AllPayed(s)
<1>1. /\ price'[b] = IF sum # 0 THEN sum ELSE 1
      /\ shop_orders'[b] = IF sum = 0 THEN [s EXCEPT !.status = "EXPIRED"]
                           ELSE IF Pending(b) = 0 THEN [s EXCEPT !.status = "CLOSED"]
                           ELSE s
      /\ UNCHANGED <<pay_ins, credited>>
      /\ mixed' = mixed \cup
            {c \in req[r].ids : shop_orders[c].payed_true # 0 /\ Pending(c) # 0}
  BY DEF Go
<1>2. b \notin crossed /\ b \in Bills
  OBVIOUS
<1>3. SumIn(b, "SOFT")' = SumIn(b, "SOFT") /\ SumIn(b, "HARD")' = SumIn(b, "HARD")
  BY <1>1 DEF SumIn, AmountIn
<1>4. BillOK(b) /\ s \in OrderRecord
  BY <1>2 DEF BillsOK, Types, OrderRows
<1>5. /\ s.payed_soft \in Int /\ s.payed_hard \in Int /\ s.payed_true \in Int
      /\ sum = s.payed_true + Pending(b) /\ Pending(b) \in Int /\ credited[b] \in Int
  BY <1>2, <1>4 DEF OrderRecord, AllPayed, Pending, Types, OrderRows
<1>6. ASSUME NEW st
      PROVE  LET n == [s EXCEPT !.status = st] IN
             n.status = st /\ n.payed_true = s.payed_true
  BY <1>4 DEF OrderRecord
<1>7. b \notin mixed' => b \notin mixed /\ (s.payed_true = 0 \/ Pending(b) = 0)
  BY <1>1
<1>8. CASE s.status \in Unused
  <2>1. shop_orders'[b].status \in Unused /\ shop_orders'[b].payed_true = s.payed_true
    BY <1>1, <1>6, <1>8 DEF Unused
  <2> QED BY <1>1, <1>3, <1>4, <1>7, <1>8, <2>1 DEF BillOK, DoneOK
<1>9. CASE s.status \notin Unused
  <2>1. Pending(b) >= 0 /\ s.payed_true >= 0 /\ credited[b] >= 0
        /\ (price[b] = 0 => credited[b] = s.payed_true)
        /\ (price[b] # 0 => Pending(b) > 0 /\ (b \notin mixed => credited[b] = 0))
    BY <1>2, <1>4, <1>9, OpenPending DEF BillOK, OpenOK
  <2>2. CASE sum = 0 \/ Pending(b) = 0
    <3>1. shop_orders'[b].status \in Unused /\ shop_orders'[b].payed_true = s.payed_true
      BY <1>1, <1>6, <2>2 DEF Unused
    <3>2. price[b] = 0 \/ s.payed_true = 0
      BY <1>5, <2>1, <2>2
    <3>3. credited[b] = s.payed_true
      BY <1>5, <2>1, <2>2
    <3> QED BY <1>1, <1>3, <1>5, <2>1, <3>1, <3>3 DEF BillOK, DoneOK
  <2>3. CASE sum # 0 /\ Pending(b) # 0
    <3>1. shop_orders'[b] = s /\ price'[b] = sum
      BY <1>1, <2>3
    <3>2. sum > 0 /\ s.payed_true < sum
      BY <1>5, <2>1, <2>3
    <3>3. b \notin mixed' => credited[b] = 0
      BY <1>5, <1>7, <2>1, <2>3
    <3>4. s.payed_soft >= SumIn(b, "SOFT") /\ s.payed_hard >= SumIn(b, "HARD")
      BY <1>4, <1>9 DEF BillOK, OpenOK
    <3> HIDE DEF sum
    <3>5. OpenOK(b)'
      BY <1>1, <1>3, <1>5, <3>1, <3>2, <3>3, <3>4 DEF OpenOK, sum
    <3> QED BY <1>1, <1>3, <1>9, <2>1, <3>1, <3>5 DEF BillOK
  <2> QED BY <2>2, <2>3
<1> QED BY <1>8, <1>9

LEMMA GoBills == ASSUME Types, BillsOK, NEW r \in Requests, Go(r) PROVE BillsOK'
<1>1. crossed' = crossed
  BY DEF Go
<1> SUFFICES ASSUME NEW b \in Bills \ crossed, b \notin req[r].ids PROVE BillOK(b)'
  BY <1>1, GoBill DEF BillsOK
<1>2. /\ shop_orders'[b] = shop_orders[b] /\ price'[b] = price[b] /\ credited' = credited
      /\ (b \in mixed' <=> b \in mixed) /\ pay_ins' = pay_ins
  BY DEF Go
<1>3. BillOK(b)
  BY DEF BillsOK
<1>4. SumIn(b, "SOFT")' = SumIn(b, "SOFT") /\ SumIn(b, "HARD")' = SumIn(b, "HARD")
  BY <1>2 DEF SumIn, AmountIn
<1> QED BY <1>2, <1>3, <1>4, BillKept

\* A confirmed payment never takes a bill above its price.
LEMMA TakenIs ==
    ASSUME NEW v \in Visits, NEW p \in PayIns, NEW b \in Bills, v.order = shop_orders[b],
           v.price = price[b], Types, BillOK(b), shop_orders[b].status \notin Unused
    PROVE  LET t == shop_orders[b].payed_true + Taken(v, Amount[p]) IN
           /\ Taken(v, Amount[p]) \in Int /\ Taken(v, Amount[p]) >= 0
           /\ price[b] = 0 => Taken(v, Amount[p]) = Amount[p]
           /\ price[b] # 0 => t <= price[b]
           /\ t = price[b] \/ Taken(v, Amount[p]) = Amount[p]
<1>1. /\ price[b] \in Int /\ price[b] >= 0 /\ shop_orders[b].payed_true \in Int
      /\ shop_orders[b].payed_true >= 0
      /\ price[b] # 0 => shop_orders[b].payed_true < price[b]
  BY DEF Types, OrderRows, OrderRecord, BillOK, OpenOK
<1>2. Amount[p] \in Int /\ Amount[p] > 0 /\ TxFee \in Int /\ TxFee >= 0
  BY Consts
<1>3. CASE price[b] > 0 /\ OverPrice(v, Amount[p])
  <2>1. Taken(v, Amount[p]) = price[b] - shop_orders[b].payed_true
    BY <1>3 DEF Taken
  <2> QED BY <1>1, <1>2, <1>3, <2>1
<1>4. CASE ~ (price[b] > 0 /\ OverPrice(v, Amount[p]))
  <2>1. Taken(v, Amount[p]) = Amount[p]
    BY <1>4 DEF Taken
  <2>2. price[b] > 0 => 200 * price[b] >= 201 * (shop_orders[b].payed_true + Amount[p] + 2 * TxFee)
    BY <1>1, <1>2, <1>4 DEF OverPrice
  <2>3. price[b] > 0 => shop_orders[b].payed_true + Amount[p] <= price[b]
    BY <1>1, <1>2, <2>2
  <2> QED BY <1>1, <1>2, <2>1, <2>3
<1> QED BY <1>3, <1>4

\* The fields of the row that an open bill gets.
LEMMA NewRowIs ==
    ASSUME NEW v \in Visits, NEW new, NEW amo \in Int
    PROVE  LET n == NewRow(v, new, amo)
               o == v.order
               was == v.was
           IN
           /\ n.payed_soft = o.payed_soft - Part(was, "SOFT", amo) + Part(new, "SOFT", amo)
           /\ n.payed_hard = o.payed_hard - Part(was, "HARD", amo) + Part(new, "HARD", amo)
           /\ n.payed_true = o.payed_true + Part(new, "TRUE", Taken(v, amo))
           /\ n.status =
                IF v.price = 0 \/ v.price > AllPayed(n)
                THEN IF o.status = "NEW" THEN "FILL" ELSE o.status
                ELSE IF v.price <= n.payed_true THEN "CLOSED"
                ELSE IF v.price <= n.payed_true + n.payed_hard /\ o.status # "HARD"
                     THEN "HARD" ELSE "SOFT"
<1> DEFINE o == v.order
           was == v.was
           c == Counted(o, was, new, amo, Taken(v, amo))
           n == NewRow(v, new, amo)
           st == NewStatus(v.price, c, o.status)
<1>1. n = [c EXCEPT !.status = st]
  BY DEF NewRow, Sums, StatusOf
<1>2. /\ c.payed_soft = o.payed_soft - Part(was, "SOFT", amo) + Part(new, "SOFT", amo)
      /\ c.payed_hard = o.payed_hard - Part(was, "HARD", amo) + Part(new, "HARD", amo)
      /\ c.payed_true = o.payed_true + Part(new, "TRUE", Taken(v, amo))
      /\ c.status = IF o.status = "NEW" THEN "FILL" ELSE o.status
      /\ DOMAIN c = {"status", "payed_soft", "payed_hard", "payed_true"}
  BY DEF Counted
<1> HIDE DEF c, n
<1>3. /\ n.payed_soft = c.payed_soft /\ n.payed_hard = c.payed_hard
      /\ n.payed_true = c.payed_true /\ n.status = st
  BY <1>1, <1>2
<1>4. AllPayed(n) = AllPayed(c)
  BY <1>3 DEF AllPayed
<1>5. st = IF v.price = 0 \/ v.price > AllPayed(c) THEN c.status
           ELSE IF v.price <= c.payed_true THEN "CLOSED"
           ELSE IF v.price <= c.payed_true + c.payed_hard /\ o.status # "HARD"
                THEN "HARD" ELSE "SOFT"
  BY DEF NewStatus
<1> HIDE DEF st, o
<1>6. /\ n.payed_soft = o.payed_soft - Part(was, "SOFT", amo) + Part(new, "SOFT", amo)
      /\ n.payed_hard = o.payed_hard - Part(was, "HARD", amo) + Part(new, "HARD", amo)
      /\ n.payed_true = o.payed_true + Part(new, "TRUE", Taken(v, amo))
  BY <1>2, <1>3
<1>7. n.status =
        IF v.price = 0 \/ v.price > AllPayed(n)
        THEN IF o.status = "NEW" THEN "FILL" ELSE o.status
        ELSE IF v.price <= n.payed_true THEN "CLOSED"
        ELSE IF v.price <= n.payed_true + n.payed_hard /\ o.status # "HARD"
             THEN "HARD" ELSE "SOFT"
  BY <1>2, <1>3, <1>4, <1>5
<1> QED BY <1>6, <1>7 DEF n, o

\* Bills of other payments.
LEMMA CountOther ==
    ASSUME Types, Types', BillsOK, NEW w \in Workers, NEW p \in PayIns,
           NEW new \in Grades[p], Count(w, p, new), NEW b \in Bills \ crossed, b # BillOf[p]
    PROVE  BillOK(b)'
<1>1. /\ mixed' = mixed /\ price' = price
      /\ \A q \in PayIns \ {p} : pay_ins'[q] = pay_ins[q]
  BY CountRows DEF Count
<1>2. SumIn(b, "SOFT")' = SumIn(b, "SOFT") /\ SumIn(b, "HARD")' = SumIn(b, "HARD")
  BY <1>1, SumInMoves
<1>3. BillOK(b)
  BY DEF BillsOK
<1>4. shop_orders'[b] = shop_orders[b] /\ credited'[b] = credited[b]
  BY Consts DEF Count, CountOpen, CountLate, Types, OrderRows
<1> QED BY <1>1, <1>2, <1>3, <1>4, BillKept

\* A payment to a closed or expired bill goes back.
LEMMA CountLateBill ==
    ASSUME Types, BillsOK, NEW w \in Workers, NEW p \in PayIns, NEW new \in Grades[p],
           Count(w, p, new), CountLate(visit[w], p, new), BillOf[p] \notin crossed'
    PROVE  BillOK(BillOf[p])'
<1>1. /\ mixed' = mixed /\ UNCHANGED <<shop_orders, credited, price>>
      /\ visit[w].order.status \in Unused /\ crossed \subseteq crossed'
  BY DEF Count, CountLate
<1>2. BillOf[p] \in Bills /\ visit[w].order = shop_orders[BillOf[p]]
  BY Consts, FreshIs
<1>3. BillOK(BillOf[p]) /\ shop_orders[BillOf[p]].status \in Unused
  BY <1>1, <1>2 DEF BillsOK
<1> QED BY <1>1, <1>3 DEF BillOK, DoneOK

LEMMA CountOpenBill ==
    ASSUME Types, Types', BillsOK, NEW w \in Workers, NEW p \in PayIns,
           NEW new \in Grades[p], Count(w, p, new),
           CountOpen(visit[w], p, new, IF new = "INVALID" THEN -1 ELSE Amount[p]),
           BillOf[p] \notin crossed'
    PROVE  BillOK(BillOf[p])'
<1> DEFINE b == BillOf[p]
           v == visit[w]
           amo == IF new = "INVALID" THEN -1 ELSE Amount[p]
           o == shop_orders[b]
           n == NewRow(v, new, amo)
           was == pay_ins[p].status
           pr == price[b]
           A == Amount[p]
           soft == SumIn(b, "SOFT")
           hard == SumIn(b, "HARD")
<1>1. b \in Bills /\ A \in Int /\ A > 0 /\ amo \in Int /\ v \in Visits
      /\ new \in {"SOFT", "HARD", "TRUE", "INVALID"} /\ was \in {"NEW", "SOFT", "HARD"}
      /\ new # was /\ v.was = was
  BY Consts, CountIs, FreshIs
<1>2. BillOK(b) /\ v.order = o /\ v.price = pr /\ o.status \notin Unused
  <2>1. v.order = o /\ v.price = pr /\ crossed \subseteq crossed'
    BY FreshIs DEF Count
  <2> QED BY <1>1, <2>1 DEF BillsOK, CountOpen
<1>3. o \in OrderRecord /\ pr \in Int /\ credited[b] \in Int /\ Pending(b) \in Int
      /\ o.payed_soft \in Int /\ o.payed_hard \in Int /\ o.payed_true \in Int
      /\ soft \in Int /\ hard \in Int /\ soft >= 0 /\ hard >= 0
  BY <1>1, <1>2, OpenPending, SumInType DEF OrderRecord
<1>4. /\ shop_orders'[b] = n
      /\ credited'[b] = credited[b] + IF pr = 0 THEN Part(new, "TRUE", amo)
                                               ELSE Part(n.status, "CLOSED", pr)
      /\ pay_ins'[p].status = new
  <2>1. n \in OrderRecord /\ Written(o, o, n) = n
    BY <1>1, <1>3, NewRowType, WrittenIs
  <2>2. n.status = StatusOf(v, new, amo)
    BY DEF NewRow, Sums, Counted
  <2>3. /\ shop_orders' = [shop_orders EXCEPT ![b] = Written(o, v.order, n)]
        /\ credited' = [credited EXCEPT ![b] = credited[b] + Credit(v, new, amo)]
    BY Zenon DEF CountOpen, NewRow
  <2>5. Credit(v, new, amo) = IF v.price = 0 THEN Part(new, "TRUE", amo)
                              ELSE Part(n.status, "CLOSED", v.price)
    BY <2>2 DEF Credit
  <2>4. pay_ins'[p].status = new
    BY DEF CountOpen, Types, PayRows
  <2> HIDE DEF n, o, pr, amo
  <2> QED BY <1>1, <1>2, <2>1, <2>3, <2>4, <2>5 DEF Types, OrderRows
<1>5. price' = price /\ mixed' = mixed
      /\ \A q \in PayIns \ {p} : pay_ins'[q] = pay_ins[q]
  BY CountRows DEF Count
<1>6. /\ SumIn(b, "SOFT")' = soft + Part("SOFT", new, A) - Part("SOFT", was, A)
      /\ SumIn(b, "HARD")' = hard + Part("HARD", new, A) - Part("HARD", was, A)
  BY <1>4, <1>5, SumInMoves
<1>7. /\ n.payed_soft = o.payed_soft - Part(was, "SOFT", amo) + Part(new, "SOFT", amo)
      /\ n.payed_hard = o.payed_hard - Part(was, "HARD", amo) + Part(new, "HARD", amo)
      /\ n.payed_true = o.payed_true + Part(new, "TRUE", Taken(v, amo))
      /\ n.status = IF pr = 0 \/ pr > AllPayed(n)
                    THEN IF o.status = "NEW" THEN "FILL" ELSE o.status
                    ELSE IF pr <= n.payed_true THEN "CLOSED"
                    ELSE IF pr <= n.payed_true + n.payed_hard /\ o.status # "HARD"
                         THEN "HARD" ELSE "SOFT"
  <2> HIDE DEF n, o, pr
  <2> QED BY <1>1, <1>2, NewRowIs DEF n
<1> DEFINE T == Taken(v, A)
<1>8. /\ T \in Int /\ T >= 0 /\ (pr = 0 => T = A)
      /\ (pr # 0 => o.payed_true + T <= pr)
      /\ (o.payed_true + T = pr \/ T = A)
  BY <1>1, <1>2, TakenIs
<1>9. /\ o.payed_soft >= soft /\ o.payed_hard >= hard /\ pr >= 0 /\ o.payed_true >= 0
      /\ credited[b] >= 0
      /\ (pr = 0 => credited[b] = o.payed_true)
      /\ (pr # 0 => /\ o.payed_true < pr /\ pr <= o.payed_true + o.payed_hard + o.payed_soft
                    /\ (b \notin mixed => credited[b] = 0))
  BY <1>2 DEF BillOK, OpenOK, AllPayed
<1>10. AllPayed(n) = n.payed_true + n.payed_hard + n.payed_soft
  BY DEF AllPayed
<1> HIDE DEF b, o, n, was, pr, A, soft, hard, T, v
<1>11. /\ n.payed_soft \in Int /\ n.payed_hard \in Int /\ n.payed_true \in Int
       /\ n.payed_soft >= SumIn(b, "SOFT")' /\ n.payed_hard >= SumIn(b, "HARD")'
       /\ SumIn(b, "SOFT")' \in Nat /\ SumIn(b, "HARD")' \in Nat
  <2>1. SumIn(b, "SOFT")' \in Nat /\ SumIn(b, "HARD")' \in Nat
    BY <1>1, SumInType
  <2> QED BY <1>1, <1>3, <1>6, <1>7, <1>8, <1>9, <2>1 DEF Part, T, A
<1>12. /\ n.payed_true >= o.payed_true
       /\ pr = 0 => n.payed_true = o.payed_true + Part(new, "TRUE", amo)
       /\ pr # 0 => n.payed_true <= pr /\ pr <= AllPayed(n)
  <2>1. new = "TRUE" => amo = A /\ Taken(v, amo) = T
    BY DEF T, A
  <2>2. n.payed_true = o.payed_true + IF new = "TRUE" THEN T ELSE 0
    BY <1>1, <1>3, <1>7, <2>1 DEF Part
  <2>3. n.payed_true >= o.payed_true /\ (pr # 0 => n.payed_true <= pr)
        /\ (pr = 0 => n.payed_true = o.payed_true + Part(new, "TRUE", amo))
    BY <1>1, <1>3, <1>8, <1>9, <2>1, <2>2 DEF Part
  <2>4. ASSUME new # "TRUE"
        PROVE  n.payed_soft + n.payed_hard >= o.payed_soft + o.payed_hard
    <3>1. amo \in Int /\ amo = IF new = "INVALID" THEN -1 ELSE A
      BY <1>1 DEF A
    <3> HIDE DEF amo
    <3> QED BY <1>1, <1>3, <1>7, <2>4, <3>1 DEF Part
  <2>5. ASSUME new = "TRUE"
        PROVE  n.payed_soft + n.payed_hard + A >= o.payed_soft + o.payed_hard
    BY <1>1, <1>3, <1>7, <2>1, <2>5 DEF Part
  <2>6. pr # 0 => pr <= AllPayed(n)
    <3>1. CASE new # "TRUE"
      BY <1>3, <1>9, <1>10, <1>11, <2>2, <2>4, <3>1
    <3>2. CASE new = "TRUE" /\ T = A
      BY <1>1, <1>3, <1>9, <1>10, <1>11, <2>2, <2>5, <3>2
    <3>3. CASE new = "TRUE" /\ o.payed_true + T = pr
      BY <1>3, <1>8, <1>10, <1>11, <2>2, <3>3
    <3> QED BY <1>8, <3>1, <3>2, <3>3
  <2> QED BY <2>3, <2>6
<1>13. CASE pr = 0
  <2>1. n.status \notin Unused
    BY <1>2, <1>7, <1>13 DEF Unused, o
  <2>2. credited'[b] = n.payed_true
    BY <1>1, <1>3, <1>4, <1>9, <1>12, <1>13 DEF Part
  <2>3. OpenOK(b)'
    BY <1>4, <1>5, <1>11, <1>13, <2>2 DEF OpenOK, pr
  <2>4. n.payed_true >= 0
    BY <1>3, <1>9, <1>11, <1>12
  <2> QED BY <1>4, <1>5, <2>1, <2>2, <2>3, <2>4
          DEF BillOK, b
<1>14. CASE pr # 0 /\ pr <= n.payed_true
  <2>1. n.status = "CLOSED" /\ n.payed_true = pr
    BY <1>3, <1>7, <1>9, <1>11, <1>12, <1>10, <1>14
  <2>2. credited'[b] = credited[b] + pr
    BY <1>4, <1>14, <2>1 DEF Part
  <2>3. DoneOK(b)'
    BY <1>3, <1>4, <1>5, <1>9, <1>14, <2>1, <2>2 DEF DoneOK
  <2> QED BY <1>3, <1>4, <1>5, <1>9, <2>1, <2>2, <2>3
          DEF BillOK, b, Unused
<1>15. CASE pr # 0 /\ ~ (pr <= n.payed_true)
  <2>1. n.status \notin Unused
    BY <1>2, <1>7, <1>15 DEF Unused, o
  <2>2. credited'[b] = credited[b]
    BY <1>3, <1>4, <1>15, <2>1 DEF Part, Unused
  <2>3. n.payed_true < pr /\ pr <= AllPayed(n)
    BY <1>3, <1>11, <1>12, <1>15
  <2>4. OpenOK(b)'
    BY <1>4, <1>5, <1>9, <1>11, <1>15, <2>2, <2>3 DEF OpenOK, pr
  <2>5. n.payed_true >= 0
    BY <1>3, <1>9, <1>11, <1>12
  <2> QED BY <1>4, <1>5, <1>9, <2>1, <2>2, <2>4, <2>5
          DEF BillOK, b
<1> QED BY <1>13, <1>14, <1>15 DEF b

LEMMA CountBills ==
    ASSUME Types, Types', BillsOK, NEW w \in Workers, NEW p \in PayIns,
           NEW new \in Grades[p], Count(w, p, new)
    PROVE  BillsOK'
<1>1. crossed \subseteq crossed'
  BY DEF Count
<1>2. BillOf[p] \notin crossed' => BillOK(BillOf[p])'
  BY CountOpenBill, CountLateBill DEF Count
<1> QED BY <1>1, <1>2, CountOther DEF BillsOK

LEMMA NextBills == ASSUME Types, Types', BillsOK, [Next]_vars PROVE BillsOK'
<1>1. ASSUME NEW r \in Requests, BeginBet(r) \/ BeginGo(r) \/ BeginEnd(r) \/ End(r)
      PROVE  BillsOK'
  BY <1>1, BillsKept DEF BeginBet, BeginGo, BeginEnd, Begin, End, orderVars, ghosts
<1>2. ASSUME NEW w \in Workers, NEW p \in PayIns, NEW new \in Grades[p], Count(w, p, new)
      PROVE  BillsOK'
  BY <1>2, CountBills
<1>3. CASE Solve
  BY <1>3, BillsKept DEF Solve, orderVars, ghosts
<1>4. CASE UNCHANGED vars
  BY <1>4, BillsKept DEF vars, orderVars, ghosts
<1>5. ASSUME NEW w \in Workers, Abandon(w) PROVE BillsOK'
  BY <1>5, BillsKept DEF Abandon, orderVars, ghosts
<1> QED BY <1>1, <1>2, <1>3, <1>4, <1>5, GoBills, MakeBills, ReceiveBills, VisitBills DEF Next

-----------------------------------------------------------------------------
LEMMA NextSolved == ASSUME Types, SolvedOK, [Next]_vars PROVE SolvedOK'
<1>1. wagers_stack \in Nat /\ solves \in Nat
      /\ DOMAIN wager = {"status", "bill_ids", "winner_ids"}
  BY DEF Types, WagerRow, SolvedOK
<1>2. ASSUME NEW r \in Requests, BeginBet(r) \/ BeginGo(r) \/ BeginEnd(r) PROVE SolvedOK'
  BY <1>2 DEF BeginBet, BeginGo, BeginEnd, Begin, SolvedOK, wagerVars, solveVars, ghosts
<1>3. ASSUME NEW r \in Requests, Go(r) PROVE SolvedOK'
  <2>1. wager'.status = "RUN" /\ UNCHANGED <<wagers_stack, solves>> /\ raced \subseteq raced'
        /\ ("go" \notin raced' => wager.status = "PAY")
    BY <1>1, <1>3 DEF Go, Races, solveVars
  <2> QED BY <2>1 DEF SolvedOK
<1>4. ASSUME NEW r \in Requests, End(r) PROVE SolvedOK'
  <2>1. /\ wager'.status = "END" /\ wagers_stack' = wagers_stack + 1 /\ solves' = solves
        /\ raced \subseteq raced' /\ ("end" \notin raced' => wager.status = "RUN")
    BY <1>1, <1>4 DEF End, Races, solveVars
  <2> QED BY <1>1, <2>1 DEF SolvedOK
<1>5. ASSUME NEW r \in Requests, NEW b \in Bills, MakeBetBill(r, b) PROVE SolvedOK'
  <2>1. /\ wager'.status = wager.status /\ UNCHANGED <<wagers_stack, solves>>
        /\ raced \subseteq raced'
    BY <1>1, <1>5 DEF MakeBetBill, Races, solveVars
  <2> QED BY <2>1 DEF SolvedOK
<1>6. ASSUME NEW w \in Workers, NEW p \in PayIns,
             Visit(w, p) \/ \E new \in Grades[p] : Count(w, p, new)
      PROVE  SolvedOK'
  BY <1>6 DEF Visit, Count, SolvedOK, wagerVars, solveVars, ghosts
<1>9. ASSUME NEW p \in PayIns, Receive(p) PROVE SolvedOK'
  BY <1>9 DEF Receive, SolvedOK, wagerVars, solveVars, ghosts
<1>10. ASSUME NEW w \in Workers, Abandon(w) PROVE SolvedOK'
  BY <1>10 DEF Abandon, SolvedOK, wagerVars, solveVars, ghosts
<1>7. CASE Solve
  <2>1. /\ wagers_stack' = wagers_stack - 1 /\ solves' = solves + 1
        /\ wagers_stack > 0 /\ UNCHANGED <<wager, raced>> /\ wager.status = "END"
    BY <1>7 DEF Solve, Ready, ghosts
  <2> QED BY <1>1, <2>1 DEF SolvedOK
<1>8. CASE UNCHANGED vars
  BY <1>8 DEF vars, wagerVars, solveVars, ghosts, SolvedOK
<1> QED BY <1>2, <1>3, <1>4, <1>5, <1>6, <1>7, <1>8, <1>9, <1>10 DEF Next

LEMMA NextListed ==
    ASSUME Types, BetsListedUnlessRaced, [Next]_vars PROVE BetsListedUnlessRaced'
<1> USE DEF BetsListedUnlessRaced
<1>1. DOMAIN wager = {"status", "bill_ids", "winner_ids"}
      /\ shop_orders \in [Bills -> OrderRecord]
  BY DEF Types, WagerRow, OrderRows
<1>2. ASSUME UNCHANGED <<wager, raced, shop_orders, price>> PROVE BetsListedUnlessRaced'
  BY <1>2 DEF Made
<1>3. ASSUME NEW r \in Requests, BeginBet(r) \/ BeginGo(r) \/ BeginEnd(r)
      PROVE  BetsListedUnlessRaced'
  BY <1>2, <1>3 DEF BeginBet, BeginGo, BeginEnd, Begin, wagerVars, orderVars, ghosts
<1>4. ASSUME NEW r \in Requests, Go(r) PROVE BetsListedUnlessRaced'
  <2> DEFINE sum(b) == AllPayed(shop_orders[b])
  <2>1. /\ wager'.status = "RUN" /\ wager'.bill_ids = wager.bill_ids /\ raced \subseteq raced'
        /\ ("go" \notin raced' => wager.bill_ids = req[r].ids)
    BY <1>1, <1>4 DEF Go, Races
  <2>2. \A b \in Bills : b \in req[r].ids =>
            price'[b] = IF sum(b) # 0 THEN sum(b) ELSE 1
    BY <1>4 DEF Go
  <2>3. req[r].ids \subseteq Made
    BY DEF Types, ReqRows
  <2>4. ASSUME NEW b \in Bills PROVE shop_orders'[b].status # "NONE" <=> b \in Made
    <3>1. CASE b \notin req[r].ids
      BY <1>4, <3>1 DEF Go, Made
    <3>2. CASE b \in req[r].ids
      <4>1. shop_orders[b].status # "NONE"
        BY <2>3, <3>2 DEF Made
      <4>2. shop_orders'[b].status \in {"EXPIRED", "CLOSED", shop_orders[b].status}
        BY <1>1, <1>4, <3>2 DEF Go, OrderRecord
      <4> QED BY <4>1, <4>2 DEF Made
    <3> QED BY <3>1, <3>2
  <2>5. Made' = Made
    BY <2>4 DEF Made
  <2> HIDE DEF sum
  <2>6. ASSUME raced' = {} PROVE \A b \in Made : price'[b] # 0
    <3>1. raced = {} /\ Made = req[r].ids
      BY <2>1, <2>6
    <3> QED BY <2>2, <3>1 DEF Made
  <2> QED BY <2>1, <2>5, <2>6
<1>5. ASSUME NEW r \in Requests, End(r) PROVE BetsListedUnlessRaced'
  <2>1. /\ wager'.status = "END" /\ wager'.bill_ids = wager.bill_ids /\ raced \subseteq raced'
        /\ ("end" \notin raced' => wager.status = "RUN")
        /\ UNCHANGED <<shop_orders, price>>
    BY <1>1, <1>5 DEF End, Races, orderVars
  <2> QED BY <2>1 DEF Made
<1>6. ASSUME NEW r \in Requests, NEW b \in Bills, MakeBetBill(r, b)
      PROVE  BetsListedUnlessRaced'
  <2>1. /\ wager'.bill_ids = req[r].ids \cup {b} /\ wager'.status = wager.status
        /\ raced \subseteq raced'
        /\ ("bet" \notin raced' => wager.status = "PAY" /\ wager.bill_ids = req[r].ids)
        /\ shop_orders' = [shop_orders EXCEPT ![b].status = "NEW"] /\ price' = price
    BY <1>1, <1>6 DEF MakeBetBill, Races
  <2>2. Made' = Made \cup {b}
    BY <1>1, <2>1 DEF Made, OrderRecord
  <2> QED BY <2>1, <2>2
<1>7. ASSUME NEW p \in PayIns, Receive(p) \/ \E w \in Workers : Visit(w, p)
      PROVE  BetsListedUnlessRaced'
  BY <1>2, <1>7 DEF Receive, Visit, wagerVars, orderVars, ghosts
<1>11. ASSUME NEW w \in Workers, Abandon(w) PROVE BetsListedUnlessRaced'
  BY <1>2, <1>11 DEF Abandon, wagerVars, orderVars, ghosts
<1>8. ASSUME NEW w \in Workers, NEW p \in PayIns, NEW new \in Grades[p], Count(w, p, new)
      PROVE  BetsListedUnlessRaced'
  <2>1. UNCHANGED <<wager, raced, price>> /\ Made \subseteq Made'
    BY <1>8, CountRows DEF Count, wagerVars
  <2>2. Made' \subseteq Made
    <3>1. \A b \in Bills \ {BillOf[p]} : shop_orders'[b] = shop_orders[b]
      BY <1>1, <1>8 DEF Count, CountOpen, CountLate
    <3>2. BillOf[p] \in Made
      BY <1>8, CountIs
    <3> QED BY <3>1, <3>2 DEF Made
  <2> QED BY <2>1, <2>2
<1>9. CASE Solve
  BY <1>2, <1>9 DEF Solve, orderVars, ghosts
<1>10. CASE UNCHANGED vars
  BY <1>2, <1>10 DEF vars, wagerVars, orderVars, ghosts
<1> QED BY <1>3, <1>4, <1>5, <1>6, <1>7, <1>8, <1>9, <1>10, <1>11 DEF Next

\* What was credited for a bill is never taken back, as long as no bill is
\* counted with a row that was out of date.
LEMMA CreditedGrows ==
    ASSUME Types, BillsOK, crossed' = {}, [Next]_vars, NEW b \in Bills
    PROVE  credited'[b] >= credited[b]
<1>1. credited \in [Bills -> Int] /\ credited[b] \in Int
  BY DEF Types, OrderRows
<1>2. ASSUME NEW w \in Workers, NEW p \in PayIns, NEW new \in Grades[p], Count(w, p, new)
      PROVE  credited'[b] >= credited[b]
  <2> DEFINE amo == IF new = "INVALID" THEN -1 ELSE Amount[p]
             v == visit[w]
  <2>1. CASE CountLate(v, p, new)
    BY <1>1, <2>1 DEF CountLate
  <2>2. CASE CountOpen(v, p, new, amo)
    <3> DEFINE x == Credit(v, new, amo)
    <3>1. credited' = [credited EXCEPT ![BillOf[p]] = credited[BillOf[p]] + x]
      BY <2>2, Zenon DEF CountOpen
    <3>2. /\ BillOf[p] \in Bills /\ v \in Visits
          /\ new = "TRUE" => amo \in Int /\ amo >= 0
      BY <1>2, Consts, CountIs
    <3>3. /\ v.order = shop_orders[BillOf[p]] /\ v.price = price[BillOf[p]]
          /\ shop_orders[BillOf[p]].status \notin Unused /\ BillOf[p] \notin crossed
      <4>1. v.order = shop_orders[BillOf[p]] /\ v.price = price[BillOf[p]]
            /\ crossed \subseteq crossed'
        BY <1>2, FreshIs DEF Count
      <4> QED BY <2>2, <4>1 DEF CountOpen
    <3>4. v.price \in Int /\ v.price >= 0
      BY <3>2, <3>3 DEF BillsOK, BillOK, OpenOK, Types, OrderRows
    <3>5. x \in Int /\ x >= 0
      <4> HIDE DEF v, amo
      <4> QED BY <3>2, <3>4 DEF Credit, Part
    <3> HIDE DEF x
    <3> QED BY <1>1, <3>1, <3>5
  <2> QED BY <1>2, <2>1, <2>2 DEF Count
<1>3. CASE UNCHANGED credited
  BY <1>1, <1>3
<1> QED BY <1>2, <1>3 DEF Next, BeginBet, BeginGo, BeginEnd, Begin, Go, End, MakeBetBill,
           Receive, Visit, Abandon, Solve, vars

LEMMA NextPots ==
    ASSUME IInv, Types', BillsOK', [Next]_vars
    PROVE  PotsOK'
<1>1. /\ Types /\ BillsOK /\ SolvedOK /\ BetsListedUnlessRaced
      /\ pots \in Int /\ (solves = 0 => pots = 0) /\ PotBacked
  BY DEF IInv, PotsOK
<1>2. raced \subseteq raced' /\ crossed \subseteq crossed'
  BY DEF Next, BeginBet, BeginGo, BeginEnd, Begin, Go, End, MakeBetBill, Races,
         Receive, Visit, Count, Abandon, Solve, vars, ghosts
<1>3. wager.bill_ids \in SUBSET Bills /\ IsFiniteSet(wager.bill_ids)
      /\ wager'.bill_ids \in SUBSET Bills /\ IsFiniteSet(wager'.bill_ids)
  BY <1>1, Consts, FS_Subset DEF Types, WagerRow
<1>4. IntOn(credited, wager.bill_ids) /\ IntOn(credited', wager.bill_ids)
  BY <1>1, <1>3 DEF Types, OrderRows, IntOn
<1>5. CASE Solve
  <2> DEFINE trues == [b \in Bills |-> shop_orders[b].payed_true]
  <2>1. /\ Ready /\ wagers_stack > 0 /\ solves' = solves + 1
        /\ pots' = pots + SumFunctionOnSet(trues, wager.bill_ids)
        /\ UNCHANGED <<wager, credited, raced, crossed, shop_orders>>
    BY <1>5 DEF Solve, TotalTrue, orderVars, ghosts
  <2>2. IntOn(trues, wager.bill_ids)
    BY <1>1, <1>3 DEF Types, OrderRows, OrderRecord, IntOn
  <2>3. SumFunctionOnSet(trues, wager.bill_ids) \in Int
    <3> HIDE DEF trues
    <3> QED BY <1>3, <2>2, SumType
  <2>4. pots' \in Int /\ solves' # 0
    BY <1>1, <2>1, <2>3 DEF SolvedOK
  <2>5. ASSUME raced = {}, crossed = {}
        PROVE  pots' <= SumFunctionOnSet(credited, wager.bill_ids)
    <3>1. pots = 0
      BY <1>1, <2>1, <2>5 DEF SolvedOK, Types, WagerRow
    <3>2. ASSUME NEW b \in wager.bill_ids PROVE trues[b] <= credited[b]
      <4>1. b \in Made /\ b \in Bills /\ Pending(b) = 0 /\ price[b] # 0
        BY <1>1, <2>1, <2>5 DEF Ready, BetsListedUnlessRaced, Made
      <4>2. BillOK(b)
        BY <1>1, <2>5, <4>1 DEF BillsOK
      <4>3. shop_orders[b].status \in Unused
        BY <1>1, <4>1, <4>2, OpenPending
      <4> QED BY <4>1, <4>2, <4>3 DEF BillOK, DoneOK
    <3> HIDE DEF trues
    <3>3. SumFunctionOnSet(trues, wager.bill_ids) <= SumFunctionOnSet(credited, wager.bill_ids)
      BY <1>3, <1>4, <2>2, <3>2, SumMonotone
    <3> QED BY <2>1, <2>3, <3>1, <3>3
  <2> QED BY <2>1, <2>4, <2>5 DEF PotsOK, PotBacked
<1>6. ASSUME UNCHANGED <<pots, solves>>, wager'.bill_ids = wager.bill_ids
      PROVE  PotsOK'
  <2>1. ASSUME raced' = {}, crossed' = {}
        PROVE  pots <= SumFunctionOnSet(credited', wager.bill_ids)
    <3>1. \A b \in wager.bill_ids : credited[b] <= credited'[b]
      BY <1>1, <1>3, <2>1, CreditedGrows DEF Types, OrderRows
    <3>2. SumFunctionOnSet(credited, wager.bill_ids) <= SumFunctionOnSet(credited', wager.bill_ids)
      BY <1>3, <1>4, <3>1, SumMonotone
    <3>3. /\ SumFunctionOnSet(credited, wager.bill_ids) \in Int
          /\ SumFunctionOnSet(credited', wager.bill_ids) \in Int
      BY <1>3, <1>4, SumType
    <3> QED BY <1>1, <1>2, <2>1, <3>2, <3>3 DEF PotBacked
  <2> QED BY <1>1, <1>2, <1>6, <2>1 DEF PotsOK, PotBacked
<1>7. ASSUME NEW r \in Requests, NEW b \in Bills, MakeBetBill(r, b) PROVE PotsOK'
  <2>1. /\ UNCHANGED <<pots, solves>>
        /\ ("bet" \notin raced' => wager.status = "PAY")
    BY <1>7 DEF MakeBetBill, Races, solveVars
  <2>2. ASSUME raced' = {}, crossed' = {}
        PROVE  pots <= SumFunctionOnSet(credited', wager'.bill_ids)
    <3>1. pots = 0
      BY <1>1, <1>2, <2>1, <2>2 DEF SolvedOK, Types, WagerRow
    <3>2. \A c \in wager'.bill_ids : credited'[c] \in Nat
      BY <1>3, <2>2 DEF BillsOK, BillOK, Types, OrderRows
    <3>3. SumFunctionOnSet(credited', wager'.bill_ids) \in Nat
      BY <1>3, <3>2, SumNat
    <3> QED BY <3>1, <3>3
  <2> QED BY <1>1, <2>1, <2>2 DEF PotsOK, PotBacked
<1>8. DOMAIN wager = {"status", "bill_ids", "winner_ids"}
  BY <1>1 DEF Types, WagerRow
<1>9. CASE Solve \/ (\E r \in Requests, b \in Bills : MakeBetBill(r, b))
           \/ (UNCHANGED <<pots, solves>> /\ wager'.bill_ids = wager.bill_ids)
  BY <1>5, <1>6, <1>7, <1>9
<1> QED BY <1>8, <1>9 DEF Next, BeginBet, BeginGo, BeginEnd, Begin, Go, End,
           Receive, Visit, Count, Abandon, vars, wagerVars, solveVars

LEMMA InitIInv == Init => IInv
<1> SUFFICES ASSUME Init PROVE IInv
  OBVIOUS
<1>1. SolvedOK /\ BetsListedUnlessRaced
  BY DEF Init, SolvedOK, BetsListedUnlessRaced, Made, NoOrder
<1>2. PotsOK
  BY SumEmpty DEF Init, PotsOK, PotBacked
<1> QED BY <1>1, <1>2, InitTypes, InitBills DEF IInv

LEMMA NextIInv == ASSUME IInv, [Next]_vars PROVE IInv'
<1>1. Types' /\ SolvedOK' /\ BetsListedUnlessRaced'
  BY NextTypes, NextSolved, NextListed DEF IInv
<1>2. BillsOK'
  BY <1>1, NextBills DEF IInv
<1> QED BY <1>1, <1>2, NextPots DEF IInv

LEMMA Invariance == Spec => []IInv
BY InitIInv, NextIInv, PTL DEF Spec

\* SolvedOnceUnlessRaced: unless go or end race, a wager is solved once.
THEOREM SolvedOnce == Spec => []SolvedOnceUnlessRaced
<1>1. IInv => SolvedOnceUnlessRaced
  BY DEF IInv, SolvedOK, SolvedOnceUnlessRaced
<1> QED BY Invariance, <1>1, PTL

\* BetsListedUnlessRaced: unless requests race, all bills that were made are
\* conditions of the wager, with a price once it runs.
THEOREM BetsListed == Spec => []BetsListedUnlessRaced
<1>1. IInv => BetsListedUnlessRaced
  BY DEF IInv
<1> QED BY Invariance, <1>1, PTL

\* CreditedOnce: a shop is credited no more than was paid to the bill, unless
\* go found the bill half confirmed, or a row out of date was counted with.
THEOREM CreditedNoMore == Spec => []CreditedOnce
<1>1. IInv => CreditedOnce
  <2> SUFFICES ASSUME IInv, NEW b \in Bills \ (mixed \cup crossed)
               PROVE  credited[b] <= shop_orders[b].payed_true
    BY DEF CreditedOnce
  <2>1. BillOK(b) /\ credited[b] \in Int /\ price[b] \in Int
        /\ shop_orders[b].payed_true \in Int
    BY DEF IInv, BillsOK, Types, OrderRows, OrderRecord
  <2>2. CASE shop_orders[b].status \in Unused
    BY <2>1, <2>2 DEF BillOK, DoneOK
  <2>3. CASE shop_orders[b].status \notin Unused
    BY <2>1, <2>3 DEF BillOK, OpenOK
  <2> QED BY <2>2, <2>3
<1> QED BY Invariance, <1>1, PTL

\* PotBacked: what solve_one takes from the kept balance was credited for the
\* conditions of the wager before.
THEOREM PotIsBacked == Spec => []PotBacked
<1>1. IInv => PotBacked
  BY DEF IInv, PotsOK
<1> QED BY Invariance, <1>1, PTL

-----------------------------------------------------------------------------
(* The shares of the winners.                                               *)

\* As long as no payment is first counted after go, a bill was paid no less
\* than its confirmed payments; its price leaves room for those that are not
\* confirmed yet.
PaidOK(b) ==
    LET s == shop_orders[b] IN
    /\ SumIn(b, "TRUE") <= s.payed_true
    /\ s.status \notin Unused /\ price[b] # 0 =>
        s.payed_true + SumIn(b, "SOFT") + SumIn(b, "HARD") <= price[b]

SharesOK ==
    /\ DOMAIN won = PayIns
    /\ solves = 0 => \A p \in PayIns : won[p] = 0
    /\ \A b \in Bills : price[b] # 0 => wager.status # "PAY"
    /\ late = {} => \A b \in Bills \ crossed : PaidOK(b)
    /\ PotCovered

\* Shares rounded down: n shares of one winner among n fit in the pot.
LEMMA OneWinner ==
    ASSUME NEW P, IsFiniteSet(P), NEW sh, NEW amt, NEW n \in Nat, NEW t \in Nat,
           NEW pot \in Nat, t > 0,
           \A p \in P : sh[p] \in Nat /\ amt[p] \in Nat /\ (n * t) * sh[p] <= pot * amt[p],
           SumFunctionOnSet(amt, P) <= t
    PROVE  n * SumFunctionOnSet(sh, P) <= pot
<1> DEFINE S == SumFunctionOnSet(sh, P)
           A == SumFunctionOnSet(amt, P)
           nts == [p \in P |-> (n * t) * sh[p]]
           pas == [p \in P |-> pot * amt[p]]
<1>1. S \in Nat /\ A \in Nat
  BY SumNat
<1>2. n * t \in Int /\ IntOn(sh, P) /\ IntOn(amt, P) /\ IntOn(nts, P) /\ IntOn(pas, P)
  BY DEF IntOn
<1>3. SumFunctionOnSet(nts, P) = (n * t) * S
  <2>1. \A p \in P : nts[p] = (n * t) * sh[p]
    OBVIOUS
  <2> HIDE DEF nts
  <2> QED BY <1>2, <2>1, SumTimes
<1>4. SumFunctionOnSet(pas, P) = pot * A
  <2>1. \A p \in P : pas[p] = pot * amt[p]
    OBVIOUS
  <2> HIDE DEF pas
  <2> QED BY <1>2, <2>1, SumTimes
<1>5. SumFunctionOnSet(nts, P) <= SumFunctionOnSet(pas, P)
  <2>1. \A p \in P : nts[p] <= pas[p]
    OBVIOUS
  <2> HIDE DEF nts, pas
  <2> QED BY <1>2, <2>1, SumMonotone
<1> HIDE DEF S, A, nts, pas
<1>6. (n * t) * S <= pot * A /\ A <= t
  BY <1>3, <1>4, <1>5 DEF A
<1>7. pot * A <= pot * t
  BY <1>1, <1>6
<1>8. (n * t) * S = t * (n * S) /\ pot * t = t * pot
  BY <1>1
<1> DEFINE x == n * S
<1>9. x \in Nat /\ t * x <= t * pot
  BY <1>1, <1>6, <1>7, <1>8
<1> HIDE DEF x
<1>10. x <= pot
  <2> SUFFICES ASSUME x >= pot + 1 PROVE FALSE
    BY <1>9
  <2>1. t * x >= t * (pot + 1) /\ t * (pot + 1) = t * pot + t
    BY <1>9
  <2> QED BY <1>9, <2>1
<1> QED BY <1>10 DEF x, S

\* The shares of all winners fit in it.
LEMMA AllWinners ==
    ASSUME NEW P, IsFiniteSet(P), NEW W, IsFiniteSet(W), NEW bill, NEW sh, NEW pot \in Nat,
           \A p \in P : sh[p] \in Nat /\ (sh[p] # 0 => bill[p] \in W),
           NEW at, \A b \in W : \A p \in P : at[b][p] = IF bill[p] = b THEN sh[p] ELSE 0,
           \A b \in W : Cardinality(W) * SumFunctionOnSet(at[b], P) <= pot
    PROVE  SumFunctionOnSet(sh, P) <= pot
<1> DEFINE n == Cardinality(W)
           of(V) == [p \in P |-> IF bill[p] \in V THEN sh[p] ELSE 0]
           Sum(f) == SumFunctionOnSet(f, P)
           Bad == {V \in SUBSET W : ~ (n * Sum(of(V)) <= Cardinality(V) * pot)}
<1>1. n \in Nat
  BY FS_CardinalityType
<1>2. \A V : Sum(of(V)) \in Nat
  <2> SUFFICES ASSUME NEW V PROVE Sum(of(V)) \in Nat
    OBVIOUS
  <2>1. \A p \in P : of(V)[p] \in Nat
    OBVIOUS
  <2> HIDE DEF of
  <2> QED BY <2>1, SumNat
<1>3. \A b \in W : Sum(at[b]) \in Nat
  <2> SUFFICES ASSUME NEW b \in W PROVE Sum(at[b]) \in Nat
    OBVIOUS
  <2>1. \A p \in P : at[b][p] \in Nat
    OBVIOUS
  <2> QED BY <2>1, SumNat
<1>4. Bad = {}
  <2> SUFFICES ASSUME Bad # {} PROVE FALSE
    OBVIOUS
  <2>1. PICK V \in Bad : \A v \in Bad : v \subseteq V => v = V
    <3>1. Bad \in SUBSET (SUBSET W)
      OBVIOUS
    <3> HIDE DEF Bad
    <3> QED BY <3>1, Smallest
  <2>2. IsFiniteSet(V) /\ Cardinality(V) \in Nat
    BY FS_Subset, FS_CardinalityType
  <2>3. V # {}
    <3> SUFFICES ASSUME V = {} PROVE FALSE
      OBVIOUS
    <3>1. \A p \in P : of(V)[p] = 0
      OBVIOUS
    <3>2. Sum(of(V)) = 0
      <4> HIDE DEF of
      <4> QED BY <3>1, SumZero
    <3>3. n * 0 <= 0 * pot
      BY <1>1
    <3> QED BY <2>1, <3>2, <3>3, FS_EmptySet
  <2>4. PICK b \in V : TRUE
    BY <2>3
  <2> DEFINE U == V \ {b}
  <2>5. Cardinality(V) = Cardinality(U) + 1 /\ Cardinality(U) \in Nat
    BY <2>2, <2>4, FS_RemoveElement, FS_Subset, FS_CardinalityType
  <2>6. n * Sum(of(U)) <= Cardinality(U) * pot
    <3>1. U \in SUBSET W /\ U \subseteq V /\ U # V
      BY <2>4
    <3> QED BY <2>1, <3>1
  <2>7. Sum(of(V)) = Sum(of(U)) + Sum(at[b])
    <3>1. IntOn(of(U), P) /\ IntOn(at[b], P)
      BY DEF IntOn
    <3>2. \A p \in P : of(V)[p] = of(U)[p] + at[b][p]
      OBVIOUS
    <3> HIDE DEF of, U
    <3> QED BY <3>1, <3>2, SumPlus
  <2>8. n * Sum(at[b]) <= pot
    OBVIOUS
  <2>9. n * Sum(of(V)) <= Cardinality(V) * pot
    <3> DEFINE x == Sum(of(U))
               y == Sum(at[b])
               c == Cardinality(U)
    <3>1. x \in Nat /\ y \in Nat /\ c \in Nat
      BY <1>2, <1>3, <2>5
    <3> HIDE DEF x, y, c
    <3>2. n * (x + y) = n * x + n * y /\ (c + 1) * pot = c * pot + pot
      BY <1>1, <3>1
    <3>3. n * x <= c * pot /\ n * y <= pot
      BY <2>6, <2>8 DEF x, y, c
    <3>4. n * x \in Int /\ n * y \in Int /\ c * pot \in Int
      BY <1>1, <3>1
    <3>5. n * (x + y) <= (c + 1) * pot
      BY <3>2, <3>3, <3>4
    <3> QED BY <2>5, <2>7, <3>5 DEF x, y, c
  <2> QED BY <2>1, <2>9
<1>5. n * Sum(of(W)) <= n * pot
  BY <1>4
<1>6. Sum(sh) = Sum(of(W))
  <2>1. IntOn(sh, P) /\ \A p \in P : sh[p] = of(W)[p]
    BY DEF IntOn
  <2> HIDE DEF of
  <2> QED BY <2>1, SumSame
<1>7. CASE W = {}
  <2>1. Sum(sh) = 0
    BY <1>7, SumZero
  <2> QED BY <2>1
<1>8. CASE W # {}
  <2>1. n > 0
    BY <1>1, <1>8, FS_EmptySet
  <2> DEFINE x == Sum(of(W))
  <2>2. x \in Nat /\ n * x <= n * pot
    BY <1>2, <1>5
  <2> HIDE DEF x, n
  <2>3. x <= pot
    <3> SUFFICES ASSUME x >= pot + 1 PROVE FALSE
      BY <2>2
    <3>1. n * x >= n * (pot + 1) /\ n * (pot + 1) = n * pot + n
      BY <1>1, <2>2
    <3> QED BY <1>1, <2>1, <2>2, <3>1
  <2> QED BY <1>6, <2>3 DEF x
<1> QED BY <1>7, <1>8

LEMMA InitShares == Init => SharesOK
<1> SUFFICES ASSUME Init PROVE SharesOK
  OBVIOUS
<1>1. ASSUME NEW b \in Bills, NEW st \in {"SOFT", "HARD", "TRUE"} PROVE SumIn(b, st) = 0
  <2>1. \A p \in PayIns : AmountIn(b, st)[p] = 0
    BY DEF AmountIn, Init
  <2> QED BY <2>1, SumZero, Consts DEF SumIn
<1>2. \A b \in Bills : PaidOK(b)
  BY <1>1 DEF Init, PaidOK, NoOrder
<1>3. PotCovered
  <2>1. \A p \in PayIns : won[p] = 0
    BY DEF Init
  <2>2. SumFunctionOnSet(won, PayIns) = 0
    BY <2>1, SumZero, Consts
  <2> QED BY <2>2 DEF Init, PotCovered
<1> QED BY <1>2, <1>3 DEF Init, SharesOK

LEMMA PaidKept ==
    ASSUME NEW b \in Bills, PaidOK(b), shop_orders'[b] = shop_orders[b], price'[b] = price[b],
           \A st \in {"SOFT", "HARD", "TRUE"} : SumIn(b, st)' = SumIn(b, st)
    PROVE  PaidOK(b)'
BY DEF PaidOK

LEMMA GoPaid ==
    ASSUME Types, BillsOK, NEW r \in Requests, Go(r), NEW b \in Bills \ crossed, PaidOK(b)
    PROVE  PaidOK(b)'
<1> DEFINE s == shop_orders[b]
           sum == AllPayed(s)
<1>1. UNCHANGED pay_ins /\ b \notin crossed
  BY DEF Go
<1>2. \A st \in {"SOFT", "HARD", "TRUE"} : SumIn(b, st)' = SumIn(b, st)
  BY <1>1 DEF SumIn, AmountIn
<1>3. CASE b \notin req[r].ids
  <2>1. shop_orders'[b] = shop_orders[b] /\ price'[b] = price[b]
    BY <1>3 DEF Go
  <2> QED BY <1>2, <2>1, PaidKept
<1>4. CASE b \in req[r].ids
  <2>1. /\ price'[b] = IF sum # 0 THEN sum ELSE 1
        /\ shop_orders'[b] = IF sum = 0 THEN [s EXCEPT !.status = "EXPIRED"]
                             ELSE IF Pending(b) = 0 THEN [s EXCEPT !.status = "CLOSED"]
                             ELSE s
    BY <1>4 DEF Go
  <2>2. s \in OrderRecord /\ BillOK(b)
    BY <1>1 DEF BillsOK, Types, OrderRows
  <2>3. shop_orders'[b].payed_true = s.payed_true
    BY <2>1, <2>2 DEF OrderRecord
  <2>4. ASSUME shop_orders'[b].status \notin Unused
        PROVE  s.payed_true + SumIn(b, "SOFT") + SumIn(b, "HARD") <= price'[b]
    <3>1. s.status \notin Unused /\ price'[b] = sum
      BY <2>1, <2>2, <2>4 DEF OrderRecord, Unused
    <3>2. s.payed_soft >= SumIn(b, "SOFT") /\ s.payed_hard >= SumIn(b, "HARD")
      BY <2>2, <3>1 DEF BillOK, OpenOK
    <3>3. s.payed_soft \in Int /\ s.payed_hard \in Int /\ s.payed_true \in Int
          /\ SumIn(b, "SOFT") \in Int /\ SumIn(b, "HARD") \in Int
      BY <2>2, SumInType DEF OrderRecord
    <3> QED BY <3>1, <3>2, <3>3 DEF AllPayed
  <2> QED BY <1>2, <2>3, <2>4 DEF PaidOK
<1> QED BY <1>3, <1>4

LEMMA CountPaid ==
    ASSUME IInv, Types', SharesOK, NEW w \in Workers, NEW p \in PayIns,
           NEW new \in Grades[p], Count(w, p, new), late' = {}, NEW b \in Bills \ crossed'
    PROVE  PaidOK(b)'
<1> DEFINE o == shop_orders[b]
           amo == IF new = "INVALID" THEN -1 ELSE Amount[p]
           v == visit[w]
           n == NewRow(v, new, amo)
           was == pay_ins[p].status
           A == Amount[p]
<1>1. PaidOK(b) /\ BillOK(b) /\ Types /\ (v.was = "NEW" => price[b] = 0)
  <2>1. late = {} /\ (v.was = "NEW" => wager.status = "PAY") /\ b \notin crossed
    BY DEF Count
  <2> QED BY <2>1 DEF SharesOK, IInv, BillsOK
<1>2. /\ price' = price /\ \A q \in PayIns \ {p} : pay_ins'[q] = pay_ins[q]
      /\ pay_ins'[p].status = new \/ (new = "TRUE" /\ pay_ins'[p].status = "RETURNED")
  BY <1>1, CountRows
<1>3. v \in Visits /\ new \in {"SOFT", "HARD", "TRUE", "INVALID"}
  BY <1>1, CountIs
<1>4. CASE b # BillOf[p]
  <2>1. \A st \in {"SOFT", "HARD", "TRUE"} : SumIn(b, st)' = SumIn(b, st)
    BY <1>1, <1>2, <1>4, SumInMoves
  <2>2. shop_orders'[b] = shop_orders[b]
    BY <1>1, <1>4, Consts DEF Count, CountOpen, CountLate, Types, OrderRows
  <2> QED BY <1>1, <1>2, <2>1, <2>2, PaidKept
<1>5. CASE b = BillOf[p]
  <2>1. /\ v.order = o /\ v.price = price[b] /\ v.was = was
        /\ was \in {"NEW", "SOFT", "HARD"} /\ new # was /\ ~ (was = "HARD" /\ new = "SOFT")
    BY <1>1, <1>5, FreshIs
  <2>2. \A st : SumIn(b, st)' = SumIn(b, st) + Part(st, pay_ins'[p].status, A) - Part(st, was, A)
    BY <1>1, <1>2, <1>5, SumInMoves
  <2>3. \A st : SumIn(b, st) \in Nat /\ SumIn(b, st)' \in Nat
    BY SumInType
  <2>4. A \in Int /\ A > 0 /\ o \in OrderRecord /\ o.payed_true \in Int /\ price[b] \in Int
    BY <1>1, Consts DEF Types, OrderRows, OrderRecord
  <2>5. CASE o.status \in Unused
    <3>1. shop_orders' = shop_orders /\ pay_ins'[p].status # "TRUE"
      <4>1. CountLate(v, p, new)
        BY <2>1, <2>5 DEF Count, CountOpen
      <4> QED BY <1>1, <4>1 DEF CountLate, Types, PayRows
    <3>2. SumIn(b, "TRUE")' <= SumIn(b, "TRUE")
      BY <1>3, <2>1, <2>2, <2>3, <2>4, <3>1 DEF Part
    <3> QED BY <1>1, <2>3, <2>4, <2>5, <3>1, <3>2 DEF PaidOK
  <2>6. CASE o.status \notin Unused
    <3>1. CountOpen(v, p, new, amo)
      BY <2>1, <2>6 DEF Count, CountLate
    <3>2. shop_orders'[b] = n /\ pay_ins'[p].status = new
      <4>1. amo \in Int /\ n \in OrderRecord
        BY <1>3, <2>4, Consts, NewRowType
      <4>2. Written(o, o, n) = n
        BY <2>4, <4>1, WrittenIs
      <4>3. shop_orders' = [shop_orders EXCEPT ![b] = Written(o, v.order, n)]
        BY <1>5, <3>1, Zenon DEF CountOpen, NewRow
      <4>4. pay_ins'[p].status = new
        BY <1>1, <3>1 DEF CountOpen, Types, PayRows
      <4> HIDE DEF n
      <4> QED BY <1>1, <2>1, <4>2, <4>3, <4>4 DEF Types, OrderRows
    <3> DEFINE T == Taken(v, A)
               paid == o.payed_true
               pr == price[b]
               soft == SumIn(b, "SOFT")
               hard == SumIn(b, "HARD")
               conf == SumIn(b, "TRUE")
    <3>3. n.payed_true = paid + IF new = "TRUE" THEN T ELSE 0
      <4>0. amo \in Int
        BY <2>4
      <4>1. n.payed_true = paid + Part(new, "TRUE", Taken(v, amo))
        BY <1>3, <2>1, <2>4, <4>0, NewRowIs
      <4>2. paid + 0 = paid
        BY <2>4
      <4> QED BY <4>1, <4>2 DEF Part
    <3>4. /\ T \in Int /\ (pr = 0 => T = A) /\ (paid + T = pr \/ T = A)
          /\ (pr # 0 => paid + T <= pr)
      BY <1>1, <1>3, <2>1, <2>6, TakenIs
    <3>5. /\ conf <= paid /\ (pr # 0 => paid + soft + hard <= pr)
      BY <1>1, <2>6 DEF PaidOK
    <3>6. /\ SumIn(b, "SOFT")' = soft + Part("SOFT", new, A) - Part("SOFT", was, A)
          /\ SumIn(b, "HARD")' = hard + Part("HARD", new, A) - Part("HARD", was, A)
          /\ SumIn(b, "TRUE")' = conf + Part("TRUE", new, A) - Part("TRUE", was, A)
      BY <2>2, <3>2
    <3>7. soft \in Nat /\ hard \in Nat /\ conf \in Nat /\ paid \in Int /\ pr \in Int
          /\ SumIn(b, "SOFT")' \in Nat /\ SumIn(b, "HARD")' \in Nat /\ SumIn(b, "TRUE")' \in Nat
      BY <2>3, <2>4
    <3> HIDE DEF n, T, paid, pr, soft, hard, conf, A, was, o, v
    <3>8. new = "TRUE" => T >= A
      <4>1. was = "SOFT" => soft >= A
        BY <1>3, <2>1, <2>4, <3>6, <3>7 DEF Part
      <4>2. was = "HARD" => hard >= A
        BY <1>3, <2>1, <2>4, <3>6, <3>7 DEF Part
      <4> QED BY <1>1, <1>3, <2>1, <2>4, <3>4, <3>5, <3>7, <4>1, <4>2 DEF pr
    <3>9. SumIn(b, "TRUE")' <= n.payed_true
      BY <1>3, <2>1, <2>4, <3>3, <3>4, <3>5, <3>6, <3>7, <3>8 DEF Part
    <3>10. n.payed_true \in Int
      <4>1. T \in Int
        BY <3>4
      <4>2. paid \in Int
        BY <3>7
      <4>3. paid + T \in Int /\ paid + 0 \in Int
        BY <4>1, <4>2
      <4> QED BY <3>3, <4>3
    <3>11. ASSUME pr # 0, n.status \notin Unused
           PROVE  n.payed_true + SumIn(b, "SOFT")' + SumIn(b, "HARD")' <= pr
      <4>1. was \in {"SOFT", "HARD"}
        BY <1>1, <2>1, <3>11 DEF pr
      <4>2. CASE new # "TRUE"
        BY <1>3, <2>1, <2>4, <3>3, <3>5, <3>6, <3>7, <3>11, <4>1, <4>2 DEF Part
      <4>3. CASE new = "TRUE" /\ T = A
        BY <1>3, <2>1, <2>4, <3>3, <3>4, <3>5, <3>6, <3>7, <3>11, <4>1, <4>3 DEF Part
      <4>4. CASE new = "TRUE" /\ paid + T = pr
        <5>1. BillOK(b)' /\ shop_orders'[b] = n /\ price'[b] = pr
          BY <1>2, <1>5, <3>1, <3>2, CountOpenBill DEF IInv, pr, v
        <5>2. n.payed_true < pr
          BY <3>11, <5>1 DEF BillOK, OpenOK
        <5> QED BY <3>3, <3>4, <3>7, <4>4, <5>2
      <4> QED BY <3>4, <4>2, <4>3, <4>4
    <3> QED BY <1>2, <3>2, <3>9, <3>11 DEF PaidOK, pr
  <2> QED BY <2>5, <2>6
<1> QED BY <1>4, <1>5

\* solve_one draws shares for the payments of winning bills that were paid.
LEMMA SolveCovered ==
    ASSUME IInv, SharesOK, Solve, late = {}, crossed = {}, raced = {}
    PROVE  PotCovered'
<1> DEFINE pot == TotalTrue(wager.bill_ids)
           W == wager.winner_ids
           n == Cardinality(W)
           P == PaymentsOf(W)
           t(b) == shop_orders[b].payed_true
           sh == won'
           at == [b \in W |-> [p \in PayIns |-> IF BillOf[p] = b THEN sh[p] ELSE 0]]
           amt(b) == AmountIn(b, "TRUE")
<1>1. /\ Types /\ BillsOK /\ SolvedOK /\ pots = 0 /\ \A p \in PayIns : won[p] = 0
      /\ \A b \in Bills : PaidOK(b) /\ BillOK(b)
  <2>1. solves = 0
    BY DEF IInv, SolvedOK, Types, WagerRow, Solve
  <2> QED BY <2>1 DEF IInv, PotsOK, SharesOK, BillsOK
<1>2. /\ pots' = pots + pot /\ Ready
      /\ won' = [p \in PayIns |-> won[p] + IF p \in P THEN ShareOf(p, pot) ELSE 0]
  BY DEF Solve
<1>3. W \in SUBSET Bills /\ IsFiniteSet(W) /\ n \in Nat
      /\ wager.bill_ids \in SUBSET Bills /\ IsFiniteSet(wager.bill_ids) /\ IsFiniteSet(PayIns)
  BY <1>1, Consts, FS_Subset, FS_CardinalityType DEF Types, WagerRow
<1>4. \A b \in Bills : t(b) \in Nat
  BY <1>1 DEF Types, OrderRows, OrderRecord, BillOK
<1>5. pot \in Nat
  <2> DEFINE f == [b \in Bills |-> shop_orders[b].payed_true]
  <2>1. \A b \in wager.bill_ids : f[b] \in Nat
    BY <1>3, <1>4
  <2> HIDE DEF f
  <2>2. SumFunctionOnSet(f, wager.bill_ids) \in Nat
    BY <1>3, <2>1, SumNat
  <2> QED BY <2>2 DEF TotalTrue, f
<1> HIDE DEF pot
<1>6. ASSUME NEW p \in PayIns
      PROVE  /\ sh[p] \in Nat /\ (sh[p] # 0 => BillOf[p] \in W /\ p \in P)
             /\ p \in P => /\ pay_ins[p].status = "TRUE" /\ t(BillOf[p]) > 0 /\ n > 0
                           /\ (n * t(BillOf[p])) * sh[p] <= pot * Amount[p]
  <2>1. CASE p \notin P
    <3>1. sh[p] = won[p] + 0
      BY <1>2, <2>1
    <3> QED BY <1>1, <2>1, <3>1
  <2>2. CASE p \in P
    <3>1. BillOf[p] \in W /\ pay_ins[p].status = "TRUE" /\ t(BillOf[p]) # 0
      BY <1>2, <2>2 DEF Ready, PaymentsOf
    <3>2. n # 0
      BY <1>3, <3>1, FS_EmptySet
    <3> DEFINE d == n * t(BillOf[p])
               x == pot * Amount[p]
    <3>3. t(BillOf[p]) \in Nat /\ Amount[p] \in Nat
      BY <1>3, <1>4, <3>1, Consts
    <3>4. d \in Nat /\ x \in Nat /\ d > 0
      <4> HIDE DEF t, n
      <4> QED BY <1>3, <1>5, <3>1, <3>2, <3>3
    <3>5. sh[p] = 0 + (x \div d)
      BY <1>1, <1>2, <2>2 DEF ShareOf
    <3> HIDE DEF d, x
    <3>6. x \div d \in Nat /\ d * (x \div d) <= x
      BY <3>4
    <3>7. sh[p] \in Nat /\ d * sh[p] <= x
      <4>1. sh[p] = x \div d
        BY <3>5, <3>6
      <4> QED BY <3>6, <4>1
    <3>8. t(BillOf[p]) > 0 /\ n > 0
      <4> HIDE DEF t, n
      <4> QED BY <1>3, <3>2, <3>1, <3>3
    <3> HIDE DEF sh, t, n
    <3> QED BY <2>2, <3>1, <3>7, <3>8 DEF d, x
  <2> QED BY <2>1, <2>2
<1>7. ASSUME NEW b \in W PROVE n * SumFunctionOnSet(at[b], PayIns) <= pot
  <2>1. b \in Bills /\ t(b) \in Nat /\ SumFunctionOnSet(amt(b), PayIns) <= t(b)
    BY <1>1, <1>3, <1>4 DEF PaidOK, SumIn
  <2>2. CASE t(b) > 0
    <3>1. ASSUME NEW p \in PayIns
          PROVE  /\ at[b][p] \in Nat /\ amt(b)[p] \in Nat
                 /\ (n * t(b)) * at[b][p] <= pot * amt(b)[p]
      <4>1. Amount[p] \in Nat /\ amt(b)[p] \in Nat
        BY Consts DEF AmountIn
      <4>2. CASE BillOf[p] = b /\ p \in P
        <5>1. at[b][p] = sh[p] /\ amt(b)[p] = Amount[p]
          BY <1>6, <4>2 DEF AmountIn
        <5> QED BY <1>6, <4>1, <4>2, <5>1
      <4>3. CASE ~ (BillOf[p] = b /\ p \in P)
        <5>1. at[b][p] = 0
          BY <1>6, <4>3
        <5> HIDE DEF at, amt, t, n
        <5>2. (n * t(b)) * 0 = 0 /\ pot * amt(b)[p] >= 0
          BY <1>3, <1>5, <2>1, <4>1
        <5> QED BY <4>1, <5>1, <5>2
      <4> QED BY <4>2, <4>3
    <3> HIDE DEF at, amt, t, n
    <3> QED BY <1>3, <1>5, <2>1, <2>2, <3>1, OneWinner
  <2>3. CASE t(b) = 0
    <3>1. \A p \in PayIns : at[b][p] = 0
      BY <1>6, <2>3
    <3>2. SumFunctionOnSet(at[b], PayIns) = 0
      <4> HIDE DEF at
      <4> QED BY <1>3, <3>1, SumZero
    <3>3. n * 0 = 0
      BY <1>3
    <3> QED BY <1>5, <3>2, <3>3
  <2> QED BY <2>1, <2>2, <2>3
<1>8. SumFunctionOnSet(sh, PayIns) <= pot
  <2>1. \A p \in PayIns : sh[p] \in Nat /\ (sh[p] # 0 => BillOf[p] \in W)
    BY <1>6
  <2>2. \A b \in W : \A p \in PayIns : at[b][p] = IF BillOf[p] = b THEN sh[p] ELSE 0
    OBVIOUS
  <2> HIDE DEF W, sh, at
  <2> QED BY <1>3, <1>5, <1>7, <2>1, <2>2, AllWinners
<1>9. pots' = pot
  BY <1>1, <1>2, <1>5
<1> QED BY <1>8, <1>9 DEF PotCovered

LEMMA NextShares == ASSUME IInv, IInv', SharesOK, [Next]_vars PROVE SharesOK'
<1>1. /\ Types /\ Types' /\ BillsOK /\ solves \in Nat
  BY DEF IInv, SolvedOK
<1>2. raced \subseteq raced' /\ crossed \subseteq crossed' /\ late \subseteq late'
  BY DEF Next, BeginBet, BeginGo, BeginEnd, Begin, Go, End, MakeBetBill, Races,
         Receive, Visit, Count, Abandon, Solve, vars, ghosts
<1>3. /\ DOMAIN won' = PayIns /\ (solves' = 0 => \A p \in PayIns : won'[p] = 0)
      /\ PotCovered'
  <2>1. CASE UNCHANGED solveVars
    BY <1>2, <2>1 DEF SharesOK, PotCovered, solveVars
  <2>2. CASE Solve
    <3>1. DOMAIN won' = PayIns /\ solves' = solves + 1 /\ UNCHANGED ghosts
      BY <2>2 DEF Solve
    <3>2. PotCovered'
      <4> SUFFICES ASSUME late' = {}, crossed' = {}, raced' = {} PROVE PotCovered'
        BY DEF PotCovered
      <4> QED BY <2>2, <3>1, SolveCovered DEF ghosts
    <3> QED BY <1>1, <3>1, <3>2
  <2> QED BY <2>1, <2>2 DEF Next, BeginBet, BeginGo, BeginEnd, Begin, Go, End, MakeBetBill,
             Receive, Visit, Count, Abandon, Solve, vars
<1>4. \A b \in Bills : price'[b] # 0 => wager'.status # "PAY"
  <2>1. DOMAIN wager = {"status", "bill_ids", "winner_ids"}
    BY <1>1 DEF Types, WagerRow
  <2>2. ASSUME NEW r \in Requests, Go(r) \/ End(r) PROVE wager'.status # "PAY"
    BY <2>1, <2>2 DEF Go, End
  <2>3. ASSUME NEW r \in Requests, NEW b \in Bills, MakeBetBill(r, b)
        PROVE  wager'.status = wager.status /\ price' = price
    BY <2>1, <2>3 DEF MakeBetBill
  <2> QED BY <2>2, <2>3 DEF SharesOK, Next, BeginBet, BeginGo, BeginEnd, Begin,
             Receive, Visit, Count, Abandon, Solve, vars, wagerVars, orderVars
<1>5. ASSUME late' = {}, NEW b \in Bills \ crossed' PROVE PaidOK(b)'
  <2>1. PaidOK(b) /\ b \in Bills \ crossed
    BY <1>2, <1>5 DEF SharesOK
  <2>2. ASSUME UNCHANGED <<shop_orders, price, pay_ins>> PROVE PaidOK(b)'
    BY <2>1, <2>2 DEF PaidOK, SumIn, AmountIn
  <2>3. ASSUME NEW r \in Requests, Go(r) PROVE PaidOK(b)'
    BY <1>1, <2>1, <2>3, GoPaid
  <2>4. ASSUME NEW r \in Requests, NEW c \in Bills, MakeBetBill(r, c) PROVE PaidOK(b)'
    <3>1. /\ shop_orders' = [shop_orders EXCEPT ![c].status = "NEW"] /\ c \notin Made
          /\ UNCHANGED <<pay_ins, price>>
      BY <2>4 DEF MakeBetBill
    <3>2. shop_orders \in [Bills -> OrderRecord] /\ shop_orders[b] \in OrderRecord
      BY <1>1 DEF Types, OrderRows
    <3>3. shop_orders'[b].payed_true = shop_orders[b].payed_true
          /\ (shop_orders[b].status \in Unused => shop_orders'[b] = shop_orders[b])
      BY <3>1, <3>2 DEF OrderRecord, Made, Unused
    <3> QED BY <2>1, <3>1, <3>3 DEF PaidOK, SumIn, AmountIn
  <2>5. ASSUME NEW p \in PayIns, Receive(p) PROVE PaidOK(b)'
    <3>1. /\ pay_ins' = [pay_ins EXCEPT ![p].status = "NEW"] /\ pay_ins[p].status = "NONE"
          /\ UNCHANGED <<shop_orders, price>>
      BY <2>5 DEF Receive
    <3>2. pay_ins'[p].status = "NEW" /\ \A q \in PayIns \ {p} : pay_ins'[q] = pay_ins[q]
      BY <1>1, <3>1 DEF Types, PayRows, PayRecord
    <3>3. ASSUME NEW st \in {"SOFT", "HARD", "TRUE"} PROVE SumIn(b, st)' = SumIn(b, st)
      <4>1. SumIn(BillOf[p], st)' = SumIn(BillOf[p], st) + 0 - 0
        BY <1>1, <3>1, <3>2, SumInMoves DEF Part
      <4>2. SumIn(b, st) \in Int
        BY SumInType
      <4> QED BY <1>1, <3>2, <4>1, <4>2, SumInMoves
    <3> QED BY <2>1, <3>1, <3>3, PaidKept
  <2>6. ASSUME NEW w \in Workers, NEW p \in PayIns, NEW new \in Grades[p], Count(w, p, new)
        PROVE  PaidOK(b)'
    BY <1>1, <1>5, <2>6, CountPaid
  <2> QED BY <2>2, <2>3, <2>4, <2>5, <2>6 DEF Next, BeginBet, BeginGo, BeginEnd, Begin,
             End, Visit, Abandon, Solve, vars, orderVars
<1> QED BY <1>3, <1>4, <1>5 DEF SharesOK

\* PotCovered: the shares drawn for the winners, each rounded down, never
\* exceed the pot, unless a payment was first counted after go.
THEOREM PotIsCovered == Spec => []PotCovered
<1>1. SharesOK => PotCovered
  BY DEF SharesOK
<1> QED BY Invariance, InitShares, NextShares, <1>1, PTL DEF Spec
=============================================================================
