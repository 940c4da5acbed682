-------------------------- MODULE OrdersLib_proofs --------------------------
(***************************************************************************)
(* Theorems about OrdersLib, for any number of bills, payments and coins,   *)
(* any prices, rates and fees.                                              *)
(***************************************************************************)
EXTENDS OrdersLib, Sums_proofs, TLAPS

-----------------------------------------------------------------------------
(* What the operators return.                                               *)

\* What ParamAssumption says about one payment.
LEMMA Params ==
    ASSUME NEW p \in PayIns
    PROVE  /\ OrderOf[p] \in ShopOrders
           /\ XcurrOf[p] \in Xcurrs
           /\ Price[OrderOf[p]] \in Nat
           /\ TxFee[XcurrOf[p]] \in Nat
           /\ \A a \in Amounts[p] : a \in Nat /\ a > 0
           /\ \A w \in Worth[p] : w \in Nat /\ w > 0
<1>1. OrderOf[p] \in ShopOrders /\ XcurrOf[p] \in Xcurrs
  BY ParamAssumption DEF ParamAssumption
<1>2. Price[OrderOf[p]] \in Nat /\ TxFee[XcurrOf[p]] \in Nat
  BY <1>1, ParamAssumption DEF ParamAssumption
<1>3. Amounts[p] \subseteq Nat \ {0} /\ Worth[p] \subseteq Nat \ {0}
  BY ParamAssumption DEF ParamAssumption
<1> QED BY <1>1, <1>2, <1>3

\* Statuses, as the counting of blocks gives them.
LEMMA GradeType ==
    ASSUME NEW p \in PayIns, NEW v \in Visits
    PROVE  Grade(p, v) \in {"TRUE", "HARD", "SOFT", "NEW"}
BY DEF Grade

\* What a worker holds has the types of the rows it was read from.
LEMMA VisitType ==
    ASSUME NEW v \in Visits
    PROVE  v.pay \in PayRecord /\ v.bill \in OrderRecord
BY DEF Visits

\* The value of a payment is a whole number of units, negative ones included.
LEMMA AmoOutsType ==
    ASSUME NEW p \in PayIns, NEW v \in Visits, NEW amo \in AmoOuts(p, v)
    PROVE  amo \in Int
<1>0. v.pay.amo_out \in Int /\ v.pay.amount \in Int
  BY VisitType DEF PayRecord
<1>1. CASE v.pay.amo_out # 0
  BY <1>0, <1>1 DEF AmoOuts
<1>2. CASE v.pay.amo_out = 0 /\ p \in SameCurr
  BY <1>0, <1>2 DEF AmoOuts
<1>3. CASE v.pay.amo_out = 0 /\ p \notin SameCurr
  <2>1. \A w \in Worth[p] : w \in Int
    BY Params
  <2>2. ASSUME NEW w \in Worth[p] PROVE Accurate(OrderOf[p], v.bill, w) \in Int
    <3>1. Price[OrderOf[p]] \in Int /\ AllPayed(v.bill) \in Int
      BY VisitType, Params DEF OrderRecord, AllPayed
    <3> QED BY <2>1, <3>1 DEF Accurate
  <2> QED BY <1>3, <2>2 DEF AmoOuts
<1> QED BY <1>0, <1>1, <1>2, <1>3

\* The value of a payment is set once.
LEMMA AmoOutsKept ==
    ASSUME NEW p \in PayIns, NEW v \in Visits, NEW amo \in AmoOuts(p, v),
           v.pay.amo_out # 0
    PROVE  amo = v.pay.amo_out
BY DEF AmoOuts

\* tryed only grows.
LEMMA TriesType ==
    ASSUME NEW p \in PayIns, NEW v \in Visits
    PROVE  Tries(p, v) \in Nat
<1>1. v.pay.tryed \in Nat
  BY VisitType DEF PayRecord
<1> QED BY <1>1 DEF Tries

\* The change of a payment is never negative.
LEMMA ChangeType ==
    ASSUME NEW p \in PayIns, NEW v \in Visits, NEW amo \in Int
    PROVE  Taken(p, v, amo) \in Int /\ Change(p, v, amo) \in Nat
<1> DEFINE o == OrderOf[p]
           rest == amo - Taken(p, v, amo)
           num == 2 * v.pay.amount * rest + amo
           ret == num \div (2 * amo)
<1>1. o \in ShopOrders /\ XcurrOf[p] \in Xcurrs
  BY Params
<1>2. Price[o] \in Int /\ v.bill.payed_true \in Int /\ TxFee[XcurrOf[p]] \in Nat
  BY <1>1, Params, VisitType DEF OrderRecord
<1>3. Taken(p, v, amo) \in Int
  BY <1>2 DEF Taken
<1>4. CASE Taken(p, v, amo) > 0 /\ rest > 0 /\ ret > 2 * TxFee[XcurrOf[p]]
  <2>1. amo > 0
    BY <1>3, <1>4
  <2>2. v.pay.amount \in Int
    BY VisitType DEF PayRecord
  <2>3. num \in Int
    <3>1. 2 * v.pay.amount * rest \in Int
      BY <2>2, <1>3
    <3> QED BY <3>1
  <2>4. ret \in Int
    <3> HIDE DEF num
    <3> QED BY <2>1, <2>3
  <2>5. Change(p, v, amo) = ret
    BY <1>4 DEF Change
  <2>6. ret \in Nat
    <3> HIDE DEF ret
    <3> QED BY <2>4, <1>2, <1>4
  <2> QED BY <1>3, <2>5, <2>6
<1>5. CASE ~(Taken(p, v, amo) > 0 /\ rest > 0 /\ ret > 2 * TxFee[XcurrOf[p]])
  BY <1>3, <1>5 DEF Change
<1> QED BY <1>4, <1>5

-----------------------------------------------------------------------------
(* What a visit writes, in one of three ways.                               *)

\* The row of the payment as it is written, but for its status and what is
\* sent back of it.
RowOf(p, row) ==
    /\ row \in PayRecord
    /\ row.status = pay_ins[p].status
    /\ row.amount = pay_ins[p].amount
    /\ row.amo_ret = pay_ins[p].amo_ret

\* It counts the payment for the bill, or finds it too late.
Settles(p, v, row, new, amo) ==
    /\ new \in {"SOFT", "HARD", "TRUE", "INVALID"} /\ amo \in Int /\ amo # 0
    /\ LatePayment(p, v, row, new) \/ CountPayment(p, v, row, new, amo)
    /\ new \in {"TRUE", "INVALID"} =>
           p \in pay_ins_stack /\ pay_ins_stack' = pay_ins_stack \ {p}
    /\ new \in {"SOFT", "HARD"} => UNCHANGED pay_ins_stack
    /\ \/ new = "INVALID" /\ amo = -1 /\ row.amo_out = pay_ins[p].amo_out
       \/ /\ new # "INVALID" /\ amo \in AmoOuts(p, v)
          /\ row.amo_out = IF amo # v.pay.amo_out THEN amo ELSE pay_ins[p].amo_out

\* It leaves the payment where it is.
Keeps(p, v, row) ==
    /\ SavePayIn(row, p)
    /\ UNCHANGED <<orderVars, pay_ins_stack>>
    /\ \E amo \in AmoOuts(p, v) :
           row.amo_out = IF amo # v.pay.amo_out THEN amo ELSE pay_ins[p].amo_out

\* It sends back what cannot be converted.
Refuses(p, v, row) ==
    /\ Refused(p, v)
    /\ v.pay.amo_out = 0 /\ row.amo_out = pay_ins[p].amo_out
    /\ ReturnPayInsOne(row, p, v.pay.amo_ret, v.pay.amount, "RETURNED")
    /\ p \in pay_ins_stack /\ pay_ins_stack' = pay_ins_stack \ {p}
    /\ UNCHANGED orderVars

\* The fields that a visit writes from what it has read.
LEMMA TriedRow ==
    ASSUME TypeOK, NEW p \in PayIns, NEW v \in Visits, NEW amo \in Int
    PROVE  /\ RowOf(p, Valued(p, v, amo)) /\ RowOf(p, Tried(p, v, amo))
           /\ Valued(p, v, amo).amo_out =
                  IF amo # v.pay.amo_out THEN amo ELSE pay_ins[p].amo_out
           /\ Tried(p, v, amo).amo_out =
                  IF amo # v.pay.amo_out THEN amo ELSE pay_ins[p].amo_out
<1>1. pay_ins[p] \in PayRecord /\ Tries(p, v) \in Nat
  BY TriesType DEF TypeOK
<1>2. PICK a : a = IF amo # v.pay.amo_out THEN amo ELSE pay_ins[p].amo_out
  OBVIOUS
<1>3. PICK n : n = IF Tries(p, v) # v.pay.tryed THEN Tries(p, v) ELSE pay_ins[p].tryed
  OBVIOUS
<1>4. a \in Int /\ n \in Nat
  BY <1>1, <1>2, <1>3 DEF PayRecord
<1>5. Valued(p, v, amo) = [pay_ins[p] EXCEPT !.amo_out = a]
  BY <1>2 DEF Valued
<1>6. Tried(p, v, amo) = [Valued(p, v, amo) EXCEPT !.tryed = n]
  BY <1>1, <1>3, <1>5 DEF Tried, PayRecord
<1> QED BY <1>1, <1>2, <1>4, <1>5, <1>6 DEF RowOf, PayRecord

\* Every branch of inputs_update is one of the three.
LEMMA DecideForms ==
    ASSUME TypeOK, NEW p \in PayIns, NEW v \in Visits, Decide(p, v)
    PROVE  \E row \in PayRecord :
              /\ RowOf(p, row)
              /\ \/ \E new \in PayStatus, amo \in Int : Settles(p, v, row, new, amo)
                 \/ Keeps(p, v, row)
                 \/ Refuses(p, v, row)
<1>1. /\ pay_ins[p] \in PayRecord /\ RowOf(p, pay_ins[p])
      /\ {"SOFT", "HARD", "TRUE", "INVALID"} \subseteq PayStatus
  BY DEF TypeOK, RowOf, PayStatus
<1>2. CASE InputInvalid(p, v)
  <2>1. -1 \in Int /\ Settles(p, v, pay_ins[p], "INVALID", -1)
    BY <1>2 DEF InputInvalid, UpdatePayed, Settles
  <2> QED BY <1>1, <2>1
<1>3. CASE InputTrue(p, v)
  <2>1. PICK amo \in AmoOuts(p, v) \ {0} : UpdatePayed(p, v, Tried(p, v, amo), "TRUE", amo)
    BY <1>3 DEF InputTrue
  <2>2. amo \in Int /\ amo # 0
    BY AmoOutsType
  <2>3. PICK row : row = Tried(p, v, amo)
    OBVIOUS
  <2>4. /\ RowOf(p, row)
        /\ row.amo_out = IF amo # v.pay.amo_out THEN amo ELSE pay_ins[p].amo_out
    BY <2>2, <2>3, TriedRow
  <2>5. LatePayment(p, v, row, "TRUE") \/ CountPayment(p, v, row, "TRUE", amo)
    BY <2>1, <2>2, <2>3 DEF UpdatePayed
  <2>6. Settles(p, v, row, "TRUE", amo)
    BY <1>3, <2>2, <2>4, <2>5 DEF InputTrue, Settles
  <2>7. row \in PayRecord
    BY <2>4 DEF RowOf
  <2> QED BY <1>1, <2>2, <2>4, <2>6, <2>7
<1>4. CASE InputUnrated(p, v)
  <2>1. v.pay.amo_out = 0 /\ 0 \in AmoOuts(p, v)
    BY <1>4, AmoOutsKept DEF InputUnrated
  <2>2. PICK row : row = Tried(p, v, v.pay.amo_out)
    OBVIOUS
  <2>3. RowOf(p, row) /\ row.amo_out = pay_ins[p].amo_out
    BY <2>1, <2>2, TriedRow
  <2>4. Refuses(p, v, row) \/ Keeps(p, v, row)
    BY <1>4, <2>1, <2>2, <2>3 DEF InputUnrated, Refuses, Keeps
  <2>5. row \in PayRecord
    BY <2>3 DEF RowOf
  <2> QED BY <2>3, <2>4, <2>5
<1>5. CASE InputGrade(p, v)
  <2>1. PICK amo \in AmoOuts(p, v) :
          IF Grade(p, v) \in {"NEW", v.pay.status}
          THEN SavePayIn(Valued(p, v, amo), p) /\ UNCHANGED orderVars
          ELSE UpdatePayed(p, v, Valued(p, v, amo), Grade(p, v), amo)
    BY <1>5 DEF InputGrade
  <2>2. amo \in Int /\ Grade(p, v) \in {"SOFT", "HARD", "NEW"} /\ UNCHANGED pay_ins_stack
    BY <1>5, AmoOutsType, GradeType DEF InputGrade
  <2>3. PICK row : row = Valued(p, v, amo)
    OBVIOUS
  <2>4. /\ RowOf(p, row)
        /\ row.amo_out = IF amo # v.pay.amo_out THEN amo ELSE pay_ins[p].amo_out
    BY <2>2, <2>3, TriedRow
  <2>5. row \in PayRecord
    BY <2>4 DEF RowOf
  <2>6. CASE SavePayIn(row, p) /\ UNCHANGED orderVars
    <3>1. Keeps(p, v, row)
      BY <2>2, <2>4, <2>6 DEF Keeps
    <3> QED BY <2>4, <2>5, <3>1
  <2>7. CASE /\ amo # 0 /\ Grade(p, v) # "NEW"
             /\ \/ LatePayment(p, v, row, Grade(p, v))
                \/ CountPayment(p, v, row, Grade(p, v), amo)
    <3>1. Settles(p, v, row, Grade(p, v), amo)
      BY <2>2, <2>4, <2>7 DEF Settles
    <3> QED BY <1>1, <2>2, <2>4, <2>5, <2>7, <3>1
  <2> QED BY <2>1, <2>2, <2>3, <2>6, <2>7 DEF UpdatePayed
<1> QED BY <1>2, <1>3, <1>4, <1>5 DEF Decide

-----------------------------------------------------------------------------
(* Type correctness.                                                        *)

PayTypes ==
    /\ pay_ins \in [PayIns -> PayRecord]
    /\ pay_ins_return \in [PayIns -> Nat]

OrderTypes ==
    /\ shop_orders \in [ShopOrders -> OrderRecord]
    /\ shop_orders_stack \subseteq ShopOrders
    /\ shop_orders_notes \subseteq ShopOrders
    /\ credited \in [ShopOrders -> Int]
    /\ given \in [PayIns -> Int]

WorkTypes ==
    /\ todo \in [Workers -> SUBSET PayIns]
    /\ visit \in [Workers -> Visits]
    /\ torn \subseteq ShopOrders

\* return_pay_ins_one keeps the types of pay_ins and pay_ins_return.
LEMMA ReturnType ==
    ASSUME TypeOK, NEW p \in PayIns, NEW row \in PayRecord, NEW ret \in Nat, NEW amo \in Nat,
           NEW st \in PayStatus, ReturnPayInsOne(row, p, ret, amo, st)
    PROVE  PayTypes'
<1>1. Returned(row, p, ret, amo, st) \in PayRecord
  <2>1. ret + amo \in Nat
    OBVIOUS
  <2>2. [row EXCEPT !.amo_ret = ret + amo, !.status = st] \in PayRecord
    BY <2>1 DEF PayRecord
  <2> QED BY <2>2 DEF Returned
<1>2. Queued(p, amo) \in Nat
  BY DEF Queued, TypeOK
<1> QED BY <1>1, <1>2 DEF ReturnPayInsOne, TypeOK, PayTypes

\* So does an update of a row of pay_ins.
LEMMA SaveType ==
    ASSUME TypeOK, NEW p \in PayIns, NEW row \in PayRecord, SavePayIn(row, p)
    PROVE  PayTypes'
BY DEF SavePayIn, TypeOK, PayTypes

\* The sums of a bill stay numbers, its status a status.
LEMMA CountedType ==
    ASSUME NEW s \in OrderRecord, NEW old, NEW new, NEW amo \in Int, NEW taken \in Int
    PROVE  Counted(s, old, new, amo, taken) \in OrderRecord
<1>1. \A is, st : Part(is, st, amo) \in Int /\ Part(is, st, taken) \in Int
  BY DEF Part
<1> QED BY <1>1 DEF Counted, OrderRecord, OrderStatus

\* The status update_payed works out is one a bill may have.
LEMMA NewStatusType ==
    ASSUME NEW s \in OrderRecord, NEW price, NEW was
    PROVE  NewStatus(price, s, was) \in OrderStatus
BY DEF NewStatus, OrderRecord, OrderStatus, Unused

\* The row of the bill stays one.
LEMMA MergedType ==
    ASSUME TypeOK, NEW o \in ShopOrders, NEW v \in Visits, NEW new,
           NEW s \in OrderRecord, NEW st \in OrderStatus
    PROVE  Merged(o, v, new, s, st) \in OrderRecord
<1>1. shop_orders[o] \in OrderRecord
  BY DEF TypeOK
<1> DEFINE a == IF st # v.bill.status THEN st ELSE shop_orders[o].status
           b == IF "SOFT" \in {v.pay.status, new} THEN s.payed_soft ELSE shop_orders[o].payed_soft
           c == IF "HARD" \in {v.pay.status, new} THEN s.payed_hard ELSE shop_orders[o].payed_hard
           d == IF new = "TRUE" THEN s.payed_true ELSE shop_orders[o].payed_true
<1>2. a \in OrderStatus /\ b \in Int /\ c \in Int /\ d \in Int
  BY <1>1 DEF OrderRecord
<1>3. Merged(o, v, new, s, st)
        = [shop_orders[o] EXCEPT !.status = a, !.payed_soft = b, !.payed_hard = c, !.payed_true = d]
  BY <1>1 DEF Merged, OrderRecord
<1> HIDE DEF a, b, c, d
<1> QED BY <1>1, <1>2, <1>3 DEF OrderRecord

\* A counted payment keeps all types: those of the bill, the notes, the stack
\* and what is credited.
LEMMA CountPaymentType ==
    ASSUME TypeOK, NEW p \in PayIns, NEW v \in Visits, NEW row \in PayRecord,
           NEW new \in PayStatus, NEW amo \in Int, CountPayment(p, v, row, new, amo)
    PROVE  PayTypes' /\ OrderTypes'
<1> DEFINE o == OrderOf[p]
           s == Counted(v.bill, v.pay.status, new, amo, Taken(p, v, amo))
           st == NewStatus(Price[o], s, v.bill.status)
           paid == [row EXCEPT !.status = new]
<1>1. o \in ShopOrders /\ Price[o] \in Nat
  BY Params
<1>2. v.bill \in OrderRecord /\ v.pay \in PayRecord
  BY VisitType
<1>3. s \in OrderRecord /\ st \in OrderStatus
  BY <1>2, ChangeType, CountedType, NewStatusType
<1>4. PayTypes'
  <2>1. paid \in PayRecord /\ v.pay.amo_ret \in Nat
    BY <1>2 DEF PayRecord
  <2>2. CASE new = "TRUE" /\ Price[o] > 0
    <3>1. ReturnPayInsOne(paid, p, v.pay.amo_ret, Change(p, v, amo), "TRUE")
      BY <2>2 DEF CountPayment
    <3> QED BY <2>1, <3>1, ChangeType, ReturnType DEF PayStatus
  <2>3. CASE ~(new = "TRUE" /\ Price[o] > 0)
    <3>1. SavePayIn(paid, p)
      BY <2>3 DEF CountPayment
    <3> QED BY <2>1, <3>1, SaveType
  <2> QED BY <2>2, <2>3
<1>5. shop_orders' \in [ShopOrders -> OrderRecord]
  <2>1. shop_orders' = [shop_orders EXCEPT ![o] = Merged(o, v, new, s, st)]
    BY DEF CountPayment
  <2> HIDE DEF s, st
  <2>2. Merged(o, v, new, s, st) \in OrderRecord
    BY <1>1, <1>3, MergedType
  <2> QED BY <2>1, <2>2 DEF TypeOK
<1>6. shop_orders_notes' \subseteq ShopOrders
  <2>1. \/ shop_orders_notes' = shop_orders_notes \cup {o}
        \/ shop_orders_notes' = shop_orders_notes
    BY DEF CountPayment
  <2> QED BY <1>1, <2>1 DEF TypeOK
<1>7. /\ shop_orders_stack' \subseteq ShopOrders
      /\ credited' \in [ShopOrders -> Int]
      /\ given' \in [PayIns -> Int]
  <2>1. CASE Price[o] > 0 /\ st = "CLOSED"
    <3>1. shop_orders_stack' = shop_orders_stack \ {o} /\ PayShop(o)
      BY <2>1 DEF CountPayment
    <3>2. \A q \in PayIns : pay_ins'[q].amount \in Int /\ pay_ins'[q].amo_ret \in Int
      BY <1>4 DEF PayTypes, PayRecord
    <3>3. given' \in [PayIns -> Int]
      BY <3>1, <3>2 DEF PayShop, TypeOK
    <3>4. credited' \in [ShopOrders -> Int]
      BY <3>1, <1>1 DEF PayShop, TypeOK
    <3> QED BY <3>1, <3>3, <3>4 DEF TypeOK
  <2>2. CASE ~(Price[o] > 0 /\ st = "CLOSED") /\ Price[o] = 0
    <3>1. UNCHANGED shop_orders_stack /\ PassOn(p, v, new, amo)
      BY <2>2 DEF CountPayment
    <3>2. v.pay.amount \in Int
      BY <1>2 DEF PayRecord
    <3>3. credited' \in [ShopOrders -> Int]
      <4> DEFINE n == IF new = "TRUE" /\ o \notin NotConvert THEN amo ELSE 0
      <4>1. credited' = [credited EXCEPT ![o] = @ + n]
        BY <3>1 DEF PassOn
      <4>2. n \in Int
        OBVIOUS
      <4> HIDE DEF n
      <4> QED BY <4>1, <4>2, <1>1 DEF TypeOK
    <3>4. given' \in [PayIns -> Int]
      BY <3>1, <3>2 DEF PassOn, TypeOK
    <3> QED BY <3>1, <3>3, <3>4 DEF TypeOK
  <2>3. CASE ~(Price[o] > 0 /\ st = "CLOSED") /\ Price[o] # 0
    BY <2>3 DEF CountPayment, TypeOK
  <2> QED BY <2>1, <2>2, <2>3
<1> QED BY <1>4, <1>5, <1>6, <1>7 DEF OrderTypes

\* A visit keeps the types of all it writes.
LEMMA DecideType ==
    ASSUME TypeOK, NEW p \in PayIns, NEW v \in Visits, Decide(p, v)
    PROVE  PayTypes' /\ OrderTypes' /\ pay_ins_stack' \subseteq PayIns
<1>1. PICK row \in PayRecord :
        /\ RowOf(p, row)
        /\ \/ \E new \in PayStatus, amo \in Int : Settles(p, v, row, new, amo)
           \/ Keeps(p, v, row)
           \/ Refuses(p, v, row)
  BY DecideForms
<1>2. v.pay.amo_ret \in Nat /\ v.pay.amount \in Nat /\ "RETURNED" \in PayStatus
  BY VisitType DEF PayRecord, PayStatus
<1>3. CASE \E new \in PayStatus, amo \in Int : Settles(p, v, row, new, amo)
  <2>1. PICK new \in PayStatus, amo \in Int : Settles(p, v, row, new, amo)
    BY <1>3
  <2>2. pay_ins_stack' \subseteq PayIns
    BY <2>1 DEF Settles, TypeOK
  <2>3. CASE LatePayment(p, v, row, new)
    <3>1. [row EXCEPT !.status = new] \in PayRecord
      BY DEF PayRecord
    <3>2. PayTypes'
      BY <2>3, <3>1, <1>2, ReturnType, SaveType DEF LatePayment
    <3> QED BY <2>2, <2>3, <3>2 DEF LatePayment, orderVars, TypeOK, OrderTypes
  <2>4. CASE CountPayment(p, v, row, new, amo)
    BY <2>2, <2>4, CountPaymentType
  <2> QED BY <2>1, <2>3, <2>4 DEF Settles
<1>4. CASE Keeps(p, v, row)
  BY <1>4, SaveType DEF Keeps, orderVars, TypeOK, OrderTypes
<1>5. CASE Refuses(p, v, row)
  BY <1>2, <1>5, ReturnType DEF Refuses, orderVars, TypeOK, OrderTypes
<1> QED BY <1>1, <1>3, <1>4, <1>5

\* check_expired keeps the types of all it writes.
LEMMA ExpireType ==
    ASSUME TypeOK, NEW o \in ShopOrders, Expire(o)
    PROVE  PayTypes' /\ OrderTypes' /\ pay_ins_stack' \subseteq PayIns
<1>1. ASSUME NEW p \in PayIns, Kept(p) > 0
      PROVE  Kept(p) \in Nat
  BY <1>1 DEF Kept, TypeOK, PayRecord
<1>2. ASSUME NEW p \in PayIns
      PROVE  /\ Returned(pay_ins[p], p, pay_ins[p].amo_ret, Kept(p), "RETURNED") \in PayRecord
             /\ Queued(p, Kept(p)) \in Nat
  <2>1. CASE CanReturn(p, Kept(p))
    <3>1. Kept(p) \in Nat
      BY <2>1, <1>1 DEF CanReturn
    <3>2. pay_ins[p].amo_ret + Kept(p) \in Nat
      BY <3>1 DEF TypeOK, PayRecord
    <3> QED BY <2>1, <3>1, <3>2 DEF Returned, Queued, TypeOK, PayRecord, PayStatus
  <2>2. CASE ~CanReturn(p, Kept(p))
    BY <2>2 DEF Returned, Queued, TypeOK
  <2> QED BY <2>1, <2>2
<1>3. pay_ins' \in [PayIns -> PayRecord] /\ pay_ins_return' \in [PayIns -> Nat]
  BY <1>2 DEF Expire, TypeOK
<1>4. shop_orders' \in [ShopOrders -> OrderRecord]
  BY DEF Expire, TypeOK, OrderRecord, OrderStatus, Unused
<1> QED BY <1>3, <1>4 DEF Expire, TypeOK, PayTypes, OrderTypes

\* What a worker holds when its visit is done.
LEMMA DoneType ==
    ASSUME TypeOK, NEW w \in Workers, NEW o \in ShopOrders, NEW fresh, Done(w, o, fresh)
    PROVE  WorkTypes'
<1>1. visit[w] \in Visits
  BY DEF TypeOK
<1>2. NoPay \in PayRecord /\ NewBill \in OrderRecord
  BY DEF NoPay, NewBill, PayRecord, PayStatus, OrderRecord, OrderStatus
<1> DEFINE n == IF todo[w] = {} THEN 0 ELSE visit[w].blk
<1>3. n \in Nat
  BY <1>1 DEF Visits
<1>4. [Idle EXCEPT !.blk = n] \in Visits
  <2> HIDE DEF n
  <2> QED BY <1>2, <1>3 DEF Idle, Visits
<1>5. visit' = [visit EXCEPT ![w] = [Idle EXCEPT !.blk = n]]
  BY DEF Done
<1>6. visit' \in [Workers -> Visits]
  <2> HIDE DEF n
  <2> QED BY <1>4, <1>5 DEF TypeOK
<1> QED BY <1>6 DEF Done, WorkTypes, TypeOK

\* What a worker reads has the types of the tables.
LEMMA WorkerType ==
    ASSUME TypeOK, NEW w \in Workers,
           \/ \E x \in Xcurrs : Begin(w, x)
           \/ \E p \in PayIns : Look(w, p)
           \/ \E o \in ShopOrders : LookExpired(w, o)
           \/ Fail(w)
    PROVE  TypeOK'
<1>0. /\ visit[w] \in Visits
      /\ Idle \in Visits
  BY DEF TypeOK, Visits, Idle, NoPay, NewBill, PayRecord, PayStatus, OrderRecord, OrderStatus
<1>1. ASSUME NEW x \in Xcurrs, Begin(w, x) PROVE TypeOK'
  <2>1. curr_block[x] \in Nat
    BY DEF TypeOK
  <2>2. PICK b \in IF w \in Tools THEN 1 .. curr_block[x] ELSE {curr_block[x]} :
            visit' = [visit EXCEPT ![w].blk = b]
    BY <1>1 DEF Begin
  <2>3. b \in Nat
    BY <2>1
  <2>4. visit' \in [Workers -> Visits]
    BY <1>0, <2>2, <2>3 DEF TypeOK, Visits
  <2>5. todo' \in [Workers -> SUBSET PayIns]
    BY <1>1 DEF Begin, TypeOK
  <2> QED BY <1>1, <2>4, <2>5 DEF Begin, payVars, orderVars, chainVars, TypeOK
<1>2. ASSUME NEW p \in PayIns, Look(w, p) PROVE TypeOK'
  <2>1. pay_ins[p] \in PayRecord /\ shop_orders[OrderOf[p]] \in OrderRecord
    BY Params DEF TypeOK
  <2>2. visit' \in [Workers -> Visits]
    BY <1>0, <1>2, <2>1 DEF Look, TypeOK, Visits
  <2>3. todo' \in [Workers -> SUBSET PayIns]
    BY <1>2 DEF Look, TypeOK
  <2> QED BY <1>2, <2>2, <2>3 DEF Look, payVars, orderVars, chainVars, TypeOK
<1>3. ASSUME NEW o \in ShopOrders, LookExpired(w, o) PROVE TypeOK'
  <2>1. shop_orders[o] \in OrderRecord
    BY DEF TypeOK
  <2>2. visit' \in [Workers -> Visits]
    BY <1>0, <1>3, <2>1 DEF LookExpired, TypeOK, Visits
  <2> QED BY <1>3, <2>2 DEF LookExpired, payVars, orderVars, chainVars, TypeOK
<1>4. ASSUME Fail(w) PROVE TypeOK'
  BY <1>0, <1>4 DEF Fail, payVars, orderVars, chainVars, TypeOK
<1> QED BY <1>1, <1>2, <1>3, <1>4

\* So do the visits and the other steps of the service.
LEMMA VisitsType ==
    ASSUME TypeOK, NEW w \in Workers,
           \/ \E p \in PayIns : InputsUpdate(w, p)
           \/ \E o \in ShopOrders : CheckExpired(w, o)
    PROVE  TypeOK'
<1>0. visit[w] \in Visits
  BY DEF TypeOK
<1>1. ASSUME NEW p \in PayIns, InputsUpdate(w, p) PROVE TypeOK'
  <2>1. PayTypes' /\ OrderTypes' /\ pay_ins_stack' \subseteq PayIns
    BY <1>0, <1>1, DecideType DEF InputsUpdate
  <2>2. WorkTypes'
    BY <1>1, Params, DoneType DEF InputsUpdate
  <2> QED BY <1>1, <2>1, <2>2
          DEF InputsUpdate, Done, chainVars, PayTypes, OrderTypes, WorkTypes, TypeOK
<1>2. ASSUME NEW o \in ShopOrders, CheckExpired(w, o) PROVE TypeOK'
  <2>1. PayTypes' /\ OrderTypes' /\ pay_ins_stack' \subseteq PayIns
    BY <1>2, ExpireType DEF CheckExpired
  <2>2. WorkTypes'
    BY <1>2, DoneType DEF CheckExpired
  <2> QED BY <1>2, <2>1, <2>2
          DEF CheckExpired, Done, chainVars, PayTypes, OrderTypes, WorkTypes, TypeOK
<1> QED BY <1>1, <1>2

\* The steps that only record or send keep all types.
LEMMA ServiceType ==
    ASSUME TypeOK, NEW p \in PayIns, Receive(p) \/ Rescan(p) \/ ReturnRefused(p)
    PROVE  TypeOK'
<1>1. CASE Receive(p)
  <2>1. PICK m \in 0 .. curr_block[XcurrOf[p]], a \in Amounts[p] :
          /\ mined' = [mined EXCEPT ![p] = m]
          /\ pay_ins' = [pay_ins EXCEPT ![p].status = "NEW", ![p].amount = a,
                 ![p].in_block = IF m = 0 THEN curr_block[XcurrOf[p]] + 1 ELSE m]
    BY <1>1 DEF Receive
  <2>2. m \in Nat /\ a \in Nat /\ curr_block[XcurrOf[p]] + 1 \in Nat
    BY Params DEF TypeOK
  <2> DEFINE b == IF m = 0 THEN curr_block[XcurrOf[p]] + 1 ELSE m
             row == [pay_ins[p] EXCEPT !.status = "NEW", !.amount = a, !.in_block = b]
  <2>3. pay_ins' \in [PayIns -> PayRecord]
    <3>1. b \in Nat
      BY <2>2
    <3>2. row \in PayRecord
      <4>1. pay_ins[p] \in PayRecord
        BY DEF TypeOK
      <4> HIDE DEF b
      <4> QED BY <2>2, <3>1, <4>1 DEF PayRecord, PayStatus
    <3>3. pay_ins' = [pay_ins EXCEPT ![p] = row]
      BY <2>1 DEF TypeOK, PayRecord
    <3> HIDE DEF row
    <3> QED BY <3>2, <3>3 DEF TypeOK
  <2>4. mined' \in [PayIns -> Nat]
    BY <2>1, <2>2 DEF TypeOK
  <2> QED BY <1>1, <2>3, <2>4 DEF Receive, orderVars, workVars, TypeOK
<1>2. CASE Rescan(p)
  BY <1>2 DEF Rescan, orderVars, chainVars, workVars, TypeOK, PayRecord
<1>3. CASE ReturnRefused(p)
  BY <1>3 DEF ReturnRefused, orderVars, chainVars, workVars, TypeOK
<1> QED BY <1>1, <1>2, <1>3

\* TypeOK is about the variables only.
LEMMA StutterType == TypeOK /\ UNCHANGED vars => TypeOK'
BY DEF vars, payVars, orderVars, chainVars, workVars, TypeOK

\* Every step keeps all types.
LEMMA NextType == TypeOK /\ [Next]_vars => TypeOK'
<1> SUFFICES ASSUME TypeOK, [Next]_vars PROVE TypeOK'
  OBVIOUS
<1>1. ASSUME NEW w \in Workers, NEW p \in PayIns, InputsUpdate(w, p) PROVE TypeOK'
  BY <1>1, VisitsType
<1>2. ASSUME NEW w \in Workers, NEW o \in ShopOrders, CheckExpired(w, o) PROVE TypeOK'
  BY <1>2, VisitsType
<1>3. ASSUME NEW w \in Workers, NEW x \in Xcurrs, Begin(w, x) PROVE TypeOK'
  BY <1>3, WorkerType
<1>4. ASSUME NEW w \in Workers, NEW p \in PayIns, Look(w, p) PROVE TypeOK'
  BY <1>4, WorkerType
<1>5. ASSUME NEW w \in Workers, NEW o \in ShopOrders, LookExpired(w, o) PROVE TypeOK'
  BY <1>5, WorkerType
<1>6. ASSUME NEW w \in Workers, Fail(w) PROVE TypeOK'
  BY <1>6, WorkerType
<1>7. ASSUME NEW p \in PayIns, Receive(p) \/ Rescan(p) \/ ReturnRefused(p)
      PROVE  TypeOK'
  BY <1>7, ServiceType
<1>8. ASSUME NEW p \in PayIns, Orphan(p) PROVE TypeOK'
  <2>1. XcurrOf[p] \in Xcurrs
    BY Params
  <2> QED BY <1>8, <2>1 DEF Orphan, payVars, orderVars, workVars, TypeOK
<1>9. ASSUME NEW o \in ShopOrders, DelNote(o) PROVE TypeOK'
  BY <1>9 DEF DelNote, payVars, chainVars, workVars, TypeOK
<1>10. ASSUME NEW x \in Xcurrs, NewBlock(x) PROVE TypeOK'
  BY <1>10 DEF NewBlock, payVars, orderVars, workVars, TypeOK
<1>11. CASE UNCHANGED vars
  BY <1>11, StutterType
<1> QED BY <1>1, <1>2, <1>3, <1>4, <1>5, <1>6, <1>7, <1>8, <1>9, <1>10, <1>11 DEF Next

\* An empty database, with no worker at work, is well typed.
LEMMA InitType == Init => TypeOK
<1> SUFFICES ASSUME Init PROVE TypeOK
  OBVIOUS
<1>1. NoPay \in PayRecord /\ NewBill \in OrderRecord
  BY DEF NoPay, NewBill, PayRecord, PayStatus, OrderRecord, OrderStatus
<1>2. pay_ins \in [PayIns -> PayRecord] /\ pay_ins_return \in [PayIns -> Nat]
  BY <1>1 DEF Init
<1>3. shop_orders \in [ShopOrders -> OrderRecord]
  BY <1>1 DEF Init
<1>4. visit \in [Workers -> Visits] /\ todo \in [Workers -> SUBSET PayIns]
  BY <1>1 DEF Init, Idle, Visits
<1>5. /\ shop_orders_stack \subseteq ShopOrders
      /\ credited \in [ShopOrders -> Int]
      /\ given \in [PayIns -> Int]
      /\ curr_block \in [Xcurrs -> Nat]
      /\ mined \in [PayIns -> Nat]
  BY DEF Init
<1> QED BY <1>2, <1>3, <1>4, <1>5 DEF Init, TypeOK

\* Every row the code writes stays within its fields: amo_ret and in_block
\* are never negative, and no status is written that the code cannot read.
THEOREM TypeCorrect == Spec => []TypeOK
<1>1. Init => TypeOK
  BY InitType
<1>2. TypeOK /\ [Next]_vars => TypeOK'
  BY NextType
<1> QED BY <1>1, <1>2, PTL DEF Spec

-----------------------------------------------------------------------------
(* The inductive invariant: what is known of each payment and of each bill  *)
(* that was never written from an old copy.                                 *)

\* A payment that still waits has given nothing back, and one that has given
\* nothing back has no row in pay_ins_return: a first return is never refused
\* as a second one.
PayInv(p) ==
    /\ p \in pay_ins_stack <=> pay_ins[p].status \in Pending
    /\ pay_ins[p].status # "NONE" => pay_ins[p].amount > 0
    /\ pay_ins[p].status \notin {"TRUE", "RETURNED"} => pay_ins[p].amo_ret = 0
    /\ pay_ins[p].amo_ret = 0 => pay_ins_return[p] = 0
    /\ pay_ins[p].status = "RETURNED" => pay_ins[p].amo_ret = pay_ins[p].amount
    /\ pay_ins[p].amo_ret <= pay_ins[p].amount

OrderInv(o) ==
    LET s == shop_orders[o] IN
    /\ s.status # "INVALID"
    /\ o \in shop_orders_stack => Price[o] > 0
    /\ Price[o] > 0 =>
        /\ o \in shop_orders_stack <=> s.status \notin {"CLOSED", "EXPIRED"}
        /\ s.payed_true <= Price[o]
        /\ s.status = "CLOSED" => s.payed_true = Price[o]
        /\ o \notin NotConvert =>
               credited[o] = IF s.status = "CLOSED" THEN Price[o] ELSE 0
        /\ s.status \in {"NEW", "FILL"} => AllPayed(s) < Price[o]

IInv ==
    /\ TypeOK
    /\ \A p \in PayIns : OrderOf[p] \notin torn => PayInv(p)
    /\ \A o \in ShopOrders \ torn : OrderInv(o)

\* Nobody has written to the payment or to its bill since the visit read them.
Seen(p, v) ==
    /\ v.pay.status = pay_ins[p].status
    /\ v.pay.amount = pay_ins[p].amount
    /\ v.pay.amo_out = pay_ins[p].amo_out
    /\ v.pay.amo_ret = pay_ins[p].amo_ret
    /\ v.bill = shop_orders[OrderOf[p]]

\* A fresh visit is such a one.
LEMMA FreshIsSeen ==
    ASSUME NEW p \in PayIns, NEW v \in Visits, Fresh(p, v)
    PROVE  Seen(p, v) /\ p \in pay_ins_stack
<1>1. v.pay \in PayRecord
  BY VisitType
<1> QED BY <1>1 DEF Fresh, Seen, PayRecord

\* What is written then is what was counted.
LEMMA SeenMerged ==
    ASSUME TypeOK, NEW p \in PayIns, NEW v \in Visits, Seen(p, v),
           NEW new, NEW amo \in Int, NEW taken \in Int, NEW st \in OrderStatus,
           NEW s \in OrderRecord, s = Counted(v.bill, v.pay.status, new, amo, taken)
    PROVE  Merged(OrderOf[p], v, new, s, st) = [s EXCEPT !.status = st]
<1> DEFINE b == v.bill
<1>1. /\ b \in OrderRecord /\ shop_orders[OrderOf[p]] = b
      /\ s \in OrderRecord
  BY VisitType, CountedType DEF Seen
<1>2. /\ "SOFT" \notin {v.pay.status, new} => s.payed_soft = b.payed_soft
      /\ "HARD" \notin {v.pay.status, new} => s.payed_hard = b.payed_hard
      /\ new # "TRUE" => s.payed_true = b.payed_true
  BY <1>1 DEF Counted, Part, OrderRecord
<1>3. Merged(OrderOf[p], v, new, s, st)
        = [b EXCEPT !.status = st, !.payed_soft = s.payed_soft,
                    !.payed_hard = s.payed_hard, !.payed_true = s.payed_true]
  BY <1>1, <1>2 DEF Merged, OrderRecord, Seen
<1>4. [b EXCEPT !.status = st, !.payed_soft = s.payed_soft,
                !.payed_hard = s.payed_hard, !.payed_true = s.payed_true]
        = [s EXCEPT !.status = st]
  <2> HIDE DEF b
  <2> QED BY <1>1 DEF OrderRecord
<1> QED BY <1>3, <1>4

\* So the bill of a payment that was read in time gets the sums and the status
\* that follow from its own.
LEMMA SeenCounted ==
    ASSUME TypeOK, NEW p \in PayIns, NEW v \in Visits, Seen(p, v), NEW row,
           NEW new, NEW amo \in Int, CountPayment(p, v, row, new, amo),
           NEW s, s = Counted(v.bill, v.pay.status, new, amo, Taken(p, v, amo)),
           NEW st, st = NewStatus(Price[OrderOf[p]], s, v.bill.status)
    PROVE  shop_orders' = [shop_orders EXCEPT ![OrderOf[p]] = [s EXCEPT !.status = st]]
<1>1. Taken(p, v, amo) \in Int
  BY ChangeType
<1>2. st \in OrderStatus
  BY <1>1, VisitType, CountedType, NewStatusType
<1>3. Merged(OrderOf[p], v, new, s, st) = [s EXCEPT !.status = st]
  <2>1. PICK taken \in Int : taken = Taken(p, v, amo)
    BY <1>1
  <2>2. s = Counted(v.bill, v.pay.status, new, amo, taken)
    BY <2>1
  <2>3. s \in OrderRecord
    BY <2>2, VisitType, CountedType
  <2> QED BY <1>2, <2>2, <2>3, SeenMerged
<1> QED BY <1>3 DEF CountPayment

\* A quotient is bounded when its dividend is.
LEMMA QuotientBound ==
    ASSUME NEW n \in Int, NEW d \in Int, d > 0, NEW a \in Int, n < d * (a + 1)
    PROVE  n \div d <= a
<1> DEFINE q == n \div d
<1>1. q \in Int /\ d * q <= n
  OBVIOUS
<1>2. SUFFICES ASSUME q >= a + 1 PROVE FALSE
  BY <1>1
<1> HIDE DEF q
<1>3. d * q >= d * (a + 1)
  BY <1>1, <1>2
<1> QED BY <1>1, <1>3

\* The rounded part of a payment that goes back is never more than it brought.
LEMMA PartBound ==
    ASSUME NEW amount \in Nat, amount > 0,
           NEW rest \in Int, NEW amo \in Int, 0 < rest, rest < amo
    PROVE  (2 * amount * rest + amo) \div (2 * amo) <= amount
<1>1. amount * rest <= amount * (amo - 1)
  OBVIOUS
<1>2. amount * (amo - 1) = amount * amo - amount
  OBVIOUS
<1>3. 2 * amount * rest + amo < (2 * amo) * (amount + 1)
  BY <1>1, <1>2
<1> QED BY <1>3, QuotientBound

\* The change of a payment is never more than it brought: PartBound, with the
\* The change of a payment is never more than it brought: PartBound, with the
\* figures of update_payed.
LEMMA ChangeBound ==
    ASSUME NEW p \in PayIns, NEW v \in Visits, NEW amo \in Int, v.pay.amount > 0
    PROVE  Change(p, v, amo) <= v.pay.amount
<1> DEFINE rest == amo - Taken(p, v, amo)
<1>1. Taken(p, v, amo) \in Int /\ v.pay.amount \in Nat
  BY ChangeType, VisitType DEF PayRecord
<1>2. CASE Taken(p, v, amo) > 0 /\ rest > 0
  <2>1. 0 < rest /\ rest < amo /\ rest \in Int
    BY <1>1, <1>2
  <2>2. (2 * v.pay.amount * rest + amo) \div (2 * amo) <= v.pay.amount
    <3> HIDE DEF rest
    <3> QED BY <2>1, <1>1, PartBound
  <2> QED BY <2>2, <1>1 DEF Change
<1>3. CASE ~(Taken(p, v, amo) > 0 /\ rest > 0)
  BY <1>1, <1>3 DEF Change
<1> QED BY <1>2, <1>3

\* A return of all, or of the change of a payment that is TRUE.
LEMMA ReturnKeepsPay ==
    ASSUME TypeOK, NEW p \in PayIns, PayInv(p), p \in pay_ins_stack,
           NEW row \in PayRecord, row.amount = pay_ins[p].amount, row.amo_ret = 0,
           NEW amo \in Nat, NEW st \in {"TRUE", "RETURNED"},
           st = "TRUE" => row.status = "TRUE" /\ amo <= row.amount,
           st = "RETURNED" => amo = row.amount,
           ReturnPayInsOne(row, p, 0, amo, st),
           pay_ins_stack' = pay_ins_stack \ {p}
    PROVE  \A q \in PayIns : PayInv(q) => PayInv(q)'
<1>1. pay_ins[p].amount > 0 /\ pay_ins_return[p] = 0
  BY DEF PayInv, Pending
<1>2. CASE amo > 0
  <2>1. /\ pay_ins'[p].status = st
        /\ pay_ins'[p].amo_ret = amo
        /\ pay_ins'[p].amount = row.amount
    BY <1>1, <1>2 DEF ReturnPayInsOne, Returned, CanReturn, TypeOK, PayRecord
  <2>2. PayInv(p)'
    BY <2>1, <1>1, <1>2 DEF PayInv, Pending
  <2>3. ASSUME NEW q \in PayIns \ {p}, PayInv(q) PROVE PayInv(q)'
    BY <2>3 DEF PayInv, ReturnPayInsOne, TypeOK
  <2> QED BY <2>2, <2>3
<1>3. CASE amo = 0
  <2>1. pay_ins'[p] = row /\ row.status = "TRUE" /\ pay_ins_return'[p] = 0
    BY <1>1, <1>3 DEF ReturnPayInsOne, Returned, Queued, CanReturn, TypeOK
  <2>2. PayInv(p)'
    BY <2>1, <1>1 DEF PayInv, Pending
  <2>3. ASSUME NEW q \in PayIns \ {p}, PayInv(q) PROVE PayInv(q)'
    BY <2>3 DEF PayInv, ReturnPayInsOne, TypeOK
  <2> QED BY <2>2, <2>3
<1> QED BY <1>2, <1>3

\* A new status without a return.
LEMMA SaveKeepsPay ==
    ASSUME TypeOK, NEW p \in PayIns, PayInv(p), p \in pay_ins_stack,
           NEW row \in PayRecord, row.amount = pay_ins[p].amount, row.amo_ret = 0,
           SavePayIn(row, p),
           \/ row.status \in Pending /\ pay_ins_stack' = pay_ins_stack
           \/ row.status \in {"TRUE", "INVALID"} /\ pay_ins_stack' = pay_ins_stack \ {p}
    PROVE  \A q \in PayIns : PayInv(q) => PayInv(q)'
<1>1. pay_ins'[p] = row /\ pay_ins_return' = pay_ins_return
  BY DEF SavePayIn, TypeOK
<1>2. pay_ins[p].amount > 0 /\ pay_ins_return[p] = 0
  BY DEF PayInv, Pending
<1>3. PayInv(p)'
  BY <1>1, <1>2 DEF PayInv, Pending
<1>4. ASSUME NEW q \in PayIns \ {p}, PayInv(q) PROVE PayInv(q)'
  BY <1>4 DEF PayInv, SavePayIn, TypeOK
<1> QED BY <1>3, <1>4

\* update_payed keeps what is known of the payments.
\* A visit in time keeps what is known of the payments.
LEMMA DecideKeepsPay ==
    ASSUME TypeOK, NEW p \in PayIns, NEW v \in Visits, Seen(p, v), p \in pay_ins_stack,
           PayInv(p), Decide(p, v)
    PROVE  \A q \in PayIns : PayInv(q) => PayInv(q)'
<1>1. PICK row \in PayRecord :
        /\ RowOf(p, row)
        /\ \/ \E new \in PayStatus, amo \in Int : Settles(p, v, row, new, amo)
           \/ Keeps(p, v, row)
           \/ Refuses(p, v, row)
  BY DecideForms
<1>2. /\ pay_ins[p].status \in Pending
      /\ row.status \in Pending /\ row.amo_ret = 0
      /\ row.amount = pay_ins[p].amount
      /\ v.pay.amo_ret = 0 /\ v.pay.amount = row.amount
      /\ row.amount \in Nat /\ row.amount > 0
  BY <1>1 DEF PayInv, Pending, RowOf, Seen, PayRecord
<1>3. CASE Keeps(p, v, row)
  BY <1>2, <1>3, SaveKeepsPay DEF Keeps
<1>4. CASE Refuses(p, v, row)
  BY <1>2, <1>4, ReturnKeepsPay DEF Refuses
<1>5. CASE \E new \in PayStatus, amo \in Int : Settles(p, v, row, new, amo)
  <2>1. PICK new \in PayStatus, amo \in Int : Settles(p, v, row, new, amo)
    BY <1>5
  <2> DEFINE paid == [row EXCEPT !.status = new]
  <2>2. /\ paid \in PayRecord
        /\ paid.amount = row.amount
        /\ paid.amo_ret = 0
        /\ paid.status = new
    BY <1>2 DEF PayRecord
  <2>3. \/ new \in Pending /\ pay_ins_stack' = pay_ins_stack
        \/ new \in {"TRUE", "INVALID"} /\ pay_ins_stack' = pay_ins_stack \ {p}
    BY <2>1 DEF Settles, Pending
  <2>4. new = "TRUE" => pay_ins_stack' = pay_ins_stack \ {p}
    BY <2>1 DEF Settles
  <2>5. Change(p, v, amo) \in Nat /\ Change(p, v, amo) <= row.amount
    BY <1>2, ChangeType, ChangeBound
  <2>6. \/ SavePayIn(paid, p)
        \/ new = "TRUE" /\ ReturnPayInsOne(paid, p, 0, row.amount, "RETURNED")
        \/ new = "TRUE" /\ ReturnPayInsOne(paid, p, 0, Change(p, v, amo), "TRUE")
    BY <1>2, <2>1 DEF Settles, LatePayment, CountPayment
  <2> HIDE DEF paid
  <2>7. CASE SavePayIn(paid, p)
    BY <1>2, <2>2, <2>3, <2>7, SaveKeepsPay
  <2>8. CASE new = "TRUE" /\ ReturnPayInsOne(paid, p, 0, row.amount, "RETURNED")
    BY <1>2, <2>2, <2>4, <2>8, ReturnKeepsPay
  <2>9. CASE new = "TRUE" /\ ReturnPayInsOne(paid, p, 0, Change(p, v, amo), "TRUE")
    BY <1>2, <2>2, <2>4, <2>5, <2>9, ReturnKeepsPay
  <2> QED BY <2>6, <2>7, <2>8, <2>9
<1> QED BY <1>1, <1>3, <1>4, <1>5

\* check_expired gives back all that is kept of each counted payment, or all of
\* it is given back already.
LEMMA ExpireKeepsPay ==
    ASSUME TypeOK, NEW o \in ShopOrders, Expire(o), NEW p \in PayIns, PayInv(p)
    PROVE  PayInv(p)'
<1>1. pay_ins[p] \in PayRecord
  BY DEF TypeOK
<1>2. pay_ins_stack' = pay_ins_stack
  BY DEF Expire
<1>3. CASE pay_ins'[p] = pay_ins[p] /\ pay_ins_return'[p] = pay_ins_return[p]
  BY <1>2, <1>3 DEF PayInv
<1>4. CASE /\ pay_ins[p].status = "TRUE" /\ CanReturn(p, Kept(p))
           /\ pay_ins'[p] = [pay_ins[p] EXCEPT !.amo_ret = @ + Kept(p), !.status = "RETURNED"]
  <2>1. pay_ins'[p].amo_ret = pay_ins[p].amo_ret + Kept(p)
    BY <1>1, <1>4 DEF PayRecord
  <2>2. pay_ins'[p].amo_ret = pay_ins[p].amount
    BY <1>1, <2>1 DEF PayRecord, Kept
  <2>3. pay_ins'[p].status = "RETURNED" /\ pay_ins'[p].amount = pay_ins[p].amount
    BY <1>1, <1>4 DEF PayRecord
  <2> QED BY <1>1, <1>2, <1>4, <2>2, <2>3 DEF PayInv, Pending, PayRecord
<1> QED BY <1>3, <1>4 DEF Expire, Returned, Queued

\* A new payment has brought something and given nothing back; a sent return
\* leaves amo_ret as it is.
LEMMA ServiceKeepsPay ==
    ASSUME TypeOK, NEW p \in PayIns, Receive(p) \/ Rescan(p) \/ ReturnRefused(p)
    PROVE  \A q \in PayIns : PayInv(q) => PayInv(q)'
<1>1. CASE Receive(p)
  <2>1. PICK a \in Amounts[p], b \in Nat :
          pay_ins' = [pay_ins EXCEPT ![p].status = "NEW", ![p].amount = a, ![p].in_block = b]
    <3>1. PICK m \in 0 .. curr_block[XcurrOf[p]], a \in Amounts[p] :
            pay_ins' = [pay_ins EXCEPT ![p].status = "NEW", ![p].amount = a,
                   ![p].in_block = IF m = 0 THEN curr_block[XcurrOf[p]] + 1 ELSE m]
      BY <1>1 DEF Receive
    <3>2. curr_block[XcurrOf[p]] \in Nat
      BY Params DEF TypeOK
    <3>3. (IF m = 0 THEN curr_block[XcurrOf[p]] + 1 ELSE m) \in Nat
      BY <3>2
    <3> QED BY <3>1, <3>3
  <2>2. a \in Nat /\ a > 0
    BY Params
  <2>3. /\ pay_ins'[p].status = "NEW" /\ pay_ins'[p].amount = a
        /\ pay_ins'[p].amo_ret = pay_ins[p].amo_ret
    BY <2>1 DEF TypeOK, PayRecord
  <2>4. pay_ins[p].status = "NONE" /\ UNCHANGED pay_ins_return
        /\ pay_ins_stack' = pay_ins_stack \cup {p}
    BY <1>1 DEF Receive
  <2>5. PayInv(p) => PayInv(p)'
    BY <2>2, <2>3, <2>4 DEF PayInv, Pending
  <2>6. \A q \in PayIns \ {p} : PayInv(q) => PayInv(q)'
    BY <2>1, <2>4 DEF PayInv, TypeOK
  <2> QED BY <2>5, <2>6
<1>2. CASE Rescan(p)
  <2>1. \A q \in PayIns : /\ pay_ins'[q].status = pay_ins[q].status
                          /\ pay_ins'[q].amount = pay_ins[q].amount
                          /\ pay_ins'[q].amo_ret = pay_ins[q].amo_ret
    BY <1>2 DEF Rescan, TypeOK, PayRecord
  <2> QED BY <1>2, <2>1 DEF Rescan, PayInv
<1>3. CASE ReturnRefused(p)
  BY <1>3 DEF ReturnRefused, PayInv, TypeOK
<1> QED BY <1>1, <1>2, <1>3

-----------------------------------------------------------------------------
(* What counting a payment does to its bill.                                *)

-----------------------------------------------------------------------------
(* What counting a payment does to its bill.                                *)

\* What is taken never brings payed_true above the price: without the limit
\* the sum is under the price, and with it the sum is the price.
LEMMA TakenBound ==
    ASSUME NEW p \in PayIns, NEW v \in Visits, NEW amo \in Int, Price[OrderOf[p]] > 0
    PROVE  v.bill.payed_true + Taken(p, v, amo) <= Price[OrderOf[p]]
<1> DEFINE o == OrderOf[p]
           x == v.bill.payed_true + amo
<1>1. o \in ShopOrders /\ Price[o] \in Nat /\ TxFee[XcurrOf[p]] \in Nat
  BY Params
<1>2. v.bill.payed_true \in Int
  BY VisitType DEF OrderRecord
<1>3. CASE OverLimit(p, v, amo)
  BY <1>1, <1>2, <1>3 DEF Taken
<1>4. CASE ~OverLimit(p, v, amo)
  <2>1. Taken(p, v, amo) = amo
    BY <1>4 DEF Taken
  <2>2. 200 * Price[o] >= 201 * (x + 2 * TxFee[XcurrOf[p]])
    BY <1>1, <1>2, <1>4 DEF OverLimit
  <2>3. x <= Price[o]
    BY <1>1, <1>2, <2>2
  <2> QED BY <1>1, <1>2, <2>1, <2>3
<1> QED BY <1>3, <1>4

\* Counting a payment keeps what is known of the bill: it closes exactly when
\* payed_true is the price, and is marked as paid when the sums cover it.
LEMMA CountPaymentKeepsOrder ==
    ASSUME TypeOK, NEW p \in PayIns, NEW v \in Visits, Seen(p, v),
           NEW row \in PayRecord, NEW new \in PayStatus,
           NEW amo \in Int, CountPayment(p, v, row, new, amo),
           NEW o \in ShopOrders, OrderInv(o)
    PROVE  OrderInv(o)'
<1> DEFINE b == OrderOf[p]
           old == v.bill
           s == Counted(old, v.pay.status, new, amo, Taken(p, v, amo))
           st == NewStatus(Price[b], s, old.status)
<1>1. /\ b \in ShopOrders /\ Price[b] \in Nat
      /\ old \in OrderRecord /\ shop_orders[b] = old
  BY Params, VisitType DEF Seen
<1>2. s \in OrderRecord /\ st \in OrderStatus
  BY <1>1, ChangeType, CountedType, NewStatusType
<1>3. shop_orders' = [shop_orders EXCEPT ![b] = [s EXCEPT !.status = st]]
  BY SeenCounted
<1>4. old.status \notin Unused
  BY DEF CountPayment
<1>5. CASE Price[o] = 0
  <2>1. shop_orders'[o].status # "INVALID"
    <3>1. CASE o = b
      <4>1. shop_orders'[o].status = st
        <5> HIDE DEF s, st
        <5> QED BY <1>1, <1>2, <1>3, <3>1 DEF TypeOK, OrderRecord
      <4>2. s.status \in {"FILL", old.status}
        BY DEF Counted
      <4> HIDE DEF s
      <4> QED BY <1>4, <1>5, <3>1, <4>1, <4>2 DEF NewStatus, Unused
    <3>2. CASE o # b
      BY <1>3, <3>2 DEF TypeOK, OrderInv
    <3> QED BY <3>1, <3>2
  <2>2. o \in shop_orders_stack' => o \in shop_orders_stack
    BY DEF CountPayment
  <2> QED BY <1>5, <2>1, <2>2 DEF OrderInv
<1>6. CASE Price[o] # 0 /\ o # b
  <2>1. shop_orders'[o] = shop_orders[o]
    BY <1>3, <1>6 DEF TypeOK
  <2>2. o \in shop_orders_stack' <=> o \in shop_orders_stack
    BY <1>6 DEF CountPayment
  <2>3. credited'[o] = credited[o]
    BY <1>6 DEF CountPayment, PayShop, PassOn, TypeOK
  <2> QED BY <2>1, <2>2, <2>3 DEF OrderInv
<1>7. CASE Price[o] > 0 /\ o = b
  <2>1. shop_orders'[o] = [s EXCEPT !.status = st]
    BY <1>1, <1>3, <1>7 DEF TypeOK
  <2>2. /\ shop_orders'[o].status = st
        /\ shop_orders'[o].payed_true = s.payed_true
        /\ AllPayed(shop_orders'[o]) = AllPayed(s)
    <3> HIDE DEF s, st
    <3> QED BY <1>2, <2>1 DEF OrderRecord, AllPayed
  <2>3. s.payed_true <= Price[o]
    <3>1. s.payed_true = old.payed_true + Part(new, "TRUE", Taken(p, v, amo))
      BY DEF Counted
    <3>2. old.payed_true \in Int /\ old.payed_true <= Price[o]
      BY <1>1, <1>7 DEF OrderInv, OrderRecord
    <3>3. old.payed_true + Taken(p, v, amo) <= Price[o] /\ Taken(p, v, amo) \in Int
      BY <1>7, TakenBound, ChangeType
    <3> HIDE DEF s, old
    <3> QED BY <1>1, <1>7, <3>1, <3>2, <3>3 DEF Part
  <2>4. old.status \in {"NEW", "FILL", "SOFT", "HARD"}
        /\ s.status \in {"FILL", "SOFT", "HARD"}
    BY <1>1, <1>4 DEF OrderRecord, OrderStatus, Unused, Counted
  <2>5. /\ st = "CLOSED" => Price[o] <= s.payed_true
        /\ st \in {"NEW", "FILL"} => AllPayed(s) < Price[o]
        /\ st \in {"FILL", "SOFT", "HARD", "CLOSED"}
    <3>1. AllPayed(s) \in Int
      <4> HIDE DEF s
      <4> QED BY <1>2 DEF AllPayed, OrderRecord
    <3> HIDE DEF s, old
    <3> QED BY <1>1, <1>7, <2>4, <3>1 DEF NewStatus
  <2>6. o \in shop_orders_stack' <=> st # "CLOSED"
    <3>1. o \in shop_orders_stack
      BY <1>1, <1>7, <2>4 DEF OrderInv
    <3> QED BY <1>7, <3>1 DEF CountPayment
  <2>7. o \notin NotConvert =>
            credited'[o] = IF st = "CLOSED" THEN Price[o] ELSE 0
    <3>1. o \notin NotConvert => credited[o] = 0
      BY <1>1, <1>7, <2>4 DEF OrderInv
    <3>2. CASE st = "CLOSED"
      <4>1. PayShop(b)
        BY <1>7, <3>2 DEF CountPayment
      <4> HIDE DEF st
      <4> QED BY <1>1, <1>7, <3>1, <3>2, <4>1 DEF PayShop, TypeOK
    <3>3. CASE st # "CLOSED"
      <4>1. UNCHANGED credited
        BY <1>7, <3>3 DEF CountPayment
      <4> HIDE DEF st
      <4> QED BY <3>1, <3>3, <4>1
    <3> QED BY <3>2, <3>3
  <2>8. s.payed_true \in Int
    <3> HIDE DEF s
    <3> QED BY <1>2 DEF OrderRecord
  <2> HIDE DEF s, st, old
  <2> QED BY <1>1, <1>7, <2>2, <2>3, <2>5, <2>6, <2>7, <2>8 DEF OrderInv
<1>8. Price[o] \in Nat
  BY ParamAssumption DEF ParamAssumption
<1> HIDE DEF b
<1> QED BY <1>5, <1>6, <1>7, <1>8

\* So does a visit in time, which leaves a bill that is closed or expired alone.
LEMMA DecideKeepsOrder ==
    ASSUME TypeOK, NEW p \in PayIns, NEW v \in Visits, Seen(p, v), Decide(p, v),
           NEW o \in ShopOrders, OrderInv(o)
    PROVE  OrderInv(o)'
<1>1. CASE UNCHANGED orderVars
  BY <1>1 DEF orderVars, OrderInv
<1>2. ASSUME NEW row \in PayRecord, NEW new \in PayStatus, NEW amo \in Int,
             CountPayment(p, v, row, new, amo)
      PROVE  OrderInv(o)'
  BY <1>2, CountPaymentKeepsOrder
<1> QED BY <1>1, <1>2, DecideForms DEF Settles, Keeps, Refuses, LatePayment

\* check_expired takes the bill off the stack and marks it in one step.
LEMMA ExpireKeepsOrder ==
    ASSUME TypeOK, NEW o \in ShopOrders, Expire(o),
           NEW b \in ShopOrders, OrderInv(b)
    PROVE  OrderInv(b)'
<1>1. /\ UNCHANGED credited
      /\ shop_orders_stack' = shop_orders_stack \ {o}
      /\ o \in shop_orders_stack
  BY DEF Expire
<1>2. CASE b # o
  <2>1. shop_orders'[b] = shop_orders[b]
    BY <1>2 DEF Expire, TypeOK
  <2> QED BY <1>1, <1>2, <2>1 DEF OrderInv
<1>3. CASE b = o
  <2>1. /\ shop_orders'[o].status = "EXPIRED"
        /\ shop_orders'[o].payed_true = shop_orders[o].payed_true
    BY DEF Expire, TypeOK, OrderRecord
  <2> QED BY <1>1, <1>3, <2>1 DEF OrderInv
<1> QED BY <1>2, <1>3

-----------------------------------------------------------------------------
(* The invariant holds.                                                     *)
-----------------------------------------------------------------------------
(* A worker writes to one bill and to its payments.                         *)

Elsewhere(o) ==
    /\ \A q \in PayIns : OrderOf[q] # o =>
        /\ pay_ins'[q] = pay_ins[q]
        /\ pay_ins_return'[q] = pay_ins_return[q]
        /\ given'[q] = given[q]
        /\ q \in pay_ins_stack' <=> q \in pay_ins_stack
    /\ \A b \in ShopOrders \ {o} :
        /\ shop_orders'[b] = shop_orders[b]
        /\ credited'[b] = credited[b]
        /\ b \in shop_orders_stack' <=> b \in shop_orders_stack

\* inputs_update writes to the bill of the payment it visits.
LEMMA DecideElsewhere ==
    ASSUME TypeOK, NEW p \in PayIns, NEW v \in Visits, Decide(p, v)
    PROVE  Elsewhere(OrderOf[p])
<1> DEFINE o == OrderOf[p]
<1>1. PICK row \in PayRecord :
        \/ \E new \in PayStatus, amo \in Int : Settles(p, v, row, new, amo)
        \/ Keeps(p, v, row)
        \/ Refuses(p, v, row)
  BY DecideForms
<1>2. \A q \in PayIns \ {p} : q \in pay_ins_stack' <=> q \in pay_ins_stack
  BY <1>1 DEF Settles, Keeps, Refuses
<1>3. \A q \in PayIns \ {p} :
        pay_ins'[q] = pay_ins[q] /\ pay_ins_return'[q] = pay_ins_return[q]
  <2>1. ASSUME NEW r, NEW ret, NEW amo, NEW st, ReturnPayInsOne(r, p, ret, amo, st)
        PROVE  \A q \in PayIns \ {p} :
                   pay_ins'[q] = pay_ins[q] /\ pay_ins_return'[q] = pay_ins_return[q]
    BY <2>1 DEF ReturnPayInsOne, TypeOK
  <2>2. ASSUME NEW r, SavePayIn(r, p)
        PROVE  \A q \in PayIns \ {p} :
                   pay_ins'[q] = pay_ins[q] /\ pay_ins_return'[q] = pay_ins_return[q]
    BY <2>2 DEF SavePayIn, TypeOK
  <2>3. CASE \E new \in PayStatus, amo \in Int : Settles(p, v, row, new, amo)
    BY <2>1, <2>2, <2>3 DEF Settles, LatePayment, CountPayment
  <2> QED BY <1>1, <2>1, <2>2, <2>3 DEF Keeps, Refuses
<1>4. /\ \A q \in PayIns : OrderOf[q] # o => given'[q] = given[q]
      /\ \A b \in ShopOrders \ {o} :
            /\ shop_orders'[b] = shop_orders[b]
            /\ credited'[b] = credited[b]
            /\ b \in shop_orders_stack' <=> b \in shop_orders_stack
  <2>1. CASE UNCHANGED orderVars
    BY <2>1 DEF orderVars
  <2>2. ASSUME NEW new, NEW amo, CountPayment(p, v, row, new, amo)
        PROVE  <1>4!1 /\ <1>4!2
    <3>1. /\ \A b \in ShopOrders \ {o} : shop_orders'[b] = shop_orders[b]
          /\ \A b \in ShopOrders \ {o} : b \in shop_orders_stack' <=> b \in shop_orders_stack
      BY <2>2 DEF CountPayment, TypeOK
    <3>2. CASE PayShop(o)
      <4>1. \A q \in PayIns : OrderOf[q] # o => given'[q] = given[q]
        <5>1. \A q \in PayIns : given[q] \in Int
          BY DEF TypeOK
        <5> QED BY <3>2, <5>1 DEF PayShop
      <4> QED BY <3>1, <3>2, <4>1 DEF PayShop, TypeOK
    <3>3. CASE PassOn(p, v, new, amo)
      BY <3>1, <3>3 DEF PassOn, TypeOK
    <3>4. CASE UNCHANGED <<credited, given>>
      BY <3>1, <3>4
    <3> QED BY <2>2, <3>2, <3>3, <3>4 DEF CountPayment
  <2> QED BY <1>1, <2>1, <2>2 DEF Settles, Keeps, Refuses, LatePayment
<1> QED BY <1>2, <1>3, <1>4 DEF Elsewhere

\* check_expired writes to the bill that expires.
LEMMA ExpireElsewhere ==
    ASSUME TypeOK, NEW o \in ShopOrders, Expire(o)
    PROVE  Elsewhere(o)
BY DEF Expire, Elsewhere, TypeOK

\* A write from an old copy is the end of what is known of the bill.
LEMMA WorkerWrites ==
    ASSUME TypeOK, NEW w \in Workers, NEW p \in PayIns, InputsUpdate(w, p)
    PROVE  /\ visit[w] \in Visits /\ OrderOf[p] \in ShopOrders
           /\ Elsewhere(OrderOf[p])
           /\ torn \subseteq torn' /\ torn' \in {torn, torn \cup {OrderOf[p]}}
           /\ \/ OrderOf[p] \in torn'
              \/ UNCHANGED <<payVars, orderVars>>
              \/ Decide(p, visit[w]) /\ Seen(p, visit[w]) /\ p \in pay_ins_stack
<1>1. visit[w] \in Visits /\ Decide(p, visit[w]) /\ OrderOf[p] \in ShopOrders
  BY Params DEF InputsUpdate, TypeOK
<1>2. Elsewhere(OrderOf[p])
  BY <1>1, DecideElsewhere
<1>3. Done(w, OrderOf[p], Fresh(p, visit[w]))
  BY DEF InputsUpdate
<1>4. CASE Fresh(p, visit[w])
  <2>1. torn' = torn
    BY <1>3, <1>4 DEF Done
  <2> QED BY <1>1, <1>2, <1>4, <2>1, FreshIsSeen
<1>5. CASE ~Fresh(p, visit[w])
  <2>1. torn' = IF UNCHANGED <<payVars, orderVars>> THEN torn ELSE torn \cup {OrderOf[p]}
    BY <1>3, <1>5 DEF Done
  <2> QED BY <1>1, <1>2, <2>1
<1> QED BY <1>4, <1>5

\* So is to expire a bill that was marked as paid in between.
LEMMA WorkerExpires ==
    ASSUME TypeOK, NEW w \in Workers, NEW o \in ShopOrders, CheckExpired(w, o)
    PROVE  /\ Elsewhere(o)
           /\ Expire(o)
           /\ torn \subseteq torn' /\ torn' \in {torn, torn \cup {o}}
           /\ o \in torn' \/ shop_orders[o].status \notin {"SOFT", "HARD"}
<1>1. Expire(o) /\ Done(w, o, shop_orders[o].status \notin {"SOFT", "HARD"})
  BY DEF CheckExpired
<1>2. Elsewhere(o)
  BY <1>1, ExpireElsewhere
<1>3. ~ UNCHANGED <<payVars, orderVars>>
  BY <1>1 DEF Expire, orderVars
<1> QED BY <1>1, <1>2, <1>3 DEF Done

\* Every other step leaves torn alone, and most leave the tables alone.
LEMMA OtherSteps ==
    ASSUME [Next]_vars
    PROVE  \/ \E w \in Workers, p \in PayIns : InputsUpdate(w, p)
           \/ \E w \in Workers, o \in ShopOrders : CheckExpired(w, o)
           \/ /\ UNCHANGED torn
              /\ \/ \E p \in PayIns : Receive(p) \/ Rescan(p) \/ ReturnRefused(p)
                 \/ UNCHANGED <<payVars, shop_orders, shop_orders_stack, credited, given>>
BY DEF Next, Begin, Look, LookExpired, Fail, Receive, Rescan, ReturnRefused, Orphan,
       DelNote, NewBlock, vars, orderVars

-----------------------------------------------------------------------------
(* The invariant holds.                                                     *)

\* The invariant holds of an empty database.
LEMMA InitIInv == Init => IInv
<1> SUFFICES ASSUME Init PROVE IInv
  OBVIOUS
<1>1. \A p \in PayIns : PayInv(p)
  BY DEF Init, PayInv, Pending, NoPay
<1>2. ASSUME NEW o \in ShopOrders PROVE OrderInv(o)
  <2>1. Price[o] \in Nat
    BY ParamAssumption DEF ParamAssumption
  <2>2. shop_orders[o] = NewBill
    BY DEF Init
  <2>3. credited[o] = 0 /\ (o \in shop_orders_stack <=> Price[o] > 0)
    BY DEF Init
  <2> QED BY <2>1, <2>2, <2>3 DEF OrderInv, AllPayed, NewBill
<1> QED BY <1>1, <1>2, InitType DEF IInv

\* Every step keeps what is known of the payments of a bill that is not torn.
LEMMA NextPay ==
    ASSUME IInv, [Next]_vars, NEW q \in PayIns, OrderOf[q] \notin torn'
    PROVE  PayInv(q)'
<1>0. TypeOK
  BY DEF IInv
<1>1. ASSUME NEW w \in Workers, NEW p \in PayIns, InputsUpdate(w, p)
      PROVE  PayInv(q)'
  <2>1. PayInv(q) /\ torn \subseteq torn' /\ Elsewhere(OrderOf[p])
    BY <1>0, <1>1, WorkerWrites DEF IInv
  <2>2. CASE OrderOf[q] # OrderOf[p]
    BY <2>1, <2>2 DEF Elsewhere, PayInv
  <2>3. CASE UNCHANGED <<payVars, orderVars>>
    BY <2>1, <2>3 DEF payVars, PayInv
  <2>4. CASE /\ OrderOf[q] = OrderOf[p]
             /\ Decide(p, visit[w]) /\ Seen(p, visit[w]) /\ p \in pay_ins_stack
    <3>1. PayInv(p)
      BY <2>1, <2>4 DEF IInv
    <3> QED BY <1>0, <1>1, <2>1, <2>4, <3>1, WorkerWrites, DecideKeepsPay
  <2> QED BY <1>0, <1>1, <2>2, <2>3, <2>4, WorkerWrites
<1>2. ASSUME NEW w \in Workers, NEW o \in ShopOrders, CheckExpired(w, o)
      PROVE  PayInv(q)'
  BY <1>0, <1>2, WorkerExpires, ExpireKeepsPay DEF IInv
<1>3. ASSUME NEW p \in PayIns, Receive(p) \/ Rescan(p) \/ ReturnRefused(p), UNCHANGED torn
      PROVE  PayInv(q)'
  BY <1>0, <1>3, ServiceKeepsPay DEF IInv
<1>4. CASE UNCHANGED <<payVars, torn>>
  BY <1>4 DEF IInv, payVars, PayInv
<1> QED BY <1>1, <1>2, <1>3, <1>4, OtherSteps

\* Every step keeps what is known of a bill that is not torn.
LEMMA NextOrder ==
    ASSUME IInv, [Next]_vars, NEW o \in ShopOrders \ torn'
    PROVE  OrderInv(o)'
<1>0. TypeOK
  BY DEF IInv
<1>1. ASSUME NEW w \in Workers, NEW p \in PayIns, InputsUpdate(w, p)
      PROVE  OrderInv(o)'
  <2>1. OrderInv(o) /\ Elsewhere(OrderOf[p])
    BY <1>0, <1>1, WorkerWrites DEF IInv
  <2>2. CASE o # OrderOf[p]
    BY <2>1, <2>2 DEF Elsewhere, OrderInv
  <2>3. CASE UNCHANGED <<payVars, orderVars>>
    BY <2>1, <2>3 DEF orderVars, OrderInv
  <2>4. CASE Decide(p, visit[w]) /\ Seen(p, visit[w])
    BY <1>0, <1>1, <2>1, <2>4, WorkerWrites, DecideKeepsOrder
  <2> QED BY <1>0, <1>1, <2>2, <2>3, <2>4, WorkerWrites
<1>2. ASSUME NEW w \in Workers, NEW b \in ShopOrders, CheckExpired(w, b)
      PROVE  OrderInv(o)'
  BY <1>0, <1>2, WorkerExpires, ExpireKeepsOrder DEF IInv
<1>3. CASE UNCHANGED <<shop_orders, shop_orders_stack, credited, torn>>
  BY <1>3 DEF IInv, OrderInv
<1> QED BY <1>1, <1>2, <1>3, OtherSteps
        DEF Receive, Rescan, ReturnRefused, orderVars

\* Every step keeps the invariant.
LEMMA NextIInv == IInv /\ [Next]_vars => IInv'
<1> SUFFICES ASSUME IInv, [Next]_vars PROVE IInv'
  OBVIOUS
<1>1. TypeOK'
  BY NextType DEF IInv
<1>2. (\A p \in PayIns : OrderOf[p] \notin torn => PayInv(p))'
  BY NextPay
<1>3. (\A o \in ShopOrders \ torn : OrderInv(o))'
  BY NextOrder
<1> QED BY <1>1, <1>2, <1>3 DEF IInv

\* Between the steps of the workers, in any order, each payment and each bill
\* that no worker wrote from an old copy is as PayInv and OrderInv say.
THEOREM InductiveInvariant == Spec => []IInv
<1>1. Init => IInv
  BY InitIInv
<1>2. IInv /\ [Next]_vars => IInv'
  BY NextIInv
<1> QED BY <1>1, <1>2, PTL DEF Spec

\* inputs_update, update_payed and check_expired drop a row of a stack exactly
\* when they decide it.
THEOREM StacksAreExact == Spec => []StackExact
<1>1. IInv => StackExact
  <2> SUFFICES ASSUME IInv PROVE StackExact
    OBVIOUS
  <2>1. \A p \in PayIns : OrderOf[p] \notin torn =>
          (p \in pay_ins_stack <=> pay_ins[p].status \in Pending)
    BY DEF IInv, PayInv
  <2>2. \A o \in Priced \ torn :
          o \in shop_orders_stack <=> shop_orders[o].status \notin {"CLOSED", "EXPIRED"}
    BY DEF IInv, OrderInv, Priced
  <2> QED BY <2>1, <2>2 DEF StackExact
<1> QED BY <1>1, InductiveInvariant, PTL

\* update_payed closes a bill once, credits its price in that step and never
\* counts more than the price as confirmed, as long as no worker writes to the
\* bill what follows from an old copy of it.
THEOREM ShopIsPaidOnce == Spec => []ShopPaidOnce
<1>1. IInv => ShopPaidOnce
  BY DEF IInv, OrderInv, Priced, ShopPaidOnce
<1> QED BY <1>1, InductiveInvariant, PTL

\* update_payed leaves no bill NEW or FILL whose sums reach its price, so
\* check_expired expires no such bill.
THEOREM UnpaidIsBelowPrice == Spec => []UnpaidBelowPrice
<1>1. IInv => UnpaidBelowPrice
  BY DEF IInv, OrderInv, Priced, UnpaidBelowPrice
<1> QED BY <1>1, InductiveInvariant, PTL

\* return_pay_ins_one, called for the change of a payment, for a late payment
\* and for an expired bill, never returns more of a payment than it brought.
THEOREM RefundIsBounded == Spec => []RefundBounded
<1>1. IInv => RefundBounded
  BY DEF IInv, PayInv, RefundBounded
<1> QED BY <1>1, InductiveInvariant, PTL

-----------------------------------------------------------------------------
(* The sums of a bill.                                                      *)

\* A payment is on a sum only with its value known: update_payed is called
\* for SOFT and HARD when amo_out is set, and amo_out is never set again.
RatedInv(p) == pay_ins[p].status \in {"SOFT", "HARD"} => pay_ins[p].amo_out # 0

\* A priced bill that may still expire.
OpenBill(o) == Price[o] > 0 /\ shop_orders[o].status \in {"NEW", "FILL"}

\* Nothing was sent back of such a bill, no payment counts less than nothing,
\* and its sums are at least those of its payments.
OpenInv(o) ==
    OpenBill(o) =>
        /\ \A p \in PaymentsOf(o) :
               pay_ins[p].amo_out >= 0 /\ (pay_ins[p].status = "TRUE" => pay_ins[p].amo_ret = 0)
        /\ shop_orders[o].payed_soft >= Sum(o, "SOFT")
        /\ shop_orders[o].payed_hard >= Sum(o, "HARD")

ExpiredInv(o) ==
    shop_orders[o].status = "EXPIRED" =>
        \A p \in PaymentsOf(o) : pay_ins[p].status # "TRUE"

AgreeInv(o) ==
    \/ shop_orders[o].status \in Unused
    \/ \E p \in PaymentsOf(o) : pay_ins[p].status = "INVALID"
    \/ SumsAgree(o)

SumsInv(o) == OpenInv(o) /\ ExpiredInv(o) /\ AgreeInv(o)

BillsInv ==
    /\ \A p \in PayIns : OrderOf[p] \notin torn => RatedInv(p)
    /\ \A o \in ShopOrders \ torn : SumsInv(o)

\* What a payment counts is a number.
LEMMA CountsType ==
    ASSUME TypeOK, NEW p \in PayIns, NEW o, NEW st
    PROVE  Counts(o, st, p) \in Int
BY DEF TypeOK, PayRecord, Counts

\* A sum depends on what the payments count.
LEMMA SumKept ==
    ASSUME TypeOK, NEW o, NEW st,
           \A p \in PayIns : Counts(o, st, p)' = Counts(o, st, p)
    PROVE  Sum(o, st)' = Sum(o, st)
<1>1. PICK f : f = [p \in PayIns |-> Counts(o, st, p)]
  OBVIOUS
<1>2. PICK g : g = [p \in PayIns |-> Counts(o, st, p)']
  OBVIOUS
<1>3. IsFiniteSet(PayIns)
  BY ParamAssumption DEF ParamAssumption
<1>4. IntOn(f, PayIns) /\ \A p \in PayIns : f[p] = g[p]
  BY <1>1, <1>2, CountsType DEF IntOn
<1>5. SumFunctionOnSet(f, PayIns) = SumFunctionOnSet(g, PayIns)
  BY <1>3, <1>4, SumSame
<1> QED BY <1>1, <1>2, <1>5 DEF Sum

\* A sum follows the one payment that moves.
LEMMA SumMoved ==
    ASSUME TypeOK, TypeOK', NEW p \in PayIns, NEW o, NEW st,
           \A q \in PayIns \ {p} : pay_ins'[q] = pay_ins[q]
    PROVE  /\ Sum(o, st) \in Int
           /\ Counts(o, st, p) \in Int /\ Counts(o, st, p)' \in Int
           /\ Sum(o, st)' = Sum(o, st) + (Counts(o, st, p)' - Counts(o, st, p))
<1>1. PICK f : f = [q \in PayIns |-> Counts(o, st, q)]
  OBVIOUS
<1>2. PICK g : g = [q \in PayIns |-> Counts(o, st, q)']
  OBVIOUS
<1>3. IsFiniteSet(PayIns)
  BY ParamAssumption DEF ParamAssumption
<1>4. \A q \in PayIns : Counts(o, st, q)' \in Int
  BY DEF TypeOK, PayRecord, Counts
<1>5. IntOn(f, PayIns) /\ IntOn(g, PayIns)
  BY <1>1, <1>2, <1>4, CountsType DEF IntOn
<1>6. \A q \in PayIns \ {p} : f[q] = g[q]
  BY <1>1, <1>2 DEF Counts
<1>7. SumFunctionOnSet(g, PayIns) = SumFunctionOnSet(f, PayIns) + (g[p] - f[p])
  BY <1>3, <1>5, <1>6, SumAt
<1>8. SumFunctionOnSet(f, PayIns) \in Int
  BY <1>3, <1>5, SumType
<1>9. /\ Sum(o, st) = SumFunctionOnSet(f, PayIns)
      /\ Sum(o, st)' = SumFunctionOnSet(g, PayIns)
      /\ f[p] = Counts(o, st, p) /\ g[p] = Counts(o, st, p)'
  BY <1>1, <1>2 DEF Sum
<1> QED BY <1>4, <1>7, <1>8, <1>9, CountsType

\* Payments that count nothing negative sum up to nothing negative.
LEMMA SumNotNegative ==
    ASSUME TypeOK', NEW o, NEW st, \A p \in PaymentsOf(o) : pay_ins'[p].amo_out >= 0
    PROVE  Sum(o, st)' \in Int /\ Sum(o, st)' >= 0
<1>1. PICK g : g = [q \in PayIns |-> Counts(o, st, q)']
  OBVIOUS
<1>2. IsFiniteSet(PayIns)
  BY ParamAssumption DEF ParamAssumption
<1>3. \A q \in PayIns : g[q] \in Nat
  BY <1>1 DEF TypeOK, PayRecord, Counts, PaymentsOf
<1>4. SumFunctionOnSet(g, PayIns) \in Nat
  BY <1>2, <1>3, SumNat
<1>5. Sum(o, st)' = SumFunctionOnSet(g, PayIns)
  BY <1>1 DEF Sum
<1> QED BY <1>4, <1>5

\* A step that moves nothing between the sums of the bill of a payment.
Quiet(p) ==
    /\ pay_ins'[p].status # pay_ins[p].status =>
           /\ pay_ins[p].status \notin {"SOFT", "HARD", "INVALID"}
           /\ pay_ins'[p].status \notin {"SOFT", "HARD", "TRUE"}
    /\ pay_ins[p].status \in {"SOFT", "HARD"} => pay_ins'[p].amo_out = pay_ins[p].amo_out
    /\ pay_ins[p].status = "TRUE" => pay_ins'[p].amo_ret = pay_ins[p].amo_ret
    /\ OpenBill(OrderOf[p]) /\ pay_ins[p].amo_out >= 0 => pay_ins'[p].amo_out >= 0

\* The sums stay true of a bill that no payment moves.
LEMMA QuietKeeps ==
    ASSUME TypeOK, NEW o \in ShopOrders, SumsInv(o),
           shop_orders'[o] = shop_orders[o],
           \A p \in PaymentsOf(o) : Quiet(p)
    PROVE  SumsInv(o)'
<1>1. \A st \in {"SOFT", "HARD"}, p \in PayIns : Counts(o, st, p)' = Counts(o, st, p)
  BY DEF Counts, Quiet, PaymentsOf
<1>2. Sum(o, "SOFT")' = Sum(o, "SOFT") /\ Sum(o, "HARD")' = Sum(o, "HARD")
  BY <1>1, SumKept
<1>3. OpenInv(o)'
  BY <1>2 DEF SumsInv, OpenInv, OpenBill, Quiet, PaymentsOf
<1>4. ExpiredInv(o)'
  BY DEF SumsInv, ExpiredInv, Quiet, PaymentsOf
<1>5. AgreeInv(o)'
  BY <1>2 DEF SumsInv, AgreeInv, SumsAgree, Quiet, PaymentsOf
<1> QED BY <1>3, <1>4, <1>5 DEF SumsInv

\* A row that is not touched is quiet.
LEMMA SameIsQuiet ==
    ASSUME NEW p \in PayIns, pay_ins'[p] = pay_ins[p]
    PROVE  Quiet(p)
BY DEF Quiet

\* It is not negative while the bill may expire: what is left to pay is more
\* than nothing.
LEMMA AmoOutsPositive ==
    ASSUME TypeOK, NEW p \in PayIns, NEW v \in Visits, Seen(p, v), NEW amo \in AmoOuts(p, v),
           OpenBill(OrderOf[p]), OrderInv(OrderOf[p]), OpenInv(OrderOf[p])
    PROVE  amo >= 0
<1> DEFINE o == OrderOf[p]
<1>1. o \in ShopOrders /\ v.bill = shop_orders[o] /\ v.pay.amo_out = pay_ins[p].amo_out
  BY Params DEF Seen
<1>2. CASE v.pay.amo_out # 0
  <2>1. amo = v.pay.amo_out
    BY <1>2, AmoOutsKept
  <2> QED BY <1>1, <2>1 DEF OpenInv, PaymentsOf
<1>3. CASE v.pay.amo_out = 0 /\ p \in SameCurr
  BY <1>3, VisitType DEF AmoOuts, PayRecord
<1>4. CASE v.pay.amo_out = 0 /\ p \notin SameCurr
  <2>1. AllPayed(v.bill) < Price[o]
    BY <1>1 DEF OrderInv, OpenBill
  <2>2. AllPayed(v.bill) \in Int /\ Price[o] \in Int
    BY Params, VisitType DEF AllPayed, OrderRecord
  <2>3. ASSUME NEW w \in Worth[p] PROVE Accurate(o, v.bill, w) >= 0
    <3>1. w \in Nat
      BY Params
    <3>2. Accurate(o, v.bill, w) \in {w, Price[o] - AllPayed(v.bill)}
      BY DEF Accurate
    <3> HIDE DEF o
    <3> QED BY <2>1, <2>2, <3>1, <3>2
  <2> QED BY <1>4, <2>3 DEF AmoOuts
<1> QED BY <1>2, <1>3, <1>4

\* What a counted payment leaves in its row: the change goes back only of one
\* that is fully confirmed.
LEMMA CountedRow ==
    ASSUME TypeOK, NEW p \in PayIns, NEW v \in Visits, NEW row \in PayRecord, NEW new \in PayStatus,
           NEW amo \in Int, CountPayment(p, v, row, new, amo)
    PROVE  /\ \A q \in PayIns \ {p} : pay_ins'[q] = pay_ins[q]
           /\ pay_ins'[p].status = new /\ pay_ins'[p].amo_out = row.amo_out
           /\ \/ pay_ins'[p].amo_ret = row.amo_ret
              \/ new = "TRUE" /\ Change(p, v, amo) > 0
<1> DEFINE paid == [row EXCEPT !.status = new]
<1>1. /\ paid \in PayRecord /\ paid.status = new
      /\ paid.amo_out = row.amo_out /\ paid.amo_ret = row.amo_ret
  BY DEF PayRecord
<1>2. \/ new = "TRUE" /\ ReturnPayInsOne(paid, p, v.pay.amo_ret, Change(p, v, amo), "TRUE")
      \/ SavePayIn(paid, p)
  BY DEF CountPayment
<1> HIDE DEF paid
<1>3. CASE SavePayIn(paid, p)
  BY <1>1, <1>3 DEF SavePayIn, TypeOK
<1>4. CASE new = "TRUE" /\ ReturnPayInsOne(paid, p, v.pay.amo_ret, Change(p, v, amo), "TRUE")
  <2> DEFINE r == Returned(paid, p, v.pay.amo_ret, Change(p, v, amo), "TRUE")
  <2>1. pay_ins' = [pay_ins EXCEPT ![p] = r]
    BY <1>4 DEF ReturnPayInsOne
  <2>2. /\ r.status = new /\ r.amo_out = row.amo_out
        /\ r.amo_ret = row.amo_ret \/ Change(p, v, amo) > 0
    BY <1>1, <1>4 DEF Returned, CanReturn, PayRecord
  <2> HIDE DEF r
  <2> QED BY <1>4, <2>1, <2>2 DEF TypeOK
<1> QED BY <1>2, <1>3, <1>4

\* What it leaves in the row of the bill.
LEMMA CountedOrder ==
    ASSUME TypeOK, NEW p \in PayIns, NEW v \in Visits, Seen(p, v), NEW row \in PayRecord, NEW new \in PayStatus,
           NEW amo \in Int, CountPayment(p, v, row, new, amo)
    PROVE  LET o == OrderOf[p]
               old == shop_orders[o]
               was == pay_ins[p].status
           IN  /\ \A b \in ShopOrders \ {o} : shop_orders'[b] = shop_orders[b]
               /\ old.status \notin Unused
               /\ shop_orders'[o].payed_soft =
                      old.payed_soft - Part(was, "SOFT", amo) + Part(new, "SOFT", amo)
               /\ shop_orders'[o].payed_hard =
                      old.payed_hard - Part(was, "HARD", amo) + Part(new, "HARD", amo)
               /\ shop_orders'[o].payed_true =
                      old.payed_true + Part(new, "TRUE", Taken(p, v, amo))
               /\ OpenBill(o)' => OpenBill(o) /\ AllPayed(shop_orders'[o]) < Price[o]
               /\ shop_orders'[o].status # "EXPIRED"
<1> DEFINE o == OrderOf[p]
           old == shop_orders[o]
           was == pay_ins[p].status
           s == Counted(old, was, new, amo, Taken(p, v, amo))
           st == NewStatus(Price[o], s, old.status)
<1>1. /\ o \in ShopOrders /\ Price[o] \in Nat /\ old \in OrderRecord
      /\ v.bill = old /\ v.pay.status = was
  BY Params DEF TypeOK, Seen
<1>2. s \in OrderRecord /\ st \in OrderStatus
  BY <1>1, ChangeType, CountedType, NewStatusType
<1>3. shop_orders' = [shop_orders EXCEPT ![o] = [s EXCEPT !.status = st]]
  BY <1>1, SeenCounted
<1>11. old.status \notin Unused
  BY <1>1 DEF CountPayment
<1>4. /\ s.payed_soft = old.payed_soft - Part(was, "SOFT", amo) + Part(new, "SOFT", amo)
      /\ s.payed_hard = old.payed_hard - Part(was, "HARD", amo) + Part(new, "HARD", amo)
      /\ s.payed_true = old.payed_true + Part(new, "TRUE", Taken(p, v, amo))
      /\ s.status = IF old.status = "NEW" THEN "FILL" ELSE old.status
  BY DEF Counted
<1> HIDE DEF s
<1>5. /\ st \in {s.status, "CLOSED", "HARD", "SOFT"}
      /\ st \in {"NEW", "FILL"} /\ Price[o] > 0 => AllPayed(s) < Price[o]
  <2>1. AllPayed(s) \in Int
    BY <1>2 DEF AllPayed, OrderRecord
  <2> QED BY <1>1, <2>1 DEF NewStatus
<1> HIDE DEF st
<1>6. /\ shop_orders'[o].status = st
      /\ shop_orders'[o].payed_soft = s.payed_soft
      /\ shop_orders'[o].payed_hard = s.payed_hard
      /\ shop_orders'[o].payed_true = s.payed_true
      /\ AllPayed(shop_orders'[o]) = AllPayed(s)
  BY <1>1, <1>2, <1>3 DEF TypeOK, OrderRecord, AllPayed
<1>7. \A b \in ShopOrders \ {o} : shop_orders'[b] = shop_orders[b]
  BY <1>3 DEF TypeOK
<1>8. OpenBill(o)' => OpenBill(o) /\ AllPayed(shop_orders'[o]) < Price[o]
  BY <1>11, <1>4, <1>5, <1>6 DEF OpenBill, Unused
<1>9. shop_orders'[o].status # "EXPIRED"
  BY <1>11, <1>4, <1>5, <1>6 DEF Unused
<1> HIDE DEF old, was, o
<1>12. /\ shop_orders'[o].payed_soft =
                      old.payed_soft - Part(was, "SOFT", amo) + Part(new, "SOFT", amo)
       /\ shop_orders'[o].payed_hard =
                      old.payed_hard - Part(was, "HARD", amo) + Part(new, "HARD", amo)
       /\ shop_orders'[o].payed_true =
                      old.payed_true + Part(new, "TRUE", Taken(p, v, amo))
  BY <1>4, <1>6
<1> QED BY <1>11, <1>7, <1>8, <1>9, <1>12 DEF o, old, was
\* A visit in time that counts: with the amount that the row keeps, or -1 for a
\* payment that is not found.
Counting(p, v, row, new, amo) ==
    /\ pay_ins[p].status \in Pending /\ row.status = pay_ins[p].status
    /\ row.amo_ret = 0 /\ amo # 0
    /\ \/ new = "INVALID" /\ row.amo_out = pay_ins[p].amo_out /\ amo = -1
       \/ new \in {"SOFT", "HARD", "TRUE"} /\ row.amo_out = amo /\ amo \in AmoOuts(p, v)

\* The values of the other payments do not change; that of this one is added
\* to the sum of the new status and taken off that of the old one.
LEMMA CountedSums ==
    ASSUME TypeOK, TypeOK', NEW p \in PayIns, NEW v \in Visits, Seen(p, v),
           NEW row \in PayRecord,
           NEW new \in PayStatus, NEW amo \in Int, CountPayment(p, v, row, new, amo),
           Counting(p, v, row, new, amo), RatedInv(p), NEW st \in {"SOFT", "HARD"}
    PROVE  LET o == OrderOf[p]
               was == pay_ins[p].status
           IN  /\ Sum(o, st) \in Int
               /\ Sum(o, st)' =
                      Sum(o, st) + (Part(new, st, amo) - Part(was, st, pay_ins[p].amo_out))
               /\ new # "INVALID" => Part(was, st, pay_ins[p].amo_out) = Part(was, st, amo)
<1> DEFINE o == OrderOf[p]
           was == pay_ins[p].status
<1>1. /\ \A q \in PayIns \ {p} : pay_ins'[q] = pay_ins[q]
      /\ pay_ins'[p].status = new /\ pay_ins'[p].amo_out = row.amo_out
  BY CountedRow
<1>2. /\ Sum(o, st) \in Int
      /\ Sum(o, st)' = Sum(o, st) + (Counts(o, st, p)' - Counts(o, st, p))
  BY <1>1, SumMoved
<1>3. Counts(o, st, p) = Part(was, st, pay_ins[p].amo_out)
  BY DEF Counts, Part
<1>4. Counts(o, st, p)' = Part(new, st, amo)
  <2>1. new = st => row.amo_out = amo
    BY DEF Counting
  <2> QED BY <1>1, <2>1 DEF Counts, Part
<1>5. new # "INVALID" => Part(was, st, pay_ins[p].amo_out) = Part(was, st, amo)
  BY AmoOutsKept DEF Counting, RatedInv, Part, Seen
<1> QED BY <1>2, <1>3, <1>4, <1>5

\* Change goes back only when payed_true comes up to the price.
LEMMA ChangeFills ==
    ASSUME NEW p \in PayIns, NEW v \in Visits, NEW amo \in Int, Change(p, v, amo) > 0
    PROVE  v.bill.payed_true + Taken(p, v, amo) = Price[OrderOf[p]]
<1> DEFINE o == OrderOf[p]
<1>1. o \in ShopOrders /\ Price[o] \in Nat
  BY Params
<1>2. v.bill.payed_true \in Int
  BY VisitType DEF OrderRecord
<1>3. amo - Taken(p, v, amo) > 0
  BY DEF Change
<1>4. Price[o] > 0 /\ OverLimit(p, v, amo)
  BY <1>3 DEF Taken
<1> QED BY <1>1, <1>2, <1>4 DEF Taken

\* Counting a payment keeps the sums true of its bill.
LEMMA CountPaymentKeepsSums ==
    ASSUME TypeOK, TypeOK', NEW p \in PayIns, NEW v \in Visits, Seen(p, v),
           NEW row \in PayRecord,
           NEW new \in PayStatus, NEW amo \in Int, CountPayment(p, v, row, new, amo),
           Counting(p, v, row, new, amo), RatedInv(p),
           OrderInv(OrderOf[p]), SumsInv(OrderOf[p])
    PROVE  SumsInv(OrderOf[p])'
<1> DEFINE o == OrderOf[p]
           old == shop_orders[o]
           was == pay_ins[p].status
<1>1. o \in ShopOrders /\ Price[o] \in Nat
  BY Params
<1>2. /\ \A q \in PayIns \ {p} : pay_ins'[q] = pay_ins[q]
      /\ pay_ins'[p].status = new /\ pay_ins'[p].amo_out = row.amo_out
      /\ pay_ins'[p].amo_ret = 0 \/ (new = "TRUE" /\ Change(p, v, amo) > 0)
  BY CountedRow DEF Counting
<1>3. /\ old.status \notin Unused
      /\ shop_orders'[o].payed_soft =
             old.payed_soft - Part(was, "SOFT", amo) + Part(new, "SOFT", amo)
      /\ shop_orders'[o].payed_hard =
             old.payed_hard - Part(was, "HARD", amo) + Part(new, "HARD", amo)
      /\ shop_orders'[o].payed_true = old.payed_true + Part(new, "TRUE", Taken(p, v, amo))
      /\ OpenBill(o)' => OpenBill(o) /\ AllPayed(shop_orders'[o]) < Price[o]
      /\ shop_orders'[o].status # "EXPIRED"
  BY CountedOrder
<1>4. /\ Sum(o, "SOFT") \in Int /\ Sum(o, "HARD") \in Int
      /\ Sum(o, "SOFT")' =
             Sum(o, "SOFT") + (Part(new, "SOFT", amo) - Part(was, "SOFT", pay_ins[p].amo_out))
      /\ Sum(o, "HARD")' =
             Sum(o, "HARD") + (Part(new, "HARD", amo) - Part(was, "HARD", pay_ins[p].amo_out))
      /\ new # "INVALID" =>
             /\ Part(was, "SOFT", pay_ins[p].amo_out) = Part(was, "SOFT", amo)
             /\ Part(was, "HARD", pay_ins[p].amo_out) = Part(was, "HARD", amo)
  BY CountedSums
<1>5. /\ old.payed_soft \in Int /\ old.payed_hard \in Int /\ old.payed_true \in Int
      /\ pay_ins[p].amo_out \in Int
  BY <1>1 DEF TypeOK, OrderRecord, PayRecord
<1>6. \A is, st : Part(is, st, amo) \in Int /\ Part(is, st, pay_ins[p].amo_out) \in Int
  BY <1>5 DEF Part
<1>7. ExpiredInv(o)'
  BY <1>3 DEF ExpiredInv
<1>8. AgreeInv(o)'
  <2>1. CASE new = "INVALID"
    BY <1>2, <2>1 DEF AgreeInv, PaymentsOf
  <2>2. CASE \E q \in PaymentsOf(o) : q # p /\ pay_ins[q].status = "INVALID"
    BY <1>2, <2>2 DEF AgreeInv, PaymentsOf
  <2>3. CASE new # "INVALID" /\ ~ \E q \in PaymentsOf(o) : q # p /\ pay_ins[q].status = "INVALID"
    <3>1. was # "INVALID"
      BY DEF Counting, Pending
    <3>2. SumsAgree(o)
      BY <1>3, <2>3, <3>1 DEF SumsInv, AgreeInv
    <3>3. old.payed_soft = Sum(o, "SOFT") /\ old.payed_hard = Sum(o, "HARD")
      BY <3>2 DEF SumsAgree
    <3>4. /\ shop_orders'[o].payed_soft = Sum(o, "SOFT")'
          /\ shop_orders'[o].payed_hard = Sum(o, "HARD")'
      <4> HIDE DEF o, old, was
      <4> QED BY <1>3, <1>4, <1>5, <1>6, <2>3, <3>3
    <3> QED BY <3>4 DEF AgreeInv, SumsAgree
  <2> QED BY <2>1, <2>2, <2>3
<1>9. ASSUME OpenBill(o)' PROVE OpenInv(o)'
  <2>1. OpenBill(o) /\ AllPayed(shop_orders'[o]) < Price[o]
    BY <1>3, <1>9
  <2>2. \A q \in PaymentsOf(o) :
            pay_ins[q].amo_out >= 0 /\ (pay_ins[q].status = "TRUE" => pay_ins[q].amo_ret = 0)
    BY <2>1 DEF SumsInv, OpenInv
  <2>3. old.payed_soft >= Sum(o, "SOFT") /\ old.payed_hard >= Sum(o, "HARD")
    BY <2>1 DEF SumsInv, OpenInv
  <2>4. p \in PaymentsOf(o) /\ pay_ins[p].amo_out >= 0
    BY <2>2 DEF PaymentsOf
  <2>5. row.amo_out >= 0
    <3>1. CASE new = "INVALID"
      BY <2>4, <3>1 DEF Counting
    <3>2. CASE new # "INVALID"
      <4>1. amo \in AmoOuts(p, v) /\ row.amo_out = amo
        BY <3>2 DEF Counting
      <4>2. amo >= 0
        BY <2>1, <4>1, AmoOutsPositive DEF SumsInv
      <4> QED BY <4>1, <4>2
    <3> QED BY <3>1, <3>2
  <2>6. \A q \in PaymentsOf(o) : pay_ins'[q].amo_out >= 0
    BY <1>2, <2>2, <2>5 DEF PaymentsOf
  <2>7. /\ Part(was, "SOFT", pay_ins[p].amo_out) >= Part(was, "SOFT", amo)
        /\ Part(was, "HARD", pay_ins[p].amo_out) >= Part(was, "HARD", amo)
    <3>1. CASE new = "INVALID"
      <4>1. amo = -1
        BY <3>1 DEF Counting
      <4> HIDE DEF o, was
      <4> QED BY <1>5, <2>4, <4>1 DEF Part
    <3>2. CASE new # "INVALID"
      <4> HIDE DEF o, was
      <4> QED BY <1>4, <1>6, <3>2
    <3> QED BY <3>1, <3>2
  <2>8. /\ shop_orders'[o].payed_soft >= Sum(o, "SOFT")'
        /\ shop_orders'[o].payed_hard >= Sum(o, "HARD")'
    <3> HIDE DEF o, old, was
    <3> QED BY <1>3, <1>4, <1>5, <1>6, <2>3, <2>7
  <2>9. ~ (new = "TRUE" /\ Change(p, v, amo) > 0)
    <3> SUFFICES ASSUME new = "TRUE", Change(p, v, amo) > 0 PROVE FALSE
      OBVIOUS
    <3>1. old.payed_true + Taken(p, v, amo) = Price[o]
      BY ChangeFills DEF Seen
    <3>2. shop_orders'[o].payed_true = Price[o]
      BY <1>3, <3>1 DEF Part
    <3>3. /\ Sum(o, "SOFT")' \in Int /\ Sum(o, "SOFT")' >= 0
          /\ Sum(o, "HARD")' \in Int /\ Sum(o, "HARD")' >= 0
      BY <2>6, SumNotNegative
    <3>4. shop_orders'[o].payed_soft \in Int /\ shop_orders'[o].payed_hard \in Int
      BY <1>1 DEF TypeOK, OrderRecord
    <3>5. shop_orders'[o].payed_soft >= 0 /\ shop_orders'[o].payed_hard >= 0
      <4> HIDE DEF o
      <4> QED BY <2>8, <3>3, <3>4
    <3>6. AllPayed(shop_orders'[o]) >= Price[o]
      <4> HIDE DEF o
      <4> QED BY <1>1, <3>2, <3>4, <3>5 DEF AllPayed
    <3>7. AllPayed(shop_orders'[o]) \in Int
      <4> HIDE DEF o
      <4> QED BY <1>1, <3>2, <3>4 DEF AllPayed
    <3> HIDE DEF o
    <3> QED BY <1>1, <2>1, <3>6, <3>7
  <2>10. \A q \in PaymentsOf(o) : pay_ins'[q].status = "TRUE" => pay_ins'[q].amo_ret = 0
    BY <1>2, <2>2, <2>9 DEF PaymentsOf
  <2>11. PaymentsOf(o)' = PaymentsOf(o)
    BY DEF PaymentsOf
  <2> HIDE DEF o
  <2> QED BY <2>6, <2>8, <2>10, <2>11 DEF OpenInv
<1>10. OpenInv(o)'
  BY <1>9 DEF OpenInv
<1> QED BY <1>7, <1>8, <1>10 DEF SumsInv

\* A visit that only keeps the row of one payment up to date.
LEMMA QuietRow ==
    ASSUME TypeOK, NEW p \in PayIns, UNCHANGED shop_orders, Quiet(p),
           \A q \in PayIns \ {p} : pay_ins'[q] = pay_ins[q],
           NEW o \in ShopOrders, SumsInv(o)
    PROVE  SumsInv(o)'
<1>1. \A q \in PaymentsOf(o) : Quiet(q)
  BY SameIsQuiet DEF PaymentsOf
<1> QED BY <1>1, QuietKeeps

\* A return of something, which return_pay_ins_one does not refuse.
LEMMA ReturnsAll ==
    ASSUME TypeOK, NEW p \in PayIns, PayInv(p), pay_ins[p].status \in Pending,
           NEW row \in PayRecord, NEW ret,
           ReturnPayInsOne(row, p, ret, pay_ins[p].amount, "RETURNED")
    PROVE  /\ \A q \in PayIns \ {p} : pay_ins'[q] = pay_ins[q]
           /\ pay_ins'[p].amo_out = row.amo_out
           /\ pay_ins'[p].amo_ret = ret + pay_ins[p].amount
           /\ pay_ins'[p].status = "RETURNED"
<1>1. CanReturn(p, pay_ins[p].amount)
  BY DEF CanReturn, PayInv, Pending
<1>2. pay_ins' = [pay_ins EXCEPT ![p] =
          [row EXCEPT !.amo_ret = ret + pay_ins[p].amount, !.status = "RETURNED"]]
  BY <1>1 DEF ReturnPayInsOne, Returned
<1> QED BY <1>2 DEF TypeOK, PayRecord

\* A payment that comes late goes back as soon as it is TRUE.
LEMMA LatePaymentKeepsSums ==
    ASSUME TypeOK, NEW p \in PayIns, NEW v \in Visits, Seen(p, v),
           NEW row \in PayRecord, NEW new \in PayStatus,
           LatePayment(p, v, row, new), PayInv(p), pay_ins[p].status \in Pending,
           SumsInv(OrderOf[p])
    PROVE  /\ SumsInv(OrderOf[p])'
           /\ \A q \in PayIns \ {p} : pay_ins'[q] = pay_ins[q]
           /\ pay_ins'[p].amo_out = row.amo_out
           /\ pay_ins'[p].status = IF new = "TRUE" THEN "RETURNED" ELSE new
<1> DEFINE paid == [row EXCEPT !.status = new]
           b == OrderOf[p]
<1>1. /\ paid \in PayRecord /\ paid.status = new /\ paid.amo_out = row.amo_out
      /\ UNCHANGED shop_orders /\ b \in ShopOrders /\ shop_orders[b].status \in Unused
  BY Params DEF PayRecord, LatePayment, orderVars, Seen
<1>2. \/ new = "TRUE" /\ ReturnPayInsOne(paid, p, v.pay.amo_ret, pay_ins[p].amount, "RETURNED")
      \/ new # "TRUE" /\ SavePayIn(paid, p)
  BY DEF LatePayment, Seen
<1> HIDE DEF paid
<1>3. /\ \A q \in PayIns \ {p} : pay_ins'[q] = pay_ins[q]
      /\ pay_ins'[p].amo_out = row.amo_out
      /\ pay_ins'[p].status = IF new = "TRUE" THEN "RETURNED" ELSE new
  <2>1. CASE new = "TRUE" /\ ReturnPayInsOne(paid, p, v.pay.amo_ret, pay_ins[p].amount, "RETURNED")
    BY <1>1, <2>1, ReturnsAll
  <2>2. CASE new # "TRUE" /\ SavePayIn(paid, p)
    BY <1>1, <2>2 DEF SavePayIn, TypeOK
  <2> QED BY <1>2, <2>1, <2>2
<1>4. OpenInv(b)' /\ AgreeInv(b)'
  BY <1>1 DEF OpenInv, OpenBill, AgreeInv, Unused
<1>5. ExpiredInv(b)'
  BY <1>1, <1>3 DEF SumsInv, ExpiredInv, PaymentsOf
<1> QED BY <1>3, <1>4, <1>5 DEF SumsInv

\* A visit in time keeps the sums of the bill, and no payment is on a sum with
\* no value.
LEMMA DecideKeepsSums ==
    ASSUME TypeOK, TypeOK', NEW p \in PayIns, NEW v \in Visits, Seen(p, v), Decide(p, v),
           p \in pay_ins_stack, PayInv(p), RatedInv(p),
           OrderInv(OrderOf[p]), SumsInv(OrderOf[p])
    PROVE  /\ SumsInv(OrderOf[p])'
           /\ RatedInv(p)'
           /\ \A q \in PayIns \ {p} : pay_ins'[q] = pay_ins[q]
<1> DEFINE o == OrderOf[p]
<1>1. PICK row \in PayRecord :
        /\ RowOf(p, row)
        /\ \/ \E new \in PayStatus, amo \in Int : Settles(p, v, row, new, amo)
           \/ Keeps(p, v, row)
           \/ Refuses(p, v, row)
  BY DecideForms
<1>2. /\ pay_ins[p].status \in Pending /\ row.status = pay_ins[p].status
      /\ row.amo_ret = 0 /\ o \in ShopOrders
      /\ v.pay.amo_out = pay_ins[p].amo_out /\ v.pay.amount = pay_ins[p].amount
  BY <1>1, Params DEF PayInv, Pending, RowOf, Seen
<1>3. CASE \E new \in PayStatus, amo \in Int : Settles(p, v, row, new, amo)
  <2>1. PICK new \in PayStatus, amo \in Int : Settles(p, v, row, new, amo)
    BY <1>3
  <2>2. Counting(p, v, row, new, amo)
    BY <1>2, <2>1 DEF Settles, Counting
  <2>3. new \in {"SOFT", "HARD"} => row.amo_out # 0
    BY <2>2 DEF Counting
  <2>4. CASE LatePayment(p, v, row, new)
    <3>1. /\ SumsInv(o)'
          /\ \A q \in PayIns \ {p} : pay_ins'[q] = pay_ins[q]
          /\ pay_ins'[p].amo_out = row.amo_out
          /\ pay_ins'[p].status \in {new, "RETURNED"}
      BY <1>2, <2>4, LatePaymentKeepsSums
    <3> QED BY <2>3, <3>1 DEF RatedInv
  <2>5. CASE CountPayment(p, v, row, new, amo)
    <3>1. SumsInv(o)'
      BY <2>2, <2>5, CountPaymentKeepsSums
    <3>2. /\ \A q \in PayIns \ {p} : pay_ins'[q] = pay_ins[q]
          /\ pay_ins'[p].status = new /\ pay_ins'[p].amo_out = row.amo_out
      BY <2>5, CountedRow
    <3> QED BY <2>3, <3>1, <3>2 DEF RatedInv
  <2> QED BY <2>1, <2>4, <2>5 DEF Settles
<1>4. CASE Keeps(p, v, row)
  <2>1. PICK amo \in AmoOuts(p, v) :
          row.amo_out = IF amo # v.pay.amo_out THEN amo ELSE pay_ins[p].amo_out
    BY <1>4 DEF Keeps
  <2>2. row.amo_out = amo /\ (pay_ins[p].amo_out # 0 => amo = pay_ins[p].amo_out)
    BY <1>2, <2>1, AmoOutsKept
  <2>3. /\ pay_ins'[p] = row /\ UNCHANGED shop_orders
        /\ \A q \in PayIns \ {p} : pay_ins'[q] = pay_ins[q]
    BY <1>4 DEF Keeps, SavePayIn, orderVars, TypeOK
  <2>4. RatedInv(p)' /\ (pay_ins[p].status \in {"SOFT", "HARD"} =>
                             pay_ins'[p].amo_out = pay_ins[p].amo_out)
    BY <1>2, <2>2, <2>3 DEF RatedInv
  <2>5. OpenBill(o) => amo >= 0
    BY AmoOutsPositive DEF SumsInv
  <2>6. Quiet(p)
    BY <1>2, <2>2, <2>3, <2>4, <2>5 DEF Quiet, Pending
  <2> QED BY <1>2, <2>3, <2>4, <2>6, QuietRow
<1>5. CASE Refuses(p, v, row)
  <2>1. pay_ins[p].amo_out = 0 /\ row.amo_out = 0 /\ UNCHANGED shop_orders
    BY <1>2, <1>5 DEF Refuses, orderVars
  <2>2. pay_ins[p].status = "NEW"
    BY <1>2, <2>1 DEF RatedInv, Pending
  <2>3. /\ \A q \in PayIns \ {p} : pay_ins'[q] = pay_ins[q]
        /\ pay_ins'[p].amo_out = 0 /\ pay_ins'[p].status = "RETURNED"
    BY <1>2, <1>5, <2>1, ReturnsAll DEF Refuses
  <2>4. Quiet(p) /\ RatedInv(p)'
    BY <2>1, <2>2, <2>3 DEF Quiet, RatedInv
  <2> QED BY <1>2, <2>1, <2>3, <2>4, QuietRow
<1> QED BY <1>1, <1>3, <1>4, <1>5

\* check_expired takes an open bill and returns every confirmed payment: none
\* has a row in pay_ins_return, since nothing of it was sent back before.
LEMMA ExpiresUnreturned ==
    ASSUME IInv, BillsInv, NEW b \in ShopOrders \ torn, Expire(b),
           shop_orders[b].status \notin {"SOFT", "HARD"},
           NEW q \in PaymentsOf(b), pay_ins[q].status = "TRUE"
    PROVE  pay_ins[q].amo_ret = 0 /\ pay_ins'[q].status = "RETURNED"
<1>1. TypeOK /\ PayInv(q) /\ OrderInv(b)
  BY DEF IInv, PaymentsOf
<1>2. OpenBill(b)
  <2>1. Price[b] > 0 /\ b \in shop_orders_stack
    BY <1>1 DEF Expire, OrderInv
  <2>2. shop_orders[b].status \notin {"CLOSED", "EXPIRED", "INVALID"}
    BY <1>1, <2>1 DEF OrderInv
  <2> QED BY <1>1, <2>1, <2>2 DEF OpenBill, TypeOK, OrderRecord, OrderStatus, Unused
<1>3. pay_ins[q].amo_ret = 0 /\ q \in PayIns /\ OrderOf[q] = b
  BY <1>2 DEF BillsInv, SumsInv, OpenInv, PaymentsOf
<1>4. pay_ins_return[q] = 0 /\ pay_ins[q].amount > 0 /\ pay_ins[q] \in PayRecord
  BY <1>1, <1>3 DEF PayInv, TypeOK
<1>5. CanReturn(q, Kept(q))
  BY <1>3, <1>4 DEF CanReturn, Kept, PayRecord
<1>6. pay_ins'[q] = Returned(pay_ins[q], q, pay_ins[q].amo_ret, Kept(q), "RETURNED")
  BY <1>3 DEF Expire
<1>7. pay_ins'[q].status = "RETURNED"
  BY <1>4, <1>5, <1>6 DEF Returned, PayRecord
<1> QED BY <1>3, <1>7

\* The sums stay true of the bill that expires.
LEMMA ExpireKeepsSums ==
    ASSUME IInv, BillsInv, NEW b \in ShopOrders \ torn, Expire(b),
           shop_orders[b].status \notin {"SOFT", "HARD"}
    PROVE  SumsInv(b)' /\ \A q \in PaymentsOf(b) : RatedInv(q)'
<1>1. TypeOK
  BY DEF IInv
<1>2. (\A q \in PaymentsOf(b) : RatedInv(q)) /\ SumsInv(b)
  BY DEF BillsInv, PaymentsOf
<1>3. \A q \in PaymentsOf(b) : pay_ins[q].status # "TRUE" => pay_ins'[q] = pay_ins[q]
  BY DEF Expire, PaymentsOf
<1>4. \A q \in PaymentsOf(b) : pay_ins[q].status = "TRUE" => pay_ins'[q].status = "RETURNED"
  BY ExpiresUnreturned
<1>5. shop_orders'[b].status = "EXPIRED"
  BY <1>1 DEF Expire, TypeOK, OrderRecord
<1>6. OpenInv(b)' /\ AgreeInv(b)'
  BY <1>5 DEF OpenInv, OpenBill, AgreeInv, Unused
<1>7. ExpiredInv(b)'
  BY <1>3, <1>4 DEF ExpiredInv, PaymentsOf
<1>8. \A q \in PaymentsOf(b) : RatedInv(q)'
  BY <1>2, <1>3, <1>4 DEF RatedInv
<1> QED BY <1>6, <1>7, <1>8 DEF SumsInv

\* The service and the chains move no payment between the sums.
LEMMA ServiceKeepsSums ==
    ASSUME TypeOK, NEW p \in PayIns, Receive(p) \/ Rescan(p) \/ ReturnRefused(p)
    PROVE  /\ \A o \in ShopOrders : SumsInv(o) => SumsInv(o)'
           /\ \A q \in PayIns : RatedInv(q) => RatedInv(q)'
<1>1. TypeOK
  OBVIOUS
<1>2. UNCHANGED shop_orders /\ \A q \in PayIns \ {p} : pay_ins'[q] = pay_ins[q]
  BY <1>1 DEF Receive, Rescan, ReturnRefused, orderVars, TypeOK
<1>3. /\ pay_ins'[p].amo_out = pay_ins[p].amo_out
      /\ pay_ins'[p].amo_ret = pay_ins[p].amo_ret
      /\ \/ pay_ins'[p].status = pay_ins[p].status
         \/ pay_ins[p].status = "NONE" /\ pay_ins'[p].status = "NEW"
  <2>1. CASE Receive(p)
    <3>1. PICK m \in 0 .. curr_block[XcurrOf[p]], a \in Amounts[p] :
            pay_ins' = [pay_ins EXCEPT ![p].status = "NEW", ![p].amount = a,
                   ![p].in_block = IF m = 0 THEN curr_block[XcurrOf[p]] + 1 ELSE m]
      BY <2>1 DEF Receive
    <3>2. pay_ins[p].status = "NONE"
      BY <2>1 DEF Receive
    <3>3. /\ pay_ins'[p].status = "NEW" /\ pay_ins'[p].amo_out = pay_ins[p].amo_out
          /\ pay_ins'[p].amo_ret = pay_ins[p].amo_ret
      BY <1>1, <3>1 DEF TypeOK, PayRecord
    <3> QED BY <3>2, <3>3
  <2>2. CASE Rescan(p)
    BY <1>1, <2>2 DEF Rescan, TypeOK, PayRecord
  <2>3. CASE ReturnRefused(p)
    BY <2>3 DEF ReturnRefused
  <2> QED BY <2>1, <2>2, <2>3
<1>4. Quiet(p)
  BY <1>3 DEF Quiet
<1>5. \A q \in PayIns : RatedInv(q) => RatedInv(q)'
  BY <1>2, <1>3 DEF RatedInv
<1> QED BY <1>1, <1>2, <1>4, <1>5, QuietRow

\* What a step elsewhere leaves of a bill.
LEMMA ElsewhereKeepsSums ==
    ASSUME TypeOK, NEW b, Elsewhere(b), NEW o \in ShopOrders \ {b}, SumsInv(o)
    PROVE  SumsInv(o)'
<1>1. \A q \in PaymentsOf(o) : Quiet(q)
  BY SameIsQuiet DEF PaymentsOf, Elsewhere
<1>2. shop_orders'[o] = shop_orders[o]
  BY DEF Elsewhere
<1> QED BY <1>1, <1>2, QuietKeeps

\* It is about two tables only.
LEMMA StutterKeepsSums ==
    ASSUME TypeOK, UNCHANGED <<pay_ins, shop_orders>>, NEW o \in ShopOrders, SumsInv(o)
    PROVE  SumsInv(o)'
<1>1. \A q \in PaymentsOf(o) : Quiet(q)
  BY SameIsQuiet DEF PaymentsOf
<1> QED BY <1>1, QuietKeeps

\* Empty sums agree with no payments.
LEMMA InitBillsInv == Init => BillsInv
<1> SUFFICES ASSUME Init PROVE BillsInv
  OBVIOUS
<1>1. \A p \in PayIns : RatedInv(p) /\ pay_ins[p].status = "NONE" /\ pay_ins[p].amo_out = 0
  BY DEF Init, RatedInv, NoPay
<1>2. ASSUME NEW o \in ShopOrders, NEW st PROVE Sum(o, st) = 0
  <2>1. PICK f : f = [p \in PayIns |-> Counts(o, st, p)]
    OBVIOUS
  <2>2. IsFiniteSet(PayIns)
    BY ParamAssumption DEF ParamAssumption
  <2>3. \A p \in PayIns : f[p] = 0
    BY <1>1, <2>1 DEF Counts
  <2>4. SumFunctionOnSet(f, PayIns) = 0
    BY <2>2, <2>3, SumZero
  <2> QED BY <2>1, <2>4 DEF Sum
<1>3. ASSUME NEW o \in ShopOrders PROVE SumsInv(o)
  <2>1. Sum(o, "SOFT") = 0 /\ Sum(o, "HARD") = 0
    BY <1>2
  <2>2. shop_orders[o] = NewBill
    BY DEF Init
  <2> QED BY <1>1, <2>1, <2>2
          DEF SumsInv, OpenInv, ExpiredInv, AgreeInv, SumsAgree, PaymentsOf, NewBill
<1> QED BY <1>1, <1>3 DEF BillsInv

\* Every step keeps the sums of a bill that is not torn.
LEMMA NextBillsInv == IInv /\ IInv' /\ BillsInv /\ [Next]_vars => BillsInv'
<1> SUFFICES ASSUME IInv, IInv', BillsInv, [Next]_vars,
                    NEW o \in ShopOrders \ torn'
             PROVE  SumsInv(o)' /\ \A q \in PaymentsOf(o) : RatedInv(q)'
  BY Params DEF BillsInv, PaymentsOf
<1>1. TypeOK /\ TypeOK'
  BY DEF IInv
<1>2. ASSUME NEW w \in Workers, NEW p \in PayIns, InputsUpdate(w, p)
      PROVE  SumsInv(o)' /\ \A q \in PaymentsOf(o) : RatedInv(q)'
  <2>1. /\ Elsewhere(OrderOf[p]) /\ o \notin torn
        /\ SumsInv(o) /\ \A q \in PaymentsOf(o) : RatedInv(q)
    BY <1>1, <1>2, WorkerWrites DEF BillsInv, PaymentsOf
  <2>2. CASE o # OrderOf[p]
    <3>1. SumsInv(o)'
      BY <1>1, <2>1, <2>2, ElsewhereKeepsSums
    <3> QED BY <2>1, <2>2, <3>1 DEF Elsewhere, PaymentsOf, RatedInv
  <2>3. CASE UNCHANGED <<payVars, orderVars>>
    <3>1. SumsInv(o)'
      BY <1>1, <2>1, <2>3, StutterKeepsSums DEF payVars, orderVars
    <3> QED BY <2>1, <2>3, <3>1 DEF payVars, RatedInv
  <2>4. CASE /\ o = OrderOf[p]
             /\ Decide(p, visit[w]) /\ Seen(p, visit[w]) /\ p \in pay_ins_stack
    <3>1. PayInv(p) /\ OrderInv(o) /\ RatedInv(p)
      BY <2>1, <2>4 DEF IInv, PaymentsOf
    <3>2. /\ SumsInv(o)' /\ RatedInv(p)'
          /\ \A q \in PayIns \ {p} : pay_ins'[q] = pay_ins[q]
      BY <1>1, <1>2, <2>1, <2>4, <3>1, WorkerWrites, DecideKeepsSums
    <3> QED BY <2>1, <3>2 DEF RatedInv, PaymentsOf
  <2> QED BY <1>1, <1>2, <2>2, <2>3, <2>4, WorkerWrites
<1>3. ASSUME NEW w \in Workers, NEW b \in ShopOrders, CheckExpired(w, b)
      PROVE  SumsInv(o)' /\ \A q \in PaymentsOf(o) : RatedInv(q)'
  <2>1. /\ Elsewhere(b) /\ Expire(b) /\ o \notin torn
        /\ b \in torn' \/ shop_orders[b].status \notin {"SOFT", "HARD"}
        /\ SumsInv(o) /\ \A q \in PaymentsOf(o) : RatedInv(q)
    BY <1>1, <1>3, WorkerExpires DEF BillsInv, PaymentsOf
  <2>2. CASE o # b
    <3>1. SumsInv(o)'
      BY <1>1, <2>1, <2>2, ElsewhereKeepsSums
    <3> QED BY <2>1, <2>2, <3>1 DEF Elsewhere, PaymentsOf, RatedInv
  <2>3. CASE o = b
    BY <2>1, <2>3, ExpireKeepsSums
  <2> QED BY <2>2, <2>3
<1>4. ASSUME UNCHANGED torn,
             NEW p \in PayIns, Receive(p) \/ Rescan(p) \/ ReturnRefused(p)
      PROVE  SumsInv(o)' /\ \A q \in PaymentsOf(o) : RatedInv(q)'
  BY <1>1, <1>4, ServiceKeepsSums DEF BillsInv, PaymentsOf
<1>5. CASE UNCHANGED <<pay_ins, shop_orders, torn>>
  <2>1. SumsInv(o)'
    BY <1>1, <1>5, StutterKeepsSums DEF BillsInv
  <2> QED BY <1>5, <2>1 DEF BillsInv, PaymentsOf, RatedInv
<1> QED BY <1>2, <1>3, <1>4, <1>5, OtherSteps DEF payVars

\* The two invariants together: the refusals of return_pay_ins_one, the sums of
\* update_payed and the bills that check_expired may take.
LEMMA BillsInvariant == Spec => [](IInv /\ BillsInv)
<1>1. Init => IInv /\ BillsInv
  BY InitIInv, InitBillsInv
<1>2. IInv /\ BillsInv /\ [Next]_vars => (IInv /\ BillsInv)'
  BY NextIInv, NextBillsInv
<1> QED BY <1>1, <1>2, PTL DEF Spec

\* check_expired leaves no confirmed payment with an expired bill, and none
\* that is confirmed later stays: every one of them goes back, whatever the
\* payments before it did to the sums of the bill.
THEOREM ExpiredIsReturned == Spec => []ExpiredReturned
<1>1. BillsInv => ExpiredReturned
  BY DEF BillsInv, SumsInv, ExpiredInv, ExpiredReturned
<1> QED BY <1>1, BillsInvariant, PTL

\* update_payed keeps payed_soft and payed_hard the sums of the SOFT and HARD
\* payments of an open bill, in whatever order the confirmations come, as long
\* as no payment of the bill became INVALID and no worker wrote to the bill what
\* follows from an old copy of it.
THEOREM PayedSumsAreValid == Spec => []PayedSumsValid
<1>1. BillsInv => PayedSumsValid
  BY DEF BillsInv, SumsInv, AgreeInv, PayedSumsValid
<1> QED BY <1>1, BillsInvariant, PTL

-----------------------------------------------------------------------------
(* Given or returned.                                                       *)
-----------------------------------------------------------------------------
(* Given or returned.                                                       *)

\* A payment is handed over in its own coin once, when it is TRUE, and then
\* nothing of it goes back: its bill is an open one, which never expires.  (A
\* priced bill with not_convert hands over what it kept of every payment.)
GivenInv(p) ==
    Price[OrderOf[p]] = 0 \/ OrderOf[p] \notin NotConvert =>
        \/ given[p] = 0
        \/ /\ Price[OrderOf[p]] = 0 /\ pay_ins[p].status = "TRUE"
           /\ given[p] = pay_ins[p].amount /\ pay_ins[p].amo_ret = 0

\* A step that hands nothing over and returns nothing handed over.
LEMMA GivenKept ==
    ASSUME UNCHANGED given,
           \A p \in PayIns : Price[OrderOf[p]] = 0 /\ pay_ins[p].status = "TRUE" =>
               /\ pay_ins'[p].status = "TRUE"
               /\ pay_ins'[p].amount = pay_ins[p].amount
               /\ pay_ins'[p].amo_ret = pay_ins[p].amo_ret
    PROVE  \A p \in PayIns : GivenInv(p) => GivenInv(p)'
BY DEF GivenInv

\* A visit to a payment that waits and hands nothing over.
LEMMA PendingGiven ==
    ASSUME NEW p \in PayIns, pay_ins[p].status \in Pending, UNCHANGED given,
           \A q \in PayIns \ {p} : pay_ins'[q] = pay_ins[q]
    PROVE  \A q \in PayIns : GivenInv(q) => GivenInv(q)'
<1>1. pay_ins[p].status # "TRUE"
  BY DEF Pending
<1> QED BY <1>1, GivenKept

\* One row changes in a visit.
LEMMA OneRowChanges ==
    ASSUME TypeOK, NEW p \in PayIns, NEW row, NEW ret, NEW amo, NEW st,
           ReturnPayInsOne(row, p, ret, amo, st) \/ SavePayIn(row, p)
    PROVE  \A q \in PayIns \ {p} : pay_ins'[q] = pay_ins[q]
<1>1. PICK new : new = Returned(row, p, ret, amo, st)
  OBVIOUS
<1>2. pay_ins' = [pay_ins EXCEPT ![p] = new] \/ pay_ins' = [pay_ins EXCEPT ![p] = row]
  BY <1>1 DEF ReturnPayInsOne, SavePayIn
<1> QED BY <1>2 DEF TypeOK

\* insert_shop_trans_order hands over a TRUE payment of an open bill, whole.
LEMMA CountPaymentGiven ==
    ASSUME TypeOK, NEW p \in PayIns, NEW v \in Visits, Seen(p, v),
           NEW row \in PayRecord, NEW new \in PayStatus,
           NEW amo \in Int, CountPayment(p, v, row, new, amo),
           pay_ins[p].status \in Pending, row.amount = pay_ins[p].amount, row.amo_ret = 0,
           NEW q \in PayIns, GivenInv(q)
    PROVE  GivenInv(q)'
<1> DEFINE o == OrderOf[p]
<1>1. \A r \in PayIns \ {p} : pay_ins'[r] = pay_ins[r]
  BY CountedRow
<1>2. Price[o] \in Nat /\ Price[OrderOf[q]] \in Nat
  BY Params
<1>3. given[q] \in Int /\ pay_ins[p].amount \in Int
  BY DEF TypeOK, PayRecord
<1>4. CASE given'[q] = given[q]
  <2>1. CASE q # p
    BY <1>1, <1>4, <2>1 DEF GivenInv
  <2>2. CASE q = p
    BY <1>4, <2>2 DEF GivenInv, Pending
  <2> QED BY <2>1, <2>2
<1>5. CASE given'[q] # given[q] /\ Price[o] = 0
  <2>1. PassOn(p, v, new, amo)
    BY <1>2, <1>5 DEF CountPayment
  <2>2. q = p /\ new = "TRUE" /\ given'[p] = given[p] + pay_ins[p].amount
    <3> DEFINE n == IF new = "TRUE" /\ o \in NotConvert THEN pay_ins[p].amount ELSE 0
    <3>1. given' = [given EXCEPT ![p] = @ + n]
      BY <2>1 DEF PassOn, Seen
    <3>2. n \in {0, pay_ins[p].amount} /\ (n # 0 => new = "TRUE")
      OBVIOUS
    <3> HIDE DEF n, o
    <3> QED BY <1>3, <1>5, <3>1, <3>2 DEF TypeOK
  <2>3. given[p] = 0
    BY <1>5, <2>2 DEF GivenInv, Pending
  <2> DEFINE paid == [row EXCEPT !.status = new]
  <2>4. paid.status = new /\ paid.amount = pay_ins[p].amount /\ paid.amo_ret = 0
    BY DEF PayRecord
  <2>5. SavePayIn(paid, p)
    BY <1>5 DEF CountPayment
  <2> HIDE DEF paid
  <2>6. pay_ins'[p] = paid
    BY <2>5 DEF SavePayIn, TypeOK
  <2>7. given'[p] = pay_ins[p].amount
    BY <1>3, <2>2, <2>3
  <2> QED BY <1>5, <2>2, <2>4, <2>6, <2>7 DEF GivenInv
<1>6. CASE given'[q] # given[q] /\ Price[o] # 0
  <2>1. PayShop(o)
    BY <1>6 DEF CountPayment
  <2>2. o \in NotConvert /\ OrderOf[q] = o
    BY <1>3, <1>6, <2>1 DEF PayShop
  <2> QED BY <1>6, <2>2 DEF GivenInv
<1> QED BY <1>4, <1>5, <1>6

\* A visit in time hands a payment over or sends it back.
LEMMA DecideGiven ==
    ASSUME TypeOK, NEW p \in PayIns, NEW v \in Visits, Seen(p, v), Decide(p, v),
           p \in pay_ins_stack, PayInv(p)
    PROVE  \A q \in PayIns : GivenInv(q) => GivenInv(q)'
<1>1. PICK row \in PayRecord :
        /\ RowOf(p, row)
        /\ \/ \E new \in PayStatus, amo \in Int : Settles(p, v, row, new, amo)
           \/ Keeps(p, v, row)
           \/ Refuses(p, v, row)
  BY DecideForms
<1>2. pay_ins[p].status \in Pending /\ row.amount = pay_ins[p].amount /\ row.amo_ret = 0
  BY <1>1 DEF PayInv, Pending, RowOf
<1>3. CASE UNCHANGED orderVars /\ \A q \in PayIns \ {p} : pay_ins'[q] = pay_ins[q]
  BY <1>2, <1>3, PendingGiven DEF orderVars
<1>4. ASSUME NEW new \in PayStatus, NEW amo \in Int, Settles(p, v, row, new, amo)
      PROVE  \A q \in PayIns : GivenInv(q) => GivenInv(q)'
  <2>1. CASE LatePayment(p, v, row, new)
    <3>1. \A q \in PayIns \ {p} : pay_ins'[q] = pay_ins[q]
      BY <2>1, OneRowChanges DEF LatePayment
    <3> QED BY <1>3, <2>1, <3>1 DEF LatePayment
  <2>2. CASE CountPayment(p, v, row, new, amo)
    BY <1>2, <2>2, CountPaymentGiven
  <2> QED BY <1>4, <2>1, <2>2 DEF Settles
<1>5. CASE Keeps(p, v, row)
  BY <1>3, <1>5, OneRowChanges DEF Keeps
<1>6. CASE Refuses(p, v, row)
  BY <1>3, <1>6, OneRowChanges DEF Refuses
<1> QED BY <1>1, <1>4, <1>5, <1>6

\* Every step keeps what is known of what was handed over.
LEMMA NextGiven ==
    ASSUME IInv, [Next]_vars, NEW q \in PayIns, OrderOf[q] \notin torn',
           OrderOf[q] \notin torn => GivenInv(q)
    PROVE  GivenInv(q)'
<1>1. TypeOK
  BY DEF IInv
<1>2. ASSUME NEW w \in Workers, NEW p \in PayIns, InputsUpdate(w, p)
      PROVE  GivenInv(q)'
  <2>1. GivenInv(q) /\ Elsewhere(OrderOf[p])
    BY <1>1, <1>2, WorkerWrites
  <2>2. CASE OrderOf[q] # OrderOf[p]
    BY <2>1, <2>2 DEF Elsewhere, GivenInv
  <2>3. CASE UNCHANGED <<payVars, orderVars>>
    BY <2>1, <2>3 DEF payVars, orderVars, GivenInv
  <2>4. CASE /\ OrderOf[q] = OrderOf[p]
             /\ Decide(p, visit[w]) /\ Seen(p, visit[w]) /\ p \in pay_ins_stack
    <3>1. OrderOf[p] \notin torn /\ visit[w] \in Visits
      BY <1>1, <1>2, <2>4, WorkerWrites
    <3>2. PayInv(p)
      BY <3>1 DEF IInv
    <3> QED BY <1>1, <2>1, <2>4, <3>1, <3>2, DecideGiven
  <2> QED BY <1>1, <1>2, <2>2, <2>3, <2>4, WorkerWrites
<1>3. ASSUME NEW w \in Workers, NEW o \in ShopOrders, CheckExpired(w, o)
      PROVE  GivenInv(q)'
  <2>1. GivenInv(q) /\ Elsewhere(o) /\ Expire(o) /\ OrderOf[q] \notin torn
    BY <1>1, <1>3, WorkerExpires
  <2>2. CASE OrderOf[q] # o
    BY <2>1, <2>2 DEF Elsewhere, GivenInv
  <2>3. CASE OrderOf[q] = o
    <3>1. OrderInv(o)
      BY <2>1, <2>3 DEF IInv
    <3>2. Price[o] > 0 /\ UNCHANGED given
      BY <2>1, <3>1 DEF Expire, OrderInv
    <3> QED BY <2>1, <2>3, <3>2 DEF GivenInv
  <2> QED BY <2>2, <2>3
<1>4. ASSUME NEW p \in PayIns, Receive(p), UNCHANGED torn PROVE GivenInv(q)'
  <2>1. UNCHANGED given /\ pay_ins[p].status = "NONE"
        /\ \A r \in PayIns \ {p} : pay_ins'[r] = pay_ins[r]
    BY <1>1, <1>4 DEF Receive, orderVars, TypeOK
  <2> QED BY <1>4, <2>1, GivenKept
<1>5. ASSUME NEW p \in PayIns, Rescan(p), UNCHANGED torn PROVE GivenInv(q)'
  <2>1. UNCHANGED given
        /\ \A r \in PayIns : /\ pay_ins'[r].status = pay_ins[r].status
                             /\ pay_ins'[r].amount = pay_ins[r].amount
                             /\ pay_ins'[r].amo_ret = pay_ins[r].amo_ret
    BY <1>1, <1>5 DEF Rescan, orderVars, TypeOK, PayRecord
  <2> QED BY <1>5, <2>1, GivenKept
<1>6. CASE UNCHANGED <<pay_ins, given, torn>>
  BY <1>6, GivenKept
<1> QED BY <1>2, <1>3, <1>4, <1>5, <1>6, OtherSteps
        DEF ReturnRefused, payVars, orderVars

\* Whatever a bill hands over of a payment in its own coin, the same coins do
\* not go back, if no priced bill is marked not_convert: such a bill is handed
\* what it holds of every payment when it closes, pending ones included, and
\* returns those that are confirmed later.
THEOREM GivenXorReturned ==
    ASSUME NotConvert \cap Priced = {}
    PROVE  Spec => []GivenOrReturned
<1> DEFINE AllGiven == \A p \in PayIns : OrderOf[p] \notin torn => GivenInv(p)
<1>1. Init => AllGiven
  BY DEF Init, GivenInv
<1>2. IInv /\ AllGiven /\ [Next]_vars => AllGiven'
  <2> SUFFICES ASSUME IInv, AllGiven, [Next]_vars, NEW q \in PayIns, OrderOf[q] \notin torn'
               PROVE  GivenInv(q)'
    OBVIOUS
  <2> QED BY NextGiven
<1>3. IInv /\ AllGiven => GivenOrReturned
  <2> SUFFICES ASSUME IInv, AllGiven, NEW p \in PayIns, OrderOf[p] \notin torn
               PROVE  given[p] + pay_ins[p].amo_ret <= pay_ins[p].amount
    BY DEF GivenOrReturned
  <2>1. OrderOf[p] \in ShopOrders /\ Price[OrderOf[p]] \in Nat
    BY Params
  <2>2. Price[OrderOf[p]] = 0 \/ OrderOf[p] \notin NotConvert
    BY <2>1 DEF Priced
  <2>3. pay_ins[p].amo_ret <= pay_ins[p].amount
    BY DEF IInv, PayInv
  <2>4. pay_ins[p].amo_ret \in Nat /\ pay_ins[p].amount \in Nat
    BY DEF IInv, TypeOK, PayRecord
  <2> QED BY <2>2, <2>3, <2>4 DEF GivenInv
<1> QED BY <1>1, <1>2, <1>3, InductiveInvariant, PTL DEF Spec

-----------------------------------------------------------------------------
(* OrdersLib implements Invoice: what the rows of the tables say about a    *)
(* bill changes only in the ways the service promises.                      *)

(* Reading the mapping.                                                     *)

\* The share of a payment by its status.
LEMMA ShareIs ==
    ASSUME NEW p \in PayIns
    PROVE  /\ pay_ins[p].status = "NONE"     => ShareOf(p) = "absent"
           /\ pay_ins[p].status \in Pending  => ShareOf(p) = "pending"
           /\ pay_ins[p].status = "INVALID"  => ShareOf(p) = "rejected"
           /\ pay_ins[p].status = "RETURNED" => ShareOf(p) = "returned"
           /\ pay_ins[p].status = "TRUE" =>
                  ShareOf(p) = IF pay_ins[p].amo_ret = 0 THEN "taken" ELSE "split"
BY DEF ShareOf, Pending

\* The abstract bill by the status of the row.
LEMMA BillIs ==
    ASSUME NEW o \in ShopOrders
    PROVE  /\ shop_orders[o].status = "CLOSED"  => BillOf(o) = "closed"
           /\ shop_orders[o].status = "EXPIRED" => BillOf(o) = "expired"
           /\ shop_orders[o].status \notin {"CLOSED", "EXPIRED"} => BillOf(o) = "open"
BY DEF BillOf

\* The abstract bill depends on shop_orders only.
LEMMA SameBills ==
    ASSUME UNCHANGED shop_orders
    PROVE  UNCHANGED Bills
BY DEF Bills, BillOf

\* A step that touches the row of one payment touches the share of that one.
LEMMA OneShare ==
    ASSUME TypeOK, NEW p \in PayIns, NEW row, pay_ins' = [pay_ins EXCEPT ![p] = row]
    PROVE  /\ Shares' = [Shares EXCEPT ![p] = Shares'[p]]
           /\ pay_ins'[p] = row
<1>1. pay_ins'[p] = row
  BY DEF TypeOK
<1>2. ASSUME NEW q \in PayIns \ {p} PROVE ShareOf(q)' = ShareOf(q)
  BY <1>2 DEF TypeOK, ShareOf
<1> QED BY <1>1, <1>2 DEF Shares

-----------------------------------------------------------------------------
(* A visit to a payment, by a worker that has read it in time.              *)

\* A return that is not refused gives the payment the status asked for.
LEMMA ReturnedRow ==
    ASSUME TypeOK, NEW p \in PayIns, NEW row \in PayRecord, pay_ins_return[p] = 0,
           NEW ret, NEW amo \in Nat, NEW st \in PayStatus,
           ReturnPayInsOne(row, p, ret, amo, st)
    PROVE  /\ Shares' = [Shares EXCEPT ![p] = Shares'[p]]
           /\ amo > 0 => pay_ins'[p].status = st
           /\ amo = 0 => pay_ins'[p].status = row.status
<1>1. PICK new : new = Returned(row, p, ret, amo, st)
  OBVIOUS
<1>2. Shares' = [Shares EXCEPT ![p] = Shares'[p]] /\ pay_ins'[p] = new
  BY <1>1, OneShare DEF ReturnPayInsOne
<1>3. amo > 0 => new.status = st
  BY <1>1 DEF Returned, CanReturn, PayRecord
<1>4. amo = 0 => new = row
  BY <1>1 DEF Returned, CanReturn
<1> QED BY <1>2, <1>3, <1>4

\* The share of a payment after its visit, and the bill if it is not counted.
Visited(p, v) ==
    /\ Shares[p] = "pending"
    /\ Shares' = [Shares EXCEPT ![p] = Shares'[p]]
    /\ \/ /\ UNCHANGED orderVars
          /\ \/ Shares'[p] = "pending"
             \/ Shares'[p] \in {"returned", "rejected"} /\ Bills[OrderOf[p]] # "open"
             \/ Shares'[p] = "returned" /\ Price[OrderOf[p]] = 0
       \/ \E row \in PayRecord, new \in PayStatus, amo \in Int :
          /\ CountPayment(p, v, row, new, amo)
          /\ new = "TRUE" => Shares'[p] \in {"taken", "split"}
          /\ Shares'[p] \in {"pending", "taken", "split", "rejected"}
          /\ Shares'[p] = "split" => Price[OrderOf[p]] > 0
          /\ Price[OrderOf[p]] = 0 /\ new = "TRUE" => Shares'[p] = "taken"

\* A bill that takes no payments any more is closed or expired.
LEMMA UnusedBill ==
    ASSUME NEW o \in ShopOrders, OrderInv(o), shop_orders[o].status \in Unused
    PROVE  Bills[o] # "open"
BY DEF Unused, OrderInv, Bills, BillOf

\* A visit as Invoice sees it: one share moves, and the shop earns only with the
\* bill that closes, or by what an open one takes.
LEMMA DecideVisited ==
    ASSUME TypeOK, NEW p \in PayIns, NEW v \in Visits, Seen(p, v), Decide(p, v),
           p \in pay_ins_stack, PayInv(p), OrderInv(OrderOf[p])
    PROVE  Visited(p, v)
<1> DEFINE o == OrderOf[p]
<1>1. o \in ShopOrders
  BY Params
<1>2. /\ pay_ins[p].status \in Pending /\ pay_ins[p].amo_ret = 0
      /\ pay_ins_return[p] = 0 /\ pay_ins[p].amount \in Nat /\ pay_ins[p].amount > 0
  BY DEF PayInv, Pending, TypeOK, PayRecord
<1>3. Shares[p] = "pending" /\ Shares'[p] = ShareOf(p)'
  BY <1>2, ShareIs DEF Shares
<1>4. v.pay.amount = pay_ins[p].amount /\ v.bill = shop_orders[o]
  BY DEF Seen
<1>5. PICK row \in PayRecord :
        /\ RowOf(p, row)
        /\ \/ \E new \in PayStatus, amo \in Int : Settles(p, v, row, new, amo)
           \/ Keeps(p, v, row)
           \/ Refuses(p, v, row)
  BY DecideForms
<1>6. row.status \in Pending /\ row.amo_ret = 0
  BY <1>2, <1>5 DEF RowOf
<1>7. CASE Keeps(p, v, row)
  <2>1. Shares' = [Shares EXCEPT ![p] = Shares'[p]] /\ pay_ins'[p] = row
    BY <1>7, OneShare DEF Keeps, SavePayIn
  <2>2. ShareOf(p)' = "pending"
    BY <1>6, <2>1 DEF ShareOf, Pending
  <2> QED BY <1>3, <1>7, <2>1, <2>2 DEF Visited, Keeps
<1>8. CASE Refuses(p, v, row)
  <2>1. /\ Shares' = [Shares EXCEPT ![p] = Shares'[p]]
        /\ pay_ins'[p].status = "RETURNED"
    BY <1>2, <1>4, <1>8, ReturnedRow DEF Refuses, PayStatus
  <2>2. ShareOf(p)' = "returned"
    BY <2>1 DEF ShareOf, Pending
  <2>3. Price[o] = 0 \/ Bills[o] # "open"
    BY <1>1, <1>4, <1>8, UnusedBill DEF Refuses, Refused
  <2> QED BY <1>3, <1>8, <2>1, <2>2, <2>3 DEF Visited, Refuses
<1>9. ASSUME NEW new \in PayStatus, NEW amo \in Int, Settles(p, v, row, new, amo)
      PROVE  Visited(p, v)
  <2> DEFINE paid == [row EXCEPT !.status = new]
  <2>1. paid \in PayRecord /\ paid.status = new /\ paid.amo_ret = 0
    BY <1>6 DEF PayRecord
  <2>2. new \in {"SOFT", "HARD", "TRUE", "INVALID"}
    BY <1>9 DEF Settles
  <2>3. CASE LatePayment(p, v, row, new)
    <3>1. Bills[o] # "open" /\ UNCHANGED orderVars
      BY <1>1, <1>4, <2>3, UnusedBill DEF LatePayment
    <3>2. CASE new = "TRUE"
      <4>1. ReturnPayInsOne(paid, p, v.pay.amo_ret, pay_ins[p].amount, "RETURNED")
        BY <1>4, <2>3, <3>2 DEF LatePayment
      <4>2. /\ Shares' = [Shares EXCEPT ![p] = Shares'[p]]
            /\ pay_ins'[p].status = "RETURNED"
        <5> HIDE DEF paid
        <5> QED BY <1>2, <2>1, <4>1, ReturnedRow DEF PayStatus
      <4>3. ShareOf(p)' = "returned"
        BY <4>2 DEF ShareOf, Pending
      <4> QED BY <1>3, <3>1, <4>2, <4>3 DEF Visited
    <3>3. CASE new # "TRUE"
      <4>1. SavePayIn(paid, p)
        BY <2>3, <3>3 DEF LatePayment
      <4>2. Shares' = [Shares EXCEPT ![p] = Shares'[p]] /\ pay_ins'[p] = paid
        <5> HIDE DEF paid
        <5> QED BY <4>1, OneShare DEF SavePayIn
      <4>3. ShareOf(p)' \in {"pending", "rejected"}
        <5> HIDE DEF paid
        <5> QED BY <2>1, <2>2, <3>3, <4>2 DEF ShareOf, Pending
      <4> QED BY <1>3, <3>1, <4>2, <4>3 DEF Visited
    <3> QED BY <3>2, <3>3
  <2>4. CASE CountPayment(p, v, row, new, amo)
    <3>1. CASE new = "TRUE" /\ Price[o] > 0
      <4>1. ReturnPayInsOne(paid, p, v.pay.amo_ret, Change(p, v, amo), "TRUE")
        BY <2>4, <3>1 DEF CountPayment
      <4>2. Change(p, v, amo) \in Nat
        BY ChangeType
      <4>3. /\ Shares' = [Shares EXCEPT ![p] = Shares'[p]]
            /\ pay_ins'[p].status = "TRUE"
        <5> HIDE DEF paid
        <5> QED BY <1>2, <2>1, <3>1, <4>1, <4>2, ReturnedRow DEF PayStatus
      <4>4. ShareOf(p)' \in {"taken", "split"}
        BY <4>3 DEF ShareOf, Pending
      <4>5. ~(Price[o] = 0)
        BY <3>1
      <4> QED BY <1>3, <2>4, <3>1, <4>3, <4>4, <4>5 DEF Visited
    <3>2. CASE ~(new = "TRUE" /\ Price[o] > 0)
      <4>1. SavePayIn(paid, p)
        BY <2>4, <3>2 DEF CountPayment
      <4>2. Shares' = [Shares EXCEPT ![p] = Shares'[p]] /\ pay_ins'[p] = paid
        <5> HIDE DEF paid
        <5> QED BY <4>1, OneShare DEF SavePayIn
      <4>3. /\ ShareOf(p)' \in {"pending", "taken", "rejected"}
            /\ new = "TRUE" => ShareOf(p)' = "taken"
        <5> HIDE DEF paid
        <5> QED BY <2>1, <2>2, <4>2 DEF ShareOf, Pending
      <4> QED BY <1>3, <2>4, <4>2, <4>3 DEF Visited
    <3> QED BY <3>1, <3>2
  <2> QED BY <1>9, <2>3, <2>4 DEF Settles
<1> QED BY <1>5, <1>7, <1>8, <1>9

\* What counting a payment does to the bill and to the earnings of its shop.
LEMMA CountedBill ==
    ASSUME TypeOK, NEW p \in PayIns, NEW v \in Visits, Seen(p, v),
           NEW row \in PayRecord, NEW new \in PayStatus,
           NEW amo \in Int, CountPayment(p, v, row, new, amo), NEW o, o = OrderOf[p]
    PROVE  /\ Bills[o] = "open"
           /\ \/ /\ Price[o] > 0
                 /\ Bills' = [Bills EXCEPT ![o] = "closed"]
                 /\ credited' = [credited EXCEPT ![o] =
                        @ + IF o \in NotConvert THEN 0 ELSE Price[o]]
              \/ UNCHANGED <<Bills, credited>>
              \/ /\ Price[o] = 0 /\ new = "TRUE" /\ o \notin NotConvert
                 /\ UNCHANGED Bills
                 /\ credited' = [credited EXCEPT ![o] = credited'[o]]
<1> DEFINE old == v.bill
           s == Counted(old, v.pay.status, new, amo, Taken(p, v, amo))
           st == NewStatus(Price[o], s, old.status)
<1>1. /\ o \in ShopOrders /\ Price[o] \in Nat
      /\ old \in OrderRecord /\ shop_orders[o] = old
  BY Params, VisitType DEF Seen
<1>2. s \in OrderRecord /\ st \in OrderStatus
  BY <1>1, ChangeType, CountedType, NewStatusType
<1>3. shop_orders' = [shop_orders EXCEPT ![o] = [s EXCEPT !.status = st]]
  BY SeenCounted
<1>4. old.status \in {"NEW", "FILL", "SOFT", "HARD"}
      /\ s.status \in {"FILL", "SOFT", "HARD"}
  BY <1>1 DEF CountPayment, OrderRecord, OrderStatus, Unused, Counted
<1>5. Bills[o] = "open"
  BY <1>1, <1>4, BillIs DEF Bills
<1>6. shop_orders'[o].status = st
      /\ \A b \in ShopOrders \ {o} : shop_orders'[b] = shop_orders[b]
  <2> HIDE DEF s, st
  <2> QED BY <1>1, <1>2, <1>3 DEF TypeOK, OrderRecord
<1>7. \A b \in ShopOrders \ {o} : BillOf(b)' = BillOf(b)
  BY <1>6 DEF BillOf
<1>8. st \in {"FILL", "SOFT", "HARD", "CLOSED"} /\ (st = "CLOSED" => Price[o] > 0)
  <2> HIDE DEF s, old
  <2> QED BY <1>1, <1>4 DEF NewStatus
<1>9. CASE st = "CLOSED"
  <2>1. BillOf(o)' = "closed"
    BY <1>6, <1>9 DEF BillOf
  <2>2. Bills' = [Bills EXCEPT ![o] = "closed"]
    BY <1>1, <1>7, <2>1 DEF Bills
  <2>3. PayShop(o) /\ Price[o] > 0
    BY <1>8, <1>9 DEF CountPayment
  <2>4. credited' = [credited EXCEPT ![o] = @ + IF o \in NotConvert THEN 0 ELSE Price[o]]
    BY <1>1, <2>3 DEF PayShop, TypeOK
  <2> QED BY <1>5, <2>2, <2>3, <2>4
<1>10. CASE st # "CLOSED"
  <2>1. BillOf(o)' = "open"
    <3> HIDE DEF s, st
    <3> QED BY <1>6, <1>8, <1>10 DEF BillOf
  <2>2. UNCHANGED Bills
    BY <1>1, <1>5, <1>7, <2>1 DEF Bills
  <2>3. CASE Price[o] > 0
    <3>1. UNCHANGED credited
      BY <1>10, <2>3 DEF CountPayment
    <3> QED BY <1>5, <2>2, <3>1
  <2>4. CASE Price[o] = 0
    <3>1. PassOn(p, v, new, amo)
      BY <1>10, <2>4 DEF CountPayment
    <3>2. CASE new = "TRUE" /\ o \notin NotConvert
      <4>1. credited' = [credited EXCEPT ![o] = credited'[o]]
        BY <1>1, <3>1, <3>2 DEF PassOn, TypeOK
      <4> QED BY <1>5, <2>2, <2>4, <3>2, <4>1
    <3>3. CASE ~(new = "TRUE" /\ o \notin NotConvert)
      <4>1. UNCHANGED credited
        BY <1>1, <3>1, <3>3 DEF PassOn, TypeOK
      <4> QED BY <1>5, <2>2, <4>1
    <3> QED BY <3>2, <3>3
  <2> QED BY <1>1, <2>3, <2>4
<1> QED BY <1>9, <1>10

-----------------------------------------------------------------------------
(* Each step of OrdersLib is a step of Invoice, or none.                    *)

AbstractStep == Abstract!Next \/ UNCHANGED <<Bills, Shares, credited, torn>>

\* A write to one bill from an old copy is Spoil.
LEMMA TornRefines ==
    ASSUME TypeOK, TypeOK', NEW o \in ShopOrders, Elsewhere(o), torn' = torn \cup {o}
    PROVE  AbstractStep
<1>1. \A b \in ShopOrders \ {o} : BillOf(b)' = BillOf(b)
  BY DEF Elsewhere, BillOf
<1>2. Bills' = [Bills EXCEPT ![o] = Bills'[o]]
  BY <1>1 DEF Bills
<1>3. \A p \in PayIns : OrderOf[p] # o => ShareOf(p)' = ShareOf(p)
  BY DEF Elsewhere, ShareOf
<1>4. Shares' = [p \in PayIns |-> IF OrderOf[p] = o THEN Shares'[p] ELSE Shares[p]]
  BY <1>3 DEF Shares
<1>5. credited' = [credited EXCEPT ![o] = credited'[o]]
  BY DEF Elsewhere, TypeOK
<1>6. Abstract!Spoil(o)
  BY <1>2, <1>4, <1>5 DEF Abstract!Spoil
<1> QED BY <1>6 DEF AbstractStep, Abstract!Next

\* A visit in time is Consider, Refuse or RejectLate, or changes nothing Invoice
\* sees.
LEMMA VisitRefines ==
    ASSUME TypeOK, NEW p \in PayIns, NEW v \in Visits, Seen(p, v), Decide(p, v),
           p \in pay_ins_stack, PayInv(p), OrderInv(OrderOf[p]), UNCHANGED torn
    PROVE  AbstractStep
<1> DEFINE o == OrderOf[p]
<1>1. Visited(p, v)
  BY DecideVisited

<1>2. /\ Shares[p] = "pending" /\ Shares \in [PayIns -> {Shares[q] : q \in PayIns}]
      /\ Shares' = [Shares EXCEPT ![p] = Shares'[p]]
  BY <1>1 DEF Visited, Shares
<1>3. CASE UNCHANGED orderVars /\ Shares'[p] = "pending"
  <2>1. UNCHANGED Shares
    BY <1>2, <1>3
  <2> QED BY <1>3, <2>1, SameBills DEF AbstractStep, orderVars
<1>4. CASE /\ UNCHANGED orderVars
           /\ Shares'[p] \in {"returned", "rejected"} /\ Bills[o] # "open"
  <2>1. UNCHANGED <<Bills, credited>>
    BY <1>4, SameBills DEF orderVars
  <2>2. Abstract!Refuse(p) \/ Abstract!RejectLate(p)
    BY <1>2, <1>4, <2>1 DEF Abstract!Refuse, Abstract!RejectLate
  <2> QED BY <2>2 DEF AbstractStep, Abstract!Next
<1>5. CASE UNCHANGED orderVars /\ Shares'[p] = "returned" /\ Price[o] = 0
  <2>1. UNCHANGED <<Bills, credited>>
    BY <1>5, SameBills DEF orderVars
  <2>2. Abstract!Refuse(p)
    BY <1>2, <1>5, <2>1 DEF Abstract!Refuse
  <2> QED BY <2>2 DEF AbstractStep, Abstract!Next
<1>6. ASSUME NEW row \in PayRecord, NEW new \in PayStatus, NEW amo \in Int,
             CountPayment(p, v, row, new, amo),
             new = "TRUE" => Shares'[p] \in {"taken", "split"},
             Shares'[p] \in {"pending", "taken", "split", "rejected"},
             Shares'[p] = "split" => Price[o] > 0,
             Price[o] = 0 /\ new = "TRUE" => Shares'[p] = "taken"
      PROVE  AbstractStep
  <2>1. /\ Bills[o] = "open"
        /\ \/ /\ Price[o] > 0
              /\ Bills' = [Bills EXCEPT ![o] = "closed"]
              /\ credited' = [credited EXCEPT ![o] =
                     @ + IF o \in NotConvert THEN 0 ELSE Price[o]]
           \/ UNCHANGED <<Bills, credited>>
           \/ /\ Price[o] = 0 /\ new = "TRUE" /\ o \notin NotConvert
              /\ UNCHANGED Bills
              /\ credited' = [credited EXCEPT ![o] = credited'[o]]
    BY <1>1, <1>6, CountedBill
  <2>2. Abstract!Consider(p)
    BY <1>2, <1>6, <2>1 DEF Abstract!Consider
  <2> QED BY <2>2 DEF AbstractStep, Abstract!Next
<1> QED BY <1>1, <1>3, <1>4, <1>5, <1>6 DEF Visited

\* check_expired is Expire: by OpenInv nothing of the bill was sent back before,
\* so that no return is refused.
LEMMA ExpireRefines ==
    ASSUME IInv, BillsInv, NEW o \in ShopOrders \ torn, Expire(o),
           shop_orders[o].status \notin {"SOFT", "HARD"}, UNCHANGED torn
    PROVE  AbstractStep
<1>1. TypeOK /\ OrderInv(o) /\ o \in shop_orders_stack
  BY DEF IInv, Expire
<1>2. Price[o] > 0 /\ Bills[o] = "open"
  BY <1>1, BillIs DEF OrderInv, Bills
<1>3. Bills' = [Bills EXCEPT ![o] = "expired"]
  <2>1. shop_orders'[o].status = "EXPIRED"
    BY <1>1 DEF Expire, TypeOK, OrderRecord
  <2>2. \A b \in ShopOrders \ {o} : shop_orders'[b] = shop_orders[b]
    BY <1>1 DEF Expire, TypeOK
  <2>3. BillOf(o)' = "expired"
    BY <2>1 DEF BillOf
  <2>4. \A b \in ShopOrders \ {o} : BillOf(b)' = BillOf(b)
    BY <2>2 DEF BillOf
  <2> QED BY <2>3, <2>4 DEF Bills
<1>4. ASSUME NEW p \in PayIns, OrderOf[p] = o, pay_ins[p].status = "TRUE"
      PROVE  pay_ins[p].amo_ret = 0 /\ pay_ins'[p].status = "RETURNED"
  <2>1. pay_ins[p].amo_ret = 0
    BY <1>4, ExpiresUnreturned DEF PaymentsOf
  <2>2. pay_ins'[p].status = "RETURNED"
    BY <1>4, ExpiresUnreturned DEF PaymentsOf
  <2> QED BY <2>1, <2>2
<1>5. ASSUME NEW p \in PayIns, OrderOf[p] # o \/ pay_ins[p].status # "TRUE"
      PROVE  pay_ins'[p] = pay_ins[p]
  BY <1>5 DEF Expire
<1>6. ASSUME NEW p \in PayIns, OrderOf[p] = o
      PROVE  /\ Shares[p] # "split"
             /\ Shares[p] = "taken" <=> pay_ins[p].status = "TRUE"
  BY <1>1, <1>4, <1>6 DEF Shares, ShareOf, Pending, TypeOK, PayRecord, PayStatus
<1>7. ASSUME NEW p \in PayIns
      PROVE  ShareOf(p)' = IF OrderOf[p] = o /\ Shares[p] = "taken"
                           THEN "returned" ELSE Shares[p]
  <2>1. CASE OrderOf[p] = o /\ pay_ins[p].status = "TRUE"
    <3>1. ShareOf(p)' = "returned"
      BY <1>4, <2>1 DEF ShareOf, Pending
    <3> QED BY <1>6, <2>1, <3>1
  <2>2. CASE OrderOf[p] # o \/ pay_ins[p].status # "TRUE"
    <3>1. ShareOf(p)' = ShareOf(p)
      BY <1>5, <2>2 DEF ShareOf
    <3> QED BY <1>6, <2>2, <3>1 DEF Shares
  <2> QED BY <2>1, <2>2
<1>8. Shares' = [p \in PayIns |-> IF OrderOf[p] = o /\ Shares[p] = "taken"
                                  THEN "returned" ELSE Shares[p]]
  BY <1>7 DEF Shares
<1>9. UNCHANGED credited
  BY DEF Expire
<1>10. Abstract!Expire(o)
  BY <1>2, <1>3, <1>6, <1>8, <1>9 DEF Abstract!Expire
<1> QED BY <1>10 DEF AbstractStep, Abstract!Next

\* A new payment is Arrive.
LEMMA ReceiveRefines ==
    ASSUME TypeOK, NEW p \in PayIns, Receive(p)
    PROVE  AbstractStep
<1>1. TypeOK /\ UNCHANGED <<orderVars, torn>> /\ pay_ins[p].status = "NONE"
  BY DEF Receive
<1>2. PICK row : pay_ins' = [pay_ins EXCEPT ![p] = row] /\ row.status = "NEW"
  <2>1. PICK a, b :
          pay_ins' = [pay_ins EXCEPT ![p].status = "NEW", ![p].amount = a, ![p].in_block = b]
    BY DEF Receive
  <2> DEFINE r == [pay_ins[p] EXCEPT !.status = "NEW", !.amount = a, !.in_block = b]
  <2>2. pay_ins' = [pay_ins EXCEPT ![p] = r]
    BY <1>1, <2>1 DEF TypeOK, PayRecord
  <2>3. r.status = "NEW"
    BY <1>1 DEF TypeOK, PayRecord
  <2> HIDE DEF r
  <2> QED BY <2>2, <2>3
<1>3. Shares' = [Shares EXCEPT ![p] = Shares'[p]] /\ pay_ins'[p].status = "NEW"
  BY <1>1, <1>2, OneShare
<1>4. Shares[p] = "absent" /\ Shares'[p] = "pending"
  BY <1>1, <1>3 DEF Shares, ShareOf, Pending
<1>5. UNCHANGED <<Bills, credited, torn>>
  BY <1>1, SameBills DEF orderVars
<1>6. Abstract!Arrive(p)
  BY <1>3, <1>4, <1>5 DEF Abstract!Arrive
<1> QED BY <1>6 DEF AbstractStep, Abstract!Next

\* A step that leaves the statuses alone is a stutter.
LEMMA StutterRefines ==
    ASSUME TypeOK, UNCHANGED <<shop_orders, credited, torn>>,
           \A p \in PayIns : pay_ins'[p].status = pay_ins[p].status
                             /\ pay_ins'[p].amo_ret = pay_ins[p].amo_ret
    PROVE  AbstractStep
<1>1. \A p \in PayIns : ShareOf(p)' = ShareOf(p)
  BY DEF ShareOf
<1>2. UNCHANGED Shares
  BY <1>1 DEF Shares
<1> QED BY <1>2, SameBills DEF AbstractStep

\* What a worker writes is a step of Invoice or a stutter.
LEMMA WorkerRefines ==
    ASSUME IInv, BillsInv, TypeOK', NEW w \in Workers, NEW p \in PayIns, InputsUpdate(w, p)
    PROVE  AbstractStep
<1>1. TypeOK
  BY DEF IInv
<1>2. /\ visit[w] \in Visits /\ OrderOf[p] \in ShopOrders
      /\ Elsewhere(OrderOf[p])
      /\ torn \subseteq torn' /\ torn' \in {torn, torn \cup {OrderOf[p]}}
      /\ \/ OrderOf[p] \in torn'
         \/ UNCHANGED <<payVars, orderVars>>
         \/ Decide(p, visit[w]) /\ Seen(p, visit[w]) /\ p \in pay_ins_stack
  BY <1>1, WorkerWrites
<1>3. CASE OrderOf[p] \in torn'
  <2>1. torn' = torn \cup {OrderOf[p]}
    BY <1>2, <1>3
  <2> QED BY <1>1, <1>2, <2>1, TornRefines
<1>4. CASE OrderOf[p] \notin torn'
  <2>1. UNCHANGED torn /\ OrderOf[p] \notin torn
    BY <1>2, <1>4
  <2>2. CASE UNCHANGED <<payVars, orderVars>>
    BY <1>1, <2>1, <2>2, StutterRefines DEF payVars, orderVars
  <2>3. CASE Decide(p, visit[w]) /\ Seen(p, visit[w]) /\ p \in pay_ins_stack
    <3>1. PayInv(p) /\ OrderInv(OrderOf[p])
      BY <1>2, <2>1 DEF IInv
    <3> QED BY <1>1, <1>2, <2>1, <2>3, <3>1, VisitRefines
  <2> QED BY <1>2, <1>4, <2>2, <2>3
<1> QED BY <1>3, <1>4

\* Every step is a step of Invoice or a stutter.
LEMMA NextRefines == IInv /\ IInv' /\ BillsInv /\ [Next]_vars => AbstractStep
<1> SUFFICES ASSUME IInv, IInv', BillsInv, [Next]_vars PROVE AbstractStep
  OBVIOUS
<1>1. TypeOK /\ TypeOK'
  BY DEF IInv
<1>2. ASSUME NEW w \in Workers, NEW p \in PayIns, InputsUpdate(w, p) PROVE AbstractStep
  BY <1>1, <1>2, WorkerRefines
<1>3. ASSUME NEW w \in Workers, NEW o \in ShopOrders, CheckExpired(w, o) PROVE AbstractStep
  <2>1. /\ Elsewhere(o) /\ Expire(o)
        /\ torn \subseteq torn' /\ torn' \in {torn, torn \cup {o}}
        /\ o \in torn' \/ shop_orders[o].status \notin {"SOFT", "HARD"}
    BY <1>1, <1>3, WorkerExpires
  <2>2. CASE o \in torn'
    <3>1. torn' = torn \cup {o}
      BY <2>1, <2>2
    <3> QED BY <1>1, <2>1, <3>1, TornRefines
  <2>3. CASE o \notin torn'
    <3>1. UNCHANGED torn /\ o \in ShopOrders \ torn
      BY <2>1, <2>3
    <3> QED BY <2>1, <2>3, <3>1, ExpireRefines
  <2> QED BY <2>2, <2>3
<1>4. ASSUME NEW p \in PayIns, Receive(p) PROVE AbstractStep
  BY <1>1, <1>4, ReceiveRefines
<1>5. ASSUME NEW p \in PayIns, Rescan(p) PROVE AbstractStep
  <2>1. UNCHANGED <<shop_orders, credited, torn>>
    BY <1>5 DEF Rescan, orderVars
  <2>2. \A q \in PayIns : /\ pay_ins'[q].status = pay_ins[q].status
                          /\ pay_ins'[q].amo_ret = pay_ins[q].amo_ret
    BY <1>1, <1>5 DEF Rescan, TypeOK, PayRecord
  <2> QED BY <1>1, <2>1, <2>2, StutterRefines
<1>6. CASE UNCHANGED <<pay_ins, shop_orders, credited, torn>>
  BY <1>1, <1>6, StutterRefines
<1> QED BY <1>2, <1>3, <1>4, <1>5, <1>6, OtherSteps
        DEF ReturnRefused, payVars, orderVars

\* An empty database is an initial state of Invoice.
LEMMA InitRefines == Init => Abstract!Init
<1> SUFFICES ASSUME Init PROVE Abstract!Init
  OBVIOUS
<1>1. \A o \in ShopOrders : BillOf(o) = "open"
  BY DEF Init, BillOf, NewBill
<1>2. \A p \in PayIns : ShareOf(p) = "absent"
  BY DEF Init, ShareOf, Pending, NoPay
<1> QED BY <1>1, <1>2 DEF Init, Abstract!Init, Bills, Shares

\* update_payed, check_expired and inputs_update change the tables only as the
\* bill of Invoice changes: what is closed, expired, returned or rejected stays
\* so, the shop earns the price in the step that closes the bill, a bill expires
\* only before any change went back and returns all it took, and only late
\* payments or payments nothing can be bought for are sent back whole.  A worker
\* that writes from an old copy spoils the bill of its payment, and no other.
THEOREM OrdersImplementInvoice == Spec => ImplementsInvoice
<1>1. Init => Abstract!Init
  BY InitRefines
<1>2. IInv /\ IInv' /\ BillsInv /\ [Next]_vars => [Abstract!Next]_(Abstract!vars)
  BY NextRefines DEF AbstractStep, Abstract!vars
<1> QED BY <1>1, <1>2, BillsInvariant, PTL DEF Spec, ImplementsInvoice, Abstract!Spec
-----------------------------------------------------------------------------
(* One worker at a time.                                                    *)

\* What a worker holds while nobody else works on the tables: its rows still
\* wait, and the copies of the row in hand are those of the tables.
UpToDate(w) ==
    /\ todo[w] \subseteq pay_ins_stack
    /\ visit[w].row \notin todo[w]
    /\ visit[w].row \in PayIns => Fresh(visit[w].row, visit[w])
    /\ visit[w].row \in ShopOrders => shop_orders[visit[w].row].status \notin {"SOFT", "HARD"}

Alone == torn = {} /\ \A w \in Workers : UpToDate(w)

\* A worker with no row in hand.
LEMMA IdleUpToDate ==
    ASSUME TypeOK, NEW w \in Workers, visit[w].row = NoRow, todo[w] \subseteq pay_ins_stack
    PROVE  UpToDate(w)
<1>1. NoRow \notin PayIns /\ NoRow \notin ShopOrders
  BY ParamAssumption DEF ParamAssumption
<1>2. NoRow \notin todo[w]
  BY <1>1 DEF TypeOK
<1> QED BY <1>1, <1>2 DEF UpToDate

\* What one worker does.
LEMMA WorkerAlone ==
    ASSUME IInv, IInv', torn = {}, NEW w \in Workers, UpToDate(w),
           \/ \E x \in Xcurrs : Begin(w, x)
           \/ \E p \in PayIns : Look(w, p) \/ InputsUpdate(w, p)
           \/ \E o \in ShopOrders : LookExpired(w, o) \/ CheckExpired(w, o)
           \/ Fail(w)
    PROVE  torn' = {} /\ UpToDate(w)'
<1>1. TypeOK /\ TypeOK'
  BY DEF IInv
<1>2. PayIns \cap ShopOrders = {}
  BY ParamAssumption DEF ParamAssumption
<1>3. visit[w] \in Visits
  BY <1>1 DEF TypeOK
<1> DEFINE idle == visit'[w].row = NoRow /\ todo'[w] \subseteq pay_ins_stack' /\ torn' = {}
<1>4. ASSUME idle PROVE torn' = {} /\ UpToDate(w)'
  <2>1. NoRow \notin PayIns /\ NoRow \notin ShopOrders
    BY ParamAssumption DEF ParamAssumption
  <2>2. NoRow \notin todo'[w]
    BY <1>1, <2>1 DEF TypeOK
  <2> QED BY <1>4, <2>1, <2>2 DEF UpToDate
<1>5. ASSUME NEW x \in Xcurrs, Begin(w, x) PROVE torn' = {} /\ UpToDate(w)'
  BY <1>1, <1>3, <1>4, <1>5 DEF Begin, TypeOK, Visits, payVars
<1>6. CASE Fail(w)
  BY <1>1, <1>4, <1>6 DEF Fail, TypeOK, Idle, payVars
<1>7. ASSUME NEW p \in PayIns, Look(w, p) PROVE torn' = {} /\ UpToDate(w)'
  <2>1. /\ visit'[w].row = p /\ visit'[w].pay = pay_ins[p]
        /\ visit'[w].bill = shop_orders[OrderOf[p]]
    BY <1>1, <1>3, <1>7 DEF Look, TypeOK, Visits
  <2>2. todo'[w] = todo[w] \ {p} /\ p \in todo[w]
    BY <1>1, <1>7 DEF Look, TypeOK
  <2>3. p \in pay_ins_stack /\ UNCHANGED <<pay_ins, pay_ins_stack, shop_orders, torn>>
    BY <1>7, <2>2 DEF UpToDate, Look, payVars, orderVars
  <2>4. pay_ins[p] = [pay_ins[p] EXCEPT !.in_block = pay_ins[p].in_block]
    BY <1>1 DEF TypeOK, PayRecord
  <2>5. Fresh(p, visit[w])'
    BY <2>1, <2>3, <2>4 DEF Fresh
  <2> QED BY <1>2, <2>1, <2>2, <2>3, <2>5 DEF UpToDate
<1>8. ASSUME NEW p \in PayIns, InputsUpdate(w, p) PROVE torn' = {} /\ UpToDate(w)'
  <2>1. visit[w].row = p /\ Fresh(p, visit[w]) /\ p \notin todo[w]
    BY <1>8 DEF InputsUpdate, UpToDate
  <2>2. Done(w, OrderOf[p], Fresh(p, visit[w])) /\ Decide(p, visit[w])
    BY <1>8 DEF InputsUpdate
  <2>3. torn' = {} /\ todo'[w] = todo[w] /\ visit'[w].row = NoRow
    BY <1>1, <2>1, <2>2 DEF Done, TypeOK, Idle
  <2>4. PICK row \in PayRecord :
          \/ \E new \in PayStatus, amo \in Int : Settles(p, visit[w], row, new, amo)
          \/ Keeps(p, visit[w], row)
          \/ Refuses(p, visit[w], row)
    BY <1>1, <1>3, <2>2, DecideForms
  <2>5. pay_ins_stack \ {p} \subseteq pay_ins_stack'
    BY <2>4 DEF Settles, Keeps, Refuses
  <2>6. todo'[w] \subseteq pay_ins_stack'
    BY <2>1, <2>3, <2>5 DEF UpToDate
  <2> QED BY <1>4, <2>3, <2>6
<1>9. ASSUME NEW o \in ShopOrders, LookExpired(w, o) PROVE torn' = {} /\ UpToDate(w)'
  <2>1. visit'[w].row = o /\ todo'[w] = {}
    BY <1>1, <1>3, <1>9 DEF LookExpired, TypeOK, Visits
  <2>2. UNCHANGED <<shop_orders, torn>> /\ shop_orders[o].status \notin {"SOFT", "HARD"}
    BY <1>9 DEF LookExpired, orderVars
  <2> QED BY <1>2, <2>1, <2>2 DEF UpToDate
<1>10. ASSUME NEW o \in ShopOrders, CheckExpired(w, o) PROVE torn' = {} /\ UpToDate(w)'
  <2>1. visit[w].row = o
    BY <1>10 DEF CheckExpired
  <2>2. shop_orders[o].status \notin {"SOFT", "HARD"}
    BY <2>1 DEF UpToDate
  <2>3. Done(w, o, TRUE)
    BY <1>10, <2>2 DEF CheckExpired
  <2>4. torn' = {} /\ todo'[w] = todo[w] /\ visit'[w].row = NoRow
    BY <1>1, <2>3 DEF Done, TypeOK, Idle
  <2>5. pay_ins_stack' = pay_ins_stack
    BY <1>10 DEF CheckExpired, Expire
  <2> QED BY <1>4, <2>4, <2>5 DEF UpToDate
<1> QED BY <1>5, <1>6, <1>7, <1>8, <1>9, <1>10

\* The rest of the service writes only what a visit does not depend on.
LEMMA ServiceAlone ==
    ASSUME IInv, torn = {}, NEW w \in Workers, UpToDate(w), UNCHANGED <<workVars, torn>>,
           \/ \E p \in PayIns : Receive(p) \/ Rescan(p)
           \/ UNCHANGED <<pay_ins, pay_ins_stack, shop_orders>>
    PROVE  UpToDate(w)'
<1> DEFINE v == visit[w]
           p == v.row
<1>1. TypeOK /\ v \in Visits /\ v.pay \in PayRecord
  BY DEF IInv, TypeOK, Visits
<1>2. visit'[w] = v /\ todo'[w] = todo[w]
  BY DEF workVars
<1>3. UNCHANGED shop_orders /\ pay_ins_stack \subseteq pay_ins_stack'
  BY DEF Receive, Rescan, orderVars
<1>4. ASSUME p \in PayIns PROVE Fresh(p, v)'
  <2>1. Fresh(p, v)
    BY <1>4 DEF UpToDate
  <2>2. OrderOf[p] \in ShopOrders /\ OrderOf[p] \notin torn
    BY <1>4, Params
  <2>3. pay_ins[p].status # "NONE"
    BY <1>4, <2>1, <2>2 DEF IInv, PayInv, Fresh, Pending
  <2>4. pay_ins'[p] = [pay_ins[p] EXCEPT !.in_block = pay_ins'[p].in_block]
    <3>1. ASSUME NEW q \in PayIns, Receive(q) PROVE pay_ins'[p] = pay_ins[p]
      <4>1. q # p
        BY <2>3, <3>1 DEF Receive
      <4> HIDE DEF p
      <4> QED BY <1>1, <1>4, <3>1, <4>1 DEF Receive, TypeOK
    <3>2. ASSUME NEW q \in PayIns, Rescan(q), q # p PROVE pay_ins'[p] = pay_ins[p]
      <4> HIDE DEF p
      <4> QED BY <1>1, <1>4, <3>2 DEF Rescan, TypeOK
    <3>3. CASE pay_ins'[p] = pay_ins[p]
      <4> HIDE DEF p
      <4> QED BY <1>1, <1>4, <3>3 DEF TypeOK, PayRecord
    <3>4. CASE Rescan(p)
      <4> HIDE DEF p
      <4>1. pay_ins'[p] = [pay_ins[p] EXCEPT !.in_block = mined[p]]
        BY <1>1, <1>4, <3>4 DEF Rescan, TypeOK
      <4>2. pay_ins'[p].in_block = mined[p]
        BY <1>1, <1>4, <4>1 DEF TypeOK, PayRecord
      <4> QED BY <4>1, <4>2
    <3> HIDE DEF p
    <3> QED BY <3>1, <3>2, <3>3, <3>4
  <2>5. pay_ins'[p] = [v.pay EXCEPT !.in_block = pay_ins'[p].in_block]
    <3> HIDE DEF p, v
    <3> QED BY <1>1, <1>4, <2>1, <2>4 DEF Fresh, PayRecord
  <2>6. p \in pay_ins_stack' /\ shop_orders'[OrderOf[p]] = v.bill
    BY <1>3, <2>1 DEF Fresh
  <2> QED BY <1>2, <2>5, <2>6 DEF Fresh
<1> QED BY <1>2, <1>3, <1>4 DEF UpToDate

\* Where one worker does all the visits, none writes from an old copy: no bill
\* is ever torn, and what the theorems say of the other bills holds of all.
THEOREM OneWorkerTearsNothing ==
    ASSUME \A v, w \in Workers : v = w
    PROVE  Spec => [](torn = {})
<1>1. Init => Alone
  <2> SUFFICES ASSUME Init, NEW w \in Workers PROVE torn = {} /\ UpToDate(w)
    BY DEF Alone, Init
  <2>1. TypeOK /\ visit[w].row = NoRow /\ todo[w] = {} /\ torn = {}
    BY InitType DEF Init, Idle
  <2> QED BY <2>1, IdleUpToDate
<1>2. IInv /\ IInv' /\ Alone /\ [Next]_vars => Alone'
  <2> SUFFICES ASSUME IInv, IInv', Alone, [Next]_vars PROVE Alone'
    OBVIOUS
  <2>1. torn = {} /\ \A w \in Workers : UpToDate(w)
    BY DEF Alone
  <2>2. ASSUME NEW w \in Workers,
               \/ \E x \in Xcurrs : Begin(w, x)
               \/ \E p \in PayIns : Look(w, p) \/ InputsUpdate(w, p)
               \/ \E o \in ShopOrders : LookExpired(w, o) \/ CheckExpired(w, o)
               \/ Fail(w)
        PROVE  Alone'
    <3>1. torn' = {} /\ UpToDate(w)'
      BY <2>1, <2>2, WorkerAlone
    <3> QED BY <3>1 DEF Alone
  <2>3. CASE /\ UNCHANGED <<workVars, torn>>
             /\ \/ \E p \in PayIns : Receive(p) \/ Rescan(p)
                \/ UNCHANGED <<pay_ins, pay_ins_stack, shop_orders>>
    BY <2>1, <2>3, ServiceAlone DEF Alone
  <2> QED BY <2>2, <2>3
          DEF Next, Receive, Rescan, ReturnRefused, Orphan, DelNote, NewBlock,
              vars, payVars, orderVars, workVars
<1>3. Alone => torn = {}
  BY DEF Alone
<1> QED BY <1>1, <1>2, <1>3, InductiveInvariant, PTL DEF Spec
=============================================================================
