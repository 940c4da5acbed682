------------------------------- MODULE Wager -------------------------------
(***************************************************************************)
(* A wager: bills for the conditions of a bet, which take payments until    *)
(* the wager runs, and whose sum is shared by those who paid for the        *)
(* winning conditions.  controllers/wager.py handles the requests of the    *)
(* site that runs the bet (make_bet_bill, go, end), wager_lib.solve the     *)
(* rows of wagers_stack after every new block; in between                   *)
(* orders_lib.inputs_update counts the payments, all in the currency of the *)
(* wager.                                                                   *)
(*                                                                         *)
(* A request reads the wager, and writes it some time later.  inputs_update *)
(* reads a payment and its bill, asks the wallet, and writes both after     *)
(* that; the service runs it, and tools.inputs_update may run it besides.   *)
(* Amounts are whole coins.                                                 *)
(***************************************************************************)
EXTENDS BillSums, FiniteSetsExt

CONSTANTS
    Bills,      \* bills that make_bet_bill may make
    PayIns,     \* outputs that may be paid to them
    BillOf,     \* through shop_order_addrs
    Amount,
    TxFee,      \* xcurrs.txfee
    Grades,     \* what inputs_update may find for a payment: after a time
                \* without the loop some grades are skipped
    Requests,   \* requests that may run at once
    Workers,    \* those who run inputs_update: the service,
    Tools       \* and the calls of tools.inputs_update

ASSUME WagerAssumption ==
    /\ IsFiniteSet(Bills) /\ IsFiniteSet(PayIns)
    /\ BillOf \in [PayIns -> Bills]
    /\ Amount \in [PayIns -> Nat \ {0}]
    /\ TxFee \in Nat
    /\ Grades \in [PayIns -> SUBSET {"SOFT", "HARD", "TRUE", "INVALID"}]

VARIABLES
    wager,          \* the row of wagers
    wagers_stack,   \* number of rows for it
    shop_orders,    \* status and sums of the bills
    price,          \* shop_orders.price: 0 until the wager runs
    pay_ins,        \* status of the payments, and what was sent back of them
    pay_ins_stack,  \* payments still to be decided
    visit,          \* the payment a worker is at, and the rows it has read
    req,            \* what a request has read
    \* kept for the properties:
    credited,       \* what insert_shop_trans_order credited for a bill
    won,            \* drawn for a payment, in the share of the players
    pots,           \* the sums that solve_one took from the kept balance
    solves,         \* wagers_stack rows solved
    raced,          \* kinds of requests that wrote over a newer wager
    crossed,        \* bills counted with a row that was out of date
    late,           \* payments first counted while the wager ran
    mixed           \* bills priced when only some payments were confirmed

wagerVars == <<wager, wagers_stack>>
orderVars == <<shop_orders, price, pay_ins, pay_ins_stack>>
solveVars == <<won, pots, solves>>
ghosts == <<raced, crossed, late, mixed>>
vars == <<wagerVars, orderVars, visit, req, credited, solveVars, ghosts>>

WagerStatus == {"PAY", "RUN", "END"}
OrderStatus == {"NONE", "NEW", "FILL", "SOFT", "HARD"} \cup Unused
PayStatus == {"NONE", "NEW", "SOFT", "HARD", "TRUE", "INVALID", "RETURNED"}
Ops == {"bet", "go", "end"}
OrderRecord ==
    [status : OrderStatus, payed_soft : Int, payed_hard : Int, payed_true : Int]

NoOrder == [status |-> "NONE", payed_soft |-> 0, payed_hard |-> 0, payed_true |-> 0]
Free == [op |-> "none", ids |-> {}]
NoVisit == [pays |-> {}, was |-> "NONE", order |-> NoOrder, price |-> 0]

Init ==
    /\ wager = [status |-> "PAY", bill_ids |-> {}, winner_ids |-> {}]
    /\ wagers_stack = 0
    /\ shop_orders = [b \in Bills |-> NoOrder]
    /\ price = [b \in Bills |-> 0]
    /\ pay_ins = [p \in PayIns |-> [status |-> "NONE", amo_ret |-> 0]]
    /\ pay_ins_stack = {}
    /\ visit = [w \in Workers |-> NoVisit]
    /\ req = [r \in Requests |-> Free]
    /\ credited = [b \in Bills |-> 0]
    /\ won = [p \in PayIns |-> 0]
    /\ pots = 0 /\ solves = 0
    /\ raced = {} /\ crossed = {} /\ late = {} /\ mixed = {}

Made == {b \in Bills : shop_orders[b].status # "NONE"}
Total(B) == SumFunctionOnSet([b \in Bills |-> AllPayed(shop_orders[b])], B)
TotalTrue(B) == SumFunctionOnSet([b \in Bills |-> shop_orders[b].payed_true], B)
Pending(b) == shop_orders[b].payed_soft + shop_orders[b].payed_hard

-----------------------------------------------------------------------------
(* Requests: check_args reads the wager, a later write ends the request.    *)

Begin(r, op, ids) ==
    /\ req[r] = Free
    /\ req' = [req EXCEPT ![r] = [op |-> op, ids |-> ids]]
    /\ UNCHANGED <<wagerVars, orderVars, visit, credited, solveVars, ghosts>>

BeginBet(r) == wager.status = "PAY" /\ Begin(r, "bet", wager.bill_ids)
BeginGo(r) == wager.status = "PAY" /\ Begin(r, "go", wager.bill_ids)

\* Variant: the named bills are not looked for in the list.
BeginEndAny(r) ==
    /\ wager.status = "RUN"
    /\ Total(wager.bill_ids) > 0
    /\ \E W \in SUBSET Bills : W # {} /\ Begin(r, "end", W)

\* The winners are named in the request; something must have been paid.
BeginEnd(r) ==
    /\ wager.status = "RUN"
    /\ Total(wager.bill_ids) > 0
    /\ \E W \in SUBSET wager.bill_ids : W # {} /\ Begin(r, "end", W)

Ends(r, op) ==
    /\ req[r].op = op
    /\ req' = [req EXCEPT ![r] = Free]

Races(op, stale) == raced' = IF stale THEN raced \cup {op} ELSE raced

\* Variant: the list is not read.
MakeBetBillAlone(r, b) ==
    /\ Ends(r, "bet")
    /\ b \notin Made
    /\ shop_orders' = [shop_orders EXCEPT ![b].status = "NEW"]
    /\ wager' = [wager EXCEPT !.bill_ids = {b}]
    /\ Races("bet", wager.status # "PAY" \/ wager.bill_ids # req[r].ids)
    /\ UNCHANGED <<wagers_stack, price, pay_ins, pay_ins_stack, visit, credited,
                   solveVars, crossed, late, mixed>>

\* The new bill is put into the list that was read.
MakeBetBill(r, b) ==
    /\ Ends(r, "bet")
    /\ b \notin Made
    /\ shop_orders' = [shop_orders EXCEPT ![b].status = "NEW"]
    /\ wager' = [wager EXCEPT !.bill_ids = req[r].ids \cup {b}]
    /\ Races("bet", wager.status # "PAY" \/ wager.bill_ids # req[r].ids)
    /\ UNCHANGED <<wagers_stack, price, pay_ins, pay_ins_stack, visit, credited,
                   solveVars, crossed, late, mixed>>

\* The bills get their sums as prices, so that nothing more can be bet; those
\* with no payment expire.  The first write takes the lock, so the sums are
\* those of the moment.
Go(r) ==
    LET B == req[r].ids
        sum == [b \in Bills |-> AllPayed(shop_orders[b])]
    IN
    /\ Ends(r, "go")
    /\ wager' = [wager EXCEPT !.status = "RUN"]
    /\ price' = [b \in Bills |->
           IF b \notin B THEN price[b] ELSE IF sum[b] # 0 THEN sum[b] ELSE 1]
    /\ shop_orders' = [b \in Bills |->
           IF b \notin B THEN shop_orders[b]
           ELSE IF sum[b] = 0 THEN [shop_orders[b] EXCEPT !.status = "EXPIRED"]
           ELSE IF Pending(b) = 0 THEN [shop_orders[b] EXCEPT !.status = "CLOSED"]
           ELSE shop_orders[b]]
    /\ Races("go", wager.status # "PAY" \/ wager.bill_ids # req[r].ids)
    /\ mixed' = mixed \cup
           {b \in B : shop_orders[b].payed_true # 0 /\ Pending(b) # 0}
    /\ UNCHANGED <<wagers_stack, pay_ins, pay_ins_stack, visit, credited,
                   solveVars, crossed, late>>

End(r) ==
    /\ Ends(r, "end")
    /\ wager' = [wager EXCEPT !.status = "END", !.winner_ids = req[r].ids]
    /\ wagers_stack' = wagers_stack + 1
    /\ Races("end", wager.status # "RUN")
    /\ UNCHANGED <<orderVars, visit, credited, solveVars, crossed, late, mixed>>

-----------------------------------------------------------------------------
(* Payments. *)

Receive(p) ==
    /\ pay_ins[p].status = "NONE"
    /\ BillOf[p] \in Made
    /\ pay_ins' = [pay_ins EXCEPT ![p].status = "NEW"]
    /\ pay_ins_stack' = pay_ins_stack \cup {p}
    /\ UNCHANGED <<wagerVars, shop_orders, price, visit, req, credited, solveVars,
                   ghosts>>

\* inputs_update comes to a row and reads the payment and its bill; then it
\* asks the wallet.
Visit(w, p) ==
    /\ visit[w] = NoVisit
    /\ p \in pay_ins_stack
    /\ visit' = [visit EXCEPT ![w] =
           [pays |-> {p}, was |-> pay_ins[p].status,
            order |-> shop_orders[BillOf[p]], price |-> price[BillOf[p]]]]
    /\ UNCHANGED <<wagerVars, orderVars, req, credited, solveVars, ghosts>>

\* update_payed: price_limit1 of rates_lib.add_limit.
OverPrice(v, amo) == 200 * v.price < 201 * (v.order.payed_true + amo + 2 * TxFee)

Taken(v, amo) ==
    IF v.price > 0 /\ OverPrice(v, amo) THEN v.price - v.order.payed_true ELSE amo

Change(v, amo) ==
    LET rest == amo - Taken(v, amo) IN
    IF v.price > 0 /\ Taken(v, amo) > 0 /\ rest > 2 * TxFee THEN rest ELSE 0

\* Only what update_payed changes in the row it has read is written.
Written(cur, old, new) ==
    [f \in DOMAIN cur |-> IF new[f] # old[f] THEN new[f] ELSE cur[f]]

\* The sums with the payment counted, and the status they give the bill.
Sums(v, new, amo) == Counted(v.order, v.was, new, amo, Taken(v, amo))
StatusOf(v, new, amo) == NewStatus(v.price, Sums(v, new, amo), v.order.status)

\* Variant: a confirmed payment to a priced bill is credited at once.
CreditBoth(v, new, amo) ==
    Part(new, "TRUE", amo) +
        IF v.price = 0 THEN 0 ELSE Part(StatusOf(v, new, amo), "CLOSED", v.price)

\* Variant: only the closing credits the shop.
CreditClosing(v, new, amo) == Part(StatusOf(v, new, amo), "CLOSED", v.price)

\* What the shop is credited: an open bill's payments, a priced bill's price.
Credit(v, new, amo) ==
    IF v.price = 0 THEN Part(new, "TRUE", amo)
                   ELSE Part(StatusOf(v, new, amo), "CLOSED", v.price)

\* The bill was open when it was read.
CountOpen(v, p, new, amo) ==
    /\ v.order.status \notin Unused
    /\ shop_orders' = [shop_orders EXCEPT ![BillOf[p]] =
           Written(@, v.order,
                   [Sums(v, new, amo) EXCEPT !.status = StatusOf(v, new, amo)])]
    /\ pay_ins' = [pay_ins EXCEPT ![p] =
           [status |-> new, amo_ret |-> IF new = "TRUE" THEN Change(v, amo) ELSE 0]]
    /\ credited' = [credited EXCEPT ![BillOf[p]] = @ + Credit(v, new, amo)]

\* It was closed or expired: the payment goes back.
CountLate(v, p, new) ==
    /\ v.order.status \in Unused
    /\ pay_ins' = [pay_ins EXCEPT ![p] =
           IF new = "TRUE" THEN [status |-> "RETURNED", amo_ret |-> Amount[p]]
                           ELSE [status |-> new, amo_ret |-> 0]]
    /\ UNCHANGED <<shop_orders, credited>>

\* The grades that a payment of status st has left behind.
Passed(st) == CASE st = "SOFT" -> {"SOFT"} [] st = "HARD" -> {"SOFT", "HARD"}
                [] OTHER -> {}

Final(new) == new \in {"TRUE", "INVALID"}

\* What was read for the payment is still what the rows say.
Fresh(v, p) ==
    /\ p \in pay_ins_stack
    /\ v.was = pay_ins[p].status
    /\ v.order = shop_orders[BillOf[p]]
    /\ v.price = price[BillOf[p]]

\* The payment has got its first confirmations, more of them, enough of them,
\* or the wallet knows it no more.
Count(w, p, new) ==
    LET v == visit[w] IN
    /\ p \in v.pays
    /\ new \notin Passed(v.was)
    /\ Final(new) => p \in pay_ins_stack
    /\ \/ CountOpen(v, p, new, IF new = "INVALID" THEN -1 ELSE Amount[p])
       \/ CountLate(v, p, new)
    /\ pay_ins_stack' = pay_ins_stack \ {q \in {p} : Final(new)}
    /\ visit' = [visit EXCEPT ![w] = NoVisit]
    /\ late' = late \cup {q \in {p} : v.was = "NEW" /\ wager.status # "PAY"}
    /\ crossed' = crossed \cup {b \in {BillOf[p]} : ~Fresh(v, p)}
    /\ UNCHANGED <<wagerVars, price, req, solveVars, raced, mixed>>

\* Another worker has decided the payment: there is no row to delete, and
\* what was written is rolled back.
Abandon(w) ==
    /\ visit[w] # NoVisit
    /\ visit[w].pays \cap pay_ins_stack = {}
    /\ visit' = [visit EXCEPT ![w] = NoVisit]
    /\ UNCHANGED <<wagerVars, orderVars, req, credited, solveVars, ghosts>>

-----------------------------------------------------------------------------
(* wager_lib.solve_one, for one row of wagers_stack.                        *)

PaymentsOf(B) == {p \in PayIns : BillOf[p] \in B /\ pay_ins[p].status # "NONE"}

\* make_pay_outs: what a winning payment is paid of a pot shared by the
\* winning bills; keep and maker_fee, which scale all shares, are left out.
ShareOf(p, pot) ==
    (pot * Amount[p]) \div
        (Cardinality(wager.winner_ids) * shop_orders[BillOf[p]].payed_true)

\* Variant: the status of a payment is not looked at.
ReadyUnchecked ==
    /\ wager.status = "END"
    /\ \A b \in wager.bill_ids : Pending(b) = 0
    /\ \A p \in PaymentsOf(wager.winner_ids) : shop_orders[BillOf[p]].payed_true # 0

\* Every payment to the bills of the wager is decided.
Ready ==
    /\ wager.status = "END"
    /\ \A b \in wager.bill_ids : Pending(b) = 0
    /\ \A p \in PaymentsOf(wager.winner_ids) :
        pay_ins[p].status = "TRUE" /\ shop_orders[BillOf[p]].payed_true # 0

\* Variant: the row stays in wagers_stack.
SolveKept ==
    LET pot == TotalTrue(wager.bill_ids)
        W == PaymentsOf(wager.winner_ids)
    IN
    /\ wagers_stack > 0
    /\ solves < 2
    /\ Ready
    /\ won' = [p \in PayIns |-> won[p] + IF p \in W THEN ShareOf(p, pot) ELSE 0]
    /\ pots' = pots + pot
    /\ solves' = solves + 1
    /\ UNCHANGED <<wagerVars, orderVars, visit, req, credited, ghosts>>

\* The pot is shared, and taken from the kept balance of the shop.
Solve ==
    LET pot == TotalTrue(wager.bill_ids)
        W == PaymentsOf(wager.winner_ids)
    IN
    /\ wagers_stack > 0
    /\ Ready
    /\ wagers_stack' = wagers_stack - 1
    /\ won' = [p \in PayIns |-> won[p] + IF p \in W THEN ShareOf(p, pot) ELSE 0]
    /\ pots' = pots + pot
    /\ solves' = solves + 1
    /\ UNCHANGED <<wager, orderVars, visit, req, credited, ghosts>>

Next ==
    \/ \E r \in Requests :
        \/ BeginBet(r) \/ BeginGo(r) \/ BeginEnd(r) \/ Go(r) \/ End(r)
        \/ \E b \in Bills : MakeBetBill(r, b)
    \/ \E p \in PayIns :
        \/ Receive(p)
        \/ \E w \in Workers :
            \/ Visit(w, p)
            \/ \E new \in Grades[p] : Count(w, p, new)
    \/ \E w \in Workers : Abandon(w)
    \/ Solve

Spec == Init /\ [][Next]_vars

\* serv_blocks goes over the payments, and then the wagers, for every block
\* as long as the wallet answers; chains go on, so a payment is confirmed or
\* lost in the end.
FairSpec ==
    /\ Spec
    /\ \A w \in Workers \ Tools :
        /\ WF_vars(Abandon(w))
        /\ \A p \in PayIns :
            /\ WF_vars(Visit(w, p))
            /\ WF_vars(\E new \in Grades[p] : Count(w, p, new))
    /\ WF_vars(Solve)

-----------------------------------------------------------------------------
\* The types of the variables.
TypeOK ==
    /\ wager.status \in WagerStatus
    /\ wager.winner_ids \subseteq Made
    /\ wager.bill_ids \subseteq Made
    /\ wagers_stack \in Nat
    /\ shop_orders \in [Bills -> OrderRecord]
    /\ \A p \in PayIns :
        pay_ins[p].status \in PayStatus /\ pay_ins[p].amo_ret \in 0..Amount[p]
    /\ \A r \in Requests : req[r].op \in Ops \cup {"none"} /\ req[r].ids \subseteq Made

\* Two requests for the end of one wager add two rows to wagers_stack, and a
\* late go makes an ended wager run again: the pot is paid twice.  Unless they
\* race, it is paid once.
SolvedOnceUnlessRaced == raced \cap {"go", "end"} = {} => solves + wagers_stack <= 1

\* A bill made while the wager starts to run, or by two requests at once, may
\* be missing in the list of conditions, and go on taking payments; unless
\* requests race, every bill made is a condition, priced when the wager runs.
BetsListedUnlessRaced ==
    raced = {} =>
        /\ wager.bill_ids = Made
        /\ wager.status # "PAY" => \A b \in Made : price[b] # 0

\* An open bill credits the shop for every payment; go puts a price on it,
\* and closing credits the price.  The shop is not credited more than was
\* paid to the bill, unless go found it half confirmed.
CreditedOnce ==
    \A b \in Bills \ (mixed \cup crossed) :
        credited[b] <= shop_orders[b].payed_true

\* What solve takes from the kept balance was credited before, however the
\* payments were split between go and the time after it.
PotBacked ==
    (crossed = {} /\ raced = {}) =>
        pots <= SumFunctionOnSet(credited, wager.bill_ids)

\* The shares drawn for the winners never exceed the pot, unless a payment was
\* taken with less than its amount after go: the shares count whole amounts.
PotCovered ==
    (late = {} /\ crossed = {} /\ raced = {}) =>
        SumFunctionOnSet(won, PayIns) <= pots

Raced == raced # {} \/ crossed # {}

\* wager_lib.py:10-11, "pay all who paid the bill of the winning condition":
\* a wager that has ended is solved, unless a payment got lost.
WinnersPaid ==
    wagers_stack > 0 ~>
        wagers_stack = 0 \/ Raced \/ \E p \in PayIns : pay_ins[p].status = "INVALID"

=============================================================================
