------------------------------ MODULE OrdersLib ------------------------------
(***************************************************************************)
(* The life of a bill (shop_orders) and of the payments sent to it         *)
(* (pay_ins): modules/orders_lib.py, run for every block of every          *)
(* cryptocurrency by serv_block_proc.run_once, and once a minute by        *)
(* serv_blocks.run_blocks (check_expired).                                 *)
(*                                                                         *)
(* The variables are the tables of models/db.py, and what the workers hold *)
(* in memory.  Beside the service, tools.inputs_update and tools.block_proc *)
(* run the same code in a process of the web server.  A worker reads a row  *)
(* of the stack with its payment and its bill, asks the wallet about it,    *)
(* and writes what follows from what it has read: only the fields it gives  *)
(* to update_record.  No lock is held from the reading to the writing.      *)
(*                                                                         *)
(* Amounts are integers: an amount of a payment counts units of its own    *)
(* currency, a price, amo_out and the payed_* sums count units of the      *)
(* currency of the bill.                                                   *)
(***************************************************************************)
EXTENDS Integers, FiniteSetsExt, BillSums

CONSTANTS
    PayIns,        \* outputs (txid, vout) that may be paid to a bill
    ShopOrders,    \* bills
    Xcurrs,        \* cryptocurrencies with a wallet
    OrderOf,       \* the bill a payment goes to, through shop_order_addrs
    XcurrOf,       \* the cryptocurrency of a payment
    Amounts,       \* the amounts a payer may send
    SameCurr,      \* payments in the currency of their bill
    Worth,         \* the values get_amo_out may give a payment; rates move
    Price,         \* shop_orders.price, 0 for a bill that stays open
    NotConvert,    \* bills with not_convert set
    NoteOn,        \* shop_orders.note_on
    TxFee, ConfSoft, ConfHard, ConfTrue,   \* the fields of xcurrs
    Workers,       \* the service and the requests that do its work
    Tools,         \* those requests: tools.inputs_update, tools.block_proc
    NoRow,         \* a worker that has no row in hand
    RefuseTries,   \* tries before an unconvertible payment is sent back: 8
    Unsettled,     \* bound: the payments whose block may be replaced
    MaxBlock       \* bound: the last block of every chain

OrderStatus == {"NEW", "FILL", "SOFT", "HARD"} \cup Unused
PayStatus == {"NONE", "NEW", "SOFT", "HARD", "TRUE", "INVALID", "RETURNED"}
Pending == {"NEW", "SOFT", "HARD"}

ASSUME ParamAssumption ==
    /\ IsFiniteSet(PayIns)
    /\ OrderOf \in [PayIns -> ShopOrders]
    /\ XcurrOf \in [PayIns -> Xcurrs]
    /\ Amounts \in [PayIns -> SUBSET (Nat \ {0})]
    /\ SameCurr \subseteq PayIns
    /\ Worth \in [PayIns -> SUBSET (Nat \ {0})]
    /\ Price \in [ShopOrders -> Nat]
    /\ NotConvert \subseteq ShopOrders
    /\ NoteOn \in [ShopOrders -> {"", "HARD", "CLOSED"}]
    /\ TxFee \in [Xcurrs -> Nat]
    /\ ConfSoft \in [Xcurrs -> Nat]
    /\ ConfHard \in [Xcurrs -> Nat]
    /\ ConfTrue \in [Xcurrs -> Nat]
    /\ Tools \subseteq Workers
    /\ NoRow \notin PayIns \cup ShopOrders /\ PayIns \cap ShopOrders = {}
    /\ RefuseTries \in Nat
    /\ Unsettled \subseteq PayIns
    /\ MaxBlock \in Nat

VARIABLES
    pay_ins,            \* the payments the service has seen
    pay_ins_stack,      \* payments still to be decided
    pay_ins_return,     \* amount queued to go back to the sender, 0 if none
    shop_orders,        \* the bills
    shop_orders_stack,  \* bills that may expire
    shop_orders_notes,  \* bills with a notification to deliver
    credited,           \* credited to the shop, in the currency of the bill
    given,              \* credited to the shop, in the currency of the payment
    curr_block,         \* height of each chain
    mined,              \* block that holds the payment, 0 while in no block
    todo,               \* rows of the stack a worker has still to visit
    visit,              \* what a worker has read for the row in hand
    torn                \* bills written from a copy that was out of date

orderVars == <<shop_orders, shop_orders_stack, shop_orders_notes, credited, given>>
payVars == <<pay_ins, pay_ins_stack, pay_ins_return>>
chainVars == <<curr_block, mined>>
workVars == <<todo, visit>>
vars == <<payVars, orderVars, chainVars, workVars, torn>>

PayRecord ==
    [status : PayStatus, amount : Nat, amo_out : Int, amo_ret : Nat,
     in_block : Nat, tryed : Nat]
OrderRecord ==
    [status : OrderStatus, payed_soft : Int, payed_hard : Int, payed_true : Int]

NoPay == [status |-> "NONE", amount |-> 0, amo_out |-> 0, amo_ret |-> 0,
          in_block |-> 0, tryed |-> 0]
NewBill == [status |-> "NEW", payed_soft |-> 0, payed_hard |-> 0, payed_true |-> 0]

\* blk is the height that the worker passes as curr_block.
Visits == [row : PayIns \cup ShopOrders \cup {NoRow}, blk : Nat,
           pay : PayRecord, bill : OrderRecord]
Idle == [row |-> NoRow, blk |-> 0, pay |-> NoPay, bill |-> NewBill]

Init ==
    /\ pay_ins = [p \in PayIns |-> NoPay]
    /\ pay_ins_stack = {}
    /\ pay_ins_return = [p \in PayIns |-> 0]
    /\ shop_orders = [o \in ShopOrders |-> NewBill]
    /\ shop_orders_stack = {o \in ShopOrders : Price[o] > 0}
    /\ shop_orders_notes = {}
    /\ credited = [o \in ShopOrders |-> 0]
    /\ given = [p \in PayIns |-> 0]
    /\ curr_block = [x \in Xcurrs |-> 1]
    /\ mined = [p \in PayIns |-> 0]
    /\ todo = [w \in Workers |-> {}]
    /\ visit = [w \in Workers |-> Idle]
    /\ torn = {}

-----------------------------------------------------------------------------
(* What follows from a visit v to payment p: v.pay and v.bill are the       *)
(* copies of its row and of its bill.                                       *)

Conf(v) == v.blk - v.pay.in_block + 1

\* The status the number of blocks since in_block gives to a payment.
Grade(p, v) ==
    LET x == XcurrOf[p] IN
    IF Conf(v) >= ConfTrue[x] THEN "TRUE"
    ELSE IF Conf(v) >= ConfHard[x] THEN "HARD"
    ELSE IF Conf(v) >= ConfSoft[x] THEN "SOFT" ELSE "NEW"

\* The value a payment is counted with.  A difference with what is left to
\* pay under 1% of the price is forgiven.
Accurate(o, bill, amo) ==
    LET rest == Price[o] - AllPayed(bill)
        diff == IF amo > rest THEN amo - rest ELSE rest - amo
    IN  IF Price[o] > 0 /\ 100 * diff < Price[o] THEN rest ELSE amo

\* The values amo_out may have after this visit: once set it is kept; it is
\* 0 (not set) while the rate is not known.
AmoOuts(p, v) ==
    IF v.pay.amo_out # 0 THEN {v.pay.amo_out}
    ELSE IF p \in SameCurr THEN {v.pay.amount}
    ELSE IF Conf(v) > 0 /\ v.bill.status \notin Unused
         THEN {0} \cup {Accurate(OrderOf[p], v.bill, w) : w \in Worth[p]}
         ELSE {0}

Tries(p, v) ==
    LET x == XcurrOf[p]
        n == v.pay.tryed
    IN  IF Conf(v) >= ConfTrue[x] + 3 * ConfTrue[x] * (1 + n) THEN n + 1 ELSE n

\* The row, with the fields written that the visit has found a value for.
Valued(p, v, amo) ==
    [pay_ins[p] EXCEPT !.amo_out = IF amo # v.pay.amo_out THEN amo ELSE @]
Tried(p, v, amo) ==
    [Valued(p, v, amo) EXCEPT !.tryed = IF Tries(p, v) # v.pay.tryed THEN Tries(p, v) ELSE @]

-----------------------------------------------------------------------------
(* return_pay_ins_one: queue amo to go back, unless a row for this payment  *)
(* is queued already; ret is the amo_ret of the copy.                       *)

CanReturn(p, amo) == amo > 0 /\ pay_ins_return[p] = 0

Returned(row, p, ret, amo, st) ==
    IF CanReturn(p, amo)
    THEN [row EXCEPT !.amo_ret = ret + amo, !.status = st] ELSE row

Queued(p, amo) == IF CanReturn(p, amo) THEN amo ELSE pay_ins_return[p]

ReturnPayInsOne(row, p, ret, amo, st) ==
    /\ pay_ins' = [pay_ins EXCEPT ![p] = Returned(row, p, ret, amo, st)]
    /\ pay_ins_return' = [pay_ins_return EXCEPT ![p] = Queued(p, amo)]

SavePayIn(row, p) ==
    /\ pay_ins' = [pay_ins EXCEPT ![p] = row]
    /\ UNCHANGED pay_ins_return

-----------------------------------------------------------------------------
(* update_payed *)

\* price < payed_true + amo once 0.5% and two fees are taken off the price.
OverLimit(p, v, amo) ==
    200 * Price[OrderOf[p]] < 201 * (v.bill.payed_true + amo + 2 * TxFee[XcurrOf[p]])

\* Variant: what is paid above the price is kept.
TakenWhole(p, v, amo) == amo

\* What a fully confirmed payment adds to payed_true: no more than is missing.
Taken(p, v, amo) ==
    LET o == OrderOf[p] IN
    IF Price[o] > 0 /\ OverLimit(p, v, amo) THEN Price[o] - v.bill.payed_true ELSE amo

\* The part of the payment that was not needed, in its own currency, rounded
\* to the unit; nothing if it is not worth two fees.
Change(p, v, amo) ==
    LET rest == amo - Taken(p, v, amo)
        ret  == (2 * v.pay.amount * rest + amo) \div (2 * amo)
    IN  IF Taken(p, v, amo) > 0 /\ rest > 0 /\ ret > 2 * TxFee[XcurrOf[p]]
        THEN ret ELSE 0

\* make_note: note_on mutes the statuses before the one asked for.
Muted(o, st) ==
    \/ NoteOn[o] = "HARD" /\ st = "SOFT"
    \/ NoteOn[o] = "CLOSED" /\ st \in {"SOFT", "HARD"}

\* insert_shop_trans_order for a bill that stays open: the payment is passed
\* on as it comes.
PassOn(p, v, new, amo) ==
    LET o == OrderOf[p] IN
    /\ credited' = [credited EXCEPT ![o] =
            @ + IF new = "TRUE" /\ o \notin NotConvert THEN amo ELSE 0]
    /\ given' = [given EXCEPT ![p] =
            @ + IF new = "TRUE" /\ o \in NotConvert THEN v.pay.amount ELSE 0]

\* insert_shop_trans_order for a bill that closes: its price, or with
\* not_convert what is kept of every payment recorded for the bill.
PayShop(o) ==
    IF o \in NotConvert
    THEN /\ given' = [q \in PayIns |->
                given[q] + IF OrderOf[q] = o
                           THEN pay_ins'[q].amount - pay_ins'[q].amo_ret ELSE 0]
         /\ UNCHANGED credited
    ELSE /\ credited' = [credited EXCEPT ![o] = @ + Price[o]]
         /\ UNCHANGED given

\* Variant: it goes back as soon as it is HARD.
LatePaymentEager(p, v, row, new) ==
    /\ v.bill.status \in Unused
    /\ LET paid == [row EXCEPT !.status = new] IN
       IF new \in {"HARD", "TRUE"}
       THEN ReturnPayInsOne(paid, p, v.pay.amo_ret, v.pay.amount, "RETURNED")
       ELSE SavePayIn(paid, p)
    /\ UNCHANGED orderVars

\* A payment that comes to a bill that is closed or expired goes back.
LatePayment(p, v, row, new) ==
    /\ v.bill.status \in Unused
    /\ LET paid == [row EXCEPT !.status = new] IN
       IF new = "TRUE"
       THEN ReturnPayInsOne(paid, p, v.pay.amo_ret, v.pay.amount, "RETURNED")
       ELSE SavePayIn(paid, p)
    /\ UNCHANGED orderVars

\* The row of the bill: the sums that the change of status touches are those
\* counted from the copy.
Merged(o, v, new, s, st) ==
    LET moved == {v.pay.status, new} IN
    [shop_orders[o] EXCEPT
        !.status     = IF st # v.bill.status THEN st ELSE @,
        !.payed_soft = IF "SOFT" \in moved THEN s.payed_soft ELSE @,
        !.payed_hard = IF "HARD" \in moved THEN s.payed_hard ELSE @,
        !.payed_true = IF new = "TRUE" THEN s.payed_true ELSE @]

CountPayment(p, v, row, new, amo) ==
    LET o == OrderOf[p]
        s == Counted(v.bill, v.pay.status, new, amo, Taken(p, v, amo))
        st == NewStatus(Price[o], s, v.bill.status)
        paid == [row EXCEPT !.status = new]
    IN
    /\ v.bill.status \notin Unused
    /\ IF new = "TRUE" /\ Price[o] > 0
       THEN ReturnPayInsOne(paid, p, v.pay.amo_ret, Change(p, v, amo), "TRUE")
       ELSE SavePayIn(paid, p)
    /\ shop_orders' = [shop_orders EXCEPT ![o] = Merged(o, v, new, s, st)]
    /\ shop_orders_notes' =
           IF Price[o] = 0 \/ (st # s.status /\ ~Muted(o, st))
           THEN shop_orders_notes \cup {o} ELSE shop_orders_notes
    /\ IF Price[o] > 0 /\ st = "CLOSED"
       THEN /\ shop_orders_stack' = shop_orders_stack \ {o}
            /\ PayShop(o)
       ELSE /\ UNCHANGED shop_orders_stack
            /\ IF Price[o] = 0 THEN PassOn(p, v, new, amo) ELSE UNCHANGED <<credited, given>>

\* amo is the amo_out of the copy, row the row of the table.
UpdatePayed(p, v, row, new, amo) ==
    \/ /\ amo = 0
       /\ SavePayIn(row, p)
       /\ UNCHANGED orderVars
    \/ amo # 0 /\ LatePayment(p, v, row, new)
    \/ amo # 0 /\ CountPayment(p, v, row, new, amo)

-----------------------------------------------------------------------------
(* inputs_update: a visit to the row of payment p.  To delete a row of the  *)
(* stack that another worker has deleted raises.                            *)

\* Variant: the payment keeps its own amo_out.
InputInvalidUnrated(p, v) ==
    /\ p \in pay_ins_stack
    /\ pay_ins_stack' = pay_ins_stack \ {p}
    /\ UpdatePayed(p, v, pay_ins[p], "INVALID", v.pay.amo_out)

\* trans_exist finds no transaction: it is gone, or the wallet answered the
\* call with an error, which comes back as an answer without details.
InputInvalid(p, v) ==
    /\ p \in pay_ins_stack
    /\ pay_ins_stack' = pay_ins_stack \ {p}
    /\ UpdatePayed(p, v, pay_ins[p], "INVALID", -1)

\* Variant: the row stays in the stack.
InputTrueKept(p, v) ==
    /\ p \in pay_ins_stack
    /\ Grade(p, v) = "TRUE"
    /\ \E amo \in AmoOuts(p, v) \ {0} : UpdatePayed(p, v, Tried(p, v, amo), "TRUE", amo)
    /\ UNCHANGED pay_ins_stack

InputTrue(p, v) ==
    /\ p \in pay_ins_stack
    /\ Grade(p, v) = "TRUE"
    /\ \E amo \in AmoOuts(p, v) \ {0} : UpdatePayed(p, v, Tried(p, v, amo), "TRUE", amo)
    /\ pay_ins_stack' = pay_ins_stack \ {p}

\* Variants: it is sent back at once; it is never sent back from a priced bill.
RefusedAtOnce(p, v) == TRUE
RefusedUnpriced(p, v) == Price[OrderOf[p]] = 0 /\ Tries(p, v) >= RefuseTries

\* No rate for a payment that is fully confirmed.
Refused(p, v) ==
    IF Price[OrderOf[p]] = 0 THEN Tries(p, v) >= RefuseTries ELSE v.bill.status \in Unused

InputUnrated(p, v) ==
    /\ Grade(p, v) = "TRUE"
    /\ 0 \in AmoOuts(p, v)
    /\ \/ /\ Refused(p, v)
          /\ p \in pay_ins_stack
          /\ pay_ins_stack' = pay_ins_stack \ {p}
          /\ ReturnPayInsOne(Tried(p, v, v.pay.amo_out), p, v.pay.amo_ret, v.pay.amount, "RETURNED")
       \/ /\ ~Refused(p, v)
          /\ SavePayIn(Tried(p, v, v.pay.amo_out), p)
          /\ UNCHANGED pay_ins_stack
    /\ UNCHANGED orderVars

\* Not fully confirmed: a new status moves the amount between the sums.
InputGrade(p, v) ==
    /\ Grade(p, v) # "TRUE"
    /\ \E amo \in AmoOuts(p, v) :
        IF Grade(p, v) \in {"NEW", v.pay.status}
        THEN SavePayIn(Valued(p, v, amo), p) /\ UNCHANGED orderVars
        ELSE UpdatePayed(p, v, Valued(p, v, amo), Grade(p, v), amo)
    /\ UNCHANGED pay_ins_stack

Decide(p, v) ==
    InputInvalid(p, v) \/ InputTrue(p, v) \/ InputUnrated(p, v) \/ InputGrade(p, v)

-----------------------------------------------------------------------------
(* check_expired, with return_pay_ins for the payments already counted,     *)
(* which it selects when it has deleted the row of the bill.  expire_on is  *)
(* not kept: the bill may be due at any moment.                             *)

Kept(p) == pay_ins[p].amount - pay_ins[p].amo_ret

\* Variant: the payments are forgotten.
ExpireOnly(o) ==
    /\ o \in shop_orders_stack
    /\ shop_orders_stack' = shop_orders_stack \ {o}
    /\ shop_orders' = [shop_orders EXCEPT ![o].status = "EXPIRED"]
    /\ UNCHANGED <<payVars, shop_orders_notes, credited, given>>

Expire(o) ==
    LET counted == {p \in PayIns : OrderOf[p] = o /\ pay_ins[p].status = "TRUE"}
        row(p) == Returned(pay_ins[p], p, pay_ins[p].amo_ret, Kept(p), "RETURNED")
    IN
    /\ o \in shop_orders_stack
    /\ shop_orders_stack' = shop_orders_stack \ {o}
    /\ shop_orders' = [shop_orders EXCEPT ![o].status = "EXPIRED"]
    /\ pay_ins' = [p \in PayIns |-> IF p \in counted THEN row(p) ELSE pay_ins[p]]
    /\ pay_ins_return' = [p \in PayIns |->
           IF p \in counted THEN Queued(p, Kept(p)) ELSE pay_ins_return[p]]
    /\ UNCHANGED <<pay_ins_stack, shop_orders_notes, credited, given>>

-----------------------------------------------------------------------------
(* The workers.                                                             *)

\* inputs_update begins for a cryptocurrency: it selects its rows.  run_once
\* passes the height of the chain, tools.inputs_update one it is given or the
\* one saved in xcurrs.
Begin(w, x) ==
    /\ visit[w].row = NoRow /\ todo[w] = {}
    /\ \E b \in IF w \in Tools THEN 1 .. curr_block[x] ELSE {curr_block[x]} :
           visit' = [visit EXCEPT ![w].blk = b]
    /\ todo' = [todo EXCEPT ![w] = {p \in pay_ins_stack : XcurrOf[p] = x}]
    /\ todo'[w] # {}
    /\ UNCHANGED <<payVars, orderVars, chainVars, torn>>

\* It reads the payment of the next row, and its bill.
Look(w, p) ==
    /\ visit[w].row = NoRow /\ p \in todo[w]
    /\ todo' = [todo EXCEPT ![w] = @ \ {p}]
    /\ visit' = [visit EXCEPT ![w].row = p, ![w].pay = pay_ins[p],
                              ![w].bill = shop_orders[OrderOf[p]]]
    /\ UNCHANGED <<payVars, orderVars, chainVars, torn>>

\* Nobody has written to the payment or to the bill since, but for in_block, and
\* the payment is still to be decided.
Fresh(p, v) ==
    /\ p \in pay_ins_stack
    /\ pay_ins[p] = [v.pay EXCEPT !.in_block = pay_ins[p].in_block]
    /\ shop_orders[OrderOf[p]] = v.bill

\* The end of a visit that has written to bill o and to its payments.
Done(w, o, fresh) ==
    /\ visit' = [visit EXCEPT ![w] =
           [Idle EXCEPT !.blk = IF todo[w] = {} THEN 0 ELSE visit[w].blk]]
    /\ torn' = IF fresh \/ UNCHANGED <<payVars, orderVars>> THEN torn ELSE torn \cup {o}
    /\ UNCHANGED <<chainVars, todo>>

\* It asks the wallet, and writes.
InputsUpdate(w, p) ==
    /\ visit[w].row = p
    /\ Decide(p, visit[w])
    /\ Done(w, OrderOf[p], Fresh(p, visit[w]))

\* check_expired, which the loop of the service calls when its passes are done,
\* reads a bill that is due, and keeps it if it is marked as paid.
LookExpired(w, o) ==
    /\ w \notin Tools
    /\ visit[w].row = NoRow /\ todo[w] = {}
    /\ o \in shop_orders_stack
    /\ shop_orders[o].status \notin {"SOFT", "HARD"}
    /\ visit' = [visit EXCEPT ![w].row = o, ![w].bill = shop_orders[o]]
    /\ UNCHANGED <<payVars, orderVars, chainVars, todo, torn>>

CheckExpired(w, o) ==
    /\ visit[w].row = o
    /\ Expire(o)
    /\ Done(w, o, shop_orders[o].status \notin {"SOFT", "HARD"})

\* An exception, or the end of the process: the visit and the rows after it are
\* left for another time.
Fail(w) ==
    /\ visit[w].row # NoRow \/ todo[w] # {}
    /\ visit' = [visit EXCEPT ![w] = Idle]
    /\ todo' = [todo EXCEPT ![w] = {}]
    /\ UNCHANGED <<payVars, orderVars, chainVars, torn>>

-----------------------------------------------------------------------------
(* The rest of the service, as far as it touches these tables.              *)

\* b_p_db_update records a new output to an address of a bill.  An output
\* that is in no block yet is given the next block.
Receive(p) ==
    /\ pay_ins[p].status = "NONE"
    /\ \E m \in 0 .. curr_block[XcurrOf[p]], a \in Amounts[p] :
        /\ mined' = [mined EXCEPT ![p] = m]
        /\ pay_ins' = [pay_ins EXCEPT ![p].status = "NEW", ![p].amount = a,
               ![p].in_block = IF m = 0 THEN curr_block[XcurrOf[p]] + 1 ELSE m]
    /\ pay_ins_stack' = pay_ins_stack \cup {p}
    /\ UNCHANGED <<pay_ins_return, orderVars, curr_block, workVars, torn>>

\* b_p_db_update meets a recorded output again, now with confirmations.
Rescan(p) ==
    /\ pay_ins[p].status # "NONE"
    /\ mined[p] > 0
    /\ pay_ins' = [pay_ins EXCEPT ![p].in_block = mined[p]]
    /\ UNCHANGED <<pay_ins_stack, pay_ins_return, orderVars, chainVars, workVars, torn>>

\* return_refused has sent the queued amount, or dropped the row.
ReturnRefused(p) ==
    /\ pay_ins_return[p] # 0
    /\ pay_ins_return' = [pay_ins_return EXCEPT ![p] = 0]
    /\ UNCHANGED <<pay_ins, pay_ins_stack, orderVars, chainVars, workVars, torn>>

\* del_note: the shop has asked for the bill, or the tries are used up.
DelNote(o) ==
    /\ shop_orders_notes' = shop_orders_notes \ {o}
    /\ UNCHANGED <<payVars, shop_orders, shop_orders_stack, credited, given,
                   chainVars, workVars, torn>>

-----------------------------------------------------------------------------
(* The chains.                                                              *)

NewBlock(x) ==
    /\ curr_block[x] < MaxBlock
    /\ curr_block' = [curr_block EXCEPT ![x] = @ + 1]
    /\ \E M \in SUBSET {p \in pay_ins_stack : XcurrOf[p] = x /\ mined[p] = 0} :
           mined' = [p \in PayIns |-> IF p \in M THEN curr_block[x] + 1 ELSE mined[p]]
    /\ UNCHANGED <<payVars, orderVars, workVars, torn>>

\* A longer chain replaces the one that holds the payment.
Orphan(p) ==
    LET x == XcurrOf[p] IN
    /\ p \in pay_ins_stack \cap Unsettled
    /\ mined[p] # 0
    /\ curr_block[x] < MaxBlock
    /\ mined' = [mined EXCEPT ![p] = 0]
    /\ curr_block' = [curr_block EXCEPT ![x] = @ + 1]
    /\ UNCHANGED <<payVars, orderVars, workVars, torn>>

Next ==
    \/ \E w \in Workers :
        \/ \E x \in Xcurrs : Begin(w, x)
        \/ \E p \in PayIns : Look(w, p) \/ InputsUpdate(w, p)
        \/ \E o \in ShopOrders : LookExpired(w, o) \/ CheckExpired(w, o)
        \/ Fail(w)
    \/ \E p \in PayIns :
        Receive(p) \/ Rescan(p) \/ ReturnRefused(p) \/ Orphan(p)
    \/ \E o \in ShopOrders : DelNote(o)
    \/ \E x \in Xcurrs : NewBlock(x)

Spec == Init /\ [][Next]_vars

\* Every poll of run_once runs inputs_update, which goes through the rows, and
\* check_expired runs every minute, in a process that is started again when it
\* dies: a visit that is tried again and again is done at some time.
Fairness ==
    /\ \A w \in Workers \ Tools :
        /\ \A x \in Xcurrs : SF_vars(Begin(w, x))
        /\ \A p \in PayIns : SF_vars(Look(w, p)) /\ SF_vars(InputsUpdate(w, p))
        /\ \A o \in ShopOrders : SF_vars(LookExpired(w, o)) /\ SF_vars(CheckExpired(w, o))
    /\ \A x \in Xcurrs : WF_vars(NewBlock(x))

FairSpec == Spec /\ Fairness

-----------------------------------------------------------------------------
(* The bill as the payer and the shop see it.                               *)

BillOf(o) ==
    CASE shop_orders[o].status = "CLOSED"  -> "closed"
      [] shop_orders[o].status = "EXPIRED" -> "expired"
      [] OTHER                             -> "open"

ShareOf(p) ==
    CASE pay_ins[p].status = "NONE"     -> "absent"
      [] pay_ins[p].status \in Pending  -> "pending"
      [] pay_ins[p].status = "INVALID"  -> "rejected"
      [] pay_ins[p].status = "RETURNED" -> "returned"
      [] pay_ins[p].status = "TRUE" /\ pay_ins[p].amo_ret = 0 -> "taken"
      [] OTHER                          -> "split"

Bills == [o \in ShopOrders |-> BillOf(o)]
Shares == [p \in PayIns |-> ShareOf(p)]

Abstract == INSTANCE Invoice WITH bill <- Bills, share <- Shares, earned <- credited, void <- torn

-----------------------------------------------------------------------------
(* Properties.  A bill in torn is one for which a worker has written from a *)
(* copy that another worker had made out of date: only ExcessReturned says  *)
(* anything of what follows from that.  With one worker no bill ever is.    *)

\* The tables implement the bill of module Invoice, whichever worker looks at
\* what: each step is one of its steps, so what is closed, expired, returned or
\* rejected stays so, and the shop earns only in the step that closes the bill.
ImplementsInvoice == Abstract!Spec

TypeOK ==
    /\ pay_ins \in [PayIns -> PayRecord]
    /\ pay_ins_stack \subseteq PayIns
    /\ pay_ins_return \in [PayIns -> Nat]
    /\ shop_orders \in [ShopOrders -> OrderRecord]
    /\ shop_orders_stack \subseteq ShopOrders
    /\ shop_orders_notes \subseteq ShopOrders
    /\ credited \in [ShopOrders -> Int]
    /\ given \in [PayIns -> Int]
    /\ curr_block \in [Xcurrs -> Nat]
    /\ mined \in [PayIns -> Nat]
    /\ todo \in [Workers -> SUBSET PayIns]
    /\ visit \in [Workers -> Visits]
    /\ torn \subseteq ShopOrders

Priced == {o \in ShopOrders : Price[o] > 0}
PaymentsOf(o) == {p \in PayIns : OrderOf[p] = o}

\* The stacks hold exactly what is still to be decided, whichever worker looks
\* at what: a recorded payment leaves pay_ins_stack only with a final status, and
\* a priced bill leaves shop_orders_stack only when it is closed or expired.  A
\* row lost early would never be looked at again.
StackExact ==
    /\ \A p \in PayIns : OrderOf[p] \notin torn =>
        (p \in pay_ins_stack <=> pay_ins[p].status \in Pending)
    /\ \A o \in Priced \ torn :
        o \in shop_orders_stack <=> shop_orders[o].status \notin {"CLOSED", "EXPIRED"}

\* The shop gets the price of a bill once, when it closes, and it closes only
\* when the fully confirmed payments are counted for the whole price.
ShopPaidOnce ==
    \A o \in Priced \ torn :
        /\ shop_orders[o].payed_true <= Price[o]
        /\ shop_orders[o].status = "CLOSED" => shop_orders[o].payed_true = Price[o]
        /\ o \notin NotConvert =>
            credited[o] = IF shop_orders[o].status = "CLOSED" THEN Price[o] ELSE 0

\* A bill that is not marked as paid is not paid: when the counted sums reach
\* the price, update_payed moves it on to SOFT, HARD or CLOSED at once, so
\* check_expired never expires a bill whose sums cover the price.
UnpaidBelowPrice ==
    \A o \in Priced \ torn :
        shop_orders[o].status \in {"NEW", "FILL"} => AllPayed(shop_orders[o]) < Price[o]

\* No payment gives back more than it brought; one that is RETURNED gives
\* back everything, and one still pending or rejected nothing.
RefundBounded ==
    \A p \in PayIns : OrderOf[p] \notin torn =>
        /\ pay_ins[p].amo_ret <= pay_ins[p].amount
        /\ pay_ins[p].status = "RETURNED" => pay_ins[p].amo_ret = pay_ins[p].amount
        /\ pay_ins[p].status \notin {"TRUE", "RETURNED"} => pay_ins[p].amo_ret = 0

\* When a bill expires nothing of what was confirmed for it stays behind:
\* the row of pay_ins_return that makes return_pay_ins_one refuse a second
\* return is never there for a payment that must go back.
ExpiredReturned ==
    \A o \in ShopOrders \ torn : shop_orders[o].status = "EXPIRED" =>
        \A p \in PaymentsOf(o) : pay_ins[p].status # "TRUE"

\* The value of the payments of a bill that have one status.
Counts(o, st, p) ==
    IF OrderOf[p] = o /\ pay_ins[p].status = st THEN pay_ins[p].amo_out ELSE 0

Sum(o, st) ==
    SumFunctionOnSet([p \in PayIns |-> Counts(o, st, p)], PayIns)

SumsAgree(o) ==
    /\ shop_orders[o].payed_soft = Sum(o, "SOFT")
    /\ shop_orders[o].payed_hard = Sum(o, "HARD")

\* "Take the amount off the sum of the old status and add it to the sum of
\* the new one" (orders_lib.py:222): while a bill is open its sums are those
\* of its payments, if none of them became INVALID, which is where the code
\* takes -1 off a sum.
PayedSumsValid ==
    \A o \in ShopOrders \ torn :
        \/ shop_orders[o].status \in Unused
        \/ \E p \in PaymentsOf(o) : pay_ins[p].status = "INVALID"
        \/ SumsAgree(o)

\* A payment is handed to the shop or sent back, never both.
GivenOrReturned ==
    \A p \in PayIns : OrderOf[p] \notin torn =>
        given[p] + pay_ins[p].amo_ret <= pay_ins[p].amount

\* "The service sends back what is too much, less three fees of the network"
\* (views/why/index.html:13): what is kept of the payments of a closed bill, all
\* in its currency, once none of them waits any more.
KeptOf(o, p) == IF OrderOf[p] = o /\ pay_ins[p].status = "TRUE" THEN Kept(p) ELSE 0


\* Every payment is decided, whatever the rates do, unless it waits for the
\* other payments of a bill that is marked as paid.  (Bound: its block leaves
\* room below MaxBlock for all the tries.)
HasTime(p) ==
    MaxBlock + 1 >= pay_ins[p].in_block + ConfTrue[XcurrOf[p]] * (1 + 3 * RefuseTries)

EventuallyDecided ==
    \A p \in PayIns :
        p \in pay_ins_stack /\ HasTime(p) ~>
            \/ p \notin pay_ins_stack \/ ~HasTime(p)
            \/ shop_orders[OrderOf[p]].status \in {"SOFT", "HARD"}
=============================================================================
