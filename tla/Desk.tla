-------------------------------- MODULE Desk --------------------------------
(***************************************************************************)
(* The requests that open the service to its customers: a shop registers    *)
(* (api.register_simple), a bill is made for it (cp_api.make), and a        *)
(* customer asks for an address to pay it to (bill.to_pay_make), next to    *)
(* the loop that scans the blocks of one cryptocurrency.                    *)
(*                                                                         *)
(* A request reads the tables without a lock, asks the wallet, and writes   *)
(* in one transaction, which is committed before its page is sent.          *)
(***************************************************************************)
EXTENDS Integers, FiniteSets, Sequences

CONSTANTS
    Names,      \* addresses that shops are registered by
    Txs,        \* transactions customers send
    Requests,   \* processes of the web server
    PriceOf,    \* shop_orders.price of the bills, in their order
    MaxOuts     \* bound: outputs of a transaction

Bills == DOMAIN PriceOf
Vouts == 1 .. MaxOuts

ASSUME DeskAssumption ==
    /\ PriceOf \in Seq(Int) /\ MaxOuts \in Nat
    /\ IsFiniteSet(Requests)

VARIABLES
    shops,              \* the names of the rows of shops, in their order
    shop_orders,        \* the rows of shops that the bills belong to
    shop_orders_stack,  \* bills that may expire
    shop_order_addrs,   \* rows: a bill and an address
    account,            \* the wallet: the addresses labelled with a bill
    shown,              \* addresses the customers of a bill have seen
    outs,               \* whom the outputs of a transaction pay
    mined,              \* transactions in a block
    scanned,            \* those whose block the loop has scanned
    pay_ins,            \* rows for an output
    pay_ins_return,     \* rows for an output
    req                 \* the local variables of a request

shopTables == <<shops, shop_orders, shop_orders_stack>>
payTables == <<pay_ins, pay_ins_return>>
chain == <<outs, mined>>
vars == <<shopTables, shop_order_addrs, account, shown, chain, scanned, payTables, req>>

\* An address is the k-th one of a bill's label.  No bill has the others: what
\* the wallet answers instead of an address when it fails, an address of the
\* wallet in no table, an address of somebody else.
Failure == <<0, 0>>
Stray == <<0, 1>>
Foreign == <<0, 2>>
Addr == {Failure, Stray, Foreign} \cup (Bills \X (1 .. Cardinality(Requests)))

Idle == [pc |-> "idle", name |-> "", shop |-> 0, bill |-> 0, addr |-> Failure]

Init ==
    /\ shops = << >> /\ shop_orders = << >> /\ shop_orders_stack = {}
    /\ shop_order_addrs = << >>
    /\ account = [b \in Bills |-> << >>]
    /\ shown = {}
    /\ outs = [t \in Txs |-> << >>]
    /\ mined = {} /\ scanned = {}
    /\ pay_ins = [t \in Txs |-> [o \in Vouts |-> 0]]
    /\ pay_ins_return = [t \in Txs |-> [o \in Vouts |-> 0]]
    /\ req = [w \in Requests |-> Idle]

-----------------------------------------------------------------------------
(* Shops and bills. *)

ShopRows(n) == {i \in DOMAIN shops : shops[i] = n}
First(S) == CHOOSE i \in S : \A j \in S : i <= j

\* register_simple: a name that has a row is only told so.
RegisterLook(w) ==
    /\ req[w].pc = "idle"
    /\ \E n \in Names :
        /\ ShopRows(n) = {}
        /\ req' = [req EXCEPT ![w] = [Idle EXCEPT !.pc = "register", !.name = n]]
    /\ UNCHANGED <<shopTables, shop_order_addrs, account, shown, chain, scanned,
                   payTables>>

\* make_simple_shop does not look again (noseek).
RegisterInsert(w) ==
    /\ req[w].pc = "register"
    /\ shops' = Append(shops, req[w].name)
    /\ req' = [req EXCEPT ![w] = Idle]
    /\ UNCHANGED <<shop_orders, shop_orders_stack, shop_order_addrs, account, shown,
                   chain, scanned, payTables>>

\* make: is_simple_shop looks for the shop, which an address or the number of
\* its row stands for.
MakeLook(w) ==
    /\ req[w].pc = "idle"
    /\ Len(shop_orders) < Len(PriceOf)
    /\ \/ \E n \in Names :
            /\ ShopRows(n) = {}
            /\ req' = [req EXCEPT ![w] = [Idle EXCEPT !.pc = "make", !.name = n]]
       \/ \E i \in DOMAIN shops :
            req' = [req EXCEPT ![w] = [Idle EXCEPT !.pc = "make", !.shop = i]]
    /\ UNCHANGED <<shopTables, shop_order_addrs, account, shown, chain, scanned,
                   payTables>>

\* Variant: the shop is not inserted.
MakeShopNot(w) ==
    /\ req[w].pc = "make"
    /\ req' = [req EXCEPT ![w] = Idle]
    /\ UNCHANGED <<shops, shop_order_addrs, account, shown, chain, scanned, payTables>>

\* make inserts the shop, unless it has found one.
MakeShop(w) ==
    /\ req[w].pc = "make"
    /\ shops' = IF req[w].shop = 0 THEN Append(shops, req[w].name) ELSE shops
    /\ req' = [req EXCEPT ![w] = Idle]
    /\ UNCHANGED <<shop_order_addrs, account, shown, chain, scanned, payTables>>

\* It inserts the bill too and, for a price above 0, the row that lets the bill
\* expire.
MakeInsert(w) ==
    LET new == Len(shop_orders) + 1 IN
    /\ new \in Bills
    /\ MakeShop(w)
    /\ shop_orders' = Append(shop_orders, IF req[w].shop = 0 THEN Len(shops') ELSE req[w].shop)
    /\ shop_orders_stack' =
           IF PriceOf[new] > 0 THEN shop_orders_stack \cup {new} ELSE shop_orders_stack

\* The currency is unknown: make returns an error, and what it has inserted is
\* committed.
MakeRefused(w) ==
    /\ MakeShop(w)
    /\ UNCHANGED <<shop_orders, shop_orders_stack>>

-----------------------------------------------------------------------------
(* An address to pay a bill to. *)

AddrRows(b) == {i \in DOMAIN shop_order_addrs : shop_order_addrs[i].bill = b}

\* get_shop_order_addr_for_xcurr finds a row: its address is shown.
ToPayFound(w) ==
    /\ req[w].pc = "idle"
    /\ \E b \in DOMAIN shop_orders :
        /\ AddrRows(b) # {}
        /\ shown' = shown \cup {<<b, shop_order_addrs[First(AddrRows(b))].addr>>}
    /\ UNCHANGED <<shopTables, shop_order_addrs, account, chain, scanned, payTables,
                   req>>

\* It finds none, and calls getaddressesbyaccount.
ToPayLook(w) ==
    /\ req[w].pc = "idle"
    /\ \E b \in DOMAIN shop_orders :
        /\ AddrRows(b) = {}
        /\ req' = [req EXCEPT ![w] = [Idle EXCEPT !.pc = "account", !.bill = b]]
    /\ UNCHANGED <<shopTables, shop_order_addrs, account, shown, chain, scanned,
                   payTables>>

\* The wallet has an address of the label, or has to make one.
ToPayAccount(w) ==
    LET has == account[req[w].bill] IN
    /\ req[w].pc = "account"
    /\ req' = IF has = << >> THEN [req EXCEPT ![w].pc = "new"]
              ELSE [req EXCEPT ![w].pc = "insert", ![w].addr = has[1]]
    /\ UNCHANGED <<shopTables, shop_order_addrs, account, shown, chain, scanned,
                   payTables>>

\* getnewaddress.
ToPayNew(w) ==
    LET b == req[w].bill
        new == <<b, Len(account[b]) + 1>>
    IN
    /\ req[w].pc = "new"
    /\ account' = [account EXCEPT ![b] = Append(@, new)]
    /\ req' = [req EXCEPT ![w].pc = "insert", ![w].addr = new]
    /\ UNCHANGED <<shopTables, shop_order_addrs, shown, chain, scanned, payTables>>

\* The wallet fails: what the proxy returns is taken for the address.
ToPayNewFails(w) ==
    /\ req[w].pc = "new"
    /\ req' = [req EXCEPT ![w].pc = "insert", ![w].addr = Failure]
    /\ UNCHANGED <<shopTables, shop_order_addrs, account, shown, chain, scanned,
                   payTables>>

\* Variant: the row is not inserted when the bill has got one meanwhile.
ToPayInsertOne(w) ==
    /\ req[w].pc = "insert"
    /\ shop_order_addrs' =
           IF AddrRows(req[w].bill) # {} THEN shop_order_addrs
           ELSE Append(shop_order_addrs, [bill |-> req[w].bill, addr |-> req[w].addr])
    /\ shown' = shown \cup {<<req[w].bill, req[w].addr>>}
    /\ req' = [req EXCEPT ![w] = Idle]
    /\ UNCHANGED <<shopTables, account, chain, scanned, payTables>>

\* The row is inserted, and the address shown.
ToPayInsert(w) ==
    /\ req[w].pc = "insert"
    /\ shop_order_addrs' =
           Append(shop_order_addrs, [bill |-> req[w].bill, addr |-> req[w].addr])
    /\ shown' = shown \cup {<<req[w].bill, req[w].addr>>}
    /\ req' = [req EXCEPT ![w] = Idle]
    /\ UNCHANGED <<shopTables, account, chain, scanned, payTables>>

-----------------------------------------------------------------------------
(* Transactions, and the rows they get. *)

Payable == {p[2] : p \in shown} \ {Failure}

Send(t) ==
    /\ outs[t] = << >>
    /\ \E n \in Vouts : \E to \in [1 .. n -> Payable \cup {Stray, Foreign}] :
        /\ \E i \in 1 .. n : to[i] # Foreign
        /\ outs' = [outs EXCEPT ![t] = to]
    /\ UNCHANGED <<shopTables, shop_order_addrs, account, shown, mined, scanned,
                   payTables, req>>

Mine(t) ==
    /\ outs[t] # << >> /\ t \notin mined
    /\ mined' = mined \cup {t}
    /\ UNCHANGED <<shopTables, shop_order_addrs, account, shown, outs, scanned,
                   payTables, req>>

\* Outputs to addresses of shop_order_addrs, and others of the wallet.
Ours(t) == {o \in DOMAIN outs[t] : \E i \in DOMAIN shop_order_addrs :
                                       shop_order_addrs[i].addr = outs[t][o]}
Strays(t) == {o \in DOMAIN outs[t] : outs[t][o] # Foreign} \ Ours(t)

\* A row more in table f for each output in O.
Bump(f, t, O) == [f EXCEPT ![t] = [o \in Vouts |-> f[t][o] + IF o \in O THEN 1 ELSE 0]]

\* The loop: b_p_db_update with the outputs that listunspent lists, a block's
\* once, those of no block as often as it comes by.
Scan(t) ==
    LET fresh == {o \in Ours(t) : pay_ins[t][o] = 0} IN
    /\ outs[t] # << >> /\ t \notin scanned
    /\ t \notin mined => fresh # {}
    /\ pay_ins' = Bump(pay_ins, t, fresh)
    /\ pay_ins_return' = Bump(pay_ins_return, t, IF t \in mined THEN Strays(t) ELSE {})
    /\ scanned' = IF t \in mined THEN scanned \cup {t} ELSE scanned
    /\ UNCHANGED <<shopTables, shop_order_addrs, account, shown, chain, req>>

\* An exception, or the end of the process: nothing of the request remains.
Fail(w) ==
    /\ req[w].pc # "idle"
    /\ req' = [req EXCEPT ![w] = Idle]
    /\ UNCHANGED <<shopTables, shop_order_addrs, account, shown, chain, scanned,
                   payTables>>

-----------------------------------------------------------------------------
Next ==
    \/ \E w \in Requests :
        \/ RegisterLook(w) \/ RegisterInsert(w)
        \/ MakeLook(w) \/ MakeInsert(w) \/ MakeRefused(w)
        \/ ToPayFound(w) \/ ToPayLook(w) \/ ToPayAccount(w)
        \/ ToPayNew(w) \/ ToPayNewFails(w) \/ ToPayInsert(w)
        \/ Fail(w)
    \/ \E t \in Txs : Send(t) \/ Mine(t) \/ Scan(t)

Spec == Init /\ [][Next]_vars

-----------------------------------------------------------------------------
(* Properties. *)

TypeOK ==
    /\ shops \in Seq(Names)
    /\ shop_orders \in Seq(DOMAIN shops) /\ Len(shop_orders) <= Len(PriceOf)
    /\ shop_orders_stack \subseteq DOMAIN shop_orders
    /\ shop_order_addrs \in Seq([bill : DOMAIN shop_orders, addr : Addr])
    /\ account \in [Bills -> Seq(Addr)]
    /\ shown \subseteq (DOMAIN shop_orders) \X Addr
    /\ outs \in [Txs -> Seq(Addr)]
    /\ scanned \subseteq mined /\ mined \subseteq {t \in Txs : outs[t] # << >>}
    /\ pay_ins \in [Txs -> [Vouts -> Nat]]
    /\ pay_ins_return \in [Txs -> [Vouts -> Nat]]
    /\ \A w \in Requests :
        /\ req[w].pc \in {"idle", "register", "make", "account", "new", "insert"}
        /\ req[w].bill \in DOMAIN shop_orders \cup {0} /\ req[w].addr \in Addr
        /\ req[w].shop \in DOMAIN shops \cup {0}

\* What a scanned block pays to an address that the customers of a bill have
\* seen has one row, is not sent back, and the address is found to be of that
\* bill (serv_block_proc.py:70), whoever has asked for an address of the bill at
\* the same time, and however often the loop has met the payment before.
PaidReachesBill ==
    \A t \in scanned : \A o \in DOMAIN outs[t] : \A p \in shown :
        p[2] = outs[t][o] =>
            /\ pay_ins[t][o] = 1 /\ pay_ins_return[t][o] = 0
            /\ LET found == {i \in DOMAIN shop_order_addrs : shop_order_addrs[i].addr = p[2]}
               IN  found # {} /\ shop_order_addrs[First(found)].bill = p[1]
=============================================================================
