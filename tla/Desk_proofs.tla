----------------------------- MODULE Desk_proofs -----------------------------
(***************************************************************************)
(* Theorems about Desk, for any names, bills and prices, transactions with  *)
(* any number of outputs, and any number of requests.                       *)
(***************************************************************************)
EXTENDS Desk, TLAPS, FiniteSetTheorems, SequenceTheorems,
        WellFoundedInduction

Pcs == {"idle", "register", "make", "account", "new", "insert"}
Reqs == [pc : Pcs, name : Names \cup {""}, shop : Nat, bill : Nat, addr : Addr]

Own(b) == {b} \X (1 .. Cardinality(Requests))

\* What a request remembers stands in the tables.
ReqOK(p) ==
    /\ p \in Reqs
    /\ p.shop \in DOMAIN shops \cup {0} /\ p.bill \in DOMAIN shop_orders \cup {0}
    /\ p.pc = "register" \/ (p.pc = "make" /\ p.shop = 0) => p.name \in Names
    /\ p.pc \in {"account", "new", "insert"} => p.bill \in DOMAIN shop_orders
    /\ p.pc = "insert" => p.addr \in Own(p.bill) \cup {Failure}

\* Requests that are about to make an address for a bill.
Making(b) == {w \in Requests : req[w].pc = "new" /\ req[w].bill = b}

\* The wallet makes no more addresses of a bill than there are requests.
AccountOK(b) ==
    /\ account[b] \in Seq(Own(b))
    /\ Len(account[b]) + Cardinality(Making(b)) <= Cardinality(Requests)

\* A bill's addresses are its own.
RowOK(r) == r.addr \in Own(r.bill) \cup {Failure}

\* An address that was shown has a row, and so has what a transaction pays,
\* but for addresses of no bill.
ShownOK == \A p \in shown : \E i \in DOMAIN shop_order_addrs :
                shop_order_addrs[i] = [bill |-> p[1], addr |-> p[2]]
OutsOK(t) ==
    /\ Len(outs[t]) <= MaxOuts
    /\ \A o \in DOMAIN outs[t] : outs[t][o] \in Payable \cup {Stray, Foreign}

\* What is sent to bills has one row, at the latest once it is scanned, and is
\* not sent back; nothing is recorded of what is not sent yet.
ToBills(t) == {o \in DOMAIN outs[t] : outs[t][o] \notin {Stray, Foreign}}
WholeOK(t) ==
    /\ \A o \in Vouts : /\ pay_ins[t][o] <= 1
                        /\ outs[t] = << >> => pay_ins[t][o] = 0 /\ pay_ins_return[t][o] = 0
    /\ \A o \in ToBills(t) : pay_ins_return[t][o] = 0
    /\ t \in scanned => \A o \in ToBills(t) : pay_ins[t][o] = 1

ShopsOK ==
    /\ shops \in Seq(Names)
    /\ shop_orders \in Seq(DOMAIN shops) /\ Len(shop_orders) <= Len(PriceOf)
    /\ shop_orders_stack \subseteq DOMAIN shop_orders

AddrsOK ==
    /\ shop_order_addrs \in Seq([bill : DOMAIN shop_orders, addr : Addr])
    /\ \A i \in DOMAIN shop_order_addrs : RowOK(shop_order_addrs[i])
    /\ shown \subseteq (DOMAIN shop_orders) \X Addr /\ ShownOK

AccountsOK ==
    /\ account \in [Bills -> Seq(Addr)]
    /\ \A b \in Bills : AccountOK(b)

ChainOK ==
    /\ outs \in [Txs -> Seq(Addr)] /\ \A t \in Txs : OutsOK(t)
    /\ scanned \subseteq mined /\ mined \subseteq {t \in Txs : outs[t] # << >>}

RowsOK ==
    /\ pay_ins \in [Txs -> [Vouts -> Nat]] /\ pay_ins_return \in [Txs -> [Vouts -> Nat]]

ReqsOK == DOMAIN req = Requests /\ \A w \in Requests : ReqOK(req[w])

\* The inductive invariant.
IInv ==
    /\ ShopsOK /\ AddrsOK /\ AccountsOK /\ ChainOK /\ RowsOK /\ ReqsOK
    /\ \A t \in Txs : WholeOK(t)

-----------------------------------------------------------------------------
(* Numbers, addresses and smallest members.                                 *)

LEMMA Sizes ==
    /\ Len(PriceOf) \in Nat /\ Bills = 1 .. Len(PriceOf)
    /\ MaxOuts \in Nat /\ Vouts = 1 .. MaxOuts
    /\ IsFiniteSet(Requests) /\ Cardinality(Requests) \in Nat
BY DeskAssumption, FS_CardinalityType DEF DeskAssumption, Bills, Vouts

\* A nonempty set of numbers has a first one.
LEMMA FirstIs ==
    ASSUME NEW n \in Nat, NEW S \in SUBSET (1 .. n), S # {}
    PROVE  First(S) \in S
<1> DEFINE Upto(x) == {y \in S : y <= x}
           T == {Upto(x) : x \in S}
<1>1. IsWellFoundedOn(StrictSubsetOrdering(1 .. n), FiniteSubsetsOf(1 .. n))
  BY FS_StrictSubsetOrderingWellFounded
<1>2. T \subseteq FiniteSubsetsOf(1 .. n) /\ T # {}
  <2>1. ASSUME NEW x \in S PROVE Upto(x) \in FiniteSubsetsOf(1 .. n)
    <3>1. IsFiniteSet(1 .. n)
      BY FS_Interval
    <3>2. Upto(x) \in SUBSET (1 .. n)
      OBVIOUS
    <3> QED BY <3>1, <3>2, FS_Subset DEF FiniteSubsetsOf
  <2> QED BY <2>1
<1>3. PICK u \in T : \A v \in T : <<v, u>> \notin StrictSubsetOrdering(1 .. n)
  <2> HIDE DEF T
  <2> QED BY <1>1, <1>2, WFMin, Zenon
<1>4. PICK x \in S : u = Upto(x)
  OBVIOUS
<1>5. \A y \in S : x <= y
  <2> SUFFICES ASSUME NEW y \in S, y < x PROVE FALSE
    OBVIOUS
  <2> x \in Int /\ y \in Int
    OBVIOUS
  <2>1. x \in Upto(x) /\ x \notin Upto(y)
    OBVIOUS
  <2>2. \A z \in Upto(y) : z \in Int /\ z <= x
    OBVIOUS
  <2>3. Upto(y) \subseteq Upto(x) /\ Upto(x) \subseteq 1 .. n
    BY <2>2
  <2>4. <<Upto(y), Upto(x)>> \in StrictSubsetOrdering(1 .. n)
    BY <2>1, <2>3 DEF StrictSubsetOrdering
  <2> QED BY <1>3, <1>4, <2>4
<1> QED BY <1>5 DEF First

\* The addresses of bills are not those of no bill, and no two bills share one.
LEMMA OwnIs ==
    /\ \A b \in Bills : Own(b) \subseteq Addr /\ Own(b) \cap {Failure, Stray, Foreign} = {}
    /\ \A b, c \in Bills : b # c => Own(b) \cap Own(c) = {}
    /\ Failure \in Addr /\ Stray \in Addr /\ Foreign \in Addr
    /\ Failure # Stray /\ Failure # Foreign /\ Stray # Foreign
BY Sizes DEF Own, Addr, Failure, Stray, Foreign

\* The rows are those of bills.
LEMMA BillsMade ==
    ASSUME IInv
    PROVE  /\ DOMAIN shops = 1 .. Len(shops) /\ Len(shops) \in Nat
           /\ DOMAIN shop_orders = 1 .. Len(shop_orders) /\ Len(shop_orders) \in Nat
           /\ DOMAIN shop_orders \subseteq Bills
           /\ DOMAIN shop_order_addrs = 1 .. Len(shop_order_addrs)
           /\ Len(shop_order_addrs) \in Nat
           /\ \A i \in DOMAIN shop_order_addrs :
                shop_order_addrs[i] \in [bill : DOMAIN shop_orders, addr : Addr]
<1>1. shop_orders \in Seq(DOMAIN shops) /\ Len(shop_orders) <= Len(PriceOf)
  BY DEF IInv, ShopsOK
<1> DEFINE R == [bill : DOMAIN shop_orders, addr : Addr]
<1>2. shop_order_addrs \in Seq(R)
  BY DEF IInv, AddrsOK
<1>3. DOMAIN shop_orders = 1 .. Len(shop_orders) /\ Len(shop_orders) \in Nat
  BY <1>1
<1>4. DOMAIN shop_orders \subseteq Bills
  BY <1>1, <1>3, Sizes
<1>5. DOMAIN shops = 1 .. Len(shops) /\ Len(shops) \in Nat
  BY DEF IInv, ShopsOK
<1>6. /\ DOMAIN shop_order_addrs = 1 .. Len(shop_order_addrs) /\ Len(shop_order_addrs) \in Nat
      /\ \A i \in DOMAIN shop_order_addrs : shop_order_addrs[i] \in R
  <2> HIDE DEF R
  <2> QED BY <1>2
<1> QED BY <1>3, <1>4, <1>5, <1>6

\* The outputs that b_p_db_update takes for its bills are those to bills.
LEMMA OursIs ==
    ASSUME IInv, NEW t \in Txs
    PROVE  /\ Ours(t) = ToBills(t) /\ ToBills(t) \subseteq Vouts
           /\ outs[t] \in Seq(Addr) /\ DOMAIN outs[t] \subseteq Vouts
<1>1. outs[t] \in Seq(Addr) /\ OutsOK(t)
  BY DEF IInv, ChainOK
<1>2. DOMAIN outs[t] = 1 .. Len(outs[t]) /\ Len(outs[t]) \in Nat /\ Len(outs[t]) <= MaxOuts
  BY <1>1 DEF OutsOK
<1>3. DOMAIN outs[t] \subseteq Vouts
  BY <1>2, Sizes
<1>4. ASSUME NEW o \in DOMAIN outs[t], NEW i \in DOMAIN shop_order_addrs,
             shop_order_addrs[i].addr = outs[t][o]
      PROVE  outs[t][o] \notin {Stray, Foreign}
  <2>1. shop_order_addrs[i].bill \in Bills /\ RowOK(shop_order_addrs[i])
    BY BillsMade DEF IInv, AddrsOK
  <2> QED BY <1>4, <2>1, OwnIs DEF RowOK
<1>5. ASSUME NEW o \in ToBills(t)
      PROVE  \E i \in DOMAIN shop_order_addrs : shop_order_addrs[i].addr = outs[t][o]
  <2>1. outs[t][o] \in Payable
    BY <1>1 DEF OutsOK, ToBills
  <2>2. PICK p \in shown : p[2] = outs[t][o]
    BY <2>1 DEF Payable
  <2>3. PICK i \in DOMAIN shop_order_addrs :
            shop_order_addrs[i] = [bill |-> p[1], addr |-> p[2]]
    BY DEF IInv, AddrsOK, ShownOK
  <2> QED BY <2>2, <2>3
<1>6. Ours(t) = ToBills(t)
  BY <1>4, <1>5 DEF Ours, ToBills
<1> QED BY <1>1, <1>3, <1>6 DEF ToBills

-----------------------------------------------------------------------------
(* Requests that read, and their ends.                                      *)

\* Fewer requests make an address for a bill.
LEMMA MakingLess ==
    ASSUME NEW b, Making(b)' \subseteq Making(b)
    PROVE  /\ Cardinality(Making(b))' \in Nat /\ Cardinality(Making(b)) \in Nat
           /\ Cardinality(Making(b))' <= Cardinality(Making(b))
<1>1. Making(b) \subseteq Requests
  BY DEF Making
<1>2. IsFiniteSet(Making(b))
  BY <1>1, Sizes, FS_Subset
<1> QED BY <1>2, FS_Subset, FS_CardinalityType

tables == <<shopTables, shop_order_addrs, shown, chain, scanned, payTables>>

LEMMA ReqStep ==
    ASSUME IInv, NEW w \in Requests, UNCHANGED <<tables, account>>,
           req' = [req EXCEPT ![w] = req'[w]], ReqOK(req'[w]),
           req'[w].pc = "new" => account[req'[w].bill] = << >>
    PROVE  IInv'
<1>1. \A v \in Requests \ {w} : req'[v] = req[v]
  BY DEF IInv, ReqsOK
<1>2. DOMAIN req' = Requests
  BY DEF IInv, ReqsOK
<1>3. ShopsOK' /\ AddrsOK' /\ ChainOK' /\ RowsOK'
  BY DEF IInv, tables, shopTables, chain, payTables, ShopsOK, AddrsOK, ShownOK, ChainOK, OutsOK,
         Payable, RowsOK
<1>4. ReqsOK'
  <2>1. ASSUME NEW v \in Requests PROVE ReqOK(req'[v])
    BY <1>1 DEF IInv, ReqsOK
  <2> QED BY <1>2, <2>1 DEF ReqsOK, ReqOK, tables, shopTables
<1>5. AccountsOK'
  <2>1. ASSUME NEW b \in Bills PROVE AccountOK(b)'
    <3>1. AccountOK(b) /\ account' = account
      BY DEF IInv, AccountsOK
    <3>2. CASE w \in Making(b)'
      <4>1. account[b] = << >>
        BY <3>2 DEF Making
      <4>2. Making(b)' \subseteq Requests
        BY DEF Making
      <4>3. Cardinality(Making(b))' <= Cardinality(Requests)
            /\ Cardinality(Making(b))' \in Nat
        BY <4>2, Sizes, FS_Subset, FS_CardinalityType
      <4> QED BY <3>1, <4>1, <4>3 DEF AccountOK
    <3>3. CASE w \notin Making(b)'
      <4>1. Making(b)' \subseteq Making(b)
        BY <1>1, <3>3 DEF Making
      <4>2. Len(account[b]) \in Nat
        BY <3>1 DEF AccountOK
      <4> QED BY <3>1, <4>1, <4>2, MakingLess, Sizes DEF AccountOK
    <3> QED BY <3>2, <3>3
  <2> QED BY <2>1 DEF IInv, AccountsOK
<1>6. ASSUME NEW t \in Txs PROVE WholeOK(t)'
  BY DEF IInv, WholeOK, ToBills, tables, chain, payTables
<1> QED BY <1>3, <1>4, <1>5, <1>6 DEF IInv

LEMMA IdleIs == Idle \in Reqs /\ Idle.pc = "idle" /\ Idle.shop = 0 /\ Idle.bill = 0
BY DEF Idle, Reqs, Pcs, Addr

LEMMA IdleStep ==
    ASSUME IInv, NEW w \in Requests, UNCHANGED <<tables, account>>,
           req' = [req EXCEPT ![w] = Idle]
    PROVE  IInv'
<1>1. req'[w] = Idle
  BY DEF IInv, ReqsOK, RowsOK
<1> QED BY <1>1, IdleIs, ReqStep DEF ReqOK

LEMMA LookSteps ==
    ASSUME IInv, NEW w \in Requests, RegisterLook(w) \/ MakeLook(w) \/ ToPayLook(w)
    PROVE  IInv'
<1> USE IdleIs
<1>1. UNCHANGED <<tables, account>> /\ DOMAIN req = Requests
  BY DEF RegisterLook, MakeLook, ToPayLook, tables, IInv, ReqsOK, RowsOK
<1>2. CASE RegisterLook(w)
  <2>1. PICK n \in Names : req' = [req EXCEPT ![w] = [Idle EXCEPT !.pc = "register", !.name = n]]
    BY <1>2 DEF RegisterLook
  <2>2. req'[w] = [Idle EXCEPT !.pc = "register", !.name = n]
    BY <1>1, <2>1
  <2>3. ReqOK(req'[w]) /\ req'[w].pc = "register"
    BY <2>2 DEF ReqOK, Reqs, Pcs
  <2> QED BY <1>1, <2>1, <2>2, <2>3, ReqStep
<1>3. CASE MakeLook(w)
  <2>1. ASSUME NEW n \in Names,
               req' = [req EXCEPT ![w] = [Idle EXCEPT !.pc = "make", !.name = n]]
        PROVE  IInv'
    <3>1. req'[w] = [Idle EXCEPT !.pc = "make", !.name = n]
      BY <1>1, <2>1
    <3>2. ReqOK(req'[w]) /\ req'[w].pc = "make"
      BY <3>1 DEF ReqOK, Reqs, Pcs
    <3> QED BY <1>1, <2>1, <3>1, <3>2, ReqStep
  <2>2. ASSUME NEW i \in DOMAIN shops,
               req' = [req EXCEPT ![w] = [Idle EXCEPT !.pc = "make", !.shop = i]]
        PROVE  IInv'
    <3>1. req'[w] = [Idle EXCEPT !.pc = "make", !.shop = i]
      BY <1>1, <2>2
    <3>2. i \in Nat /\ i # 0
      BY BillsMade
    <3>3. ReqOK(req'[w]) /\ req'[w].pc = "make"
      BY <3>1, <3>2 DEF ReqOK, Reqs, Pcs
    <3> QED BY <1>1, <2>2, <3>1, <3>3, ReqStep
  <2> QED BY <1>3, <2>1, <2>2 DEF MakeLook
<1>4. CASE ToPayLook(w)
  <2>1. PICK b \in DOMAIN shop_orders :
            req' = [req EXCEPT ![w] = [Idle EXCEPT !.pc = "account", !.bill = b]]
    BY <1>4 DEF ToPayLook
  <2>2. req'[w] = [Idle EXCEPT !.pc = "account", !.bill = b] /\ b \in Nat
    BY <1>1, <2>1, BillsMade
  <2>3. ReqOK(req'[w]) /\ req'[w].pc = "account"
    BY <2>2 DEF ReqOK, Reqs, Pcs
  <2> QED BY <1>1, <2>1, <2>2, <2>3, ReqStep
<1> QED BY <1>2, <1>3, <1>4

LEMMA AccountSteps ==
    ASSUME IInv, NEW w \in Requests, ToPayAccount(w) \/ ToPayNewFails(w)
    PROVE  IInv'
<1>1. UNCHANGED <<tables, account>> /\ DOMAIN req = Requests
  BY DEF ToPayAccount, ToPayNewFails, tables, IInv, ReqsOK, RowsOK
<1> DEFINE p == req[w]
           b == p.bill
<1>2. ReqOK(p) /\ p.pc \in {"account", "new"} /\ b \in DOMAIN shop_orders /\ b \in Bills
  BY BillsMade DEF IInv, ReqsOK, ReqOK, ToPayAccount, ToPayNewFails
<1>3. account[b] \in Seq(Own(b))
  BY <1>2 DEF IInv, AccountsOK, AccountOK
<1>4. PICK q : req' = [req EXCEPT ![w] = q] /\
        \/ q = [p EXCEPT !.pc = "new"] /\ account[b] = << >>
        \/ q = [p EXCEPT !.pc = "insert", !.addr = Failure]
        \/ q = [p EXCEPT !.pc = "insert", !.addr = account[b][1]] /\ account[b] # << >>
  <2>1. CASE ToPayAccount(w) /\ account[b] = << >>
    BY <2>1 DEF ToPayAccount
  <2>2. CASE ToPayAccount(w) /\ account[b] # << >>
    BY <2>2 DEF ToPayAccount
  <2>3. CASE ToPayNewFails(w)
    BY <2>3 DEF ToPayNewFails
  <2> QED BY <2>1, <2>2, <2>3
<1>5. account[b] # << >> => account[b][1] \in Own(b)
  BY <1>3
<1>6. q = req'[w]
  BY <1>1, <1>4
<1>7. /\ q \in Reqs /\ q.shop = p.shop /\ q.bill = b /\ q.pc \in {"new", "insert"}
      /\ q.pc = "insert" => q.addr \in Own(b) \cup {Failure}
      /\ q.pc = "new" => account[b] = << >>
  <2>1. p \in Reqs /\ Own(b) \subseteq Addr /\ Failure \in Addr
    BY <1>2, OwnIs DEF ReqOK
  <2> QED BY <1>4, <1>5, <2>1 DEF Reqs, Pcs
<1>8. ReqOK(q)
  BY <1>2, <1>7 DEF ReqOK
<1> HIDE DEF p, b
<1> QED BY <1>1, <1>4, <1>6, <1>7, <1>8, ReqStep

-----------------------------------------------------------------------------
(* Steps that write.                                                        *)

\* Requests that end, or go on beside a step.
LEMMA RestReqs ==
    ASSUME IInv, DOMAIN req' = Requests, \A v \in Requests : req'[v] \in {req[v], Idle},
           account' = account, DOMAIN shops \subseteq DOMAIN shops',
           DOMAIN shop_orders \subseteq DOMAIN shop_orders'
    PROVE  AccountsOK' /\ ReqsOK'
<1>1. ASSUME NEW v \in Requests PROVE ReqOK(req[v])'
  <2>1. ReqOK(req[v])
    BY DEF IInv, ReqsOK
  <2>2. CASE req'[v] = Idle
    BY <2>2, IdleIs DEF ReqOK
  <2>3. CASE req'[v] = req[v]
    BY <2>1, <2>3 DEF ReqOK
  <2> QED BY <2>2, <2>3
<1>2. ASSUME NEW b \in Bills PROVE AccountOK(b)'
  <2>1. AccountOK(b)
    BY DEF IInv, AccountsOK
  <2>2. Making(b)' \subseteq Making(b)
    BY IdleIs DEF Making
  <2>3. Len(account[b]) \in Nat
    BY <2>1 DEF AccountOK
  <2> QED BY <2>1, <2>2, <2>3, MakingLess, Sizes DEF AccountOK
<1> QED BY <1>1, <1>2 DEF IInv, ReqsOK, AccountsOK

\* A shop, or a bill and perhaps its shop, are inserted.
LEMMA ShopStep ==
    ASSUME IInv, NEW w \in Requests, RegisterInsert(w) \/ MakeInsert(w) \/ MakeRefused(w)
    PROVE  IInv'
<1> DEFINE p == req[w]
<1>1. ReqOK(p) /\ DOMAIN req = Requests
  BY DEF IInv, ReqsOK
<1>2. /\ UNCHANGED <<shop_order_addrs, account, shown, chain, scanned, payTables>>
      /\ req' = [req EXCEPT ![w] = Idle]
  BY DEF RegisterInsert, MakeInsert, MakeRefused, MakeShop
<1>3. shops \in Seq(Names) /\ shop_orders \in Seq(DOMAIN shops)
      /\ Len(shop_orders) <= Len(PriceOf) /\ shop_orders_stack \subseteq DOMAIN shop_orders
  BY DEF IInv, ShopsOK
<1>4. \/ shops' = shops
      \/ p.name \in Names /\ shops' = Append(shops, p.name)
  <2>1. CASE RegisterInsert(w)
    BY <1>1, <2>1 DEF RegisterInsert, ReqOK
  <2>2. CASE MakeShop(w)
    BY <1>1, <2>2 DEF MakeShop, ReqOK
  <2> QED BY <2>1, <2>2 DEF MakeInsert, MakeRefused
<1>5. /\ shops' \in Seq(Names) /\ DOMAIN shops \subseteq DOMAIN shops'
      /\ DOMAIN shops' = 1 .. Len(shops') /\ Len(shops') \in Nat
  <2>1. CASE shops' = shops
    BY <1>3, <2>1, BillsMade
  <2>2. CASE p.name \in Names /\ shops' = Append(shops, p.name)
    <3>1. shops' \in Seq(Names) /\ Len(shops') = Len(shops) + 1
      BY <1>3, <2>2, AppendProperties
    <3> QED BY <3>1, BillsMade
  <2> QED BY <1>4, <2>1, <2>2
<1>6. shop_orders \in Seq(DOMAIN shops')
  <2> DEFINE D == DOMAIN shops
             E == DOMAIN shops'
  <2> HIDE DEF D, E
  <2>1. D \subseteq E /\ shop_orders \in Seq(D)
    BY <1>3, <1>5 DEF D, E
  <2> QED BY <2>1, SeqMonotonic DEF E
<1>7. \/ shop_orders' = shop_orders /\ shop_orders_stack' = shop_orders_stack
      \/ \E s \in DOMAIN shops' :
            /\ Len(shop_orders) + 1 \in Bills
            /\ shop_orders' = Append(shop_orders, s)
            /\ shop_orders_stack' \subseteq shop_orders_stack \cup {Len(shop_orders) + 1}
  <2>1. CASE RegisterInsert(w) \/ MakeRefused(w)
    BY <2>1 DEF RegisterInsert, MakeRefused
  <2>2. CASE MakeInsert(w)
    <3>1. p.shop = 0 => shops' = Append(shops, p.name) /\ p.name \in Names
      BY <1>1, <2>2 DEF MakeInsert, MakeShop, ReqOK
    <3>2. p.shop = 0 => Len(shops') \in DOMAIN shops'
      BY <1>3, <3>1
    <3>3. p.shop # 0 => p.shop \in DOMAIN shops'
      BY <1>1, <1>5 DEF ReqOK
    <3> QED BY <2>2, <3>2, <3>3 DEF MakeInsert
  <2> QED BY <2>1, <2>2
<1>8. ShopsOK' /\ DOMAIN shop_orders \subseteq DOMAIN shop_orders'
  <2>1. CASE shop_orders' = shop_orders /\ shop_orders_stack' = shop_orders_stack
    BY <1>3, <1>5, <1>6, <2>1 DEF ShopsOK
  <2>2. ASSUME NEW s \in DOMAIN shops', Len(shop_orders) + 1 \in Bills,
               shop_orders' = Append(shop_orders, s),
               shop_orders_stack' \subseteq shop_orders_stack \cup {Len(shop_orders) + 1}
        PROVE  <1>8
    <3> DEFINE E == DOMAIN shops'
    <3>1. shop_orders \in Seq(E) /\ s \in E
      BY <1>6
    <3>2. /\ shop_orders' \in Seq(E) /\ Len(shop_orders') = Len(shop_orders) + 1
          /\ DOMAIN shop_orders' = 1 .. (Len(shop_orders) + 1)
      <4> HIDE DEF E
      <4> QED BY <2>2, <3>1, AppendProperties
    <3>3. Len(shop_orders') <= Len(PriceOf)
      BY <2>2, <3>2, Sizes
    <3>4. /\ DOMAIN shop_orders \subseteq DOMAIN shop_orders'
          /\ Len(shop_orders) + 1 \in DOMAIN shop_orders'
      BY <3>2, BillsMade
    <3> QED BY <1>3, <1>5, <2>2, <3>2, <3>3, <3>4 DEF ShopsOK
  <2> QED BY <1>7, <2>1, <2>2
<1>9. AddrsOK'
  <2> DEFINE R == [bill : DOMAIN shop_orders, addr : Addr]
             Q == [bill : DOMAIN shop_orders', addr : Addr]
  <2>1. R \subseteq Q /\ shop_order_addrs \in Seq(R)
    BY <1>8 DEF IInv, AddrsOK
  <2>2. shop_order_addrs \in Seq(Q)
    <3> HIDE DEF R, Q
    <3> QED BY <2>1, SeqMonotonic
  <2>3. shown \subseteq (DOMAIN shop_orders') \X Addr
    BY <1>8 DEF IInv, AddrsOK
  <2> QED BY <1>2, <2>2, <2>3 DEF IInv, AddrsOK, ShownOK
<1>10. ChainOK' /\ RowsOK'
  BY <1>2 DEF IInv, chain, payTables, ChainOK, OutsOK, Payable, RowsOK
<1>11. ASSUME NEW t \in Txs PROVE WholeOK(t)'
  BY <1>2 DEF IInv, WholeOK, ToBills, chain, payTables
<1>12. AccountsOK' /\ ReqsOK'
  <2>1. DOMAIN req' = Requests /\ \A v \in Requests : req'[v] \in {req[v], Idle}
    BY <1>1, <1>2
  <2> QED BY <1>2, <1>5, <1>8, <1>11, <2>1, RestReqs
<1> QED BY <1>8, <1>9, <1>10, <1>11, <1>12 DEF IInv

\* An address is shown that has a row.
LEMMA ShownStep ==
    ASSUME IInv, AddrsOK', shown \subseteq shown',
           UNCHANGED <<shopTables, account, chain, scanned, payTables>>,
           DOMAIN req' = Requests, \A v \in Requests : req'[v] \in {req[v], Idle}
    PROVE  IInv'
<1>1. ShopsOK' /\ RowsOK'
  BY DEF IInv, shopTables, payTables, ShopsOK, RowsOK
<1>2. Payable \subseteq Payable'
  BY DEF Payable
<1>3. ChainOK'
  BY <1>2 DEF IInv, chain, ChainOK, OutsOK
<1>4. ASSUME NEW t \in Txs PROVE WholeOK(t)'
  BY DEF IInv, WholeOK, ToBills, chain, payTables
<1>5. AccountsOK' /\ ReqsOK'
  BY <1>4, RestReqs DEF shopTables
<1> QED BY <1>1, <1>3, <1>4, <1>5 DEF IInv

LEMMA FoundInv == ASSUME IInv, NEW w \in Requests, ToPayFound(w) PROVE IInv'
<1>1. PICK b \in DOMAIN shop_orders :
        /\ AddrRows(b) # {}
        /\ shown' = shown \cup {<<b, shop_order_addrs[First(AddrRows(b))].addr>>}
  BY DEF ToPayFound
<1> DEFINE i == First(AddrRows(b))
           p == <<b, shop_order_addrs[i].addr>>
<1>2. i \in AddrRows(b)
  BY <1>1, BillsMade, FirstIs DEF AddrRows
<1>3. /\ i \in DOMAIN shop_order_addrs /\ shop_order_addrs[i].bill = b
      /\ shop_order_addrs[i] \in [bill : DOMAIN shop_orders, addr : Addr]
  BY <1>2, BillsMade DEF AddrRows
<1>4. /\ shop_order_addrs[i] = [bill |-> p[1], addr |-> p[2]]
      /\ p \in (DOMAIN shop_orders) \X Addr
  BY <1>3
<1>5. AddrsOK'
  <2> HIDE DEF i, p
  <2>1. shown' = shown \cup {p}
    BY <1>1 DEF i, p
  <2>2. ShownOK'
    BY <1>3, <1>4, <2>1 DEF IInv, AddrsOK, ShownOK, ToPayFound
  <2> QED BY <1>4, <2>1, <2>2 DEF IInv, AddrsOK, ToPayFound, shopTables
<1> QED BY <1>1, <1>5, ShownStep DEF ToPayFound, IInv, ReqsOK

LEMMA InsertInv == ASSUME IInv, NEW w \in Requests, ToPayInsert(w) PROVE IInv'
<1> DEFINE p == req[w]
           r == [bill |-> p.bill, addr |-> p.addr]
           R == [bill : DOMAIN shop_orders, addr : Addr]
           n == Len(shop_order_addrs)
<1>1. ReqOK(p) /\ p.pc = "insert" /\ DOMAIN req = Requests
  BY DEF IInv, ReqsOK, ToPayInsert
<1>2. r \in R /\ RowOK(r) /\ r.bill = p.bill /\ r.addr = p.addr
  BY <1>1 DEF ReqOK, Reqs, RowOK
<1>3. shop_order_addrs' = Append(shop_order_addrs, r) /\ shop_order_addrs \in Seq(R)
      /\ shown' = shown \cup {<<p.bill, p.addr>>} /\ shop_orders' = shop_orders
  BY DEF IInv, AddrsOK, ToPayInsert, shopTables
<1>4. /\ shop_order_addrs' \in Seq(R) /\ DOMAIN shop_order_addrs' = 1 .. (n + 1)
      /\ \A i \in 1 .. n : shop_order_addrs'[i] = shop_order_addrs[i]
      /\ shop_order_addrs'[n + 1] = r /\ DOMAIN shop_order_addrs = 1 .. n /\ n \in Nat
  <2> HIDE DEF R, r
  <2>1. shop_order_addrs' \in Seq(R) /\ Len(shop_order_addrs') = n + 1
    BY <1>2, <1>3, AppendProperties
  <2> QED BY <1>2, <1>3, <2>1, AppendProperties
<1>5. AddrsOK'
  <2>1. \A i \in DOMAIN shop_order_addrs' : RowOK(shop_order_addrs'[i])
    <3> SUFFICES ASSUME NEW i \in 1 .. (n + 1) PROVE RowOK(shop_order_addrs'[i])
      BY <1>4
    <3>1. CASE i = n + 1
      BY <1>2, <1>4, <3>1
    <3>2. CASE i # n + 1
      <4>1. i \in 1 .. n
        BY <1>4, <3>2
      <4>2. RowOK(shop_order_addrs[i])
        BY <1>4, <4>1 DEF IInv, AddrsOK
      <4> QED BY <1>4, <4>1, <4>2
    <3> QED BY <3>1, <3>2
  <2>2. ShownOK'
    <3> SUFFICES ASSUME NEW q \in shown'
                 PROVE  \E i \in DOMAIN shop_order_addrs' :
                            shop_order_addrs'[i] = [bill |-> q[1], addr |-> q[2]]
      BY DEF ShownOK
    <3>1. CASE q \in shown
      <4>1. PICK i \in 1 .. n : shop_order_addrs[i] = [bill |-> q[1], addr |-> q[2]]
        BY <1>4, <3>1 DEF IInv, AddrsOK, ShownOK
      <4> QED BY <1>4, <4>1
    <3>2. CASE q = <<p.bill, p.addr>>
      <4>1. n + 1 \in 1 .. (n + 1) /\ r = [bill |-> q[1], addr |-> q[2]]
        BY <1>4, <3>2
      <4> QED BY <1>4, <4>1
    <3> QED BY <1>3, <3>1, <3>2
  <2>3. shown' \subseteq (DOMAIN shop_orders) \X Addr
    BY <1>2, <1>3 DEF IInv, AddrsOK
  <2> QED BY <1>3, <1>4, <2>1, <2>2, <2>3 DEF AddrsOK
<1>6. DOMAIN req' = Requests /\ \A v \in Requests : req'[v] \in {req[v], Idle}
  BY <1>1 DEF ToPayInsert
<1> QED BY <1>3, <1>5, <1>6, ShownStep DEF ToPayInsert

\* getnewaddress: the request has an address, and is not about to make one.
LEMMA NewInv == ASSUME IInv, NEW w \in Requests, ToPayNew(w) PROVE IInv'
<1>0. ReqOK(req[w]) /\ req[w].pc = "new" /\ DOMAIN req = Requests
      /\ req[w].bill \in Bills /\ req[w].bill \in DOMAIN shop_orders
  BY BillsMade DEF IInv, ReqsOK, ReqOK, ToPayNew
<1> PICK b \in Bills : b = req[w].bill
  BY <1>0
<1> DEFINE p == req[w]
           a == <<b, Len(account[b]) + 1>>
           q == [p EXCEPT !.pc = "insert", !.addr = a]
<1>1. ReqOK(p) /\ p.pc = "new" /\ DOMAIN req = Requests /\ p.bill = b /\ b \in DOMAIN shop_orders
  BY <1>0
<1>2. account \in [Bills -> Seq(Addr)] /\ AccountOK(b)
  BY DEF IInv, AccountsOK
<1>3. req' = [req EXCEPT ![w] = q] /\ account' = [account EXCEPT ![b] = Append(@, a)]
  BY DEF ToPayNew
<1>4. /\ account'[b] = Append(account[b], a)
      /\ \A c \in Bills \ {b} : account'[c] = account[c]
  BY <1>2, <1>3
<1>5. UNCHANGED tables
  BY DEF ToPayNew, tables
<1>6. /\ Making(b) \subseteq Requests /\ w \in Making(b) /\ IsFiniteSet(Making(b))
      /\ Cardinality(Making(b)) \in Nat /\ Cardinality(Making(b)) # 0
  <2>1. Making(b) \subseteq Requests /\ w \in Making(b)
    BY <1>1 DEF Making
  <2>2. IsFiniteSet(Making(b))
    BY <2>1, Sizes, FS_Subset
  <2> QED BY <2>1, <2>2, FS_EmptySet, FS_CardinalityType
<1>7. Len(account[b]) \in Nat /\ account[b] \in Seq(Own(b))
      /\ Len(account[b]) + Cardinality(Making(b)) <= Cardinality(Requests)
  BY <1>2 DEF AccountOK
<1>8. a \in Own(b)
  <2>1. Len(account[b]) + 1 \in 1 .. Cardinality(Requests)
    BY <1>6, <1>7, Sizes
  <2> QED BY <2>1 DEF Own
<1>9. q \in Reqs /\ q.shop = p.shop /\ q.bill = b /\ q.pc = "insert" /\ q.addr = a
  <2>1. p \in Reqs /\ a \in Addr
    BY <1>1, <1>2, <1>8, OwnIs DEF ReqOK
  <2> HIDE DEF a
  <2> QED BY <2>1 DEF Reqs, Pcs
<1> HIDE DEF q, a
<1>10. req'[w] = q /\ DOMAIN req' = Requests /\ \A v \in Requests \ {w} : req'[v] = req[v]
  BY <1>1, <1>3
<1>11. ReqsOK'
  <2>1. ASSUME NEW v \in Requests PROVE ReqOK(req[v])'
    <3>1. ReqOK(req[v]) /\ UNCHANGED <<shops, shop_orders>>
      BY <1>5 DEF IInv, ReqsOK, tables, shopTables
    <3>2. CASE v = w
      BY <1>1, <1>8, <1>9, <1>10, <3>1, <3>2 DEF ReqOK
    <3>3. CASE v # w
      BY <1>10, <3>1, <3>3 DEF ReqOK
    <3> QED BY <3>2, <3>3
  <2> QED BY <1>10, <2>1 DEF ReqsOK
<1>12. AccountOK(b)'
  <2>1. account'[b] \in Seq(Own(b)) /\ Len(account'[b]) = Len(account[b]) + 1
    BY <1>4, <1>7, <1>8, AppendProperties
  <2>2. Making(b)' = Making(b) \ {w}
    BY <1>9, <1>10 DEF Making
  <2>3. Cardinality(Making(b) \ {w}) = Cardinality(Making(b)) - 1
    <3> DEFINE S == Making(b)
    <3>1. IsFiniteSet(S) /\ w \in S
      BY <1>6
    <3> HIDE DEF S
    <3>2. Cardinality(S \ {w}) = Cardinality(S) - 1
      BY <3>1, FS_RemoveElement
    <3> QED BY <3>2 DEF S
  <2>4. Len(account'[b]) + Cardinality(Making(b) \ {w}) <= Cardinality(Requests)
    BY <1>6, <1>7, <2>1, <2>3, Sizes
  <2> QED BY <2>1, <2>2, <2>4 DEF AccountOK, Own
<1>13. ASSUME NEW c \in Bills \ {b} PROVE AccountOK(c)'
  <2>1. AccountOK(c) /\ account'[c] = account[c]
    BY <1>4 DEF IInv, AccountsOK
  <2>2. Making(c)' \subseteq Making(c)
    BY <1>9, <1>10 DEF Making
  <2>3. Len(account[c]) \in Nat
    BY <2>1 DEF AccountOK
  <2> QED BY <2>1, <2>2, <2>3, MakingLess, Sizes DEF AccountOK, Own
<1>14. AccountsOK'
  <2>1. a \in Addr /\ account[b] \in Seq(Addr)
    BY <1>2, <1>8, OwnIs
  <2>2. Append(account[b], a) \in Seq(Addr)
    BY <2>1, AppendProperties
  <2>3. account' \in [Bills -> Seq(Addr)]
    BY <1>2, <1>3, <2>2
  <2> QED BY <1>12, <1>13, <2>3 DEF AccountsOK
<1>15. ShopsOK' /\ AddrsOK' /\ ChainOK' /\ RowsOK'
  BY <1>5 DEF IInv, tables, shopTables, chain, payTables, ShopsOK, AddrsOK, ShownOK, ChainOK,
              OutsOK, Payable, RowsOK
<1>16. ASSUME NEW t \in Txs PROVE WholeOK(t)'
  BY <1>5 DEF IInv, WholeOK, ToBills, tables, chain, payTables
<1> QED BY <1>11, <1>14, <1>15, <1>16 DEF IInv

-----------------------------------------------------------------------------
(* Transactions and their rows.                                             *)

LEMMA SendInv == ASSUME IInv, NEW t \in Txs, Send(t) PROVE IInv'
<1>0. PICK n \in Vouts : \E to \in [1 .. n -> Payable \cup {Stray, Foreign}] :
        outs' = [outs EXCEPT ![t] = to]
  BY DEF Send
<1>1. PICK to \in [1 .. n -> Payable \cup {Stray, Foreign}] :
        outs' = [outs EXCEPT ![t] = to]
  BY <1>0
<1>2. /\ UNCHANGED <<shopTables, shop_order_addrs, account, shown, mined, scanned, payTables, req>>
      /\ outs[t] = << >>
  BY DEF Send
<1>3. outs \in [Txs -> Seq(Addr)] /\ \A u \in Txs : OutsOK(u)
      /\ scanned \subseteq mined /\ mined \subseteq {x \in Txs : outs[x] # << >>}
  BY DEF IInv, ChainOK
<1>4. Payable \subseteq Addr
  BY DEF IInv, AddrsOK, Payable
<1>5. n \in Nat /\ n >= 1 /\ n <= MaxOuts
  BY Sizes
<1>6. to \in Seq(Addr) /\ Len(to) = n /\ DOMAIN to = 1 .. n /\ to # << >>
  <2>1. to \in [1 .. n -> Addr]
    BY <1>4, OwnIs
  <2>2. to \in Seq(Addr) /\ Len(to) = n
    BY <1>5, <2>1, IsASeq
  <2> QED BY <1>5, <2>1, <2>2
<1>7. /\ outs' \in [Txs -> Seq(Addr)] /\ outs'[t] = to
      /\ \A u \in Txs \ {t} : outs'[u] = outs[u]
  BY <1>1, <1>3, <1>6
<1>8. ASSUME NEW u \in Txs PROVE OutsOK(u)'
  <2>1. CASE u = t
    BY <1>2, <1>5, <1>6, <1>7, <2>1 DEF OutsOK, Payable
  <2>2. CASE u # t
    BY <1>2, <1>3, <1>7, <2>2 DEF OutsOK, Payable
  <2> QED BY <2>1, <2>2
<1>9. ChainOK'
  BY <1>2, <1>3, <1>6, <1>7, <1>8 DEF ChainOK
<1>10. ShopsOK' /\ AddrsOK' /\ RowsOK'
  BY <1>2 DEF IInv, shopTables, payTables, ShopsOK, AddrsOK, ShownOK, RowsOK
<1>11. ASSUME NEW u \in Txs PROVE WholeOK(u)'
  <2>1. WholeOK(u) /\ UNCHANGED <<pay_ins, pay_ins_return, scanned>>
    BY <1>2 DEF IInv, payTables
  <2>2. CASE u = t
    <3>1. u \notin scanned
      BY <1>2, <1>3, <2>2
    <3>2. ToBills(u)' \subseteq Vouts
      BY <1>5, <1>6, <1>7, <2>2, Sizes DEF ToBills
    <3>3. \A o \in Vouts : pay_ins[u][o] = 0 /\ pay_ins_return[u][o] = 0
      BY <1>2, <2>1, <2>2, Zenon DEF WholeOK
    <3>4. u \notin scanned'
      BY <2>1, <3>1
    <3> QED BY <2>1, <3>2, <3>3, <3>4 DEF WholeOK
  <2>3. CASE u # t
    BY <1>2, <1>7, <2>1, <2>3 DEF WholeOK, ToBills
  <2> QED BY <2>2, <2>3
<1>12. AccountsOK' /\ ReqsOK'
  <2>1. DOMAIN req' = Requests /\ \A v \in Requests : req'[v] \in {req[v], Idle}
    BY <1>2 DEF IInv, ReqsOK
  <2> QED BY <1>2, <1>11, <2>1, RestReqs DEF shopTables
<1> QED BY <1>9, <1>10, <1>11, <1>12 DEF IInv

LEMMA MineInv == ASSUME IInv, NEW t \in Txs, Mine(t) PROVE IInv'
<1>1. /\ UNCHANGED <<shopTables, shop_order_addrs, account, shown, outs, scanned, payTables, req>>
      /\ mined' = mined \cup {t} /\ outs[t] # << >>
  BY DEF Mine
<1>2. ShopsOK' /\ AddrsOK' /\ RowsOK' /\ ChainOK'
  BY <1>1 DEF IInv, shopTables, payTables, ShopsOK, AddrsOK, ShownOK, RowsOK, ChainOK, OutsOK,
              Payable
<1>3. ASSUME NEW u \in Txs PROVE WholeOK(u)'
  BY <1>1 DEF IInv, WholeOK, ToBills, payTables
<1>4. AccountsOK' /\ ReqsOK'
  <2>1. DOMAIN req' = Requests /\ \A v \in Requests : req'[v] \in {req[v], Idle}
    BY <1>1 DEF IInv, ReqsOK
  <2> QED BY <1>1, <1>3, <2>1, RestReqs DEF shopTables
<1> QED BY <1>2, <1>3, <1>4 DEF IInv

\* Each output in O gets a row more.
LEMMA BumpIs ==
    ASSUME NEW f \in [Txs -> [Vouts -> Nat]], NEW t \in Txs, NEW O
    PROVE  /\ Bump(f, t, O) \in [Txs -> [Vouts -> Nat]]
           /\ \A u \in Txs \ {t} : Bump(f, t, O)[u] = f[u]
           /\ \A o \in Vouts : /\ o \in O => Bump(f, t, O)[t][o] = f[t][o] + 1
                               /\ o \notin O => Bump(f, t, O)[t][o] = f[t][o]
<1> DEFINE g == [o \in Vouts |-> f[t][o] + IF o \in O THEN 1 ELSE 0]
<1>1. \A o \in Vouts : f[t][o] \in Nat
  OBVIOUS
<1>2. g \in [Vouts -> Nat]
  BY <1>1
<1>3. Bump(f, t, O) = [f EXCEPT ![t] = g]
  BY DEF Bump
<1>4. \A o \in Vouts : /\ o \in O => g[o] = f[t][o] + 1
                       /\ o \notin O => g[o] = f[t][o]
  BY <1>1
<1> HIDE DEF g
<1>5. /\ Bump(f, t, O)[t] = g /\ \A u \in Txs \ {t} : Bump(f, t, O)[u] = f[u]
      /\ Bump(f, t, O) \in [Txs -> [Vouts -> Nat]]
  BY <1>2, <1>3
<1>6. \A o \in Vouts : Bump(f, t, O)[t][o] = g[o]
  BY <1>5
<1> QED BY <1>4, <1>5, <1>6, Zenon

\* The outputs to bills without a row get one; those sent back are others.
LEMMA ScanInv == ASSUME IInv, NEW t \in Txs, Scan(t) PROVE IInv'
<1> DEFINE fresh == {o \in Ours(t) : pay_ins[t][o] = 0}
           R == IF t \in mined THEN Strays(t) ELSE {}
<1>1. Ours(t) = ToBills(t) /\ ToBills(t) \subseteq Vouts /\ R \cap ToBills(t) = {}
  BY OursIs DEF Strays
<1>2. /\ pay_ins' = Bump(pay_ins, t, fresh) /\ pay_ins_return' = Bump(pay_ins_return, t, R)
      /\ outs[t] # << >>
      /\ scanned' = IF t \in mined THEN scanned \cup {t} ELSE scanned
      /\ UNCHANGED <<shopTables, shop_order_addrs, account, shown, chain, req>>
  BY DEF Scan
<1>3. fresh = {o \in ToBills(t) : pay_ins[t][o] = 0}
  BY <1>1
<1> HIDE DEF fresh, R
<1>4. pay_ins \in [Txs -> [Vouts -> Nat]] /\ pay_ins_return \in [Txs -> [Vouts -> Nat]]
  BY DEF IInv, RowsOK
<1>5. /\ RowsOK'
      /\ \A u \in Txs \ {t} : pay_ins'[u] = pay_ins[u] /\ pay_ins_return'[u] = pay_ins_return[u]
      /\ \A o \in Vouts : /\ o \in fresh => pay_ins'[t][o] = pay_ins[t][o] + 1
                          /\ o \notin fresh => pay_ins'[t][o] = pay_ins[t][o]
                          /\ o \notin R => pay_ins_return'[t][o] = pay_ins_return[t][o]
  <2> DEFINE f == Bump(pay_ins, t, fresh)
             g == Bump(pay_ins_return, t, R)
  <2>1. /\ f \in [Txs -> [Vouts -> Nat]] /\ \A u \in Txs \ {t} : f[u] = pay_ins[u]
        /\ \A o \in Vouts : /\ o \in fresh => f[t][o] = pay_ins[t][o] + 1
                            /\ o \notin fresh => f[t][o] = pay_ins[t][o]
    BY <1>4, BumpIs
  <2>2. /\ g \in [Txs -> [Vouts -> Nat]] /\ \A u \in Txs \ {t} : g[u] = pay_ins_return[u]
        /\ \A o \in Vouts : o \notin R => g[t][o] = pay_ins_return[t][o]
    BY <1>4, BumpIs
  <2>3. pay_ins' = f /\ pay_ins_return' = g
    BY <1>2
  <2> HIDE DEF f, g
  <2> QED BY <2>1, <2>2, <2>3 DEF RowsOK
<1>6. ShopsOK' /\ AddrsOK' /\ ChainOK'
  BY <1>2 DEF IInv, shopTables, chain, ShopsOK, AddrsOK, ShownOK, ChainOK, OutsOK, Payable
<1>7. ASSUME NEW u \in Txs PROVE WholeOK(u)'
  <2>1. WholeOK(u) /\ ToBills(u)' = ToBills(u) /\ outs' = outs
    BY <1>2 DEF IInv, ToBills, chain
  <2>2. CASE u = t
    <3>1. \A o \in Vouts : pay_ins[t][o] \in Nat /\ pay_ins[t][o] <= 1
      <4>1. \A o \in Vouts : pay_ins[t][o] <= 1
        BY <2>1, <2>2, Zenon DEF WholeOK
      <4> QED BY <1>4, <4>1
    <3>2. \A o \in Vouts : pay_ins'[t][o] <= 1
      BY <1>3, <1>5, <3>1
    <3>3. \A o \in ToBills(t) : pay_ins'[t][o] = 1 /\ pay_ins_return'[t][o] = 0
      BY <1>1, <1>3, <1>5, <2>1, <2>2, <3>1 DEF WholeOK
    <3> QED BY <1>2, <2>1, <2>2, <3>2, <3>3 DEF WholeOK
  <2>3. CASE u # t
    BY <1>2, <1>5, <2>1, <2>3 DEF WholeOK
  <2> QED BY <2>2, <2>3
<1>8. AccountsOK' /\ ReqsOK'
  <2>1. DOMAIN req' = Requests /\ \A v \in Requests : req'[v] \in {req[v], Idle}
    BY <1>2 DEF IInv, ReqsOK
  <2> QED BY <1>2, <1>7, <2>1, RestReqs DEF shopTables
<1> QED BY <1>5, <1>6, <1>7, <1>8 DEF IInv

-----------------------------------------------------------------------------
(* The theorems.                                                            *)

LEMMA InitInv == Init => IInv
<1> SUFFICES ASSUME Init PROVE IInv
  OBVIOUS
<1>1. ShopsOK /\ AddrsOK
  BY Sizes DEF Init, ShopsOK, AddrsOK, ShownOK
<1>2. AccountsOK
  <2>1. ASSUME NEW b \in Bills PROVE AccountOK(b)
    <3>1. account[b] = << >> /\ Making(b) = {}
      BY IdleIs DEF Init, Making
    <3> QED BY <3>1, Sizes, FS_EmptySet DEF AccountOK
  <2> QED BY <2>1 DEF Init, AccountsOK
<1>3. ASSUME NEW t \in Txs PROVE OutsOK(t) /\ WholeOK(t)
  <2>1. /\ outs[t] = << >> /\ t \notin scanned
        /\ \A o \in Vouts : pay_ins[t][o] = 0 /\ pay_ins_return[t][o] = 0
    BY DEF Init
  <2> QED BY <2>1, Sizes DEF OutsOK, WholeOK, ToBills
<1>4. ChainOK /\ RowsOK
  BY <1>3, Sizes DEF Init, ChainOK, RowsOK
<1>5. ASSUME NEW w \in Requests PROVE ReqOK(req[w])
  BY IdleIs DEF Init, ReqOK
<1>6. ReqsOK
  BY <1>5 DEF Init, ReqsOK
<1> QED BY <1>1, <1>2, <1>3, <1>4, <1>5, <1>6 DEF IInv

LEMMA NextInv == IInv /\ [Next]_vars => IInv'
<1> SUFFICES ASSUME IInv, [Next]_vars PROVE IInv'
  OBVIOUS
<1>1. ASSUME NEW w \in Requests, RegisterLook(w) \/ MakeLook(w) \/ ToPayLook(w) PROVE IInv'
  BY <1>1, LookSteps
<1>2. ASSUME NEW w \in Requests, RegisterInsert(w) \/ MakeInsert(w) \/ MakeRefused(w) PROVE IInv'
  BY <1>2, ShopStep
<1>3. ASSUME NEW w \in Requests, ToPayFound(w) PROVE IInv'
  BY <1>3, FoundInv
<1>4. ASSUME NEW w \in Requests, ToPayAccount(w) \/ ToPayNewFails(w) PROVE IInv'
  BY <1>4, AccountSteps
<1>5. ASSUME NEW w \in Requests, ToPayNew(w) PROVE IInv'
  BY <1>5, NewInv
<1>6. ASSUME NEW w \in Requests, ToPayInsert(w) PROVE IInv'
  BY <1>6, InsertInv
<1>9. ASSUME NEW w \in Requests, Fail(w) PROVE IInv'
  BY <1>9, IdleStep DEF Fail, tables
<1>10. ASSUME NEW t \in Txs, Send(t) \/ Mine(t) \/ Scan(t) PROVE IInv'
  BY <1>10, SendInv, MineInv, ScanInv
<1>11. CASE UNCHANGED vars
  <2>1. DOMAIN req' = Requests /\ \A v \in Requests : req'[v] \in {req[v], Idle}
    BY <1>11 DEF vars, IInv, ReqsOK
  <2>2. AddrsOK'
    BY <1>11 DEF vars, shopTables, IInv, AddrsOK, ShownOK
  <2> QED BY <1>11, <2>1, <2>2, ShownStep DEF vars
<1> QED BY <1>1, <1>2, <1>3, <1>4, <1>5, <1>6, <1>9, <1>10, <1>11 DEF Next

LEMMA Inductive == Spec => []IInv
BY InitInv, NextInv, PTL DEF Spec

\* Every table, the wallet and the requests keep their types: no bill gets more
\* addresses from getnewaddress than there are requests.
THEOREM TypeCorrect == Spec => []TypeOK
<1>1. IInv => TypeOK
  <2> SUFFICES ASSUME IInv PROVE TypeOK
    OBVIOUS
  <2>1. account \in [Bills -> Seq(Addr)]
    BY DEF IInv, AccountsOK
  <2>2. ASSUME NEW w \in Requests
        PROVE  /\ req[w].pc \in Pcs /\ req[w].addr \in Addr
               /\ req[w].bill \in DOMAIN shop_orders \cup {0}
               /\ req[w].shop \in DOMAIN shops \cup {0}
    <3>1. ReqOK(req[w])
      BY DEF IInv, ReqsOK
    <3> QED BY <3>1 DEF ReqOK, Reqs
  <2> QED BY <2>1, <2>2 DEF IInv, ShopsOK, AddrsOK, ChainOK, RowsOK, TypeOK, Pcs
<1> QED BY <1>1, Inductive, PTL

\* Whatever requests ask for addresses of a bill at once, what the loop has
\* scanned has one row, is not sent back, and reached the bill whose customers
\* were shown the address.
THEOREM PaidReachesTheBill == Spec => []PaidReachesBill
<1>1. IInv => PaidReachesBill
  <2> SUFFICES ASSUME IInv, NEW t \in scanned, NEW o \in DOMAIN outs[t], NEW p \in shown,
                      p[2] = outs[t][o]
               PROVE  /\ pay_ins[t][o] = 1 /\ pay_ins_return[t][o] = 0
                      /\ LET found == {i \in DOMAIN shop_order_addrs :
                                           shop_order_addrs[i].addr = p[2]}
                         IN  found # {} /\ shop_order_addrs[First(found)].bill = p[1]
    BY DEF PaidReachesBill
  <2>1. t \in Txs /\ OutsOK(t) /\ WholeOK(t) /\ p[1] \in Bills
    BY BillsMade DEF IInv, ChainOK, AddrsOK
  <2>2. PICK i \in DOMAIN shop_order_addrs : shop_order_addrs[i] = [bill |-> p[1], addr |-> p[2]]
    BY DEF IInv, AddrsOK, ShownOK
  <2>3. p[2] \in Own(p[1]) \cup {Failure}
    BY <2>2 DEF IInv, AddrsOK, RowOK
  <2>4. p[2] \in Own(p[1])
    BY <2>1, <2>3, OwnIs DEF OutsOK, Payable
  <2>5. pay_ins[t][o] = 1 /\ pay_ins_return[t][o] = 0
    BY <2>1, <2>4, OwnIs DEF WholeOK, ToBills
  <2> DEFINE found == {j \in DOMAIN shop_order_addrs : shop_order_addrs[j].addr = p[2]}
             f == First(found)
  <2>6. found # {} /\ found \subseteq 1 .. Len(shop_order_addrs)
    BY <2>2, BillsMade
  <2>7. f \in found
    <3> HIDE DEF found
    <3> QED BY <2>6, BillsMade, FirstIs
  <2>8. RowOK(shop_order_addrs[f]) /\ shop_order_addrs[f].addr = p[2]
        /\ shop_order_addrs[f].bill \in Bills
    <3> HIDE DEF f
    <3> QED BY <2>7, BillsMade DEF IInv, AddrsOK
  <2>9. shop_order_addrs[f].bill = p[1]
    BY <2>1, <2>4, <2>8, OwnIs DEF RowOK
  <2> QED BY <2>5, <2>6, <2>9
<1> QED BY <1>1, Inductive, PTL

=============================================================================
