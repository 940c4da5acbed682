------------------------------ MODULE Payouts ------------------------------
(***************************************************************************)
(* How money leaves a wallet: what run_once does after a new block, for one *)
(* cryptocurrency.  serv_block_proc.return_refused sends back the rows of   *)
(* pay_ins_return, shops_lib.bills_withdraw pays the rows of bills_draws,   *)
(* shops_lib.withdraw the balances of the shops.  Each of the three jobs    *)
(* reads what is owed, sends one transaction with crypto_client's           *)
(* send_to_many, and writes after that what was sent.                       *)
(*                                                                         *)
(* Pollers are the loop of serv_blocks, which keeps the row of currs in     *)
(* memory; Callers are the requests to tools/block_proc and tools/withdraw, *)
(* which read it when they start.  Each transaction of the database that    *)
(* writes is one step: the write lock of SQLite keeps the others out.       *)
(***************************************************************************)
EXTENDS Integers, FiniteSets

CONSTANTS
    Refunds,        \* rows that return_trans and return_pay_ins_one may add
    Draws,          \* rows that bills_draw_insert and solve_one may add
    Shops,
    Pollers, Callers,
    WithdrawOver,   \* currs.withdraw_over is set
    MinPay,         \* the least balance withdraw pays: 5 fees
    Credits,        \* the amounts that bills bring to a shop
    MaxCredit,      \* bound: all that bills bring to a shop
    MaxFault        \* bound: errors of wallets and exceptions

Workers == Pollers \cup Callers
Rows == Refunds \cup Draws
Items == Rows \cup Shops
Jobs == {"returns", "draws", "shops"}
Steps == {"idle", "orders", "draws", "shops", "fund", "send", "write"}

ASSUME PayoutAssumption ==
    /\ IsFiniteSet(Workers) /\ Pollers \cap Callers = {}
    /\ Refunds \cap Draws = {} /\ Rows \cap Shops = {}
    /\ WithdrawOver \in BOOLEAN
    /\ MinPay \in Nat \ {0} /\ Credits \subseteq Nat \ {0}
    /\ MaxCredit \in Nat /\ MaxFault \in Nat

VARIABLES
    rows,       \* rows of pay_ins_return (mature ones) and of bills_draws
    addr,       \* pay_ins_return.addr: not known yet, an address, or no address
    bal,        \* shops_balances.bal
    deposit,    \* currs.shops_deposit
    mem,        \* shops_deposit in the row of currs that a worker has in memory
    proc,       \* the local variables of run_once
    spent,      \* workers whose inputs another transaction has spent since
    \* kept for the properties:
    entered,    \* rows that were ever there
    credited,   \* what bills brought to a shop
    sent,       \* what was sent for a row or a shop
    dropped,    \* refunds given up: their payment was not found
    late,       \* draws that came in while draws were being paid
    troubled,   \* jobs that two workers did at once, or that died after sending
    faults

ghosts == <<entered, credited, sent, dropped, late, troubled, faults>>
vars == <<rows, addr, bal, deposit, mem, proc, spent, ghosts>>

Empty == [i \in {} |-> 0]

Idle == [pc |-> "idle", job |-> "returns", list |-> Empty, answer |-> Empty]

Init ==
    /\ rows = {} /\ addr = [r \in Refunds |-> "none"]
    /\ bal = [s \in Shops |-> 0] /\ deposit = 0 /\ mem = [w \in Workers |-> 0]
    /\ proc = [w \in Workers |-> Idle] /\ spent = {}
    /\ entered = {} /\ credited = [s \in Shops |-> 0]
    /\ sent = [i \in Items |-> 0]
    /\ dropped = {} /\ late = {} /\ troubled = {} /\ faults = 0

-----------------------------------------------------------------------------
(* What is owed comes in, from orders_update of any worker.                 *)

Paying(w, job) == proc[w].job = job /\ proc[w].pc \in {"fund", "send", "write"}

Enter(i) ==
    /\ i \in Rows \ entered
    /\ rows' = rows \cup {i}
    /\ entered' = entered \cup {i}
    /\ late' = IF i \in Draws /\ \E w \in Workers : Paying(w, "draws")
               THEN late \cup {i} ELSE late
    /\ UNCHANGED <<addr, bal, deposit, mem, proc, spent, credited, sent,
                   dropped, troubled, faults>>

\* update_bal: the balance of a shop as it is in its row, and shops_deposit of a
\* row of currs as it was read.
UpdateBal(s, amo, shops_deposit) ==
    /\ bal' = [bal EXCEPT ![s] = @ + amo]
    /\ deposit' = shops_deposit + amo

\* A bill is credited, with the row of currs as it is in the table.
Credit(s, amo) ==
    /\ credited[s] + amo <= MaxCredit
    /\ credited' = [credited EXCEPT ![s] = @ + amo]
    /\ UpdateBal(s, amo, deposit)
    /\ UNCHANGED <<rows, addr, mem, proc, spent, entered, sent,
                   dropped, late, troubled, faults>>

\* A payment passed on without conversion, with the row in memory.
Fill(w, s, amo) ==
    /\ proc[w].pc = "orders" \/ (w \in Pollers /\ proc[w].pc = "idle")
    /\ credited[s] + amo <= MaxCredit
    /\ credited' = [credited EXCEPT ![s] = @ + amo]
    /\ UpdateBal(s, amo, mem[w])
    /\ mem' = [mem EXCEPT ![w] = @ + amo]
    /\ UNCHANGED <<rows, addr, proc, spent, entered, sent,
                   dropped, late, troubled, faults>>

-----------------------------------------------------------------------------
(* A worker.                                                                *)

\* A new block, or a request to tools/withdraw.
Start(w) ==
    /\ proc[w].pc = "idle"
    /\ \/ proc' = [proc EXCEPT ![w] = [Idle EXCEPT !.pc = "orders"]]
       \/ w \in Callers /\ proc' = [proc EXCEPT ![w] = [Idle EXCEPT !.pc = "draws"]]
    /\ mem' = IF w \in Callers THEN [mem EXCEPT ![w] = deposit] ELSE mem
    /\ UNCHANGED <<rows, addr, bal, deposit, spent, ghosts>>

\* run_blocks reads the rows of currs again.
Refresh(w) ==
    /\ proc[w].pc = "idle"
    /\ mem' = [mem EXCEPT ![w] = deposit]
    /\ UNCHANGED <<rows, addr, bal, deposit, proc, spent, ghosts>>

After(job) == CASE job = "returns" -> "draws" [] job = "draws" -> "shops" [] OTHER -> "idle"

\* Variant: the local variables of the job are kept.
GoOnKept(w, job) == [proc EXCEPT ![w].pc = After(job)]

GoOn(w, job) == [proc EXCEPT ![w] = [Idle EXCEPT !.pc = After(job)]]

\* A job with nothing to pay is over.
Gathered(w, job, list, answer) ==
    /\ proc' = IF DOMAIN list = {} THEN GoOn(w, job)
               ELSE [proc EXCEPT ![w] =
                        [pc |-> "fund", job |-> job, list |-> list, answer |-> answer]]
    /\ troubled' =
           IF DOMAIN list # {} /\ \E v \in Workers \ {w} : Paying(v, job)
           THEN troubled \cup {job} ELSE troubled

\* What return_refused found out of its rows: the lost ones are deleted, the
\* addresses stored.
Note(answer) ==
    /\ rows' = {i \in rows : i \in DOMAIN answer => answer[i] # "lost"}
    /\ dropped' = dropped \cup {r \in DOMAIN answer : answer[r] = "lost"}
    /\ addr' = [r \in Refunds |->
           IF r \in DOMAIN answer /\ answer[r] \in {"found", "wrong"} THEN answer[r] ELSE addr[r]]

\* An error that the environment may make happen.
Fault == faults < MaxFault /\ faults' = faults + 1

\* trans_exist finds the payment or, spent twice or by an error, does not;
\* sender_addr answers with the address unless there is an error.
RightAnswer(r, a) == a = "lost" \/ a = IF addr[r] = "wrong" THEN "wrong" ELSE "found"

\* return_refused looks at every row.  An error of the wallet may look like a
\* payment that does not exist, like a sender whose address is a letter of the
\* message, or like no sender.  What it finds out is written later.
GatherReturns(w) ==
    LET table == rows \cap Refunds IN
    /\ proc[w].pc = "orders"
    /\ \E answer \in [table -> {"found", "lost", "wrong", "none"}] :
        LET list == [r \in {q \in table : answer[q] \in {"found", "wrong"}} |-> 1] IN
        /\ \A r \in table : addr[r] # "none" /\ answer[r] # "lost" => answer[r] = addr[r]
        /\ \/ (\A r \in table : RightAnswer(r, answer[r])) /\ UNCHANGED faults
           \/ (\E r \in table : ~ RightAnswer(r, answer[r])) /\ Fault
        /\ Gathered(w, "returns", list, answer)
        /\ IF DOMAIN list = {} THEN Note(answer) ELSE UNCHANGED <<rows, addr, dropped>>
    /\ UNCHANGED <<bal, deposit, mem, spent, entered, credited, sent, late>>

\* bills_withdraw takes every row.
GatherDraws(w) ==
    /\ proc[w].pc = "draws"
    /\ Gathered(w, "draws", [d \in rows \cap Draws |-> 1], Empty)
    /\ UNCHANGED <<rows, addr, bal, deposit, mem, spent, entered, credited, sent,
                   dropped, late, faults>>

\* Variant: a balance that is just enough is left for later.
GatherShopsAbove(w) ==
    LET due == {s \in Shops : bal[s] > MinPay} IN
    /\ proc[w].pc = "shops"
    /\ Gathered(w, "shops", [s \in due |-> bal[s]], Empty)
    /\ UNCHANGED <<rows, addr, bal, deposit, mem, spent, entered, credited, sent,
                   dropped, late, faults>>

\* withdraw takes the balances that are worth it, as far as the coins go.
GatherShops(w) ==
    LET due == IF WithdrawOver /\ mem[w] <= 0 THEN {}
               ELSE {s \in Shops : bal[s] >= MinPay} IN
    /\ proc[w].pc = "shops"
    /\ \E S \in SUBSET due :
        /\ \/ S = due /\ UNCHANGED faults
           \/ S # due /\ Fault
        /\ Gathered(w, "shops", [s \in S |-> bal[s]], Empty)
    /\ UNCHANGED <<rows, addr, bal, deposit, mem, spent, entered, credited, sent,
                   dropped, late>>

\* send_to_many chooses its inputs, the oldest coins, and builds the
\* transaction; with a wrong address the wallet refuses that.  Then it commits
\* what was written so far (log_commit; run_once does when it was refused).
Fund(w) ==
    /\ proc[w].pc = "fund"
    /\ Note(proc[w].answer)
    /\ proc' = IF \E r \in DOMAIN proc[w].answer : proc[w].answer[r] = "wrong"
               THEN GoOn(w, proc[w].job)
               ELSE [proc EXCEPT ![w].pc = "send", ![w].answer = Empty]
    /\ UNCHANGED <<bal, deposit, mem, spent, entered, credited, sent, late,
                   troubled, faults>>

\* sendrawtransaction.  Whoever has chosen inputs since comes too late: they
\* are the same coins.
Send(w) ==
    /\ proc[w].pc = "send" /\ w \notin spent
    /\ sent' = [i \in Items |-> sent[i] + IF i \in DOMAIN proc[w].list THEN proc[w].list[i] ELSE 0]
    /\ spent' = spent \cup {v \in Workers \ {w} : proc[v].pc = "send"}
    /\ proc' = [proc EXCEPT ![w].pc = "write"]
    /\ UNCHANGED <<rows, addr, bal, deposit, mem, entered, credited,
                   dropped, late, troubled, faults>>

SendSpent(w) ==
    /\ proc[w].pc = "send" /\ w \in spent
    /\ spent' = spent \ {w}
    /\ proc' = GoOn(w, proc[w].job)
    /\ UNCHANGED <<rows, addr, bal, deposit, mem, ghosts>>

\* send_to_many gives up: too small, not enough coins, or an error.
SendFails(w) ==
    /\ proc[w].pc \in {"fund", "send"}
    /\ Fault
    /\ Note(proc[w].answer)
    /\ spent' = spent \ {w}
    /\ proc' = GoOn(w, proc[w].job)
    /\ UNCHANGED <<bal, deposit, mem, entered, credited, sent, late, troubled>>

\* Variant: the rows are deleted by table, as bills_withdraw does.
WriteReturnsAll(w) ==
    /\ proc[w].pc = "write" /\ proc[w].job = "returns"
    /\ rows' = rows \ Refunds
    /\ proc' = GoOn(w, "returns")
    /\ UNCHANGED <<addr, bal, deposit, mem, spent, ghosts>>

\* Variant: the deletion is out of the loop.
WriteReturnsLast(w) ==
    /\ proc[w].pc = "write" /\ proc[w].job = "returns"
    /\ \E r \in DOMAIN proc[w].list : rows' = rows \ {r}
    /\ proc' = GoOn(w, "returns")
    /\ UNCHANGED <<addr, bal, deposit, mem, spent, ghosts>>

\* return_refused deletes what it has sent.
WriteReturns(w) ==
    /\ proc[w].pc = "write" /\ proc[w].job = "returns"
    /\ rows' = rows \ DOMAIN proc[w].list
    /\ proc' = GoOn(w, "returns")
    /\ UNCHANGED <<addr, bal, deposit, mem, spent, ghosts>>

\* bills_withdraw deletes every row.
WriteDraws(w) ==
    /\ proc[w].pc = "write" /\ proc[w].job = "draws"
    /\ rows' = rows \ Draws
    /\ proc' = GoOn(w, "draws")
    /\ UNCHANGED <<addr, bal, deposit, mem, spent, ghosts>>

\* Variant: the balance is cleared, as if nothing had come in meanwhile.
WriteShopCleared(w, s) ==
    LET list == proc[w].list IN
    /\ proc[w].pc = "write" /\ proc[w].job = "shops" /\ s \in DOMAIN list
    /\ bal' = [bal EXCEPT ![s] = 0]
    /\ deposit' = mem[w] - list[s]
    /\ mem' = [mem EXCEPT ![w] = @ - list[s]]
    /\ proc' = IF DOMAIN list = {s} THEN GoOn(w, "shops")
               ELSE [proc EXCEPT ![w].list = [t \in DOMAIN list \ {s} |-> list[t]]]
    /\ UNCHANGED <<rows, addr, spent, entered, credited, sent, dropped, late,
                   troubled, faults>>

\* withdraw debits one shop after the other: insert_shop_trans_withdraw, with
\* the balance as it is now and the row of currs in memory.
WriteShop(w, s) ==
    LET list == proc[w].list IN
    /\ proc[w].pc = "write" /\ proc[w].job = "shops" /\ s \in DOMAIN list
    /\ UpdateBal(s, -list[s], mem[w])
    /\ mem' = [mem EXCEPT ![w] = @ - list[s]]
    /\ proc' = IF DOMAIN list = {s} THEN GoOn(w, "shops")
               ELSE [proc EXCEPT ![w].list = [t \in DOMAIN list \ {s} |-> list[t]]]
    /\ UNCHANGED <<rows, addr, spent, entered, credited, sent, dropped, late,
                   troubled, faults>>

\* An exception, a locked database or a kill.  run_once catches exceptions of
\* return_refused and goes on; all others end the worker, and the loop starts
\* again with the rows of currs as they are.
Die(w) ==
    /\ proc[w].pc # "idle"
    /\ Fault
    /\ \/ /\ proc' = [proc EXCEPT ![w] = Idle]
          /\ mem' = IF w \in Pollers THEN [mem EXCEPT ![w] = deposit] ELSE mem
       \/ /\ proc[w].job = "returns" /\ proc[w].pc \in {"orders", "fund", "send", "write"}
          /\ proc' = GoOn(w, "returns")
          /\ UNCHANGED mem
    /\ troubled' = IF proc[w].pc = "write" THEN troubled \cup {proc[w].job} ELSE troubled
    /\ spent' = spent \ {w}
    /\ UNCHANGED <<rows, addr, bal, deposit, entered, credited, sent,
                   dropped, late>>

Step(w) ==
    \/ GatherReturns(w) \/ GatherDraws(w) \/ GatherShops(w)
    \/ Fund(w) \/ Send(w) \/ SendSpent(w)
    \/ WriteReturns(w) \/ WriteDraws(w)
    \/ \E s \in Shops : WriteShop(w, s)

Next ==
    \/ \E w \in Workers : Start(w) \/ Step(w) \/ SendFails(w) \/ Die(w)
    \/ \E w \in Pollers : Refresh(w)
    \/ \E w \in Workers, s \in Shops, amo \in Credits : Fill(w, s, amo)
    \/ \E s \in Shops, amo \in Credits : Credit(s, amo)
    \/ \E i \in Rows : Enter(i)

Spec == Init /\ [][Next]_vars

\* Blocks keep coming, the loop is started again when it has died and reads the
\* rows of currs from time to time, and what has started goes on.
FairSpec ==
    /\ Spec
    /\ \A w \in Workers : WF_vars(Step(w))
    /\ \A w \in Pollers : WF_vars(Start(w)) /\ SF_vars(Refresh(w))

-----------------------------------------------------------------------------
(* Properties.                                                              *)

\* The rows and shops that a job pays.
ItemsOf(job) == CASE job = "returns" -> Refunds [] job = "draws" -> Draws [] OTHER -> Shops

TypeOK ==
    /\ rows \subseteq entered /\ entered \subseteq Rows
    /\ addr \in [Refunds -> {"none", "found", "wrong"}]
    /\ bal \in [Shops -> Int] /\ deposit \in Int /\ mem \in [Workers -> Int]
    /\ credited \in [Shops -> Nat] /\ sent \in [Items -> Nat]
    /\ \A w \in Workers :
        /\ proc[w].pc \in Steps /\ proc[w].job \in Jobs
        /\ DOMAIN proc[w].list \subseteq ItemsOf(proc[w].job)
        /\ \A i \in DOMAIN proc[w].list : proc[w].list[i] \in Nat \ {0}
        /\ proc[w].pc \in {"fund", "send", "write"} <=> DOMAIN proc[w].list # {}
        /\ DOMAIN proc[w].answer # {} => proc[w].pc = "fund" /\ proc[w].job = "returns"
    /\ spent \subseteq {w \in Workers : proc[w].pc = "send"}

\* A shop never loses: whatever two workers and crashes do, what bills brought
\* is still on its balance or was sent ("the money has gone, it must be
\* accounted to each", shops_lib.py:563), and what comes in between the
\* reading of a balance and its debit is kept.
ShopsNeverLose == \A s \in Shops : credited[s] <= bal[s] + sent[s]

\* A row of pay_ins_return or bills_draws that is gone was sent, unless its
\* payment was not found, or it came in while draws were being paid.
RowsKept ==
    \A i \in entered \ rows : i \in dropped \cup late \/ sent[i] > 0

\* Nothing is sent twice by a job that no two workers did at once and no
\* worker died in between sending and writing.
SentOnceUntroubled ==
    \A job \in Jobs \ troubled : \A i \in ItemsOf(job) :
        sent[i] <= IF i \in Shops THEN credited[i] ELSE 1

\* A balance is paid in the end ("and pay the shops their income",
\* serv_block_proc.py:408), or shops_deposit has come down to nothing while it is
\* due: with withdraw_over set, which is the default of the table, withdraw pays
\* nobody then (shops_lib.py:500-501).
EventuallyPaid ==
    \A s \in Shops :
        bal[s] >= MinPay ~> bal[s] < MinPay \/ (WithdrawOver /\ deposit <= 0)
=============================================================================
