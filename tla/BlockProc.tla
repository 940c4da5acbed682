------------------------------ MODULE BlockProc ------------------------------
(***************************************************************************)
(* How payments enter the database: serv_block_proc.run_once, up to its     *)
(* first commit, for one cryptocurrency.                                    *)
(*                                                                         *)
(* run_once is called by two kinds of workers.  Pollers are the loop of     *)
(* serv_blocks.run_blocks; it keeps the row of xcurrs in memory and reads   *)
(* it again from time to time.  Callers are the requests to                 *)
(* tools/block_proc that a wallet makes when a block arrives; they read the *)
(* row from the database and return nothing to the senders (not_ret).       *)
(*                                                                         *)
(* The database is the SQLite file of private/appconfig.ini: the first      *)
(* write of a transaction takes the only write lock, a read takes none.     *)
(***************************************************************************)
EXTENDS Integers

CONSTANTS
    Ours,       \* outputs to addresses of bills (shop_order_addrs)
    Strays,     \* outputs to addresses of the wallet that no bill uses
    Pollers, Callers,
    NoWorker,
    MaxBlock,   \* bound: the height the chain may reach
    MaxCrash,   \* bound: how often a worker may die
    MaxReorg    \* bound: how often the last block may be disconnected

Outputs == Ours \cup Strays
Workers == Pollers \cup Callers

ASSUME WorkersAssumption ==
    /\ Pollers \cap Callers = {} /\ NoWorker \notin Workers
    /\ Ours \cap Strays = {}
    /\ MaxBlock \in Nat \ {0} /\ MaxCrash \in Nat /\ MaxReorg \in Nat

VARIABLES
    tip,         \* height of the chain
    sent,        \* outputs the wallet knows
    mined,       \* block of an output, 0 while it is in none
    reorgs,      \* blocks disconnected so far
    from_block,  \* xcurrs.from_block
    rows,        \* rows of pay_ins for an output of ours
    in_block,    \* pay_ins.in_block of the first of them, 0 if none
    returns,     \* rows of pay_ins_return for a stray output
    writer,      \* who holds the write lock
    proc,        \* the local variables of run_once
    cached,      \* from_block in the row of xcurrs that a poller keeps
    called,      \* callers the wallet has started
    crashes,     \* workers that died so far
    skipped      \* blocks whose scan was disturbed (kept for the properties)

chainVars == <<tip, sent, mined, reorgs>>
tables == <<from_block, rows, in_block, returns>>
vars == <<chainVars, tables, writer, proc, cached, called, crashes, skipped>>

Idle == [pc |-> "idle", old |-> 0, blk |-> 0, tab |-> [o \in {} |-> 0], seen |-> {}]

\* The chain starts at block 1, which has been scanned.
Init ==
    /\ tip = 1 /\ sent = {} /\ mined = [o \in Outputs |-> 0] /\ reorgs = 0
    /\ from_block = 1
    /\ rows = [o \in Ours |-> 0] /\ in_block = [o \in Ours |-> 0]
    /\ returns = [s \in Strays |-> 0]
    /\ writer = NoWorker
    /\ proc = [w \in Workers |-> Idle]
    /\ cached = [w \in Pollers |-> 1]
    /\ called = {} /\ crashes = 0 /\ skipped = {}

-----------------------------------------------------------------------------
(* run_once.                                                                *)

Conf(w) == proc[w].blk - proc[w].old

\* Variant: a chain that got shorter is processed too.
StartShorter(w) ==
    LET old == IF w \in Pollers THEN cached[w] ELSE from_block IN
    /\ proc[w].pc = "idle"
    /\ w \in Callers => w \in called
    /\ called' = called \ {w}
    /\ proc' = [proc EXCEPT ![w].pc = IF tip = old THEN "list" ELSE "begin",
                            ![w].old = old, ![w].blk = tip]
    /\ UNCHANGED <<chainVars, tables, writer, cached, crashes, skipped>>

\* Variant: a single new block is left for later.
StartLater(w) ==
    LET old == IF w \in Pollers THEN cached[w] ELSE from_block IN
    /\ proc[w].pc = "idle"
    /\ w \in Callers => w \in called
    /\ called' = called \ {w}
    /\ proc' = IF tip <= old + 1 THEN proc
               ELSE [proc EXCEPT ![w].pc = IF tip = old THEN "list" ELSE "begin",
                                 ![w].old = old, ![w].blk = tip]
    /\ UNCHANGED <<chainVars, tables, writer, cached, crashes, skipped>>

\* getblockcount, and the number of blocks since the last scan.  Nothing is
\* done while the chain is shorter than it was.
Start(w) ==
    LET old == IF w \in Pollers THEN cached[w] ELSE from_block IN
    /\ proc[w].pc = "idle"
    /\ w \in Callers => w \in called
    /\ called' = called \ {w}
    /\ proc' = IF tip < old THEN proc
               ELSE [proc EXCEPT ![w].pc = IF tip = old THEN "list" ELSE "begin",
                                 ![w].old = old, ![w].blk = tip]
    /\ UNCHANGED <<chainVars, tables, writer, cached, crashes, skipped>>

\* Variants: the new from_block is committed before the scan; the update does
\* not hold the write lock until the commit.
BeginCommitted(w) ==
    /\ proc[w].pc = "begin"
    /\ writer = NoWorker
    /\ writer' = w
    /\ proc' = [proc EXCEPT ![w].pc = "list"]
    /\ cached' = IF w \in Pollers THEN [cached EXCEPT ![w] = proc[w].blk] ELSE cached
    /\ from_block' = proc[w].blk
    /\ UNCHANGED <<chainVars, rows, in_block, returns, called, crashes, skipped>>

BeginUnlocked(w) ==
    /\ proc[w].pc = "begin"
    /\ proc' = [proc EXCEPT ![w].pc = "list"]
    /\ cached' = IF w \in Pollers THEN [cached EXCEPT ![w] = proc[w].blk] ELSE cached
    /\ UNCHANGED <<chainVars, tables, writer, called, crashes, skipped>>

\* New blocks: from_block is updated in the row and, not yet committed, in the
\* table, which takes the write lock until the commit.
Begin(w) ==
    /\ proc[w].pc = "begin"
    /\ writer = NoWorker
    /\ writer' = w
    /\ proc' = [proc EXCEPT ![w].pc = "list"]
    /\ cached' = IF w \in Pollers THEN [cached EXCEPT ![w] = proc[w].blk] ELSE cached
    /\ UNCHANGED <<chainVars, tables, called, crashes, skipped>>

\* b_p_proc_unspent: listunspent(0, conf) as the wallet sees the chain now.
Confs(o) == IF mined[o] = 0 THEN 0 ELSE tip - mined[o] + 1
Listed(w) == {o \in sent : Confs(o) <= Conf(w)}

\* Without outputs to record run_once goes on to its commit.
Lists(w, tab) ==
    /\ proc[w].pc = "list"
    /\ proc' = [proc EXCEPT ![w].pc = IF DOMAIN tab = {} THEN "record" ELSE "look",
                            ![w].tab = tab]
    /\ UNCHANGED <<chainVars, tables, writer, cached, called, crashes>>

\* When the chain has moved since getblockcount the list is of other blocks:
\* some of those between old and blk are not in it, and what is in it gets a
\* wrong block.
Disturbed(w, listed) ==
    IF tip = proc[w].blk \/ Conf(w) = 0 THEN {}
    ELSE (proc[w].old + 1 .. proc[w].blk) \cup ({mined[o] : o \in listed} \ {0})

\* Variant: the last block that was scanned is listed again.
ListAgain(w) ==
    LET listed == {o \in sent : Confs(o) <= Conf(w) + 1} IN
    /\ Lists(w, [o \in listed |-> proc[w].blk - Confs(o) + 1])
    /\ skipped' = skipped \cup Disturbed(w, listed)

List(w) ==
    /\ Lists(w, [o \in Listed(w) |-> proc[w].blk - Confs(o) + 1])
    /\ skipped' = skipped \cup Disturbed(w, Listed(w))

\* The wallet answers with an error: the list is taken for an empty one.
ListFails(w) ==
    /\ Lists(w, Idle.tab)
    /\ skipped' = skipped \cup (proc[w].old + 1 .. proc[w].blk)

\* b_p_db_update looks for the rows of the listed outputs.
Look(w) ==
    /\ proc[w].pc = "look"
    /\ proc' = [proc EXCEPT ![w].pc = "record",
                            ![w].seen = {o \in DOMAIN proc[w].tab \cap Ours : rows[o] > 0}]
    /\ UNCHANGED <<chainVars, tables, writer, cached, called, crashes, skipped>>

\* b_p_db_update inserts and updates, and the transaction is committed.  From
\* its first insert on a worker holds the lock, and sees the rows as they are.
Record(w) ==
    LET tab == proc[w].tab
        listed == DOMAIN tab
        confirmed == {o \in listed : tab[o] <= proc[w].blk}
        fresh == {o \in listed \cap Ours : rows[o] = 0}
        missed == (listed \cap Ours) \ proc[w].seen
    IN
    /\ proc[w].pc = "record"
    /\ missed # {} => writer \in {w, NoWorker}
    /\ \E first \in SUBSET missed :
        /\ first = {} <=> missed = {}
        /\ \A a, b \in first : a = b
        /\ rows' = [o \in Ours |-> rows[o] + IF o \in fresh \cup first THEN 1 ELSE 0]
    /\ in_block' = [o \in Ours |->
           IF o \in fresh \cup (confirmed \cap proc[w].seen) THEN tab[o] ELSE in_block[o]]
    /\ returns' = [s \in Strays |->
           returns[s] + IF s \in confirmed /\ w \in Pollers THEN 1 ELSE 0]
    /\ from_block' = IF Conf(w) > 0 THEN proc[w].blk ELSE from_block
    /\ writer' = IF writer = w THEN NoWorker ELSE writer
    /\ proc' = [proc EXCEPT ![w] = Idle]
    /\ UNCHANGED <<chainVars, cached, called, crashes, skipped>>

\* run_blocks reads the rows of xcurrs again.
Refresh(w) ==
    /\ proc[w].pc = "idle"
    /\ cached' = [cached EXCEPT ![w] = from_block]
    /\ UNCHANGED <<chainVars, tables, writer, proc, called, crashes, skipped>>

\* An exception ends the worker, its transaction is rolled back, and
\* serv_blocks.cmd starts the loop again.  Waiting too long for the lock is
\* one of the exceptions.
Crash(w) ==
    /\ crashes < MaxCrash
    /\ proc[w].pc # "idle"
    /\ proc' = [proc EXCEPT ![w] = Idle]
    /\ writer' = IF writer = w THEN NoWorker ELSE writer
    /\ cached' = IF w \in Pollers THEN [cached EXCEPT ![w] = from_block] ELSE cached
    /\ crashes' = crashes + 1
    /\ UNCHANGED <<chainVars, tables, called, skipped>>

-----------------------------------------------------------------------------
(* The chain.                                                               *)

\* The wallet hears of an output before it is in a block.  (A stray output is
\* of no interest until then, serv_block_proc.py:75.)
Send(o) ==
    /\ o \notin sent
    /\ sent' = sent \cup {o}
    /\ UNCHANGED <<tip, mined, reorgs, tables, writer, proc, cached, called, crashes, skipped>>

\* A block with outputs the wallet knows and outputs it did not hear of, and
\* the call of the wallet's blocknotify.
NewBlock ==
    /\ tip < MaxBlock
    /\ tip' = tip + 1
    /\ \E M \in SUBSET {o \in Outputs : mined[o] = 0} :
        /\ mined' = [o \in Outputs |-> IF o \in M THEN tip + 1 ELSE mined[o]]
        /\ sent' = sent \cup M
    /\ called' = Callers
    /\ UNCHANGED <<reorgs, tables, writer, proc, cached, crashes, skipped>>

\* The last block is disconnected.
Disconnect ==
    /\ reorgs < MaxReorg
    /\ tip > 1
    /\ tip' = tip - 1
    /\ reorgs' = reorgs + 1
    /\ mined' = [o \in Outputs |-> IF mined[o] = tip THEN 0 ELSE mined[o]]
    /\ skipped' =
           IF \/ from_block >= tip
              \/ \E w \in Pollers : cached[w] >= tip
              \/ \E w \in Workers : proc[w].blk >= tip
           THEN skipped \cup {tip} ELSE skipped
    /\ UNCHANGED <<sent, tables, writer, proc, cached, called, crashes>>

Step(w) == Start(w) \/ Begin(w) \/ List(w) \/ Look(w) \/ Record(w)

Next ==
    \/ \E w \in Workers : Step(w) \/ ListFails(w) \/ Crash(w)
    \/ \E w \in Pollers : Refresh(w)
    \/ \E o \in Ours : Send(o)
    \/ NewBlock
    \/ Disconnect

Spec == Init /\ [][Next]_vars

\* The loop of run_blocks and the requests of the wallets go on until they
\* are through: each step of a worker is taken unless it waits for the lock.
FairSpec == Spec /\ \A w \in Workers : WF_vars(Step(w) \/ ListFails(w))

-----------------------------------------------------------------------------
(* Properties.                                                              *)

TypeOK ==
    /\ tip \in 1 .. MaxBlock /\ from_block \in 1 .. MaxBlock
    /\ sent \subseteq Outputs /\ mined \in [Outputs -> 0 .. MaxBlock]
    /\ rows \in [Ours -> Nat] /\ in_block \in [Ours -> 0 .. MaxBlock + 1]
    /\ returns \in [Strays -> Nat]
    /\ writer \in Workers \cup {NoWorker}
    /\ cached \in [Pollers -> 1 .. MaxBlock]
    /\ called \subseteq Callers /\ skipped \subseteq 1 .. MaxBlock
    /\ \A w \in Workers :
        /\ proc[w].pc \in {"idle", "begin", "list", "look", "record"}
        /\ proc[w].old \in 0 .. proc[w].blk
        /\ DOMAIN proc[w].tab \subseteq sent

\* Blocks up to from_block are not looked at again, so what they pay to a bill
\* has a row, with the right block, unless the wallet failed or the chain
\* moved during the scan of the block: no order of the workers, and no crash
\* between two steps, loses a payment or leaves it with a wrong in_block.
ScannedUnlessSkipped ==
    \A o \in Ours : 0 < mined[o] /\ mined[o] <= from_block /\ mined[o] \notin skipped =>
        rows[o] > 0 /\ in_block[o] = mined[o]

\* The write lock that comes with a new from_block keeps two workers that
\* process the same block from both recording an output: a second row can
\* only come from a poll without a new block.
NoSecondRowInNewBlock ==
    [][\A o \in Ours : 0 < rows[o] /\ rows[o] < rows'[o] =>
          \E w \in Workers : proc[w].pc = "record" /\ Conf(w) = 0
                             /\ proc'[w].pc = "idle"]_vars

\* What nobody expects is returned to its sender once ("only for the confirmed
\* ones, so that the entries are not written twice", serv_block_proc.py:77), as
\* long as no scan was disturbed: two workers, a stale row of xcurrs and a
\* rolled back scan do not return a payment twice.
ReturnedOnceUnlessSkipped == skipped = {} => \A s \in Strays : returns[s] <= 1

\* A payment in a block is recorded in the end, whoever dies on the way,
\* unless the scan of its block was disturbed.
EventuallyRecorded ==
    \A o \in Ours : mined[o] > 0 ~> rows[o] > 0 \/ mined[o] \in skipped \cup {0}
=============================================================================
