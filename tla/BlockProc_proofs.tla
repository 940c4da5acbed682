-------------------------- MODULE BlockProc_proofs --------------------------
(***************************************************************************)
(* Theorems about BlockProc, for any number of outputs, pollers and callers *)
(* and any height of the chain.                                             *)
(***************************************************************************)
EXTENDS BlockProc, TLAPS

Heights == 1 .. MaxBlock

\* What a worker may list: outputs with the block they are given.
Tabs == UNION {[S -> 1 .. MaxBlock + 1] : S \in SUBSET Outputs}

Procs == [pc : {"idle", "begin", "list", "look", "record"},
          old : 0 .. MaxBlock, blk : 0 .. MaxBlock, tab : Tabs, seen : SUBSET Ours]

Types ==
    /\ tip \in Heights /\ from_block \in Heights
    /\ sent \subseteq Outputs
    /\ mined \in [Outputs -> 0 .. MaxBlock]
    /\ \A o \in Outputs : mined[o] <= tip
    /\ rows \in [Ours -> Nat]
    /\ in_block \in [Ours -> 0 .. MaxBlock + 1]
    /\ returns \in [Strays -> Nat]
    /\ writer \in Workers \cup {NoWorker}
    /\ proc \in [Workers -> Procs]
    /\ cached \in [Pollers -> Heights]
    /\ called \subseteq Callers
    /\ skipped \subseteq Heights

\* What a worker knows: the block it works for is not below the one it has
\* done, it lists only what the wallet knows, and while it processes new
\* blocks it holds the lock, so that what it has seen of the rows is still so.
Scanning(w) == proc[w].pc \in {"list", "look", "record"}

WorkerInv(w) ==
    /\ proc[w].old <= proc[w].blk
    /\ proc[w].pc # "idle" => proc[w].old > 0
    /\ DOMAIN proc[w].tab \subseteq sent
    /\ \A o \in proc[w].seen : rows[o] > 0
    /\ Scanning(w) /\ Conf(w) > 0 => writer = w
    /\ proc[w].pc = "record" /\ Conf(w) > 0 =>
          \A o \in DOMAIN proc[w].tab \cap Ours : rows[o] > 0 => o \in proc[w].seen

\* The inductive invariant of run_once.
IInv == Types /\ \A w \in Workers : WorkerInv(w)

-----------------------------------------------------------------------------
(* What the operators return.                                               *)

\* A worker that does nothing is well typed.
LEMMA IdleType == Idle \in Procs /\ Idle.pc = "idle" /\ Idle.tab \in Tabs
                  /\ DOMAIN Idle.tab = {} /\ Idle.old = 0 /\ Idle.blk = 0 /\ Idle.seen = {}
<1> DEFINE none == [o \in {} |-> 0]
<1>1. none \in [{} -> 1 .. MaxBlock + 1] /\ DOMAIN none = {}
  OBVIOUS
<1>2. none \in Tabs
  BY <1>1 DEF Tabs
<1> HIDE DEF none
<1>3. MaxBlock \in Nat
  BY WorkersAssumption DEF WorkersAssumption
<1>4. Idle = [pc |-> "idle", old |-> 0, blk |-> 0, tab |-> none, seen |-> {}]
  BY DEF Idle, none
<1> QED BY <1>1, <1>2, <1>3, <1>4 DEF Procs

\* The block of an output is where the chain has it; one that is in no block
\* is given the next.
LEMMA ListedBlock ==
    ASSUME Types, NEW w \in Workers, WorkerInv(w), proc[w].pc = "list",
           NEW o \in Listed(w)
    PROVE  proc[w].blk - Confs(o) + 1 \in 1 .. MaxBlock + 1
<1>1. /\ proc[w].old \in 0 .. MaxBlock /\ proc[w].blk \in 0 .. MaxBlock
      /\ proc[w].old > 0 /\ proc[w].old <= proc[w].blk
  BY DEF Types, Procs, WorkerInv
<1>2. MaxBlock \in Nat /\ tip \in 1 .. MaxBlock
  BY WorkersAssumption DEF WorkersAssumption, Types, Heights
<1>3. mined[o] \in 0 .. MaxBlock /\ mined[o] <= tip
  BY DEF Types, Listed
<1>4. Confs(o) <= proc[w].blk - proc[w].old
  BY DEF Listed, Conf
<1> QED BY <1>1, <1>2, <1>3, <1>4 DEF Confs

-----------------------------------------------------------------------------
(* The invariant holds.                                                     *)

\* The invariant holds before the first poll.
LEMMA InitIInv == Init => IInv
<1> SUFFICES ASSUME Init PROVE IInv
  OBVIOUS
<1>1. MaxBlock \in Nat \ {0}
  BY WorkersAssumption DEF WorkersAssumption
<1>2. Types
  BY <1>1, IdleType DEF Init, Types, Heights
<1>3. \A w \in Workers : WorkerInv(w)
  BY IdleType DEF Init, WorkerInv, Scanning
<1> QED BY <1>2, <1>3 DEF IInv

\* A worker that takes no part in a step keeps what it knows, as long as the
\* lock stays with it and no row is inserted behind its back.
LEMMA OthersKeep ==
    ASSUME IInv, NEW w \in Workers, NEW v \in Workers, v # w,
           proc'[v] = proc[v], sent \subseteq sent', rows = rows',
           writer # v \/ writer' = v
    PROVE  WorkerInv(v)'
BY DEF IInv, WorkerInv, Scanning, Conf

\* A poll begins with the blocks above the one it has done.
LEMMA StartKeeps ==
    ASSUME IInv, NEW w \in Workers, Start(w)
    PROVE  IInv'
<1> DEFINE old == IF w \in Pollers THEN cached[w] ELSE from_block
           new == [proc EXCEPT ![w].pc = IF tip = old THEN "list" ELSE "begin",
                               ![w].old = old, ![w].blk = tip]
<1>1. old \in Heights /\ tip \in Heights /\ MaxBlock \in Nat
  BY WorkersAssumption DEF WorkersAssumption, Workers, IInv, Types
<1>2. proc' = IF tip < old THEN proc ELSE new
  BY DEF Start
<1>3. Types'
  <2>1. new \in [Workers -> Procs]
    <3>1. old \in 0 .. MaxBlock /\ tip \in 0 .. MaxBlock
      <4> HIDE DEF old
      <4> QED BY <1>1 DEF Heights
    <3>2. proc \in [Workers -> Procs]
      BY DEF IInv, Types
    <3> DEFINE pc == IF tip = old THEN "list" ELSE "begin"
               row == [proc[w] EXCEPT !.pc = pc, !.old = old, !.blk = tip]
    <3>3. pc \in {"list", "begin"}
      OBVIOUS
    <3>4. new = [proc EXCEPT ![w] = row]
      BY <3>2 DEF Procs
    <3> HIDE DEF old, pc
    <3>5. row \in Procs
      BY <3>1, <3>2, <3>3 DEF Procs
    <3> HIDE DEF row, new
    <3> QED BY <3>2, <3>4, <3>5
  <2>2. called' \subseteq Callers
    BY DEF Start, IInv, Types
  <2> QED BY <1>2, <2>1, <2>2 DEF IInv, Types, Start, chainVars, tables
<1>4. WorkerInv(w)'
  <2>1. CASE tip < old
    BY <1>2, <2>1 DEF IInv, WorkerInv, Scanning, Conf, Start, chainVars, tables
  <2>2. CASE ~(tip < old)
    <3>1. /\ proc'[w].old = old /\ proc'[w].blk = tip
          /\ proc'[w].pc = (IF tip = old THEN "list" ELSE "begin")
          /\ proc'[w].tab = proc[w].tab /\ proc'[w].seen = proc[w].seen
      BY <1>2, <2>2 DEF IInv, Types, Procs
    <3>2. WorkerInv(w) /\ UNCHANGED <<sent, rows, writer>>
      BY DEF IInv, Start, chainVars, tables
    <3> HIDE DEF old
    <3>3. old \in Nat /\ old > 0 /\ tip \in Nat /\ old <= tip
      BY <1>1, <2>2 DEF Heights
    <3>4. proc'[w].blk - proc'[w].old > 0 => proc'[w].pc = "begin"
      BY <3>1, <3>3
    <3> QED BY <3>1, <3>2, <3>3, <3>4 DEF WorkerInv, Scanning, Conf
  <2> QED BY <2>1, <2>2
<1>5. ASSUME NEW v \in Workers, v # w PROVE WorkerInv(v)'
  <2>1. proc'[v] = proc[v]
    BY <1>2, <1>5 DEF IInv, Types
  <2> QED BY <1>5, <2>1, OthersKeep DEF Start, chainVars, tables
<1> QED BY <1>3, <1>4, <1>5 DEF IInv

\* Begin takes the lock for the blocks to come.
LEMMA BeginKeeps ==
    ASSUME IInv, NEW w \in Workers, Begin(w)
    PROVE  IInv'
<1>1. proc[w].blk \in Heights
  BY DEF IInv, Types, Procs, WorkerInv, Begin, Heights
<1>2. Types'
  BY <1>1 DEF IInv, Types, Procs, Begin, chainVars, tables
<1>3. WorkerInv(w)'
  BY DEF IInv, Types, Procs, WorkerInv, Scanning, Conf, Begin, chainVars, tables
<1>4. ASSUME NEW v \in Workers, v # w PROVE WorkerInv(v)'
  <2>1. proc'[v] = proc[v] /\ writer # v
    BY <1>4, WorkersAssumption DEF Begin, IInv, Types, WorkersAssumption
  <2> QED BY <1>4, <2>1, OthersKeep DEF Begin, chainVars, tables
<1> QED BY <1>2, <1>3, <1>4 DEF IInv

\* The answer of the wallet is kept as it is.
LEMMA ListsKeeps ==
    ASSUME IInv, NEW w \in Workers, NEW tab \in Tabs, DOMAIN tab \subseteq sent,
           Lists(w, tab), skipped' \subseteq Heights
    PROVE  IInv'
<1>1. Types'
  <2>1. proc' \in [Workers -> Procs]
    <3> DEFINE pc == IF DOMAIN tab = {} THEN "record" ELSE "look"
    <3>1. proc \in [Workers -> Procs] /\ proc[w] \in Procs
      BY DEF IInv, Types
    <3>2. pc \in {"record", "look"}
      OBVIOUS
    <3>3. proc' = [proc EXCEPT ![w] = [proc[w] EXCEPT !.pc = pc, !.tab = tab]]
      BY <3>1 DEF Lists, Procs
    <3> HIDE DEF pc
    <3>4. [proc[w] EXCEPT !.pc = pc, !.tab = tab] \in Procs
      BY <3>1, <3>2 DEF Procs
    <3> QED BY <3>1, <3>3, <3>4
  <2> QED BY <2>1 DEF IInv, Types, Lists, chainVars, tables
<1>2. WorkerInv(w)'
  <2>1. /\ proc'[w].tab = tab /\ proc'[w].seen = proc[w].seen
        /\ proc'[w].pc = (IF DOMAIN tab = {} THEN "record" ELSE "look")
        /\ proc'[w].old = proc[w].old /\ proc'[w].blk = proc[w].blk
    BY DEF IInv, Types, Procs, Lists
  <2>2. /\ WorkerInv(w) /\ proc[w].pc = "list"
        /\ UNCHANGED <<sent, rows, writer>>
    BY DEF IInv, Lists, chainVars, tables
  <2>3. DOMAIN tab = {} \/ proc'[w].pc = "look"
    BY <2>1
  <2> HIDE DEF Lists
  <2> QED BY <2>1, <2>2, <2>3 DEF WorkerInv, Scanning, Conf
<1>3. ASSUME NEW v \in Workers, v # w PROVE WorkerInv(v)'
  <2>1. proc'[v] = proc[v]
    BY <1>3 DEF Lists, IInv, Types
  <2> QED BY <1>3, <2>1, OthersKeep DEF Lists, chainVars, tables
<1> QED BY <1>1, <1>2, <1>3 DEF IInv

\* What listunspent lists is known to the wallet and has a block.
LEMMA ListKeeps ==
    ASSUME IInv, NEW w \in Workers, List(w)
    PROVE  IInv'
<1> DEFINE tab == [o \in Listed(w) |-> proc[w].blk - Confs(o) + 1]
<1>1. proc[w].pc = "list" /\ Listed(w) \subseteq Outputs /\ Listed(w) \subseteq sent
  BY DEF List, Lists, Listed, IInv, Types
<1>2. tab \in Tabs /\ DOMAIN tab \subseteq sent
  <2>1. \A o \in Listed(w) : proc[w].blk - Confs(o) + 1 \in 1 .. MaxBlock + 1
    BY <1>1, ListedBlock DEF IInv
  <2>2. tab \in [Listed(w) -> 1 .. MaxBlock + 1]
    BY <2>1
  <2> HIDE DEF tab
  <2> QED BY <1>1, <2>2 DEF Tabs
<1>3. skipped' \subseteq Heights
  <2>1. /\ proc[w].old \in Nat /\ proc[w].blk \in 0 .. MaxBlock
        /\ skipped \subseteq Heights /\ MaxBlock \in Nat
    BY WorkersAssumption DEF IInv, Types, Procs, WorkersAssumption
  <2>2. proc[w].old + 1 .. proc[w].blk \subseteq Heights
    BY <2>1 DEF Heights
  <2>3. {mined[o] : o \in Listed(w)} \ {0} \subseteq Heights
    BY <1>1, <2>1 DEF IInv, Types, Heights
  <2> QED BY <2>1, <2>2, <2>3 DEF List, Disturbed
<1>4. Lists(w, tab)
  BY DEF List
<1> QED BY <1>2, <1>3, <1>4, ListsKeeps

\* An empty answer is an answer.
LEMMA ListFailsKeeps ==
    ASSUME IInv, NEW w \in Workers, ListFails(w)
    PROVE  IInv'
<1>1. skipped' \subseteq Heights
  <2>1. /\ proc[w].old \in Nat /\ proc[w].blk \in 0 .. MaxBlock
        /\ skipped \subseteq Heights /\ MaxBlock \in Nat
    BY WorkersAssumption DEF IInv, Types, Procs, WorkersAssumption
  <2>2. proc[w].old + 1 .. proc[w].blk \subseteq Heights
    BY <2>1 DEF Heights
  <2> QED BY <2>1, <2>2 DEF ListFails
<1>2. Idle.tab \in Tabs /\ DOMAIN Idle.tab \subseteq sent /\ Lists(w, Idle.tab)
  BY IdleType DEF ListFails
<1> QED BY <1>1, <1>2, ListsKeeps

\* The rows that Look finds are there until the worker records: it holds the
\* lock if it processes new blocks.
LEMMA LookKeeps ==
    ASSUME IInv, NEW w \in Workers, Look(w)
    PROVE  IInv'
<1>1. Types'
  BY DEF IInv, Types, Procs, Look, chainVars, tables
<1>2. WorkerInv(w)'
  <2>1. /\ proc'[w].tab = proc[w].tab /\ proc'[w].pc = "record"
        /\ proc'[w].seen = {o \in DOMAIN proc[w].tab \cap Ours : rows[o] > 0}
        /\ proc'[w].old = proc[w].old /\ proc'[w].blk = proc[w].blk
    BY DEF IInv, Types, Procs, Look
  <2> QED BY <2>1 DEF IInv, WorkerInv, Scanning, Conf, Look, chainVars, tables
<1>3. ASSUME NEW v \in Workers, v # w PROVE WorkerInv(v)'
  <2>1. proc'[v] = proc[v]
    BY <1>3 DEF Look, IInv, Types
  <2> QED BY <1>3, <2>1, OthersKeep DEF Look, chainVars, tables
<1> QED BY <1>1, <1>2, <1>3 DEF IInv

\* Inserting a row needs the lock, and what one worker inserts no other one
\* that holds the lock has missed.
LEMMA RecordRows ==
    ASSUME IInv, NEW w \in Workers, Record(w)
    PROVE  /\ rows' \in [Ours -> Nat]
           /\ \A o \in Ours : rows'[o] >= rows[o]
           /\ rows' # rows => writer \in {w, NoWorker}
           /\ Conf(w) > 0 => \A o \in Ours : rows[o] > 0 => rows'[o] = rows[o]
<1> DEFINE listed == DOMAIN proc[w].tab
           fresh == {o \in listed \cap Ours : rows[o] = 0}
           missed == (listed \cap Ours) \ proc[w].seen
<1>1. PICK first \in SUBSET missed :
         /\ first = {} <=> missed = {}
         /\ rows' = [o \in Ours |-> rows[o] + IF o \in fresh \cup first THEN 1 ELSE 0]
  BY DEF Record
<1>2. rows \in [Ours -> Nat] /\ WorkerInv(w) /\ proc[w].pc = "record"
  BY DEF IInv, Types, Record
<1>3. fresh \subseteq missed
  BY <1>2 DEF WorkerInv
<1>4. missed # {} => writer \in {w, NoWorker}
  BY DEF Record
<1>5. Conf(w) > 0 => \A o \in missed : rows[o] = 0
  <2> SUFFICES ASSUME Conf(w) > 0, NEW o \in missed PROVE rows[o] = 0
    OBVIOUS
  <2>1. o \in DOMAIN proc[w].tab \cap Ours /\ o \notin proc[w].seen
    OBVIOUS
  <2>2. ~(rows[o] > 0) /\ rows[o] \in Nat
    BY <1>2, <2>1 DEF WorkerInv
  <2> QED BY <2>2
<1> HIDE DEF fresh, missed
<1>6. \A o \in Ours : rows'[o] = rows[o] + IF o \in fresh \cup first THEN 1 ELSE 0
  BY <1>1
<1>7. missed = {} => rows' = rows
  <2> SUFFICES ASSUME missed = {} PROVE rows' = rows
    OBVIOUS
  <2>1. fresh \cup first = {}
    BY <1>1, <1>3
  <2>2. rows' = [o \in Ours |-> rows[o]]
    BY <1>1, <1>2, <2>1
  <2> QED BY <1>2, <2>2
<1>8. Conf(w) > 0 => \A o \in Ours : rows[o] > 0 => rows'[o] = rows[o]
  BY <1>2, <1>3, <1>5, <1>6
<1> QED BY <1>1, <1>2, <1>4, <1>6, <1>7, <1>8

\* Record leaves rows that the other workers have seen, or could not have missed.
LEMMA RecordKeeps ==
    ASSUME IInv, NEW w \in Workers, Record(w)
    PROVE  IInv'
<1>1. Types /\ WorkerInv(w) /\ proc[w] \in Procs /\ proc[w].pc = "record"
  BY DEF IInv, Types, Record
<1>2. MaxBlock \in Nat
  BY WorkersAssumption DEF WorkersAssumption
<1>3. rows' \in [Ours -> Nat]
  BY RecordRows
<1>4. in_block' \in [Ours -> 0 .. MaxBlock + 1]
  <2> DEFINE tab == proc[w].tab
             confirmed == {o \in DOMAIN tab : tab[o] <= proc[w].blk}
             fresh == {o \in DOMAIN tab \cap Ours : rows[o] = 0}
             now == fresh \cup (confirmed \cap proc[w].seen)
  <2>1. in_block' = [o \in Ours |-> IF o \in now THEN tab[o] ELSE in_block[o]]
    BY DEF Record
  <2>2. tab \in Tabs /\ now \subseteq DOMAIN tab
    BY <1>1 DEF Procs
  <2> HIDE DEF tab, now
  <2>3. \A o \in DOMAIN tab : tab[o] \in 1 .. MaxBlock + 1
    BY <2>2 DEF Tabs
  <2>4. \A o \in now : tab[o] \in 0 .. MaxBlock + 1
    BY <1>2, <2>2, <2>3
  <2> QED BY <1>1, <2>1, <2>4 DEF Types
<1>5. returns' \in [Strays -> Nat]
  <2>1. \E S : returns' = [s \in Strays |->
                  returns[s] + IF s \in S /\ w \in Pollers THEN 1 ELSE 0]
    BY DEF Record
  <2> QED BY <1>1, <2>1 DEF Types
<1>6. from_block' \in Heights
  BY <1>1, <1>2 DEF Record, Conf, Types, Procs, Heights
<1>7. proc' \in [Workers -> Procs] /\ writer' \in Workers \cup {NoWorker}
  BY <1>1, IdleType DEF Record, Types
<1>8. Types'
  BY <1>1, <1>3, <1>4, <1>5, <1>6, <1>7 DEF Types, Record, chainVars
<1>9. WorkerInv(w)'
  <2>1. proc'[w] = Idle
    BY <1>1 DEF Record, Types
  <2> QED BY <2>1, IdleType DEF WorkerInv, Scanning
<1>10. ASSUME NEW v \in Workers, v # w PROVE WorkerInv(v)'
  <2>1. /\ proc'[v] = proc[v] /\ sent' = sent /\ WorkerInv(v)
        /\ writer = v => writer' = v
    BY <1>10 DEF Record, IInv, Types, chainVars
  <2>2. v # NoWorker
    BY WorkersAssumption DEF WorkersAssumption
  <2>3. CASE rows' = rows
    BY <2>1, <2>3 DEF WorkerInv, Scanning, Conf
  <2>4. CASE rows' # rows
    <3>1. ~(Scanning(v) /\ Conf(v) > 0)
      BY <1>10, <2>1, <2>2, <2>4, RecordRows DEF WorkerInv
    <3>2. proc[v].seen \subseteq Ours
      BY <1>1 DEF Types, Procs
    <3>3. \A o \in proc[v].seen : rows'[o] > 0
      BY <1>1, <1>3, <2>1, <3>2, RecordRows DEF Types, WorkerInv
    <3> QED BY <2>1, <3>1, <3>3 DEF WorkerInv, Scanning, Conf
  <2> QED BY <2>3, <2>4
<1> QED BY <1>8, <1>9, <1>10 DEF IInv

\* A poller reads a from_block that was committed.
LEMMA RefreshKeeps ==
    ASSUME IInv, NEW w \in Pollers, Refresh(w)
    PROVE  IInv'
<1>1. Types'
  BY DEF IInv, Types, Refresh, chainVars, tables
<1>2. \A v \in Workers : WorkerInv(v)'
  BY DEF IInv, WorkerInv, Scanning, Conf, Refresh, chainVars, tables
<1> QED BY <1>1, <1>2 DEF IInv

\* A rolled back worker gives the lock away and knows nothing.
LEMMA CrashKeeps ==
    ASSUME IInv, NEW w \in Workers, Crash(w)
    PROVE  IInv'
<1>1. Types'
  BY IdleType DEF IInv, Types, Crash, chainVars, tables
<1>2. WorkerInv(w)'
  <2>1. proc'[w] = Idle
    BY DEF Crash, IInv, Types
  <2> QED BY <2>1, IdleType DEF WorkerInv, Scanning
<1>3. ASSUME NEW v \in Workers, v # w PROVE WorkerInv(v)'
  <2>1. proc'[v] = proc[v]
    BY <1>3 DEF Crash, IInv, Types
  <2> QED BY <1>3, <2>1, OthersKeep DEF Crash, chainVars, tables
<1> QED BY <1>1, <1>2, <1>3 DEF IInv

\* The chain moves: run_once knows nothing of it.
LEMMA ChainKeeps ==
    ASSUME IInv, NewBlock \/ Disconnect \/ \E o \in Ours : Send(o)
    PROVE  IInv'
<1>1. MaxBlock \in Nat \ {0} /\ tip \in 1 .. MaxBlock
  BY WorkersAssumption DEF WorkersAssumption, IInv, Types, Heights
<1>2. tip' \in Heights /\ skipped' \subseteq Heights
  <2>1. skipped \subseteq 1 .. MaxBlock
    BY DEF IInv, Types, Heights
  <2>2. CASE NewBlock
    BY <1>1, <2>1, <2>2 DEF NewBlock, Heights
  <2>3. CASE Disconnect
    <3>1. tip' = tip - 1 /\ tip > 1 /\ skipped' \in {skipped, skipped \cup {tip}}
      BY <2>3 DEF Disconnect
    <3> QED BY <1>1, <2>1, <3>1 DEF Heights
  <2>4. CASE \E o \in Ours : Send(o)
    BY <1>1, <2>1, <2>4 DEF Send, Heights
  <2> QED BY <2>2, <2>3, <2>4
<1>3. sent \subseteq sent' /\ sent' \subseteq Outputs
  BY DEF NewBlock, Disconnect, Send, IInv, Types, Outputs
<1>4. mined' \in [Outputs -> 0 .. MaxBlock] /\ \A o \in Outputs : mined'[o] <= tip'
  <2>0. /\ mined \in [Outputs -> 0 .. MaxBlock]
        /\ \A o \in Outputs : mined[o] <= tip
    BY DEF IInv, Types
  <2>1. CASE NewBlock
    <3>1. PICK M : mined' = [o \in Outputs |-> IF o \in M THEN tip + 1 ELSE mined[o]]
      BY <2>1 DEF NewBlock
    <3>2. tip' = tip + 1 /\ tip < MaxBlock
      BY <2>1 DEF NewBlock
    <3> QED BY <1>1, <2>0, <3>1, <3>2
  <2>2. CASE Disconnect
    BY <1>1, <2>0, <2>2 DEF Disconnect
  <2>3. CASE \E o \in Ours : Send(o)
    BY <2>0, <2>3 DEF Send
  <2> QED BY <2>1, <2>2, <2>3
<1>5. /\ UNCHANGED <<tables, writer, proc, cached>>
      /\ called' \subseteq Callers
  BY DEF NewBlock, Disconnect, Send, IInv, Types
<1>6. Types'
  BY <1>2, <1>3, <1>4, <1>5 DEF IInv, Types, tables
<1>7. \A v \in Workers : WorkerInv(v)'
  BY <1>3, <1>5 DEF IInv, WorkerInv, Scanning, Conf, tables
<1> QED BY <1>6, <1>7 DEF IInv

\* Every step keeps the invariant.
LEMMA NextIInv == IInv /\ [Next]_vars => IInv'
<1> SUFFICES ASSUME IInv, [Next]_vars PROVE IInv'
  OBVIOUS
<1>1. ASSUME NEW w \in Workers, Step(w) \/ ListFails(w) \/ Crash(w) PROVE IInv'
  BY <1>1, StartKeeps, BeginKeeps, ListKeeps, LookKeeps, RecordKeeps, ListFailsKeeps,
     CrashKeeps DEF Step
<1>2. CASE UNCHANGED vars
  BY <1>2 DEF IInv, Types, WorkerInv, Scanning, Conf, vars, chainVars, tables
<1> QED BY <1>1, <1>2, RefreshKeeps, ChainKeeps DEF Next

-----------------------------------------------------------------------------
(* The theorems.                                                            *)

\* run_once keeps the lock from the update of from_block to the commit, and
\* what it has read of the rows is still true when it writes.
THEOREM LockIsKept == Spec => []IInv
<1> QED BY InitIInv, NextIInv, PTL DEF Spec

\* What run_once writes has its type: in particular no in_block is below the
\* first block, nor above the block that follows the highest one.
THEOREM BlockTypes == Spec => []TypeOK
<1>1. IInv => TypeOK
  <2> SUFFICES ASSUME IInv PROVE TypeOK
    OBVIOUS
  <2>1. ASSUME NEW w \in Workers
        PROVE  /\ proc[w].pc \in {"idle", "begin", "list", "look", "record"}
               /\ proc[w].old \in 0 .. proc[w].blk
               /\ DOMAIN proc[w].tab \subseteq sent
    BY WorkersAssumption DEF IInv, Types, Procs, WorkerInv, WorkersAssumption
  <2> QED BY <2>1 DEF IInv, Types, TypeOK, Heights
<1> QED BY <1>1, LockIsKept, PTL

\* b_p_db_update inserts a second row for an output only in a poll that has
\* no new block, whatever the other workers do meanwhile.
THEOREM NoSecondRow == Spec => NoSecondRowInNewBlock
<1> DEFINE A == \A o \in Ours : 0 < rows[o] /\ rows[o] < rows'[o] =>
                   \E w \in Workers : proc[w].pc = "record" /\ Conf(w) = 0
                                      /\ proc'[w].pc = "idle"
<1>1. IInv /\ [Next]_vars => [A]_vars
  <2> SUFFICES ASSUME IInv, Next, NEW o \in Ours, 0 < rows[o], rows[o] < rows'[o]
               PROVE  \E w \in Workers : proc[w].pc = "record" /\ Conf(w) = 0
                                         /\ proc'[w].pc = "idle"
    OBVIOUS
  <2>1. rows # rows'
    BY DEF IInv, Types
  <2>2. PICK w \in Workers : Record(w)
    BY <2>1 DEF Next, Step, Start, Begin, List, ListFails, Lists, Look, Crash, Refresh,
                Send, NewBlock, Disconnect, chainVars, tables
  <2>3. ~(Conf(w) > 0)
    BY <2>2, RecordRows DEF IInv, Types
  <2>4. Conf(w) = 0
    <3>1. proc[w].old \in Nat /\ proc[w].blk \in Nat /\ proc[w].old <= proc[w].blk
      BY DEF IInv, Types, Procs, WorkerInv
    <3> QED BY <2>3, <3>1 DEF Conf
  <2>5. proc[w].pc = "record" /\ proc'[w] = Idle
    BY <2>2 DEF Record, IInv, Types
  <2> QED BY <2>4, <2>5, IdleType
<1> QED BY <1>1, LockIsKept, PTL DEF Spec, NoSecondRowInNewBlock

-----------------------------------------------------------------------------
(* What has been scanned.                                                   *)

\* A worker that has the list; one that is about to move from_block on.
Holds(w) == proc[w].pc \in {"look", "record"}
Ahead(w) == Scanning(w) /\ Conf(w) > 0

\* Heights that a worker has heard of, and those it takes for done: what a
\* poller has written to its row before the commit is not.
Known(b) ==
    \/ b <= from_block \/ \E p \in Pollers : b <= cached[p]
    \/ \E v \in Workers : b <= proc[v].blk
Claimed(b) ==
    \/ b <= from_block
    \/ \E p \in Pollers : b <= cached[p] /\ ~ Ahead(p)
    \/ \E v \in Workers : b <= proc[v].old

\* What an output is in, in a block that is taken for done, is recorded.
DoneOK(o) ==
    mined[o] > 0 /\ mined[o] \notin skipped /\ Claimed(mined[o]) =>
        rows[o] > 0 /\ in_block[o] = mined[o]

\* The list of a worker has what its blocks pay to bills, and does not give a
\* block to an output that is in another one, unless that one is too new to
\* count as done.
WindowOK(w) ==
    Holds(w) => \A o \in Ours :
        proc[w].old < mined[o] /\ mined[o] <= proc[w].blk /\ mined[o] \notin skipped =>
            o \in DOMAIN proc[w].tab /\ proc[w].tab[o] = mined[o]
GivenOK(w) ==
    Holds(w) => \A o \in DOMAIN proc[w].tab : proc[w].tab[o] <= proc[w].blk =>
        /\ Conf(w) > 0
        /\ \/ mined[o] = proc[w].tab[o] \/ mined[o] \in skipped \cup {0}
           \/ mined[o] > proc[w].blk /\ ~ Claimed(mined[o])

SentOK == \A o \in Outputs : mined[o] > 0 => o \in sent
KnownOK == \A b \in Heights : tip < b /\ Known(b) => b \in skipped
PcOK(w) == (proc[w].pc = "idle" => proc[w].old = 0) /\ (proc[w].pc = "begin" => Conf(w) > 0)
AheadOK(p) == Ahead(p) => cached[p] = proc[p].blk

\* On top of IInv.
Scanned ==
    /\ SentOK /\ KnownOK
    /\ \A o \in Ours : DoneOK(o)
    /\ \A w \in Workers : WindowOK(w) /\ GivenOK(w) /\ PcOK(w)
    /\ \A p \in Pollers : AheadOK(p)

\* Numbers.
LEMMA Numbers ==
    ASSUME IInv
    PROVE  /\ MaxBlock \in Nat \ {0} /\ tip \in Heights /\ from_block \in Heights
           /\ Pollers \subseteq Workers /\ \A p \in Pollers : cached[p] \in Heights
           /\ \A o \in Outputs : mined[o] \in 0 .. MaxBlock /\ mined[o] <= tip
           /\ \A w \in Workers :
                /\ proc[w] \in Procs /\ proc[w].old \in Nat /\ proc[w].blk \in Nat
                /\ proc[w].old <= proc[w].blk /\ proc[w].blk <= MaxBlock
                /\ \A o \in DOMAIN proc[w].tab :
                       o \in Outputs /\ proc[w].tab[o] \in 1 .. MaxBlock + 1
<1>1. MaxBlock \in Nat \ {0}
  BY WorkersAssumption DEF WorkersAssumption
<1>2. ASSUME NEW w \in Workers
      PROVE  /\ proc[w] \in Procs /\ proc[w].old \in Nat /\ proc[w].blk \in Nat
             /\ proc[w].old <= proc[w].blk /\ proc[w].blk <= MaxBlock
  BY <1>1 DEF IInv, Types, Procs, WorkerInv
<1>3. ASSUME NEW w \in Workers, NEW o \in DOMAIN proc[w].tab
      PROVE  o \in Outputs /\ proc[w].tab[o] \in 1 .. MaxBlock + 1
  <2>1. proc[w].tab \in Tabs
    BY <1>2 DEF Procs
  <2> QED BY <2>1 DEF Tabs
<1> QED BY <1>1, <1>2, <1>3 DEF IInv, Types, Workers

\* What is taken for done is known.
LEMMA ClaimedKnown ==
    ASSUME IInv, NEW b \in Int, Claimed(b)
    PROVE  Known(b)
BY Numbers DEF Claimed, Known, Heights

\* Steps that leave the chain and the rows alone.
LEMMA Quiet ==
    ASSUME IInv, Scanned, UNCHANGED <<tip, sent, mined, rows, in_block>>,
           skipped \subseteq skipped',
           \A b \in Int : Claimed(b)' => Claimed(b),
           \A b \in Heights : Known(b)' /\ tip < b => Known(b),
           \A w \in Workers : PcOK(w)', \A p \in Pollers : AheadOK(p)',
           \A w \in Workers : Holds(w)' =>
               \/ WindowOK(w)' /\ GivenOK(w)'
               \/ /\ Holds(w) /\ proc'[w].old = proc[w].old
                  /\ proc'[w].blk = proc[w].blk /\ proc'[w].tab = proc[w].tab
    PROVE  Scanned'
<1>1. SentOK' /\ KnownOK'
  BY DEF Scanned, SentOK, KnownOK, Heights
<1>2. \A o \in Outputs : mined[o] \in Int
  BY Numbers
<1>3. ASSUME NEW o \in Ours PROVE DoneOK(o)'
  BY <1>2 DEF Scanned, DoneOK, Outputs
<1>4. ASSUME NEW w \in Workers PROVE WindowOK(w)' /\ GivenOK(w)'
  <2>1. CASE ~ Holds(w)'
    BY <2>1 DEF WindowOK, GivenOK
  <2>2. CASE Holds(w) /\ proc'[w].old = proc[w].old
             /\ proc'[w].blk = proc[w].blk /\ proc'[w].tab = proc[w].tab
    <3>1. WindowOK(w)'
      BY <2>2 DEF Scanned, WindowOK
    <3>2. Conf(w)' = Conf(w)
      BY <2>2 DEF Conf
    <3>3. GivenOK(w)'
      <4> SUFFICES ASSUME NEW o \in DOMAIN proc[w].tab, proc[w].tab[o] <= proc[w].blk
                   PROVE  /\ Conf(w) > 0
                          /\ \/ mined[o] = proc[w].tab[o] \/ mined[o] \in skipped' \cup {0}
                             \/ mined[o] > proc[w].blk /\ ~ Claimed(mined[o])'
        BY <2>2, <3>2 DEF GivenOK
      <4>1. /\ Conf(w) > 0
            /\ \/ mined[o] = proc[w].tab[o] \/ mined[o] \in skipped \cup {0}
               \/ mined[o] > proc[w].blk /\ ~ Claimed(mined[o])
        BY <2>2 DEF Scanned, GivenOK
      <4>2. mined[o] \in Int
        BY Numbers
      <4> QED BY <4>1, <4>2
    <3> QED BY <3>1, <3>3
  <2> QED BY <2>1, <2>2
<1> QED BY <1>1, <1>3, <1>4 DEF Scanned

\* A step of one worker: the others know what they knew.
LEMMA OthersPc ==
    ASSUME Scanned, NEW w, \A v \in Workers \ {w} : proc'[v] = proc[v],
           \A v \in Pollers \ {w} : cached'[v] = cached[v],
           Pollers \subseteq Workers
    PROVE  /\ \A v \in Workers \ {w} : PcOK(v)'
           /\ \A v \in Pollers \ {w} : AheadOK(v)' /\ (Ahead(v)' <=> Ahead(v))
           /\ \A v \in Workers \ {w} : Holds(v)' =>
               /\ Holds(v) /\ proc'[v].old = proc[v].old
               /\ proc'[v].blk = proc[v].blk /\ proc'[v].tab = proc[v].tab
BY DEF Scanned, PcOK, AheadOK, Ahead, Scanning, Holds, Conf

LEMMA StartScans ==
    ASSUME IInv, Scanned, NEW w \in Workers, Start(w)
    PROVE  Scanned'
<1> DEFINE old == IF w \in Pollers THEN cached[w] ELSE from_block
<1>1. UNCHANGED <<tip, sent, mined, rows, in_block, skipped, from_block, cached>>
  BY DEF Start, chainVars, tables
<1>2. proc[w].pc = "idle" /\ proc \in [Workers -> Procs]
  BY DEF Start, IInv, Types
<1>3. CASE tip < old
  <2>1. proc' = proc
    BY <1>3 DEF Start
  <2> QED BY <1>1, <2>1, Quiet
          DEF Scanned, PcOK, AheadOK, Ahead, Scanning, Holds, Conf, Claimed, Known
<1>4. CASE ~ (tip < old)
  <2>1. proc' = [proc EXCEPT ![w].pc = IF tip = old THEN "list" ELSE "begin",
                             ![w].old = old, ![w].blk = tip]
    BY <1>4 DEF Start
  <2>2. /\ proc'[w].old = old /\ proc'[w].blk = tip
        /\ proc'[w].pc = (IF tip = old THEN "list" ELSE "begin")
        /\ \A v \in Workers \ {w} : proc'[v] = proc[v]
    BY <1>2, <2>1 DEF Procs
  <2>3. old \in Nat /\ old <= tip /\ tip \in Nat /\ Pollers \subseteq Workers
    BY <1>4, Numbers DEF Heights
  <2>4. \A b \in Int : b <= old => Claimed(b)
    BY <1>2 DEF Claimed, Ahead, Scanning
  <2>5. old = from_block \/ (w \in Pollers /\ old = cached[w])
    OBVIOUS
  <2> HIDE DEF old
  <2>6. ~ Holds(w)' /\ PcOK(w)' /\ ~ Ahead(w)'
    BY <2>2, <2>3 DEF Holds, PcOK, Ahead, Scanning, Conf
  <2>7. /\ \A v \in Workers \ {w} : PcOK(v)'
        /\ \A v \in Pollers \ {w} : AheadOK(v)' /\ (Ahead(v)' <=> Ahead(v))
        /\ \A v \in Workers \ {w} : Holds(v)' =>
            /\ Holds(v) /\ proc'[v].old = proc[v].old
            /\ proc'[v].blk = proc[v].blk /\ proc'[v].tab = proc[v].tab
    BY <1>1, <2>2, <2>3, OthersPc
  <2>8. ~ Ahead(w)
    BY <1>2 DEF Ahead, Scanning
  <2>9. ASSUME NEW b \in Int, Claimed(b)' PROVE Claimed(b)
    BY <1>1, <2>2, <2>4, <2>7, <2>8, <2>9 DEF Claimed
  <2>10. ASSUME NEW b \in Heights, Known(b)', tip < b PROVE Known(b)
    <3>1. ~ (b <= tip)
      BY <2>3, <2>10 DEF Heights
    <3> QED BY <1>1, <2>2, <2>10, <3>1 DEF Known
  <2>11. \A v \in Workers : PcOK(v)'
    BY <2>6, <2>7
  <2>12. \A v \in Pollers : AheadOK(v)'
    BY <2>6, <2>7 DEF AheadOK
  <2> QED BY <1>1, <2>6, <2>7, <2>9, <2>10, <2>11, <2>12, Quiet
<1> QED BY <1>3, <1>4

LEMMA BeginScans ==
    ASSUME IInv, Scanned, NEW w \in Workers, Begin(w)
    PROVE  Scanned'
<1>1. UNCHANGED <<tip, sent, mined, rows, in_block, skipped, from_block>>
  BY DEF Begin, chainVars, tables
<1>2. proc[w].pc = "begin" /\ proc \in [Workers -> Procs] /\ cached \in [Pollers -> Heights]
      /\ Pollers \subseteq Workers
  BY Numbers DEF Begin, IInv, Types
<1>3. /\ proc'[w].pc = "list" /\ proc'[w].old = proc[w].old /\ proc'[w].blk = proc[w].blk
      /\ \A v \in Workers \ {w} : proc'[v] = proc[v]
  BY <1>2 DEF Begin, Procs
<1>4. /\ \A v \in Pollers \ {w} : cached'[v] = cached[v]
      /\ w \in Pollers => cached'[w] = proc[w].blk
  BY <1>2 DEF Begin
<1>5. ~ Holds(w)' /\ PcOK(w)' /\ Ahead(w)' /\ (w \in Pollers => AheadOK(w)')
  BY <1>2, <1>3, <1>4 DEF Scanned, Holds, PcOK, AheadOK, Ahead, Scanning, Conf
<1>6. /\ \A v \in Workers \ {w} : PcOK(v)'
      /\ \A v \in Pollers \ {w} : AheadOK(v)' /\ (Ahead(v)' <=> Ahead(v))
      /\ \A v \in Workers \ {w} : Holds(v)' =>
            /\ Holds(v) /\ proc'[v].old = proc[v].old
            /\ proc'[v].blk = proc[v].blk /\ proc'[v].tab = proc[v].tab
  BY <1>2, <1>3, <1>4, OthersPc
<1>7. ASSUME NEW b \in Int, Claimed(b)' PROVE Claimed(b)
  BY <1>1, <1>3, <1>4, <1>5, <1>6, <1>7 DEF Claimed
<1>8. ASSUME NEW b \in Heights, Known(b)' PROVE Known(b)
  BY <1>1, <1>2, <1>3, <1>4, <1>8 DEF Known
<1>9. (\A v \in Workers : PcOK(v)') /\ (\A v \in Pollers : AheadOK(v)')
  BY <1>5, <1>6
<1> QED BY <1>1, <1>5, <1>6, <1>7, <1>8, <1>9, Quiet

LEMMA LookScans ==
    ASSUME IInv, Scanned, NEW w \in Workers, Look(w)
    PROVE  Scanned'
<1>1. UNCHANGED <<tip, sent, mined, rows, in_block, skipped, from_block, cached>>
  BY DEF Look, chainVars, tables
<1>2. proc[w].pc = "look" /\ proc \in [Workers -> Procs] /\ Pollers \subseteq Workers
  BY Numbers DEF Look, IInv, Types
<1>3. /\ proc'[w].pc = "record" /\ proc'[w].old = proc[w].old /\ proc'[w].blk = proc[w].blk
      /\ proc'[w].tab = proc[w].tab
      /\ \A v \in Workers \ {w} : proc'[v] = proc[v]
  BY <1>2 DEF Look, Procs
<1>4. Holds(w) /\ PcOK(w)' /\ (Ahead(w)' <=> Ahead(w)) /\ (w \in Pollers => AheadOK(w)')
  BY <1>1, <1>2, <1>3 DEF Scanned, Holds, PcOK, AheadOK, Ahead, Scanning, Conf
<1>5. /\ \A v \in Workers \ {w} : PcOK(v)'
      /\ \A v \in Pollers \ {w} : AheadOK(v)' /\ (Ahead(v)' <=> Ahead(v))
      /\ \A v \in Workers \ {w} : Holds(v)' =>
            /\ Holds(v) /\ proc'[v].old = proc[v].old
            /\ proc'[v].blk = proc[v].blk /\ proc'[v].tab = proc[v].tab
  BY <1>1, <1>2, <1>3, OthersPc
<1>6. ASSUME NEW b \in Int, Claimed(b)' PROVE Claimed(b)
  BY <1>1, <1>3, <1>4, <1>5, <1>6 DEF Claimed
<1>7. ASSUME NEW b \in Heights, Known(b)' PROVE Known(b)
  BY <1>1, <1>3, <1>7 DEF Known
<1>8. (\A v \in Workers : PcOK(v)') /\ (\A v \in Pollers : AheadOK(v)')
  BY <1>4, <1>5
<1> QED BY <1>1, <1>3, <1>4, <1>5, <1>6, <1>7, <1>8, Quiet

\* A worker that gives up, and a poller that reads its row again.
LEMMA CrashScans ==
    ASSUME IInv, Scanned, NEW w \in Workers, Crash(w)
    PROVE  Scanned'
<1>1. UNCHANGED <<tip, sent, mined, rows, in_block, skipped, from_block>>
  BY DEF Crash, chainVars, tables
<1>2. proc \in [Workers -> Procs] /\ cached \in [Pollers -> Heights] /\ Pollers \subseteq Workers
  BY Numbers DEF IInv, Types
<1>3. proc'[w] = Idle /\ \A v \in Workers \ {w} : proc'[v] = proc[v]
  BY <1>2 DEF Crash
<1>4. /\ \A v \in Pollers \ {w} : cached'[v] = cached[v]
      /\ w \in Pollers => cached'[w] = from_block
  BY <1>2 DEF Crash
<1>5. ~ Holds(w)' /\ PcOK(w)' /\ ~ Ahead(w)'
  BY <1>3, IdleType DEF Holds, PcOK, Ahead, Scanning
<1>6. /\ \A v \in Workers \ {w} : PcOK(v)'
      /\ \A v \in Pollers \ {w} : AheadOK(v)' /\ (Ahead(v)' <=> Ahead(v))
      /\ \A v \in Workers \ {w} : Holds(v)' =>
            /\ Holds(v) /\ proc'[v].old = proc[v].old
            /\ proc'[v].blk = proc[v].blk /\ proc'[v].tab = proc[v].tab
  BY <1>2, <1>3, <1>4, OthersPc
<1>7. proc[w].old \in Nat /\ proc[w].blk \in Nat /\ from_block \in Heights
  BY Numbers
<1>8. ASSUME NEW b \in Int, Claimed(b)' PROVE Claimed(b)
  <2>1. b <= 0 => Claimed(b)
    BY <1>7 DEF Claimed, Heights
  <2> QED BY <1>1, <1>3, <1>4, <1>6, <1>8, <2>1, IdleType DEF Claimed
<1>9. ASSUME NEW b \in Heights, Known(b)' PROVE Known(b)
  <2>1. ~ (b <= 0)
    BY DEF Heights
  <2> QED BY <1>1, <1>3, <1>4, <1>9, <2>1, IdleType DEF Known
<1>10. (\A v \in Workers : PcOK(v)') /\ (\A v \in Pollers : AheadOK(v)')
  BY <1>5, <1>6 DEF AheadOK
<1> QED BY <1>1, <1>5, <1>6, <1>8, <1>9, <1>10, Quiet

LEMMA RefreshScans ==
    ASSUME IInv, Scanned, NEW w \in Pollers, Refresh(w)
    PROVE  Scanned'
<1>1. UNCHANGED <<tip, sent, mined, rows, in_block, skipped, from_block, proc>>
  BY DEF Refresh, chainVars, tables
<1>2. proc[w].pc = "idle" /\ cached \in [Pollers -> Heights] /\ Pollers \subseteq Workers
  BY Numbers DEF Refresh, IInv, Types
<1>3. cached'[w] = from_block /\ \A v \in Pollers \ {w} : cached'[v] = cached[v]
  BY <1>2 DEF Refresh
<1>4. \A v \in Workers : (Holds(v)' <=> Holds(v)) /\ PcOK(v)' /\ (Ahead(v)' <=> Ahead(v))
  BY <1>1 DEF Scanned, Holds, PcOK, Ahead, Scanning, Conf
<1>5. \A v \in Pollers : AheadOK(v)'
  <2>1. ~ Ahead(w)
    BY <1>2 DEF Ahead, Scanning
  <2> QED BY <1>1, <1>2, <1>3, <1>4, <2>1 DEF Scanned, AheadOK
<1>6. ASSUME NEW b \in Int, Claimed(b)' PROVE Claimed(b)
  BY <1>1, <1>2, <1>3, <1>4, <1>6 DEF Claimed
<1>7. ASSUME NEW b \in Heights, Known(b)' PROVE Known(b)
  BY <1>1, <1>3, <1>7 DEF Known
<1> QED BY <1>1, <1>4, <1>5, <1>6, <1>7, Quiet

\* The answer of the wallet, which is the chain as it is now.
LEMMA ListedScans ==
    ASSUME IInv, Scanned, NEW w \in Workers, NEW tab, Lists(w, tab), skipped \subseteq skipped',
           WindowOK(w)', GivenOK(w)'
    PROVE  Scanned'
<1>1. UNCHANGED <<tip, sent, mined, rows, in_block, from_block, cached>>
  BY DEF Lists, chainVars, tables
<1>2. proc[w].pc = "list" /\ proc \in [Workers -> Procs] /\ Pollers \subseteq Workers
  BY Numbers DEF Lists, IInv, Types
<1>3. /\ proc'[w].pc \in {"look", "record"} /\ proc'[w].old = proc[w].old
      /\ proc'[w].blk = proc[w].blk /\ \A v \in Workers \ {w} : proc'[v] = proc[v]
  BY <1>2 DEF Lists, Procs
<1>4. PcOK(w)' /\ (Ahead(w)' <=> Ahead(w)) /\ (w \in Pollers => AheadOK(w)')
  BY <1>1, <1>2, <1>3 DEF Scanned, Holds, PcOK, AheadOK, Ahead, Scanning, Conf
<1>5. /\ \A v \in Workers \ {w} : PcOK(v)'
      /\ \A v \in Pollers \ {w} : AheadOK(v)' /\ (Ahead(v)' <=> Ahead(v))
      /\ \A v \in Workers \ {w} : Holds(v)' =>
            /\ Holds(v) /\ proc'[v].old = proc[v].old
            /\ proc'[v].blk = proc[v].blk /\ proc'[v].tab = proc[v].tab
  BY <1>1, <1>2, <1>3, OthersPc
<1>6. ASSUME NEW b \in Int, Claimed(b)' PROVE Claimed(b)
  BY <1>1, <1>3, <1>4, <1>5, <1>6 DEF Claimed
<1>7. ASSUME NEW b \in Heights, Known(b)' PROVE Known(b)
  BY <1>1, <1>3, <1>7 DEF Known
<1>8. (\A v \in Workers : PcOK(v)') /\ (\A v \in Pollers : AheadOK(v)')
  BY <1>4, <1>5
<1> QED BY <1>1, <1>4, <1>5, <1>6, <1>7, <1>8, Quiet

\* What listunspent says of an output, and of the blocks of the worker.
LEMMA ListIs ==
    ASSUME IInv, Scanned, NEW w \in Workers, List(w)
    PROVE  LET tab == proc'[w].tab
               blk == proc[w].blk
           IN  /\ DOMAIN tab = Listed(w)
               /\ proc'[w].pc \in {"look", "record"} /\ proc'[w].old = proc[w].old
               /\ proc'[w].blk = blk /\ \A v \in Workers \ {w} : proc'[v] = proc[v]
               /\ \A o \in DOMAIN tab : tab[o] <= blk => Conf(w) > 0 /\ mined[o] > 0
               /\ tip = blk => \A o \in DOMAIN tab : tab[o] <= blk =>
                                   tab[o] = mined[o] /\ mined[o] > proc[w].old
               /\ tip = blk => \A o \in Outputs : proc[w].old < mined[o] =>
                                   o \in DOMAIN tab /\ tab[o] = mined[o]
               /\ tip # blk /\ Conf(w) > 0 =>
                      /\ \A o \in DOMAIN tab : mined[o] \in skipped' \cup {0}
                      /\ \A o \in Outputs : proc[w].old < mined[o] /\ mined[o] <= blk =>
                             mined[o] \in skipped'
<1> DEFINE tab == [o \in Listed(w) |-> proc[w].blk - Confs(o) + 1]
           blk == proc[w].blk
           old == proc[w].old
<1>1. proc[w].pc = "list" /\ proc \in [Workers -> Procs] /\ Listed(w) \subseteq Outputs
  BY DEF List, Lists, IInv, Types, Listed
<1>2. /\ proc'[w].tab = tab /\ proc'[w].pc \in {"look", "record"} /\ proc'[w].old = old
      /\ proc'[w].blk = blk /\ \A v \in Workers \ {w} : proc'[v] = proc[v]
  <2>1. proc' = [proc EXCEPT ![w].pc = IF DOMAIN tab = {} THEN "record" ELSE "look",
                             ![w].tab = tab]
    BY DEF List, Lists
  <2> HIDE DEF tab
  <2> QED BY <1>1, <2>1 DEF Procs
<1>3. old \in Nat /\ blk \in Nat /\ old <= blk /\ tip \in Nat /\ MaxBlock \in Nat /\ Conf(w) = blk - old
  BY Numbers DEF Heights, Conf
<1>4. \A o \in Outputs : mined[o] \in 0 .. MaxBlock /\ mined[o] <= tip
  BY Numbers
<1>5. ASSUME NEW o \in Listed(w), tab[o] <= blk
      PROVE  Conf(w) > 0 /\ mined[o] > 0 /\ (tip = blk => tab[o] = mined[o] /\ mined[o] > old)
  <2>1. o \in Outputs /\ Confs(o) <= Conf(w) /\ tab[o] = blk - Confs(o) + 1
    BY <1>1 DEF Listed
  <2>2. mined[o] = 0 => Confs(o) = 0
    BY DEF Confs
  <2>3. mined[o] # 0 => Confs(o) = tip - mined[o] + 1
    BY DEF Confs
  <2>4. mined[o] \in Nat /\ mined[o] <= tip
    BY <1>3, <1>4, <2>1
  <2>5. mined[o] # 0
    BY <1>3, <1>5, <2>1, <2>2
  <2> HIDE DEF tab, blk, old
  <2> QED BY <1>3, <1>5, <2>1, <2>3, <2>4, <2>5
<1>6. ASSUME tip = blk, NEW o \in Outputs, old < mined[o]
      PROVE  o \in Listed(w) /\ tab[o] = mined[o]
  <2>1. mined[o] \in Nat /\ mined[o] # 0
    BY <1>3, <1>4, <1>6
  <2>2. Confs(o) = tip - mined[o] + 1
    BY <2>1 DEF Confs
  <2>3. o \in sent
    BY <1>3, <1>6, <2>1 DEF Scanned, SentOK
  <2>4. Confs(o) <= Conf(w)
    BY <1>3, <1>6, <2>1, <2>2
  <2>5. o \in Listed(w)
    BY <2>3, <2>4 DEF Listed
  <2>6. tab[o] = blk - Confs(o) + 1
    BY <2>5
  <2> HIDE DEF tab, blk, old
  <2> QED BY <1>3, <1>6, <2>1, <2>2, <2>5, <2>6
<1>7. ASSUME tip # blk, Conf(w) > 0
      PROVE  /\ \A o \in Listed(w) : mined[o] \in skipped' \cup {0}
             /\ \A o \in Outputs : old < mined[o] /\ mined[o] <= blk => mined[o] \in skipped'
  <2>1. skipped' = skipped \cup (old + 1 .. blk) \cup ({mined[o] : o \in Listed(w)} \ {0})
    BY <1>3, <1>7 DEF List, Disturbed
  <2>2. \A o \in Outputs : old < mined[o] /\ mined[o] <= blk => mined[o] \in old + 1 .. blk
    BY <1>3, <1>4
  <2> QED BY <2>1, <2>2
<1>8. DOMAIN tab = Listed(w)
  OBVIOUS
<1> HIDE DEF tab
<1> QED BY <1>2, <1>5, <1>6, <1>7, <1>8

LEMMA ListScans ==
    ASSUME IInv, Scanned, NEW w \in Workers, List(w)
    PROVE  Scanned'
<1> DEFINE tab == proc'[w].tab
           blk == proc[w].blk
<1>1. PICK t : Lists(w, t)
  BY DEF List
<1>2. /\ mined' = mined /\ skipped \subseteq skipped' /\ skipped \subseteq Heights
      /\ skipped' \subseteq Heights
  BY <1>1, ListKeeps DEF Lists, chainVars, List, IInv, Types
<1>3. /\ proc'[w].old = proc[w].old /\ proc'[w].blk = blk
      /\ \A o \in DOMAIN tab : tab[o] <= blk => Conf(w) > 0 /\ mined[o] > 0
      /\ tip = blk => \A o \in DOMAIN tab : tab[o] <= blk => tab[o] = mined[o]
      /\ tip = blk => \A o \in Outputs : proc[w].old < mined[o] =>
                          o \in DOMAIN tab /\ tab[o] = mined[o]
      /\ tip # blk /\ Conf(w) > 0 =>
             /\ \A o \in DOMAIN tab : mined[o] \in skipped' \cup {0}
             /\ \A o \in Outputs : proc[w].old < mined[o] /\ mined[o] <= blk =>
                    mined[o] \in skipped'
  BY ListIs
<1>4. Conf(w)' = Conf(w) /\ Conf(w) = blk - proc[w].old /\ blk \in Nat /\ proc[w].old \in Nat
      /\ \A o \in Outputs : mined[o] \in Int
  BY <1>3, Numbers DEF Conf
<1> HIDE DEF tab, blk
<1>5. \A o \in Ours : proc[w].old < mined[o] /\ mined[o] <= blk /\ mined[o] \notin skipped' =>
          o \in DOMAIN tab /\ tab[o] = mined[o]
  BY <1>3, <1>4 DEF Outputs
<1>6. \A o \in DOMAIN tab : tab[o] <= blk =>
          Conf(w) > 0 /\ (mined[o] = tab[o] \/ mined[o] \in skipped' \cup {0})
  BY <1>3
<1>7. WindowOK(w)'
  BY <1>2, <1>3, <1>5 DEF WindowOK, tab
<1>8. GivenOK(w)'
  BY <1>2, <1>3, <1>4, <1>6 DEF GivenOK, tab
<1> QED BY <1>1, <1>2, <1>7, <1>8, ListedScans

LEMMA ListFailsScans ==
    ASSUME IInv, Scanned, NEW w \in Workers, ListFails(w)
    PROVE  Scanned'
<1>1. Lists(w, Idle.tab) /\ skipped' = skipped \cup (proc[w].old + 1 .. proc[w].blk)
  BY DEF ListFails
<1>2. proc[w].pc = "list" /\ proc \in [Workers -> Procs] /\ mined' = mined
  BY <1>1 DEF Lists, IInv, Types, chainVars
<1>3. /\ proc'[w].tab = Idle.tab /\ proc'[w].old = proc[w].old /\ proc'[w].blk = proc[w].blk
  BY <1>1, <1>2 DEF Lists, Procs
<1>4. proc[w].old \in Nat /\ proc[w].blk \in Nat /\ \A o \in Ours : mined[o] \in Int
  BY Numbers DEF Outputs
<1>5. WindowOK(w)'
  BY <1>1, <1>2, <1>3, <1>4 DEF WindowOK
<1>6. GivenOK(w)'
  BY <1>3, IdleType DEF GivenOK
<1> QED BY <1>1, <1>5, <1>6, ListedScans

-----------------------------------------------------------------------------
(* What is recorded.                                                        *)

\* What Record does to an output.
LEMMA RecordIs ==
    ASSUME IInv, NEW w \in Workers, Record(w), NEW o \in Ours
    PROVE  LET tab == proc[w].tab IN
           /\ rows'[o] \in Nat /\ rows[o] \in Nat /\ rows'[o] >= rows[o]
           /\ o \in DOMAIN tab => rows'[o] > 0
           /\ rows[o] > 0 => in_block'[o] = in_block[o]
                             \/ (o \in DOMAIN tab /\ tab[o] <= proc[w].blk
                                 /\ in_block'[o] = tab[o])
           /\ Conf(w) > 0 /\ o \in DOMAIN tab /\ tab[o] <= proc[w].blk => in_block'[o] = tab[o]
<1> DEFINE tab == proc[w].tab
           fresh == {x \in DOMAIN tab \cap Ours : rows[x] = 0}
           missed == (DOMAIN tab \cap Ours) \ proc[w].seen
           confirmed == {x \in DOMAIN tab : tab[x] <= proc[w].blk}
           now == fresh \cup (confirmed \cap proc[w].seen)
<1>1. PICK first : rows' = [x \in Ours |-> rows[x] + IF x \in fresh \cup first THEN 1 ELSE 0]
  BY DEF Record
<1>2. rows \in [Ours -> Nat] /\ WorkerInv(w) /\ proc[w].pc = "record" /\ proc[w].seen \subseteq Ours
  BY DEF IInv, Types, Procs, Record
<1>3. in_block' = [x \in Ours |-> IF x \in now THEN tab[x] ELSE in_block[x]]
  BY DEF Record
<1>4. rows[o] \in Nat /\ rows'[o] = rows[o] + IF o \in fresh \cup first THEN 1 ELSE 0
  <2> HIDE DEF fresh
  <2> QED BY <1>1, <1>2
<1>5. in_block'[o] = IF o \in now THEN tab[o] ELSE in_block[o]
  <2> HIDE DEF now, tab
  <2> QED BY <1>3
<1>6. o \in DOMAIN tab => rows[o] > 0 \/ o \in fresh
  BY <1>4
<1>7. rows[o] > 0 /\ o \in now => o \in confirmed
  OBVIOUS
<1>8. Conf(w) > 0 /\ o \in confirmed => o \in now
  <2>1. Conf(w) > 0 => \A x \in DOMAIN tab \cap Ours : rows[x] > 0 => x \in proc[w].seen
    BY <1>2 DEF WorkerInv
  <2>2. o \in confirmed => rows[o] = 0 \/ rows[o] > 0
    BY <1>4
  <2> QED BY <2>1, <2>2
<1>9. o \in confirmed <=> o \in DOMAIN tab /\ tab[o] <= proc[w].blk
  OBVIOUS
<1> HIDE DEF fresh, confirmed, now, missed, tab
<1>10. o \in DOMAIN tab => rows'[o] > 0
  BY <1>4, <1>6
<1> QED BY <1>4, <1>5, <1>7, <1>8, <1>9, <1>10 DEF tab

LEMMA RecordScans ==
    ASSUME IInv, Scanned, NEW w \in Workers, Record(w)
    PROVE  Scanned'
<1> DEFINE tab == proc[w].tab
           blk == proc[w].blk
<1>1. /\ UNCHANGED <<tip, sent, mined, cached, skipped>>
      /\ from_block' = IF Conf(w) > 0 THEN blk ELSE from_block
  BY DEF Record, chainVars
<1>2. proc[w].pc = "record" /\ proc \in [Workers -> Procs] /\ Pollers \subseteq Workers
      /\ WorkerInv(w) /\ Scanning(w) /\ Holds(w)
  BY Numbers DEF Record, IInv, Types, Scanning, Holds
<1>3. proc'[w] = Idle /\ \A v \in Workers \ {w} : proc'[v] = proc[v]
  BY <1>2 DEF Record
<1>4. ~ Holds(w)' /\ PcOK(w)' /\ ~ Ahead(w)'
  BY <1>3, IdleType DEF Holds, PcOK, Ahead, Scanning
<1>5. /\ \A v \in Workers \ {w} : PcOK(v)'
      /\ \A v \in Pollers \ {w} : AheadOK(v)' /\ (Ahead(v)' <=> Ahead(v))
      /\ \A v \in Workers \ {w} : Holds(v)' =>
            /\ Holds(v) /\ proc'[v].old = proc[v].old
            /\ proc'[v].blk = proc[v].blk /\ proc'[v].tab = proc[v].tab
  BY <1>1, <1>2, <1>3, OthersPc
<1>6. proc[w].old \in Nat /\ blk \in Nat /\ from_block \in Heights /\ Conf(w) = blk - proc[w].old
  BY Numbers DEF Conf
<1>7. ASSUME NEW b \in Int, Claimed(b)' PROVE Claimed(b) \/ (Conf(w) > 0 /\ b <= blk)
  <2>1. b <= 0 => Claimed(b)
    BY <1>6 DEF Claimed, Heights
  <2>2. w \in Pollers /\ b <= cached[w] => Claimed(b) \/ (Conf(w) > 0 /\ b <= blk)
    BY <1>2 DEF Scanned, AheadOK, Ahead, Claimed
  <2> QED BY <1>1, <1>3, <1>5, <1>7, <2>1, <2>2, IdleType DEF Claimed
<1>8. ASSUME NEW b \in Heights, Known(b)' PROVE Known(b)
  <2>1. ~ (b <= 0)
    BY DEF Heights
  <2> QED BY <1>1, <1>2, <1>3, <1>8, <2>1, IdleType DEF Known
<1>9. SentOK' /\ KnownOK'
  BY <1>1, <1>8 DEF Scanned, SentOK, KnownOK
<1>10. \A o \in Outputs : mined[o] \in Int
  BY Numbers
<1>11. ASSUME NEW o \in Ours PROVE DoneOK(o)'
  <2> SUFFICES ASSUME mined[o] > 0, mined[o] \notin skipped, Claimed(mined[o])'
               PROVE  rows'[o] > 0 /\ in_block'[o] = mined[o]
    BY <1>1 DEF DoneOK
  <2>1. mined[o] \in Int
    BY <1>10 DEF Outputs
  <2>2. CASE Claimed(mined[o])
    <3>1. rows[o] > 0 /\ in_block[o] = mined[o]
      BY <2>2 DEF Scanned, DoneOK
    <3>2. o \in DOMAIN tab /\ tab[o] <= blk => mined[o] = tab[o]
      BY <1>2, <2>2 DEF Scanned, GivenOK
    <3>3. rows'[o] > 0 /\ (in_block'[o] = in_block[o]
                           \/ (o \in DOMAIN tab /\ tab[o] <= blk /\ in_block'[o] = tab[o]))
      BY <3>1, RecordIs
    <3> QED BY <3>1, <3>2, <3>3
  <2>3. CASE ~ Claimed(mined[o])
    <3>1. Conf(w) > 0 /\ mined[o] <= blk
      BY <1>1, <1>7, <2>1, <2>3
    <3>2. proc[w].old < mined[o]
      BY <1>6, <2>1, <2>3 DEF Claimed
    <3>3. o \in DOMAIN tab /\ tab[o] = mined[o]
      BY <1>2, <3>1, <3>2 DEF Scanned, WindowOK
    <3> QED BY <3>1, <3>3, RecordIs
  <2> QED BY <2>2, <2>3
<1>12. ASSUME NEW v \in Workers PROVE WindowOK(v)' /\ GivenOK(v)'
  <2>1. CASE ~ Holds(v)'
    BY <2>1 DEF WindowOK, GivenOK
  <2>2. CASE Holds(v)'
    <3>1. v # w /\ Holds(v) /\ proc'[v] = proc[v]
      BY <1>3, <1>4, <1>5, <2>2
    <3>2. WindowOK(v)'
      BY <1>1, <3>1 DEF Scanned, WindowOK
    <3>3. GivenOK(v)'
      <4> SUFFICES ASSUME NEW o \in DOMAIN proc[v].tab, proc[v].tab[o] <= proc[v].blk
                   PROVE  /\ Conf(v) > 0
                          /\ \/ mined[o] = proc[v].tab[o] \/ mined[o] \in skipped \cup {0}
                             \/ mined[o] > proc[v].blk /\ ~ Claimed(mined[o])'
        BY <1>1, <3>1 DEF GivenOK, Conf
      <4>1. /\ Conf(v) > 0
            /\ \/ mined[o] = proc[v].tab[o] \/ mined[o] \in skipped \cup {0}
               \/ mined[o] > proc[v].blk /\ ~ Claimed(mined[o])
        BY <3>1 DEF Scanned, GivenOK
      <4>2. writer = v
        BY <3>1, <4>1 DEF IInv, WorkerInv, Scanning, Holds
      <4>3. ~ (Conf(w) > 0)
        BY <1>2, <3>1, <4>2 DEF WorkerInv
      <4>4. mined[o] \in Int
        BY Numbers
      <4> QED BY <1>1, <1>7, <4>1, <4>3, <4>4
    <3> QED BY <3>2, <3>3
  <2> QED BY <2>1, <2>2
<1>13. (\A v \in Workers : PcOK(v)') /\ (\A v \in Pollers : AheadOK(v)')
  BY <1>4, <1>5 DEF AheadOK
<1> QED BY <1>9, <1>11, <1>12, <1>13 DEF Scanned

\* The chain moves.  What is newly in a block is above every height that was
\* heard of, and what is in none any more is not counted.
LEMMA ChainScans ==
    ASSUME IInv, Scanned, NewBlock \/ Disconnect \/ \E o \in Ours : Send(o)
    PROVE  Scanned'
<1>1. /\ UNCHANGED <<from_block, rows, in_block, proc, cached>>
      /\ skipped \subseteq skipped' /\ sent \subseteq sent'
  BY DEF NewBlock, Disconnect, Send, tables
<1>2. /\ tip \in Nat /\ MaxBlock \in Nat /\ from_block \in Heights
      /\ \A o \in Outputs : mined[o] \in 0 .. MaxBlock /\ mined[o] <= tip
  BY Numbers DEF Heights
<1>3. \A b : (Known(b)' <=> Known(b)) /\ (Claimed(b)' <=> Claimed(b))
  BY <1>1 DEF Known, Claimed, Ahead, Scanning, Conf
<1>4. ASSUME NEW o \in Outputs
      PROVE  /\ mined'[o] > 0 => o \in sent'
             /\ \/ mined'[o] = mined[o] \/ mined'[o] = 0
                \/ mined'[o] = tip + 1 /\ tip + 1 <= MaxBlock
  <2>1. CASE NewBlock
    <3>1. PICK M : mined' = [x \in Outputs |-> IF x \in M THEN tip + 1 ELSE mined[x]]
                   /\ sent' = sent \cup M /\ tip < MaxBlock
      BY <2>1 DEF NewBlock
    <3> QED BY <1>2, <3>1 DEF Scanned, SentOK
  <2>2. CASE Disconnect
    BY <1>2, <2>2 DEF Disconnect, Scanned, SentOK
  <2>3. CASE \E x \in Ours : Send(x)
    BY <2>3 DEF Send, Scanned, SentOK
  <2> QED BY <2>1, <2>2, <2>3
<1>5. SentOK'
  BY <1>4 DEF SentOK
<1>6. KnownOK'
  <2> SUFFICES ASSUME NEW b \in Heights, tip' < b, Known(b) PROVE b \in skipped'
    BY <1>3 DEF KnownOK
  <2>1. CASE tip' >= tip
    <3>1. tip' \in Int /\ tip < b
      BY <1>2, <2>1 DEF NewBlock, Disconnect, Send, Heights
    <3> QED BY <1>1, <3>1 DEF Scanned, KnownOK
  <2>2. CASE ~ (tip' >= tip)
    <3>1. Disconnect
      BY <1>2, <2>2 DEF NewBlock, Send
    <3>2. tip' = tip - 1 /\ (b = tip \/ tip < b)
      BY <1>2, <3>1 DEF Disconnect, Heights
    <3>3. CASE b = tip
      <4>1. \/ from_block >= tip \/ \E p \in Pollers : cached[p] >= tip
            \/ \E v \in Workers : proc[v].blk >= tip
        <5>1. \A p \in Pollers : cached[p] \in Nat
          BY Numbers DEF Heights
        <5>2. \A v \in Workers : proc[v].blk \in Nat
          BY Numbers
        <5> QED BY <1>2, <3>3, <5>1, <5>2 DEF Known, Heights
      <4> QED BY <3>1, <3>3, <4>1 DEF Disconnect
    <3>4. CASE tip < b
      BY <1>1, <3>4 DEF Scanned, KnownOK
    <3> QED BY <3>2, <3>3, <3>4
  <2> QED BY <2>1, <2>2
<1>7. Known(tip + 1) /\ tip + 1 <= MaxBlock => tip + 1 \in skipped'
  BY <1>1, <1>2 DEF Scanned, KnownOK, Heights
<1>8. Claimed(tip + 1) => Known(tip + 1)
  BY <1>2, ClaimedKnown
<1>9. ASSUME NEW o \in Ours PROVE DoneOK(o)'
  BY <1>1, <1>3, <1>4, <1>7, <1>8 DEF Scanned, DoneOK, Outputs
<1>10. ASSUME NEW w \in Workers PROVE WindowOK(w)' /\ GivenOK(w)' /\ PcOK(w)'
  <2>1. (Holds(w)' <=> Holds(w)) /\ Conf(w)' = Conf(w) /\ PcOK(w)'
    BY <1>1 DEF Scanned, Holds, Conf, PcOK
  <2>2. tip + 1 <= proc[w].blk => Known(tip + 1)
    BY DEF Known
  <2>3. proc[w].old \in Nat /\ proc[w].blk \in Nat
    BY Numbers
  <2>4. WindowOK(w)'
    BY <1>1, <1>4, <1>7, <2>1, <2>2, <2>3 DEF Scanned, WindowOK, Outputs
  <2>5. GivenOK(w)'
    <3> SUFFICES ASSUME Holds(w), NEW o \in DOMAIN proc[w].tab, proc[w].tab[o] <= proc[w].blk
                 PROVE  /\ Conf(w) > 0
                        /\ \/ mined'[o] = proc[w].tab[o] \/ mined'[o] \in skipped' \cup {0}
                           \/ mined'[o] > proc[w].blk /\ ~ Claimed(mined'[o])
      BY <1>1, <1>3, <2>1 DEF GivenOK
    <3>1. /\ Conf(w) > 0
          /\ \/ mined[o] = proc[w].tab[o] \/ mined[o] \in skipped \cup {0}
             \/ mined[o] > proc[w].blk /\ ~ Claimed(mined[o])
      BY DEF Scanned, GivenOK
    <3>2. o \in Outputs
      BY Numbers
    <3>3. CASE mined'[o] \in {mined[o], 0}
      BY <1>1, <3>1, <3>3
    <3>4. CASE mined'[o] = tip + 1 /\ tip + 1 <= MaxBlock
      <4>1. CASE Known(tip + 1)
        BY <1>7, <3>1, <3>4, <4>1
      <4>2. CASE ~ Known(tip + 1)
        BY <1>2, <1>8, <2>2, <2>3, <3>1, <3>4, <4>2
      <4> QED BY <4>1, <4>2
    <3> QED BY <1>4, <3>2, <3>3, <3>4
  <2> QED BY <2>1, <2>4, <2>5
<1>11. ASSUME NEW p \in Pollers PROVE AheadOK(p)'
  BY <1>1 DEF Scanned, AheadOK, Ahead, Scanning, Conf
<1> QED BY <1>5, <1>6, <1>9, <1>10, <1>11 DEF Scanned

LEMMA InitScanned == ASSUME Init PROVE Scanned
<1>1. MaxBlock \in Nat \ {0} /\ Pollers \subseteq Workers
  BY WorkersAssumption DEF WorkersAssumption, Workers
<1>2. /\ tip = 1 /\ from_block = 1 /\ \A p \in Pollers : cached[p] = 1
      /\ \A w \in Workers : proc[w] = Idle
      /\ \A o \in Outputs : mined[o] = 0
  BY DEF Init
<1>3. \A w \in Workers : WindowOK(w) /\ GivenOK(w) /\ PcOK(w) /\ ~ Ahead(w)
  BY <1>2, IdleType DEF WindowOK, GivenOK, PcOK, Holds, Ahead, Scanning
<1>4. KnownOK
  BY <1>2, IdleType DEF KnownOK, Known, Heights
<1>5. SentOK /\ \A o \in Ours : DoneOK(o)
  BY <1>2 DEF SentOK, DoneOK, Outputs
<1> QED BY <1>1, <1>3, <1>4, <1>5 DEF Scanned, AheadOK

LEMMA NextScanned == ASSUME IInv, Scanned, [Next]_vars PROVE Scanned'
<1>1. ASSUME NEW w \in Workers, Step(w) \/ ListFails(w) \/ Crash(w) PROVE Scanned'
  BY <1>1, StartScans, BeginScans, ListScans, LookScans, RecordScans, ListFailsScans,
     CrashScans DEF Step
<1>2. CASE UNCHANGED vars
  BY <1>2 DEF Scanned, SentOK, KnownOK, DoneOK, WindowOK, GivenOK, PcOK, AheadOK, Ahead,
              Holds, Known, Claimed, Scanning, Conf, vars, chainVars, tables
<1> QED BY <1>1, <1>2, RefreshScans, ChainScans DEF Next

\* What a block below from_block pays to a bill is recorded with its block,
\* for any number of loops and requests, wherever they die and whatever row of
\* xcurrs they start from, but for blocks whose scan the wallet disturbed.
THEOREM WhatIsScannedIsRecorded == Spec => []ScannedUnlessSkipped
<1>1. Init => Scanned
  BY InitScanned
<1>2. IInv /\ Scanned /\ [Next]_vars => Scanned'
  BY NextScanned
<1>3. Scanned => ScannedUnlessSkipped
  BY DEF Scanned, DoneOK, Claimed, ScannedUnlessSkipped
<1> QED BY <1>1, <1>2, <1>3, LockIsKept, PTL DEF Spec

-----------------------------------------------------------------------------
(* What is returned.                                                        *)

\* serv_blocks runs one loop.
OnePoller == \A p, q \in Pollers : p = q

\* As long as no scan was disturbed, a worker lists what is in its blocks and
\* brings from_block up, and a payment that was returned is below all that the
\* loop may scan.
ListOK(w) ==
    Holds(w) =>
        /\ \A o \in DOMAIN proc[w].tab : proc[w].tab[o] <= proc[w].blk =>
               mined[o] = proc[w].tab[o] /\ mined[o] > proc[w].old
        /\ Conf(w) > 0 => from_block <= proc[w].blk
ReturnOK(s) ==
    returns[s] > 0 =>
        /\ returns[s] = 1 /\ mined[s] > 0 /\ mined[s] <= from_block
        /\ \A p \in Pollers : /\ mined[s] <= cached[p]
                              /\ proc[p].pc # "idle" => mined[s] <= proc[p].old
Returned == (\A w \in Workers : ListOK(w)) /\ \A s \in Strays : ReturnOK(s)
ReturnsOK == skipped = {} => Returned

\* What is skipped stays so.
LEMMA SkippedGrows == ASSUME [Next]_vars PROVE skipped \subseteq skipped'
BY DEF Next, Step, Start, Begin, List, ListFails, Lists, Look, Record, Crash, Refresh, Send,
       NewBlock, Disconnect, vars

\* A worker has not got the list yet, or still has the one it had.
SameList(w) ==
    Holds(w)' => /\ Holds(w) /\ proc'[w].old = proc[w].old
                 /\ proc'[w].blk = proc[w].blk /\ proc'[w].tab = proc[w].tab

LEMMA ListKept ==
    ASSUME NEW w \in Workers, ListOK(w), UNCHANGED <<mined, from_block>>, SameList(w)
    PROVE  ListOK(w)'
BY DEF ListOK, SameList, Conf

\* The row of a poller goes back to from_block or up to the tip, and it scans
\* what it scanned or what is above its row.
SamePoller(p) ==
    /\ \/ cached'[p] \in {cached[p], from_block}
       \/ proc[p].pc # "idle" /\ cached'[p] = proc[p].blk
    /\ proc'[p].pc # "idle" =>
           \/ proc[p].pc # "idle" /\ proc'[p].old = proc[p].old
           \/ proc'[p].old = cached[p]

\* Steps that return nothing and leave the blocks alone.
LEMMA NoneReturned ==
    ASSUME IInv, Returned, UNCHANGED <<mined, returns, from_block>>,
           \A w \in Workers : SameList(w) \/ ListOK(w)',
           \A p \in Pollers : SamePoller(p)
    PROVE  Returned'
<1>1. \A w \in Workers : ListOK(w)'
  BY ListKept DEF Returned
<1>2. ASSUME NEW s \in Strays PROVE ReturnOK(s)'
  <2> SUFFICES ASSUME returns[s] > 0
               PROVE  /\ returns[s] = 1 /\ mined[s] > 0 /\ mined[s] <= from_block
                      /\ \A p \in Pollers :
                            /\ mined[s] <= cached'[p]
                            /\ proc'[p].pc # "idle" => mined[s] <= proc'[p].old
    BY DEF ReturnOK
  <2>1. /\ returns[s] = 1 /\ mined[s] > 0 /\ mined[s] <= from_block
        /\ \A p \in Pollers : /\ mined[s] <= cached[p]
                              /\ proc[p].pc # "idle" => mined[s] <= proc[p].old
    BY DEF Returned, ReturnOK
  <2>2. mined[s] \in Int
    BY Numbers DEF Outputs
  <2>3. ASSUME NEW p \in Pollers PROVE mined[s] <= cached'[p]
    <3>1. CASE cached'[p] \in {cached[p], from_block}
      BY <2>1, <3>1
    <3>2. CASE proc[p].pc # "idle" /\ cached'[p] = proc[p].blk
      <4>1. mined[s] <= proc[p].old
        BY <2>1, <3>2
      <4>2. proc[p].old \in Nat /\ proc[p].blk \in Nat /\ proc[p].old <= proc[p].blk
        BY Numbers
      <4> QED BY <2>2, <3>2, <4>1, <4>2
    <3> QED BY <3>1, <3>2 DEF SamePoller
  <2>4. ASSUME NEW p \in Pollers, proc'[p].pc # "idle" PROVE mined[s] <= proc'[p].old
    BY <2>1, <2>4 DEF SamePoller
  <2> QED BY <2>1, <2>3, <2>4
<1> QED BY <1>1, <1>2 DEF Returned

LEMMA StepReturns ==
    ASSUME IInv, IInv', Scanned, Returned, NEW w \in Workers,
           Start(w) \/ Begin(w) \/ Look(w) \/ Crash(w)
    PROVE  Returned'
<1>1. UNCHANGED <<mined, returns, from_block>>
  BY DEF Start, Begin, Look, Crash, chainVars, tables
<1>2. /\ proc \in [Workers -> Procs] /\ cached \in [Pollers -> Heights] /\ Pollers \subseteq Workers
      /\ \A p \in Pollers : cached'[p] \in Heights /\ cached[p] \in Heights
  BY Numbers DEF IInv, Types
<1>3. \A v \in Workers \ {w} : proc'[v] = proc[v]
  BY <1>2 DEF Start, Begin, Look, Crash
<1>4. \A v \in Workers \ {w} : SameList(v)
  BY <1>3 DEF SameList, Holds
<1>5. CASE Start(w)
  <2>1. UNCHANGED <<cached>> /\ proc[w].pc = "idle"
    BY <1>5 DEF Start
  <2>2. \/ proc'[w] = proc[w]
        \/ /\ proc'[w].pc \in {"list", "begin"}
           /\ w \in Pollers => proc'[w].old = cached[w]
    BY <1>2, <1>5 DEF Start, Procs
  <2>3. SameList(w)
    BY <2>1, <2>2 DEF SameList, Holds
  <2>4. \A p \in Pollers : SamePoller(p)
    BY <1>2, <1>3, <2>1, <2>2 DEF SamePoller
  <2>5. \A v \in Workers : SameList(v)
    BY <1>4, <2>3
  <2> QED BY <1>1, <2>4, <2>5, NoneReturned
<1>6. CASE Begin(w)
  <2>1. /\ proc'[w].pc = "list" /\ proc[w].pc = "begin" /\ proc'[w].old = proc[w].old
        /\ \A v \in Pollers \ {w} : cached'[v] = cached[v]
        /\ w \in Pollers => cached'[w] = proc[w].blk
    BY <1>2, <1>6 DEF Begin, Procs
  <2>2. SameList(w)
    BY <2>1 DEF SameList, Holds
  <2>3. \A p \in Pollers : SamePoller(p)
    BY <1>2, <1>3, <2>1 DEF SamePoller
  <2>4. \A v \in Workers : SameList(v)
    BY <1>4, <2>2
  <2> QED BY <1>1, <2>3, <2>4, NoneReturned
<1>7. CASE Look(w)
  <2>1. /\ proc[w].pc = "look" /\ cached' = cached
        /\ proc'[w].pc = "record" /\ proc'[w].old = proc[w].old /\ proc'[w].blk = proc[w].blk
        /\ proc'[w].tab = proc[w].tab
    BY <1>2, <1>7 DEF Look, Procs
  <2>2. SameList(w)
    BY <2>1 DEF SameList, Holds
  <2>3. \A p \in Pollers : SamePoller(p)
    BY <1>2, <1>3, <2>1 DEF SamePoller
  <2>4. \A v \in Workers : SameList(v)
    BY <1>4, <2>2
  <2> QED BY <1>1, <2>3, <2>4, NoneReturned
<1>8. CASE Crash(w)
  <2>1. /\ proc'[w].pc = "idle"
        /\ \A v \in Pollers \ {w} : cached'[v] = cached[v]
        /\ w \in Pollers => cached'[w] = from_block
    BY <1>2, <1>8, IdleType DEF Crash
  <2>2. SameList(w)
    BY <2>1 DEF SameList, Holds
  <2>3. \A p \in Pollers : SamePoller(p)
    BY <1>2, <1>3, <2>1 DEF SamePoller
  <2>4. \A v \in Workers : SameList(v)
    BY <1>4, <2>2
  <2> QED BY <1>1, <2>3, <2>4, NoneReturned
<1> QED BY <1>5, <1>6, <1>7, <1>8

LEMMA RefreshReturns ==
    ASSUME IInv, Returned, NEW w \in Pollers, Refresh(w)
    PROVE  Returned'
<1>1. UNCHANGED <<mined, returns, from_block, proc>>
  BY DEF Refresh, chainVars, tables
<1>2. cached \in [Pollers -> Heights]
  BY DEF IInv, Types
<1>3. cached'[w] = from_block /\ \A v \in Pollers \ {w} : cached'[v] = cached[v]
  BY <1>2 DEF Refresh
<1>4. \A v \in Workers : SameList(v)
  BY <1>1 DEF SameList, Holds
<1>5. \A p \in Pollers : SamePoller(p)
  BY <1>1, <1>3 DEF SamePoller
<1> QED BY <1>1, <1>4, <1>5, NoneReturned

LEMMA ListReturns ==
    ASSUME IInv, Scanned, Returned, skipped' = {}, NEW w \in Workers, List(w) \/ ListFails(w)
    PROVE  Returned'
<1>1. UNCHANGED <<tip, mined, returns, from_block, cached>>
  BY DEF List, ListFails, Lists, chainVars, tables
<1>2. proc[w].pc = "list" /\ proc \in [Workers -> Procs] /\ Pollers \subseteq Workers
  BY Numbers DEF List, ListFails, Lists, IInv, Types
<1>3. /\ proc'[w].old = proc[w].old /\ proc'[w].blk = proc[w].blk
      /\ \A v \in Workers \ {w} : proc'[v] = proc[v]
  BY <1>2 DEF List, ListFails, Lists, Procs
<1>4. \A v \in Workers \ {w} : SameList(v)
  BY <1>3 DEF SameList, Holds
<1>5. proc[w].old \in Nat /\ proc[w].blk \in Nat /\ proc[w].old <= proc[w].blk
      /\ Conf(w) = proc[w].blk - proc[w].old /\ Conf(w)' = Conf(w)
      /\ tip \in Nat /\ MaxBlock \in Nat /\ from_block \in Heights
  BY <1>3, Numbers DEF Conf, Heights
<1>6. tip = proc[w].blk => from_block <= proc[w].blk
  <2>1. from_block > tip => from_block \in skipped
    BY <1>5 DEF Scanned, KnownOK, Known, Heights
  <2>2. skipped \subseteq skipped'
    BY DEF List, ListFails
  <2> QED BY <1>5, <2>1, <2>2 DEF Heights
<1>9. \A p \in Pollers : SamePoller(p)
  BY <1>1, <1>2, <1>3 DEF SamePoller
<1>7. CASE List(w)
  <2>1. Conf(w) > 0 => tip = proc[w].blk
    <3>1. ASSUME Conf(w) > 0, tip # proc[w].blk PROVE FALSE
      <4>1. skipped' = skipped \cup (proc[w].old + 1 .. proc[w].blk)
                               \cup ({mined[o] : o \in Listed(w)} \ {0})
        BY <1>5, <1>7, <3>1 DEF List, Disturbed
      <4>2. proc[w].old + 1 \in proc[w].old + 1 .. proc[w].blk
        BY <1>5, <3>1
      <4> QED BY <4>1, <4>2
    <3> QED BY <3>1
  <2>2. /\ \A o \in DOMAIN proc'[w].tab : proc'[w].tab[o] <= proc[w].blk => Conf(w) > 0
        /\ tip = proc[w].blk => \A o \in DOMAIN proc'[w].tab : proc'[w].tab[o] <= proc[w].blk =>
                                    proc'[w].tab[o] = mined[o] /\ mined[o] > proc[w].old
    BY <1>7, ListIs
  <2>3. ListOK(w)'
    BY <1>1, <1>3, <1>5, <1>6, <2>1, <2>2 DEF ListOK
  <2>4. \A v \in Workers : SameList(v) \/ ListOK(v)'
    BY <1>4, <2>3
  <2> QED BY <1>1, <1>9, <2>4, NoneReturned
<1>8. CASE ListFails(w)
  <2>1. skipped' = skipped \cup (proc[w].old + 1 .. proc[w].blk) /\ DOMAIN proc'[w].tab = {}
    BY <1>2, <1>8, IdleType DEF ListFails, Lists, Procs
  <2>2. ~ (Conf(w) > 0)
    <3>1. Conf(w) > 0 => proc[w].old + 1 \in proc[w].old + 1 .. proc[w].blk
      BY <1>5
    <3> QED BY <2>1, <3>1
  <2>3. ListOK(w)'
    BY <1>5, <2>1, <2>2 DEF ListOK
  <2>4. \A v \in Workers : SameList(v) \/ ListOK(v)'
    BY <1>4, <2>3
  <2> QED BY <1>1, <1>9, <2>4, NoneReturned
<1> QED BY <1>7, <1>8

\* The loop returns what is confirmed, and brings from_block and its row up to
\* where it has been.  A request brings from_block up, too.
LEMMA RecordReturns ==
    ASSUME OnePoller, IInv, Scanned, Returned, skipped = {}, NEW w \in Workers, Record(w)
    PROVE  Returned'
<1> DEFINE tab == proc[w].tab
           blk == proc[w].blk
           old == proc[w].old
           confirmed == {o \in DOMAIN tab : tab[o] <= blk}
<1>1. /\ UNCHANGED <<mined, cached>>
      /\ from_block' = IF Conf(w) > 0 THEN blk ELSE from_block
  BY DEF Record, chainVars
<1>2. proc[w].pc = "record" /\ proc \in [Workers -> Procs] /\ Pollers \subseteq Workers
      /\ WorkerInv(w) /\ Scanning(w) /\ Holds(w)
  BY Numbers DEF Record, IInv, Types, Scanning, Holds
<1>3. proc'[w].pc = "idle" /\ \A v \in Workers \ {w} : proc'[v] = proc[v]
  BY <1>2, IdleType DEF Record
<1>4. /\ returns \in [Strays -> Nat]
      /\ returns' = [s \in Strays |->
             returns[s] + IF s \in confirmed /\ w \in Pollers THEN 1 ELSE 0]
  BY DEF Record, IInv, Types
<1>5. old \in Nat /\ blk \in Nat /\ old <= blk /\ from_block \in Heights /\ Conf(w) = blk - old
  BY Numbers DEF Conf
<1>6. /\ \A o \in confirmed : Conf(w) > 0 /\ mined[o] = tab[o] /\ mined[o] > old /\ mined[o] <= blk
      /\ Conf(w) > 0 => from_block <= blk
  <2>1. \A o \in confirmed : Conf(w) > 0
    BY <1>2 DEF Scanned, GivenOK
  <2>2. \A o \in confirmed : mined[o] = tab[o] /\ mined[o] > old
    BY <1>2 DEF Returned, ListOK
  <2>3. \A o \in confirmed : mined[o] <= blk
    BY <2>2
  <2> QED BY <1>2, <2>1, <2>2, <2>3 DEF Returned, ListOK
<1> HIDE DEF tab, confirmed
<1>7. from_block' \in Int /\ from_block \in Int /\ from_block <= from_block'
  BY <1>1, <1>5, <1>6 DEF Heights
<1>8. ASSUME NEW v \in Workers PROVE ListOK(v)'
  <2>1. CASE v = w
    BY <1>3, <2>1 DEF ListOK, Holds
  <2>2. CASE v # w
    <3>1. proc'[v] = proc[v] /\ ListOK(v)
      BY <1>3, <2>2 DEF Returned
    <3>2. Holds(v) /\ Conf(v) > 0 => from_block' = from_block
      <4>1. Holds(v) /\ Conf(v) > 0 => writer = v
        BY DEF IInv, WorkerInv, Scanning, Holds
      <4>2. Conf(w) > 0 => writer = w
        BY <1>2 DEF WorkerInv
      <4> QED BY <1>1, <2>2, <4>1, <4>2
    <3> QED BY <1>1, <3>1, <3>2 DEF ListOK, Holds, Conf
  <2> QED BY <2>1, <2>2
<1>9. ASSUME NEW s \in Strays PROVE ReturnOK(s)'
  <2>0. mined[s] \in Int
    BY Numbers DEF Outputs
  <2>1. CASE s \in confirmed /\ w \in Pollers
    <3>1. Conf(w) > 0 /\ mined[s] > old /\ mined[s] <= blk
      BY <1>6, <2>1
    <3>2. ~ (returns[s] > 0)
      <4>1. returns[s] > 0 => mined[s] <= old
        BY <1>2, <2>1 DEF Returned, ReturnOK
      <4> QED BY <1>5, <2>0, <3>1, <4>1
    <3>3. returns'[s] = 1
      <4>1. returns[s] \in Nat /\ returns'[s] = returns[s] + 1
        BY <1>4, <2>1
      <4> QED BY <3>2, <4>1
    <3>4. cached[w] = blk
      BY <1>2, <2>1, <3>1 DEF Scanned, AheadOK, Ahead
    <3>5. \A p \in Pollers : p = w
      BY <2>1 DEF OnePoller
    <3> QED BY <1>1, <1>3, <1>5, <2>0, <3>1, <3>3, <3>4, <3>5 DEF ReturnOK
  <2>2. CASE ~ (s \in confirmed /\ w \in Pollers)
    <3>1. returns'[s] = returns[s]
      BY <1>4, <2>2
    <3>2. ReturnOK(s)
      BY DEF Returned
    <3>3. mined[s] <= from_block => mined[s] <= from_block'
      BY <1>7, <2>0
    <3> QED BY <1>1, <1>2, <1>3, <3>1, <3>2, <3>3 DEF ReturnOK
  <2> QED BY <2>1, <2>2
<1> QED BY <1>8, <1>9 DEF Returned

\* A block that was disconnected under no worker is above all that was listed
\* or returned.
LEMMA ChainReturns ==
    ASSUME IInv, Scanned, Returned, skipped' = {}, NewBlock \/ Disconnect \/ \E o \in Ours : Send(o)
    PROVE  Returned'
<1>1. UNCHANGED <<from_block, returns, proc, cached>>
  BY DEF NewBlock, Disconnect, Send, tables
<1>2. /\ tip \in Nat /\ MaxBlock \in Nat /\ from_block \in Heights
      /\ \A o \in Outputs : mined[o] \in 0 .. MaxBlock /\ mined[o] <= tip
  BY Numbers DEF Heights
<1>3. ASSUME NEW o \in Outputs, mined[o] > 0,
             mined[o] <= from_block \/ \E w \in Workers : mined[o] <= proc[w].blk
      PROVE  mined'[o] = mined[o]
  <2>1. CASE NewBlock
    BY <1>3, <2>1 DEF NewBlock
  <2>2. CASE Disconnect
    <3>1. mined[o] # tip
      <4>1. ~ (from_block >= tip) /\ \A w \in Workers : ~ (proc[w].blk >= tip)
        BY <2>2 DEF Disconnect
      <4>2. \A w \in Workers : proc[w].blk \in Nat
        BY Numbers
      <4> QED BY <1>2, <1>3, <4>1, <4>2 DEF Heights
    <3> QED BY <2>2, <3>1 DEF Disconnect
  <2>3. CASE \E x \in Ours : Send(x)
    BY <2>3 DEF Send
  <2> QED BY <2>1, <2>2, <2>3
<1>4. ASSUME NEW w \in Workers PROVE ListOK(w)'
  <2>1. (Holds(w)' <=> Holds(w)) /\ Conf(w)' = Conf(w) /\ ListOK(w)
    BY <1>1 DEF Returned, Holds, Conf
  <2>2. ASSUME Holds(w), NEW o \in DOMAIN proc[w].tab, proc[w].tab[o] <= proc[w].blk
        PROVE  mined'[o] = proc[w].tab[o] /\ mined'[o] > proc[w].old
    <3>1. mined[o] = proc[w].tab[o] /\ mined[o] > proc[w].old
      BY <2>1, <2>2 DEF ListOK
    <3>2. o \in Outputs /\ proc[w].old \in Nat /\ mined[o] \in Int
      BY Numbers
    <3>3. mined'[o] = mined[o]
      BY <1>3, <2>2, <3>1, <3>2
    <3> QED BY <3>1, <3>3
  <2> QED BY <1>1, <2>1, <2>2 DEF ListOK
<1>5. ASSUME NEW s \in Strays PROVE ReturnOK(s)'
  <2>1. ReturnOK(s)
    BY DEF Returned
  <2>2. returns[s] > 0 => mined'[s] = mined[s]
    BY <1>3, <2>1 DEF ReturnOK, Outputs
  <2> QED BY <1>1, <2>1, <2>2 DEF ReturnOK
<1> QED BY <1>4, <1>5 DEF Returned

LEMMA NextReturns ==
    ASSUME OnePoller, IInv, IInv', Scanned, ReturnsOK, [Next]_vars
    PROVE  ReturnsOK'
<1> SUFFICES ASSUME skipped' = {} PROVE Returned'
  BY DEF ReturnsOK
<1>1. skipped = {} /\ Returned
  BY SkippedGrows DEF ReturnsOK
<1>2. ASSUME NEW w \in Workers, Step(w) \/ ListFails(w) \/ Crash(w) PROVE Returned'
  BY <1>1, <1>2, StepReturns, ListReturns, RecordReturns DEF Step
<1>3. CASE UNCHANGED vars
  <2>1. \A w \in Workers : SameList(w)
    BY <1>3 DEF SameList, Holds, vars
  <2>2. \A p \in Pollers : SamePoller(p)
    BY <1>3 DEF SamePoller, vars
  <2> QED BY <1>1, <1>3, <2>1, <2>2, NoneReturned DEF vars, chainVars, tables
<1> QED BY <1>1, <1>2, <1>3, RefreshReturns, ChainReturns DEF Next

\* A payment that nobody expects is returned once by the one loop of
\* serv_blocks, whatever requests of the wallets move from_block meanwhile,
\* whatever stale row of xcurrs the loop starts from and wherever it dies, as
\* long as the wallet disturbed no scan.
THEOREM ReturnedOnce ==
    ASSUME OnePoller PROVE Spec => []ReturnedOnceUnlessSkipped
<1>1. Init => ReturnsOK
  BY IdleType DEF Init, ReturnsOK, Returned, ListOK, Holds, ReturnOK
<1>2. IInv /\ IInv' /\ Scanned /\ ReturnsOK /\ [Next]_vars => ReturnsOK'
  BY NextReturns
<1>3. Init => Scanned
  BY InitScanned
<1>4. IInv /\ Scanned /\ [Next]_vars => Scanned'
  BY NextScanned
<1>5. IInv /\ ReturnsOK => ReturnedOnceUnlessSkipped
  <2> SUFFICES ASSUME IInv, ReturnsOK, skipped = {}, NEW s \in Strays PROVE returns[s] <= 1
    BY DEF ReturnedOnceUnlessSkipped
  <2>1. returns[s] \in Nat /\ (returns[s] > 0 => returns[s] = 1)
    BY DEF ReturnsOK, Returned, ReturnOK, IInv, Types
  <2> QED BY <2>1
<1> QED BY <1>1, <1>2, <1>3, <1>4, <1>5, LockIsKept, PTL DEF Spec
=============================================================================
