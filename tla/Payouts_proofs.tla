-------------------------- MODULE Payouts_proofs ---------------------------
(***************************************************************************)
(* Theorems about Payouts, for any number of workers, rows and shops, any   *)
(* amounts, and any number of errors and crashes.                           *)
(***************************************************************************)
EXTENDS Payouts, Sums_proofs, TLAPS

Lists == UNION {[S -> Nat \ {0}] : S \in SUBSET Items}
Answers == UNION {[R -> {"found", "lost", "wrong", "none"}] : R \in SUBSET Refunds}
Procs == [pc : Steps, job : Jobs, list : Lists, answer : Answers]

Busy == {"fund", "send", "write"}

ProcOK(p) ==
    /\ p \in Procs
    /\ DOMAIN p.list \subseteq ItemsOf(p.job)
    /\ \A i \in DOMAIN p.list : p.list[i] \in Nat \ {0}
    /\ p.pc \in Busy <=> DOMAIN p.list # {}
    /\ DOMAIN p.answer # {} => p.pc = "fund" /\ p.job = "returns"

ProcsOK == proc \in [Workers -> Procs] /\ \A w \in Workers : ProcOK(proc[w])

TablesOK ==
    /\ rows \subseteq entered /\ entered \subseteq Rows
    /\ addr \in [Refunds -> {"none", "found", "wrong"}]
    /\ bal \in [Shops -> Int] /\ deposit \in Int /\ mem \in [Workers -> Int]
    /\ credited \in [Shops -> Nat] /\ sent \in [Items -> Nat]

SpentOK == spent \subseteq {w \in Workers : proc[w].pc = "send"}

Types == TablesOK /\ ProcsOK /\ SpentOK

Writing(w, i) == proc[w].pc = "write" /\ i \in DOMAIN proc[w].list

\* What a worker pays was owed, what it has sent counts as sent, and rows that are there while draws
\* are paid are being paid or came late.
RowInv(w) ==
    /\ DOMAIN proc[w].list \cap Rows \subseteq entered
    /\ proc[w].pc = "write" => \A i \in DOMAIN proc[w].list : sent[i] > 0
    /\ Paying(w, "draws") => rows \cap Draws \subseteq DOMAIN proc[w].list \cup late

\* A job in no trouble has one worker at a time.
Alone(job) == \A v, w \in Workers : Paying(v, job) /\ Paying(w, job) => v = w

\* What such a job has sent of a row, and of a shop.
RowOnce(i) ==
    /\ sent[i] <= 1
    /\ i \notin entered => sent[i] = 0
    /\ i \in rows => sent[i] = 0 \/ \E w \in Workers : Writing(w, i)
    /\ \A w \in Workers : proc[w].pc \in {"fund", "send"} /\ i \in DOMAIN proc[w].list =>
        sent[i] = 0 /\ proc[w].list[i] = 1

ShopOnce(s) ==
    /\ (\A w \in Workers : ~ Writing(w, s)) => bal[s] >= 0 /\ sent[s] + bal[s] = credited[s]
    /\ \A w \in Workers : s \in DOMAIN proc[w].list =>
        /\ proc[w].list[s] <= bal[s]
        /\ proc[w].pc = "write" => sent[s] + bal[s] = credited[s] + proc[w].list[s]

OnceInv ==
    \A job \in Jobs \ troubled :
        /\ Alone(job)
        /\ \A i \in ItemsOf(job) \cap Rows : RowOnce(i)
        /\ \A s \in ItemsOf(job) \cap Shops : ShopOnce(s)

\* The inductive invariant.
IInv == Types /\ RowsKept /\ (\A w \in Workers : RowInv(w)) /\ OnceInv

-----------------------------------------------------------------------------
(* The workers' variables.                                                  *)

\* A worker that pays nothing is well typed.
LEMMA RestIs ==
    ASSUME NEW pc \in Steps \ Busy
    PROVE  LET p == [Idle EXCEPT !.pc = pc] IN
           ProcOK(p) /\ p.pc = pc /\ DOMAIN p.list = {} /\ DOMAIN p.answer = {}
<1>1. Empty \in [{} -> Nat \ {0}] /\ Empty \in [{} -> {"found", "lost", "wrong", "none"}]
      /\ DOMAIN Empty = {}
  BY DEF Empty
<1>2. Empty \in Lists /\ Empty \in Answers
  BY <1>1 DEF Lists, Answers
<1>3. [Idle EXCEPT !.pc = pc] = [pc |-> pc, job |-> "returns", list |-> Empty, answer |-> Empty]
  BY DEF Idle
<1>4. "returns" \in Jobs
  BY DEF Jobs
<1> QED BY <1>1, <1>2, <1>3, <1>4 DEF ProcOK, Procs

\* So is one that goes on with the next job.
LEMMA GoOnIs ==
    ASSUME ProcsOK, NEW w \in Workers, NEW job \in Jobs
    PROVE  /\ GoOn(w, job) \in [Workers -> Procs]
           /\ \A v \in Workers : ProcOK(GoOn(w, job)[v])
           /\ \A v \in Workers \ {w} : GoOn(w, job)[v] = proc[v]
           /\ GoOn(w, job)[w].pc \notin Busy /\ DOMAIN GoOn(w, job)[w].list = {}
<1>1. After(job) \in Steps \ Busy
  BY DEF After, Jobs, Steps, Busy
<1> DEFINE p == [Idle EXCEPT !.pc = After(job)]
<1>2. ProcOK(p) /\ p.pc \notin Busy /\ DOMAIN p.list = {}
  BY <1>1, RestIs
<1>3. GoOn(w, job) = [proc EXCEPT ![w] = p]
  BY DEF GoOn
<1>4. p \in Procs
  BY <1>2 DEF ProcOK
<1> HIDE DEF p
<1> QED BY <1>2, <1>3, <1>4 DEF ProcsOK

\* A job that gathers something to pay is well typed; it is in trouble when
\* another worker is doing it.
LEMMA GatheredIs ==
    ASSUME ProcsOK, NEW w \in Workers, NEW job \in Jobs, NEW list \in Lists,
           NEW answer \in Answers, DOMAIN list \subseteq ItemsOf(job),
           DOMAIN answer # {} => job = "returns", Gathered(w, job, list, answer)
    PROVE  /\ ProcsOK'
           /\ \A v \in Workers \ {w} : proc'[v] = proc[v]
           /\ DOMAIN list = {} => proc'[w].pc \notin Busy /\ DOMAIN proc'[w].list = {}
           /\ DOMAIN list # {} => /\ proc'[w].pc = "fund" /\ proc'[w].job = job
                                  /\ proc'[w].list = list
<1>1. CASE DOMAIN list = {}
  <2>1. proc' = GoOn(w, job)
    BY <1>1 DEF Gathered
  <2> QED BY <1>1, <2>1, GoOnIs DEF ProcsOK
<1>2. CASE DOMAIN list # {}
  <2> DEFINE p == [pc |-> "fund", job |-> job, list |-> list, answer |-> answer]
  <2>1. proc' = [proc EXCEPT ![w] = p]
    BY <1>2 DEF Gathered
  <2>2. \A i \in DOMAIN list : list[i] \in Nat \ {0}
    BY DEF Lists
  <2>3. ProcOK(p) /\ p.pc = "fund" /\ p.job = job /\ p.list = list
    BY <1>2, <2>2 DEF ProcOK, Procs, Steps, Busy
  <2>4. p \in Procs
    BY <2>3 DEF ProcOK
  <2> HIDE DEF p
  <2> QED BY <1>2, <2>1, <2>3, <2>4 DEF ProcsOK
<1> QED BY <1>1, <1>2

\* Two jobs pay nothing in common.
LEMMA JobsDiffer ==
    /\ \A j \in Jobs : ItemsOf(j) \subseteq Items
    /\ \A j, k \in Jobs : j # k => ItemsOf(j) \cap ItemsOf(k) = {}
    /\ ItemsOf("returns") \subseteq Rows /\ ItemsOf("draws") \subseteq Rows
    /\ ItemsOf("shops") = Shops /\ Rows \cap Shops = {} /\ ItemsOf("draws") = Draws
    /\ ItemsOf("returns") = Refunds
<1>1. /\ ItemsOf("returns") = Refunds /\ ItemsOf("draws") = Draws /\ ItemsOf("shops") = Shops
  BY DEF ItemsOf
<1> QED BY <1>1, PayoutAssumption DEF PayoutAssumption, Jobs, Items, Rows

\* A worker with something on its list is paying it, as part of its job.
LEMMA HolderPays ==
    ASSUME ProcsOK, NEW w \in Workers, NEW i \in DOMAIN proc[w].list
    PROVE  /\ proc[w].pc \in Busy /\ Paying(w, proc[w].job)
           /\ proc[w].job \in Jobs /\ i \in ItemsOf(proc[w].job)
BY DEF ProcsOK, ProcOK, Procs, Busy, Paying

-----------------------------------------------------------------------------
(* What the kinds of steps preserve.                                        *)

Kept == RowsKept /\ (\A w \in Workers : RowInv(w)) /\ OnceInv

\* A step that sends and writes nothing: workers start, give up before they
\* have sent, or build a transaction; lost refunds are deleted.
LEMMA CalmStep ==
    ASSUME IInv, ProcsOK',
           \A v \in Workers :
               \/ proc'[v] = proc[v]
               \/ proc[v].pc # "write" /\ proc'[v].pc \notin Busy
               \/ /\ proc[v].pc = "fund" /\ proc'[v].pc = "send"
                  /\ proc'[v].job = proc[v].job /\ proc'[v].list = proc[v].list,
           sent' = sent, bal' = bal, credited' = credited, entered' = entered, late' = late,
           rows' \subseteq rows, rows \ rows' \subseteq dropped', dropped \subseteq dropped',
           troubled \subseteq troubled'
    PROVE  Kept'
<1>1. RowsKept'
  BY DEF IInv, RowsKept
<1>2. \A v \in Workers : DOMAIN proc'[v].list # {} =>
        /\ proc'[v].list = proc[v].list /\ proc'[v].job = proc[v].job
        /\ proc'[v].pc = "write" <=> proc[v].pc = "write"
        /\ proc'[v].pc \in Busy /\ proc[v].pc \in Busy
  BY DEF ProcsOK, ProcOK, Busy
<1>3. \A v \in Workers : proc'[v].pc \in Busy => DOMAIN proc'[v].list # {}
  BY DEF ProcsOK, ProcOK
<1>4. \A v \in Workers : \A job \in Jobs : Paying(v, job)' => Paying(v, job)
  BY <1>2, <1>3 DEF Paying, Busy
<1>5. \A v \in Workers : RowInv(v)'
  <2> TAKE v \in Workers
  <2>1. RowInv(v)
    BY DEF IInv
  <2> QED BY <1>2, <1>3, <2>1 DEF RowInv, Paying, Busy
<1>6. \A v \in Workers : \A i : Writing(v, i)' <=> Writing(v, i)
  BY DEF Writing, ProcsOK, ProcOK, Busy
<1>7. OnceInv'
  <2> SUFFICES ASSUME NEW job \in Jobs \ troubled'
               PROVE  /\ Alone(job)'
                      /\ \A i \in ItemsOf(job) \cap Rows : RowOnce(i)'
                      /\ \A s \in ItemsOf(job) \cap Shops : ShopOnce(s)'
    BY DEF OnceInv
  <2>1. /\ Alone(job)
        /\ \A i \in ItemsOf(job) \cap Rows : RowOnce(i)
        /\ \A s \in ItemsOf(job) \cap Shops : ShopOnce(s)
    BY DEF IInv, OnceInv
  <2>2. Alone(job)'
    BY <1>4, <2>1 DEF Alone
  <2>3. ASSUME NEW i \in ItemsOf(job) \cap Rows PROVE RowOnce(i)'
    BY <1>2, <1>6, <2>1 DEF RowOnce, Busy
  <2>4. ASSUME NEW s \in ItemsOf(job) \cap Shops PROVE ShopOnce(s)'
    BY <1>2, <1>6, <2>1 DEF ShopOnce
  <2> QED BY <2>2, <2>3, <2>4
<1> QED BY <1>1, <1>5, <1>7 DEF Kept

\* A job begins to pay what it has gathered.
LEMMA BeginStep ==
    ASSUME IInv, NEW w \in Workers, NEW job \in Jobs, proc[w].pc \notin Busy, ProcsOK',
           \A v \in Workers \ {w} : proc'[v] = proc[v],
           proc'[w].pc = "fund", proc'[w].job = job,
           job = "draws" => rows \cap Draws \subseteq DOMAIN proc'[w].list,
           \A i \in DOMAIN proc'[w].list \cap Rows : i \in rows /\ proc'[w].list[i] = 1,
           \A s \in DOMAIN proc'[w].list \cap Shops : proc'[w].list[s] = bal[s],
           troubled' = IF \E v \in Workers \ {w} : Paying(v, job) THEN troubled \cup {job}
                       ELSE troubled,
           UNCHANGED <<rows, sent, bal, credited, entered, late, dropped>>
    PROVE  Kept'
<1>1. RowsKept'
  BY DEF IInv, RowsKept
<1>2. \A v \in Workers : RowInv(v)'
  BY DEF IInv, RowInv, Paying, Busy, Types, TablesOK
<1>3. \A v \in Workers : \A i : Writing(v, i)' <=> Writing(v, i)
  BY DEF Writing, Busy
<1>4. OnceInv'
  <2> SUFFICES ASSUME NEW j \in Jobs \ troubled'
               PROVE  /\ Alone(j)'
                      /\ \A i \in ItemsOf(j) \cap Rows : RowOnce(i)'
                      /\ \A s \in ItemsOf(j) \cap Shops : ShopOnce(s)'
    BY DEF OnceInv
  <2>1. /\ Alone(j)
        /\ \A i \in ItemsOf(j) \cap Rows : RowOnce(i)
        /\ \A s \in ItemsOf(j) \cap Shops : ShopOnce(s)
    BY DEF IInv, OnceInv
  <2>2. j = job => \A v \in Workers \ {w} : ~ Paying(v, job)
    OBVIOUS
  <2>3. Alone(j)'
    BY <2>1, <2>2 DEF Alone, Paying, Busy
  <2>4. \A i \in ItemsOf(j) : i \in DOMAIN proc'[w].list =>
          \A v \in Workers : i \notin DOMAIN proc[v].list
    <3> SUFFICES ASSUME NEW i \in ItemsOf(j), i \in DOMAIN proc'[w].list,
                        NEW v \in Workers, i \in DOMAIN proc[v].list
                 PROVE  FALSE
      OBVIOUS
    <3>1. i \in ItemsOf(job)
      BY DEF ProcsOK, ProcOK
    <3>2. proc[v].pc \in Busy /\ Paying(v, proc[v].job) /\ proc[v].job \in Jobs
          /\ i \in ItemsOf(proc[v].job)
      BY HolderPays DEF IInv, Types
    <3> QED BY <2>2, <3>1, <3>2, JobsDiffer
  <2>5. ASSUME NEW i \in ItemsOf(j) \cap Rows PROVE RowOnce(i)'
    BY <1>3, <2>1, <2>4 DEF RowOnce, Writing
  <2>6. ASSUME NEW s \in ItemsOf(j) \cap Shops PROVE ShopOnce(s)'
    <3>1. bal[s] \in Int
      BY DEF IInv, Types, TablesOK
    <3> QED BY <1>3, <2>1, <2>4, <3>1 DEF ShopOnce, Writing
  <2> QED BY <2>3, <2>5, <2>6
<1> QED BY <1>1, <1>2, <1>4 DEF Kept

\* A job that wrote rows, or died writing: rows that are not there any more
\* were sent or came late.
LEMMA DoneStep ==
    ASSUME IInv, NEW w \in Workers, proc[w].pc = "write", ProcsOK',
           \A v \in Workers \ {w} : proc'[v] = proc[v], proc'[w].pc \notin Busy,
           rows' \subseteq rows, \A i \in rows \ rows' : i \in late \/ sent[i] > 0,
           \/ rows' \cap DOMAIN proc[w].list = {} /\ proc[w].job # "shops"
              /\ troubled' = troubled
           \/ troubled' = troubled \cup {proc[w].job},
           UNCHANGED <<sent, bal, credited, entered, late, dropped>>
    PROVE  Kept'
<1>1. RowsKept'
  BY DEF IInv, RowsKept
<1>3. DOMAIN proc'[w].list = {} /\ proc[w].job \in Jobs
  BY DEF ProcsOK, ProcOK, IInv, Types, Procs
<1>2. \A v \in Workers : RowInv(v)'
  BY <1>3 DEF IInv, RowInv, Paying, Busy
<1>4. OnceInv'
  <2> SUFFICES ASSUME NEW j \in Jobs \ troubled'
               PROVE  /\ Alone(j)'
                      /\ \A i \in ItemsOf(j) \cap Rows : RowOnce(i)'
                      /\ \A s \in ItemsOf(j) \cap Shops : ShopOnce(s)'
    BY DEF OnceInv
  <2>1. /\ Alone(j)
        /\ \A i \in ItemsOf(j) \cap Rows : RowOnce(i)
        /\ \A s \in ItemsOf(j) \cap Shops : ShopOnce(s)
    BY DEF IInv, OnceInv
  <2>2. Alone(j)'
    BY <2>1 DEF Alone, Paying, Busy
  <2>3. \A i \in ItemsOf(j) : i \in DOMAIN proc[w].list => i \notin rows' /\ i \in Rows
    <3> SUFFICES ASSUME NEW i \in ItemsOf(j), i \in DOMAIN proc[w].list
                 PROVE  i \notin rows' /\ i \in Rows
      OBVIOUS
    <3>1. proc[w].job = j
      BY HolderPays, JobsDiffer DEF IInv, Types
    <3> QED BY <3>1, JobsDiffer DEF Jobs
  <2>4. \A v \in Workers : \A i : v # w => (Writing(v, i)' <=> Writing(v, i))
    BY DEF Writing
  <2>5. ASSUME NEW i \in ItemsOf(j) \cap Rows PROVE RowOnce(i)'
    BY <1>3, <2>1, <2>3, <2>4 DEF RowOnce, Writing
  <2>6. ASSUME NEW s \in ItemsOf(j) \cap Shops PROVE ShopOnce(s)'
    <3>1. s \notin DOMAIN proc[w].list
      BY <2>3, JobsDiffer
    <3> QED BY <1>3, <2>1, <2>4, <3>1 DEF ShopOnce, Writing
  <2> QED BY <2>2, <2>5, <2>6
<1> QED BY <1>1, <1>2, <1>4 DEF Kept

\* Something new is owed: a row.
LEMMA EnterStep ==
    ASSUME IInv, NEW i \in Rows, Enter(i)
    PROVE  IInv'
<1>1. Types'
  BY DEF Enter, IInv, Types, TablesOK, ProcsOK, SpentOK
<1>2. RowsKept'
  BY DEF Enter, IInv, RowsKept
<1>3. \A v \in Workers : RowInv(v)'
  BY DEF Enter, IInv, RowInv, Paying
<1>4. OnceInv'
  <2> SUFFICES ASSUME NEW j \in Jobs \ troubled'
               PROVE  /\ Alone(j)'
                      /\ \A k \in ItemsOf(j) \cap Rows : RowOnce(k)'
                      /\ \A s \in ItemsOf(j) \cap Shops : ShopOnce(s)'
    BY DEF OnceInv
  <2>1. /\ Alone(j)
        /\ \A k \in ItemsOf(j) \cap Rows : RowOnce(k)
        /\ \A s \in ItemsOf(j) \cap Shops : ShopOnce(s)
    BY DEF IInv, OnceInv, Enter
  <2> QED BY <2>1 DEF Alone, RowOnce, ShopOnce, Paying, Writing, Enter
<1> QED BY <1>1, <1>2, <1>3, <1>4 DEF IInv

\* A bill brings something to a shop.
LEMMA CreditStep ==
    ASSUME IInv, NEW s \in Shops, NEW amo \in Nat,
           credited' = [credited EXCEPT ![s] = @ + amo], bal' = [bal EXCEPT ![s] = @ + amo],
           UNCHANGED <<rows, proc, entered, sent, dropped, late, troubled>>
    PROVE  Kept'
<1>1. RowsKept' /\ \A v \in Workers : RowInv(v)'
  BY DEF IInv, RowsKept, RowInv, Paying
<1>2. OnceInv'
  <2> SUFFICES ASSUME NEW j \in Jobs \ troubled'
               PROVE  /\ Alone(j)'
                      /\ \A k \in ItemsOf(j) \cap Rows : RowOnce(k)'
                      /\ \A t \in ItemsOf(j) \cap Shops : ShopOnce(t)'
    BY DEF OnceInv
  <2>1. /\ Alone(j)
        /\ \A k \in ItemsOf(j) \cap Rows : RowOnce(k)
        /\ \A t \in ItemsOf(j) \cap Shops : ShopOnce(t)
    BY DEF IInv, OnceInv
  <2>2. ASSUME NEW t \in ItemsOf(j) \cap Shops PROVE ShopOnce(t)'
    <3>1. bal[t] \in Int /\ credited[t] \in Nat /\ sent[t] \in Nat
      BY DEF IInv, Types, TablesOK, Items
    <3>2. \A w \in Workers : t \in DOMAIN proc[w].list => proc[w].list[t] \in Nat
      BY DEF IInv, Types, ProcsOK, ProcOK
    <3>3. /\ bal'[t] = IF t = s THEN bal[t] + amo ELSE bal[t]
          /\ credited'[t] = IF t = s THEN credited[t] + amo ELSE credited[t]
      BY DEF IInv, Types, TablesOK
    <3> QED BY <2>1, <3>1, <3>2, <3>3 DEF ShopOnce, Writing
  <2> QED BY <2>1, <2>2 DEF Alone, RowOnce, Paying, Writing
<1> QED BY <1>1, <1>2 DEF Kept

\* A worker sends what is on its list.
LEMMA SendStep ==
    ASSUME IInv, NEW w \in Workers, Send(w)
    PROVE  IInv'
<1> DEFINE list == proc[w].list
<1>1. /\ proc[w].pc = "send" /\ proc \in [Workers -> Procs] /\ ProcOK(proc[w])
      /\ sent \in [Items -> Nat] /\ DOMAIN list \subseteq Items
  BY JobsDiffer DEF Send, IInv, Types, TablesOK, ProcsOK, ProcOK, Procs
<1>2. /\ proc' = [proc EXCEPT ![w] = [proc[w] EXCEPT !.pc = "write"]]
      /\ \A v \in Workers \ {w} : proc'[v] = proc[v]
      /\ proc'[w].pc = "write" /\ proc'[w].list = list /\ proc'[w].job = proc[w].job
  BY <1>1 DEF Send, Procs
<1>3. /\ \A i \in Items : sent'[i] = sent[i] + IF i \in DOMAIN list THEN list[i] ELSE 0
      /\ \A i \in DOMAIN list : list[i] \in Nat \ {0}
      /\ sent' \in [Items -> Nat]
  BY <1>1 DEF Send, ProcOK
<1>4. Types'
  <2>1. ProcOK([proc[w] EXCEPT !.pc = "write"])
    BY <1>1 DEF ProcOK, Procs, Steps, Busy
  <2> DEFINE p == [proc[w] EXCEPT !.pc = "write"]
  <2>2. p \in Procs
    BY <2>1 DEF ProcOK
  <2> HIDE DEF p
  <2>3. ProcsOK'
    BY <1>1, <1>2, <2>1, <2>2 DEF ProcsOK, IInv, Types, p
  <2>4. TablesOK'
    BY <1>3 DEF TablesOK, Send, IInv, Types
  <2>5. SpentOK'
    BY <1>2 DEF SpentOK, Send, IInv, Types
  <2> QED BY <2>3, <2>4, <2>5 DEF Types
<1>5. RowsKept'
  <2> SUFFICES ASSUME NEW i \in entered \ rows PROVE i \in dropped \cup late \/ sent'[i] > 0
    BY DEF RowsKept, Send
  <2>1. i \in Items
    BY DEF IInv, Types, TablesOK, Items
  <2> QED BY <1>1, <1>3, <2>1 DEF IInv, RowsKept
<1>6. \A v \in Workers : RowInv(v)'
  <2> TAKE v \in Workers
  <2>1. RowInv(v) /\ \A i \in DOMAIN proc[v].list : i \in Items
    BY JobsDiffer DEF IInv, Types, ProcsOK, ProcOK, Procs
  <2>2. CASE v = w
    BY <1>1, <1>2, <1>3, <2>1, <2>2 DEF RowInv, Paying, Send
  <2>3. CASE v # w
    BY <1>1, <1>2, <1>3, <2>1, <2>3 DEF RowInv, Paying, Send
  <2> QED BY <2>2, <2>3
<1>7. OnceInv'
  <2> SUFFICES ASSUME NEW j \in Jobs \ troubled'
               PROVE  /\ Alone(j)'
                      /\ \A i \in ItemsOf(j) \cap Rows : RowOnce(i)'
                      /\ \A s \in ItemsOf(j) \cap Shops : ShopOnce(s)'
    BY DEF OnceInv
  <2>1. /\ Alone(j)
        /\ \A i \in ItemsOf(j) \cap Rows : RowOnce(i)
        /\ \A s \in ItemsOf(j) \cap Shops : ShopOnce(s)
    BY DEF IInv, OnceInv, Send
  <2>2. Alone(j)'
    BY <1>1, <1>2, <2>1 DEF Alone, Paying
  <2>3. \A i \in ItemsOf(j) : i \in DOMAIN list =>
          \A v \in Workers \ {w} : i \notin DOMAIN proc[v].list
    BY <2>1, HolderPays, JobsDiffer DEF Alone, IInv, Types
  <2>4. \A v \in Workers : DOMAIN proc'[v].list = DOMAIN proc[v].list
                           /\ proc'[v].list = proc[v].list
    BY <1>2
  <2>5. \A v \in Workers \ {w} : \A i : Writing(v, i)' <=> Writing(v, i)
    BY <1>2 DEF Writing
  <2>6. \A i : (Writing(w, i)' <=> i \in DOMAIN list) /\ ~ Writing(w, i)
    BY <1>1, <1>2 DEF Writing
  <2>7. \A i \in ItemsOf(j) : i \in Items
    BY JobsDiffer
  <2>8. ASSUME NEW i \in ItemsOf(j) \cap Rows PROVE RowOnce(i)'
    <3>1. RowOnce(i)
      BY <2>1
    <3>2. CASE i \in DOMAIN list
      <4>1. sent[i] = 0 /\ list[i] = 1 /\ i \in entered
        BY <1>1, <3>1, <3>2 DEF RowOnce, IInv, RowInv
      <4>2. sent'[i] = 1 /\ Writing(w, i)' /\ entered' = entered
        BY <1>3, <2>6, <2>7, <3>2, <4>1 DEF Send
      <4> QED BY <1>2, <2>3, <2>4, <3>2, <4>1, <4>2 DEF RowOnce
    <3>3. CASE i \notin DOMAIN list
      <4>1. sent'[i] = sent[i] /\ rows' = rows /\ entered' = entered
        BY <1>1, <1>3, <2>7, <3>3 DEF Send
      <4> QED BY <1>2, <2>4, <2>5, <2>6, <3>1, <3>3, <4>1 DEF RowOnce
    <3> QED BY <3>2, <3>3
  <2>9. ASSUME NEW s \in ItemsOf(j) \cap Shops PROVE ShopOnce(s)'
    <3>1. ShopOnce(s) /\ sent[s] \in Nat /\ bal[s] \in Int /\ credited[s] \in Nat
      BY <1>1, <2>1, <2>7 DEF IInv, Types, TablesOK
    <3>2. bal' = bal /\ credited' = credited
      BY DEF Send
    <3>3. CASE s \in DOMAIN list
      <4>1. \A v \in Workers : ~ Writing(v, s)
        BY <2>3, <2>6, <3>3 DEF Writing
      <4>2. sent[s] + bal[s] = credited[s] /\ list[s] <= bal[s] /\ list[s] \in Nat
        BY <1>3, <3>1, <3>3, <4>1 DEF ShopOnce
      <4>3. sent'[s] = sent[s] + list[s] /\ Writing(w, s)'
        BY <1>3, <2>6, <2>7, <3>3
      <4> QED BY <2>3, <2>4, <3>1, <3>2, <3>3, <4>2, <4>3 DEF ShopOnce
    <3>4. CASE s \notin DOMAIN list
      <4>1. sent'[s] = sent[s]
        BY <1>1, <1>3, <2>7, <3>4
      <4> QED BY <1>2, <2>4, <2>5, <2>6, <3>1, <3>2, <3>4, <4>1 DEF ShopOnce
    <3> QED BY <3>3, <3>4
  <2> QED BY <2>2, <2>8, <2>9
<1> QED BY <1>4, <1>5, <1>6, <1>7 DEF IInv

\* What has been sent to a shop is taken off its balance.
LEMMA WriteShopStep ==
    ASSUME IInv, NEW w \in Workers, NEW s \in Shops, WriteShop(w, s)
    PROVE  IInv'
<1> DEFINE list == proc[w].list
           rest == [t \in DOMAIN list \ {s} |-> list[t]]
           p == [proc[w] EXCEPT !.list = rest]
<1>1. /\ proc[w].pc = "write" /\ proc[w].job = "shops" /\ s \in DOMAIN list
      /\ ProcsOK /\ TablesOK /\ SpentOK /\ proc[w] \in Procs /\ "shops" \in Jobs
      /\ ProcOK(proc[w]) /\ list[s] \in Nat \ {0}
  BY DEF WriteShop, UpdateBal, IInv, Types, ProcsOK, ProcOK, Jobs
<1>2. /\ bal' = [bal EXCEPT ![s] = @ - list[s]] /\ deposit' = mem[w] - list[s]
      /\ mem' = [mem EXCEPT ![w] = @ - list[s]]
      /\ UNCHANGED <<rows, addr, spent, entered, credited, sent, dropped, late, troubled>>
  BY DEF WriteShop, UpdateBal
<1>3. /\ ProcsOK' /\ \A v \in Workers \ {w} : proc'[v] = proc[v]
      /\ DOMAIN proc'[w].list = DOMAIN list \ {s}
      /\ proc'[w].pc \in Busy => /\ proc'[w].pc = "write" /\ proc'[w].job = "shops"
                                 /\ \A t \in DOMAIN list \ {s} : proc'[w].list[t] = list[t]
  <2>1. CASE DOMAIN list = {s}
    <3>1. proc' = GoOn(w, "shops")
      BY <1>1, <2>1 DEF WriteShop, UpdateBal
    <3> QED BY <1>1, <2>1, <3>1, GoOnIs DEF ProcsOK
  <2>2. CASE DOMAIN list # {s}
    <3>1. proc' = [proc EXCEPT ![w] = p]
      BY <1>1, <2>2 DEF WriteShop, UpdateBal
    <3>2. rest \in [DOMAIN list \ {s} -> Nat \ {0}] /\ DOMAIN list \ {s} \in SUBSET Items
      BY <1>1, JobsDiffer DEF ProcOK
    <3>3. rest \in Lists /\ DOMAIN rest = DOMAIN list \ {s} /\ DOMAIN list \ {s} # {}
          /\ \A t \in DOMAIN rest : rest[t] = list[t]
      BY <1>1, <2>2, <3>2 DEF Lists
    <3> HIDE DEF rest
    <3>4. ProcOK(p) /\ p.pc = "write" /\ p.job = "shops" /\ p.list = rest
      BY <1>1, <3>3 DEF ProcOK, Procs, Busy
    <3>5. p \in Procs
      BY <3>4 DEF ProcOK
    <3> HIDE DEF p
    <3> QED BY <1>1, <3>1, <3>3, <3>4, <3>5 DEF ProcsOK
  <2> QED BY <2>1, <2>2
<1> HIDE DEF p, rest
<1>4. Types'
  <2>1. TablesOK'
    BY <1>1, <1>2 DEF TablesOK
  <2>2. SpentOK'
    BY <1>1, <1>2, <1>3 DEF SpentOK
  <2> QED BY <1>3, <2>1, <2>2 DEF Types
<1>5. RowsKept'
  BY <1>2 DEF IInv, RowsKept
<1>6. \A v \in Workers : RowInv(v)'
  <2> TAKE v \in Workers
  <2>1. RowInv(v)
    BY DEF IInv
  <2>2. CASE v = w
    BY <1>1, <1>2, <1>3, <2>1, <2>2 DEF RowInv, Paying, Busy
  <2>3. CASE v # w
    BY <1>2, <1>3, <2>1, <2>3 DEF RowInv, Paying
  <2> QED BY <2>2, <2>3
<1>7. OnceInv'
  <2> SUFFICES ASSUME NEW j \in Jobs \ troubled'
               PROVE  /\ Alone(j)'
                      /\ \A i \in ItemsOf(j) \cap Rows : RowOnce(i)'
                      /\ \A t \in ItemsOf(j) \cap Shops : ShopOnce(t)'
    BY DEF OnceInv
  <2>1. /\ Alone(j)
        /\ \A i \in ItemsOf(j) \cap Rows : RowOnce(i)
        /\ \A t \in ItemsOf(j) \cap Shops : ShopOnce(t)
    BY <1>2 DEF IInv, OnceInv
  <2>2. Alone(j)'
    BY <1>1, <1>3, <2>1 DEF Alone, Paying, Busy
  <2>3. \A v \in Workers : \A i : i # s => (Writing(v, i)' <=> Writing(v, i))
    BY <1>1, <1>3 DEF Writing, ProcsOK, ProcOK
  <2>4. \A v \in Workers : \A i \in Items : i # s /\ i \in DOMAIN proc'[v].list =>
          i \in DOMAIN proc[v].list /\ proc'[v].list[i] = proc[v].list[i]
          /\ proc'[v].pc = proc[v].pc
    BY <1>1, <1>3 DEF ProcsOK, ProcOK
  <2>5. ASSUME NEW i \in ItemsOf(j) \cap Rows PROVE RowOnce(i)'
    <3>1. i # s /\ i \in Items /\ RowOnce(i)
      BY <2>1, JobsDiffer
    <3> QED BY <1>2, <2>3, <2>4, <3>1 DEF RowOnce
  <2>6. ASSUME NEW t \in ItemsOf(j) \cap Shops PROVE ShopOnce(t)'
    <3>1. ShopOnce(t) /\ t \in Items /\ bal[t] \in Int /\ sent[t] \in Nat /\ credited[t] \in Nat
      BY <1>1, <2>1, JobsDiffer DEF TablesOK
    <3>2. CASE t = s
      <4>1. j = "shops"
        BY <1>1, <3>2, JobsDiffer
      <4>2. \A v \in Workers \ {w} : s \notin DOMAIN proc[v].list
        <5>1. Paying(w, "shops")
          BY <1>1 DEF Paying
        <5>2. \A v \in Workers : s \in DOMAIN proc[v].list => Paying(v, "shops")
          BY <1>1, HolderPays, JobsDiffer
        <5> QED BY <2>1, <4>1, <5>1, <5>2 DEF Alone
      <4>3. \A v \in Workers : s \notin DOMAIN proc'[v].list
        BY <1>3, <4>2
      <4>4. sent[s] + bal[s] = credited[s] + list[s] /\ list[s] <= bal[s]
        BY <1>1, <3>1, <3>2 DEF ShopOnce
      <4>5. bal'[s] = bal[s] - list[s]
        BY <1>1, <1>2 DEF TablesOK
      <4> QED BY <1>1, <1>2, <3>1, <3>2, <4>3, <4>4, <4>5 DEF ShopOnce
    <3>3. CASE t # s
      <4>1. bal'[t] = bal[t]
        BY <1>1, <1>2, <3>3 DEF TablesOK
      <4> QED BY <1>2, <2>3, <2>4, <3>1, <3>3, <4>1 DEF ShopOnce
    <3> QED BY <3>2, <3>3
  <2> QED BY <2>2, <2>5, <2>6
<1> QED BY <1>4, <1>5, <1>6, <1>7 DEF IInv

-----------------------------------------------------------------------------
(* The other actions.                                                       *)

\* What return_refused notes changes nothing but addresses and lost rows.
LEMMA NoteIs ==
    ASSUME TablesOK, NEW answer \in Answers, Note(answer)
    PROVE  /\ rows' \subseteq rows /\ rows \ rows' \subseteq dropped' /\ dropped \subseteq dropped'
           /\ addr' \in [Refunds -> {"none", "found", "wrong"}]
BY DEF TablesOK, Note

\* A worker starts.
LEMMA StartStep ==
    ASSUME IInv, NEW w \in Workers, Start(w)
    PROVE  IInv'
<1>1. PICK pc \in Steps \ Busy : proc' = [proc EXCEPT ![w] = [Idle EXCEPT !.pc = pc]]
  BY DEF Start, Steps, Busy
<1> DEFINE p == [Idle EXCEPT !.pc = pc]
<1>2. ProcOK(p) /\ p.pc = pc
  BY RestIs
<1>3. p \in Procs /\ proc[w].pc = "idle"
  BY <1>2 DEF ProcOK, Start
<1> HIDE DEF p
<1>4. proc' = [proc EXCEPT ![w] = p]
  BY <1>1 DEF p
<1>5. ProcsOK' /\ (\A v \in Workers \ {w} : proc'[v] = proc[v]) /\ proc'[w].pc \notin Busy
  BY <1>2, <1>3, <1>4 DEF IInv, Types, ProcsOK
<1>6. TablesOK' /\ SpentOK'
  BY <1>3, <1>5 DEF Start, IInv, Types, TablesOK, SpentOK, ghosts
<1>7. Kept'
  BY <1>3, <1>5, CalmStep DEF Start, ghosts
<1> QED BY <1>5, <1>6, <1>7 DEF IInv, Types, Kept

\* return_refused reads its rows.
LEMMA GatherReturnsStep ==
    ASSUME IInv, NEW w \in Workers, GatherReturns(w)
    PROVE  IInv'
<1> DEFINE table == rows \cap Refunds
           Known(answer) == {q \in table : answer[q] \in {"found", "wrong"}}
           Paid(answer) == [r \in Known(answer) |-> 1]
<1>1. PICK answer \in [table -> {"found", "lost", "wrong", "none"}] :
        /\ Gathered(w, "returns", Paid(answer), answer)
        /\ IF DOMAIN Paid(answer) = {} THEN Note(answer) ELSE UNCHANGED <<rows, addr, dropped>>
  BY DEF GatherReturns
<1>2. answer \in Answers
  BY DEF Answers
<1> DEFINE list == Paid(answer)
<1>3. /\ DOMAIN list \subseteq rows \cap Refunds /\ DOMAIN list \subseteq Items
      /\ \A i \in DOMAIN list : list[i] = 1
      /\ list \in [DOMAIN list -> Nat \ {0}]
  <2> DEFINE known == Known(answer)
  <2>1. known \subseteq rows \cap Refunds
    OBVIOUS
  <2>2. list = [r \in known |-> 1]
    OBVIOUS
  <2> HIDE DEF known, list
  <2> QED BY <2>1, <2>2 DEF Items, Rows
<1>4. list \in Lists
  BY <1>3 DEF Lists
<1> HIDE DEF list, Paid
<1>5. "returns" \in Jobs /\ DOMAIN list \subseteq ItemsOf("returns")
      /\ Gathered(w, "returns", list, answer)
  BY <1>1, <1>3, JobsDiffer DEF Jobs, list
<1>6. /\ ProcsOK'
      /\ \A v \in Workers \ {w} : proc'[v] = proc[v]
      /\ DOMAIN list = {} => proc'[w].pc \notin Busy
      /\ DOMAIN list # {} => proc'[w].pc = "fund" /\ proc'[w].job = "returns"
                             /\ proc'[w].list = list
  BY <1>2, <1>4, <1>5, GatheredIs DEF IInv, Types
<1>7. proc[w].pc = "orders"
      /\ UNCHANGED <<bal, deposit, mem, spent, entered, credited, sent, late>>
  BY DEF GatherReturns
<1>8. /\ rows' \subseteq rows /\ rows \ rows' \subseteq dropped' /\ dropped \subseteq dropped'
      /\ addr' \in [Refunds -> {"none", "found", "wrong"}]
  BY <1>1, <1>2, NoteIs DEF IInv, Types, TablesOK
<1>9. TablesOK' /\ SpentOK'
  BY <1>6, <1>7, <1>8 DEF IInv, Types, TablesOK, SpentOK
<1>10. troubled' = IF DOMAIN list # {} /\ \E v \in Workers \ {w} : Paying(v, "returns")
                   THEN troubled \cup {"returns"} ELSE troubled
  BY <1>5 DEF Gathered
<1>11. CASE DOMAIN list = {}
  <2>1. Kept'
    BY <1>6, <1>7, <1>8, <1>10, <1>11, CalmStep
  <2> QED BY <1>6, <1>9, <2>1 DEF IInv, Types, Kept
<1>12. CASE DOMAIN list # {}
  <2>1. UNCHANGED <<rows, dropped>>
    BY <1>1, <1>12 DEF list
  <2>2. Rows \cap Shops = {}
    BY JobsDiffer
  <2>3. \A s \in DOMAIN list \cap Shops : FALSE
    BY <1>3, <2>2 DEF Rows
  <2>4. Kept'
    <3>1. proc[w].pc \notin Busy /\ "returns" # "draws"
      BY <1>7 DEF Busy
    <3> QED BY <1>3, <1>5, <1>6, <1>7, <1>10, <1>12, <2>1, <2>3, <3>1, BeginStep
  <2> QED BY <1>6, <1>9, <2>4 DEF IInv, Types, Kept
<1> QED BY <1>11, <1>12

\* A job that reads what it owes and writes nothing.
LEMMA GatherStep ==
    ASSUME IInv, NEW w \in Workers, NEW job \in Jobs, NEW list \in Lists,
           proc[w].pc \notin Busy, DOMAIN list \subseteq ItemsOf(job),
           Gathered(w, job, list, Empty),
           job = "draws" => rows \cap Draws \subseteq DOMAIN list,
           \A i \in DOMAIN list \cap Rows : i \in rows /\ list[i] = 1,
           \A s \in DOMAIN list \cap Shops : list[s] = bal[s],
           UNCHANGED <<rows, addr, bal, deposit, mem, spent, entered, credited, sent,
                       dropped, late>>
    PROVE  IInv'
<1>1. Empty \in [{} -> {"found", "lost", "wrong", "none"}] /\ DOMAIN Empty = {}
  BY DEF Empty
<1>2. Empty \in Answers
  BY <1>1 DEF Answers
<1>3. /\ ProcsOK'
      /\ \A v \in Workers \ {w} : proc'[v] = proc[v]
      /\ DOMAIN list = {} => proc'[w].pc \notin Busy
      /\ DOMAIN list # {} => proc'[w].pc = "fund" /\ proc'[w].job = job /\ proc'[w].list = list
  BY <1>1, <1>2, GatheredIs DEF IInv, Types
<1>4. TablesOK' /\ SpentOK'
  BY <1>3 DEF IInv, Types, TablesOK, SpentOK, Busy
<1>5. troubled' = IF DOMAIN list # {} /\ \E v \in Workers \ {w} : Paying(v, job)
                  THEN troubled \cup {job} ELSE troubled
  BY DEF Gathered
<1>6. CASE DOMAIN list = {}
  <2>1. Kept'
    BY <1>3, <1>5, <1>6, CalmStep DEF Busy
  <2> QED BY <1>3, <1>4, <2>1 DEF IInv, Types, Kept
<1>7. CASE DOMAIN list # {}
  <2>1. Kept'
    BY <1>3, <1>5, <1>7, BeginStep
  <2> QED BY <1>3, <1>4, <2>1 DEF IInv, Types, Kept
<1> QED BY <1>6, <1>7

\* bills_withdraw reads its rows.
LEMMA GatherDrawsStep ==
    ASSUME IInv, NEW w \in Workers, GatherDraws(w)
    PROVE  IInv'
<1> DEFINE due == rows \cap Draws
           list == [d \in due |-> 1]
<1>1. list \in [due -> Nat \ {0}] /\ DOMAIN list = due /\ due \subseteq Items
      /\ \A d \in due : list[d] = 1
  BY DEF Items, Rows
<1>2. Gathered(w, "draws", list, Empty) /\ proc[w].pc = "draws"
      /\ UNCHANGED <<rows, addr, bal, deposit, mem, spent, entered, credited, sent,
                     dropped, late>>
  BY DEF GatherDraws
<1> HIDE DEF list
<1>3. list \in Lists
  BY <1>1 DEF Lists
<1>4. "draws" \in Jobs /\ proc[w].pc \notin Busy /\ due \subseteq ItemsOf("draws")
  BY <1>2, JobsDiffer DEF Jobs, Busy
<1>5. due \subseteq Rows /\ due \cap Shops = {}
  BY JobsDiffer DEF Rows
<1> QED BY <1>1, <1>2, <1>3, <1>4, <1>5, GatherStep

\* withdraw reads the balances.
LEMMA GatherShopsStep ==
    ASSUME IInv, NEW w \in Workers, GatherShops(w)
    PROVE  IInv'
<1>1. PICK S \in SUBSET {s \in Shops : bal[s] >= MinPay} :
        Gathered(w, "shops", [s \in S |-> bal[s]], Empty)
  BY DEF GatherShops
<1> DEFINE list == [s \in S |-> bal[s]]
<1>2. \A s \in S : bal[s] \in Nat \ {0}
  BY PayoutAssumption DEF PayoutAssumption, IInv, Types, TablesOK
<1>3. list \in [S -> Nat \ {0}] /\ DOMAIN list = S /\ S \subseteq Items
      /\ \A s \in S : list[s] = bal[s]
  BY <1>2 DEF Items
<1>4. Gathered(w, "shops", list, Empty)
  BY <1>1
<1> HIDE DEF list
<1>5. list \in Lists
  BY <1>3 DEF Lists
<1>6. "shops" \in Jobs /\ proc[w].pc \notin Busy /\ S \subseteq ItemsOf("shops")
      /\ S \cap Rows = {}
      /\ UNCHANGED <<rows, addr, bal, deposit, mem, spent, entered, credited, sent,
                     dropped, late>>
  BY JobsDiffer DEF GatherShops, Jobs, Busy
<1> QED BY <1>3, <1>4, <1>5, <1>6, GatherStep

\* send_to_many builds a transaction.
LEMMA FundStep ==
    ASSUME IInv, NEW w \in Workers, Fund(w)
    PROVE  IInv'
<1>1. /\ proc[w].pc = "fund" /\ proc[w] \in Procs /\ ProcOK(proc[w]) /\ Note(proc[w].answer)
      /\ proc[w].answer \in Answers /\ proc[w].job \in Jobs
  BY DEF Fund, IInv, Types, ProcsOK, Procs
<1>2. /\ rows' \subseteq rows /\ rows \ rows' \subseteq dropped' /\ dropped \subseteq dropped'
      /\ addr' \in [Refunds -> {"none", "found", "wrong"}]
  BY <1>1, NoteIs DEF IInv, Types
<1>3. ProcsOK' /\ (\A v \in Workers \ {w} : proc'[v] = proc[v])
      /\ \/ proc'[w].pc \notin Busy
         \/ proc'[w].pc = "send" /\ proc'[w].job = proc[w].job /\ proc'[w].list = proc[w].list
  <2>1. CASE \E r \in DOMAIN proc[w].answer : proc[w].answer[r] = "wrong"
    <3>1. proc' = GoOn(w, proc[w].job)
      BY <2>1 DEF Fund
    <3> QED BY <1>1, <3>1, GoOnIs DEF IInv, Types, ProcsOK
  <2>2. CASE ~ \E r \in DOMAIN proc[w].answer : proc[w].answer[r] = "wrong"
    <3> DEFINE p == [proc[w] EXCEPT !.pc = "send", !.answer = Empty]
    <3>1. proc' = [proc EXCEPT ![w] = p]
      BY <2>2 DEF Fund
    <3>2. Empty \in [{} -> {"found", "lost", "wrong", "none"}] /\ DOMAIN Empty = {}
      BY DEF Empty
    <3>3. Empty \in Answers
      BY <3>2 DEF Answers
    <3>4. ProcOK(p) /\ p.pc = "send" /\ p.job = proc[w].job /\ p.list = proc[w].list
      BY <1>1, <3>2, <3>3 DEF ProcOK, Procs, Busy, Steps
    <3>5. p \in Procs
      BY <3>4 DEF ProcOK
    <3> HIDE DEF p
    <3> QED BY <3>1, <3>4, <3>5 DEF IInv, Types, ProcsOK
  <2> QED BY <2>1, <2>2
<1>4. UNCHANGED <<bal, deposit, mem, spent, entered, credited, sent, late, troubled>>
  BY DEF Fund
<1>5. TablesOK' /\ SpentOK'
  BY <1>1, <1>2, <1>3, <1>4 DEF IInv, Types, TablesOK, SpentOK
<1>6. Kept'
  BY <1>1, <1>2, <1>3, <1>4, CalmStep
<1> QED BY <1>3, <1>5, <1>6 DEF IInv, Types, Kept

\* send_to_many fails, for spent inputs or otherwise.
LEMMA FailStep ==
    ASSUME IInv, NEW w \in Workers, SendSpent(w) \/ SendFails(w)
    PROVE  IInv'
<1>1. /\ proc[w].pc \in {"fund", "send"} /\ proc[w].job \in Jobs /\ proc[w].answer \in Answers
      /\ proc' = GoOn(w, proc[w].job) /\ spent' = spent \ {w}
      /\ UNCHANGED <<bal, deposit, mem, entered, credited, sent, late, troubled>>
  BY DEF SendSpent, SendFails, ghosts, IInv, Types, ProcsOK, Procs
<1>2. /\ rows' \subseteq rows /\ rows \ rows' \subseteq dropped' /\ dropped \subseteq dropped'
      /\ addr' \in [Refunds -> {"none", "found", "wrong"}]
  BY <1>1, NoteIs DEF IInv, Types, TablesOK, SendSpent, SendFails, ghosts
<1>3. ProcsOK' /\ (\A v \in Workers \ {w} : proc'[v] = proc[v]) /\ proc'[w].pc \notin Busy
  BY <1>1, GoOnIs DEF IInv, Types, ProcsOK
<1>4. TablesOK' /\ SpentOK'
  BY <1>1, <1>2, <1>3 DEF IInv, Types, TablesOK, SpentOK
<1>5. Kept'
  BY <1>1, <1>2, <1>3, CalmStep
<1> QED BY <1>3, <1>4, <1>5 DEF IInv, Types, Kept

\* return_refused and bills_withdraw delete their rows.
LEMMA WriteRowsStep ==
    ASSUME IInv, NEW w \in Workers, WriteReturns(w) \/ WriteDraws(w)
    PROVE  IInv'
<1>1. /\ proc[w].pc = "write" /\ proc[w].job \in {"returns", "draws"} /\ ProcOK(proc[w])
      /\ proc' = GoOn(w, proc[w].job)
      /\ UNCHANGED <<addr, bal, deposit, mem, spent, ghosts>>
  BY DEF WriteReturns, WriteDraws, IInv, Types, ProcsOK
<1>2. ProcsOK' /\ (\A v \in Workers \ {w} : proc'[v] = proc[v]) /\ proc'[w].pc \notin Busy
  BY <1>1, GoOnIs DEF IInv, Types, ProcsOK, Jobs
<1>3. RowInv(w)
  BY DEF IInv
<1>4. /\ rows' \subseteq rows /\ \A i \in rows \ rows' : i \in late \/ sent[i] > 0
      /\ rows' \cap DOMAIN proc[w].list = {}
  <2>1. CASE WriteReturns(w)
    BY <1>1, <1>3, <2>1 DEF WriteReturns, RowInv
  <2>2. CASE WriteDraws(w)
    <3>1. proc[w].job = "draws" /\ rows' = rows \ Draws /\ Paying(w, "draws")
      BY <2>2 DEF WriteDraws, Paying
    <3>2. DOMAIN proc[w].list \subseteq Draws
      BY <1>1, <3>1, JobsDiffer DEF ProcOK
    <3> QED BY <1>1, <1>3, <3>1, <3>2 DEF RowInv
  <2> QED BY <2>1, <2>2
<1>5. TablesOK' /\ SpentOK'
  BY <1>1, <1>2, <1>4 DEF IInv, Types, TablesOK, SpentOK, ghosts
<1>6. Kept'
  BY <1>1, <1>2, <1>4, DoneStep DEF ghosts
<1> QED BY <1>2, <1>5, <1>6 DEF IInv, Types, Kept

\* A worker dies, or return_refused raises.
LEMMA DieStep ==
    ASSUME IInv, NEW w \in Workers, Die(w)
    PROVE  IInv'
<1>1. ProcsOK' /\ (\A v \in Workers \ {w} : proc'[v] = proc[v]) /\ proc'[w].pc \notin Busy
  <2>1. CASE proc' = [proc EXCEPT ![w] = Idle]
    <3>1. [Idle EXCEPT !.pc = "idle"] = Idle /\ "idle" \in Steps \ Busy
      BY DEF Idle, Steps, Busy
    <3>2. ProcOK(Idle) /\ Idle.pc = "idle" /\ Idle \in Procs
      BY <3>1, RestIs DEF ProcOK
    <3> QED BY <2>1, <3>1, <3>2 DEF IInv, Types, ProcsOK
  <2>2. CASE proc' = GoOn(w, "returns")
    BY <2>2, GoOnIs DEF IInv, Types, ProcsOK, Jobs
  <2> QED BY <2>1, <2>2 DEF Die
<1>2. spent' = spent \ {w}
      /\ UNCHANGED <<rows, addr, bal, deposit, entered, credited, sent, dropped, late>>
  BY DEF Die
<1>3. mem' \in [Workers -> Int]
  BY DEF Die, IInv, Types, TablesOK
<1>4. TablesOK' /\ SpentOK'
  BY <1>1, <1>2, <1>3 DEF IInv, Types, TablesOK, SpentOK
<1>5. CASE proc[w].pc = "write"
  <2>1. troubled' = troubled \cup {proc[w].job}
    BY <1>5 DEF Die
  <2>2. Kept'
    BY <1>1, <1>2, <1>5, <2>1, DoneStep
  <2> QED BY <1>1, <1>4, <2>2 DEF IInv, Types, Kept
<1>6. CASE proc[w].pc # "write"
  <2>1. troubled' = troubled
    BY <1>6 DEF Die
  <2>2. Kept'
    BY <1>1, <1>2, <1>6, <2>1, CalmStep
  <2> QED BY <1>1, <1>4, <2>2 DEF IInv, Types, Kept
<1> QED BY <1>5, <1>6

\* A step that changes nothing the invariant speaks of, but what is in memory.
LEMMA IdleStep ==
    ASSUME IInv, mem' \in [Workers -> Int],
           UNCHANGED <<rows, addr, bal, deposit, proc, spent, entered, credited, sent,
                       dropped, late, troubled>>
    PROVE  IInv'
<1>1. ProcsOK' /\ TablesOK' /\ SpentOK'
  BY DEF IInv, Types, ProcsOK, TablesOK, SpentOK
<1>2. Kept'
  BY <1>1, CalmStep
<1> QED BY <1>1, <1>2 DEF IInv, Types, Kept

\* What bills bring, with the row of currs in the table or in memory.
LEMMA BillStep ==
    ASSUME IInv, NEW s \in Shops, NEW amo \in Credits,
           Credit(s, amo) \/ \E w \in Workers : Fill(w, s, amo)
    PROVE  IInv'
<1>1. amo \in Nat
  BY PayoutAssumption DEF PayoutAssumption
<1>2. /\ credited' = [credited EXCEPT ![s] = @ + amo] /\ bal' = [bal EXCEPT ![s] = @ + amo]
      /\ UNCHANGED <<rows, addr, proc, spent, entered, sent, dropped, late, troubled>>
  BY DEF Credit, Fill, UpdateBal
<1>3. deposit' \in Int /\ mem' \in [Workers -> Int]
  BY <1>1 DEF Credit, Fill, UpdateBal, IInv, Types, TablesOK
<1>4. Types'
  BY <1>1, <1>2, <1>3 DEF IInv, Types, TablesOK, ProcsOK, SpentOK
<1>5. Kept'
  BY <1>1, <1>2, CreditStep
<1> QED BY <1>4, <1>5 DEF IInv, Kept

-----------------------------------------------------------------------------
(* The invariant holds.                                                     *)

\* It holds before anything is owed.
LEMMA InitIInv == Init => IInv
<1> SUFFICES ASSUME Init PROVE IInv
  OBVIOUS
<1> DEFINE p == [Idle EXCEPT !.pc = "idle"]
<1>1. p = Idle /\ "idle" \in Steps \ Busy
  BY DEF Idle, Steps, Busy
<1>2. ProcOK(Idle) /\ Idle.pc = "idle" /\ DOMAIN Idle.list = {} /\ Idle \in Procs
  BY <1>1, RestIs DEF ProcOK
<1>3. proc = [w \in Workers |-> Idle] /\ \A w \in Workers : proc[w] = Idle
  BY DEF Init
<1>4. Types
  BY <1>2, <1>3 DEF Init, Types, TablesOK, ProcsOK, SpentOK
<1>5. RowsKept /\ \A w \in Workers : RowInv(w)
  BY <1>2, <1>3 DEF Init, RowsKept, RowInv, Paying
<1>6. OnceInv
  <2> SUFFICES ASSUME NEW j \in Jobs
               PROVE  /\ Alone(j)
                      /\ \A i \in ItemsOf(j) \cap Rows : RowOnce(i)
                      /\ \A s \in ItemsOf(j) \cap Shops : ShopOnce(s)
    BY DEF OnceInv
  <2>1. Alone(j)
    BY <1>2, <1>3 DEF Alone, Paying
  <2>2. \A i \in Items : sent[i] = 0
    BY DEF Init
  <2> QED BY <1>2, <1>3, <2>1, <2>2, JobsDiffer DEF RowOnce, ShopOnce, Writing, Init
<1> QED BY <1>4, <1>5, <1>6 DEF IInv

\* Every step keeps it.
LEMMA NextIInv == IInv /\ [Next]_vars => IInv'
<1> SUFFICES ASSUME IInv, [Next]_vars PROVE IInv'
  OBVIOUS
<1>0. mem \in [Workers -> Int] /\ Pollers \subseteq Workers /\ deposit \in Int
  BY DEF IInv, Types, TablesOK, Workers
<1>1. ASSUME NEW w \in Workers, Start(w) PROVE IInv'
  BY <1>1, StartStep
<1>2. ASSUME NEW w \in Workers, GatherReturns(w) PROVE IInv'
  BY <1>2, GatherReturnsStep
<1>3. ASSUME NEW w \in Workers, GatherDraws(w) PROVE IInv'
  BY <1>3, GatherDrawsStep
<1>4. ASSUME NEW w \in Workers, GatherShops(w) PROVE IInv'
  BY <1>4, GatherShopsStep
<1>5. ASSUME NEW w \in Workers, Fund(w) PROVE IInv'
  BY <1>5, FundStep
<1>6. ASSUME NEW w \in Workers, Send(w) PROVE IInv'
  BY <1>6, SendStep
<1>7. ASSUME NEW w \in Workers, SendSpent(w) \/ SendFails(w) PROVE IInv'
  BY <1>7, FailStep
<1>8. ASSUME NEW w \in Workers, WriteReturns(w) \/ WriteDraws(w) PROVE IInv'
  BY <1>8, WriteRowsStep
<1>9. ASSUME NEW w \in Workers, NEW s \in Shops, WriteShop(w, s) PROVE IInv'
  BY <1>9, WriteShopStep
<1>10. ASSUME NEW w \in Workers, Die(w) PROVE IInv'
  BY <1>10, DieStep
<1>11. ASSUME NEW w \in Pollers, Refresh(w) PROVE IInv'
  BY <1>0, <1>11, IdleStep DEF Refresh, ghosts
<1>12. ASSUME NEW s \in Shops, NEW amo \in Credits,
              Credit(s, amo) \/ \E w \in Workers : Fill(w, s, amo)
       PROVE  IInv'
  BY <1>12, BillStep
<1>13. ASSUME NEW i \in Rows, Enter(i) PROVE IInv'
  BY <1>13, EnterStep
<1>14. CASE UNCHANGED vars
  BY <1>0, <1>14, IdleStep DEF vars, ghosts
<1> QED BY <1>1, <1>2, <1>3, <1>4, <1>5, <1>6, <1>7, <1>8, <1>9, <1>10, <1>11, <1>12, <1>13,
           <1>14 DEF Next, Step

-----------------------------------------------------------------------------
(* What follows for every behaviour.                                        *)

\* The inductive invariant of the payouts.
THEOREM PayoutsInvariant == Spec => []IInv
BY InitIInv, NextIInv, PTL DEF Spec

\* What workers have in memory, in their lists and in the tables is what those
\* may hold; only a worker between choosing its inputs and sending can be late.
THEOREM PayoutTypes == Spec => []TypeOK
<1>1. IInv => TypeOK
  BY DEF IInv, Types, TablesOK, ProcsOK, ProcOK, Procs, SpentOK, TypeOK, Busy
<1> QED BY <1>1, PayoutsInvariant, PTL

\* No row of pay_ins_return or bills_draws is deleted without its payment, but
\* for the rows return_refused gives up and those bills_withdraw has not seen.
THEOREM RowsAreKept == Spec => []RowsKept
<1>1. IInv => RowsKept
  BY DEF IInv
<1> QED BY <1>1, PayoutsInvariant, PTL

\* Only a second worker at the same job, or a death between sending and
\* writing, can make return_refused, bills_withdraw or withdraw pay twice.
THEOREM SentOnce == Spec => []SentOnceUntroubled
<1>1. IInv => SentOnceUntroubled
  <2> SUFFICES ASSUME IInv, NEW job \in Jobs \ troubled, NEW i \in ItemsOf(job)
               PROVE  sent[i] <= IF i \in Shops THEN credited[i] ELSE 1
    BY DEF SentOnceUntroubled
  <2>1. /\ \A k \in ItemsOf(job) \cap Rows : RowOnce(k)
        /\ \A s \in ItemsOf(job) \cap Shops : ShopOnce(s)
    BY DEF IInv, OnceInv
  <2>2. CASE i \in Shops
    <3>1. ShopOnce(i) /\ bal[i] \in Int /\ sent[i] \in Nat /\ credited[i] \in Nat
      BY <2>1, <2>2 DEF IInv, Types, TablesOK, Items
    <3>2. \A w \in Workers : i \in DOMAIN proc[w].list => proc[w].list[i] \in Nat
      BY DEF IInv, Types, ProcsOK, ProcOK
    <3> QED BY <2>2, <3>1, <3>2 DEF ShopOnce, Writing
  <2>3. CASE i \notin Shops
    <3>1. i \in Rows
      BY <2>3, JobsDiffer DEF Items
    <3> QED BY <2>1, <2>3, <3>1 DEF RowOnce
  <2> QED BY <2>2, <2>3
<1> QED BY <1>1, PayoutsInvariant, PTL

-----------------------------------------------------------------------------
(* No shop loses.                                                           *)

\* What a worker has sent to a shop and not yet taken off its balance.
Debit(w, s) == IF Writing(w, s) THEN proc[w].list[s] ELSE 0

ToDebit(s) == SumFunctionOnSet([w \in Workers |-> Debit(w, s)], Workers)

\* What was sent covers the debits to come: each of them was sent first.
ShopInv(s) == credited[s] + ToDebit(s) <= bal[s] + sent[s]

\* A debit is a number of units.
LEMMA DebitType ==
    ASSUME ProcsOK, NEW w \in Workers, NEW s
    PROVE  Debit(w, s) \in Nat
BY DEF ProcsOK, ProcOK, Writing, Debit

\* The debits to come change by those of the worker that steps.
LEMMA DebitsMoved ==
    ASSUME ProcsOK, ProcsOK', NEW w \in Workers, NEW s,
           \A v \in Workers \ {w} : proc'[v] = proc[v]
    PROVE  /\ ToDebit(s) \in Nat
           /\ ToDebit(s)' = ToDebit(s) + (Debit(w, s)' - Debit(w, s))
<1>1. PICK f : f = [v \in Workers |-> Debit(v, s)]
  OBVIOUS
<1>2. PICK g : g = [v \in Workers |-> Debit(v, s)']
  OBVIOUS
<1>3. IsFiniteSet(Workers)
  BY PayoutAssumption DEF PayoutAssumption
<1>4. \A v \in Workers : f[v] \in Nat
  BY <1>1, DebitType
<1>5. \A v \in Workers : g[v] \in Nat
  BY <1>2 DEF ProcsOK, ProcOK, Writing, Debit
<1>6. IntOn(f, Workers) /\ IntOn(g, Workers)
  BY <1>4, <1>5 DEF IntOn
<1>7. \A v \in Workers \ {w} : f[v] = g[v]
  BY <1>1, <1>2 DEF Debit, Writing
<1>8. SumFunctionOnSet(g, Workers) = SumFunctionOnSet(f, Workers) + (g[w] - f[w])
  BY <1>3, <1>6, <1>7, SumAt
<1>9. SumFunctionOnSet(f, Workers) \in Nat
  BY <1>3, <1>4, SumNat
<1>10. /\ ToDebit(s) = SumFunctionOnSet(f, Workers)
       /\ ToDebit(s)' = SumFunctionOnSet(g, Workers)
       /\ f[w] = Debit(w, s) /\ g[w] = Debit(w, s)'
  BY <1>1, <1>2 DEF ToDebit
<1> QED BY <1>8, <1>9, <1>10

\* A worker steps: what it owes the balance grows by no more than what it sends.
LEMMA WorkerStep ==
    ASSUME IInv, IInv', NEW w \in Workers, NEW s \in Shops, ShopInv(s),
           \A v \in Workers \ {w} : proc'[v] = proc[v], credited' = credited,
           bal[s] + sent[s] + Debit(w, s)' <= bal'[s] + sent'[s] + Debit(w, s)
    PROVE  ShopInv(s)'
<1>1. ProcsOK /\ ProcsOK'
  BY DEF IInv, Types
<1>2. ToDebit(s) \in Nat /\ ToDebit(s)' = ToDebit(s) + (Debit(w, s)' - Debit(w, s))
  BY <1>1, DebitsMoved
<1>3. Debit(w, s) \in Nat
  BY <1>1, DebitType
<1>4. Debit(w, s)' \in Nat
  BY <1>1 DEF ProcsOK, ProcOK, Writing, Debit
<1>5. /\ bal[s] \in Int /\ sent[s] \in Int /\ credited[s] \in Int
      /\ bal'[s] \in Int /\ sent'[s] \in Int /\ credited'[s] = credited[s]
  BY DEF IInv, Types, TablesOK, Items
<1> QED BY <1>2, <1>3, <1>4, <1>5 DEF ShopInv

\* Most steps touch neither balances nor what was sent.
LEMMA StillStep ==
    ASSUME IInv, IInv', NEW w \in Workers, NEW s \in Shops, ShopInv(s),
           \A v \in Workers \ {w} : proc'[v] = proc[v],
           ~ Writing(w, s)', UNCHANGED <<bal, sent, credited>>
    PROVE  ShopInv(s)'
<1>1. Debit(w, s) \in Nat
  BY DebitType DEF IInv, Types
<1>2. Debit(w, s)' = 0
  BY DEF Debit
<1>3. bal[s] \in Int /\ sent[s] \in Int /\ bal'[s] = bal[s] /\ sent'[s] = sent[s]
  BY DEF IInv, Types, TablesOK, Items
<1>4. bal[s] + sent[s] + Debit(w, s)' <= bal'[s] + sent'[s] + Debit(w, s)
  BY <1>1, <1>2, <1>3
<1> QED BY <1>4, WorkerStep

\* What a job may go on with is no writing.
LEMMA GoesOn ==
    ASSUME IInv, NEW w \in Workers, NEW job \in Jobs, proc' = GoOn(w, job)
    PROVE  /\ \A v \in Workers \ {w} : proc'[v] = proc[v]
           /\ \A s : ~ Writing(w, s)'
BY GoOnIs DEF IInv, Types, Writing, Busy

\* Neither is what it gathers.
LEMMA GathersOn ==
    ASSUME IInv, NEW w \in Workers, NEW job \in Jobs, NEW list, NEW answer,
           Gathered(w, job, list, answer)
    PROVE  /\ \A v \in Workers \ {w} : proc'[v] = proc[v]
           /\ \A s : ~ Writing(w, s)'
<1>1. CASE proc' = GoOn(w, job)
  BY <1>1, GoesOn
<1>2. CASE proc' = [proc EXCEPT ![w] =
                       [pc |-> "fund", job |-> job, list |-> list, answer |-> answer]]
  BY <1>2 DEF IInv, Types, ProcsOK, Writing
<1> QED BY <1>1, <1>2 DEF Gathered

\* sendrawtransaction adds to what was sent what has to be debited.
LEMMA SendKeepsShop ==
    ASSUME IInv, IInv', NEW w \in Workers, Send(w), NEW s \in Shops, ShopInv(s)
    PROVE  ShopInv(s)'
<1>1. /\ proc' = [proc EXCEPT ![w].pc = "write"] /\ proc[w].pc = "send"
      /\ credited' = credited /\ bal' = bal
      /\ sent' = [i \in Items |->
             sent[i] + IF i \in DOMAIN proc[w].list THEN proc[w].list[i] ELSE 0]
  BY DEF Send
<1>2. proc[w] \in Procs /\ proc \in [Workers -> Procs] /\ ProcOK(proc[w])
  BY DEF IInv, Types, ProcsOK
<1>3. /\ proc'[w].pc = "write" /\ proc'[w].list = proc[w].list
      /\ \A v \in Workers \ {w} : proc'[v] = proc[v]
  BY <1>1, <1>2 DEF Procs
<1>4. Debit(w, s) = 0
  BY <1>1 DEF Debit, Writing
<1>5. sent'[s] = sent[s] + Debit(w, s)'
  BY <1>1, <1>3 DEF Debit, Writing, Items
<1>6. bal[s] \in Int /\ sent[s] \in Int /\ Debit(w, s)' \in Int
  <2>1. Debit(w, s)' \in Nat
    BY DEF IInv, Types, ProcsOK, ProcOK, Writing, Debit
  <2> QED BY <2>1 DEF IInv, Types, TablesOK, Items
<1>7. bal[s] + sent[s] + Debit(w, s)' <= bal'[s] + sent'[s] + Debit(w, s)
  BY <1>1, <1>4, <1>5, <1>6
<1> QED BY <1>1, <1>3, <1>7, WorkerStep

\* withdraw debits one shop with what was sent to it.
LEMMA WriteKeepsShop ==
    ASSUME IInv, IInv', NEW w \in Workers, NEW t \in Shops, WriteShop(w, t),
           NEW s \in Shops, ShopInv(s)
    PROVE  ShopInv(s)'
<1> DEFINE list == proc[w].list
           left == [u \in DOMAIN list \ {t} |-> list[u]]
<1>1. /\ proc[w].pc = "write" /\ proc[w].job = "shops" /\ t \in DOMAIN list
      /\ bal' = [bal EXCEPT ![t] = @ - list[t]]
      /\ UNCHANGED <<sent, credited>>
      /\ proc' = IF DOMAIN list = {t} THEN GoOn(w, "shops")
                 ELSE [proc EXCEPT ![w].list = left]
  BY DEF WriteShop, UpdateBal
<1>2. proc[w] \in Procs /\ proc \in [Workers -> Procs] /\ ProcOK(proc[w])
  BY DEF IInv, Types, ProcsOK
<1>3. list[t] \in Nat
  BY <1>1, <1>2 DEF ProcOK
<1>4. /\ \A v \in Workers \ {w} : proc'[v] = proc[v]
      /\ Debit(w, s)' = IF s = t THEN 0 ELSE Debit(w, s)
  <2>1. CASE DOMAIN list = {t}
    <3>1. proc' = GoOn(w, "shops") /\ "shops" \in Jobs
      BY <1>1, <2>1 DEF Jobs
    <3>2. s # t => Debit(w, s) = 0
      BY <2>1 DEF Debit, Writing
    <3>3. Debit(w, s)' = 0 /\ \A v \in Workers \ {w} : proc'[v] = proc[v]
      BY <3>1, GoesOn DEF Debit
    <3> QED BY <3>2, <3>3
  <2>2. CASE DOMAIN list # {t}
    <3>1. proc' = [proc EXCEPT ![w].list = left]
      BY <1>1, <2>2
    <3>2. DOMAIN left = DOMAIN list \ {t} /\ \A u \in DOMAIN list \ {t} : left[u] = list[u]
      OBVIOUS
    <3> HIDE DEF left, list
    <3>3. /\ proc'[w].list = left /\ proc'[w].pc = "write"
          /\ \A v \in Workers \ {w} : proc'[v] = proc[v]
      BY <1>1, <1>2, <3>1 DEF Procs
    <3> QED BY <1>1, <3>2, <3>3 DEF Debit, Writing, list
  <2> QED BY <2>1, <2>2
<1>5. s = t => Debit(w, s) = list[t]
  BY <1>1 DEF Debit, Writing
<1>6. bal[s] \in Int /\ sent[s] \in Int /\ sent'[s] = sent[s]
      /\ bal'[s] = IF s = t THEN bal[s] - list[t] ELSE bal[s]
  BY <1>1 DEF IInv, Types, TablesOK, Items
<1>7. Debit(w, s) \in Nat
  BY DebitType DEF IInv, Types
<1>8. bal[s] + sent[s] + Debit(w, s)' <= bal'[s] + sent'[s] + Debit(w, s)
  <2> HIDE DEF list
  <2> QED BY <1>3, <1>4, <1>5, <1>6, <1>7
<1> QED BY <1>1, <1>4, <1>8, WorkerStep

\* What a bill brings is on the balance at once.
LEMMA BillKeepsShop ==
    ASSUME IInv, NEW t \in Shops, NEW amo \in Credits,
           Credit(t, amo) \/ \E w \in Workers : Fill(w, t, amo),
           NEW s \in Shops, ShopInv(s)
    PROVE  ShopInv(s)'
<1>1. amo \in Nat
  BY PayoutAssumption DEF PayoutAssumption
<1>2. /\ credited' = [credited EXCEPT ![t] = @ + amo] /\ bal' = [bal EXCEPT ![t] = @ + amo]
      /\ UNCHANGED <<proc, sent>>
  BY DEF Credit, Fill, UpdateBal
<1>3. bal[s] \in Int /\ sent[s] \in Int /\ credited[s] \in Int
  BY DEF IInv, Types, TablesOK, Items
<1>4. /\ bal'[s] = bal[s] + (IF s = t THEN amo ELSE 0) /\ sent'[s] = sent[s]
      /\ credited'[s] = credited[s] + (IF s = t THEN amo ELSE 0)
  BY <1>2, <1>3 DEF IInv, Types, TablesOK
<1>5. ToDebit(s)' = ToDebit(s)
  BY <1>2 DEF ToDebit, Debit, Writing
<1>6. ToDebit(s) \in Int
  <2>1. PICK f : f = [v \in Workers |-> Debit(v, s)]
    OBVIOUS
  <2>2. IntOn(f, Workers) /\ IsFiniteSet(Workers)
    BY <2>1, DebitType, PayoutAssumption DEF IntOn, IInv, Types, PayoutAssumption
  <2>3. SumFunctionOnSet(f, Workers) \in Int
    BY <2>2, SumType
  <2> QED BY <2>1, <2>3 DEF ToDebit
<1> QED BY <1>1, <1>3, <1>4, <1>5, <1>6 DEF ShopInv

\* Every other step of a worker sends and debits nothing.
LEMMA OtherStep ==
    ASSUME IInv, NEW w \in Workers,
           \/ Start(w) \/ GatherReturns(w) \/ GatherDraws(w) \/ GatherShops(w) \/ Fund(w)
           \/ SendSpent(w) \/ SendFails(w) \/ WriteReturns(w) \/ WriteDraws(w) \/ Die(w)
    PROVE  /\ \A v \in Workers \ {w} : proc'[v] = proc[v]
           /\ \A s \in Shops : ~ Writing(w, s)'
           /\ UNCHANGED <<bal, sent, credited>>
<1>1. proc[w] \in Procs /\ proc \in [Workers -> Procs] /\ ProcOK(proc[w])
  BY DEF IInv, Types, ProcsOK
<1>2. Jobs = {"returns", "draws", "shops"} /\ proc[w].job \in Jobs
  BY <1>1 DEF Jobs, Procs
<1>3. UNCHANGED <<bal, sent, credited>>
  BY DEF Start, GatherReturns, GatherDraws, GatherShops, Fund, SendSpent, SendFails,
         WriteReturns, WriteDraws, Die, ghosts
<1>4. CASE \E pc \in {"idle", "orders", "draws"} : proc' = [proc EXCEPT ![w] = [Idle EXCEPT !.pc = pc]]
  BY <1>1, <1>3, <1>4 DEF Idle, Writing
<1>5. CASE proc' = [proc EXCEPT ![w] = Idle]
  BY <1>1, <1>3, <1>5 DEF Idle, Writing
<1>6. CASE \E job \in Jobs : proc' = GoOn(w, job)
  BY <1>3, <1>6, GoesOn
<1>7. CASE \E job \in Jobs : \E list, answer : Gathered(w, job, list, answer)
  BY <1>3, <1>7, GathersOn
<1>8. CASE proc' = [proc EXCEPT ![w].pc = "send", ![w].answer = Empty]
  BY <1>1, <1>3, <1>8 DEF Writing, Procs
<1>9. CASE Start(w)
  BY <1>3, <1>4, <1>9 DEF Start
<1>10. CASE GatherReturns(w)
  <2>1. \E list, answer : Gathered(w, "returns", list, answer)
    BY <1>10 DEF GatherReturns
  <2> QED BY <1>2, <1>7, <2>1
<1>11. CASE GatherDraws(w) \/ GatherShops(w)
  <2>1. \E job \in {"draws", "shops"} : \E list, answer : Gathered(w, job, list, answer)
    BY <1>11 DEF GatherDraws, GatherShops
  <2> QED BY <1>2, <1>7, <2>1
<1>12. CASE Fund(w)
  BY <1>2, <1>6, <1>8, <1>12 DEF Fund
<1>13. CASE SendSpent(w) \/ SendFails(w) \/ WriteReturns(w) \/ WriteDraws(w)
  BY <1>2, <1>6, <1>13 DEF SendSpent, SendFails, WriteReturns, WriteDraws
<1>14. CASE Die(w)
  BY <1>2, <1>5, <1>6, <1>14 DEF Die
<1> QED BY <1>9, <1>10, <1>11, <1>12, <1>13, <1>14

\* Every step keeps what the shops have.
LEMMA NextKeepsShops ==
    ASSUME IInv, IInv', [Next]_vars, NEW s \in Shops, ShopInv(s)
    PROVE  ShopInv(s)'
<1>1. ASSUME NEW w \in Workers,
             \/ Start(w) \/ GatherReturns(w) \/ GatherDraws(w) \/ GatherShops(w) \/ Fund(w)
             \/ SendSpent(w) \/ SendFails(w) \/ WriteReturns(w) \/ WriteDraws(w) \/ Die(w)
      PROVE  ShopInv(s)'
  BY <1>1, OtherStep, StillStep
<1>2. ASSUME NEW w \in Workers, Send(w) PROVE ShopInv(s)'
  BY <1>2, SendKeepsShop
<1>3. ASSUME NEW w \in Workers, NEW t \in Shops, WriteShop(w, t) PROVE ShopInv(s)'
  BY <1>3, WriteKeepsShop
<1>4. ASSUME NEW t \in Shops, NEW amo \in Credits,
             Credit(t, amo) \/ \E w \in Workers : Fill(w, t, amo)
      PROVE  ShopInv(s)'
  BY <1>4, BillKeepsShop
<1>5. CASE UNCHANGED <<proc, bal, sent, credited>>
  BY <1>5 DEF ShopInv, ToDebit, Debit, Writing
<1> QED BY <1>1, <1>2, <1>3, <1>4, <1>5
        DEF Next, Step, Refresh, Enter, ghosts, vars

\* Whatever run_once, the requests and crashes do in whatever order, what bills
\* brought to a shop is on its balance or was sent: withdraw debits no more
\* than what send_to_many took, also when two workers pay the same shop.
THEOREM NoShopLoses == Spec => []ShopsNeverLose
<1>1. Init => \A s \in Shops : ShopInv(s)
  <2> SUFFICES ASSUME Init, NEW s \in Shops PROVE ShopInv(s)
    OBVIOUS
  <2>1. \A w \in Workers : Debit(w, s) = 0
    BY DEF Init, Idle, Debit, Writing
  <2>2. PICK f : f = [w \in Workers |-> Debit(w, s)]
    OBVIOUS
  <2>3. (\A w \in Workers : f[w] = 0) /\ IsFiniteSet(Workers)
    BY <2>1, <2>2, PayoutAssumption DEF PayoutAssumption
  <2>4. SumFunctionOnSet(f, Workers) = 0
    BY <2>3, SumZero
  <2> QED BY <2>2, <2>4 DEF ShopInv, ToDebit, Init, Items
<1>2. IInv /\ IInv' /\ (\A s \in Shops : ShopInv(s)) /\ [Next]_vars =>
          (\A s \in Shops : ShopInv(s))'
  BY NextKeepsShops
<1>3. IInv /\ (\A s \in Shops : ShopInv(s)) => ShopsNeverLose
  <2> SUFFICES ASSUME IInv, \A s \in Shops : ShopInv(s), NEW s \in Shops
               PROVE  credited[s] <= bal[s] + sent[s]
    BY DEF ShopsNeverLose
  <2>1. PICK f : f = [v \in Workers |-> Debit(v, s)]
    OBVIOUS
  <2>2. (\A v \in Workers : f[v] \in Nat) /\ IsFiniteSet(Workers)
    BY <2>1, DebitType, PayoutAssumption DEF IInv, Types, PayoutAssumption
  <2>3. SumFunctionOnSet(f, Workers) \in Nat
    BY <2>2, SumNat
  <2>4. ToDebit(s) \in Nat
    BY <2>1, <2>3 DEF ToDebit
  <2>5. bal[s] \in Int /\ sent[s] \in Int /\ credited[s] \in Int
    BY DEF IInv, Types, TablesOK, Items
  <2> QED BY <2>4, <2>5 DEF ShopInv
<1> QED BY <1>1, <1>2, <1>3, PayoutsInvariant, PTL DEF Spec
=============================================================================
