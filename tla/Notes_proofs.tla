---------------------------- MODULE Notes_proofs ----------------------------
(***************************************************************************)
(* Theorems about Notes, for any bills and commands, any number of passes   *)
(* and any number of tries and of workers that die.                         *)
(***************************************************************************)
EXTENDS Notes, TLAPS

Held(w) == list[w] \cup called[w]

\* What a pass has in memory: a row it has read, which is called at most once.
HeldInv(w) ==
    /\ vanished[w] \subseteq Held(w)
    /\ list[w] \cap called[w] = {}
    /\ \A r \in Held(w) : mem[w][r] # Gone
    /\ \A r \in called[w] : mem[w][r] <= MaxTries /\ called[w] = {r}

\* A table, as a pass sees it or as a crash leaves it, loses no status: unless
\* tries were reset under a pass, no row counts more tries than there were calls.
KeepsRow(t, r) ==
    /\ \/ t[r] # Gone \/ calls[r] > MaxTries \/ r \in crossed \/ r \in reset
       \/ r \in NoUrl \/ r \notin untold
    /\ r \in reset \/ t[r] <= calls[r]

KeepsMem(w, r) ==
    r \in reset \/ r \in vanished[w] \/
        /\ r \in list[w] => mem[w][r] <= calls[r]
        /\ r \in called[w] => mem[w][r] + 1 <= calls[r]

ToldInv(r) ==
    /\ KeepsRow(row, r) /\ KeepsRow(Committed, r)
    /\ \A w \in Workers : KeepsMem(w, r)

\* A row that one worker has at most counts every call.
OnceMem(w, r) ==
    /\ r \in list[w] => calls[r] <= mem[w][r]
    /\ r \in called[w] => calls[r] <= mem[w][r] + 1
    /\ r \in vanished[w] => row[r] = Gone

OnceInv(r) ==
    r \in doubled \/
        /\ calls[r] <= MaxTries + 1
        /\ \A v, w \in Workers : r \in Held(v) /\ r \in Held(w) => v = w
        /\ \A w \in Workers : OnceMem(w, r)
        /\ row[r] # Gone /\ (\A w \in Workers : r \notin called[w]) => calls[r] <= row[r]

\* The inductive invariant.
IInv ==
    /\ TypeOK
    /\ \A w \in Workers : HeldInv(w)
    /\ \A r \in Refs : ToldInv(r) /\ OnceInv(r)

-----------------------------------------------------------------------------
(* What a step leaves as it is.                                             *)

\* The numbers that occur.
LEMMA Numbers ==
    /\ MaxTries \in Nat \ {0} /\ Gone = -1 /\ None \notin Workers
    /\ Tries = -1 .. (MaxTries + 1)
BY NoteAssumption DEF NoteAssumption, Gone, Tries

\* A pass holds the lock with its first write.
LEMMA LocksIs ==
    ASSUME NEW w \in Workers, Locks(w), TypeOK
    PROVE  /\ Committed' = Committed
           /\ lock' \in Workers \cup {None} /\ saved' \in [Refs -> Tries]
BY Numbers DEF Locks, Committed, TypeOK

\* A step that starts no call and in which a pass forgets rows at most, or
\* undoes what it has written.
LEMMA RestStep ==
    ASSUME IInv, calls' = calls, reset' = reset, doubled \subseteq doubled',
           row' \in {row, Committed}, Committed' \in {row, Committed},
           \A r \in Refs : r \in untold' \ crossed' => r \in untold \ crossed,
           \A r \in Refs : row'[r] = row[r] \/ r \in doubled',
           \A v \in Workers : \A r \in Refs :
               /\ r \in list'[v] => r \in list[v] /\ mem'[v][r] = mem[v][r]
               /\ r \in called'[v] => r \in called[v] /\ mem'[v][r] = mem[v][r]
               /\ r \in called[v] => r \in called'[v] \/ r \in doubled'
               /\ r \in vanished[v] /\ r \in Held(v)' => r \in vanished'[v]
               /\ r \in vanished'[v] => r \in vanished[v] \/ row[r] = Gone,
           NEW r \in Refs
    PROVE  ToldInv(r)' /\ OnceInv(r)'
<1>1. ToldInv(r)'
  <2>1. ToldInv(r)
    BY DEF IInv
  <2>2. KeepsRow(row, r)' /\ KeepsRow(Committed, r)'
    BY <2>1 DEF ToldInv, KeepsRow
  <2>3. ASSUME NEW w \in Workers PROVE KeepsMem(w, r)'
    BY <2>1 DEF ToldInv, KeepsMem, Held
  <2> QED BY <2>2, <2>3 DEF ToldInv
<1>2. OnceInv(r)'
  <2>1. OnceInv(r)
    BY DEF IInv
  <2> QED BY <2>1 DEF OnceInv, OnceMem, Held
<1> QED BY <1>1, <1>2

\* The rows other than the one a step is about.
LEMMA OtherRow ==
    ASSUME IInv, NEW x \in Refs, NEW r \in Refs \ {x},
           calls'[r] = calls[r], r \in reset' <=> r \in reset,
           r \in doubled => r \in doubled', r \in untold' \ crossed' => r \in untold \ crossed,
           row'[r] = row[r], Committed'[r] = Committed[r],
           \A v \in Workers :
               /\ r \in list'[v] <=> r \in list[v]
               /\ r \in called'[v] <=> r \in called[v]
               /\ r \in vanished'[v] <=> r \in vanished[v]
               /\ r \in Held(v) => mem'[v][r] = mem[v][r]
    PROVE  ToldInv(r)' /\ OnceInv(r)'
<1>1. ToldInv(r)'
  <2>1. ToldInv(r)
    BY DEF IInv
  <2>2. KeepsRow(row, r)' /\ KeepsRow(Committed, r)'
    BY <2>1 DEF ToldInv, KeepsRow
  <2>3. ASSUME NEW w \in Workers PROVE KeepsMem(w, r)'
    BY <2>1 DEF ToldInv, KeepsMem, Held
  <2> QED BY <2>2, <2>3 DEF ToldInv
<1>2. OnceInv(r)'
  <2>1. OnceInv(r)
    BY DEF IInv
  <2> QED BY <2>1 DEF OnceInv, OnceMem, Held
<1> QED BY <1>1, <1>2

-----------------------------------------------------------------------------
(* What there is to tell, and the requests of the shop.                     *)

\* A new status: the row is there, and what passes have in memory is marked.
LEMMA MakeNoteStep ==
    ASSUME IInv, NEW x \in Refs, MakeNote(x), lock = None, lock' = lock,
           UNCHANGED <<list, mem, called, vanished>>
    PROVE  \A r \in Refs : ToldInv(r)' /\ OnceInv(r)'
<1> USE Numbers
<1>1. Committed = row /\ Committed' = row'
  BY DEF Committed
<1>2. ASSUME NEW r \in Refs \ {x} PROVE ToldInv(r)' /\ OnceInv(r)'
  BY <1>1, <1>2, OtherRow DEF IInv, TypeOK, MakeNote, Held
<1>3. row'[x] = 0 /\ calls'[x] = 0
  BY DEF IInv, TypeOK, MakeNote
<1>4. ToldInv(x)'
  <2>1. ASSUME NEW w \in Workers PROVE KeepsMem(w, x)'
    BY DEF KeepsMem, MakeNote, Writers, Holders
  <2> QED BY <1>1, <1>3, <2>1 DEF ToldInv, KeepsRow
<1>5. OnceInv(x)'
  <2>1. OnceInv(x) /\ \A w \in Workers : HeldInv(w)
    BY DEF IInv
  <2>2. mem \in [Workers -> [Refs -> Tries]]
    BY DEF IInv, TypeOK
  <2>3. CASE Holders(x) = {}
    BY <1>3, <2>1, <2>3 DEF OnceInv, OnceMem, HeldInv, Held, Holders
  <2>4. CASE Holders(x) # {} /\ x \notin Live
    BY <2>4 DEF OnceInv, MakeNote
  <2>5. CASE Holders(x) # {} /\ x \in Live
    <3>1. doubled' = doubled
      BY <2>5 DEF MakeNote
    <3>2. ASSUME NEW w \in Workers, x \notin doubled PROVE OnceMem(w, x)'
      <4>1. x \in Held(w) => mem[w][x] >= 0
        BY <2>1, <2>2 DEF HeldInv
      <4>2. x \notin vanished[w]
        BY <2>1, <2>5, <3>2 DEF OnceInv, OnceMem, Live
      <4> QED BY <1>3, <2>2, <4>1, <4>2 DEF OnceMem, Held
    <3> QED BY <1>3, <2>1, <3>1, <3>2 DEF OnceInv, Held
  <2> QED BY <2>3, <2>4, <2>5
<1> QED BY <1>2, <1>4, <1>5

LEMMA MakeNoteType ==
    ASSUME TypeOK, NEW x \in Refs, MakeNote(x)
    PROVE  /\ row' \in [Refs -> Tries] /\ waited' \in [Refs -> 0 .. MaxTries]
           /\ untold' \subseteq Refs /\ crossed' \subseteq Refs
           /\ reset' \subseteq Refs /\ doubled' \subseteq Refs
           /\ calls' \in [Refs -> Nat]
BY Numbers DEF TypeOK, MakeNote

LEMMA StateNames == BillStates = {"NEW", "SOFT", "HARD", "CLOSED"}
                    /\ CmdStates = {None, "queued", "done"}
BY DEF BillStates, CmdStates, Statuses

\* The loop of serv_blocks, api_cmd.cmd, serv_cmds.proc, requests and the clock.
LEMMA SetStatusInv ==
    ASSUME IInv, NEW b \in Bills, NEW s \in BillStates, SetStatus(b, s) PROVE IInv'
<1> b \in Refs
  BY DEF Refs
<1>0. TypeOK
  BY DEF IInv
<1>1. \A w \in Workers : HeldInv(w)'
  BY DEF IInv, HeldInv, Held, SetStatus, passes
<1>2. CASE Muted(b, s)
  <2>1. TypeOK'
    BY <1>0, <1>2 DEF SetStatus, passes, TypeOK
  <2>2. ASSUME NEW r \in Refs PROVE ToldInv(r)' /\ OnceInv(r)'
    BY <1>2, RestStep DEF SetStatus, passes, Committed, Held
  <2> QED BY <1>1, <2>1, <2>2 DEF IInv
<1>3. CASE ~ Muted(b, s)
  <2>1. TypeOK'
    BY <1>0, <1>3, MakeNoteType DEF SetStatus, passes, TypeOK
  <2>2. \A r \in Refs : ToldInv(r)' /\ OnceInv(r)'
    BY <1>3, MakeNoteStep DEF SetStatus, passes
  <2> QED BY <1>1, <2>1, <2>2 DEF IInv
<1> QED BY <1>2, <1>3

LEMMA ProcCmdInv ==
    ASSUME IInv, NEW c \in Cmds, ProcCmd(c) PROVE IInv'
<1> c \in Refs
  BY DEF Refs
<1>0. TypeOK
  BY DEF IInv
<1>1. \A w \in Workers : HeldInv(w)'
  BY DEF IInv, HeldInv, Held, ProcCmd, passes
<1>2. TypeOK'
  BY <1>0, MakeNoteType, StateNames DEF ProcCmd, passes, TypeOK
<1>3. \A r \in Refs : ToldInv(r)' /\ OnceInv(r)'
  BY MakeNoteStep DEF ProcCmd, passes
<1> QED BY <1>1, <1>2, <1>3 DEF IInv

\* A step that no pass takes and that writes no row.
LEMMA AsideInv ==
    ASSUME IInv,
           \/ \E c \in Cmds : InsertCmd(c)
           \/ \E r \in Refs : Ask(r) \/ AnswerLocked(r) \/ Wait(r)
           \/ UNCHANGED vars
    PROVE  IInv'
<1>0. TypeOK
  BY DEF IInv
<1>1. UNCHANGED <<row, passes, lock, saved, calls, reset, doubled, faults>>
  BY DEF InsertCmd, Ask, AnswerLocked, Wait, vars, tables, ghosts
<1>2. untold' \subseteq untold /\ crossed' \subseteq Refs
      /\ untold' \ crossed' \subseteq untold \ crossed
  BY <1>0 DEF TypeOK, InsertCmd, Ask, AnswerLocked, Told, Wait, vars, tables, ghosts
<1>3. /\ state' \in [Refs -> BillStates \cup CmdStates]
      /\ waited' \in [Refs -> 0 .. MaxTries]
      /\ asking' \in [Refs -> BillStates \cup CmdStates]
  <2>1. /\ state \in [Refs -> BillStates \cup CmdStates]
        /\ waited \in [Refs -> 0 .. MaxTries]
        /\ asking \in [Refs -> BillStates \cup CmdStates]
    BY <1>0 DEF TypeOK
  <2>2. ASSUME NEW c \in Cmds, InsertCmd(c) PROVE <1>3
    BY <2>1, <2>2, StateNames DEF InsertCmd
  <2>3. ASSUME NEW r \in Refs, Ask(r) PROVE <1>3
    BY <2>1, <2>3 DEF Ask, tables
  <2>4. ASSUME NEW r \in Refs, AnswerLocked(r) PROVE <1>3
    BY <2>1, <2>4, StateNames DEF AnswerLocked, tables
  <2>5. ASSUME NEW r \in Refs, Wait(r) PROVE <1>3
    BY <2>1, <2>5, Numbers DEF Wait
  <2>6. CASE UNCHANGED vars
    BY <2>1, <2>6 DEF vars, tables
  <2> QED BY <2>2, <2>3, <2>4, <2>5, <2>6
<1>4. TypeOK'
  BY <1>0, <1>1, <1>2, <1>3 DEF TypeOK, passes
<1>5. \A w \in Workers : HeldInv(w)'
  BY <1>1 DEF IInv, HeldInv, Held, passes
<1>6. ASSUME NEW r \in Refs PROVE ToldInv(r)' /\ OnceInv(r)'
  BY <1>1, <1>2, RestStep DEF passes, Committed, Held
<1> QED BY <1>4, <1>5, <1>6 DEF IInv

\* A request deletes the row of what it answers.
LEMMA AnswerInv ==
    ASSUME IInv, NEW x \in Refs, Answer(x) PROVE IInv'
<1> USE Numbers
<1>0. TypeOK
  BY DEF IInv
<1>1. TypeOK'
  <2>1. /\ asking' \in [Refs -> BillStates \cup CmdStates]
        /\ row' \in [Refs -> Tries] /\ waited' \in [Refs -> 0 .. MaxTries]
        /\ vanished' \in [Workers -> SUBSET Refs]
    BY <1>0, StateNames DEF TypeOK, Answer, Vanish
  <2>2. untold' \subseteq Refs /\ crossed' \subseteq Refs
    BY <1>0 DEF TypeOK, Answer, Told
  <2> QED BY <1>0, <2>1, <2>2 DEF TypeOK, Answer
<1>2. \A w \in Workers : HeldInv(w)'
  BY <1>0 DEF IInv, HeldInv, Held, Answer, Vanish, TypeOK
<1>3. Committed = row /\ Committed' = row' /\ row'[x] = Gone
      /\ \A r \in Refs \ {x} : row'[r] = row[r]
  BY <1>0 DEF Committed, Answer, TypeOK
<1>4. \A r \in Refs : r \in untold' \ crossed' => r \in untold \ crossed /\ r # x
  BY DEF Answer, Told
<1>5. \A v \in Workers : vanished'[v] = vanished[v] \cup ({x} \cap Held(v))
  BY <1>0 DEF Answer, Vanish, TypeOK, Held
<1>6. ASSUME NEW r \in Refs \ {x} PROVE ToldInv(r)' /\ OnceInv(r)'
  BY <1>3, <1>4, <1>5, <1>6, OtherRow DEF Answer
<1>7. ToldInv(x)'
  <2>1. calls'[x] = calls[x] /\ calls[x] \in Nat /\ reset' = reset
    BY <1>0 DEF Answer, TypeOK
  <2>2. KeepsRow(row, x)' /\ KeepsRow(Committed, x)'
    BY <1>3, <1>4, <2>1 DEF KeepsRow
  <2>3. ASSUME NEW w \in Workers PROVE KeepsMem(w, x)'
    BY <1>5 DEF KeepsMem, Answer, Held
  <2> QED BY <2>2, <2>3 DEF ToldInv
<1>8. OnceInv(x)'
  <2>1. OnceInv(x)
    BY DEF IInv
  <2> QED BY <1>3, <2>1 DEF OnceInv, OnceMem, Held, Answer
<1> QED BY <1>1, <1>2, <1>6, <1>7, <1>8 DEF IInv

-----------------------------------------------------------------------------
(* The passes.                                                              *)

\* A pass reads rows that are there.
LEMMA ListInv ==
    ASSUME IInv, NEW w \in Workers, ListAll(w) \/ ListOne(w) PROVE IInv'
<1> USE Numbers
<1>0. TypeOK
  BY DEF IInv
<1>1. PICK R \in SUBSET Listed : List(w, R)
  BY DEF ListAll, ListOne, Listed
<1>2. /\ R \subseteq Refs /\ Committed \in [Refs -> Tries]
      /\ \A r \in R : Committed[r] # Gone
  BY <1>0 DEF Listed, TypeOK, Committed
<1>3. /\ list'[w] = R /\ called'[w] = {} /\ vanished'[w] = {}
      /\ list[w] = {} /\ called[w] = {} /\ lock # w
      /\ \A r \in R : mem'[w][r] = Committed[r]
  <2>1. list[w] = {} /\ called[w] = {} /\ lock # w /\ vanished[w] = {}
    BY <1>1 DEF IInv, HeldInv, Held, List, Idle
  <2> QED BY <1>0, <1>1, <1>2, <2>1 DEF List, TypeOK
<1>4. \A v \in Workers \ {w} : list'[v] = list[v] /\ mem'[v] = mem[v]
  BY <1>0, <1>1 DEF List, TypeOK
<1>5. /\ called' = called /\ vanished' = vanished /\ row' = row /\ Committed' = Committed
      /\ calls' = calls /\ reset' = reset /\ untold' = untold /\ crossed' = crossed
      /\ doubled' = doubled \cup (R \cap Shared(w))
  BY <1>1 DEF List, tables, Committed
<1>6. TypeOK'
  <2>1. mem' \in [Workers -> [Refs -> Tries]] /\ list' \in [Workers -> SUBSET Refs]
    BY <1>0, <1>1, <1>2 DEF List, TypeOK
  <2>2. doubled' \subseteq Refs
    BY <1>0, <1>2, <1>5 DEF TypeOK
  <2> QED BY <1>0, <1>1, <2>1, <2>2 DEF List, tables, TypeOK
<1>7. ASSUME NEW v \in Workers PROVE HeldInv(v)'
  <2>1. HeldInv(v)
    BY DEF IInv
  <2> QED BY <1>2, <1>3, <1>4, <1>5, <2>1 DEF HeldInv, Held
<1>8. ASSUME NEW r \in Refs PROVE ToldInv(r)' /\ OnceInv(r)'
  <2>1. ToldInv(r) /\ OnceInv(r)
    BY DEF IInv
  <2>2. ToldInv(r)'
    <3>1. KeepsRow(row, r)' /\ KeepsRow(Committed, r)'
      BY <1>5, <2>1 DEF ToldInv, KeepsRow
    <3>2. ASSUME NEW v \in Workers PROVE KeepsMem(v, r)'
      <4>1. CASE v = w
        BY <1>3, <1>5, <2>1, <4>1 DEF ToldInv, KeepsRow, KeepsMem
      <4>2. CASE v # w
        BY <1>4, <1>5, <2>1, <4>2 DEF ToldInv, KeepsMem
      <4> QED BY <4>1, <4>2
    <3> QED BY <3>1, <3>2 DEF ToldInv
  <2>3. CASE r \in R /\ r \notin Shared(w)
    <3>1. \A v \in Workers \ {w} : r \notin Held(v)
      BY <2>3 DEF Shared, Holders, Held
    <3>2. row[r] = Committed[r] /\ row[r] # Gone
      BY <1>2, <1>3, <2>3 DEF Shared, Committed
    <3>3. r \notin doubled => calls[r] <= row[r] /\ calls[r] <= MaxTries + 1
      BY <1>3, <2>1, <3>1, <3>2 DEF OnceInv, Held
    <3>4. \A v \in Workers : v # w => r \notin Held(v)'
      BY <1>4, <1>5, <3>1 DEF Held
    <3>5. r \notin doubled => \A v \in Workers : OnceMem(v, r)'
      <4> HAVE r \notin doubled
      <4> TAKE v \in Workers
      <4>1. CASE v = w
        BY <1>3, <1>5, <2>3, <3>2, <3>3, <4>1 DEF OnceMem
      <4>2. CASE v # w
        <5>1. HeldInv(v)
          BY DEF IInv
        <5> QED BY <1>4, <1>5, <3>1, <4>2, <5>1 DEF OnceMem, HeldInv, Held
      <4> QED BY <4>1, <4>2
    <3> QED BY <1>5, <2>2, <3>3, <3>4, <3>5 DEF OnceInv
  <2>4. CASE r \in R /\ r \in Shared(w)
    BY <1>5, <2>2, <2>4 DEF OnceInv
  <2>5. CASE r \notin R
    <3>1. \A v \in Workers : r \in list'[v] => r \in list[v] /\ mem'[v][r] = mem[v][r]
      BY <1>3, <1>4, <2>5
    <3>2. \A v \in Workers : r \in called[v] => mem'[v][r] = mem[v][r]
      BY <1>3, <1>4
    <3> QED BY <1>5, <2>1, <2>2, <3>1, <3>2 DEF OnceInv, OnceMem, Held
  <2> QED BY <2>3, <2>4, <2>5
<1> QED BY <1>6, <1>7, <1>8 DEF IInv

\* A worker that forgets a row.
LEMMA ForgetHeld ==
    ASSUME IInv, NEW w \in Workers, NEW x \in Refs,
           list'[w] = list[w] \ {x}, called'[w] \subseteq called[w] \ {x},
           vanished'[w] \subseteq vanished[w] \ {x}, called[w] \subseteq {x},
           \A r \in Refs \ {x} : mem'[w][r] = mem[w][r],
           \A v \in Workers \ {w} : list'[v] = list[v] /\ mem'[v] = mem[v]
                                    /\ called'[v] = called[v] /\ vanished'[v] = vanished[v]
    PROVE  \A v \in Workers : HeldInv(v)'
<1> TAKE v \in Workers
<1>1. HeldInv(v) /\ list[v] \subseteq Refs /\ called[v] \subseteq Refs
  BY DEF IInv, TypeOK
<1>2. CASE v = w
  BY <1>1, <1>2 DEF HeldInv, Held
<1>3. CASE v # w
  BY <1>1, <1>3 DEF HeldInv, Held
<1> QED BY <1>2, <1>3

\* A row whose next try is not due is passed over.
LEMMA SkipInv ==
    ASSUME IInv, NEW w \in Workers, NEW x \in Refs, NotifySkip(w, x) PROVE IInv'
<1> USE Numbers
<1>0. TypeOK
  BY DEF IInv
<1>1. TypeOK'
  BY <1>0 DEF NotifySkip, Visit, Forget, tables, ghosts, TypeOK
<1>2. /\ called' = called /\ called[w] = {}
      /\ list'[w] = list[w] \ {x} /\ vanished'[w] = vanished[w] \ {x}
      /\ \A r \in Refs \ {x} : mem'[w][r] = mem[w][r]
      /\ \A v \in Workers \ {w} : list'[v] = list[v] /\ mem'[v] = mem[v]
                                  /\ vanished'[v] = vanished[v]
  BY <1>0 DEF NotifySkip, Visit, Forget, TypeOK
<1>3. \A v \in Workers : HeldInv(v)'
  BY <1>2, ForgetHeld
<1>4. ASSUME NEW r \in Refs PROVE ToldInv(r)' /\ OnceInv(r)'
  <2>1. /\ row' = row /\ Committed' = Committed /\ calls' = calls /\ reset' = reset
        /\ doubled' = doubled /\ untold' = untold /\ crossed' = crossed
    BY DEF NotifySkip, tables, ghosts, Committed
  <2>2. ASSUME NEW v \in Workers, NEW s \in Refs
        PROVE  /\ s \in list'[v] => s \in list[v] /\ mem'[v][s] = mem[v][s]
               /\ s \in called'[v] => s \in called[v] /\ mem'[v][s] = mem[v][s]
               /\ s \in vanished[v] /\ s \in Held(v)' => s \in vanished'[v]
               /\ s \in vanished'[v] => s \in vanished[v]
    BY <1>2 DEF Held
  <2> QED BY <1>2, <2>1, <2>2, RestStep
<1> QED BY <1>1, <1>3, <1>4 DEF IInv

\* A row that is done with is deleted.
LEMMA DropInv ==
    ASSUME IInv, NEW w \in Workers, NEW x \in Refs, NotifyDrop(w, x) PROVE IInv'
<1> USE Numbers
<1>0. TypeOK
  BY DEF IInv
<1>1. /\ Committed' = Committed
      /\ lock' \in Workers \cup {None} /\ saved' \in [Refs -> Tries]
  BY <1>0, LocksIs DEF NotifyDrop
<1>2. TypeOK'
  BY <1>0, <1>1 DEF NotifyDrop, Visit, Forget, ghosts, TypeOK
<1>3. /\ called' = called /\ called[w] = {} /\ x \in list[w] /\ x \notin vanished[w]
      /\ list'[w] = list[w] \ {x} /\ vanished'[w] = vanished[w] \ {x}
      /\ \A r \in Refs \ {x} : mem'[w][r] = mem[w][r]
      /\ \A v \in Workers \ {w} : list'[v] = list[v] /\ mem'[v] = mem[v]
                                  /\ vanished'[v] = vanished[v]
  BY <1>0 DEF NotifyDrop, Visit, Forget, TypeOK
<1>4. \A v \in Workers : HeldInv(v)'
  BY <1>3, ForgetHeld
<1>5. /\ row'[x] = Gone /\ \A r \in Refs \ {x} : row'[r] = row[r]
      /\ calls' = calls /\ reset' = reset /\ doubled' = doubled
      /\ untold' = untold /\ crossed' = crossed
  BY <1>0 DEF NotifyDrop, TypeOK, ghosts
<1>6. ASSUME NEW r \in Refs \ {x} PROVE ToldInv(r)' /\ OnceInv(r)'
  <2>1. ASSUME NEW v \in Workers
        PROVE  /\ r \in list'[v] <=> r \in list[v]
               /\ r \in called'[v] <=> r \in called[v]
               /\ r \in vanished'[v] <=> r \in vanished[v]
               /\ mem'[v][r] = mem[v][r]
    BY <1>3
  <2> QED BY <1>1, <1>5, <2>1, OtherRow
<1>7. ToldInv(x) /\ OnceInv(x) /\ calls[x] \in Nat /\ mem[w][x] \in Tries
  BY <1>0 DEF IInv, TypeOK
<1>8. ASSUME NEW v \in Workers
      PROVE  /\ x \in list'[v] => x \in list[v] /\ mem'[v][x] = mem[v][x]
             /\ x \in called'[v] => x \in called[v] /\ mem'[v][x] = mem[v][x]
             /\ x \in called[v] => x \in called'[v]
             /\ x \in Held(v)' => (x \in vanished'[v] <=> x \in vanished[v])
  BY <1>3 DEF Held
<1>9. ToldInv(x)'
  <2>1. x \in NoUrl \/ x \in reset \/ calls[x] > MaxTries
    BY <1>3, <1>7 DEF NotifyDrop, Finished, ToldInv, KeepsMem
  <2>2. KeepsRow(row, x)' /\ KeepsRow(Committed, x)'
    BY <1>1, <1>5, <1>7, <2>1 DEF ToldInv, KeepsRow
  <2>3. ASSUME NEW v \in Workers PROVE KeepsMem(v, x)'
    BY <1>5, <1>7, <1>8 DEF ToldInv, KeepsMem, Held
  <2> QED BY <2>2, <2>3 DEF ToldInv
<1>10. OnceInv(x)'
  BY <1>5, <1>7, <1>8 DEF OnceInv, OnceMem, Held
<1> QED BY <1>2, <1>4, <1>6, <1>9, <1>10 DEF IInv

\* The shop is called.
LEMMA CallInv ==
    ASSUME IInv, NEW w \in Workers, NEW x \in Refs, NotifyCall(w, x) PROVE IInv'
<1> USE Numbers
<1>0. TypeOK
  BY DEF IInv
<1>1. /\ Committed' = Committed
      /\ lock' \in Workers \cup {None} /\ saved' \in [Refs -> Tries]
  <2>1. CASE UNCHANGED <<lock, saved>>
    BY <1>0, <2>1 DEF NotifyCall, tables, Committed, TypeOK
  <2>2. CASE Locks(w)
    BY <1>0, <2>2, LocksIs
  <2> QED BY <2>1, <2>2 DEF NotifyCall
<1>2. TypeOK'
  <2>1. /\ list' \in [Workers -> SUBSET Refs] /\ called' \in [Workers -> SUBSET Refs]
        /\ calls' \in [Refs -> Nat]
    BY <1>0 DEF NotifyCall, Visit, TypeOK
  <2> QED BY <1>0, <1>1, <2>1 DEF NotifyCall, tables, TypeOK
<1>3. /\ list'[w] = list[w] \ {x} /\ called[w] = {} /\ called'[w] = {x} /\ x \in list[w]
      /\ mem' = mem /\ vanished' = vanished /\ mem[w][x] <= MaxTries
      /\ \A v \in Workers \ {w} : list'[v] = list[v] /\ called'[v] = called[v]
  BY <1>0 DEF NotifyCall, Visit, Finished, TypeOK
<1>4. ASSUME NEW v \in Workers PROVE HeldInv(v)'
  <2>1. HeldInv(v)
    BY DEF IInv
  <2>2. CASE v = w
    BY <1>3, <2>1, <2>2 DEF HeldInv, Held
  <2>3. CASE v # w
    BY <1>3, <2>1, <2>3 DEF HeldInv, Held
  <2> QED BY <2>2, <2>3
<1>5. /\ row' = row /\ calls'[x] = calls[x] + 1 /\ \A r \in Refs \ {x} : calls'[r] = calls[r]
      /\ reset' = reset /\ doubled' = doubled /\ untold' = untold /\ crossed' = crossed
  BY <1>0 DEF NotifyCall, tables, TypeOK
<1>6. ASSUME NEW r \in Refs \ {x} PROVE ToldInv(r)' /\ OnceInv(r)'
  <2>1. ASSUME NEW v \in Workers
        PROVE  /\ r \in list'[v] <=> r \in list[v]
               /\ r \in called'[v] <=> r \in called[v]
    BY <1>3
  <2> QED BY <1>1, <1>3, <1>5, <2>1, OtherRow
<1>7. ToldInv(x) /\ OnceInv(x) /\ calls[x] \in Nat /\ \A v \in Workers : mem[v][x] \in Tries
  BY <1>0 DEF IInv, TypeOK
<1>8. row[x] \in Tries /\ Committed[x] \in Tries
  BY <1>0 DEF TypeOK, Committed
<1>9. ToldInv(x)'
  <2>1. KeepsRow(row, x)' /\ KeepsRow(Committed, x)'
    BY <1>1, <1>5, <1>7, <1>8 DEF ToldInv, KeepsRow
  <2>2. ASSUME NEW v \in Workers PROVE KeepsMem(v, x)'
    <3>1. KeepsMem(v, x)
      BY <1>7 DEF ToldInv
    <3>2. CASE v = w
      BY <1>3, <1>5, <1>7, <3>1, <3>2 DEF KeepsMem
    <3>3. CASE v # w
      BY <1>3, <1>5, <1>7, <3>1, <3>3 DEF KeepsMem
    <3> QED BY <3>2, <3>3
  <2> QED BY <2>1, <2>2 DEF ToldInv
<1>10. OnceInv(x)'
  <2>1. CASE x \in doubled
    BY <1>5, <2>1 DEF OnceInv
  <2>2. CASE x \notin doubled
    <3>1. \A v \in Workers : x \in Held(v) => v = w
      BY <1>3, <1>7, <2>2 DEF OnceInv, Held
    <3>2. \A v \in Workers : x \in Held(v)' => v = w
      BY <1>3, <3>1 DEF Held
    <3>3. calls[x] <= mem[w][x] /\ \A v \in Workers : x \in vanished[v] => row[x] = Gone
      BY <1>3, <1>7, <2>2 DEF OnceInv, OnceMem
    <3>4. ASSUME NEW v \in Workers PROVE OnceMem(v, x)'
      BY <1>3, <1>5, <1>7, <3>2, <3>3 DEF OnceMem, Held
    <3>5. calls'[x] <= MaxTries + 1
      BY <1>3, <1>5, <1>7, <3>3
    <3> QED BY <1>3, <3>2, <3>4, <3>5 DEF OnceInv
  <2> QED BY <2>1, <2>2
<1> QED BY <1>2, <1>4, <1>6, <1>9, <1>10 DEF IInv

\* What was read, plus one, is written.
LEMMA WriteInv ==
    ASSUME IInv, NEW w \in Workers, NEW x \in Refs, NotifyWrite(w, x) PROVE IInv'
<1> USE Numbers
<1>0. TypeOK
  BY DEF IInv
<1>1. /\ Committed' = Committed
      /\ lock' \in Workers \cup {None} /\ saved' \in [Refs -> Tries]
  BY <1>0, LocksIs DEF NotifyWrite
<1>2. /\ x \in called[w] /\ x \notin list[w] /\ called[w] = {x}
      /\ mem[w][x] \in 0 .. MaxTries
  <2>1. HeldInv(w) /\ x \in called[w]
    BY DEF IInv, NotifyWrite
  <2>2. mem[w][x] \in Tries
    BY <1>0 DEF TypeOK
  <2> QED BY <2>1, <2>2 DEF HeldInv, Held
<1>3. /\ list' = list /\ called'[w] = {} /\ vanished'[w] = vanished[w] \ {x}
      /\ \A r \in Refs \ {x} : mem'[w][r] = mem[w][r]
      /\ \A v \in Workers \ {w} : called'[v] = called[v] /\ mem'[v] = mem[v]
                                  /\ vanished'[v] = vanished[v]
  BY <1>0 DEF NotifyWrite, Forget, TypeOK
<1>4. /\ x \in vanished[w] => row' = row
      /\ x \notin vanished[w] => row'[x] = mem[w][x] + 1
      /\ \A r \in Refs \ {x} : row'[r] = row[r]
      /\ row' \in [Refs -> Tries]
  BY <1>0, <1>2 DEF NotifyWrite, TypeOK
<1>5. /\ calls' = calls /\ reset' = reset /\ doubled' = doubled
      /\ untold' = untold /\ crossed' = crossed
  BY DEF NotifyWrite, ghosts
<1>6. TypeOK'
  <2>1. /\ called' \in [Workers -> SUBSET Refs] /\ mem' \in [Workers -> [Refs -> Tries]]
        /\ vanished' \in [Workers -> SUBSET Refs]
    BY <1>0 DEF NotifyWrite, Forget, TypeOK
  <2> QED BY <1>0, <1>1, <1>4, <2>1 DEF NotifyWrite, ghosts, TypeOK
<1>7. \A v \in Workers : HeldInv(v)'
  BY <1>2, <1>3, ForgetHeld
<1>8. ASSUME NEW r \in Refs \ {x} PROVE ToldInv(r)' /\ OnceInv(r)'
  <2>1. ASSUME NEW v \in Workers
        PROVE  /\ r \in called'[v] <=> r \in called[v]
               /\ r \in vanished'[v] <=> r \in vanished[v]
               /\ mem'[v][r] = mem[v][r]
    BY <1>2, <1>3
  <2> QED BY <1>1, <1>3, <1>4, <1>5, <2>1, OtherRow
<1>9. ToldInv(x) /\ OnceInv(x) /\ calls[x] \in Nat
  BY <1>0 DEF IInv, TypeOK
<1>10. ASSUME NEW v \in Workers
       PROVE  /\ x \notin Held(w)'
              /\ x \in list'[v] => v # w /\ x \in list[v] /\ mem'[v][x] = mem[v][x]
              /\ x \in called'[v] => v # w /\ x \in called[v] /\ mem'[v][x] = mem[v][x]
              /\ x \in Held(v)' => x \in Held(v)
              /\ x \in Held(v)' => (x \in vanished'[v] <=> x \in vanished[v])
              /\ x \in vanished'[v] => x \in vanished[v]
  BY <1>2, <1>3 DEF Held
<1>11. ToldInv(x)'
  <2>1. x \notin vanished[w] => x \in reset \/ row'[x] <= calls[x]
    BY <1>2, <1>4, <1>9 DEF ToldInv, KeepsMem
  <2>2. x \notin vanished[w] => row'[x] # Gone
    BY <1>2, <1>4
  <2>3. KeepsRow(row, x)' /\ KeepsRow(Committed, x)'
    BY <1>1, <1>4, <1>5, <1>9, <2>1, <2>2 DEF ToldInv, KeepsRow
  <2>4. ASSUME NEW v \in Workers PROVE KeepsMem(v, x)'
    BY <1>5, <1>9, <1>10 DEF ToldInv, KeepsMem, Held
  <2> QED BY <2>3, <2>4 DEF ToldInv
<1>12. OnceInv(x)'
  <2>1. CASE x \in doubled
    BY <1>5, <2>1 DEF OnceInv
  <2>2. CASE x \notin doubled
    <3>1. \A v \in Workers : x \notin Held(v)'
      BY <1>2, <1>9, <1>10, <2>2 DEF OnceInv, Held
    <3>2. \A v \in Workers : x \notin vanished'[v]
      BY <1>7, <3>1 DEF HeldInv
    <3>3. calls[x] <= MaxTries + 1 /\ (row'[x] # Gone => calls[x] <= row'[x])
      BY <1>2, <1>4, <1>9, <2>2 DEF OnceInv, OnceMem
    <3> QED BY <1>5, <3>1, <3>2, <3>3 DEF OnceInv, OnceMem, Held
  <2> QED BY <2>1, <2>2
<1> QED BY <1>6, <1>7, <1>8, <1>11, <1>12 DEF IInv

\* A worker that has nothing in memory any more.
LEMMA LeaveIs ==
    ASSUME IInv, NEW w \in Workers, Leave(w)
    PROVE  /\ list' \in [Workers -> SUBSET Refs] /\ called' \in [Workers -> SUBSET Refs]
           /\ mem' \in [Workers -> [Refs -> Tries]]
           /\ lock' \in Workers \cup {None} /\ saved' \in [Refs -> Tries]
           /\ list'[w] = {} /\ called'[w] = {}
           /\ \A v \in Workers \ {w} :
                list'[v] = list[v] /\ called'[v] = called[v] /\ mem'[v] = mem[v]
<1>1. TypeOK
  BY DEF IInv
<1>2. NoRows \in [Refs -> Tries]
  BY Numbers DEF NoRows
<1> QED BY <1>1, <1>2 DEF Leave, TypeOK

LEMMA LeaveHeld ==
    ASSUME IInv, NEW w \in Workers, Leave(w), vanished'[w] = {},
           \A v \in Workers \ {w} : vanished'[v] \subseteq vanished[v] \cup Held(v)
    PROVE  \A v \in Workers : HeldInv(v)'
<1> TAKE v \in Workers
<1>1. HeldInv(v)
  BY DEF IInv
<1>2. CASE v = w
  BY <1>2, LeaveIs DEF HeldInv, Held
<1>3. CASE v # w
  BY <1>1, <1>3, LeaveIs DEF HeldInv, Held
<1> QED BY <1>2, <1>3

\* The pass commits.
LEMMA CommitInv ==
    ASSUME IInv, NEW w \in Workers, Commit(w) PROVE IInv'
<1> USE Numbers
<1>0. TypeOK
  BY DEF IInv
<1> DEFINE R == {r \in Refs : row[r] = Gone /\ saved[r] # Gone}
<1>1. \A v \in Workers : vanished'[v] = vanished[v] \cup (R \cap Held(v))
  BY <1>0 DEF Commit, Vanish, TypeOK, Held
<1>2. vanished' \in [Workers -> SUBSET Refs]
  BY <1>0 DEF Commit, Vanish, TypeOK
<1>3. Leave(w) /\ list[w] = {} /\ called[w] = {} /\ lock = w
      /\ UNCHANGED <<tables, asking, ghosts>>
  BY DEF Commit
<1>4. TypeOK'
  BY <1>0, <1>2, <1>3, LeaveIs DEF tables, ghosts, TypeOK
<1>5. vanished'[w] = {}
  BY <1>1, <1>3 DEF IInv, HeldInv, Held
<1>6. \A v \in Workers : HeldInv(v)'
  BY <1>1, <1>3, <1>5, LeaveHeld
<1>7. Committed' = row /\ row' = row
  BY <1>3 DEF Leave, Committed, tables
<1>8. ASSUME NEW v \in Workers, NEW r \in Refs
      PROVE  /\ r \in list'[v] => r \in list[v] /\ mem'[v][r] = mem[v][r]
             /\ r \in called'[v] => r \in called[v] /\ mem'[v][r] = mem[v][r]
             /\ r \in called[v] => r \in called'[v]
             /\ r \in vanished[v] => r \in vanished'[v]
             /\ r \in vanished'[v] => r \in vanished[v] \/ row[r] = Gone
  <2>1. r \in vanished'[v] <=> r \in vanished[v] \/ r \in R \cap Held(v)
    BY <1>1
  <2>2. CASE v = w
    BY <1>3, <2>1, <2>2, LeaveIs DEF Held
  <2>3. CASE v # w
    BY <1>3, <2>1, <2>3, LeaveIs
  <2> QED BY <2>2, <2>3
<1>9. ASSUME NEW r \in Refs PROVE ToldInv(r)' /\ OnceInv(r)'
  BY <1>3, <1>7, <1>8, RestStep DEF ghosts
<1> QED BY <1>4, <1>6, <1>9 DEF IInv

\* A worker dies, or finds no row to delete: what it wrote is undone.
LEMMA UndoInv ==
    ASSUME IInv, NEW w \in Workers, Undo(w), faults' \in Nat PROVE IInv'
<1> USE Numbers
<1>0. TypeOK
  BY DEF IInv
<1>1. Leave(w) /\ vanished'[w] = {} /\ vanished' \in [Workers -> SUBSET Refs]
      /\ \A v \in Workers \ {w} : vanished'[v] = vanished[v]
  BY <1>0 DEF Undo, TypeOK
<1>2. row' = (IF lock = w THEN saved ELSE row)
      /\ UNCHANGED <<state, waited, asking, untold, calls, crossed, reset>>
  BY DEF Undo
<1>3. /\ doubled \subseteq doubled' /\ doubled' \subseteq Refs /\ called[w] \subseteq doubled'
      /\ lock = w => \A r \in Refs : row[r] # saved[r] => r \in doubled'
  BY <1>0 DEF Undo, TypeOK
<1>4. TypeOK'
  BY <1>0, <1>1, <1>2, <1>3, LeaveIs DEF TypeOK
<1>5. \A v \in Workers : HeldInv(v)'
  BY <1>1, LeaveHeld
<1>6. /\ row' \in {row, Committed} /\ Committed' \in {row, Committed}
      /\ \A r \in Refs : row'[r] = row[r] \/ r \in doubled'
  BY <1>1, <1>2, <1>3 DEF Leave, Committed
<1>7. ASSUME NEW v \in Workers, NEW r \in Refs
      PROVE  /\ r \in list'[v] => r \in list[v] /\ mem'[v][r] = mem[v][r]
             /\ r \in called'[v] => r \in called[v] /\ mem'[v][r] = mem[v][r]
             /\ r \in called[v] => r \in called'[v] \/ r \in doubled'
             /\ r \in vanished[v] /\ r \in Held(v)' => r \in vanished'[v]
             /\ r \in vanished'[v] => r \in vanished[v]
  BY <1>1, <1>3, LeaveIs DEF Held
<1>8. ASSUME NEW r \in Refs PROVE ToldInv(r)' /\ OnceInv(r)'
  BY <1>2, <1>3, <1>6, <1>7, RestStep
<1> QED BY <1>4, <1>5, <1>8 DEF IInv

-----------------------------------------------------------------------------
(* The theorems.                                                            *)

LEMMA InitInv == Init => IInv
<1> SUFFICES ASSUME Init PROVE IInv
  OBVIOUS
<1> USE Numbers
<1>1. TypeOK
  BY StateNames DEF Init, TypeOK, NoRows
<1>2. \A w \in Workers : HeldInv(w)
  BY DEF Init, HeldInv, Held
<1>3. ASSUME NEW r \in Refs PROVE ToldInv(r) /\ OnceInv(r)
  BY DEF Init, ToldInv, KeepsRow, KeepsMem, Committed, NoRows, OnceInv, OnceMem, Held
<1> QED BY <1>1, <1>2, <1>3 DEF IInv

LEMMA NextInv == IInv /\ [Next]_vars => IInv'
<1> SUFFICES ASSUME IInv, [Next]_vars PROVE IInv'
  OBVIOUS
<1>1. ASSUME NEW b \in Bills, NEW s \in BillStates, SetStatus(b, s) PROVE IInv'
  BY <1>1, SetStatusInv
<1>2. ASSUME NEW c \in Cmds, InsertCmd(c) \/ ProcCmd(c) PROVE IInv'
  BY <1>2, AsideInv, ProcCmdInv
<1>3. ASSUME NEW r \in Refs, Ask(r) \/ Answer(r) \/ AnswerLocked(r) \/ Wait(r) PROVE IInv'
  BY <1>3, AsideInv, AnswerInv
<1>4. ASSUME NEW w \in Workers, Notify(w) PROVE IInv'
  <2>1. CASE ListAll(w) \/ ListOne(w)
    BY <2>1, ListInv
  <2>2. CASE Commit(w)
    BY <2>2, CommitInv
  <2>3. ASSUME NEW r \in Refs, NotifySkip(w, r) PROVE IInv'
    BY <2>3, SkipInv
  <2>4. ASSUME NEW r \in Refs, NotifyDrop(w, r) PROVE IInv'
    BY <2>4, DropInv
  <2>5. ASSUME NEW r \in Refs, NotifyCall(w, r) PROVE IInv'
    BY <2>5, CallInv
  <2>6. ASSUME NEW r \in Refs, NotifyWrite(w, r) PROVE IInv'
    BY <2>6, WriteInv
  <2>7. ASSUME NEW r \in Refs, NotifyDropGone(w, r) PROVE IInv'
    BY <2>7, UndoInv DEF NotifyDropGone, IInv, TypeOK
  <2> QED BY <1>4, <2>1, <2>2, <2>3, <2>4, <2>5, <2>6, <2>7 DEF Notify
<1>5. ASSUME NEW w \in Workers, Die(w) PROVE IInv'
  <2>1. faults' \in Nat
    BY <1>5 DEF Die, IInv, TypeOK
  <2> QED BY <1>5, <2>1, UndoInv DEF Die
<1>6. CASE UNCHANGED vars
  BY <1>6, AsideInv
<1> QED BY <1>1, <1>2, <1>3, <1>4, <1>5, <1>6 DEF Next

LEMMA Inductive == Spec => []IInv
BY InitInv, NextInv, PTL DEF Spec

\* The variables keep the values the tables and the workers can have, for any
\* number of passes and tries.
THEOREM TypeCorrect == Spec => []TypeOK
<1>1. IInv => TypeOK
  BY DEF IInv
<1> QED BY <1>1, Inductive, PTL

\* make_note, notify_one and del_note lose no status but in the two races that
\* ToldUnlessCrossed names, whatever passes, requests and crashes interleave.
THEOREM ToldKept == Spec => []ToldUnlessCrossed
<1>1. IInv => ToldUnlessCrossed
  BY DEF IInv, ToldInv, KeepsRow, ToldUnlessCrossed, Live, TypeOK
<1> QED BY <1>1, Inductive, PTL

\* notify_one counts every call it makes, so that a status costs no more of
\* them than it tries, unless two passes have the row or one dies.
THEOREM CallsCounted == Spec => []CallsBounded
<1>1. IInv => CallsBounded
  BY DEF IInv, OnceInv, CallsBounded
<1> QED BY <1>1, Inductive, PTL
=============================================================================
