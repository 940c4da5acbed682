------------------------------- MODULE Notes -------------------------------
(***************************************************************************)
(* How a shop is told that a bill has a new status, or that a command of    *)
(* its is done: the rows of shop_orders_notes.                              *)
(*                                                                         *)
(* orders_lib.make_note and serv_cmds.make_note leave a row.  A pass of     *)
(* shops_lib.notify, by the loop of serv_notes or by tools/run_notes, reads *)
(* all rows and calls the url of the shop for those that are due; a call    *)
(* says only which bill, and is repeated with growing waits until the shop  *)
(* asks (cp_api.check, api_cmd.cmd_res), which deletes the row, or until    *)
(* the tries are used up.                                                   *)
(*                                                                         *)
(* A pass reads without a lock, takes the write lock of SQLite with its     *)
(* first write and keeps it, through the calls that follow, to its commit.  *)
(***************************************************************************)
EXTENDS Integers

CONSTANTS
    Bills, Cmds,   \* what a shop is told about
    NoteOn,        \* shop_orders.note_on
    NoUrl,         \* bills and commands of shops without url or note_url
    Loops,         \* passes over all rows: serv_notes, tools/run_notes
    Testers,       \* passes over one row: tools/test_shop_notify
    MaxTries,      \* a row with more tries is deleted: 6
    MaxFault       \* bound: workers that die

Refs == Bills \cup Cmds
Workers == Loops \cup Testers
None == "none"     \* no worker, no request; a command not yet inserted

ASSUME NoteAssumption ==
    /\ Bills \cap Cmds = {} /\ Loops \cap Testers = {} /\ None \notin Workers
    /\ NoteOn \in [Bills -> {"", "HARD", "CLOSED"}]
    /\ NoUrl \subseteq Refs
    /\ MaxTries \in Nat \ {0} /\ MaxFault \in Nat

VARIABLES
    state,      \* the status of a bill; whether a command is queued, done
    row,        \* shop_orders_notes: tries of the row of a bill or command
    waited,     \* the tries whose wait has passed since created_on
    list,       \* the rows a worker has read and not visited yet
    mem,        \* their tries, as the worker has read them
    called,     \* the row a worker has just called the shop for
    vanished,   \* rows deleted since a worker has read them
    lock,       \* the worker that holds the write lock
    saved,      \* the table as it was when the lock was taken
    asking,     \* what a request of the shop has read and will answer
    \* kept for the properties:
    untold,     \* the shop has to hear of the status, and has not yet asked
    calls,      \* calls since the last status the shop has to hear of
    crossed,    \* a request of the shop has answered an older status
    reset,      \* tries were reset while a worker had the row in memory
    doubled,    \* two workers had the row, or one died after its call
    faults

tables == <<state, row, waited>>
passes == <<list, mem, called, vanished>>
ghosts == <<untold, calls, crossed, reset, doubled, faults>>
vars == <<tables, passes, lock, saved, asking, ghosts>>

Statuses == <<"NEW", "SOFT", "HARD", "CLOSED">>
BillStates == {Statuses[i] : i \in DOMAIN Statuses}
CmdStates == {None, "queued", "done"}
Gone == -1         \* tries of a row that does not exist
Tries == Gone .. (MaxTries + 1)

NoRows == [r \in Refs |-> Gone]

Init ==
    /\ state = [r \in Refs |-> IF r \in Bills THEN "NEW" ELSE None]
    /\ row = NoRows
    /\ waited = [r \in Refs |-> 0]
    /\ list = [w \in Workers |-> {}]
    /\ mem = [w \in Workers |-> NoRows]
    /\ called = [w \in Workers |-> {}]
    /\ vanished = [w \in Workers |-> {}]
    /\ lock = None
    /\ saved = NoRows
    /\ asking = [r \in Refs |-> None]
    /\ untold = {} /\ crossed = {} /\ reset = {} /\ doubled = {}
    /\ calls = [r \in Refs |-> 0]
    /\ faults = 0

-----------------------------------------------------------------------------
(* Leaving and deleting rows. *)

Live == {r \in Refs : row[r] # Gone}

\* Workers that have the row in memory, and those that may still write it.
Holders(r) == {w \in Workers : r \in list[w] \cup called[w]}
Writers(r) == {w \in Holders(r) : r \notin vanished[w]}

\* Variant: the tries of a row go on.
MakeNoteKept(r) ==
    /\ row' = [row EXCEPT ![r] = IF r \in Live THEN @ ELSE 0]
    /\ waited' = [waited EXCEPT ![r] = IF r \in Live THEN @ ELSE 0]
    /\ calls' = [calls EXCEPT ![r] = 0]
    /\ untold' = untold \cup {r}
    /\ crossed' = crossed \ {r}
    /\ UNCHANGED <<reset, doubled>>

\* make_note: the tries of a row start again, its created_on stays.
MakeNote(r) ==
    /\ row' = [row EXCEPT ![r] = 0]
    /\ waited' = [waited EXCEPT ![r] = IF r \in Live THEN @ ELSE 0]
    /\ calls' = [calls EXCEPT ![r] = 0]
    /\ untold' = untold \cup {r}
    /\ crossed' = crossed \ {r}
    /\ reset' = IF Writers(r) = {} THEN reset \ {r} ELSE reset \cup {r}
    /\ doubled' = IF Holders(r) = {} THEN doubled \ {r}
                  ELSE IF r \in Live THEN doubled ELSE doubled \cup {r}

\* Rows are deleted: those that have read them will not find them any more.
Vanish(R) ==
    vanished' = [w \in Workers |-> vanished[w] \cup (R \cap (list[w] \cup called[w]))]

\* make_note: note_on mutes the statuses before the one asked for.
Muted(b, s) ==
    \/ NoteOn[b] = "HARD" /\ s = "SOFT"
    \/ NoteOn[b] = "CLOSED" /\ s \in {"SOFT", "HARD"}

Rank(s) == CHOOSE i \in DOMAIN Statuses : Statuses[i] = s

-----------------------------------------------------------------------------
(* What there is to tell.  Each of these is a transaction. *)

\* set_status for a bill that is paid for, by the loop of serv_blocks.
SetStatus(b, s) ==
    /\ lock = None
    /\ Rank(s) > Rank(state[b])
    /\ state' = [state EXCEPT ![b] = s]
    /\ IF Muted(b, s)
       THEN UNCHANGED <<row, waited, calls, untold, crossed, reset, doubled>>
       ELSE MakeNote(b)
    /\ UNCHANGED <<passes, lock, saved, asking, faults>>

\* api_cmd.cmd: the shop has confirmed the hash of the command.
InsertCmd(c) ==
    /\ lock = None
    /\ state[c] = None
    /\ state' = [state EXCEPT ![c] = "queued"]
    /\ UNCHANGED <<row, waited, passes, lock, saved, asking, ghosts>>

\* serv_cmds.proc: the result is written, the row of shops_cmds_stack deleted.
ProcCmd(c) ==
    /\ lock = None
    /\ state[c] = "queued"
    /\ state' = [state EXCEPT ![c] = "done"]
    /\ MakeNote(c)
    /\ UNCHANGED <<passes, lock, saved, asking, faults>>

-----------------------------------------------------------------------------
(* The shop asks: cp_api.check and info, api_cmd.cmd_res.  The row of the   *)
(* bill is read before a sleep, and its notification deleted after it.      *)

Ask(r) ==
    /\ asking[r] = None
    /\ state[r] # None
    /\ asking' = [asking EXCEPT ![r] = state[r]]
    /\ UNCHANGED <<tables, passes, lock, saved, ghosts>>

Told(r) ==
    IF asking[r] = state[r]
    THEN untold' = untold \ {r} /\ crossed' = crossed \ {r}
    ELSE crossed' = crossed \cup {r} /\ UNCHANGED untold

Answer(r) ==
    /\ asking[r] # None
    /\ lock = None
    /\ asking' = [asking EXCEPT ![r] = None]
    /\ row' = [row EXCEPT ![r] = Gone]
    /\ Vanish({r})
    /\ waited' = [waited EXCEPT ![r] = 0]
    /\ Told(r)
    /\ UNCHANGED <<state, list, mem, called, lock, saved, calls, reset,
                   doubled, faults>>

\* A pass holds the lock for longer than the request waits.  del_note catches
\* that, cmd_res does not and gives no answer.
AnswerLocked(r) ==
    /\ asking[r] # None
    /\ lock # None
    /\ asking' = [asking EXCEPT ![r] = None]
    /\ IF r \in Bills THEN Told(r) ELSE UNCHANGED <<untold, crossed>>
    /\ UNCHANGED <<tables, passes, lock, saved, calls, reset, doubled, faults>>

-----------------------------------------------------------------------------
(* A pass of shops_lib.notify. *)

Idle(w) == list[w] = {} /\ called[w] = {} /\ lock # w

\* A reader sees what was committed.
Committed == IF lock = None THEN row ELSE saved

\* Rows that another pass has read, or has written and not committed.
Shared(w) ==
    {r \in Refs : \/ Holders(r) \ {w} # {}
                  \/ lock \notin {None, w} /\ row[r] # saved[r]}

List(w, R) ==
    /\ Idle(w)
    /\ R # {}
    /\ list' = [list EXCEPT ![w] = R]
    /\ mem' = [mem EXCEPT ![w] = [r \in Refs |-> IF r \in R THEN Committed[r] ELSE Gone]]
    /\ doubled' = doubled \cup (R \cap Shared(w))
    /\ UNCHANGED <<tables, called, vanished, lock, saved, asking, untold, calls,
                   crossed, reset, faults>>

Listed == {r \in Refs : Committed[r] # Gone}
ListAll(w) == w \in Loops /\ List(w, Listed)
ListOne(w) == w \in Testers /\ \E r \in Listed : List(w, {r})

\* After n tries the next is due 30 + 60 * 2^(n - 1) seconds after created_on.
Due(w, r) == mem[w][r] <= waited[r]

\* The first write of a pass takes the lock; it is kept until the commit.
Locks(w) ==
    /\ lock \in {None, w}
    /\ lock' = w
    /\ saved' = Committed

Visit(w, r) ==
    /\ r \in list[w]
    /\ called[w] = {}
    /\ list' = [list EXCEPT ![w] = @ \ {r}]

\* The row is done with.
Forget(w, r) ==
    /\ mem' = [mem EXCEPT ![w][r] = Gone]
    /\ vanished' = [vanished EXCEPT ![w] = @ \ {r}]

\* Variants: one try less; no end of the tries.
FinishedEarly(w, r) == mem[w][r] >= MaxTries \/ (r \in NoUrl /\ Due(w, r))
FinishedNever(w, r) == r \in NoUrl /\ Due(w, r)

\* The tries are used up, or there is no url to call.
Finished(w, r) == mem[w][r] > MaxTries \/ (r \in NoUrl /\ Due(w, r))

\* It is too early for the next try.
NotifySkip(w, r) ==
    /\ Visit(w, r)
    /\ ~Finished(w, r)
    /\ ~Due(w, r)
    /\ Forget(w, r)
    /\ UNCHANGED <<tables, called, lock, saved, asking, ghosts>>

NotifyDrop(w, r) ==
    /\ Visit(w, r)
    /\ Finished(w, r)
    /\ r \notin vanished[w]
    /\ Locks(w)
    /\ row' = [row EXCEPT ![r] = Gone]
    /\ Forget(w, r)
    /\ UNCHANGED <<state, waited, called, asking, ghosts>>

\* The shop is called.  A call that fails is logged, which takes the lock.
NotifyCall(w, r) ==
    /\ Visit(w, r)
    /\ ~Finished(w, r) /\ Due(w, r)
    /\ \/ UNCHANGED <<lock, saved>>
       \/ Locks(w)
    /\ called' = [called EXCEPT ![w] = {r}]
    /\ calls' = [calls EXCEPT ![r] = @ + 1]
    /\ UNCHANGED <<tables, mem, vanished, asking, untold, crossed, reset,
                   doubled, faults>>

\* Variants: a try is counted twice; it is not counted.
NotifyWriteTwice(w, r) ==
    /\ r \in called[w]
    /\ called' = [called EXCEPT ![w] = {}]
    /\ Locks(w)
    /\ row' = IF r \in vanished[w] THEN row ELSE [row EXCEPT ![r] = mem[w][r] + 2]
    /\ Forget(w, r)
    /\ UNCHANGED <<state, waited, list, asking, ghosts>>

NotifyWriteSame(w, r) ==
    /\ r \in called[w]
    /\ called' = [called EXCEPT ![w] = {}]
    /\ Locks(w)
    /\ row' = IF r \in vanished[w] THEN row ELSE [row EXCEPT ![r] = mem[w][r]]
    /\ Forget(w, r)
    /\ UNCHANGED <<state, waited, list, asking, ghosts>>

\* The tries read before the call, plus one, are written whatever has been
\* written since; nothing is written if the row was deleted.
NotifyWrite(w, r) ==
    /\ r \in called[w]
    /\ called' = [called EXCEPT ![w] = {}]
    /\ Locks(w)
    /\ row' = IF r \in vanished[w] THEN row ELSE [row EXCEPT ![r] = mem[w][r] + 1]
    /\ Forget(w, r)
    /\ UNCHANGED <<state, waited, list, asking, ghosts>>

Leave(w) ==
    /\ mem' = [mem EXCEPT ![w] = NoRows]
    /\ list' = [list EXCEPT ![w] = {}]
    /\ called' = [called EXCEPT ![w] = {}]
    /\ lock' = IF lock = w THEN None ELSE lock
    /\ saved' = IF lock = w THEN NoRows ELSE saved

\* The commit of serv_notes.run, or of the request.
Commit(w) ==
    /\ lock = w
    /\ list[w] = {} /\ called[w] = {}
    /\ Leave(w)
    /\ Vanish({r \in Refs : row[r] = Gone /\ saved[r] # Gone})
    /\ UNCHANGED <<tables, asking, ghosts>>

\* An exception ends the process: what the pass wrote is undone, the calls
\* it made are not.  serv_notes.cmd starts the loop again.
Undo(w) ==
    /\ Leave(w)
    /\ vanished' = [vanished EXCEPT ![w] = {}]
    /\ row' = IF lock = w THEN saved ELSE row
    /\ doubled' = doubled \cup called[w]
                    \cup (IF lock = w THEN {r \in Refs : row[r] # saved[r]} ELSE {})
    /\ UNCHANGED <<state, waited, asking, untold, calls, crossed, reset>>

\* del db.shop_orders_notes[id] raises if there is no such row.
NotifyDropGone(w, r) ==
    /\ r \in list[w] \cap vanished[w]
    /\ called[w] = {}
    /\ Finished(w, r)
    /\ lock \in {None, w}
    /\ Undo(w)
    /\ UNCHANGED faults

Die(w) ==
    /\ ~Idle(w)
    /\ faults < MaxFault
    /\ faults' = faults + 1
    /\ Undo(w)

Notify(w) ==
    \/ ListAll(w) \/ ListOne(w) \/ Commit(w)
    \/ \E r \in Refs : \/ NotifySkip(w, r) \/ NotifyDrop(w, r) \/ NotifyCall(w, r)
                       \/ NotifyWrite(w, r) \/ NotifyDropGone(w, r)

\* Time passes: one more wait is over.
Wait(r) ==
    /\ r \in Live
    /\ waited[r] < MaxTries
    /\ waited' = [waited EXCEPT ![r] = @ + 1]
    /\ UNCHANGED <<state, row, passes, lock, saved, asking, ghosts>>

Next ==
    \/ \E b \in Bills, s \in BillStates : SetStatus(b, s)
    \/ \E c \in Cmds : InsertCmd(c) \/ ProcCmd(c)
    \/ \E r \in Refs : Ask(r) \/ Answer(r) \/ AnswerLocked(r) \/ Wait(r)
    \/ \E w \in Workers : Notify(w) \/ Die(w)

Spec == Init /\ [][Next]_vars

\* The loop of serv_notes makes a pass every minute and is started again when
\* it dies; requests and commands get an answer.
FairSpec ==
    /\ Spec
    /\ \A w \in Workers : WF_vars(Notify(w))
    /\ \A r \in Refs : WF_vars(Wait(r))

-----------------------------------------------------------------------------
(* Properties. *)

TypeOK ==
    /\ state \in [Refs -> BillStates \cup CmdStates]
    /\ row \in [Refs -> Tries] /\ saved \in [Refs -> Tries]
    /\ waited \in [Refs -> 0 .. MaxTries]
    /\ list \in [Workers -> SUBSET Refs] /\ called \in [Workers -> SUBSET Refs]
    /\ mem \in [Workers -> [Refs -> Tries]]
    /\ vanished \in [Workers -> SUBSET Refs]
    /\ lock \in Workers \cup {None}
    /\ asking \in [Refs -> BillStates \cup CmdStates]
    /\ untold \subseteq Refs /\ crossed \subseteq Refs
    /\ reset \subseteq Refs /\ doubled \subseteq Refs
    /\ calls \in [Refs -> Nat]
    /\ faults \in Nat

\* "Service will notify to [shop_url]/[note_url] when customer will pay that
\* bill" (controllers/api.py:169): the row is deleted only when the shop has
\* got the new status, or was called in vain as often as notify_one tries, but
\* for what two races lose: a request that answers the status it
\* read before the new one came and deletes the row of the new one, and a pass
\* that writes its tries over those that make_note has reset.
ToldUnlessCrossed ==
    \A r \in untold \ NoUrl :
        r \in Live \/ calls[r] > MaxTries \/ r \in crossed \/ r \in reset

\* However passes, resets and requests interleave, a status costs a shop no
\* more calls than notify_one tries, unless two passes had the row or one
\* died with calls it had not committed.
CallsBounded ==
    \A r \in Refs : calls[r] <= MaxTries + 1 \/ r \in doubled

\* No row stays for ever: it is asked for, or its tries are used up.
EventuallyGone == \A r \in Refs : r \in Live ~> r \notin Live
=============================================================================
