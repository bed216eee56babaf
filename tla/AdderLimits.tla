----------------------------- MODULE AdderLimits -----------------------------
(***************************************************************************)
(* adder_limits_tbl: how many members each account has added, and until     *)
(* when Telegram makes it rest.                                             *)
(*                                                                         *)
(* Every kind of add writes it in its own way.  A worker of a parallel add   *)
(* writes one row; the others load the whole table, change one row and write *)
(* all the rows back, one statement each (save_adder_limits), and the        *)
(* parallel direct add loads the table only once.  All of that happens in    *)
(* the bot's event loop, so nothing else of that loop comes between the rows *)
(* of one save; the thread that resets the counters every Day and the HTTP   *)
(* thread do come between them.  Statements may fail: the functions of db.py *)
(* log the error and return an empty result.                                *)
(***************************************************************************)
EXTENDS Naturals

CONSTANTS
  Phones,
  Workers,   \* accounts' workers of _execute_parallel_add
  Singles,   \* _execute_simple_add and the other adds of one account
  Quick,     \* _do_quick_add
  NoPhone,
  Direct,    \* whether there are parallel direct adds
  Cooldowns, \* how long Telegram makes an account rest
  Buttons,   \* the reset buttons the admin uses: "bot", "web"
  Day,       \* time between two automatic resets, 24 hours in the code
  MaxAdds,   \* bound: additions of one account between two resets
  MaxTime,   \* bound on the clock
  MaxFaults, \* bound: statements that fail
  MaxResets  \* bound: resets asked for by the admin

Adders == Workers \cup Singles \cup Quick

ASSUME AdderLimitsAssumption ==
  /\ NoPhone \notin Phones
  /\ Workers \cap Singles = {} /\ (Workers \cup Singles) \cap Quick = {}
  /\ Direct \in BOOLEAN
  /\ Cooldowns \subseteq Nat \ {0}
  /\ Day \in Nat \ {0} /\ MaxAdds \in Nat /\ MaxTime \in Nat
  /\ MaxFaults \in Nat /\ MaxResets \in Nat

VARIABLES
  table,     \* the rows, a function on the phones that have one
  now,
  on,        \* the phone each adder works with
  base,      \* already_added: its count when the adder began
  n,         \* how many members the adder has added
  direct,    \* a parallel direct add is running
  memo,      \* the table it loaded when it began, with its own changes
  pending,   \* the rows the event loop is still to write
  zeroing,   \* the phones the reset thread is still to write
  resetAt,   \* the time at which it woke up, or 0
  lastReset, \* last_auto_reset.txt
  checked,   \* the phone whose rest the HTTP thread has seen to be over
  sent,      \* history: additions since the account was last said to be reset
  disturbed, \* history: phones two writers have been concerned with at a time
  faults, resets

adders  == <<on, base, n, direct, memo>>
thread  == <<zeroing, resetAt, lastReset>>
history == <<sent, disturbed>>
vars == <<table, now, adders, pending, thread, checked, history, faults, resets>>

Row == [added : Nat, kind : BOOLEAN, until : Nat]
IsTable(t) == DOMAIN t \subseteq Phones /\ t \in [DOMAIN t -> Row]
Empty == [p \in {} |-> 0]

TypeOK ==
  /\ IsTable(table) /\ IsTable(memo) /\ IsTable(pending)
  /\ now \in 0 .. MaxTime
  /\ on \in [Adders -> Phones \cup {NoPhone}]
  /\ base \in [Adders -> Nat] /\ n \in [Adders -> Nat]
  /\ direct \in BOOLEAN
  /\ zeroing \subseteq Phones
  /\ resetAt \in 0 .. MaxTime /\ lastReset \in 0 .. MaxTime
  /\ checked \in Phones \cup {NoPhone}
  /\ sent \in [Phones -> 0 .. MaxAdds]
  /\ disturbed \subseteq Phones
  /\ faults \in 0 .. MaxFaults /\ resets \in 0 .. MaxResets

Init ==
  /\ table = Empty /\ memo = Empty /\ pending = Empty
  /\ now = 0
  /\ on = [a \in Adders |-> NoPhone]
  /\ base = [a \in Adders |-> 0] /\ n = [a \in Adders |-> 0]
  /\ direct = FALSE
  /\ zeroing = {} /\ resetAt = 0 /\ lastReset = 0
  /\ checked = NoPhone
  /\ sent = [p \in Phones |-> 0]
  /\ disturbed = {}
  /\ faults = 0 /\ resets = 0

-----------------------------------------------------------------------------
\* Mutant of Merge: the label is lost.
Merge_NoLabel(old, new) == [new EXCEPT !.until = IF @ > 0 THEN @ ELSE old.until]

\* The ON CONFLICT of set_adder_limit: a write that names no limitation keeps
\* the one there is.
Merge(old, new) ==
  [added |-> new.added,
   kind  |-> new.kind \/ old.kind,
   until |-> IF new.until > 0 THEN new.until ELSE old.until]

Put(t, p, new) ==
  [q \in DOMAIN t \cup {p} |->
     IF q # p THEN t[q] ELSE IF p \in DOMAIN t THEN Merge(t[p], new) ELSE new]

\* limits[phone] = ... in a loaded table.
Assign(t, p, new) == [q \in DOMAIN t \cup {p} |-> IF q = p THEN new ELSE t[q]]
Without(t, S)     == [q \in DOMAIN t \ S |-> t[q]]

Count(k)    == [added |-> k, kind |-> FALSE, until |-> 0]
Added(t, p) == IF p \in DOMAIN t THEN t[p].added ELSE 0

\* Mutant of Free: the loop runs other coroutines between the rows of a save.
Free_Awaits == TRUE

Free == pending = Empty      \* the event loop is not in the middle of a save

InUse(p) == direct \/ \E a \in Adders : on[a] = p

\* A statement does its work, or fails and leaves what it would have changed.
Try(done, failed) ==
  \/ done /\ UNCHANGED faults
  \/ failed /\ faults < MaxFaults /\ faults' = faults + 1

\* load_adder_limits: the table, or {} if the statement fails.
Loaded(t) == Try(t = table, t = Empty)

-----------------------------------------------------------------------------
Begin(a) ==
  /\ Free /\ on[a] = NoPhone
  /\ \E p \in Phones, t \in {table, Empty} :
       /\ Loaded(t)
       /\ on' = [on EXCEPT ![a] = p]
       /\ base' = [base EXCEPT ![a] = Added(t, p)]
       /\ disturbed' = IF InUse(p) THEN disturbed \cup {p} ELSE disturbed
  /\ n' = [n EXCEPT ![a] = 0]
  /\ UNCHANGED <<table, now, direct, memo, pending, thread, checked, sent, resets>>

End(a) ==
  /\ Free /\ on[a] # NoPhone
  /\ on' = [on EXCEPT ![a] = NoPhone]
  /\ base' = [base EXCEPT ![a] = 0] /\ n' = [n EXCEPT ![a] = 0]
  /\ UNCHANGED <<table, now, direct, memo, pending, thread, checked, history,
                 faults, resets>>

OneMore(a) ==
  /\ Free /\ on[a] # NoPhone /\ sent[on[a]] < MaxAdds
  /\ n' = [n EXCEPT ![a] = @ + 1]
  /\ sent' = [sent EXCEPT ![on[a]] = @ + 1]
  /\ UNCHANGED <<now, on, base, direct, memo, thread, checked, disturbed, resets>>

\* db.set_adder_limit(phone, already_added + acc_added)
WorkerAdd(a) ==
  /\ a \in Workers
  /\ OneMore(a)
  /\ Try(table' = Put(table, on[a], Count(base[a] + n[a] + 1)), UNCHANGED table)
  /\ UNCHANGED pending

\* The same with a limitation, for PEER_FLOOD and FloodWait.
WorkerFlood(a) ==
  /\ a \in Workers
  /\ Free /\ on[a] # NoPhone
  /\ \E c \in Cooldowns :
       /\ now + c <= MaxTime
       /\ Try(table' = Put(table, on[a], [added |-> base[a] + n[a],
                                          kind |-> TRUE, until |-> now + c]),
              UNCHANGED table)
  /\ UNCHANGED <<now, adders, pending, thread, checked, history, resets>>

\* Mutant of SingleAdd: the count just loaded is taken for the one the add began
\* with.
SingleAdd_Twice(a) ==
  /\ a \in Singles
  /\ OneMore(a)
  /\ \E t \in {table, Empty} :
       /\ Loaded(t)
       /\ pending' = Assign(t, on[a], Count(Added(t, on[a]) + n[a] + 1))
  /\ UNCHANGED table

SingleAdd(a) ==
  /\ a \in Singles
  /\ OneMore(a)
  /\ \E t \in {table, Empty} :
       /\ Loaded(t)
       /\ pending' = Assign(t, on[a], Count(base[a] + n[a] + 1))
  /\ UNCHANGED table

QuickAdd(a) ==
  /\ a \in Quick
  /\ OneMore(a)
  /\ \E t \in {table, Empty} :
       /\ Loaded(t)
       /\ pending' = Assign(t, on[a], Count(Added(t, on[a]) + 1))
  /\ UNCHANGED table

\* save_adder_limits, one row.
SaveRow ==
  /\ \E p \in DOMAIN pending :
       /\ Try(table' = Put(table, p, pending[p]), UNCHANGED table)
       /\ pending' = Without(pending, {p})
  /\ UNCHANGED <<now, adders, thread, checked, history, resets>>

\* _execute_parallel_direct_add, with all the accounts.
DirectBegin ==
  /\ Direct /\ Free /\ ~ direct
  /\ direct' = TRUE
  /\ Loaded(memo')
  /\ disturbed' = disturbed \cup {p \in Phones : InUse(p)}
  /\ UNCHANGED <<table, now, on, base, n, pending, thread, checked, sent, resets>>

\* Mutant of DirectAdd: the worker changes a copy of the table.
DirectAdd_Copy ==
  /\ Free /\ direct
  /\ \E p \in Phones :
       /\ sent[p] < MaxAdds
       /\ pending' = Assign(memo, p, Count(Added(memo, p) + 1))
       /\ sent' = [sent EXCEPT ![p] = @ + 1]
  /\ UNCHANGED <<table, now, on, base, n, direct, memo, thread, checked, disturbed,
                 faults, resets>>

DirectAdd ==
  /\ Free /\ direct
  /\ \E p \in Phones :
       /\ sent[p] < MaxAdds
       /\ memo' = Assign(memo, p, Count(Added(memo, p) + 1))
       /\ sent' = [sent EXCEPT ![p] = @ + 1]
  /\ pending' = memo'
  /\ UNCHANGED <<table, now, on, base, n, direct, thread, checked, disturbed,
                 faults, resets>>

DirectEnd ==
  /\ Free /\ direct
  /\ direct' = FALSE /\ memo' = Empty
  /\ UNCHANGED <<table, now, on, base, n, pending, thread, checked, history,
                 faults, resets>>

-----------------------------------------------------------------------------
\* A row has been set to zero by another thread.  Whoever is at work with the
\* account, or about to write its row, does not know.
Zeroed(S) ==
  /\ sent' = [p \in Phones |-> IF p \in S THEN 0 ELSE sent[p]]
  /\ disturbed' = (disturbed \ S) \cup
                  {p \in S : InUse(p) \/ p \in DOMAIN pending}

\* auto_reset_adder_limits_thread wakes up, Day or more after the last reset;
\* writes a zero for every phone it has seen; and notes the time.
ResetStart ==
  /\ resetAt = 0
  /\ now >= lastReset + Day
  /\ \E t \in {table, Empty} : Loaded(t) /\ zeroing' = DOMAIN t
  /\ resetAt' = now
  /\ UNCHANGED <<table, now, adders, pending, lastReset, checked, history, resets>>

ResetRow ==
  /\ \E p \in zeroing :
       /\ zeroing' = zeroing \ {p}
       /\ Try(table' = Put(table, p, Count(0)) /\ Zeroed({p}),
              UNCHANGED <<table, history>>)
  /\ UNCHANGED <<now, adders, pending, resetAt, lastReset, checked, resets>>

ResetEnd ==
  /\ resetAt > 0 /\ zeroing = {}
  /\ lastReset' = resetAt
  /\ resetAt' = 0
  /\ UNCHANGED <<table, now, adders, pending, zeroing, checked, history, faults,
                 resets>>

\* reset_adder_limits, for the button of the mini-app: one statement, which
\* leaves the limitations alone; if it fails, nobody is told.
WebReset ==
  /\ "web" \in Buttons /\ resets < MaxResets
  /\ resets' = resets + 1
  /\ Try(/\ table' = [p \in DOMAIN table |-> [table[p] EXCEPT !.added = 0]]
         /\ Zeroed(Phones),
         /\ disturbed' = Phones
         /\ UNCHANGED <<table, sent>>)
  /\ UNCHANGED <<now, adders, pending, thread, checked>>

\* The bot's buttons drop the rows from the loaded table and save the rest.
BotReset ==
  /\ "bot" \in Buttons /\ Free /\ resets < MaxResets
  /\ resets' = resets + 1
  /\ \E S \in {Phones} \cup {{p} : p \in DOMAIN table} :
       /\ pending' = Without(table, S)
       /\ sent' = [p \in Phones |-> IF p \in S THEN 0 ELSE sent[p]]
       /\ disturbed' = disturbed \cup S
  /\ UNCHANGED <<table, now, adders, thread, checked, faults>>

-----------------------------------------------------------------------------
\* get_account_status: a rest that is over is cleared by a second statement.
Over(p) == p \in DOMAIN table /\ table[p].until > 0 /\ now >= table[p].until

\* Mutant of Clear: the label stays.
Clear_Label(t, p) == IF p \in DOMAIN t THEN [t EXCEPT ![p].until = 0] ELSE t

Clear(t, p) == IF p \in DOMAIN t
                 THEN [t EXCEPT ![p].kind = FALSE, ![p].until = 0] ELSE t

\* In the event loop, where no limitation is recorded in between.
LoopCheck ==
  /\ Free
  /\ \E p \in Phones : /\ Over(p)
                       /\ Try(table' = Clear(table, p), UNCHANGED table)
  /\ UNCHANGED <<now, adders, pending, thread, checked, history, resets>>

\* In the HTTP thread.
HttpCheck ==
  /\ checked = NoPhone
  /\ \E p \in Phones : Over(p) /\ checked' = p
  /\ UNCHANGED <<table, now, adders, pending, thread, history, faults, resets>>

HttpClear ==
  /\ checked # NoPhone
  /\ Try(table' = Clear(table, checked), UNCHANGED table)
  /\ checked' = NoPhone
  /\ UNCHANGED <<now, adders, pending, thread, history, resets>>

Tick ==
  /\ now < MaxTime
  /\ now' = now + 1
  /\ UNCHANGED <<table, adders, pending, thread, checked, history, faults, resets>>

-----------------------------------------------------------------------------
Next ==
  \/ \E a \in Adders : \/ Begin(a) \/ End(a) \/ WorkerAdd(a) \/ WorkerFlood(a)
                       \/ SingleAdd(a) \/ QuickAdd(a)
  \/ SaveRow
  \/ DirectBegin \/ DirectAdd \/ DirectEnd
  \/ ResetStart \/ ResetRow \/ ResetEnd \/ WebReset \/ BotReset
  \/ LoopCheck \/ HttpCheck \/ HttpClear
  \/ Tick

Spec == Init /\ [][Next]_vars

-----------------------------------------------------------------------------
\* Although every add writes back all the rows it has loaded, no addition is
\* lost: the count of an account is what its adds have achieved since the last
\* reset, unless a statement has failed, two operations have had the account at
\* the same time or a reset has come in while one was at work with it.
NoLostCount ==
  \A p \in Phones :
    p \notin disturbed \cup DOMAIN pending /\ faults = 0
      => Added(table, p) = sent[p]

\* Whatever statements fail: an account is never said to have added more than it
\* has, for each write carries the whole count and repeats nothing.
NoOvercount ==
  \A p \in Phones :
    p \notin disturbed \cup DOMAIN pending => Added(table, p) <= sent[p]

\* The rest Telegram has imposed on an account survives the saves of other
\* accounts, the resets and the additions of the account itself.
Resting(p) == /\ p \in DOMAIN table
              /\ table[p].kind /\ table[p].until > now

RestKept ==
  [][\A p \in Phones :
       Resting(p) /\ ~ direct /\ checked # p
         => table'[p].kind /\ table'[p].until > now]_vars

\* CHANGELOG.md:812: an account whose rest is over comes back to work.  What ends
\* a rest looks for a time that is over, so a row that calls its account limited
\* must have such a time, however often it has been rewritten and by whom.
NoEndlessRest == \A p \in DOMAIN table : table[p].kind => table[p].until > 0

-----------------------------------------------------------------------------
\* What the program says, and does not do.

\* bot.py:5396 and web_app.py:2974: the counts have been reset.
ResetHolds == \A p \in Phones : Free => Added(table, p) <= sent[p]
=============================================================================
