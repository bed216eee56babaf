-------------------------- MODULE AdderLimitsProofs --------------------------
(***************************************************************************)
(* What the writers of adder_limits_tbl guarantee for any accounts, any       *)
(* adders of each kind and any times.                                       *)
(*                                                                         *)
(* A count in the table is never written from the table: the workers and the  *)
(* single adds carry their own, base + n, the others a table they have loaded. *)
(* Counted says how each of these stands to what has really been sent, as long  *)
(* as only one operation is concerned with the account.                      *)
(***************************************************************************)
EXTENDS AdderLimits, TLAPS

\* How a count stands to what was sent: never above it, and equal to it if no
\* statement has failed.
Fits(k, p) == k <= sent[p] /\ (faults = 0 => k = sent[p])

CountedFor(p) ==
  /\ Added(table, p) <= sent[p]
  /\ faults = 0 /\ p \notin DOMAIN pending => Added(table, p) = sent[p]
  /\ p \in DOMAIN pending => Fits(pending[p].added, p)
  /\ direct => Fits(Added(memo, p), p)
  /\ \A a \in Adders : on[a] = p => Fits(base[a] + n[a], p)

Counted == \A p \in Phones \ disturbed : CountedFor(p)

\* Two operations that have the account at the same time have disturbed it.
AloneWith(p) ==
  /\ direct => \A a \in Adders : on[a] # p
  /\ \A a, b \in Adders : on[a] = p /\ on[b] = p => a = b

Separate == \A p \in Phones \ disturbed : AloneWith(p)

\* A row that says limited says until when, in the table and in every copy of it.
Timed(t) == \A p \in DOMAIN t : t[p].kind => t[p].until > 0

Ending == Timed(table) /\ Timed(memo) /\ Timed(pending)

\* A save that is under way does not bring back an older rest.
Current ==
  ~ direct => \A p \in DOMAIN pending \cap DOMAIN table :
                pending[p].until > 0 /\ table[p].until > 0 => pending[p].until = table[p].until

LInv == TypeOK /\ Counted /\ Separate /\ Ending /\ Current

LEMMA Given ==
  /\ NoPhone \notin Phones /\ Cooldowns \subseteq Nat \ {0}
  /\ MaxAdds \in Nat /\ MaxTime \in Nat /\ MaxFaults \in Nat /\ MaxResets \in Nat
BY AdderLimitsAssumption

-----------------------------------------------------------------------------
(* The tables.                                                              *)

LEMMA AddedType == \A t : IsTable(t) => \A p \in Phones : Added(t, p) \in Nat
BY DEF IsTable, Added, Row

LEMMA EmptyFacts ==
  /\ IsTable(Empty) /\ DOMAIN Empty = {} /\ Timed(Empty)
  /\ \A p \in Phones : Added(Empty, p) = 0
BY DEF IsTable, Empty, Timed, Added

LEMMA CountRow == \A k \in Nat : Count(k) \in Row /\ Count(k).added = k
                                 /\ Count(k).kind = FALSE /\ Count(k).until = 0
BY DEF Count, Row

\* ON CONFLICT: the count is the new one, a rest is never taken away.
LEMMA PutFacts ==
  ASSUME NEW t, IsTable(t), NEW p \in Phones, NEW new \in Row
  PROVE  /\ IsTable(Put(t, p, new))
         /\ Added(Put(t, p, new), p) = new.added
         /\ \A q \in Phones \ {p} : Added(Put(t, p, new), q) = Added(t, q)
<1>0. /\ DOMAIN Put(t, p, new) = DOMAIN t \cup {p}
      /\ \A q \in DOMAIN t \ {p} : Put(t, p, new)[q] = t[q]
      /\ Put(t, p, new)[p] = IF p \in DOMAIN t THEN Merge(t[p], new) ELSE new
  BY DEF Put
<1>1. \A q \in DOMAIN t : Merge(t[q], new) \in Row /\ Merge(t[q], new).added = new.added
  BY DEF IsTable, Merge, Row
<1>2. \A q \in DOMAIN t \cup {p} : Put(t, p, new)[q] \in Row
  BY <1>0, <1>1 DEF IsTable
<1>3. IsTable(Put(t, p, new))
  <2>1. Put(t, p, new) = [q \in DOMAIN t \cup {p} |-> Put(t, p, new)[q]]
    BY DEF Put
  <2>2. DOMAIN t \cup {p} \subseteq Phones
    BY DEF IsTable
  <2> QED
    BY <1>0, <1>2, <2>1, <2>2 DEF IsTable
<1>4. \A q \in Phones \ {p} : Added(Put(t, p, new), q) = Added(t, q)
  BY <1>0 DEF Added
<1>5. Added(Put(t, p, new), p) = new.added
  BY <1>0, <1>1 DEF Added
<1> QED
  BY <1>3, <1>4, <1>5

LEMMA WithoutFacts ==
  ASSUME NEW t, IsTable(t), NEW S
  PROVE  /\ IsTable(Without(t, S)) /\ DOMAIN Without(t, S) = DOMAIN t \ S
         /\ \A q \in DOMAIN t \ S : Without(t, S)[q] = t[q]
BY DEF Without, IsTable

LEMMA ClearFacts ==
  ASSUME NEW t, IsTable(t), NEW p \in Phones
  PROVE  /\ IsTable(Clear(t, p)) /\ DOMAIN Clear(t, p) = DOMAIN t
         /\ \A q \in DOMAIN t \ {p} : Clear(t, p)[q] = t[q]
         /\ \A q \in Phones : Added(Clear(t, p), q) = Added(t, q)
         /\ p \in DOMAIN t => Clear(t, p)[p].kind = FALSE /\ Clear(t, p)[p].until = 0
BY DEF Clear, IsTable, Added, Row

Reset == [p \in DOMAIN table |-> [table[p] EXCEPT !.added = 0]]

LEMMA ResetFacts ==
  ASSUME IsTable(table)
  PROVE  /\ IsTable(Reset) /\ DOMAIN Reset = DOMAIN table
         /\ \A q \in DOMAIN table : Reset[q].kind = table[q].kind /\ Reset[q].until = table[q].until
         /\ \A q \in Phones : Added(Reset, q) = 0
BY DEF Reset, IsTable, Added, Row

LEMMA LoadedFacts ==
  ASSUME TypeOK, NEW t, Loaded(t)
  PROVE  /\ IsTable(t) /\ t \in {table, Empty} /\ faults' \in 0 .. MaxFaults
         /\ faults' = 0 => faults = 0 /\ t = table
BY EmptyFacts, Given DEF TypeOK, Loaded, Try

\* The same for a row that only counts.
LEMMA PutCount ==
  ASSUME NEW t, IsTable(t), NEW p \in Phones, NEW k \in Nat
  PROVE  /\ IsTable(Put(t, p, Count(k)))
         /\ \A q \in Phones : Added(Put(t, p, Count(k)), q) = IF q = p THEN k ELSE Added(t, q)
<1> DEFINE new == Count(k)
<1>1. new \in Row /\ new.added = k
  BY CountRow
<1> HIDE DEF new
<1>2. /\ IsTable(Put(t, p, new)) /\ Added(Put(t, p, new), p) = new.added
      /\ \A q \in Phones \ {p} : Added(Put(t, p, new), q) = Added(t, q)
  BY <1>1, PutFacts
<1> QED
  BY <1>1, <1>2 DEF new

LEMMA AssignCount ==
  ASSUME NEW t, IsTable(t), NEW p \in Phones, NEW k \in Nat
  PROVE  IsTable(Assign(t, p, Count(k)))
BY DEF Assign, IsTable, Count, Row

-----------------------------------------------------------------------------
(* Types.                                                                   *)

LEMMA OneMoreType ==
  ASSUME TypeOK, NEW a \in Adders, OneMore(a)
  PROVE  /\ on[a] \in Phones /\ base[a] + n[a] + 1 \in Nat
         /\ n' \in [Adders -> Nat] /\ sent' \in [Phones -> 0 .. MaxAdds]
BY Given DEF TypeOK, OneMore

LEMMA TypeStep ==
  ASSUME TypeOK, Next
  PROVE  TypeOK'
<1> USE Given
<1>1. ASSUME NEW a \in Adders, Begin(a) PROVE TypeOK'
  <2>1. PICK p \in Phones, t \in {table, Empty} :
          /\ Loaded(t)
          /\ on' = [on EXCEPT ![a] = p] /\ base' = [base EXCEPT ![a] = Added(t, p)]
          /\ disturbed' = IF InUse(p) THEN disturbed \cup {p} ELSE disturbed
    BY <1>1 DEF Begin
  <2>2. Added(t, p) \in Nat /\ faults' \in 0 .. MaxFaults
    BY <2>1, LoadedFacts, AddedType
  <2> QED
    BY <1>1, <2>1, <2>2 DEF TypeOK, Begin, thread
<1>2. ASSUME NEW a \in Adders, End(a) PROVE TypeOK'
  BY <1>2 DEF TypeOK, End, thread, history
<1>3. ASSUME NEW a \in Adders, WorkerAdd(a) PROVE TypeOK'
  <2>1. /\ OneMore(a) /\ pending' = pending
        /\ Try(table' = Put(table, on[a], Count(base[a] + n[a] + 1)), UNCHANGED table)
    BY <1>3 DEF WorkerAdd
  <2>2. faults' \in 0 .. MaxFaults
    BY <2>1 DEF TypeOK, Try
  <2>3. table' = Put(table, on[a], Count(base[a] + n[a] + 1)) \/ table' = table
    BY <2>1 DEF Try
  <2>4. IsTable(table) /\ on[a] \in Phones /\ base[a] + n[a] + 1 \in Nat
    BY <2>1, OneMoreType DEF TypeOK
  <2>5. IsTable(Put(table, on[a], Count(base[a] + n[a] + 1)))
    BY <2>4, PutCount
  <2>6. IsTable(table')
    BY <2>3, <2>4, <2>5
  <2> QED
    BY <2>1, <2>2, <2>6, OneMoreType DEF TypeOK, OneMore, thread
<1>4. ASSUME NEW a \in Adders, WorkerFlood(a) PROVE TypeOK'
  <2>1. PICK c \in Cooldowns :
          Try(table' = Put(table, on[a], [added |-> base[a] + n[a],
                                          kind |-> TRUE, until |-> now + c]),
              UNCHANGED table)
    BY <1>4 DEF WorkerFlood
  <2>2. on[a] \in Phones /\ [added |-> base[a] + n[a], kind |-> TRUE, until |-> now + c] \in Row
    BY <1>4 DEF TypeOK, WorkerFlood, Row
  <2>3. IsTable(table') /\ faults' \in 0 .. MaxFaults
    BY <2>1, <2>2, PutFacts DEF TypeOK, Try
  <2> QED
    BY <1>4, <2>3 DEF TypeOK, WorkerFlood, adders, thread, history
<1>5. ASSUME NEW a \in Adders, SingleAdd(a) \/ QuickAdd(a) PROVE TypeOK'
  <2>1. OneMore(a) /\ UNCHANGED table
    BY <1>5 DEF SingleAdd, QuickAdd
  <2>2. PICK t \in {table, Empty} :
          /\ Loaded(t)
          /\ \/ pending' = Assign(t, on[a], Count(base[a] + n[a] + 1))
             \/ pending' = Assign(t, on[a], Count(Added(t, on[a]) + 1))
    BY <1>5 DEF SingleAdd, QuickAdd
  <2>3. IsTable(t) /\ faults' \in 0 .. MaxFaults
    BY <2>2, LoadedFacts
  <2>4. Added(t, on[a]) + 1 \in Nat /\ on[a] \in Phones /\ base[a] + n[a] + 1 \in Nat
    BY <2>1, <2>3, OneMoreType, AddedType
  <2>5. IsTable(Assign(t, on[a], Count(base[a] + n[a] + 1)))
    BY <2>3, <2>4, AssignCount
  <2>6. IsTable(Assign(t, on[a], Count(Added(t, on[a]) + 1)))
    BY <2>3, <2>4, AssignCount
  <2>7. IsTable(pending')
    BY <2>2, <2>5, <2>6
  <2> QED
    BY <2>1, <2>3, <2>7, OneMoreType DEF TypeOK, OneMore, thread
<1>6. CASE SaveRow
  <2>1. PICK p \in DOMAIN pending : /\ Try(table' = Put(table, p, pending[p]), UNCHANGED table)
                                    /\ pending' = Without(pending, {p})
    BY <1>6 DEF SaveRow
  <2>2. p \in Phones /\ pending[p] \in Row /\ IsTable(table) /\ IsTable(pending)
    BY DEF TypeOK, IsTable
  <2>3. IsTable(Put(table, p, pending[p])) /\ IsTable(Without(pending, {p}))
    BY <2>2, PutFacts, WithoutFacts
  <2>4. table' = Put(table, p, pending[p]) \/ table' = table
    BY <2>1 DEF Try
  <2>5. IsTable(table') /\ IsTable(pending')
    BY <2>1, <2>2, <2>3, <2>4
  <2>6. faults' \in 0 .. MaxFaults
    BY <2>1 DEF TypeOK, Try
  <2> QED
    BY <1>6, <2>5, <2>6 DEF TypeOK, SaveRow, adders, thread, history
<1>7. CASE DirectBegin
  <2>1. IsTable(memo') /\ faults' \in 0 .. MaxFaults
    BY <1>7, LoadedFacts DEF DirectBegin
  <2> QED
    BY <1>7, <2>1 DEF TypeOK, DirectBegin, thread
<1>8. CASE DirectAdd
  <2>1. PICK p \in Phones : /\ memo' = Assign(memo, p, Count(Added(memo, p) + 1))
                            /\ sent[p] < MaxAdds
                            /\ sent' = [sent EXCEPT ![p] = @ + 1]
    BY <1>8 DEF DirectAdd
  <2>2. Added(memo, p) + 1 \in Nat /\ IsTable(memo)
    BY AddedType DEF TypeOK
  <2>3. IsTable(Assign(memo, p, Count(Added(memo, p) + 1)))
    BY <2>2, AssignCount
  <2>4. IsTable(memo')
    BY <2>1, <2>3
  <2>5. sent' \in [Phones -> 0 .. MaxAdds]
    BY <2>1 DEF TypeOK
  <2> QED
    BY <1>8, <2>4, <2>5 DEF TypeOK, DirectAdd, thread
<1>9. CASE DirectEnd
  BY <1>9, EmptyFacts DEF TypeOK, DirectEnd, thread, history
<1>10. CASE ResetStart
  <2>1. PICK t \in {table, Empty} : Loaded(t) /\ zeroing' = DOMAIN t
    BY <1>10 DEF ResetStart
  <2>2. IsTable(t) /\ faults' \in 0 .. MaxFaults
    BY <2>1, LoadedFacts
  <2> QED
    BY <1>10, <2>1, <2>2 DEF TypeOK, ResetStart, adders, history, IsTable
<1>11. CASE ResetRow
  <2>1. PICK p \in zeroing : /\ zeroing' = zeroing \ {p}
                             /\ Try(table' = Put(table, p, Count(0)) /\ Zeroed({p}),
                                    UNCHANGED <<table, history>>)
    BY <1>11 DEF ResetRow
  <2>2. faults' \in 0 .. MaxFaults
    BY <2>1 DEF Try, TypeOK
  <2>3. IsTable(Put(table, p, Count(0)))
    BY <1>11, PutCount DEF TypeOK
  <2>4. IsTable(table') /\ sent' \in [Phones -> 0 .. MaxAdds] /\ disturbed' \subseteq Phones
    BY <2>1, <2>3 DEF TypeOK, Try, Zeroed, history
  <2> QED
    BY <1>11, <2>1, <2>2, <2>4 DEF TypeOK, ResetRow, adders
<1>12. CASE ResetEnd
  BY <1>12 DEF TypeOK, ResetEnd, adders, history
<1>13. CASE WebReset
  <2>1. \/ table' = Reset /\ Zeroed(Phones)
        \/ disturbed' = Phones /\ UNCHANGED <<table, sent>>
    BY <1>13 DEF WebReset, Reset, Try
  <2>2. faults' \in 0 .. MaxFaults /\ resets' \in 0 .. MaxResets
    BY <1>13 DEF WebReset, Try, TypeOK
  <2>3. IsTable(Reset)
    BY ResetFacts DEF TypeOK
  <2>4. IsTable(table') /\ sent' \in [Phones -> 0 .. MaxAdds] /\ disturbed' \subseteq Phones
    BY <2>1, <2>3 DEF TypeOK, Zeroed
  <2> QED
    BY <1>13, <2>1, <2>2, <2>4 DEF TypeOK, WebReset, adders, thread
<1>14. CASE BotReset
  <2>1. PICK S \in {Phones} \cup {{p} : p \in DOMAIN table} :
          /\ pending' = Without(table, S) /\ disturbed' = disturbed \cup S
          /\ sent' = [p \in Phones |-> IF p \in S THEN 0 ELSE sent[p]]
    BY <1>14 DEF BotReset
  <2>2. S \subseteq Phones
    BY DEF TypeOK, IsTable
  <2>3. IsTable(pending')
    BY <2>1, WithoutFacts DEF TypeOK
  <2> QED
    BY <1>14, <2>1, <2>2, <2>3 DEF TypeOK, BotReset, adders, thread
<1>15. CASE LoopCheck
  <2>1. PICK p \in Phones : Try(table' = Clear(table, p), UNCHANGED table)
    BY <1>15 DEF LoopCheck
  <2>2. IsTable(table) /\ faults' \in 0 .. MaxFaults
    BY <2>1 DEF TypeOK, Try
  <2>3. IsTable(Clear(table, p))
    BY <2>2, ClearFacts
  <2>4. IsTable(table')
    BY <2>1, <2>2, <2>3 DEF Try
  <2> QED
    BY <1>15, <2>2, <2>4 DEF TypeOK, LoopCheck, adders, thread, history
<1>16. CASE HttpCheck
  BY <1>16 DEF TypeOK, HttpCheck, adders, thread, history
<1>17. CASE HttpClear
  <2>1. checked \in Phones /\ IsTable(table) /\ faults' \in 0 .. MaxFaults
    BY <1>17 DEF TypeOK, HttpClear, Try
  <2>2. IsTable(Clear(table, checked))
    BY <2>1, ClearFacts
  <2>3. IsTable(table')
    BY <1>17, <2>1, <2>2 DEF HttpClear, Try
  <2> QED
    BY <1>17, <2>1, <2>3 DEF TypeOK, HttpClear, adders, thread, history
<1>18. CASE Tick
  BY <1>18 DEF TypeOK, Tick, adders, thread, history
<1> QED
  BY <1>1, <1>2, <1>3, <1>4, <1>5, <1>6, <1>7, <1>8, <1>9, <1>10, <1>11, <1>12, <1>13, <1>14,
     <1>15, <1>16, <1>17, <1>18 DEF Next

-----------------------------------------------------------------------------
(* Who has the account.                                                     *)

LEMMA SeparateStep ==
  ASSUME TypeOK, Separate, Next
  PROVE  Separate'
<1> USE DEF TypeOK, Separate, AloneWith, InUse, adders, history
<1>1. ASSUME NEW a \in Adders, Begin(a) PROVE Separate'
  BY <1>1 DEF Begin
<1>2. ASSUME NEW a \in Adders, End(a) PROVE Separate'
  BY <1>2, Given DEF End
<1>3. ASSUME NEW a \in Adders, WorkerAdd(a) \/ SingleAdd(a) \/ QuickAdd(a) PROVE Separate'
  BY <1>3 DEF WorkerAdd, SingleAdd, QuickAdd, OneMore
<1>4. ASSUME NEW a \in Adders, WorkerFlood(a) PROVE Separate'
  BY <1>4 DEF WorkerFlood
<1>5. CASE DirectBegin
  BY <1>5 DEF DirectBegin
<1>6. CASE DirectAdd \/ DirectEnd
  BY <1>6 DEF DirectAdd, DirectEnd
<1>7. CASE ResetRow
  <2>1. UNCHANGED <<on, direct>> /\ \E p \in Phones : Zeroed({p}) \/ disturbed' = disturbed
    BY <1>7 DEF ResetRow, Try
  <2> QED
    BY <2>1 DEF Zeroed
<1>8. CASE WebReset
  <2>1. UNCHANGED <<on, direct>> /\ (Zeroed(Phones) \/ disturbed' = Phones)
    BY <1>8 DEF WebReset, Try
  <2> QED
    BY <2>1 DEF Zeroed
<1>9. CASE BotReset
  BY <1>9 DEF BotReset
<1>10. CASE SaveRow \/ ResetStart \/ ResetEnd \/ LoopCheck \/ HttpCheck \/ HttpClear \/ Tick
  BY <1>10 DEF SaveRow, ResetStart, ResetEnd, LoopCheck, HttpCheck, HttpClear, Tick
<1> QED
  BY <1>1, <1>2, <1>3, <1>4, <1>5, <1>6, <1>7, <1>8, <1>9, <1>10 DEF Next

-----------------------------------------------------------------------------
(* The counts.                                                              *)

\* While nobody saves, no row is pending.
LEMMA FreeFacts == Free => DOMAIN pending = {}
BY EmptyFacts DEF Free

\* Nothing happens to the counts of q.
LEMMA CountsSame ==
  ASSUME TypeOK, NEW q \in Phones, CountedFor(q), sent'[q] = sent[q],
         faults' = 0 => faults = 0,
         Added(table, q)' = Added(table, q),
         q \in DOMAIN pending' => q \in DOMAIN pending /\ pending'[q] = pending[q],
         q \in DOMAIN pending => q \in DOMAIN pending',
         direct' => direct /\ Added(memo, q)' = Added(memo, q),
         \A a \in Adders : on'[a] = q => on[a] = q /\ base'[a] + n'[a] = base[a] + n[a]
  PROVE  CountedFor(q)'
BY DEF CountedFor, Fits

\* What is loaded fits whenever the table does.
LEMMA LoadedFits ==
  ASSUME TypeOK, NEW q \in Phones, CountedFor(q), Free, NEW t, Loaded(t)
  PROVE  /\ Added(t, q) <= sent[q] /\ (faults' = 0 => Added(t, q) = sent[q])
         /\ q \in DOMAIN t => t[q].added = Added(t, q)
<1>1. /\ IsTable(t) /\ t \in {table, Empty} /\ (faults' = 0 => faults = 0 /\ t = table)
  BY LoadedFacts
<1>2. Added(Empty, q) = 0 /\ sent[q] \in Nat
  BY EmptyFacts, Given DEF TypeOK
<1>3. Added(t, q) <= sent[q]
  BY <1>1, <1>2 DEF CountedFor
<1>4. faults' = 0 => Added(t, q) = sent[q]
  BY <1>1, FreeFacts DEF CountedFor
<1> QED
  BY <1>3, <1>4 DEF Added

\* One more addition of a, whose new count k is written or handed to a save.
LEMMA AdderStep ==
  ASSUME TypeOK, Separate, Counted, NEW a \in Adders, WorkerAdd(a) \/ SingleAdd(a) \/ QuickAdd(a),
         NEW q \in Phones \ disturbed'
  PROVE  CountedFor(q)'
<1> DEFINE p == on[a]
<1>1. /\ OneMore(a) /\ p \in Phones /\ q \notin disturbed
      /\ UNCHANGED <<on, base, direct, memo>> /\ Free /\ DOMAIN pending = {}
      /\ sent'[q] = IF q = p THEN sent[q] + 1 ELSE sent[q]
      /\ \A x \in Adders : n'[x] = IF x = a THEN n[x] + 1 ELSE n[x]
      /\ n \in [Adders -> Nat] /\ base \in [Adders -> Nat] /\ sent[q] \in Nat
  <2>1. OneMore(a)
    BY DEF WorkerAdd, SingleAdd, QuickAdd
  <2>2. p \in Phones
    BY <2>1, OneMoreType
  <2>3. /\ UNCHANGED <<on, base, direct, memo, disturbed>> /\ Free
        /\ n' = [n EXCEPT ![a] = @ + 1] /\ sent' = [sent EXCEPT ![p] = @ + 1]
    BY <2>1 DEF OneMore
  <2>4. /\ n \in [Adders -> Nat] /\ base \in [Adders -> Nat]
        /\ sent \in [Phones -> 0 .. MaxAdds]
    BY DEF TypeOK
  <2>5. sent[q] \in Nat
    BY <2>4, Given
  <2> HIDE DEF p
  <2>6. /\ sent'[q] = IF q = p THEN sent[q] + 1 ELSE sent[q]
        /\ \A x \in Adders : n'[x] = IF x = a THEN n[x] + 1 ELSE n[x]
    BY <2>3, <2>4
  <2> QED
    BY <2>1, <2>2, <2>3, <2>4, <2>5, <2>6, FreeFacts
<1>2. CountedFor(q) /\ AloneWith(q)
  BY <1>1 DEF Counted, Separate
<1>3. CASE WorkerAdd(a)
  <2>1. /\ Try(table' = Put(table, p, Count(base[a] + n[a] + 1)), UNCHANGED table)
        /\ pending' = pending
    BY <1>3 DEF WorkerAdd
  <2>2. /\ faults' = 0 => faults = 0 /\ table' = Put(table, p, Count(base[a] + n[a] + 1))
        /\ table' = Put(table, p, Count(base[a] + n[a] + 1)) \/ UNCHANGED table
    BY <2>1, Given DEF Try, TypeOK
  <2>t. IsTable(table) /\ base[a] + n[a] + 1 \in Nat
    BY <1>1 DEF TypeOK
  <2>3. Added(Put(table, p, Count(base[a] + n[a] + 1)), q)
          = IF q = p THEN base[a] + n[a] + 1 ELSE Added(table, q)
    BY <1>1, <2>t, PutCount
  <2>4. CASE q # p
    <3>1. Added(table, q)' = Added(table, q)
      BY <2>2, <2>3, <2>4 DEF Added
    <3>2. Added(memo, q)' = Added(memo, q)
      BY <1>1 DEF Added
    <3> QED
      BY <1>1, <1>2, <2>1, <2>2, <2>4, <3>1, <3>2, CountsSame
  <2>5. CASE q = p
    <3>1. Fits(base[a] + n[a], q) /\ ~ direct /\ \A x \in Adders : on[x] = q => x = a
      BY <1>2, <2>5 DEF CountedFor, AloneWith
    <3>2. table' = Put(table, p, Count(base[a] + n[a] + 1)) => Added(table, q)' = base[a] + n[a] + 1
      BY <2>3, <2>5 DEF Added
    <3>3. UNCHANGED table => Added(table, q)' = Added(table, q)
      BY DEF Added
    <3>4. Added(table, q) \in Nat
      BY AddedType DEF TypeOK
    <3>5. Added(table, q) <= sent[q]
      BY <1>2 DEF CountedFor
    <3>6. base[a] + n[a] \in Nat
      BY <1>1
    <3> QED
      BY <1>1, <2>1, <2>2, <2>5, <3>1, <3>2, <3>3, <3>4, <3>5, <3>6 DEF CountedFor, Fits
  <2> QED
    BY <2>4, <2>5
<1>4. CASE SingleAdd(a) \/ QuickAdd(a)
  <2>1. PICK t \in {table, Empty} : \E k \in {base[a] + n[a] + 1, Added(t, p) + 1} :
          Loaded(t) /\ pending' = Assign(t, p, Count(k)) /\ UNCHANGED table
    BY <1>4 DEF SingleAdd, QuickAdd
  <2>k. PICK k \in {base[a] + n[a] + 1, Added(t, p) + 1} :
          Loaded(t) /\ pending' = Assign(t, p, Count(k)) /\ UNCHANGED table
    BY <2>1
  <2>2. /\ IsTable(t) /\ (faults' = 0 => faults = 0) /\ k \in Nat
    BY <1>1, <2>k, LoadedFacts, AddedType, OneMoreType
  <2>3. /\ DOMAIN pending' = DOMAIN t \cup {p} /\ pending'[p].added = k
        /\ \A x \in DOMAIN t \ {p} : pending'[x] = t[x]
    <3> DEFINE new == Count(k)
    <3>1. new.added = k
      BY <2>2, CountRow
    <3> HIDE DEF new
    <3>2. /\ DOMAIN Assign(t, p, new) = DOMAIN t \cup {p} /\ Assign(t, p, new)[p] = new
          /\ \A x \in DOMAIN t \ {p} : Assign(t, p, new)[x] = t[x]
      BY DEF Assign
    <3>3. pending' = Assign(t, p, new)
      BY <2>k DEF new
    <3> QED
      BY <3>1, <3>2, <3>3
  <2>4. /\ Added(t, q) <= sent[q] /\ (faults' = 0 => Added(t, q) = sent[q])
        /\ q \in DOMAIN t => t[q].added = Added(t, q)
    BY <1>1, <1>2, <2>k, LoadedFits
  <2>5. Added(table, q)' = Added(table, q) /\ Added(memo, q)' = Added(memo, q)
    BY <1>1, <2>k DEF Added
  <2>6. Added(table, q) \in Nat /\ Added(t, q) \in Nat
    BY <2>2, AddedType DEF TypeOK
  <2>7. CASE q # p
    BY <1>1, <1>2, <2>2, <2>3, <2>4, <2>5, <2>6, <2>7 DEF CountedFor, Fits
  <2>8. CASE q = p
    <3>1. Fits(base[a] + n[a], q) /\ ~ direct /\ \A x \in Adders : on[x] = q => x = a
      BY <1>2, <2>8 DEF CountedFor, AloneWith
    <3>2. base[a] + n[a] \in Nat
      BY <1>1
    <3>3. k <= sent[q] + 1 /\ (faults' = 0 => k = sent[q] + 1)
      BY <1>1, <2>k, <2>2, <2>4, <2>6, <2>8, <3>1, <3>2 DEF Fits
    <3>4. \A x \in Adders : on'[x] = q => base'[x] + n'[x] = base[a] + n[a] + 1
      BY <1>1, <3>1
    <3>5. \A x \in Adders : on'[x] = q => Fits(base[x] + n[x], q)'
      BY <1>1, <2>2, <2>8, <3>1, <3>2, <3>4 DEF Fits
    <3>6. Added(table, q) <= sent[q] + 1
      BY <1>1, <1>2, <2>6 DEF CountedFor
    <3> QED
      BY <1>1, <2>3, <2>5, <2>8, <3>1, <3>3, <3>5, <3>6 DEF CountedFor, Fits
  <2> QED
    BY <2>7, <2>8
<1> QED
  BY <1>3, <1>4

LEMMA CountedStep ==
  ASSUME TypeOK, Separate, Counted, Next
  PROVE  Counted'
<1> SUFFICES ASSUME NEW q \in Phones \ disturbed' PROVE CountedFor(q)'
  BY DEF Counted
<1>a. /\ sent[q] \in Nat /\ Added(table, q) \in Nat /\ Added(memo, q) \in Nat
      /\ Added(Empty, q) = 0
  BY AddedType, EmptyFacts, Given DEF TypeOK
<1>b. ASSUME UNCHANGED <<adders, sent, disturbed, pending>>, Added(table, q)' = Added(table, q),
             faults' = 0 => faults = 0
      PROVE  CountedFor(q)'
  <2>1. CountedFor(q)
    BY <1>b DEF Counted
  <2>2. Added(memo, q)' = Added(memo, q)
    BY <1>b DEF adders, Added
  <2> QED
    BY <1>b, <2>1, <2>2, CountsSame DEF adders
<1>1. ASSUME NEW a \in Adders, Begin(a) PROVE CountedFor(q)'
  <2>1. PICK p \in Phones, t \in {table, Empty} :
          /\ Loaded(t)
          /\ on' = [on EXCEPT ![a] = p] /\ base' = [base EXCEPT ![a] = Added(t, p)]
          /\ disturbed' = IF InUse(p) THEN disturbed \cup {p} ELSE disturbed
    BY <1>1 DEF Begin
  <2>2. /\ Free /\ DOMAIN pending = {} /\ n' = [n EXCEPT ![a] = 0]
        /\ UNCHANGED <<table, memo, direct, pending, sent>>
    BY <1>1, FreeFacts DEF Begin
  <2>3. CountedFor(q) /\ (faults' = 0 => faults = 0)
    BY <2>1, LoadedFacts DEF Counted
  <2>4. /\ Added(t, q) <= sent[q] /\ (faults' = 0 => Added(t, q) = sent[q]) /\ Added(t, q) \in Nat
    BY <1>a, <2>1, <2>2, <2>3, LoadedFits
  <2>5. Added(table, q)' = Added(table, q) /\ Added(memo, q)' = Added(memo, q)
    BY <2>2 DEF Added
  <2>6. ASSUME NEW x \in Adders, on'[x] = q PROVE Fits(base[x] + n[x], q)'
    <3>1. CASE x # a
      BY <2>1, <2>2, <2>3, <2>6, <3>1 DEF CountedFor, Fits, TypeOK
    <3>2. CASE x = a
      <4>1. q = p /\ base'[x] = Added(t, q) /\ n'[x] = 0
        BY <2>1, <2>2, <2>6, <3>2 DEF TypeOK
      <4> QED
        BY <2>2, <2>4, <4>1 DEF Fits
    <3> QED
      BY <3>1, <3>2
  <2> QED
    BY <2>2, <2>3, <2>5, <2>6 DEF CountedFor, Fits
<1>2. ASSUME NEW a \in Adders, End(a) PROVE CountedFor(q)'
  <2>1. /\ CountedFor(q) /\ UNCHANGED <<table, memo, direct, pending, sent, faults>>
        /\ \A x \in Adders : on'[x] = q => on[x] = q /\ base'[x] = base[x] /\ n'[x] = n[x]
    BY <1>2, Given DEF End, history, Counted, TypeOK
  <2>2. Added(table, q)' = Added(table, q) /\ Added(memo, q)' = Added(memo, q)
    BY <2>1 DEF Added
  <2> QED
    BY <2>1, <2>2, CountsSame
<1>3. ASSUME NEW a \in Adders, WorkerAdd(a) \/ SingleAdd(a) \/ QuickAdd(a) PROVE CountedFor(q)'
  BY <1>3, AdderStep
<1>4. ASSUME NEW a \in Adders, WorkerFlood(a) PROVE CountedFor(q)'
  <2>1. PICK c \in Cooldowns :
          Try(table' = Put(table, on[a], [added |-> base[a] + n[a],
                                          kind |-> TRUE, until |-> now + c]),
              UNCHANGED table)
    BY <1>4 DEF WorkerFlood
  <2> DEFINE new == [added |-> base[a] + n[a], kind |-> TRUE, until |-> now + c]
  <2>2. /\ on[a] \in Phones /\ new \in Row /\ new.added = base[a] + n[a]
        /\ DOMAIN pending = {} /\ UNCHANGED <<adders, pending, sent, disturbed>>
    BY <1>4, FreeFacts, Given DEF TypeOK, WorkerFlood, Row, history
  <2>3. /\ faults' = 0 => faults = 0
        /\ table' = Put(table, on[a], new) \/ UNCHANGED table
    BY <2>1, Given DEF Try, TypeOK
  <2>4. CountedFor(q)
    BY <2>2 DEF Counted
  <2>5. CASE UNCHANGED table
    BY <1>b, <2>2, <2>3, <2>5 DEF Added
  <2>6. CASE table' = Put(table, on[a], new)
    <3> HIDE DEF new
    <3>t. IsTable(table)
      BY DEF TypeOK
    <3>p. /\ Added(Put(table, on[a], new), on[a]) = new.added
          /\ \A x \in Phones \ {on[a]} : Added(Put(table, on[a], new), x) = Added(table, x)
      BY <2>2, <3>t, PutFacts
    <3>a. Added(table, q)' = Added(table', q)
      BY DEF Added
    <3>1. Added(table, q)' = IF q = on[a] THEN base[a] + n[a] ELSE Added(table, q)
      BY <2>2, <2>6, <3>p, <3>a
    <3>2. CASE q # on[a]
      BY <1>b, <2>2, <2>3, <3>1, <3>2
    <3>3. CASE q = on[a]
      <4>1. Fits(base[a] + n[a], q)
        BY <2>4, <3>3 DEF CountedFor
      <4>2. Added(memo, q)' = Added(memo, q)
        BY <2>2 DEF adders, Added
      <4> QED
        BY <2>2, <2>3, <2>4, <3>1, <3>3, <4>1, <4>2 DEF CountedFor, Fits, adders
    <3> QED
      BY <3>2, <3>3
  <2> QED
    BY <2>3, <2>5, <2>6
<1>5. CASE SaveRow
  <2>1. PICK p \in DOMAIN pending : /\ Try(table' = Put(table, p, pending[p]), UNCHANGED table)
                                    /\ pending' = Without(pending, {p})
    BY <1>5 DEF SaveRow
  <2>2. /\ p \in Phones /\ pending[p] \in Row /\ UNCHANGED <<adders, sent, disturbed>>
    BY <1>5 DEF SaveRow, TypeOK, IsTable, history
  <2>t. IsTable(table) /\ IsTable(pending)
    BY DEF TypeOK
  <2>3. /\ DOMAIN pending' = DOMAIN pending \ {p}
        /\ \A x \in DOMAIN pending \ {p} : pending'[x] = pending[x]
    BY <2>1, <2>t, WithoutFacts
  <2>4. /\ faults' = 0 => faults = 0 /\ table' = Put(table, p, pending[p])
        /\ table' = Put(table, p, pending[p]) \/ UNCHANGED table
    BY <2>1, Given DEF Try, TypeOK
  <2>5. Added(Put(table, p, pending[p]), q) = IF q = p THEN pending[p].added ELSE Added(table, q)
    BY <2>2, <2>t, PutFacts
  <2>6. CountedFor(q) /\ Added(memo, q)' = Added(memo, q)
    BY <2>2 DEF Counted, adders, Added
  <2>7. /\ table' = Put(table, p, pending[p])
             => Added(table, q)' = Added(Put(table, p, pending[p]), q)
        /\ UNCHANGED table => Added(table, q)' = Added(table, q)
    BY DEF Added
  <2>8. CASE q # p
    BY <2>2, <2>3, <2>4, <2>5, <2>6, <2>7, <2>8, CountsSame DEF adders
  <2>9. CASE q = p
    <3>1. Fits(pending[p].added, q)
      BY <2>6, <2>9 DEF CountedFor
    <3> QED
      BY <2>2, <2>3, <2>4, <2>5, <2>6, <2>7, <2>9, <3>1 DEF CountedFor, Fits, adders
  <2> QED
    BY <2>8, <2>9
<1>6. CASE DirectBegin
  <2>1. /\ Free /\ Loaded(memo') /\ DOMAIN pending = {} /\ q \notin disturbed
        /\ UNCHANGED <<table, on, base, n, pending, sent>>
    BY <1>6, FreeFacts DEF DirectBegin
  <2>2. CountedFor(q) /\ (faults' = 0 => faults = 0)
    BY <2>1, LoadedFacts DEF Counted
  <2>3. Added(memo', q) <= sent[q] /\ (faults' = 0 => Added(memo', q) = sent[q])
    BY <2>1, <2>2, LoadedFits
  <2>4. Added(table, q)' = Added(table, q) /\ Added(memo, q)' = Added(memo', q)
    BY <2>1 DEF Added
  <2> QED
    BY <2>1, <2>2, <2>3, <2>4 DEF CountedFor, Fits
<1>7. CASE DirectAdd
  <2>1. PICK p \in Phones : /\ memo' = Assign(memo, p, Count(Added(memo, p) + 1))
                            /\ sent' = [sent EXCEPT ![p] = @ + 1]
    BY <1>7 DEF DirectAdd
  <2>2. /\ Free /\ direct /\ DOMAIN pending = {} /\ pending' = memo'
        /\ UNCHANGED <<table, on, base, n, direct, disturbed, faults>>
    BY <1>7, FreeFacts DEF DirectAdd
  <2>3. CountedFor(q) /\ \A x \in Adders : on[x] # q
    BY <2>2 DEF Counted, Separate, AloneWith
  <2>4. Added(memo, p) + 1 \in Nat /\ IsTable(memo)
    BY AddedType DEF TypeOK
  <2>5. Added(memo', q) = IF q = p THEN Added(memo, q) + 1 ELSE Added(memo, q)
    <3> DEFINE new == Count(Added(memo, p) + 1)
    <3>1. new.added = Added(memo, p) + 1
      BY <2>4, CountRow
    <3> HIDE DEF new
    <3>2. Added(Assign(memo, p, new), q) = IF q = p THEN new.added ELSE Added(memo, q)
      BY DEF Assign, Added
    <3>3. memo' = Assign(memo, p, new)
      BY <2>1 DEF new
    <3> QED
      BY <3>1, <3>2, <3>3
  <2>6. /\ Added(table, q)' = Added(table, q) /\ Added(memo, q)' = Added(memo', q)
        /\ q \in DOMAIN pending' => pending'[q].added = Added(memo', q)
    BY <2>2 DEF Added
  <2>7. sent'[q] = IF q = p THEN sent[q] + 1 ELSE sent[q]
    BY <2>1 DEF TypeOK
  <2>d. DOMAIN Assign(memo, p, Count(Added(memo, p) + 1)) = DOMAIN memo \cup {p}
    BY DEF Assign
  <2>8. q \notin DOMAIN pending' => q # p /\ q \notin DOMAIN memo
    BY <2>1, <2>2, <2>d
  <2> QED
    BY <1>a, <2>2, <2>3, <2>5, <2>6, <2>7, <2>8 DEF CountedFor, Fits
<1>8. CASE DirectEnd
  <2>1. /\ CountedFor(q) /\ ~ direct' /\ UNCHANGED <<table, on, base, n, pending, sent, faults>>
    BY <1>8 DEF DirectEnd, history, Counted
  <2> QED
    BY <2>1 DEF CountedFor, Fits, Added
<1>9. CASE ResetStart
  <2>1. faults' = 0 => faults = 0
    BY <1>9, LoadedFacts DEF ResetStart
  <2> QED
    BY <1>9, <1>b, <2>1 DEF ResetStart, history, Added
<1>c. ASSUME Added(table', q) = 0, sent'[q] = 0, q \notin DOMAIN pending, ~ InUse(q),
             UNCHANGED <<adders, pending>>
      PROVE  CountedFor(q)'
  <2>1. Added(table, q)' = 0
    BY <1>c DEF Added
  <2> QED
    BY <1>c, <2>1 DEF CountedFor, Fits, InUse, adders
<1>10. CASE ResetRow
  <2>1. PICK p \in zeroing : Try(table' = Put(table, p, Count(0)) /\ Zeroed({p}),
                                 UNCHANGED <<table, history>>)
    BY <1>10 DEF ResetRow
  <2>2. faults' = 0 => faults = 0
    BY <2>1, Given DEF Try, TypeOK
  <2>3. UNCHANGED <<adders, pending>> /\ p \in Phones /\ IsTable(table)
    BY <1>10 DEF ResetRow, TypeOK
  <2>4. CASE UNCHANGED <<table, history>>
    BY <1>b, <2>2, <2>3, <2>4 DEF history, Added
  <2>5. CASE table' = Put(table, p, Count(0)) /\ Zeroed({p})
    <3>1. Added(table', q) = IF q = p THEN 0 ELSE Added(table, q)
      <4>1. Added(Put(table, p, Count(0)), q) = IF q = p THEN 0 ELSE Added(table, q)
        BY <2>3, PutCount
      <4> QED
        BY <2>5, <4>1
    <3>2. CASE q = p
      BY <1>c, <2>3, <2>5, <3>1, <3>2 DEF Zeroed
    <3>3. CASE q # p
      <4>1. CountedFor(q) /\ sent'[q] = sent[q]
        BY <2>5, <3>3 DEF Zeroed, Counted
      <4>2. Added(memo, q)' = Added(memo, q) /\ Added(table, q)' = Added(table, q)
        BY <2>3, <3>1, <3>3 DEF adders, Added
      <4> QED
        BY <2>2, <2>3, <4>1, <4>2, CountsSame DEF adders
    <3> QED
      BY <3>2, <3>3
  <2> QED
    BY <2>1, <2>4, <2>5 DEF Try
<1>11. CASE WebReset
  <2>1. UNCHANGED <<adders, pending>> /\ table' = Reset /\ Zeroed(Phones)
    BY <1>11 DEF WebReset, Reset, Try
  <2>2. Added(Reset, q) = 0
    BY ResetFacts DEF TypeOK
  <2>3. Added(table', q) = 0 /\ sent'[q] = 0 /\ q \notin DOMAIN pending /\ ~ InUse(q)
    BY <2>1, <2>2 DEF Zeroed
  <2> QED
    BY <1>c, <2>1, <2>3
<1>12. CASE BotReset
  <2>1. PICK S \in {Phones} \cup {{p} : p \in DOMAIN table} :
          /\ pending' = Without(table, S) /\ disturbed' = disturbed \cup S
          /\ sent' = [p \in Phones |-> IF p \in S THEN 0 ELSE sent[p]]
    BY <1>12 DEF BotReset
  <2>2. /\ q \notin S /\ CountedFor(q) /\ sent'[q] = sent[q] /\ DOMAIN pending = {}
        /\ UNCHANGED <<table, adders, faults>>
    BY <1>12, <2>1, FreeFacts DEF BotReset, Counted
  <2>t. IsTable(table)
    BY DEF TypeOK
  <2>w. /\ DOMAIN pending' = DOMAIN table \ S
        /\ \A x \in DOMAIN table \ S : pending'[x] = table[x]
    BY <2>1, <2>t, WithoutFacts
  <2>3. q \in DOMAIN pending' => pending'[q].added = Added(table, q)
    BY <2>w DEF Added
  <2>4. Added(memo, q)' = Added(memo, q) /\ Added(table, q)' = Added(table, q)
    BY <2>2 DEF adders, Added
  <2> QED
    BY <2>2, <2>3, <2>4 DEF CountedFor, Fits, adders
<1>13. CASE LoopCheck
  <2>1. PICK p \in Phones : Try(table' = Clear(table, p), UNCHANGED table)
    BY <1>13 DEF LoopCheck
  <2>2. /\ faults' = 0 => faults = 0
        /\ table' = Clear(table, p) \/ table' = table
        /\ IsTable(table)
    BY <2>1, Given DEF Try, TypeOK
  <2>c. Added(Clear(table, p), q) = Added(table, q)
    BY <2>2, ClearFacts
  <2>a. Added(table, q)' = Added(table', q)
    BY DEF Added
  <2>3. Added(table, q)' = Added(table, q)
    BY <2>2, <2>c, <2>a
  <2> QED
    BY <1>13, <1>b, <2>2, <2>3 DEF LoopCheck, history
<1>14. CASE HttpClear
  <2>1. (faults' = 0 => faults = 0) /\ (table' = Clear(table, checked) \/ table' = table)
    BY <1>14, Given DEF HttpClear, Try, TypeOK
  <2>2. checked \in Phones /\ IsTable(table)
    BY <1>14 DEF HttpClear, TypeOK
  <2>c. Added(Clear(table, checked), q) = Added(table, q)
    BY <2>2, ClearFacts
  <2>a. Added(table, q)' = Added(table', q)
    BY DEF Added
  <2>3. Added(table, q)' = Added(table, q)
    BY <2>1, <2>c, <2>a
  <2> QED
    BY <1>14, <1>b, <2>1, <2>3 DEF HttpClear, history
<1>15. CASE ResetEnd \/ HttpCheck \/ Tick
  BY <1>15, <1>b DEF ResetEnd, HttpCheck, Tick, history, Added
<1> QED
  BY <1>1, <1>2, <1>3, <1>4, <1>5, <1>6, <1>7, <1>8, <1>9, <1>10, <1>11, <1>12, <1>13, <1>14, <1>15
     DEF Next

-----------------------------------------------------------------------------
(* The rests.                                                               *)

\* A row for a count, or for a rest that has an end, keeps every rest ending.
LEMMA PutTimed ==
  ASSUME NEW t, IsTable(t), Timed(t), NEW p \in Phones, NEW new \in Row,
         new.kind => new.until > 0
  PROVE  Timed(Put(t, p, new))
<1>1. /\ DOMAIN Put(t, p, new) = DOMAIN t \cup {p}
      /\ \A q \in DOMAIN t \ {p} : Put(t, p, new)[q] = t[q]
      /\ Put(t, p, new)[p] = IF p \in DOMAIN t THEN Merge(t[p], new) ELSE new
  BY DEF Put
<1>2. p \in DOMAIN t /\ Merge(t[p], new).kind => Merge(t[p], new).until > 0
  BY DEF Merge, Timed, IsTable, Row
<1> QED
  BY <1>1, <1>2 DEF Timed

LEMMA CountTimed ==
  ASSUME NEW t, Timed(t), NEW p, NEW k
  PROVE  Timed(Assign(t, p, Count(k)))
BY DEF Timed, Assign, Count

LEMMA PutCountTimed ==
  ASSUME NEW t, IsTable(t), Timed(t), NEW p \in Phones, NEW k \in Nat
  PROVE  Timed(Put(t, p, Count(k)))
<1> DEFINE new == Count(k)
<1>1. new \in Row /\ new.kind = FALSE
  BY CountRow
<1> HIDE DEF new
<1>2. Timed(Put(t, p, new))
  BY <1>1, PutTimed
<1> QED
  BY <1>2 DEF new

LEMMA WithoutTimed ==
  ASSUME NEW t, Timed(t), NEW S
  PROVE  Timed(Without(t, S))
BY DEF Timed, Without

LEMMA ClearTimed ==
  ASSUME NEW t, IsTable(t), Timed(t), NEW p
  PROVE  Timed(Clear(t, p))
BY DEF Timed, Clear, IsTable, Row

LEMMA ResetTimed ==
  ASSUME IsTable(table), Timed(table)
  PROVE  Timed(Reset)
BY DEF Timed, Reset, IsTable, Row

LEMMA EndingStep ==
  ASSUME TypeOK, Ending, Next
  PROVE  Ending'
<1>0. /\ IsTable(table) /\ IsTable(memo) /\ IsTable(pending)
      /\ Timed(table) /\ Timed(memo) /\ Timed(pending)
  BY DEF TypeOK, Ending
<1>u. \A t : Timed(t) => (table' = t => Timed(table)') /\ (memo' = t => Timed(memo)')
                        /\ (pending' = t => Timed(pending)')
  BY DEF Timed
<1>1. ASSUME NEW a \in Adders, WorkerAdd(a) PROVE Ending'
  <2>1. table' = Put(table, on[a], Count(base[a] + n[a] + 1)) \/ table' = table
    BY <1>1 DEF WorkerAdd, Try
  <2>2. on[a] \in Phones /\ base[a] + n[a] + 1 \in Nat
    BY <1>1, OneMoreType DEF WorkerAdd
  <2>3. Timed(Put(table, on[a], Count(base[a] + n[a] + 1)))
    BY <1>0, <2>2, PutCountTimed
  <2>4. memo' = memo /\ pending' = pending
    BY <1>1 DEF WorkerAdd, OneMore
  <2> QED
    BY <1>0, <1>u, <2>1, <2>3, <2>4 DEF Ending
<1>2. ASSUME NEW a \in Adders, WorkerFlood(a) PROVE Ending'
  <2>1. PICK c \in Cooldowns :
          Try(table' = Put(table, on[a], [added |-> base[a] + n[a],
                                          kind |-> TRUE, until |-> now + c]),
              UNCHANGED table)
    BY <1>2 DEF WorkerFlood
  <2> DEFINE new == [added |-> base[a] + n[a], kind |-> TRUE, until |-> now + c]
  <2>2. on[a] \in Phones /\ new \in Row /\ new.until > 0
    BY <1>2, Given DEF TypeOK, WorkerFlood, Row
  <2>3. table' = Put(table, on[a], new) \/ table' = table
    BY <2>1 DEF Try
  <2> HIDE DEF new
  <2>4. Timed(Put(table, on[a], new))
    BY <1>0, <2>2, PutTimed
  <2>5. memo' = memo /\ pending' = pending
    BY <1>2 DEF WorkerFlood, adders
  <2> QED
    BY <1>0, <1>u, <2>3, <2>4, <2>5 DEF Ending
<1>3. ASSUME NEW a \in Adders, SingleAdd(a) \/ QuickAdd(a) PROVE Ending'
  <2>1. table' = table /\ memo' = memo
    BY <1>3 DEF SingleAdd, QuickAdd, OneMore
  <2>2. PICK t \in {table, Empty} :
          \/ pending' = Assign(t, on[a], Count(base[a] + n[a] + 1))
          \/ pending' = Assign(t, on[a], Count(Added(t, on[a]) + 1))
    BY <1>3 DEF SingleAdd, QuickAdd
  <2>3. Timed(t)
    BY <1>0, EmptyFacts
  <2>4. /\ Timed(Assign(t, on[a], Count(base[a] + n[a] + 1)))
        /\ Timed(Assign(t, on[a], Count(Added(t, on[a]) + 1)))
    BY <2>3, CountTimed
  <2> QED
    BY <1>0, <1>u, <2>1, <2>2, <2>4 DEF Ending
<1>4. CASE SaveRow
  <2>1. PICK p \in DOMAIN pending : /\ Try(table' = Put(table, p, pending[p]), UNCHANGED table)
                                    /\ pending' = Without(pending, {p})
    BY <1>4 DEF SaveRow
  <2>2. /\ p \in Phones /\ pending[p] \in Row
        /\ pending[p].kind => pending[p].until > 0
    BY <1>0 DEF IsTable, Timed
  <2>3. Timed(Put(table, p, pending[p])) /\ Timed(Without(pending, {p}))
    BY <1>0, <2>2, PutTimed, WithoutTimed
  <2>4. memo' = memo /\ (table' = Put(table, p, pending[p]) \/ table' = table)
    BY <1>4, <2>1 DEF SaveRow, adders, Try
  <2> QED
    BY <1>0, <1>u, <2>1, <2>3, <2>4 DEF Ending
<1>5. CASE DirectBegin
  <2>1. (memo' = table \/ memo' = Empty) /\ table' = table /\ pending' = pending
    BY <1>5 DEF DirectBegin, Loaded, Try
  <2> QED
    BY <1>0, <1>u, <2>1, EmptyFacts DEF Ending
<1>6. CASE DirectAdd
  <2>1. PICK p \in Phones : memo' = Assign(memo, p, Count(Added(memo, p) + 1))
    BY <1>6 DEF DirectAdd
  <2>2. table' = table /\ pending' = memo'
    BY <1>6 DEF DirectAdd
  <2>3. Timed(Assign(memo, p, Count(Added(memo, p) + 1)))
    BY <1>0, CountTimed
  <2> QED
    BY <1>0, <1>u, <2>1, <2>2, <2>3 DEF Ending
<1>7. CASE DirectEnd
  <2>1. memo' = Empty /\ table' = table /\ pending' = pending
    BY <1>7 DEF DirectEnd
  <2> QED
    BY <1>0, <1>u, <2>1, EmptyFacts DEF Ending
<1>8. CASE ResetRow
  <2>1. PICK p \in zeroing : table' = Put(table, p, Count(0)) \/ table' = table
    BY <1>8 DEF ResetRow, Try
  <2>2. p \in Phones /\ memo' = memo /\ pending' = pending
    BY <1>8 DEF ResetRow, adders, TypeOK
  <2>3. Timed(Put(table, p, Count(0)))
    BY <1>0, <2>2, PutCountTimed
  <2> QED
    BY <1>0, <1>u, <2>1, <2>2, <2>3 DEF Ending
<1>9. CASE WebReset
  <2>1. (table' = Reset \/ table' = table) /\ memo' = memo /\ pending' = pending
    BY <1>9 DEF WebReset, Reset, Try, adders
  <2> QED
    BY <1>0, <1>u, <2>1, ResetTimed DEF Ending
<1>10. CASE BotReset
  <2>1. PICK S : pending' = Without(table, S)
    BY <1>10 DEF BotReset
  <2>2. table' = table /\ memo' = memo
    BY <1>10 DEF BotReset, adders
  <2>3. Timed(Without(table, S))
    BY <1>0, WithoutTimed
  <2> QED
    BY <1>0, <1>u, <2>1, <2>2, <2>3 DEF Ending
<1>11. CASE LoopCheck \/ HttpClear
  <2>1. PICK p : table' = Clear(table, p) \/ table' = table
    BY <1>11 DEF LoopCheck, HttpClear, Try
  <2>2. memo' = memo /\ pending' = pending
    BY <1>11 DEF LoopCheck, HttpClear, adders
  <2>3. Timed(Clear(table, p))
    BY <1>0, ClearTimed
  <2> QED
    BY <1>0, <1>u, <2>1, <2>2, <2>3 DEF Ending
<1>12. ASSUME UNCHANGED <<table, memo, pending>> PROVE Ending'
  BY <1>0, <1>u, <1>12 DEF Ending
<1>13. ASSUME NEW a \in Adders, Begin(a) \/ End(a) PROVE Ending'
  BY <1>12, <1>13 DEF Begin, End
<1>14. CASE ResetStart \/ ResetEnd \/ HttpCheck \/ Tick
  BY <1>12, <1>14 DEF ResetStart, ResetEnd, HttpCheck, Tick, adders
<1> QED
  BY <1>1, <1>2, <1>3, <1>4, <1>5, <1>6, <1>7, <1>8, <1>9, <1>10, <1>11, <1>13, <1>14 DEF Next

LEMMA CurrentStep ==
  ASSUME TypeOK, Current, Next
  PROVE  Current'
<1>0. /\ IsTable(table) /\ IsTable(pending) /\ DOMAIN Empty = {}
      /\ Free => DOMAIN pending = {}
  BY EmptyFacts, FreeFacts DEF TypeOK
<1>1. ASSUME Free, pending' = pending PROVE Current'
  BY <1>0, <1>1 DEF Current
<1>2. CASE direct'
  BY <1>2 DEF Current
<1>3. ASSUME NEW a \in Adders, Begin(a) \/ End(a) \/ WorkerAdd(a) \/ WorkerFlood(a) PROVE Current'
  BY <1>1, <1>3 DEF Begin, End, WorkerAdd, WorkerFlood, OneMore
<1>4. ASSUME NEW a \in Adders, SingleAdd(a) \/ QuickAdd(a) PROVE Current'
  <2>1. table' = table
    BY <1>4 DEF SingleAdd, QuickAdd
  <2>2. PICK t \in {table, Empty} :
          \/ pending' = Assign(t, on[a], Count(base[a] + n[a] + 1))
          \/ pending' = Assign(t, on[a], Count(Added(t, on[a]) + 1))
    BY <1>4 DEF SingleAdd, QuickAdd
  <2>3. /\ DOMAIN pending' = DOMAIN t \cup {on[a]} /\ pending'[on[a]].until = 0
        /\ \A q \in DOMAIN t \ {on[a]} : pending'[q] = t[q]
    BY <2>2 DEF Assign, Count
  <2> QED
    BY <1>0, <2>1, <2>2, <2>3 DEF Current
<1>5. CASE SaveRow
  <2>1. PICK p \in DOMAIN pending : /\ Try(table' = Put(table, p, pending[p]), UNCHANGED table)
                                    /\ pending' = Without(pending, {p})
    BY <1>5 DEF SaveRow
  <2>2. /\ p \in Phones /\ pending[p] \in Row /\ direct' = direct
        /\ table' = Put(table, p, pending[p]) \/ table' = table
    BY <1>0, <1>5, <2>1 DEF SaveRow, adders, IsTable, Try
  <2>3. /\ DOMAIN pending' = DOMAIN pending \ {p}
        /\ \A q \in DOMAIN pending \ {p} : pending'[q] = pending[q]
    BY <1>0, <2>1, WithoutFacts
  <2>4. /\ DOMAIN Put(table, p, pending[p]) = DOMAIN table \cup {p}
        /\ \A q \in DOMAIN table \ {p} : Put(table, p, pending[p])[q] = table[q]
    BY DEF Put
  <2>5. CASE table' = table
    BY <2>2, <2>3, <2>5 DEF Current
  <2>6. CASE table' = Put(table, p, pending[p])
    BY <2>2, <2>3, <2>4, <2>6 DEF Current
  <2> QED
    BY <2>2, <2>5, <2>6
<1>6. CASE DirectBegin \/ DirectAdd
  BY <1>2, <1>6 DEF DirectBegin, DirectAdd
<1>7. CASE DirectEnd \/ LoopCheck
  BY <1>1, <1>7 DEF DirectEnd, LoopCheck
<1>8. CASE ResetRow
  <2>1. PICK p \in zeroing : table' = Put(table, p, Count(0)) \/ table' = table
    BY <1>8 DEF ResetRow, Try
  <2>2. p \in Phones /\ pending' = pending /\ direct' = direct
    BY <1>8 DEF ResetRow, adders, TypeOK
  <2>3. CASE table' = table
    BY <2>2, <2>3 DEF Current
  <2>4. CASE table' = Put(table, p, Count(0))
    <3> DEFINE new == Count(0)
    <3>1. new \in Row /\ new.until = 0
      BY CountRow
    <3> HIDE DEF new
    <3>2. /\ DOMAIN Put(table, p, new) = DOMAIN table \cup {p}
          /\ \A q \in DOMAIN table \ {p} : Put(table, p, new)[q] = table[q]
          /\ p \in DOMAIN table => Put(table, p, new)[p].until = table[p].until
          /\ p \notin DOMAIN table => Put(table, p, new)[p].until = 0
      BY <1>0, <2>2, <3>1 DEF Put, Merge, IsTable, Row
    <3>3. table' = Put(table, p, new)
      BY <2>4 DEF new
    <3> QED
      BY <2>2, <3>2, <3>3 DEF Current
  <2> QED
    BY <2>1, <2>3, <2>4
<1>9. CASE WebReset
  <2>1. (table' = Reset \/ table' = table) /\ direct' = direct /\ pending' = pending
    BY <1>9 DEF WebReset, Reset, Try, adders
  <2>2. /\ DOMAIN Reset = DOMAIN table
        /\ \A q \in DOMAIN table : Reset[q].until = table[q].until
    BY <1>0, ResetFacts
  <2> QED
    BY <2>1, <2>2 DEF Current
<1>10. CASE BotReset
  <2>1. PICK S : pending' = Without(table, S)
    BY <1>10 DEF BotReset
  <2>2. table' = table
    BY <1>10 DEF BotReset
  <2>3. /\ DOMAIN pending' = DOMAIN table \ S
        /\ \A q \in DOMAIN table \ S : pending'[q] = table[q]
    BY <1>0, <2>1, WithoutFacts
  <2> QED
    BY <2>2, <2>3 DEF Current
<1>11. CASE HttpClear
  <2>1. /\ checked \in Phones /\ pending' = pending /\ direct' = direct
        /\ table' = Clear(table, checked) \/ table' = table
    BY <1>11 DEF HttpClear, adders, TypeOK, Try
  <2>2. /\ DOMAIN Clear(table, checked) = DOMAIN table
        /\ \A q \in DOMAIN table \ {checked} : Clear(table, checked)[q] = table[q]
        /\ checked \in DOMAIN table => Clear(table, checked)[checked].until = 0
    BY <1>0, <2>1, ClearFacts
  <2> QED
    BY <2>1, <2>2 DEF Current
<1>12. CASE ResetStart \/ ResetEnd \/ HttpCheck \/ Tick
  BY <1>12 DEF ResetStart, ResetEnd, HttpCheck, Tick, adders, Current
<1> QED
  BY <1>3, <1>4, <1>5, <1>6, <1>7, <1>8, <1>9, <1>10, <1>11, <1>12 DEF Next

\* A step leaves a rest alone that has not ended, unless a parallel direct add
\* writes back its copy or the HTTP thread has already seen an older rest end.
LEMMA RestStep ==
  ASSUME TypeOK, Current, Next, NEW p \in Phones, Resting(p), ~ direct, checked # p
  PROVE  table'[p].kind /\ table'[p].until > now
<1> DEFINE Kept == table'[p].kind /\ table'[p].until > now
<1>0. /\ IsTable(table) /\ IsTable(pending) /\ now \in Nat
      /\ p \in DOMAIN table /\ table[p].kind /\ table[p].until > now /\ table[p].until \in Nat
  BY Given DEF TypeOK, Resting, IsTable, Row
<1>1. table' = table => Kept
  BY <1>0
\* A row that names no rest, a later one, or the one that is there.
<1>2. ASSUME NEW q, NEW new \in Row, table' = Put(table, q, new),
             q = p => new.until = 0 \/ new.until > now
      PROVE  Kept
  <2>1. CASE q # p
    <3>1. table'[p] = table[p]
      BY <1>0, <1>2, <2>1 DEF Put
    <3> QED
      BY <1>0, <3>1
  <2>2. CASE q = p
    <3>1. table'[p] = Merge(table[p], new)
      BY <1>0, <1>2, <2>2 DEF Put
    <3>2. Merge(table[p], new).kind /\ Merge(table[p], new).until > now
      BY <1>0, <1>2, <2>2 DEF Merge, Row, IsTable
    <3> QED
      BY <3>1, <3>2
  <2> QED
    BY <2>1, <2>2
<1>3. \A k \in Nat : Count(k) \in Row /\ Count(k).until = 0
  BY CountRow
<1>4. ASSUME NEW a \in Adders, WorkerAdd(a) PROVE Kept
  <2>1. table' = Put(table, on[a], Count(base[a] + n[a] + 1)) \/ table' = table
    BY <1>4 DEF WorkerAdd, Try
  <2>2. base[a] + n[a] + 1 \in Nat
    BY <1>4, OneMoreType DEF WorkerAdd
  <2> DEFINE new == Count(base[a] + n[a] + 1)
  <2>3. new \in Row /\ new.until = 0
    BY <1>3, <2>2
  <2>4. table' = Put(table, on[a], new) \/ table' = table
    BY <2>1
  <2> HIDE DEF new
  <2> QED
    BY <1>1, <1>2, <2>3, <2>4
<1>5. ASSUME NEW a \in Adders, WorkerFlood(a) PROVE Kept
  <2>1. PICK c \in Cooldowns :
          Try(table' = Put(table, on[a], [added |-> base[a] + n[a],
                                          kind |-> TRUE, until |-> now + c]),
              UNCHANGED table)
    BY <1>5 DEF WorkerFlood
  <2> DEFINE new == [added |-> base[a] + n[a], kind |-> TRUE, until |-> now + c]
  <2>2. new \in Row /\ new.until > now
    BY <1>0, <1>5, Given DEF TypeOK, WorkerFlood, Row
  <2>3. table' = Put(table, on[a], new) \/ table' = table
    BY <2>1 DEF Try
  <2> HIDE DEF new
  <2> QED
    BY <1>1, <1>2, <2>2, <2>3
<1>6. CASE SaveRow
  <2>1. PICK q \in DOMAIN pending : table' = Put(table, q, pending[q]) \/ table' = table
    BY <1>6 DEF SaveRow, Try
  <2>2. pending[q] \in Row /\ pending[q].until \in Nat
    BY <1>0 DEF IsTable, Row
  <2>3. q = p => pending[q].until = 0 \/ pending[q].until > now
    BY <1>0, <2>2 DEF Current
  <2> QED
    BY <1>1, <1>2, <2>1, <2>2, <2>3
<1>7. CASE ResetRow
  <2>1. PICK q \in zeroing : table' = Put(table, q, Count(0)) \/ table' = table
    BY <1>7 DEF ResetRow, Try
  <2> DEFINE new == Count(0)
  <2>2. new \in Row /\ new.until = 0
    BY <1>3
  <2>3. table' = Put(table, q, new) \/ table' = table
    BY <2>1
  <2> HIDE DEF new
  <2> QED
    BY <1>1, <1>2, <2>2, <2>3
<1>8. CASE WebReset
  <2>1. table' = Reset \/ table' = table
    BY <1>8 DEF WebReset, Reset, Try
  <2>2. Reset[p].kind = table[p].kind /\ Reset[p].until = table[p].until
    BY <1>0, ResetFacts
  <2> QED
    BY <1>0, <1>1, <2>1, <2>2
<1>9. CASE LoopCheck
  <2>1. PICK q \in Phones : Over(q) /\ (table' = Clear(table, q) \/ table' = table)
    BY <1>9 DEF LoopCheck, Try
  <2>2. q # p
    BY <1>0, <2>1 DEF Over
  <2>3. Clear(table, q)[p] = table[p]
    BY <1>0, <2>2 DEF Clear
  <2> QED
    BY <1>0, <1>1, <2>1, <2>3
<1>10. CASE HttpClear
  <2>1. table' = Clear(table, checked) \/ table' = table
    BY <1>10 DEF HttpClear, Try
  <2>2. Clear(table, checked)[p] = table[p]
    BY <1>0 DEF Clear
  <2> QED
    BY <1>0, <1>1, <2>1, <2>2
<1>11. ASSUME NEW a \in Adders, Begin(a) \/ End(a) \/ SingleAdd(a) \/ QuickAdd(a) PROVE Kept
  BY <1>1, <1>11 DEF Begin, End, SingleAdd, QuickAdd
<1>12. CASE \/ DirectBegin \/ DirectAdd \/ DirectEnd \/ ResetStart \/ ResetEnd
            \/ BotReset \/ HttpCheck \/ Tick
  BY <1>1, <1>12 DEF DirectBegin, DirectAdd, DirectEnd, ResetStart, ResetEnd, BotReset,
                     HttpCheck, Tick
<1> QED
  BY <1>4, <1>5, <1>6, <1>7, <1>8, <1>9, <1>10, <1>11, <1>12 DEF Next

-----------------------------------------------------------------------------
(* The invariant, and what follows from it.                                 *)

LEMMA InitLInv == Init => LInv
<1> SUFFICES ASSUME Init PROVE LInv
  OBVIOUS
<1>0. /\ IsTable(table) /\ IsTable(memo) /\ IsTable(pending) /\ DOMAIN pending = {}
      /\ \A p \in Phones : Added(table, p) = 0
  BY EmptyFacts DEF Init
<1>1. TypeOK
  <2>1. /\ now \in 0 .. MaxTime /\ resetAt \in 0 .. MaxTime /\ lastReset \in 0 .. MaxTime
        /\ faults \in 0 .. MaxFaults /\ resets \in 0 .. MaxResets
    BY Given DEF Init
  <2>2. /\ on \in [Adders -> Phones \cup {NoPhone}] /\ base \in [Adders -> Nat]
        /\ n \in [Adders -> Nat] /\ sent \in [Phones -> 0 .. MaxAdds]
    BY Given DEF Init
  <2>3. /\ direct \in BOOLEAN /\ zeroing \subseteq Phones /\ disturbed \subseteq Phones
        /\ checked \in Phones \cup {NoPhone}
    BY DEF Init
  <2> QED
    BY <1>0, <2>1, <2>2, <2>3 DEF TypeOK
<1>2. Counted
  <2> SUFFICES ASSUME NEW p \in Phones PROVE CountedFor(p)
    BY DEF Counted
  <2>1. sent[p] = 0 /\ ~ direct /\ \A a \in Adders : on[a] # p
    BY Given DEF Init
  <2> QED
    BY <1>0, <2>1 DEF CountedFor
<1>3. Separate
  BY Given DEF Init, Separate, AloneWith
<1>4. Ending /\ Current
  BY EmptyFacts DEF Init, Ending, Current
<1> QED
  BY <1>1, <1>2, <1>3, <1>4 DEF LInv

LEMMA StepLInv == LInv /\ [Next]_vars => LInv'
<1>1. ASSUME LInv, Next PROVE LInv'
  BY <1>1, TypeStep, CountedStep, SeparateStep, EndingStep, CurrentStep DEF LInv
<1>2. ASSUME LInv, UNCHANGED vars PROVE LInv'
  BY <1>2 DEF LInv, vars, adders, thread, history, TypeOK, Counted, CountedFor, Fits, Separate,
              AloneWith, Ending, Timed, Current, Added
<1> QED
  BY <1>1, <1>2

LEMMA AlwaysLInv == Spec => []LInv
BY InitLInv, StepLInv, PTL DEF Spec

\* Every variable keeps its type, and every counter its bound.
THEOREM TypeCorrect == Spec => []TypeOK
BY AlwaysLInv, PTL DEF LInv

\* NoLostCount: writing whole tables back loses no addition.
THEOREM CountsAreKept == Spec => []NoLostCount
<1>1. LInv => NoLostCount
  BY DEF LInv, Counted, CountedFor, NoLostCount
<1> QED
  BY <1>1, AlwaysLInv, PTL

\* NoOvercount: whatever statements fail, no account is said to have added more
\* than it has.
THEOREM NoOvercounting == Spec => []NoOvercount
<1>1. LInv => NoOvercount
  BY DEF LInv, Counted, CountedFor, NoOvercount
<1> QED
  BY <1>1, AlwaysLInv, PTL

\* NoEndlessRest: a row that says limited says until when.
THEOREM RestsEnd == Spec => []NoEndlessRest
<1>1. LInv => NoEndlessRest
  BY DEF LInv, Ending, Timed, NoEndlessRest
<1> QED
  BY <1>1, AlwaysLInv, PTL

\* RestKept: the rest Telegram has imposed on an account survives the saves of
\* other accounts, the resets and the additions of the account itself.
THEOREM RestsAreKept == Spec => RestKept
<1>1. LInv /\ [Next]_vars =>
        [\A p \in Phones : Resting(p) /\ ~ direct /\ checked # p
                           => table'[p].kind /\ table'[p].until > now]_vars
  BY RestStep DEF LInv
<1> QED
  BY <1>1, AlwaysLInv, PTL DEF Spec, RestKept
=============================================================================
