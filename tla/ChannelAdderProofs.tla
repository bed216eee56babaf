------------------------- MODULE ChannelAdderProofs -------------------------
(***************************************************************************)
(* What the files of channel_adder.py say, for any accounts and users, any   *)
(* limit, any number of ends of the program and of writes that fail.         *)
(*                                                                         *)
(* None of the properties is inductive: what the history misses depends on     *)
(* where an invitation stands (Underway), and what an account has invited on    *)
(* what the loop keeps in its variables (Counting), which goes on counting when  *)
(* the files are not written any more.                                      *)
(***************************************************************************)
EXTENDS ChannelAdder, FiniteSetTheorems, TLAPS

Adding == {"next", "invite", "note", "count", "noteAlready"}

\* An add has an account; outside of one there is none.  A history that is being
\* written has been read before.
Placed ==
  /\ place \in {"down", "menu"} <=> phone = Nil
  /\ uid # Nil <=> place \in {"invite", "note", "count", "noteAlready"}
  /\ writing = "history" => "history" \notin broken

\* The two local counters lie between the limit in the file and the invitations,
\* and what is left to do does not exceed the limit.
Counting ==
  place \in Adding =>
    /\ limits[phone] <= already + added
    /\ already + added <= invited[phone]
    /\ invited[phone] <= already + added + crashes + faults
    /\ already + added + Cardinality(todo) <= MaxAdd
    /\ place = "invite" => already + added + Cardinality(todo) < MaxAdd

\* Nobody left to do is in the history; who has been answered and is not yet
\* written down is not in it either.
Underway ==
  /\ place \in Adding => todo \cap history = {} /\ uid \notin todo
  /\ place \in {"invite", "note", "noteAlready"} => uid \notin history
  /\ place \in {"note", "noteAlready"} => uid \in answered

\* CountTrue, also while only the limits cannot be read.
CountKept ==
  \A a \in Account :
    /\ limits[a] <= invited[a]
    /\ "history" \notin broken => invited[a] <= limits[a] + crashes + faults + Pending(a)

ChInv == TypeOK /\ Placed /\ Counting /\ Underway /\ CountKept /\ WithinLimit /\ HistoryTrue

LEMMA Bounds ==
  /\ MaxAdd \in Nat /\ MaxAdd > 0 /\ MaxCrashes \in Nat /\ MaxFaults \in Nat /\ MaxResets \in Nat
  /\ IsFiniteSet(User) /\ Nil \notin Account /\ Nil \notin User /\ Nil # "history"
BY ChannelAdderAssumption DEF Json

LEMMA Least == ASSUME NEW m \in Nat, NEW n \in Nat PROVE Min({m, n}) \in Nat /\ Min({m, n}) <= n
BY DEF Min

LEMMA Remainder ==
  ASSUME NEW m \in 0 .. MaxAdd
  PROVE  MaxAdd - m \in Nat /\ m + (MaxAdd - m) = MaxAdd
BY Bounds

LEMMA OneMore ==
  ASSUME NEW i \in Nat, NEW l \in Nat, NEW c \in Nat, NEW f \in Nat, NEW d \in Nat, NEW g \in Nat,
         i <= l + c + f + 1, c + f + 1 = d + g
  PROVE  i <= l + d + g
OBVIOUS

\* Everything counted is finite.
LEMMA Finite ==
  ASSUME NEW S \in SUBSET User
  PROVE  IsFiniteSet(S) /\ Cardinality(S) \in Nat
BY Bounds, FS_Subset, FS_CardinalityType

LEMMA Counted == TypeOK => Cardinality(todo) \in Nat /\ Cardinality(answered \ history) \in Nat
BY Finite DEF TypeOK

LEMMA InitChInv == Init => ChInv
<1> SUFFICES ASSUME Init PROVE ChInv
  OBVIOUS
<1> USE Bounds DEF Init
<1>1. TypeOK
  BY DEF TypeOK, Places
<1>2. Cardinality(answered \ history) = 0
  BY FS_EmptySet
<1>3. CountKept /\ WithinLimit
  BY DEF CountKept, WithinLimit, Pending
<1> QED
  BY <1>1, <1>2, <1>3 DEF ChInv, Placed, Counting, Adding, Underway, HistoryTrue

\* In an add the numbers of its account are numbers.
LEMMA Numbers ==
  ASSUME TypeOK, Placed, place \in Adding
  PROVE  /\ phone \in Account /\ limits[phone] \in Nat /\ limits[phone] <= MaxAdd
         /\ invited[phone] \in Nat /\ already \in Nat /\ added \in Nat
         /\ Cardinality(todo) \in Nat /\ crashes \in Nat /\ faults \in Nat
<1>1. phone \in Account
  BY DEF TypeOK, Placed, Adding
<1> QED
  BY <1>1, Bounds, Counted DEF TypeOK

-----------------------------------------------------------------------------
\* The types: the counters stay within the limit because Counting bounds them.
LEMMA TypeStep == TypeOK /\ Placed /\ Counting /\ [Next]_vars => TypeOK'
<1> SUFFICES ASSUME TypeOK, Placed, Counting, [Next]_vars PROVE TypeOK'
  OBVIOUS
<1>a. /\ {"down", "menu", "connected", "next", "invite", "note", "count", "noteAlready"} = Places
      /\ {"accounts", "limits", "history"} = Json
  BY DEF Places, Json
<1>b. 0 \in 0..MaxAdd
  BY Bounds
<1> USE DEF TypeOK, At, AtMenu, Opens, Menu, Idle, NextUser, files, locals, outside, bounds
<1>c. ASSUME NEW file \in Json, Unread(file) \/ Fails(file)
      PROVE  broken' \subseteq Json /\ faults' \in 0..MaxFaults /\ UNCHANGED writing
  BY <1>c, Bounds DEF Unread, Fails
<1>1. CASE Start \/ Exit \/ GiveUp \/ Done
  BY <1>1, <1>a, <1>b DEF Start, Exit, GiveUp, Done
<1>2. CASE Crash
  <2>1. crashes' \in 0..MaxCrashes
    BY <1>2, Bounds DEF Crash
  <2> QED
    BY <1>2, <2>1, <1>a, <1>b DEF Crash
<1>3. CASE Close
  BY <1>3 DEF Close
<1>4. ASSUME NEW a \in Account, Login(a) \/ Choose(a) PROVE TypeOK'
  BY <1>4, <1>a DEF Login, Choose
<1>5. ASSUME NEW as, Reset(as) PROVE TypeOK'
  <2>1. resets' \in 0..MaxResets
    BY <1>5, Bounds DEF Reset
  <2>2. limits' \in [Account -> 0..MaxAdd] /\ invited' \in [Account -> Nat]
    BY <1>5, <1>b DEF Reset
  <2> QED
    BY <1>5, <2>1, <2>2, <1>a DEF Reset
<1>6. ASSUME NEW l \in SUBSET User, Import(l) PROVE TypeOK'
  BY <1>6 DEF Import
<1>7. ASSUME NEW l \in SUBSET User, Begin(l) PROVE TypeOK'
  <2>1. phone \in Account
    BY <1>7 DEF Begin, Placed
  <2>2. limits[phone] \in 0..MaxAdd
    BY <2>1
  <2>3. UNCHANGED <<files, outside, bounds>>
    BY <1>7 DEF Begin
  <2>4. /\ place' \in Places /\ phone' \in Account \cup {Nil} /\ uid' \in User \cup {Nil}
        /\ todo' \subseteq User /\ already' \in 0..MaxAdd /\ added' \in 0..MaxAdd
    BY <1>7, <2>2, <1>a, <1>b DEF Begin, kSubset
  <2> QED
    BY <2>3, <2>4
<1>8. ASSUME NEW u \in User, Take(u) PROVE TypeOK'
  BY <1>8, <1>a DEF Take
<1>9. CASE Accepted
  <2>1. uid \in User /\ phone \in Account
    BY <1>9 DEF Accepted, Placed
  <2>2. invited' \in [Account -> Nat]
    BY <1>9, <2>1 DEF Accepted
  <2>3. added' \in 0..MaxAdd
    BY <1>9, Bounds, Numbers DEF Accepted, Counting, Adding
  <2> QED
    BY <1>9, <2>1, <2>2, <2>3, <1>a DEF Accepted
<1>10. CASE AlreadyIn
  <2>1. uid \in User
    BY <1>10 DEF AlreadyIn, Placed
  <2> QED
    BY <1>10, <2>1, <1>a DEF AlreadyIn
<1>11. CASE Refused
  BY <1>11, <1>a, <1>b DEF Refused
<1>12. CASE Note
  <2>1. uid \in User
    BY <1>12 DEF Note, Placed
  <2> QED
    BY <1>12, <2>1, <1>a DEF Note
<1>13. CASE Count
  <2>1. already + added \in 0..MaxAdd
    BY <1>13, Bounds, Numbers DEF Count, Counting, Adding
  <2> QED
    BY <1>13, <2>1, <1>a DEF Count
<1>14. CASE NoteAlready
  <2>1. uid \in User
    BY <1>14 DEF NoteAlready, Placed
  <2> QED
    BY <1>14, <2>1, <1>a DEF NoteAlready
<1>15. CASE MenuFails \/ NotCounted \/ NotNotedAlready
  <2>1. broken' \subseteq Json /\ faults' \in 0..MaxFaults /\ UNCHANGED writing
    BY <1>15, <1>a, <1>c DEF MenuFails, NotCounted, NotNotedAlready
  <2> QED
    BY <1>15, <2>1, <1>a, <1>b DEF MenuFails, NotCounted, NotNotedAlready
<1>16. CASE UNCHANGED vars
  BY <1>16 DEF vars
<1> QED
  BY <1>1, <1>2, <1>3, <1>4, <1>5, <1>6, <1>7, <1>8, <1>9, <1>10, <1>11, <1>12, <1>13, <1>14,
     <1>15, <1>16 DEF Next

LEMMA PlacedStep == TypeOK /\ Placed /\ [Next]_vars => Placed'
<1> SUFFICES ASSUME TypeOK, Placed, [Next]_vars PROVE Placed'
  OBVIOUS
<1> USE Bounds DEF Placed, At, AtMenu, Menu, Idle, NextUser, Opens, files, locals, outside, bounds
<1>1. CASE Start \/ Exit \/ Crash \/ Close \/ GiveUp \/ Done
  BY <1>1 DEF Start, Exit, Crash, Close, GiveUp, Done
<1>2. ASSUME NEW a \in Account, Login(a) \/ Choose(a) PROVE Placed'
  BY <1>2 DEF Login, Choose
<1>3. ASSUME NEW as, Reset(as) PROVE Placed'
  BY <1>3 DEF Reset
<1>4. ASSUME NEW l \in SUBSET User, Import(l) \/ Begin(l) PROVE Placed'
  BY <1>4 DEF Import, Begin
<1>5. ASSUME NEW u \in User, Take(u) PROVE Placed'
  BY <1>5 DEF Take
<1>6. CASE Accepted \/ AlreadyIn \/ Refused \/ Note \/ Count \/ NoteAlready
  BY <1>6 DEF Accepted, AlreadyIn, Refused, Note, Count, NoteAlready
<1>7. CASE MenuFails \/ NotCounted \/ NotNotedAlready
  BY <1>7 DEF MenuFails, NotCounted, NotNotedAlready, Unread, Fails
<1>8. CASE UNCHANGED vars
  BY <1>8 DEF vars
<1> QED
  BY <1>1, <1>2, <1>3, <1>4, <1>5, <1>6, <1>7, <1>8 DEF Next

-----------------------------------------------------------------------------
\* The steps that touch nothing of what is counted.
Elsewhere ==
  \/ Start \/ Exit \/ Close \/ GiveUp \/ Done \/ Refused
  \/ \E a \in Account : Login(a) \/ Choose(a)
  \/ \E l \in SUBSET User : Import(l) \/ Begin(l)
  \/ \E u \in User : Take(u)
  \/ UNCHANGED vars

\* The steps that lose something: each is counted, or finds the history broken.
Loses == Crash \/ MenuFails \/ NotCounted \/ NotNotedAlready

LEMMA ElsewhereNothing ==
  ASSUME TypeOK, Placed, Elsewhere
  PROVE  /\ UNCHANGED <<limits, history, answered, invited, crashes, faults>>
         /\ "history" \in broken => "history" \in broken'
         /\ (place \in {"note", "count", "noteAlready"} \/ place' \in {"note", "count", "noteAlready"})
              => UNCHANGED <<place, phone, uid>>
<1> USE DEF At, AtMenu, Menu, Idle, NextUser, files, locals, outside, bounds, Opens
<1>1. CASE Start \/ Exit \/ Close \/ GiveUp \/ Done \/ Refused
  BY <1>1 DEF Start, Exit, Close, GiveUp, Done, Refused, Placed
<1>2. ASSUME NEW a \in Account, Login(a) \/ Choose(a)
      PROVE  /\ UNCHANGED <<limits, history, answered, invited, crashes, faults, broken>>
             /\ place \in {"menu", "connected"} /\ place' \in {"menu", "connected"}
  BY <1>2 DEF Login, Choose
<1>3. ASSUME NEW l \in SUBSET User, Import(l) \/ Begin(l)
      PROVE  /\ UNCHANGED <<limits, history, answered, invited, crashes, faults, broken>>
             /\ place \in {"menu", "connected"} /\ place' \in {"menu", "connected", "down", "next"}
  BY <1>3 DEF Import, Begin
<1>4. ASSUME NEW u \in User, Take(u)
      PROVE  /\ UNCHANGED <<limits, history, answered, invited, crashes, faults, broken>>
             /\ place = "next" /\ place' \in {"next", "invite"}
  BY <1>4 DEF Take
<1>5. CASE UNCHANGED vars
  BY <1>5 DEF vars
<1> QED
  BY <1>1, <1>2, <1>3, <1>4, <1>5 DEF Elsewhere

LEMMA LosesOne ==
  ASSUME TypeOK, Loses
  PROVE  /\ UNCHANGED <<limits, history, answered, invited>>
         /\ crashes \in Nat /\ faults \in Nat /\ crashes' \in Nat /\ faults' \in Nat
         /\ crashes' + faults' >= crashes + faults
         /\ "history" \in broken => "history" \in broken'
         /\ "history" \notin broken' => crashes' + faults' = crashes + faults + 1
         /\ place' \notin {"note", "count", "noteAlready", "invite"}
         /\ place' = "next" =>
              place \in {"note", "count"} /\ uid' = Nil /\ UNCHANGED <<phone, todo, already, added>>
<1> USE Bounds DEF TypeOK, At, AtMenu, Menu, Idle, NextUser, outside, locals
<1>1. CASE Crash
  BY <1>1 DEF Crash
<1>2. ASSUME NEW file, Unread(file) \/ Fails(file), file # "history" => Fails(file),
             UNCHANGED crashes
      PROVE  /\ crashes \in Nat /\ faults \in Nat /\ crashes' \in Nat /\ faults' \in Nat
             /\ crashes' + faults' >= crashes + faults
             /\ "history" \in broken => "history" \in broken'
             /\ "history" \notin broken' => crashes' + faults' = crashes + faults + 1
  BY <1>2 DEF Unread, Fails
<1>3. CASE MenuFails
  BY <1>2, <1>3 DEF MenuFails
<1>4. CASE NotCounted
  BY <1>2, <1>4 DEF NotCounted
<1>5. CASE NotNotedAlready
  BY <1>2, <1>5 DEF NotNotedAlready
<1> QED
  BY <1>1, <1>3, <1>4, <1>5 DEF Loses

LEMMA CountingStep ==
  TypeOK /\ Placed /\ Counting /\ CountKept /\ [Next]_vars => Counting'
<1> SUFFICES ASSUME TypeOK, Placed, Counting, CountKept, [Next]_vars, (place \in Adding)'
             PROVE  Counting'
  BY DEF Counting
<1> USE DEF Adding
<1>1. CASE Start \/ Exit \/ GiveUp \/ Done \/ MenuFails \/ Crash \/ NotNotedAlready
  BY <1>1 DEF Start, Exit, GiveUp, Done, MenuFails, Crash, NotNotedAlready, AtMenu, At, Menu
<1>2. CASE Close \/ UNCHANGED vars
  BY <1>2 DEF Close, vars, Counting, locals, outside, bounds, files
<1>3. ASSUME NEW a \in Account, Login(a) \/ Choose(a) PROVE FALSE
  BY <1>3 DEF Login, Choose, AtMenu, At
<1>4. ASSUME NEW as, Reset(as) PROVE FALSE
  BY <1>4 DEF Reset, AtMenu, At
<1>5. ASSUME NEW l \in SUBSET User, Import(l) PROVE FALSE
  BY <1>5 DEF Import, AtMenu, At
<1>6. ASSUME NEW l \in SUBSET User, Begin(l) PROVE Counting'
  <2> DEFINE room == MaxAdd - limits[phone]
             left == Cardinality(l \ history)
  <2>1. phone \in Account /\ limits[phone] \in 0 .. MaxAdd
    BY <1>6 DEF Begin, TypeOK, Placed, At
  <2>2. left \in Nat
    BY Finite
  <2>3. room \in Nat /\ limits[phone] + room = MaxAdd
    BY <2>1, Remainder
  <2>4. PICK ids \in kSubset(Min({left, room}), l \ history) :
          /\ place' = "next" /\ todo' = ids /\ already' = limits[phone] /\ added' = 0
          /\ UNCHANGED <<limits, phone, invited, crashes, faults>>
    BY <1>6 DEF Begin, Menu, Idle, files, outside, bounds
  <2>5. "history" \notin broken /\ place = "connected"
    BY <1>6 DEF Begin, At
  <2>6. Cardinality(ids) \in Nat /\ Cardinality(ids) <= room
    <3> HIDE DEF room, left
    <3> QED
      BY <2>2, <2>3, <2>4, Least DEF kSubset
  <2>7. limits[phone] + Cardinality(ids) <= MaxAdd
    BY <2>1, <2>3, <2>6, Bounds
  <2>8. invited[phone] <= limits[phone] + crashes + faults /\ limits[phone] <= invited[phone]
    <3>1. Pending(phone) = 0
      BY <2>5 DEF Pending
    <3> QED
      BY <2>1, <2>5, <3>1, Bounds DEF CountKept, TypeOK
  <2>9. already' + added' = limits[phone] /\ limits'[phone'] = limits[phone]
    BY <2>1, <2>4
  <2>10. Cardinality(todo') = Cardinality(ids) /\ place' # "invite"
         /\ invited'[phone'] = invited[phone] /\ crashes' = crashes /\ faults' = faults
    BY <2>4
  <2>11. limits[phone] \in Nat
    BY <2>1, Bounds
  <2>12. already' + added' + Cardinality(todo') <= MaxAdd
    BY <2>7, <2>9, <2>10
  <2>13. invited'[phone'] <= already' + added' + crashes' + faults'
    BY <2>8, <2>9, <2>10
  <2> HIDE DEF room, left
  <2> QED
    BY <2>8, <2>9, <2>10, <2>11, <2>12, <2>13 DEF Counting
<1>7. CASE place \in Adding /\ ~ Close /\ ~ UNCHANGED vars
  <2> DEFINE n == Cardinality(todo)
  <2>1. /\ already \in Nat /\ added \in Nat /\ limits[phone] \in Nat /\ n \in Nat /\ MaxAdd \in Nat
        /\ invited[phone] \in Nat /\ crashes \in Nat /\ faults \in Nat
    BY <1>7, Numbers, Bounds
  <2>2. /\ limits[phone] <= already + added
        /\ already + added <= invited[phone]
        /\ invited[phone] <= already + added + crashes + faults
        /\ already + added + n <= MaxAdd
        /\ place = "invite" => already + added + n < MaxAdd
    BY <1>7 DEF Counting
  <2>3. ASSUME NEW u \in User, Take(u) PROVE Counting'
    <3>1. Cardinality(todo') = n - 1
      BY <2>3, Finite, FS_RemoveElement DEF Take, TypeOK
    <3>2. UNCHANGED <<limits, phone, already, added, invited, crashes, faults>>
      BY <2>3 DEF Take, files, outside, bounds
    <3> QED
      BY <2>1, <2>2, <3>1, <3>2 DEF Counting
  <2>4. CASE AlreadyIn \/ Refused \/ NoteAlready \/ Note
    <3>1. /\ Cardinality(todo') = n
          /\ UNCHANGED <<limits, phone, already, added, invited, crashes, faults>>
          /\ place' # "invite"
      BY <1>7, <2>4
         DEF AlreadyIn, Refused, NoteAlready, Note, NextUser, Menu, files, locals, outside, bounds
    <3> QED
      BY <2>2, <3>1 DEF Counting
  <2>5. CASE Accepted
    <3>1. /\ place = "invite" /\ place' = "note" /\ added' = added + 1
          /\ invited'[phone'] = invited[phone] + 1
          /\ UNCHANGED <<limits, phone, already, todo, crashes, faults>>
      BY <1>7, <2>5, Numbers DEF Accepted, At, TypeOK, files, bounds
    <3>2. limits'[phone'] <= already' + added' /\ already' + added' <= invited'[phone']
      BY <2>1, <2>2, <3>1
    <3>3. invited'[phone'] <= already' + added' + crashes' + faults'
      BY <2>1, <2>2, <3>1
    <3>4. already' + added' + Cardinality(todo') <= MaxAdd
      <4>1. Cardinality(todo') = n /\ already + added + n < MaxAdd
        BY <2>2, <3>1
      <4> HIDE DEF n
      <4> QED
        BY <2>1, <3>1, <4>1
    <3> QED
      BY <3>1, <3>2, <3>3, <3>4 DEF Counting
  <2>6. CASE Count
    <3>1. /\ place' = "next" /\ limits'[phone'] = already + added
          /\ UNCHANGED <<phone, already, added, todo, invited, crashes, faults>>
      BY <1>7, <2>6, Numbers DEF Count, NextUser, TypeOK, outside, bounds
    <3> QED
      BY <2>1, <2>2, <3>1 DEF Counting
  <2>7. CASE NotCounted
    <3>1. /\ place' = "next" /\ UNCHANGED <<limits, phone, already, added, todo, invited>>
          /\ crashes' \in Nat /\ faults' \in Nat /\ crashes' + faults' >= crashes + faults
      BY <2>7, LosesOne DEF Loses, NotCounted, NextUser
    <3>2. invited[phone] <= already + added + crashes' + faults'
      BY <2>1, <2>2, <3>1
    <3> QED
      BY <2>2, <3>1, <3>2 DEF Counting
  <2> QED
    BY <1>1, <1>3, <1>4, <1>5, <1>6, <1>7, <2>3, <2>4, <2>5, <2>6, <2>7 DEF Next
<1>8. CASE place \notin Adding /\ ~ Close /\ ~ UNCHANGED vars
  <2>1. ASSUME NEW u \in User, Take(u) PROVE Counting'
    BY <1>8, <2>1 DEF Take, At
  <2>2. CASE Accepted \/ AlreadyIn \/ Refused \/ Note \/ Count \/ NoteAlready \/ NotCounted
    BY <1>8, <2>2 DEF Accepted, AlreadyIn, Refused, Note, Count, NoteAlready, NotCounted, At
  <2> QED
    BY <1>1, <1>3, <1>4, <1>5, <1>6, <1>8, <2>1, <2>2 DEF Next
<1> QED
  BY <1>2, <1>7, <1>8

LEMMA UnderwayStep == TypeOK /\ Placed /\ Underway /\ [Next]_vars => Underway'
<1> SUFFICES ASSUME TypeOK, Placed, Underway, [Next]_vars PROVE Underway'
  OBVIOUS
<1> USE DEF Underway, Adding, At, AtMenu, Menu, Idle, NextUser, files, locals, outside, bounds
<1>1. CASE Start \/ Exit \/ GiveUp \/ Done \/ MenuFails \/ Crash \/ NotNotedAlready
  BY <1>1 DEF Start, Exit, GiveUp, Done, MenuFails, Crash, NotNotedAlready
<1>2. CASE Close \/ UNCHANGED vars
  BY <1>2 DEF Close, vars
<1>3. ASSUME NEW a \in Account, Login(a) \/ Choose(a) PROVE Underway'
  BY <1>3 DEF Login, Choose
<1>4. ASSUME NEW as, Reset(as) PROVE Underway'
  BY <1>4 DEF Reset
<1>5. ASSUME NEW l \in SUBSET User, Import(l) PROVE Underway'
  BY <1>5 DEF Import
<1>6. ASSUME NEW l \in SUBSET User, Begin(l) PROVE Underway'
  <2>1. CASE place' # "next"
    BY <1>6, <2>1 DEF Begin
  <2>2. CASE place' = "next"
    <3>1. todo' \subseteq l \ history /\ uid' = uid /\ history' = history
      BY <1>6, <2>2 DEF Begin, kSubset
    <3>2. uid = Nil
      BY <1>6 DEF Begin, Placed
    <3> QED
      BY <2>2, <3>1, <3>2, Bounds DEF TypeOK
  <2> QED
    BY <2>1, <2>2
<1>7. ASSUME NEW u \in User, Take(u) PROVE Underway'
  <2>1. place = "next" /\ place' \in {"next", "invite"} /\ todo' = todo \ {u} /\ u \in todo
        /\ history' = history /\ uid' \in {u, uid} /\ (place' = "invite" => uid' = u)
    BY <1>7 DEF Take
  <2> QED
    BY <2>1
<1>8. CASE Accepted \/ AlreadyIn \/ Refused
  BY <1>8, Bounds DEF Accepted, AlreadyIn, Refused, TypeOK
<1>9. CASE Note \/ NoteAlready \/ Count \/ NotCounted
  BY <1>9, Bounds DEF Note, NoteAlready, Count, NotCounted, TypeOK
<1> QED
  BY <1>1, <1>2, <1>3, <1>4, <1>5, <1>6, <1>7, <1>8, <1>9 DEF Next

-----------------------------------------------------------------------------
LEMMA CountStep == TypeOK /\ Placed /\ Counting /\ CountKept /\ [Next]_vars => CountKept'
<1> SUFFICES ASSUME TypeOK, Placed, Counting, CountKept, [Next]_vars, NEW a \in Account
             PROVE  /\ limits'[a] <= invited'[a]
                    /\ "history" \notin broken' =>
                         invited'[a] <= limits'[a] + crashes' + faults' + Pending(a)'
  BY DEF CountKept
<1>a. /\ limits[a] \in Nat /\ invited[a] \in Nat /\ crashes \in Nat /\ faults \in Nat
      /\ limits[a] <= invited[a]
      /\ "history" \notin broken => invited[a] <= limits[a] + crashes + faults + Pending(a)
  BY Bounds DEF TypeOK, CountKept
<1>b. Pending(a) \in {0, 1} /\ Pending(a)' \in {0, 1}
  BY DEF Pending
<1>1. CASE Elsewhere
  <2>1. UNCHANGED <<limits, invited, crashes, faults>> /\ ("history" \in broken => "history" \in broken')
    BY <1>1, ElsewhereNothing
  <2>2. Pending(a)' = Pending(a)
    BY <1>1, ElsewhereNothing DEF Pending
  <2> QED
    BY <2>1, <2>2, <1>a, <1>b
<1>2. CASE Loses
  <2>1. /\ UNCHANGED <<limits, invited>>
        /\ crashes' \in Nat /\ faults' \in Nat
        /\ "history" \in broken => "history" \in broken'
        /\ "history" \notin broken' => crashes' + faults' = crashes + faults + 1
    BY <1>2, LosesOne
  <2>2. Pending(a)' \in {0, 1}
    BY <1>b
  <2>3. CASE "history" \in broken'
    BY <2>1, <2>3, <1>a
  <2>4. CASE "history" \notin broken'
    <3>1. invited[a] <= limits[a] + crashes + faults + Pending(a)
      BY <2>1, <2>4, <1>a
    <3>2. invited[a] <= limits[a] + crashes + faults + 1
      BY <3>1, <1>a, <1>b
    <3>3. /\ limits'[a] = limits[a] /\ invited'[a] = invited[a]
          /\ crashes' + faults' = crashes + faults + 1
      BY <2>1, <2>4
    <3>4. invited'[a] <= limits'[a] + crashes' + faults'
      <4> DEFINE l == limits[a]
                 i == invited[a]
      <4>1. l \in Nat /\ i \in Nat /\ i <= l + crashes + faults + 1
        BY <1>a, <3>2
      <4>2. limits'[a] = l /\ invited'[a] = i
        BY <3>3
      <4> HIDE DEF l, i
      <4>3. crashes + faults + 1 = crashes' + faults'
        BY <2>1, <2>4
      <4>4. crashes \in Nat /\ faults \in Nat /\ crashes' \in Nat /\ faults' \in Nat
        BY <1>a, <2>1
      <4>5. i <= l + crashes' + faults'
        BY <4>1, <4>3, <4>4, OneMore
      <4> QED  BY <4>2, <4>5
    <3>5. limits'[a] + crashes' + faults' \in Nat /\ invited'[a] \in Nat /\ limits'[a] <= invited'[a]
      BY <1>a, <2>1, <3>3
    <3> HIDE DEF Pending
    <3> QED
      BY <2>2, <3>4, <3>5
  <2> QED
    BY <2>3, <2>4
<1>3. ASSUME NEW as, Reset(as)
      PROVE  /\ limits'[a] <= invited'[a]
             /\ "history" \notin broken' =>
                  invited'[a] <= limits'[a] + crashes' + faults' + Pending(a)'
  <2>1. UNCHANGED <<place, phone, crashes, faults, broken>>
    BY <1>3 DEF Reset, AtMenu, At, locals, Opens
  <2>2. Pending(a)' = Pending(a)
    BY <2>1 DEF Pending
  <2>3. CASE a \in as
    <3>1. limits'[a] = 0 /\ invited'[a] = 0
      BY <1>3, <2>3 DEF Reset
    <3> QED
      BY <1>a, <1>b, <2>1, <2>2, <3>1
  <2>4. CASE a \notin as
    <3>1. limits'[a] = limits[a] /\ invited'[a] = invited[a]
      BY <1>3, <2>4 DEF Reset
    <3> QED
      BY <1>a, <1>b, <2>1, <2>2, <3>1
  <2> QED
    BY <2>3, <2>4
<1>4. CASE Accepted
  <2>1. /\ place = "invite" /\ place' = "note"
        /\ invited' = [invited EXCEPT ![phone] = @ + 1]
        /\ UNCHANGED <<limits, crashes, faults, broken, phone>>
    BY <1>4 DEF Accepted, At, files, bounds
  <2>2. CASE phone = a
    <3>1. Pending(a) = 0 /\ Pending(a)' = 1 /\ invited'[a] = invited[a] + 1
      BY <2>1, <2>2 DEF Pending, TypeOK
    <3> QED
      BY <2>1, <3>1, <1>a
  <2>3. CASE phone # a
    <3>1. Pending(a) = 0 /\ Pending(a)' = 0 /\ invited'[a] = invited[a]
      BY <2>1, <2>3 DEF Pending, TypeOK
    <3> QED
      BY <2>1, <3>1, <1>a
  <2> QED
    BY <2>2, <2>3
<1>5. CASE Note \/ AlreadyIn \/ NoteAlready
  <2>1. UNCHANGED <<limits, invited, crashes, faults, broken>>
    BY <1>5 DEF Note, AlreadyIn, NoteAlready, files, bounds, outside, Opens
  <2>2. Pending(a)' = Pending(a)
    BY <1>5 DEF Note, AlreadyIn, NoteAlready, At, NextUser, locals, Pending
  <2> QED
    BY <2>1, <2>2, <1>a, <1>b
<1>6. CASE Count
  <2>1. /\ place = "count" /\ place' = "next"
        /\ limits' = [limits EXCEPT ![phone] = already + added]
        /\ UNCHANGED <<invited, crashes, faults, broken, phone>>
    BY <1>6 DEF Count, At, NextUser, Opens, outside, bounds
  <2>2. CASE phone = a
    <3>1. limits'[a] = already + added /\ Pending(a)' = 0
      BY <2>1, <2>2 DEF Pending, TypeOK
    <3>2. already + added <= invited[a] /\ invited[a] <= already + added + crashes + faults
      BY <2>1, <2>2 DEF Counting, Adding
    <3>3. already + added \in Nat
      BY <2>1, Numbers DEF Adding
    <3> QED
      BY <2>1, <3>1, <3>2, <3>3, <1>a
  <2>3. CASE phone # a
    <3>1. limits'[a] = limits[a] /\ Pending(a)' = 0 /\ Pending(a) = 0
      BY <2>1, <2>3 DEF Pending, TypeOK
    <3> QED
      BY <2>1, <3>1, <1>a
  <2> QED
    BY <2>2, <2>3
<1> QED
  BY <1>1, <1>2, <1>3, <1>4, <1>5, <1>6 DEF Next, Elsewhere, Loses

\* The bound does not look at the files: an invitation stays within what the run
\* was allowed at its beginning.
LEMMA LimitStep == TypeOK /\ Placed /\ Counting /\ WithinLimit /\ [Next]_vars => WithinLimit'
<1> SUFFICES ASSUME TypeOK, Placed, Counting, WithinLimit, [Next]_vars, NEW a \in Account
             PROVE  invited'[a] <= MaxAdd + crashes' + faults'
  BY DEF WithinLimit
<1>a. /\ MaxAdd \in Nat /\ invited[a] \in Nat /\ crashes \in Nat /\ faults \in Nat
      /\ invited[a] <= MaxAdd + crashes + faults
  BY Bounds DEF TypeOK, WithinLimit
<1>1. CASE Elsewhere
  BY <1>1, <1>a, ElsewhereNothing
<1>2. CASE Loses
  <2>1. /\ invited' = invited /\ crashes' \in Nat /\ faults' \in Nat
        /\ crashes' + faults' >= crashes + faults
    BY <1>2, LosesOne
  <2>2. invited'[a] = invited[a]
    BY <2>1
  <2> DEFINE c == crashes
             f == faults
             d == crashes'
             g == faults'
             i == invited[a]
  <2>3. /\ c \in Nat /\ f \in Nat /\ d \in Nat /\ g \in Nat /\ i \in Nat /\ MaxAdd \in Nat
        /\ d + g >= c + f /\ i <= MaxAdd + c + f
    BY <2>1, <1>a
  <2>4. i <= MaxAdd + d + g
    <3> HIDE DEF c, f, d, g, i
    <3> QED
      BY <2>3
  <2> QED
    BY <2>2, <2>4
<1>3. ASSUME NEW as, Reset(as) PROVE invited'[a] <= MaxAdd + crashes' + faults'
  <2>1. invited'[a] \in {0, invited[a]} /\ UNCHANGED <<crashes, faults>>
    BY <1>3 DEF Reset
  <2> QED
    BY <2>1, <1>a
<1>4. CASE Accepted
  <2>1. place = "invite" /\ invited' = [invited EXCEPT ![phone] = @ + 1] /\ UNCHANGED <<crashes, faults>>
    BY <1>4 DEF Accepted, At, bounds
  <2>2. CASE phone = a
    <3>1. /\ invited[a] <= already + added + crashes + faults
          /\ already + added + Cardinality(todo) < MaxAdd
      BY <2>1, <2>2 DEF Counting, Adding
    <3>2. already \in Nat /\ added \in Nat /\ Cardinality(todo) \in Nat
      BY <2>1, Numbers DEF Adding
    <3>3. invited'[a] = invited[a] + 1
      BY <2>1, <2>2 DEF TypeOK
    <3> QED
      BY <2>1, <3>1, <3>2, <3>3, <1>a
  <2>3. CASE phone # a
    <3>1. invited'[a] = invited[a]
      BY <2>1, <2>3 DEF TypeOK
    <3> QED
      BY <2>1, <3>1, <1>a
  <2> QED
    BY <2>2, <2>3
<1>5. CASE Note \/ AlreadyIn \/ NoteAlready \/ Count
  <2>1. UNCHANGED <<invited, crashes, faults>>
    BY <1>5 DEF Note, AlreadyIn, NoteAlready, Count, bounds, outside
  <2> QED
    BY <2>1, <1>a
<1> QED
  BY <1>1, <1>2, <1>3, <1>4, <1>5 DEF Next, Elsewhere, Loses

LEMMA HistoryStep ==
  TypeOK /\ Placed /\ Counting /\ Underway /\ HistoryTrue /\ [Next]_vars => HistoryTrue'
<1> DEFINE missed == Cardinality(answered \ history)
           between == place \in {"note", "noteAlready"}
<1> SUFFICES ASSUME TypeOK, Placed, Counting, Underway, HistoryTrue, [Next]_vars
             PROVE  HistoryTrue'
  OBVIOUS
<1>n. TypeOK'
  BY TypeStep
<1> SUFFICES ASSUME "history" \notin broken'
             PROVE  /\ history' \subseteq answered'
                    /\ between' => missed' <= crashes' + faults' + 1
                    /\ ~ between' => missed' <= crashes' + faults'
  <2>1. crashes' \in Nat /\ faults' \in Nat
    BY <1>n, Bounds DEF TypeOK
  <2> QED
    BY <2>1 DEF HistoryTrue
<1>a. IsFiniteSet(answered \ history) /\ missed \in Nat /\ crashes \in Nat /\ faults \in Nat
  BY Finite, Bounds DEF TypeOK
<1>b. "history" \notin broken =>
        /\ history \subseteq answered
        /\ between => missed <= crashes + faults + 1
        /\ ~ between => missed <= crashes + faults
  BY <1>a DEF HistoryTrue
<1>1. CASE Elsewhere
  <2>1. UNCHANGED <<history, answered, crashes, faults>> /\ "history" \notin broken
    BY <1>1, ElsewhereNothing
  <2>2. between' <=> between
    BY <1>1, ElsewhereNothing
  <2> QED
    BY <2>1, <2>2, <1>b
<1>2. CASE Loses
  <2>1. /\ UNCHANGED <<history, answered>> /\ "history" \notin broken /\ ~ between'
        /\ crashes' \in Nat /\ faults' \in Nat /\ crashes' + faults' = crashes + faults + 1
    BY <1>2, LosesOne
  <2>2. missed <= crashes + faults + 1
    BY <2>1, <1>a, <1>b
  <2>3. missed' = missed
    BY <2>1
  <2> HIDE DEF missed, between
  <2> QED
    BY <2>1, <2>2, <2>3, <1>a, <1>b
<1>3. ASSUME NEW as, Reset(as)
      PROVE  UNCHANGED <<history, answered, crashes, faults, place, broken>>
  BY <1>3 DEF Reset, Opens
<1>4. CASE Accepted \/ AlreadyIn
  <2>1. /\ place = "invite" /\ between' /\ UNCHANGED <<history, crashes, faults, broken>>
        /\ answered' = answered \cup {uid}
    BY <1>4 DEF Accepted, AlreadyIn, At, files, bounds
  <2>2. answered' \ history' = (answered \ history) \cup {uid}
    BY <2>1 DEF Underway
  <2>3. missed' <= missed + 1 /\ missed' \in Nat
    <3>1. IsFiniteSet(answered' \ history') /\ missed' \in {missed, missed + 1}
      BY <2>2, <1>a, FS_AddElement
    <3> QED
      BY <3>1, <1>a
  <2>4. missed <= crashes + faults /\ history \subseteq answered
    BY <2>1, <1>b
  <2> HIDE DEF missed
  <2> QED
    BY <2>1, <2>3, <2>4, <1>a
<1>5. CASE Note \/ NoteAlready
  <2>1. /\ between /\ ~ between' /\ UNCHANGED <<answered, crashes, faults, broken>>
        /\ history' = history \cup {uid}
    BY <1>5 DEF Note, NoteAlready, At, NextUser, Opens, outside, bounds
  <2>2. uid \in answered \ history
    BY <2>1 DEF Underway
  <2>3. answered' \ history' = (answered \ history) \ {uid}
    BY <2>1
  <2>4. missed' = missed - 1
    BY <2>2, <2>3, <1>a, FS_RemoveElement
  <2>5. missed <= crashes + faults + 1 /\ history \subseteq answered
    BY <2>1, <1>b
  <2> HIDE DEF missed
  <2> QED
    BY <2>1, <2>2, <2>4, <2>5, <1>a
<1>6. CASE Count
  <2>1. /\ place = "count" /\ place' = "next"
        /\ UNCHANGED <<history, answered, crashes, faults, broken>>
    BY <1>6 DEF Count, At, NextUser, Opens, outside, bounds
  <2> QED
    BY <2>1, <1>b
<1> QED
  BY <1>1, <1>2, <1>3, <1>4, <1>5, <1>6, <1>b DEF Next, Elsewhere, Loses

LEMMA Inductive == Spec => []ChInv
<1>1. ChInv /\ [Next]_vars => ChInv'
  BY TypeStep, PlacedStep, CountingStep, UnderwayStep, CountStep, LimitStep, HistoryStep DEF ChInv
<1> QED
  BY InitChInv, <1>1, PTL DEF Spec

-----------------------------------------------------------------------------
\* The three files and the local variables of an add have their types; above
\* all, no limit in the file exceeds MAX_ADD_PER_ACCOUNT.
THEOREM TypeCorrect == Spec => []TypeOK
BY Inductive, PTL DEF ChInv

\* While they can be read, the limits count the invitations of an account that
\* raised nothing since its last reset, but for one per end of the program or
\* failed write.
THEOREM LimitsCount == Spec => []CountTrue
<1>1. ChInv => CountTrue
  BY DEF ChInv, CountKept, CountTrue
<1> QED
  BY Inductive, <1>1, PTL

\* The history, while it can be read, names only users whose invitation was
\* answered, and misses at most one of them per end or failed write.
THEOREM HistoryIsTrue == Spec => []HistoryTrue
BY Inductive, PTL DEF ChInv

\* Whatever breaks, MAX_ADD_PER_ACCOUNT bounds the invitations of an account that
\* raised nothing between two resets, up to one for every end or failed write.
THEOREM NobodyOveradds == Spec => []WithinLimit
BY Inductive, PTL DEF ChInv
=============================================================================
