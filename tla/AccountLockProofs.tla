-------------------------- MODULE AccountLockProofs --------------------------
(***************************************************************************)
(* What the table of account_state.py guarantees, for any number of        *)
(* accounts and clients and any TTL.                                       *)
(*                                                                         *)
(* The invariants are proved together: that no entry of a locker outlives   *)
(* its work needs to know where the lockers are, and that a locker does not *)
(* rob anybody needs UsersHoldTheLock, for the entry it frees is its own.   *)
(***************************************************************************)
EXTENDS AccountLock, TLAPS

\* Whoever is not idle has chosen a phone.
Placed == \A c \in Clients : at[c] # "idle" => on[c] \in Phones

LInv == TypeOK /\ Placed /\ UsersHoldTheLock /\ LockersDoNotRob /\ NoOrphan

\* The kinds of clients are disjoint, except that a locker may be careful.
LEMMA Kinds ==
  /\ Careful \subseteq Clients /\ Lockers \subseteq Careful
  /\ Manuals \subseteq Careful /\ Manuals \cap Lockers = {}
  /\ Scanners \subseteq Lockers /\ Probes \subseteq Lockers
  /\ Adders \subseteq Clients /\ Adders \cap Careful = {}
  /\ Deleters \subseteq Clients /\ Deleters \cap Careful = {}
  /\ Nobody \notin Clients /\ NoPhone \notin Phones /\ TTL \in Nat
BY AccountLockAssumption DEF Clients, Careful, Lockers

LEMMA Entries ==
  /\ Free \in Entry /\ Free.owner = Nobody /\ Free.age = 0
  /\ \A c \in Clients : [owner |-> c, age |-> 0] \in Entry
BY Kinds DEF Free, Entry

LEMMA InitLInv == Init => LInv
BY Kinds, Entries
   DEF Init, LInv, TypeOK, Placed, UsersHoldTheLock, LockersDoNotRob, NoOrphan,
       Using, Expired, Places

-----------------------------------------------------------------------------
\* The type of what a release leaves behind.
LEMMA RobType ==
  ASSUME TypeOK, NEW c \in Clients, NEW p, Rob(c, p)
  PROVE  /\ robbed' \subseteq Clients
         /\ robbers' \subseteq Clients
         /\ overstayed' \subseteq Clients
BY DEF TypeOK, Rob, Victims

LEMMA RobStateType ==
  ASSUME TypeOK, NEW c \in Clients, RobState(c)
  PROVE  /\ robbed' \subseteq Clients
         /\ robbers' \subseteq Clients
         /\ overstayed' \subseteq Clients
BY DEF TypeOK, RobState, Rob, Victims

LEMMA ReleasedType == TypeOK => Released \in [Phones -> Entry]
BY Entries DEF TypeOK, Released

LEMMA TypeStep == LInv /\ [Next]_vars => TypeOK'
<1> SUFFICES ASSUME LInv, [Next]_vars PROVE TypeOK'
  OBVIOUS
<1> USE Entries DEF LInv, TypeOK, Go, Rest, Places
<1>1. ASSUME NEW c \in Clients, Client(c) PROVE TypeOK'
  <2>1. CASE Pick(c)
    BY <2>1 DEF Pick
  <2>2. CASE Aim(c)
    BY <2>2 DEF Aim
  <2>3. CASE Claim(c)
    BY <2>3, Kinds DEF Claim, Placed
  <2>4. CASE Done(c)
    BY <2>4, RobType DEF Done
  <2>5. CASE ManualConnect(c)
    BY <2>5 DEF ManualConnect
  <2>6. CASE ManualFail(c)
    BY <2>6 DEF ManualFail
  <2>7. CASE ManualClaim(c)
    BY <2>7, RobStateType, ReleasedType DEF ManualClaim, Placed
  <2>8. CASE ManualDone(c)
    BY <2>8, RobStateType, ReleasedType DEF ManualDone
  <2>9. CASE AddStart(c)
    BY <2>9 DEF AddStart
  <2>10. CASE AddDone(c)
    BY <2>10, RobType DEF AddDone
  <2>11. CASE DeleteCheck(c)
    BY <2>11 DEF DeleteCheck
  <2>12. CASE Delete(c)
    BY <2>12, RobType DEF Delete
  <2> HIDE DEF LInv, TypeOK, Go, Rest, Places
  <2> QED
    BY <1>1, <2>1, <2>2, <2>3, <2>4, <2>5, <2>6, <2>7, <2>8, <2>9, <2>10,
       <2>11, <2>12 DEF Client
<1>2. CASE MenuClear
  <2>1. busy' \in [Phones -> Entry] /\ statePhone' \in Phones \cup {NoPhone}
    BY <1>2, ReleasedType DEF MenuClear
  <2>2. robbed' \subseteq Clients /\ robbers' \subseteq Clients
    BY <1>2, Kinds DEF MenuClear
  <2> QED
    BY <1>2, <2>1, <2>2 DEF MenuClear
<1>3. CASE Tick
  <2>1. busy' \in [Phones -> Entry]
    BY <1>3, Kinds DEF Tick, Locked, Expired, Entry
  <2> QED
    BY <1>3, <2>1 DEF Tick
<1>4. CASE UNCHANGED vars
  BY <1>4 DEF vars
<1> HIDE DEF LInv, TypeOK, Go, Rest, Places
<1> QED
  BY <1>1, <1>2, <1>3, <1>4 DEF Next

LEMMA PlacedStep == LInv /\ [Next]_vars => Placed'
<1> SUFFICES ASSUME LInv, [Next]_vars PROVE Placed'
  OBVIOUS
<1> USE DEF LInv, TypeOK, Placed, Go, Rest
<1>1. ASSUME NEW c \in Clients, Client(c) PROVE Placed'
  <2>1. CASE Pick(c)
    BY <2>1 DEF Pick
  <2>2. CASE Aim(c)
    BY <2>2 DEF Aim
  <2>3. CASE Claim(c)
    BY <2>3 DEF Claim
  <2>4. CASE Done(c)
    BY <2>4 DEF Done
  <2>5. CASE ManualConnect(c)
    BY <2>5 DEF ManualConnect
  <2>6. CASE ManualFail(c)
    BY <2>6 DEF ManualFail
  <2>7. CASE ManualClaim(c)
    BY <2>7 DEF ManualClaim
  <2>8. CASE ManualDone(c)
    BY <2>8 DEF ManualDone
  <2>9. CASE AddStart(c)
    BY <2>9 DEF AddStart
  <2>10. CASE AddDone(c)
    BY <2>10 DEF AddDone
  <2>11. CASE DeleteCheck(c)
    BY <2>11 DEF DeleteCheck
  <2>12. CASE Delete(c)
    BY <2>12 DEF Delete
  <2> HIDE DEF LInv, TypeOK, Placed, Go, Rest
  <2> QED
    BY <1>1, <2>1, <2>2, <2>3, <2>4, <2>5, <2>6, <2>7, <2>8, <2>9, <2>10,
       <2>11, <2>12 DEF Client
<1>2. CASE MenuClear \/ Tick \/ UNCHANGED vars
  BY <1>2 DEF MenuClear, Tick, vars
<1> HIDE DEF LInv, TypeOK, Placed, Go, Rest
<1> QED
  BY <1>1, <1>2 DEF Next

-----------------------------------------------------------------------------
\* Whoever holds its lock in the next state and did not start to work in this
\* step held it before: the flags of a client at work are only ever set.
Holder(d) == Using(d) /\ d \notin overstayed \cup robbed

LEMMA HolderEntry ==
  ASSUME LInv, NEW d \in Careful, Holder(d)
  PROVE  /\ on[d] \in Phones
         /\ busy[on[d]].owner = d /\ Locked(on[d])
BY Kinds DEF LInv, TypeOK, Placed, UsersHoldTheLock, Holder, Using, Locked

\* A release takes no entry away from a client at work without recording it.
LEMMA FreeKeeps ==
  ASSUME LInv, NEW c \in Clients, NEW p \in Phones, Rob(c, p), Rest(c),
         busy' = [busy EXCEPT ![p] = Free]
  PROVE  UsersHoldTheLock'
<1> SUFFICES ASSUME NEW d \in Careful, Holder(d)'
             PROVE  busy'[on'[d]].owner = d /\ ~ (busy'[on'[d]].age > TTL)
  BY DEF UsersHoldTheLock, Holder, Using, Expired
<1>1. d \in Clients /\ d # c /\ Using(d) /\ on'[d] = on[d]
  BY Kinds DEF LInv, TypeOK, Rest, Go, Holder, Using
<1>2. Holder(d) /\ d \notin Victims(c, p)
  BY <1>1 DEF Rob, Holder
<1>3. on[d] \in Phones /\ busy[on[d]].owner = d /\ Locked(on[d])
  BY <1>2, HolderEntry
<1>4. on[d] # p
  BY <1>1, <1>2, <1>3 DEF Victims
<1> QED
  BY <1>1, <1>3, <1>4 DEF LInv, TypeOK, Locked, Expired

\* The entry a locker frees when it is done is its own, or it has been robbed or
\* has overstayed.
LEMMA DoneNoRob == \A c \in Clients : LInv /\ Done(c) => LockersDoNotRob'
<1> SUFFICES ASSUME NEW c \in Clients, LInv, Done(c) PROVE LockersDoNotRob'
  OBVIOUS
<1>1. c \in Careful /\ Using(c) /\ Rob(c, on[c])
  BY Kinds DEF Done
<1>2. CASE c \in overstayed \cup robbed
  BY <1>1, <1>2 DEF Rob, LInv, LockersDoNotRob
<1>3. CASE c \notin overstayed \cup robbed
  <2>1. busy[on[c]].owner = c
    BY <1>1, <1>3, HolderEntry DEF Holder
  <2>2. Victims(c, on[c]) = {}
    BY <2>1 DEF Victims
  <2> QED
    BY <1>1, <2>2 DEF Rob, LInv, LockersDoNotRob
<1> QED
  BY <1>2, <1>3

-----------------------------------------------------------------------------
LEMMA UsersStep == LInv /\ [Next]_vars => UsersHoldTheLock'
<1> SUFFICES ASSUME LInv, [Next]_vars PROVE UsersHoldTheLock'
  OBVIOUS
<1>1. ASSUME NEW c \in Clients, Client(c) PROVE UsersHoldTheLock'
  <2>1. CASE Pick(c)
    BY <2>1, Kinds DEF Pick, Go, LInv, TypeOK, Placed, UsersHoldTheLock, Using,
                       Expired
  <2>2. CASE Aim(c) \/ ManualConnect(c) \/ ManualFail(c)
    BY <2>2, Kinds DEF Aim, ManualConnect, ManualFail, Rest, Go, LInv, TypeOK,
                       Placed, UsersHoldTheLock, Using, Expired
  <2>3. CASE Claim(c)
    <3>1. CASE UNCHANGED busy
      BY <2>3, <3>1, Kinds DEF Claim, Rest, Go, LInv, TypeOK, Placed,
                               UsersHoldTheLock, Using, Expired, Locked
    <3>2. CASE /\ ~ Locked(on[c])
               /\ busy' = [busy EXCEPT ![on[c]] = [owner |-> c, age |-> 0]]
               /\ Go(c, "using", on[c])
      <4> SUFFICES ASSUME NEW d \in Careful, Holder(d)'
                   PROVE  busy'[on'[d]].owner = d /\ ~ (busy'[on'[d]].age > TTL)
        BY DEF UsersHoldTheLock, Holder, Using, Expired
      <4>1. c \in Clients /\ on[c] \in Phones /\ d \in Clients
        BY <2>3, Kinds DEF Claim, LInv, Placed
      <4>2. CASE d = c
        BY <3>2, <4>1, <4>2, Kinds DEF Go, LInv, TypeOK
      <4>3. CASE d # c
        <5>1. Holder(d) /\ on'[d] = on[d]
          BY <2>3, <3>2, <4>1, <4>3 DEF Claim, Go, LInv, TypeOK, Holder, Using
        <5>2. on[d] # on[c]
          BY <3>2, <5>1, HolderEntry
        <5> QED
          BY <3>2, <4>1, <5>1, <5>2, HolderEntry DEF LInv, TypeOK, Locked, Expired
      <4> QED
        BY <4>2, <4>3
    <3> QED
      BY <2>3, <3>1, <3>2 DEF Claim
  <2>4. CASE Done(c) \/ AddDone(c) \/ Delete(c)
    <3>1. on[c] \in Phones
      BY <2>4 DEF Done, AddDone, Delete, Using, LInv, Placed
    <3> QED
      BY <2>4, <3>1, FreeKeeps DEF Done, AddDone, Delete
  <2>5. CASE ManualClaim(c)
    <3> SUFFICES ASSUME NEW d \in Careful, Holder(d)'
                 PROVE  busy'[on'[d]].owner = d /\ ~ (busy'[on'[d]].age > TTL)
      BY DEF UsersHoldTheLock, Holder, Using, Expired
    <3>1. on[c] \in Phones /\ d \in Clients /\ ~ Using(c)
      BY <2>5, Kinds DEF ManualClaim, LInv, Placed, Using
    <3>2. CASE d = c
      <4>1. /\ busy' = [Released EXCEPT ![on[c]] = [owner |-> c, age |-> 0]]
            /\ on'[c] = on[c]
        BY <2>5, <3>1, <3>2 DEF ManualClaim, Rest, Go, Holder, Using, LInv, TypeOK
      <4>2. Released \in [Phones -> Entry]
        BY ReleasedType DEF LInv
      <4> QED
        BY <3>1, <3>2, <4>1, <4>2, Kinds
    <3>3. CASE d # c
      <4>1. Using(d) /\ on'[d] = on[d]
        BY <2>5, <3>1, <3>3 DEF ManualClaim, Rest, Go, LInv, TypeOK, Holder, Using
      <4>2. Holder(d) /\ (statePhone # NoPhone => d \notin Victims(c, statePhone))
        BY <2>5, <3>3, <4>1 DEF ManualClaim, RobState, Rob, Holder
      <4>3. on[d] \in Phones /\ busy[on[d]].owner = d /\ Locked(on[d])
        BY <4>2, HolderEntry
      <4>4. on[d] # statePhone
        BY <3>1, <3>3, <4>1, <4>2, <4>3, Kinds DEF Victims
      <4>5. Released[on[d]] = busy[on[d]]
        BY <4>3, <4>4 DEF Released, LInv, TypeOK
      <4>6. busy'[on[d]] = Released[on[d]]
        <5>1. CASE busy' = Released
          BY <5>1
        <5>2. CASE /\ busy' = [Released EXCEPT ![on[c]] = [owner |-> c, age |-> 0]]
                   /\ ~ (Locked(on[c]) /\ statePhone # on[c])
          <6>1. on[d] # on[c]
            BY <4>3, <4>4, <5>2
          <6> QED
            BY <5>2, <6>1, <4>3, ReleasedType DEF LInv
        <5> QED
          BY <2>5, <5>1, <5>2 DEF ManualClaim
      <4> QED
        BY <4>1, <4>3, <4>5, <4>6 DEF Locked, Expired
    <3> QED
      BY <3>2, <3>3
  <2>6. CASE ManualDone(c)
    <3>1. CASE statePhone = NoPhone
      BY <2>6, <3>1, Kinds DEF ManualDone, RobState, Released, Rest, Go, LInv,
                               TypeOK, UsersHoldTheLock, Using, Expired
    <3>2. CASE statePhone # NoPhone
      <4>1. /\ statePhone \in Phones /\ Rob(c, statePhone) /\ Rest(c)
            /\ busy' = [busy EXCEPT ![statePhone] = Free]
        BY <2>6, <3>2 DEF ManualDone, RobState, Released, LInv, TypeOK
      <4> QED
        BY <4>1, FreeKeeps
    <3> QED
      BY <3>1, <3>2
  <2>7. CASE AddStart(c)
    BY <2>7, Kinds DEF AddStart, Go, LInv, TypeOK, UsersHoldTheLock, Using, Expired
  <2>8. CASE DeleteCheck(c)
    <3> SUFFICES ASSUME NEW d \in Careful, Holder(d)'
                 PROVE  busy'[on'[d]].owner = d /\ ~ (busy'[on'[d]].age > TTL)
      BY DEF UsersHoldTheLock, Holder, Using, Expired
    <3>1. PICK p \in Phones : /\ ~ Locked(p)
                              /\ Go(c, "aiming", p)
                              /\ busy' = [busy EXCEPT ![p] = Free]
      BY <2>8 DEF DeleteCheck
    <3>2. d \in Clients /\ d # c /\ on'[d] = on[d] /\ Holder(d)
      BY <2>8, <3>1, Kinds DEF DeleteCheck, Go, LInv, TypeOK, Holder, Using
    <3> QED
      BY <3>1, <3>2, HolderEntry DEF LInv, TypeOK, Locked, Expired
  <2> QED
    BY <1>1, <2>1, <2>2, <2>3, <2>4, <2>5, <2>6, <2>7, <2>8 DEF Client
<1>2. CASE MenuClear
  <2> SUFFICES ASSUME NEW d \in Careful, Holder(d)'
               PROVE  busy'[on'[d]].owner = d /\ ~ (busy'[on'[d]].age > TTL)
    BY DEF UsersHoldTheLock, Holder, Using, Expired
  <2>1. Holder(d) /\ on'[d] = on[d] /\ Using(d) /\ d \in Clients
    BY <1>2, Kinds DEF MenuClear, Holder, Using
  <2>2. on[d] \in Phones /\ busy[on[d]].owner = d /\ Locked(on[d])
    BY <2>1, HolderEntry
  <2>3. on[d] # statePhone
    BY <1>2, <2>1, <2>2 DEF MenuClear, Holder
  <2> QED
    BY <1>2, <2>1, <2>2, <2>3 DEF MenuClear, Released, LInv, TypeOK, Locked, Expired
<1>3. CASE Tick
  <2> SUFFICES ASSUME NEW d \in Careful, Holder(d)'
               PROVE  busy'[on'[d]].owner = d /\ ~ (busy'[on'[d]].age > TTL)
    BY DEF UsersHoldTheLock, Holder, Using, Expired
  <2>1. Holder(d) /\ on'[d] = on[d] /\ Using(d) /\ d \in Clients
    BY <1>3, Kinds DEF Tick, Holder, Using
  <2>2. on[d] \in Phones /\ busy[on[d]].owner = d /\ Locked(on[d])
    BY <2>1, HolderEntry
  <2>3. busy[on[d]].age # TTL
    BY <1>3, <2>1, <2>2 DEF Tick, Holder
  <2>4. busy'[on[d]] = [busy[on[d]] EXCEPT !.age = busy[on[d]].age + 1]
    BY <1>3, <2>2 DEF Tick
  <2>5. busy[on[d]] \in Entry
    BY <2>2 DEF LInv, TypeOK
  <2>6. busy'[on[d]].owner = d /\ busy'[on[d]].age = busy[on[d]].age + 1
    BY <2>2, <2>4, <2>5 DEF Entry
  <2>7. busy[on[d]].age \in Nat /\ ~ (busy[on[d]].age > TTL)
    BY <2>2, <2>5, Kinds DEF Entry, Locked, Expired
  <2> QED
    BY <2>1, <2>3, <2>6, <2>7, Kinds
<1>4. CASE UNCHANGED vars
  BY <1>4 DEF vars, LInv, UsersHoldTheLock, Using, Expired
<1> QED
  BY <1>1, <1>2, <1>3, <1>4 DEF Next

-----------------------------------------------------------------------------
\* Whoever else takes an entry away is not a locker.
LEMMA RobStep == LInv /\ [Next]_vars => LockersDoNotRob'
<1> SUFFICES ASSUME LInv, [Next]_vars PROVE LockersDoNotRob'
  OBVIOUS
<1>0. LockersDoNotRob
  BY DEF LInv
<1>1. ASSUME NEW c \in Clients, Client(c) PROVE LockersDoNotRob'
  <2>1. CASE Done(c)
    BY <2>1, DoneNoRob
  <2>2. CASE ManualClaim(c) \/ ManualDone(c)
    BY <1>0, <2>2, Kinds DEF ManualClaim, ManualDone, RobState, Rob, LockersDoNotRob
  <2>3. CASE AddDone(c) \/ Delete(c)
    BY <1>0, <2>3, Kinds DEF AddDone, Delete, Rob, LockersDoNotRob
  <2>4. CASE \/ Pick(c) \/ Aim(c) \/ Claim(c) \/ ManualConnect(c)
             \/ ManualFail(c) \/ AddStart(c) \/ DeleteCheck(c)
    BY <1>0, <2>4 DEF Pick, Aim, Claim, ManualConnect, ManualFail, AddStart,
                      DeleteCheck, LockersDoNotRob
  <2> QED
    BY <1>1, <2>1, <2>2, <2>3, <2>4 DEF Client
<1>2. CASE MenuClear
  BY <1>0, <1>2, Kinds DEF MenuClear, LockersDoNotRob
<1>3. CASE Tick \/ UNCHANGED vars
  BY <1>0, <1>3 DEF Tick, vars, LockersDoNotRob
<1> QED
  BY <1>1, <1>2, <1>3 DEF Next

\* Entries that stay in the table keep their owner, and an owner that is a locker
\* stays where it is until it frees its entry.
LEMMA OrphanStep == LInv /\ [Next]_vars => NoOrphan'
<1> SUFFICES ASSUME LInv, [Next]_vars,
                    NEW q \in Phones, NEW d \in Lockers, busy'[q].owner = d
             PROVE  at'[d] = "using" /\ on'[d] = q
  BY DEF NoOrphan, EntryInUse, Using
<1>0. d \in Clients /\ d \in Careful /\ d # Nobody
  BY Kinds
<1>a. ASSUME busy[q].owner = d, at'[d] = at[d], on'[d] = on[d]
      PROVE  at'[d] = "using" /\ on'[d] = q
  BY <1>a DEF LInv, NoOrphan, EntryInUse, Using
<1>b. ASSUME busy[q].owner = d PROVE at[d] = "using" /\ on[d] = q
  BY <1>b DEF LInv, NoOrphan, EntryInUse, Using
<1>1. ASSUME NEW c \in Clients, Client(c) PROVE at'[d] = "using" /\ on'[d] = q
  <2>1. CASE Pick(c)
    <3>1. busy[q].owner = d
      BY <1>0, <2>1, Entries DEF Pick
    <3> QED
      BY <1>0, <1>a, <1>b, <2>1, <3>1 DEF Pick, Go, Using, LInv, TypeOK
  <2>2. CASE Aim(c) \/ ManualConnect(c) \/ ManualFail(c) \/ AddStart(c)
    BY <1>0, <1>a, <1>b, <2>2
       DEF Aim, ManualConnect, ManualFail, AddStart, Rest, Go, Using, LInv, TypeOK
  <2>3. CASE Claim(c)
    <3>1. CASE UNCHANGED busy
      BY <1>0, <1>a, <1>b, <2>3, <3>1 DEF Claim, Rest, Go, Using, LInv, TypeOK
    <3>2. CASE /\ busy' = [busy EXCEPT ![on[c]] = [owner |-> c, age |-> 0]]
               /\ Go(c, "using", on[c])
      <4>1. CASE q = on[c]
        <5>1. c = d
          BY <2>3, <3>2, <4>1 DEF LInv, TypeOK
        <5> QED
          BY <1>0, <3>2, <4>1, <5>1 DEF Go, LInv, TypeOK
      <4>2. CASE q # on[c]
        BY <1>0, <1>a, <1>b, <2>3, <3>2, <4>2 DEF Claim, Go, Using, LInv, TypeOK
      <4> QED
        BY <4>1, <4>2
    <3> QED
      BY <2>3, <3>1, <3>2 DEF Claim
  <2>4. CASE Done(c) \/ AddDone(c)
    <3>1. busy' = [busy EXCEPT ![on[c]] = Free] /\ Rest(c)
      BY <2>4 DEF Done, AddDone
    <3>2. q # on[c] /\ busy[q].owner = d
      BY <1>0, <3>1, Entries DEF LInv, TypeOK
    <3>3. c # d
      BY <1>b, <3>2
    <3> QED
      BY <1>0, <1>a, <3>1, <3>2, <3>3 DEF Rest, Go, LInv, TypeOK
  <2>5. CASE ManualClaim(c)
    <3>1. c # d /\ at'[d] = at[d] /\ on'[d] = on[d]
      BY <1>0, <2>5, Kinds DEF ManualClaim, Rest, Go, LInv, TypeOK
    <3>2. Released[q].owner = d
      BY <1>0, <2>5, <3>1, ReleasedType, Entries DEF ManualClaim, LInv
    <3>3. busy[q].owner = d
      BY <1>0, <3>2, Entries DEF Released, LInv, TypeOK
    <3> QED
      BY <1>a, <3>1, <3>3
  <2>6. CASE ManualDone(c)
    <3>1. c # d /\ at'[d] = at[d] /\ on'[d] = on[d]
      BY <1>0, <2>6, Kinds DEF ManualDone, Rest, Go, LInv, TypeOK
    <3>2. busy[q].owner = d
      BY <1>0, <2>6, Entries DEF ManualDone, Released, LInv, TypeOK
    <3> QED
      BY <1>a, <3>1, <3>2
  <2>7. CASE DeleteCheck(c) \/ Delete(c)
    <3>1. c # d
      BY <1>0, <2>7, Kinds DEF DeleteCheck, Delete
    <3>2. PICK p \in Phones : /\ busy' = [busy EXCEPT ![p] = Free]
                              /\ at'[d] = at[d] /\ on'[d] = on[d]
      BY <1>0, <2>7, <3>1 DEF DeleteCheck, Delete, Rest, Go, LInv, TypeOK, Placed
    <3>3. busy[q].owner = d
      BY <1>0, <3>2, Entries DEF LInv, TypeOK
    <3> QED
      BY <1>a, <3>2, <3>3
  <2> QED
    BY <1>1, <2>1, <2>2, <2>3, <2>4, <2>5, <2>6, <2>7 DEF Client
<1>2. CASE MenuClear
  <2>1. busy[q].owner = d
    BY <1>0, <1>2, Entries DEF MenuClear, Released, LInv, TypeOK
  <2> QED
    BY <1>2, <1>a, <2>1 DEF MenuClear
<1>3. CASE Tick
  <2>1. busy' = [p \in Phones |->
                  IF Locked(p) THEN [busy[p] EXCEPT !.age = @ + 1] ELSE busy[p]]
    BY <1>3 DEF Tick
  <2>2. busy[q].owner = d
    BY <2>1 DEF LInv, TypeOK, Entry
  <2> QED
    BY <1>3, <1>a, <2>2 DEF Tick
<1>4. CASE UNCHANGED vars
  BY <1>4, <1>a DEF vars
<1> QED
  BY <1>1, <1>2, <1>3, <1>4 DEF Next

-----------------------------------------------------------------------------
LEMMA LInvariant == Spec => []LInv
<1>1. LInv /\ [Next]_vars => LInv'
  BY TypeStep, PlacedStep, UsersStep, RobStep, OrphanStep DEF LInv
<1> QED
  BY InitLInv, <1>1, PTL DEF Spec

\* The table, the places of the clients and the history variables keep their
\* types: ages stop one past TTL.
THEOREM TypeCorrect == Spec => []TypeOK
<1>1. LInv => TypeOK
  BY DEF LInv
<1> QED
  BY <1>1, LInvariant, PTL

\* mark_busy and release: a client at work owns a live entry of its phone unless
\* it has overstayed or been robbed.
THEOREM LockHeld == Spec => []UsersHoldTheLock
<1>1. LInv => UsersHoldTheLock
  BY DEF LInv
<1> QED
  BY <1>1, LInvariant, PTL

\* account_state.py:5: of two clients at work with one session, one has
\* overstayed or been robbed; an entry has only one owner.
THEOREM Exclusive == Spec => []ExclusiveUse
<1>1. LInv => ExclusiveUse
  BY DEF LInv, UsersHoldTheLock, ExclusiveUse
<1> QED
  BY <1>1, LInvariant, PTL

\* The finally of a scan, a scrape or a probe frees its own entry, or it has
\* itself overstayed or been robbed.
THEOREM NoRobbing == Spec => []LockersDoNotRob
<1>1. LInv => LockersDoNotRob
  BY DEF LInv
<1> QED
  BY <1>1, LInvariant, PTL

\* No entry of a scan, a scrape or a probe outlives the work it was made for.
THEOREM NoOrphans == Spec => []NoOrphan
<1>1. LInv => NoOrphan
  BY DEF LInv
<1> QED
  BY <1>1, LInvariant, PTL

=============================================================================
