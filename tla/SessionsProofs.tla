---------------------------- MODULE SessionsProofs ----------------------------
(***************************************************************************)
(* What the sign-ins of Sessions guarantee for any phones, any number of      *)
(* sign-ins and requests of the mini-app at a time, and any restarts.         *)
(*                                                                         *)
(* The argument follows a key from Telegram's answer to the copy in the       *)
(* database.  A request may find that its sign-in has been replaced while it   *)
(* waited, so each place of a request says what is known there of the sign-in  *)
(* it works on now (Carried), of its file (Backed) and of who is to blame if    *)
(* the file is another's (Traced).  Later the scans copy the file (Copies).    *)
(* A sign-in of the chat is never one of the mini-app (Apart).              *)
(***************************************************************************)
EXTENDS Sessions, TLAPS

Known(l) == tg[l] \in {"signed", "out"}

Works(r) == rpc[r] # "idle"

\* A sign-in belongs to the phone it is pending for, or whose file it is.
Booked ==
  /\ \A p \in Phone : \A k \in {pending[p], file[p], blob[p]} \cap Login : of[k] = p
  /\ \A r \in Request : Works(r) => rl[r] \in Login

\* What Telegram knows of a sign-in at each of its places, and where its file is.
Placing(l) ==
  /\ at[l] \in {"new", "connecting", "calling"} => tg[l] = "none"
  /\ at[l] \in {"me", "move", "backup"} => Known(l)
  /\ at[l] \in {"me", "move"} => l \in temp
  /\ l \in client /\ at[l] # "backup" => l \in temp
  /\ tg[l] = "out" => of[l] \in excused
  /\ talk = l => at[l] \in {"open", "me", "move", "backup", "over"}

Placings == \A l \in Login : Placing(l)

\* A sign-in that is the chat's, or that nobody has a code for, is not pending in
\* the mini-app and no request works on it.
Chats(l) == talk = l \/ at[l] \notin {"open", "over"}

Apart ==
  \A l \in Login : Chats(l) => /\ \A p \in Phone : pending[p] # l
                               /\ \A r \in Request : Works(r) => rl[r] # l

\* What is known of the sign-in a request works on.
Carried(r) ==
  /\ rpc[r] \in {"move", "retry", "check"} => Known(rl[r])
  /\ rpc[r] \in {"retry", "check"} => rl[r] \notin client
  /\ rpc[r] \in {"code", "password", "me"} /\ rl[r] \in client
       => pending[of[rl[r]]] = rl[r] \/ rl[r] \in disturbed

Carryings == \A r \in Request : Carried(r)

\* The phone has its row and a file that is signed in, or there is an excuse.
Backed(p) == p \in excused \/ (p \in row /\ Signed(file[p]))

BackedAll ==
  /\ \A r \in Request :
       /\ rpc[r] = "check" => Backed(of[rl[r]])
       /\ rpc[r] = "retry" => of[rl[r]] \in excused
       /\ rpc[r] = "move" => \/ Backed(of[rl[r]])
                             \/ of[rl[r]] \in row /\ rl[r] \in temp
  /\ \A l \in Login : at[l] = "backup" => Backed(of[l])

\* A copy is signed in, and so is what a scan is going to copy, or there is an
\* excuse.
Copies ==
  /\ \A p \in Phone : p \in excused \/ blob[p] = NoLogin \/ Signed(blob[p])
  /\ \A p \in scan : p \in excused \/ file[p] = NoLogin \/ Signed(file[p])

\* The file is the one of the sign-in, unless somebody is known to have
\* interfered, or the sign-in has been reported already.
Traced(l) == file[of[l]] = l \/ l \in kept \cup disturbed

TracedAll ==
  /\ \A r \in Request :
       /\ rpc[r] = "check" => Traced(rl[r])
       /\ rpc[r] \in {"move", "retry"} => Traced(rl[r]) \/ rl[r] \in temp
  /\ \A l \in Login : at[l] = "backup" => Traced(l)

\* A request has got a signed sign-in and will take it further.
Held(l) ==
  \E r \in Request : /\ rl[r] = l
                     /\ \/ rpc[r] \in {"move", "retry", "check"}
                        \/ rpc[r] = "me" /\ l \in client

NotLost ==
  \A l \in Login :
    Signed(l) => \/ l \in kept \cup disturbed
                 \/ at[l] \in {"me", "move", "backup", "verify"}
                 \/ Held(l)

SInv ==
  /\ TypeOK /\ Booked /\ Placings /\ Apart /\ Carryings
  /\ StoredIsSignedIn /\ BackedAll /\ Copies /\ AddedSurvives /\ TracedAll /\ NotLost

LEMMA OthersType == \A p, l : Others(p, l) \subseteq Login
BY DEF Others

-----------------------------------------------------------------------------
(* Each part of the invariant in each step.                                 *)

\* The types need to know that a request works on a sign-in (Booked): what it
\* moves and stores is rl[r].
LEMMA TypeStep ==
  ASSUME TypeOK, Booked, Next
  PROVE  TypeOK'
<1> USE OthersType DEF store, login, request, uses, history, Move, Goto, TypeOK, Key, Spent,
        Fault, SaveRow, Excuse, Meddle, Copied, Backup, BackedUp, Placed, Persisted, Finish,
        Forgotten, Places, Booked, Works
<1>1. ASSUME NEW l \in Login, StartWeb(l) \/ StartChat(l) PROVE TypeOK'
  BY <1>1 DEF StartWeb, StartChat
<1>2. ASSUME NEW l \in Login, CodeSent(l) PROVE TypeOK'
  BY <1>2 DEF CodeSent
<1>3. ASSUME NEW l \in Login, ChatCodeSent(l) PROVE TypeOK'
  BY <1>3 DEF ChatCodeSent
<1>4. ASSUME NEW l \in Login, NoCode(l) PROVE TypeOK'
  BY <1>4 DEF NoCode
<1>5. ASSUME NEW l \in Login, ChatNeedsPassword(l) \/ ChatAccepted(l) \/ ChatCodeLost(l)
      PROVE TypeOK'
  BY <1>5 DEF ChatNeedsPassword, ChatAccepted, ChatCodeLost
<1>6. ASSUME NEW l \in Login, ChatMe(l) \/ ChatDrop(l) PROVE TypeOK'
  BY <1>6 DEF ChatMe, ChatDrop
<1>7. ASSUME NEW l \in Login, ChatPersist(l) PROVE TypeOK'
  BY <1>7 DEF ChatPersist
<1>8. ASSUME NEW l \in Login, ChatDone(l) PROVE TypeOK'
  BY <1>8 DEF ChatDone
<1>9. ASSUME NEW l \in Login, Upload(l) PROVE TypeOK'
  BY <1>9 DEF Upload
<1>10. ASSUME NEW l \in Login, Verified(l) PROVE TypeOK'
  BY <1>10 DEF Verified
<1>11. ASSUME NEW l \in Login, LoggedOut(l) PROVE TypeOK'
  BY <1>11 DEF LoggedOut
<1>12. ASSUME NEW r \in Request, NEW p \in Phone, Submit(r, p) PROVE TypeOK'
  BY <1>12 DEF Submit
<1>13. ASSUME NEW r \in Request, NeedsPassword(r) \/ WrongAnswer(r) PROVE TypeOK'
  BY <1>13 DEF NeedsPassword, WrongAnswer
<1>14. ASSUME NEW r \in Request, Accepted(r) PROVE TypeOK'
  BY <1>14 DEF Accepted
<1>15. ASSUME NEW r \in Request, Refused(r) PROVE TypeOK'
  BY <1>15 DEF Refused
<1>16. ASSUME NEW r \in Request, Me(r) PROVE TypeOK'
  BY <1>16 DEF Me
<1>17. ASSUME NEW r \in Request, MeFails(r) PROVE TypeOK'
  BY <1>17 DEF MeFails
<1>18. ASSUME NEW r \in Request, Persist(r) PROVE TypeOK'
  BY <1>18 DEF Persist
<1>19. ASSUME NEW r \in Request, Retry(r) PROVE TypeOK'
  BY <1>19 DEF Retry
<1>20. ASSUME NEW r \in Request, Reported(r) PROVE TypeOK'
  BY <1>20 DEF Reported
<1>21. ASSUME NEW r \in Request, NotSaved(r) PROVE TypeOK'
  BY <1>21 DEF NotSaved
<1>22. ASSUME NEW p \in Phone, Cancel(p) \/ Expire(p) PROVE TypeOK'
  BY <1>22 DEF Cancel, Expire
<1>23. ASSUME NEW p \in Phone, Restore(p) \/ UseFails(p) \/ UsedAfterAll(p) PROVE TypeOK'
  BY <1>23 DEF Restore, UseFails, UsedAfterAll
<1>24. ASSUME NEW p \in Phone, Reload(p) \/ OpenBlank(p) PROVE TypeOK'
  BY <1>24 DEF Reload, OpenBlank
<1>25. ASSUME NEW p \in Phone, GiveUp(p) \/ Delete(p) PROVE TypeOK'
  BY <1>25 DEF GiveUp, Delete
<1>26. ASSUME Restart PROVE TypeOK'
  BY <1>26 DEF Restart
<1>27. ASSUME NEW p \in Phone, ScanBegins(p) \/ ScanEnds(p) PROVE TypeOK'
  BY <1>27 DEF ScanBegins, ScanEnds
<1> QED
  BY <1>1, <1>2, <1>3, <1>4, <1>5, <1>6, <1>7, <1>8, <1>9, <1>10, <1>11, <1>12, <1>13,
     <1>14, <1>15, <1>16, <1>17, <1>18, <1>19, <1>20, <1>21, <1>22, <1>23, <1>24, <1>25, <1>26, <1>27 DEF Next

\* A sign-in is stored and pending under its own phone.
LEMMA BookedStep ==
  ASSUME TypeOK, Booked, Next
  PROVE  Booked'
<1> USE SessionsAssumption DEF store, login, request, Goto, TypeOK, Copied, Backup, BackedUp, Placed,
        Persisted, Finish, Forgotten, Booked, Works
<1>1. ASSUME NEW l \in Login, StartWeb(l) \/ StartChat(l) PROVE Booked'
  BY <1>1 DEF StartWeb, StartChat
<1>2. ASSUME NEW l \in Login, CodeSent(l) PROVE Booked'
  BY <1>2 DEF CodeSent
<1>3. ASSUME NEW l \in Login, ChatCodeSent(l) PROVE Booked'
  BY <1>3 DEF ChatCodeSent
<1>4. ASSUME NEW l \in Login, NoCode(l) PROVE Booked'
  BY <1>4 DEF NoCode
<1>5. ASSUME NEW l \in Login, ChatNeedsPassword(l) \/ ChatAccepted(l) \/ ChatCodeLost(l)
      PROVE Booked'
  BY <1>5 DEF ChatNeedsPassword, ChatAccepted, ChatCodeLost
<1>6. ASSUME NEW l \in Login, ChatMe(l) \/ ChatDrop(l) PROVE Booked'
  BY <1>6 DEF ChatMe, ChatDrop
<1>7. ASSUME NEW l \in Login, ChatPersist(l) PROVE Booked'
  BY <1>7 DEF ChatPersist
<1>8. ASSUME NEW l \in Login, ChatDone(l) PROVE Booked'
  BY <1>8 DEF ChatDone
<1>9. ASSUME NEW l \in Login, Upload(l) PROVE Booked'
  BY <1>9 DEF Upload
<1>10. ASSUME NEW l \in Login, Verified(l) PROVE Booked'
  BY <1>10 DEF Verified
<1>11. ASSUME NEW l \in Login, LoggedOut(l) PROVE Booked'
  BY <1>11 DEF LoggedOut
<1>12. ASSUME NEW r \in Request, NEW p \in Phone, Submit(r, p) PROVE Booked'
  BY <1>12 DEF Submit
<1>13. ASSUME NEW r \in Request, NeedsPassword(r) \/ WrongAnswer(r) PROVE Booked'
  BY <1>13 DEF NeedsPassword, WrongAnswer
<1>14. ASSUME NEW r \in Request, Accepted(r) PROVE Booked'
  BY <1>14 DEF Accepted
<1>15. ASSUME NEW r \in Request, Refused(r) PROVE Booked'
  BY <1>15 DEF Refused
<1>16. ASSUME NEW r \in Request, Me(r) PROVE Booked'
  BY <1>16 DEF Me
<1>17. ASSUME NEW r \in Request, MeFails(r) PROVE Booked'
  BY <1>17 DEF MeFails
<1>18. ASSUME NEW r \in Request, Persist(r) PROVE Booked'
  BY <1>18 DEF Persist
<1>19. ASSUME NEW r \in Request, Retry(r) PROVE Booked'
  BY <1>19 DEF Retry
<1>20. ASSUME NEW r \in Request, Reported(r) PROVE Booked'
  BY <1>20 DEF Reported
<1>21. ASSUME NEW r \in Request, NotSaved(r) PROVE Booked'
  BY <1>21 DEF NotSaved
<1>22. ASSUME NEW p \in Phone, Cancel(p) \/ Expire(p) PROVE Booked'
  BY <1>22 DEF Cancel, Expire
<1>23. ASSUME NEW p \in Phone, Restore(p) \/ UseFails(p) \/ UsedAfterAll(p) PROVE Booked'
  BY <1>23 DEF Restore, UseFails, UsedAfterAll
<1>24. ASSUME NEW p \in Phone, Reload(p) \/ OpenBlank(p) PROVE Booked'
  BY <1>24 DEF Reload, OpenBlank
<1>25. ASSUME NEW p \in Phone, GiveUp(p) \/ Delete(p) PROVE Booked'
  BY <1>25 DEF GiveUp, Delete
<1>26. ASSUME Restart PROVE Booked'
  BY <1>26 DEF Restart
<1>27. ASSUME NEW p \in Phone, ScanBegins(p) \/ ScanEnds(p) PROVE Booked'
  BY <1>27 DEF ScanBegins, ScanEnds
<1> QED
  BY <1>1, <1>2, <1>3, <1>4, <1>5, <1>6, <1>7, <1>8, <1>9, <1>10, <1>11, <1>12, <1>13,
     <1>14, <1>15, <1>16, <1>17, <1>18, <1>19, <1>20, <1>21, <1>22, <1>23, <1>24, <1>25, <1>26, <1>27 DEF Next

\* A sign-in of the mini-app signs in only through a request, one of the chat only
\* in its own messages (Apart), so the places say what Telegram knows.
LEMMA PlacingStep ==
  ASSUME TypeOK, Booked, Placings, Apart, Carryings, Next
  PROVE  Placings'
<1> USE SessionsAssumption DEF login, history, Move, TypeOK, Excuse, Meddle, Backup, BackedUp, Placed,
        Persisted, Finish, Forgotten, Booked, Works, Placings, Placing, Apart, Carryings,
        Carried, Known, Chats, Accepts
<1>1. ASSUME NEW l \in Login, StartWeb(l) \/ StartChat(l) PROVE Placings'
  BY <1>1 DEF StartWeb, StartChat
<1>2. ASSUME NEW l \in Login, CodeSent(l) PROVE Placings'
  BY <1>2 DEF CodeSent
<1>3. ASSUME NEW l \in Login, ChatCodeSent(l) PROVE Placings'
  BY <1>3 DEF ChatCodeSent
<1>4. ASSUME NEW l \in Login, NoCode(l) PROVE Placings'
  BY <1>4 DEF NoCode
<1>5. ASSUME NEW l \in Login, ChatNeedsPassword(l) \/ ChatAccepted(l) \/ ChatCodeLost(l)
      PROVE Placings'
  BY <1>5 DEF ChatNeedsPassword, ChatAccepted, ChatCodeLost
<1>6. ASSUME NEW l \in Login, ChatMe(l) \/ ChatDrop(l) PROVE Placings'
  BY <1>6 DEF ChatMe, ChatDrop
<1>7. ASSUME NEW l \in Login, ChatPersist(l) PROVE Placings'
  BY <1>7 DEF ChatPersist
<1>8. ASSUME NEW l \in Login, ChatDone(l) PROVE Placings'
  BY <1>8 DEF ChatDone
<1>9. ASSUME NEW l \in Login, Upload(l) PROVE Placings'
  BY <1>9 DEF Upload
<1>10. ASSUME NEW l \in Login, Verified(l) PROVE Placings'
  BY <1>10 DEF Verified
<1>11. ASSUME NEW l \in Login, LoggedOut(l) PROVE Placings'
  BY <1>11 DEF LoggedOut
<1>12. ASSUME NEW r \in Request, NEW p \in Phone, Submit(r, p) PROVE Placings'
  BY <1>12 DEF Submit
<1>13. ASSUME NEW r \in Request, NeedsPassword(r) \/ WrongAnswer(r) PROVE Placings'
  BY <1>13 DEF NeedsPassword, WrongAnswer
<1>14. ASSUME NEW r \in Request, Accepted(r) PROVE Placings'
  BY <1>14 DEF Accepted
<1>15. ASSUME NEW r \in Request, Refused(r) PROVE Placings'
  BY <1>15 DEF Refused
<1>16. ASSUME NEW r \in Request, Me(r) PROVE Placings'
  BY <1>16 DEF Me
<1>17. ASSUME NEW r \in Request, MeFails(r) PROVE Placings'
  BY <1>17 DEF MeFails
<1>18. ASSUME NEW r \in Request, Persist(r) PROVE Placings'
  BY <1>18 DEF Persist
<1>19. ASSUME NEW r \in Request, Retry(r) PROVE Placings'
  BY <1>19 DEF Retry
<1>20. ASSUME NEW r \in Request, Reported(r) PROVE Placings'
  BY <1>20 DEF Reported
<1>21. ASSUME NEW r \in Request, NotSaved(r) PROVE Placings'
  BY <1>21 DEF NotSaved
<1>22. ASSUME NEW p \in Phone, Cancel(p) \/ Expire(p) PROVE Placings'
  BY <1>22 DEF Cancel, Expire
<1>23. ASSUME NEW p \in Phone, Restore(p) \/ UseFails(p) \/ UsedAfterAll(p) PROVE Placings'
  BY <1>23 DEF Restore, UseFails, UsedAfterAll
<1>24. ASSUME NEW p \in Phone, Reload(p) \/ OpenBlank(p) PROVE Placings'
  BY <1>24 DEF Reload, OpenBlank
<1>25. ASSUME NEW p \in Phone, GiveUp(p) \/ Delete(p) PROVE Placings'
  BY <1>25 DEF GiveUp, Delete
<1>26. ASSUME Restart PROVE Placings'
  BY <1>26 DEF Restart
<1>27. ASSUME NEW p \in Phone, ScanBegins(p) \/ ScanEnds(p) PROVE Placings'
  BY <1>27 DEF ScanBegins, ScanEnds
<1> QED
  BY <1>1, <1>2, <1>3, <1>4, <1>5, <1>6, <1>7, <1>8, <1>9, <1>10, <1>11, <1>12, <1>13,
     <1>14, <1>15, <1>16, <1>17, <1>18, <1>19, <1>20, <1>21, <1>22, <1>23, <1>24, <1>25, <1>26, <1>27 DEF Next

\* A sign-in becomes pending in the one step in which it is nobody else's.
LEMMA ApartStep ==
  ASSUME TypeOK, Booked, Placings, Apart, Carryings, Next
  PROVE  Apart'
<1> USE SessionsAssumption DEF store, login, request, history, Move, Goto, Signed, TypeOK,
        Key, Finish, Booked, Works, Placings, Placing, Apart, Chats
<1>1. ASSUME NEW l \in Login, StartWeb(l) \/ StartChat(l) PROVE Apart'
  BY <1>1 DEF StartWeb, StartChat
<1>2. ASSUME NEW l \in Login, CodeSent(l) PROVE Apart'
  BY <1>2 DEF CodeSent
<1>3. ASSUME NEW l \in Login, ChatCodeSent(l) PROVE Apart'
  BY <1>3 DEF ChatCodeSent
<1>4. ASSUME NEW l \in Login, NoCode(l) PROVE Apart'
  BY <1>4 DEF NoCode
<1>5. ASSUME NEW l \in Login, ChatNeedsPassword(l) \/ ChatAccepted(l) \/ ChatCodeLost(l)
      PROVE Apart'
  BY <1>5 DEF ChatNeedsPassword, ChatAccepted, ChatCodeLost
<1>6. ASSUME NEW l \in Login, ChatMe(l) \/ ChatDrop(l) PROVE Apart'
  BY <1>6 DEF ChatMe, ChatDrop
<1>7. ASSUME NEW l \in Login, ChatPersist(l) PROVE Apart'
  BY <1>7 DEF ChatPersist
<1>8. ASSUME NEW l \in Login, ChatDone(l) PROVE Apart'
  BY <1>8 DEF ChatDone
<1>9. ASSUME NEW l \in Login, Upload(l) PROVE Apart'
  BY <1>9 DEF Upload
<1>10. ASSUME NEW l \in Login, Verified(l) PROVE Apart'
  BY <1>10 DEF Verified
<1>11. ASSUME NEW l \in Login, LoggedOut(l) PROVE Apart'
  BY <1>11 DEF LoggedOut
<1>12. ASSUME NEW r \in Request, NEW p \in Phone, Submit(r, p) PROVE Apart'
  BY <1>12 DEF Submit
<1>13. ASSUME NEW r \in Request, NeedsPassword(r) \/ WrongAnswer(r) PROVE Apart'
  BY <1>13 DEF NeedsPassword, WrongAnswer
<1>14. ASSUME NEW r \in Request, Accepted(r) PROVE Apart'
  BY <1>14 DEF Accepted
<1>15. ASSUME NEW r \in Request, Refused(r) PROVE Apart'
  BY <1>15 DEF Refused
<1>16. ASSUME NEW r \in Request, Me(r) PROVE Apart'
  BY <1>16 DEF Me
<1>17. ASSUME NEW r \in Request, MeFails(r) PROVE Apart'
  BY <1>17 DEF MeFails
<1>18. ASSUME NEW r \in Request, Persist(r) PROVE Apart'
  BY <1>18 DEF Persist
<1>19. ASSUME NEW r \in Request, Retry(r) PROVE Apart'
  BY <1>19 DEF Retry
<1>20. ASSUME NEW r \in Request, Reported(r) PROVE Apart'
  BY <1>20 DEF Reported
<1>21. ASSUME NEW r \in Request, NotSaved(r) PROVE Apart'
  BY <1>21 DEF NotSaved
<1>22. ASSUME NEW p \in Phone, Cancel(p) \/ Expire(p) PROVE Apart'
  BY <1>22 DEF Cancel, Expire
<1>23. ASSUME NEW p \in Phone, Restore(p) \/ UseFails(p) \/ UsedAfterAll(p) PROVE Apart'
  BY <1>23 DEF Restore, UseFails, UsedAfterAll
<1>24. ASSUME NEW p \in Phone, Reload(p) \/ OpenBlank(p) PROVE Apart'
  BY <1>24 DEF Reload, OpenBlank
<1>25. ASSUME NEW p \in Phone, GiveUp(p) \/ Delete(p) PROVE Apart'
  BY <1>25 DEF GiveUp, Delete
<1>26. ASSUME Restart PROVE Apart'
  BY <1>26 DEF Restart
<1>27. ASSUME NEW p \in Phone, ScanBegins(p) \/ ScanEnds(p) PROVE Apart'
  BY <1>27 DEF ScanBegins, ScanEnds
<1> QED
  BY <1>1, <1>2, <1>3, <1>4, <1>5, <1>6, <1>7, <1>8, <1>9, <1>10, <1>11, <1>12, <1>13,
     <1>14, <1>15, <1>16, <1>17, <1>18, <1>19, <1>20, <1>21, <1>22, <1>23, <1>24, <1>25, <1>26, <1>27 DEF Next

\* What a request knows of the sign-in it works on.  After Telegram's answer it
\* looks the sign-in up again and goes on with the one that is pending then.
LEMMA CarriedStep ==
  ASSUME TypeOK, Booked, Placings, Apart, Carryings, Next
  PROVE  Carryings'
<1> USE SessionsAssumption DEF store, login, request, history, Move, Goto, Signed, TypeOK,
        Key, Meddle, Excuse, Backup, BackedUp, Placed, Persisted, Finish, Forgotten, Booked, Works,
        Placings, Placing, Apart, Carryings, Carried, Known, Chats, Accepts, Knows
<1>1. ASSUME NEW l \in Login, StartWeb(l) \/ StartChat(l) PROVE Carryings'
  BY <1>1 DEF StartWeb, StartChat
<1>2. ASSUME NEW l \in Login, CodeSent(l) PROVE Carryings'
  BY <1>2 DEF CodeSent
<1>3. ASSUME NEW l \in Login, ChatCodeSent(l) PROVE Carryings'
  BY <1>3 DEF ChatCodeSent
<1>4. ASSUME NEW l \in Login, NoCode(l) PROVE Carryings'
  BY <1>4 DEF NoCode
<1>5. ASSUME NEW l \in Login, ChatNeedsPassword(l) \/ ChatAccepted(l) \/ ChatCodeLost(l)
      PROVE Carryings'
  BY <1>5 DEF ChatNeedsPassword, ChatAccepted, ChatCodeLost
<1>6. ASSUME NEW l \in Login, ChatMe(l) \/ ChatDrop(l) PROVE Carryings'
  BY <1>6 DEF ChatMe, ChatDrop
<1>7. ASSUME NEW l \in Login, ChatPersist(l) PROVE Carryings'
  BY <1>7 DEF ChatPersist
<1>8. ASSUME NEW l \in Login, ChatDone(l) PROVE Carryings'
  BY <1>8 DEF ChatDone
<1>9. ASSUME NEW l \in Login, Upload(l) PROVE Carryings'
  BY <1>9 DEF Upload
<1>10. ASSUME NEW l \in Login, Verified(l) PROVE Carryings'
  BY <1>10 DEF Verified
<1>11. ASSUME NEW l \in Login, LoggedOut(l) PROVE Carryings'
  BY <1>11 DEF LoggedOut
<1>12. ASSUME NEW r \in Request, NEW p \in Phone, Submit(r, p) PROVE Carryings'
  BY <1>12 DEF Submit
<1>13. ASSUME NEW r \in Request, NeedsPassword(r) \/ WrongAnswer(r) PROVE Carryings'
  BY <1>13 DEF NeedsPassword, WrongAnswer
<1>14. ASSUME NEW r \in Request, Accepted(r) PROVE Carryings'
  <2>1. /\ rpc[r] \in {"code", "password"} /\ UNCHANGED <<temp, client, of, at, pending, disturbed>>
        /\ tg' = [tg EXCEPT ![rl[r]] = "signed"]
        /\ rl' = [rl EXCEPT ![r] = pending[of[rl[r]]]]
        /\ rpc' = [rpc EXCEPT ![r] = IF pending[of[rl[r]]] = NoLogin THEN "idle" ELSE "me"]
    BY <1>14 DEF Accepted
  <2>2. rl[r] \in Login
    BY <2>1 DEF Booked, Works
  <2>3. ASSUME NEW x \in Request \ {r} PROVE Carried(x)'
    BY <2>1, <2>2, <2>3
  <2>4. Carried(r)'
    <3>1. CASE pending[of[rl[r]]] = NoLogin
      BY <2>1, <3>1
    <3>2. CASE pending[of[rl[r]]] # NoLogin
      <4>1. pending[of[rl[r]]] \in Login
        BY <2>2, <3>2
      <4>2. of[pending[of[rl[r]]]] = of[rl[r]]
        BY <2>2, <4>1
      <4>3. rl'[r] = pending[of[rl[r]]]
        BY <2>1
      <4>4. pending[of[rl'[r]]] = rl'[r]
        BY <4>2, <4>3
      <4>5. rpc'[r] = "me"
        BY <2>1, <3>2
      <4> QED
        BY <2>1, <4>4, <4>5
    <3> QED
      BY <3>1, <3>2
  <2> QED
    BY <2>3, <2>4
<1>15. ASSUME NEW r \in Request, Refused(r) PROVE Carryings'
  BY <1>15 DEF Refused
<1>16. ASSUME NEW r \in Request, Me(r) PROVE Carryings'
  BY <1>16 DEF Me
<1>17. ASSUME NEW r \in Request, MeFails(r) PROVE Carryings'
  BY <1>17 DEF MeFails
<1>18. ASSUME NEW r \in Request, Persist(r) PROVE Carryings'
  BY <1>18 DEF Persist
<1>19. ASSUME NEW r \in Request, Retry(r) PROVE Carryings'
  BY <1>19 DEF Retry
<1>20. ASSUME NEW r \in Request, Reported(r) PROVE Carryings'
  BY <1>20 DEF Reported
<1>21. ASSUME NEW r \in Request, NotSaved(r) PROVE Carryings'
  BY <1>21 DEF NotSaved
<1>22. ASSUME NEW p \in Phone, Cancel(p) \/ Expire(p) PROVE Carryings'
  BY <1>22 DEF Cancel, Expire
<1>23. ASSUME NEW p \in Phone, Restore(p) \/ UseFails(p) \/ UsedAfterAll(p) PROVE Carryings'
  BY <1>23 DEF Restore, UseFails, UsedAfterAll
<1>24. ASSUME NEW p \in Phone, Reload(p) \/ OpenBlank(p) PROVE Carryings'
  BY <1>24 DEF Reload, OpenBlank
<1>25. ASSUME NEW p \in Phone, GiveUp(p) \/ Delete(p) PROVE Carryings'
  BY <1>25 DEF GiveUp, Delete
<1>26. ASSUME Restart PROVE Carryings'
  BY <1>26 DEF Restart
<1>27. ASSUME NEW p \in Phone, ScanBegins(p) \/ ScanEnds(p) PROVE Carryings'
  BY <1>27 DEF ScanBegins, ScanEnds
<1> QED
  BY <1>1, <1>2, <1>3, <1>4, <1>5, <1>6, <1>7, <1>8, <1>9, <1>10, <1>11, <1>12, <1>13,
     <1>14, <1>15, <1>16, <1>17, <1>18, <1>19, <1>20, <1>21, <1>22, <1>23, <1>24, <1>25, <1>26, <1>27 DEF Next

\* Only what Telegram knows is stored: whoever places a file has asked who signed
\* in (get_me).
LEMMA StoredStep ==
  ASSUME TypeOK, Booked, Placings, Apart, Carryings, StoredIsSignedIn, Next
  PROVE  StoredIsSignedIn'
<1> USE SessionsAssumption DEF store, login, request, history, Move, Goto, Signed, TypeOK,
        Key, Copied, Backup, BackedUp, Placed, Persisted, Finish, Forgotten, Booked, Works, Placings,
        Placing, Carryings, Carried, Known, StoredIsSignedIn, Accepts
<1>1. ASSUME NEW l \in Login, StartWeb(l) \/ StartChat(l) PROVE StoredIsSignedIn'
  BY <1>1 DEF StartWeb, StartChat
<1>2. ASSUME NEW l \in Login, CodeSent(l) PROVE StoredIsSignedIn'
  BY <1>2 DEF CodeSent
<1>3. ASSUME NEW l \in Login, ChatCodeSent(l) PROVE StoredIsSignedIn'
  BY <1>3 DEF ChatCodeSent
<1>4. ASSUME NEW l \in Login, NoCode(l) PROVE StoredIsSignedIn'
  BY <1>4 DEF NoCode
<1>5. ASSUME NEW l \in Login, ChatNeedsPassword(l) \/ ChatAccepted(l) \/ ChatCodeLost(l)
      PROVE StoredIsSignedIn'
  BY <1>5 DEF ChatNeedsPassword, ChatAccepted, ChatCodeLost
<1>6. ASSUME NEW l \in Login, ChatMe(l) \/ ChatDrop(l) PROVE StoredIsSignedIn'
  BY <1>6 DEF ChatMe, ChatDrop
<1>7. ASSUME NEW l \in Login, ChatPersist(l) PROVE StoredIsSignedIn'
  BY <1>7 DEF ChatPersist
<1>8. ASSUME NEW l \in Login, ChatDone(l) PROVE StoredIsSignedIn'
  BY <1>8 DEF ChatDone
<1>9. ASSUME NEW l \in Login, Upload(l) PROVE StoredIsSignedIn'
  BY <1>9 DEF Upload
<1>10. ASSUME NEW l \in Login, Verified(l) PROVE StoredIsSignedIn'
  BY <1>10 DEF Verified
<1>11. ASSUME NEW l \in Login, LoggedOut(l) PROVE StoredIsSignedIn'
  BY <1>11 DEF LoggedOut
<1>12. ASSUME NEW r \in Request, NEW p \in Phone, Submit(r, p) PROVE StoredIsSignedIn'
  BY <1>12 DEF Submit
<1>13. ASSUME NEW r \in Request, NeedsPassword(r) \/ WrongAnswer(r) PROVE StoredIsSignedIn'
  BY <1>13 DEF NeedsPassword, WrongAnswer
<1>14. ASSUME NEW r \in Request, Accepted(r) PROVE StoredIsSignedIn'
  BY <1>14 DEF Accepted
<1>15. ASSUME NEW r \in Request, Refused(r) PROVE StoredIsSignedIn'
  BY <1>15 DEF Refused
<1>16. ASSUME NEW r \in Request, Me(r) PROVE StoredIsSignedIn'
  BY <1>16 DEF Me
<1>17. ASSUME NEW r \in Request, MeFails(r) PROVE StoredIsSignedIn'
  BY <1>17 DEF MeFails
<1>18. ASSUME NEW r \in Request, Persist(r) PROVE StoredIsSignedIn'
  BY <1>18 DEF Persist
<1>19. ASSUME NEW r \in Request, Retry(r) PROVE StoredIsSignedIn'
  BY <1>19 DEF Retry
<1>20. ASSUME NEW r \in Request, Reported(r) PROVE StoredIsSignedIn'
  BY <1>20 DEF Reported
<1>21. ASSUME NEW r \in Request, NotSaved(r) PROVE StoredIsSignedIn'
  BY <1>21 DEF NotSaved
<1>22. ASSUME NEW p \in Phone, Cancel(p) \/ Expire(p) PROVE StoredIsSignedIn'
  BY <1>22 DEF Cancel, Expire
<1>23. ASSUME NEW p \in Phone, Restore(p) \/ UseFails(p) \/ UsedAfterAll(p) PROVE StoredIsSignedIn'
  BY <1>23 DEF Restore, UseFails, UsedAfterAll
<1>24. ASSUME NEW p \in Phone, Reload(p) \/ OpenBlank(p) PROVE StoredIsSignedIn'
  BY <1>24 DEF Reload, OpenBlank
<1>25. ASSUME NEW p \in Phone, GiveUp(p) \/ Delete(p) PROVE StoredIsSignedIn'
  BY <1>25 DEF GiveUp, Delete
<1>26. ASSUME Restart PROVE StoredIsSignedIn'
  BY <1>26, SMTT(30) DEF Restart
<1>27. ASSUME NEW p \in Phone, ScanBegins(p) PROVE StoredIsSignedIn'
  BY <1>27 DEF ScanBegins
<1>28. ASSUME NEW p \in Phone, ScanEnds(p) PROVE StoredIsSignedIn'
  BY <1>28 DEF ScanEnds
<1> QED
  BY <1>1, <1>2, <1>3, <1>4, <1>5, <1>6, <1>7, <1>8, <1>9, <1>10, <1>11, <1>12, <1>13,
     <1>14, <1>15, <1>16, <1>17, <1>18, <1>19, <1>20, <1>21, <1>22, <1>23, <1>24, <1>25, <1>26, <1>27, <1>28 DEF Next

\* From the row to the report the file of the phone stays one that is signed in,
\* or there is an excuse.
LEMMA BackedStep ==
  ASSUME TypeOK, Booked, Placings, Apart, Carryings, BackedAll, Next
  PROVE  BackedAll'
<1> USE SessionsAssumption DEF store, login, request, history, Move, Goto, Signed, TypeOK,
        Key, SaveRow, Excuse, Meddle, Backup, BackedUp, Placed, Persisted, Finish, Forgotten, Booked,
        Works, Placings, Placing, Apart, Carryings, Carried, Known, Chats, Accepts, Knows,
        BackedAll, Backed, Adding
<1>1. ASSUME NEW l \in Login, StartWeb(l) \/ StartChat(l) PROVE BackedAll'
  BY <1>1 DEF StartWeb, StartChat
<1>2. ASSUME NEW l \in Login, CodeSent(l) PROVE BackedAll'
  BY <1>2 DEF CodeSent
<1>3. ASSUME NEW l \in Login, ChatCodeSent(l) PROVE BackedAll'
  BY <1>3 DEF ChatCodeSent
<1>4. ASSUME NEW l \in Login, NoCode(l) PROVE BackedAll'
  BY <1>4 DEF NoCode
<1>5. ASSUME NEW l \in Login, ChatNeedsPassword(l) \/ ChatAccepted(l) \/ ChatCodeLost(l)
      PROVE BackedAll'
  BY <1>5 DEF ChatNeedsPassword, ChatAccepted, ChatCodeLost
<1>6. ASSUME NEW l \in Login, ChatMe(l) \/ ChatDrop(l) PROVE BackedAll'
  BY <1>6 DEF ChatMe, ChatDrop
<1>7. ASSUME NEW l \in Login, ChatPersist(l) PROVE BackedAll'
  BY <1>7 DEF ChatPersist
<1>8. ASSUME NEW l \in Login, ChatDone(l) PROVE BackedAll'
  BY <1>8 DEF ChatDone
<1>9. ASSUME NEW l \in Login, Upload(l) PROVE BackedAll'
  BY <1>9 DEF Upload
<1>10. ASSUME NEW l \in Login, Verified(l) PROVE BackedAll'
  BY <1>10 DEF Verified
<1>11. ASSUME NEW l \in Login, LoggedOut(l) PROVE BackedAll'
  BY <1>11 DEF LoggedOut
<1>12. ASSUME NEW r \in Request, NEW p \in Phone, Submit(r, p) PROVE BackedAll'
  BY <1>12 DEF Submit
<1>13. ASSUME NEW r \in Request, NeedsPassword(r) \/ WrongAnswer(r) PROVE BackedAll'
  BY <1>13 DEF NeedsPassword, WrongAnswer
<1>14. ASSUME NEW r \in Request, Accepted(r) PROVE BackedAll'
  BY <1>14 DEF Accepted
<1>15. ASSUME NEW r \in Request, Refused(r) PROVE BackedAll'
  BY <1>15 DEF Refused
<1>16. ASSUME NEW r \in Request, Me(r) PROVE BackedAll'
  BY <1>16 DEF Me
<1>17. ASSUME NEW r \in Request, MeFails(r) PROVE BackedAll'
  BY <1>17 DEF MeFails
<1>18. ASSUME NEW r \in Request, Persist(r) PROVE BackedAll'
  BY <1>18 DEF Persist
<1>19. ASSUME NEW r \in Request, Retry(r) PROVE BackedAll'
  BY <1>19 DEF Retry
<1>20. ASSUME NEW r \in Request, Reported(r) PROVE BackedAll'
  BY <1>20 DEF Reported
<1>21. ASSUME NEW r \in Request, NotSaved(r) PROVE BackedAll'
  BY <1>21 DEF NotSaved
<1>22. ASSUME NEW p \in Phone, Cancel(p) \/ Expire(p) PROVE BackedAll'
  BY <1>22 DEF Cancel, Expire
<1>23. ASSUME NEW p \in Phone, Restore(p) \/ UseFails(p) \/ UsedAfterAll(p) PROVE BackedAll'
  BY <1>23 DEF Restore, UseFails, UsedAfterAll
<1>24. ASSUME NEW p \in Phone, Reload(p) \/ OpenBlank(p) PROVE BackedAll'
  BY <1>24 DEF Reload, OpenBlank
<1>25. ASSUME NEW p \in Phone, GiveUp(p) \/ Delete(p) PROVE BackedAll'
  BY <1>25 DEF GiveUp, Delete
<1>26. ASSUME Restart PROVE BackedAll'
  BY <1>26 DEF Restart
<1>27. ASSUME NEW p \in Phone, ScanBegins(p) \/ ScanEnds(p) PROVE BackedAll'
  BY <1>27 DEF ScanBegins, ScanEnds
<1> QED
  BY <1>1, <1>2, <1>3, <1>4, <1>5, <1>6, <1>7, <1>8, <1>9, <1>10, <1>11, <1>12, <1>13,
     <1>14, <1>15, <1>16, <1>17, <1>18, <1>19, <1>20, <1>21, <1>22, <1>23, <1>24, <1>25, <1>26, <1>27, ZenonT(40) DEF Next

\* Copies are made of such files: a scan begins with one, and whoever puts another
\* in its place meanwhile has signed in with it, or spoils it.
LEMMA CopiesStep ==
  ASSUME TypeOK, Booked, Placings, Apart, Carryings, BackedAll, Copies, Next
  PROVE  Copies'
<1> USE SessionsAssumption DEF store, login, request, uses, history, Move, Goto, Signed, TypeOK,
        Key, SaveRow, Excuse, Meddle, Copied, Backup, BackedUp, Placed, Persisted, Finish, Forgotten,
        Booked, Works, Placings, Placing, Carryings, Carried, Known, BackedAll, Backed, Copies, Accepts
<1>1. ASSUME NEW l \in Login, StartWeb(l) \/ StartChat(l) PROVE Copies'
  BY <1>1 DEF StartWeb, StartChat
<1>2. ASSUME NEW l \in Login, CodeSent(l) PROVE Copies'
  BY <1>2 DEF CodeSent
<1>3. ASSUME NEW l \in Login, ChatCodeSent(l) PROVE Copies'
  BY <1>3 DEF ChatCodeSent
<1>4. ASSUME NEW l \in Login, NoCode(l) PROVE Copies'
  BY <1>4 DEF NoCode
<1>5. ASSUME NEW l \in Login, ChatNeedsPassword(l) \/ ChatAccepted(l) \/ ChatCodeLost(l)
      PROVE Copies'
  BY <1>5 DEF ChatNeedsPassword, ChatAccepted, ChatCodeLost
<1>6. ASSUME NEW l \in Login, ChatMe(l) \/ ChatDrop(l) PROVE Copies'
  BY <1>6 DEF ChatMe, ChatDrop
<1>7. ASSUME NEW l \in Login, ChatPersist(l) PROVE Copies'
  BY <1>7 DEF ChatPersist
<1>8. ASSUME NEW l \in Login, ChatDone(l) PROVE Copies'
  BY <1>8 DEF ChatDone
<1>9. ASSUME NEW l \in Login, Upload(l) PROVE Copies'
  BY <1>9 DEF Upload
<1>10. ASSUME NEW l \in Login, Verified(l) PROVE Copies'
  BY <1>10 DEF Verified
<1>11. ASSUME NEW l \in Login, LoggedOut(l) PROVE Copies'
  BY <1>11 DEF LoggedOut
<1>12. ASSUME NEW r \in Request, NEW p \in Phone, Submit(r, p) PROVE Copies'
  BY <1>12 DEF Submit
<1>13. ASSUME NEW r \in Request, NeedsPassword(r) \/ WrongAnswer(r) PROVE Copies'
  BY <1>13 DEF NeedsPassword, WrongAnswer
<1>14. ASSUME NEW r \in Request, Accepted(r) PROVE Copies'
  BY <1>14 DEF Accepted
<1>15. ASSUME NEW r \in Request, Refused(r) PROVE Copies'
  BY <1>15 DEF Refused
<1>16. ASSUME NEW r \in Request, Me(r) PROVE Copies'
  BY <1>16 DEF Me
<1>17. ASSUME NEW r \in Request, MeFails(r) PROVE Copies'
  BY <1>17 DEF MeFails
<1>18. ASSUME NEW r \in Request, Persist(r) PROVE Copies'
  BY <1>18 DEF Persist
<1>19. ASSUME NEW r \in Request, Retry(r) PROVE Copies'
  BY <1>19 DEF Retry
<1>20. ASSUME NEW r \in Request, Reported(r) PROVE Copies'
  BY <1>20 DEF Reported
<1>21. ASSUME NEW r \in Request, NotSaved(r) PROVE Copies'
  BY <1>21 DEF NotSaved
<1>22. ASSUME NEW p \in Phone, Cancel(p) \/ Expire(p) PROVE Copies'
  BY <1>22 DEF Cancel, Expire
<1>23. ASSUME NEW p \in Phone, Restore(p) \/ UseFails(p) \/ UsedAfterAll(p) PROVE Copies'
  BY <1>23 DEF Restore, UseFails, UsedAfterAll
<1>24. ASSUME NEW p \in Phone, Reload(p) \/ OpenBlank(p) PROVE Copies'
  BY <1>24 DEF Reload, OpenBlank
<1>25. ASSUME NEW p \in Phone, GiveUp(p) \/ Delete(p) PROVE Copies'
  BY <1>25 DEF GiveUp, Delete
<1>26. ASSUME Restart PROVE Copies'
  BY <1>26 DEF Restart
<1>27. ASSUME NEW p \in Phone, ScanBegins(p) \/ ScanEnds(p) PROVE Copies'
  BY <1>27 DEF ScanBegins, ScanEnds
<1> QED
  BY <1>1, <1>2, <1>3, <1>4, <1>5, <1>6, <1>7, <1>8, <1>9, <1>10, <1>11, <1>12, <1>13,
     <1>14, <1>15, <1>16, <1>17, <1>18, <1>19, <1>20, <1>21, <1>22, <1>23, <1>24, <1>25, <1>26, <1>27 DEF Next

\* The copy is made of that file.
LEMMA AddedStep ==
  ASSUME TypeOK, Booked, Placings, Apart, Carryings, BackedAll, Copies, AddedSurvives, Next
  PROVE  AddedSurvives'
<1> USE SessionsAssumption DEF store, login, request, history, Move, Goto, Signed, TypeOK,
        Key, SaveRow, Excuse, Meddle, Copied, Backup, BackedUp, Placed, Persisted, Finish, Forgotten,
        Booked, Works, Placings, Placing, BackedAll, Backed, Copies, AddedSurvives, Accepts
<1>1. ASSUME NEW l \in Login, StartWeb(l) \/ StartChat(l) PROVE AddedSurvives'
  BY <1>1 DEF StartWeb, StartChat
<1>2. ASSUME NEW l \in Login, CodeSent(l) PROVE AddedSurvives'
  BY <1>2 DEF CodeSent
<1>3. ASSUME NEW l \in Login, ChatCodeSent(l) PROVE AddedSurvives'
  BY <1>3 DEF ChatCodeSent
<1>4. ASSUME NEW l \in Login, NoCode(l) PROVE AddedSurvives'
  BY <1>4 DEF NoCode
<1>5. ASSUME NEW l \in Login, ChatNeedsPassword(l) \/ ChatAccepted(l) \/ ChatCodeLost(l)
      PROVE AddedSurvives'
  BY <1>5 DEF ChatNeedsPassword, ChatAccepted, ChatCodeLost
<1>6. ASSUME NEW l \in Login, ChatMe(l) \/ ChatDrop(l) PROVE AddedSurvives'
  BY <1>6 DEF ChatMe, ChatDrop
<1>7. ASSUME NEW l \in Login, ChatPersist(l) PROVE AddedSurvives'
  BY <1>7 DEF ChatPersist
<1>8. ASSUME NEW l \in Login, ChatDone(l) PROVE AddedSurvives'
  BY <1>8 DEF ChatDone
<1>9. ASSUME NEW l \in Login, Upload(l) PROVE AddedSurvives'
  BY <1>9 DEF Upload
<1>10. ASSUME NEW l \in Login, Verified(l) PROVE AddedSurvives'
  BY <1>10 DEF Verified
<1>11. ASSUME NEW l \in Login, LoggedOut(l) PROVE AddedSurvives'
  BY <1>11 DEF LoggedOut
<1>12. ASSUME NEW r \in Request, NEW p \in Phone, Submit(r, p) PROVE AddedSurvives'
  BY <1>12 DEF Submit
<1>13. ASSUME NEW r \in Request, NeedsPassword(r) \/ WrongAnswer(r) PROVE AddedSurvives'
  BY <1>13 DEF NeedsPassword, WrongAnswer
<1>14. ASSUME NEW r \in Request, Accepted(r) PROVE AddedSurvives'
  BY <1>14 DEF Accepted
<1>15. ASSUME NEW r \in Request, Refused(r) PROVE AddedSurvives'
  BY <1>15 DEF Refused
<1>16. ASSUME NEW r \in Request, Me(r) PROVE AddedSurvives'
  BY <1>16 DEF Me
<1>17. ASSUME NEW r \in Request, MeFails(r) PROVE AddedSurvives'
  BY <1>17 DEF MeFails
<1>18. ASSUME NEW r \in Request, Persist(r) PROVE AddedSurvives'
  BY <1>18 DEF Persist
<1>19. ASSUME NEW r \in Request, Retry(r) PROVE AddedSurvives'
  BY <1>19 DEF Retry
<1>20. ASSUME NEW r \in Request, Reported(r) PROVE AddedSurvives'
  BY <1>20 DEF Reported
<1>21. ASSUME NEW r \in Request, NotSaved(r) PROVE AddedSurvives'
  BY <1>21 DEF NotSaved
<1>22. ASSUME NEW p \in Phone, Cancel(p) \/ Expire(p) PROVE AddedSurvives'
  BY <1>22 DEF Cancel, Expire
<1>23. ASSUME NEW p \in Phone, Restore(p) \/ UseFails(p) \/ UsedAfterAll(p) PROVE AddedSurvives'
  BY <1>23 DEF Restore, UseFails, UsedAfterAll
<1>24. ASSUME NEW p \in Phone, Reload(p) \/ OpenBlank(p) PROVE AddedSurvives'
  BY <1>24 DEF Reload, OpenBlank
<1>25. ASSUME NEW p \in Phone, GiveUp(p) \/ Delete(p) PROVE AddedSurvives'
  BY <1>25 DEF GiveUp, Delete
<1>26. ASSUME Restart PROVE AddedSurvives'
  BY <1>26 DEF Restart
<1>27. ASSUME NEW p \in Phone, ScanBegins(p) \/ ScanEnds(p) PROVE AddedSurvives'
  BY <1>27 DEF ScanBegins, ScanEnds
<1> QED
  BY <1>1, <1>2, <1>3, <1>4, <1>5, <1>6, <1>7, <1>8, <1>9, <1>10, <1>11, <1>12, <1>13,
     <1>14, <1>15, <1>16, <1>17, <1>18, <1>19, <1>20, <1>21, <1>22, <1>23, <1>24, <1>25, <1>26, <1>27 DEF Next

\* The file stays the one of the sign-in, or whoever took its place has left a mark.
LEMMA TracedStep ==
  ASSUME TypeOK, Booked, Placings, Apart, Carryings, TracedAll, Next
  PROVE  TracedAll'
<1> USE SessionsAssumption DEF store, login, request, history, Move, Goto, Signed, TypeOK,
        Key, Meddle, Backup, BackedUp, Placed, Persisted, Finish, Forgotten, Booked, Works, Placings,
        Placing, Apart, Carryings, Carried, Chats, TracedAll, Traced, Others, InHand
<1>1. ASSUME NEW l \in Login, StartWeb(l) \/ StartChat(l) PROVE TracedAll'
  BY <1>1 DEF StartWeb, StartChat
<1>2. ASSUME NEW l \in Login, CodeSent(l) PROVE TracedAll'
  BY <1>2 DEF CodeSent
<1>3. ASSUME NEW l \in Login, ChatCodeSent(l) PROVE TracedAll'
  BY <1>3 DEF ChatCodeSent
<1>4. ASSUME NEW l \in Login, NoCode(l) PROVE TracedAll'
  BY <1>4 DEF NoCode
<1>5. ASSUME NEW l \in Login, ChatNeedsPassword(l) \/ ChatAccepted(l) \/ ChatCodeLost(l)
      PROVE TracedAll'
  BY <1>5 DEF ChatNeedsPassword, ChatAccepted, ChatCodeLost
<1>6. ASSUME NEW l \in Login, ChatMe(l) \/ ChatDrop(l) PROVE TracedAll'
  BY <1>6 DEF ChatMe, ChatDrop
<1>7. ASSUME NEW l \in Login, ChatPersist(l) PROVE TracedAll'
  BY <1>7 DEF ChatPersist
<1>8. ASSUME NEW l \in Login, ChatDone(l) PROVE TracedAll'
  BY <1>8 DEF ChatDone
<1>9. ASSUME NEW l \in Login, Upload(l) PROVE TracedAll'
  BY <1>9 DEF Upload
<1>10. ASSUME NEW l \in Login, Verified(l) PROVE TracedAll'
  BY <1>10 DEF Verified
<1>11. ASSUME NEW l \in Login, LoggedOut(l) PROVE TracedAll'
  BY <1>11 DEF LoggedOut
<1>12. ASSUME NEW r \in Request, NEW p \in Phone, Submit(r, p) PROVE TracedAll'
  BY <1>12 DEF Submit
<1>13. ASSUME NEW r \in Request, NeedsPassword(r) \/ WrongAnswer(r) PROVE TracedAll'
  BY <1>13 DEF NeedsPassword, WrongAnswer
<1>14. ASSUME NEW r \in Request, Accepted(r) PROVE TracedAll'
  <2>1. /\ UNCHANGED <<temp, file, of, at, kept, disturbed>>
        /\ rpc'[r] \in {"idle", "me"}
        /\ \A x \in Request \ {r} : rpc'[x] = rpc[x] /\ rl'[x] = rl[x]
    BY <1>14 DEF Accepted
  <2> QED
    BY <2>1
<1>15. ASSUME NEW r \in Request, Refused(r) PROVE TracedAll'
  BY <1>15 DEF Refused
<1>16. ASSUME NEW r \in Request, Me(r) PROVE TracedAll'
  <2>1. /\ UNCHANGED <<temp, file, of, at, kept, disturbed, rl>>
        /\ rpc[r] = "me" /\ rpc' = [rpc EXCEPT ![r] = "move"] /\ rl[r] \in client
    BY <1>16 DEF Me, Knows
  <2>2. rl[r] \in Login
    BY <2>1
  <2>3. at[rl[r]] # "backup"
    BY <2>1, <2>2
  <2>4. rl[r] \in temp
    BY <2>1, <2>2, <2>3
  <2> QED
    BY <2>1, <2>4
<1>17. ASSUME NEW r \in Request, MeFails(r) PROVE TracedAll'
  BY <1>17 DEF MeFails
<1>18. ASSUME NEW r \in Request, Persist(r) PROVE TracedAll'
  BY <1>18 DEF Persist
<1>19. ASSUME NEW r \in Request, Retry(r) PROVE TracedAll'
  BY <1>19 DEF Retry
<1>20. ASSUME NEW r \in Request, Reported(r) PROVE TracedAll'
  BY <1>20 DEF Reported
<1>21. ASSUME NEW r \in Request, NotSaved(r) PROVE TracedAll'
  BY <1>21 DEF NotSaved
<1>22. ASSUME NEW p \in Phone, Cancel(p) \/ Expire(p) PROVE TracedAll'
  BY <1>22 DEF Cancel, Expire
<1>23. ASSUME NEW p \in Phone, Restore(p) \/ UseFails(p) \/ UsedAfterAll(p) PROVE TracedAll'
  BY <1>23 DEF Restore, UseFails, UsedAfterAll
<1>24. ASSUME NEW p \in Phone, Reload(p) \/ OpenBlank(p) PROVE TracedAll'
  BY <1>24 DEF Reload, OpenBlank
<1>25. ASSUME NEW p \in Phone, GiveUp(p) \/ Delete(p) PROVE TracedAll'
  BY <1>25 DEF GiveUp, Delete
<1>26. ASSUME Restart PROVE TracedAll'
  BY <1>26 DEF Restart
<1>27. ASSUME NEW p \in Phone, ScanBegins(p) \/ ScanEnds(p) PROVE TracedAll'
  BY <1>27 DEF ScanBegins, ScanEnds
<1> QED
  BY <1>1, <1>2, <1>3, <1>4, <1>5, <1>6, <1>7, <1>8, <1>9, <1>10, <1>11, <1>12, <1>13,
     <1>14, <1>15, <1>16, <1>17, <1>18, <1>19, <1>20, <1>21, <1>22, <1>23, <1>24, <1>25, <1>26, <1>27 DEF Next

\* A sign-in that Telegram has accepted is in somebody's hands until it is kept or
\* somebody has interfered.
LEMMA NotLostStep ==
  ASSUME TypeOK, Booked, Placings, Apart, Carryings, TracedAll, NotLost, Next
  PROVE  NotLost'
<1> USE SessionsAssumption DEF store, login, request, history, Move, Goto, Signed, TypeOK,
        Key, Meddle, Backup, BackedUp, Placed, Persisted, Finish, Forgotten, Booked, Works, Placings,
        Placing, Apart, Carryings, Carried, Chats, Known, Accepts, Knows, TracedAll, Traced,
        InHand, NotLost, Held
<1>1. ASSUME NEW l \in Login, StartWeb(l) \/ StartChat(l) PROVE NotLost'
  BY <1>1 DEF StartWeb, StartChat
<1>2. ASSUME NEW l \in Login, CodeSent(l) PROVE NotLost'
  BY <1>2 DEF CodeSent
<1>3. ASSUME NEW l \in Login, ChatCodeSent(l) PROVE NotLost'
  BY <1>3 DEF ChatCodeSent
<1>4. ASSUME NEW l \in Login, NoCode(l) PROVE NotLost'
  BY <1>4 DEF NoCode
<1>5. ASSUME NEW l \in Login, ChatNeedsPassword(l) \/ ChatAccepted(l) \/ ChatCodeLost(l)
      PROVE NotLost'
  BY <1>5 DEF ChatNeedsPassword, ChatAccepted, ChatCodeLost
<1>6. ASSUME NEW l \in Login, ChatMe(l) \/ ChatDrop(l) PROVE NotLost'
  BY <1>6 DEF ChatMe, ChatDrop
<1>7. ASSUME NEW l \in Login, ChatPersist(l) PROVE NotLost'
  BY <1>7 DEF ChatPersist
<1>8. ASSUME NEW l \in Login, ChatDone(l) PROVE NotLost'
  BY <1>8 DEF ChatDone
<1>9. ASSUME NEW l \in Login, Upload(l) PROVE NotLost'
  BY <1>9 DEF Upload
<1>10. ASSUME NEW l \in Login, Verified(l) PROVE NotLost'
  BY <1>10 DEF Verified
<1>11. ASSUME NEW l \in Login, LoggedOut(l) PROVE NotLost'
  BY <1>11 DEF LoggedOut
<1>12. ASSUME NEW r \in Request, NEW p \in Phone, Submit(r, p) PROVE NotLost'
  BY <1>12 DEF Submit
<1>13. ASSUME NEW r \in Request, NeedsPassword(r) \/ WrongAnswer(r) PROVE NotLost'
  BY <1>13 DEF NeedsPassword, WrongAnswer
<1>14. ASSUME NEW r \in Request, Accepted(r) PROVE NotLost'
  BY <1>14 DEF Accepted
<1>15. ASSUME NEW r \in Request, Refused(r) PROVE NotLost'
  BY <1>15 DEF Refused
<1>16. ASSUME NEW r \in Request, Me(r) PROVE NotLost'
  BY <1>16 DEF Me
<1>17. ASSUME NEW r \in Request, MeFails(r) PROVE NotLost'
  BY <1>17 DEF MeFails
<1>18. ASSUME NEW r \in Request, Persist(r) PROVE NotLost'
  BY <1>18 DEF Persist
<1>19. ASSUME NEW r \in Request, Retry(r) PROVE NotLost'
  BY <1>19 DEF Retry
<1>20. ASSUME NEW r \in Request, Reported(r) PROVE NotLost'
  BY <1>20 DEF Reported
<1>21. ASSUME NEW r \in Request, NotSaved(r) PROVE NotLost'
  BY <1>21 DEF NotSaved
<1>22. ASSUME NEW p \in Phone, Cancel(p) \/ Expire(p) PROVE NotLost'
  BY <1>22 DEF Cancel, Expire
<1>23. ASSUME NEW p \in Phone, Restore(p) \/ UseFails(p) \/ UsedAfterAll(p) PROVE NotLost'
  BY <1>23 DEF Restore, UseFails, UsedAfterAll
<1>24. ASSUME NEW p \in Phone, Reload(p) \/ OpenBlank(p) PROVE NotLost'
  BY <1>24 DEF Reload, OpenBlank
<1>25. ASSUME NEW p \in Phone, GiveUp(p) \/ Delete(p) PROVE NotLost'
  BY <1>25 DEF GiveUp, Delete
<1>26. ASSUME Restart PROVE NotLost'
  BY <1>26 DEF Restart
<1>27. ASSUME NEW p \in Phone, ScanBegins(p) \/ ScanEnds(p) PROVE NotLost'
  BY <1>27 DEF ScanBegins, ScanEnds
<1> QED
  BY <1>1, <1>2, <1>3, <1>4, <1>5, <1>6, <1>7, <1>8, <1>9, <1>10, <1>11, <1>12, <1>13,
     <1>14, <1>15, <1>16, <1>17, <1>18, <1>19, <1>20, <1>21, <1>22, <1>23, <1>24, <1>25, <1>26, <1>27 DEF Next

-----------------------------------------------------------------------------
(* The theorems.                                                            *)

LEMMA InitSInv == Init => SInv
<1> SUFFICES ASSUME Init PROVE SInv
  OBVIOUS
<1> USE SessionsAssumption DEF Init
<1>1. TypeOK
  BY DEF TypeOK, Key, Places
<1>2. Booked /\ Apart
  BY DEF Booked, Works, Apart, Chats
<1>3. Placings /\ Carryings
  BY DEF Placings, Placing, Carryings, Carried
<1>4. StoredIsSignedIn /\ BackedAll /\ Copies /\ AddedSurvives
  BY DEF StoredIsSignedIn, BackedAll, Copies, AddedSurvives
<1>5. TracedAll /\ NotLost
  BY DEF TracedAll, NotLost, Signed
<1> QED
  BY <1>1, <1>2, <1>3, <1>4, <1>5 DEF SInv

LEMMA SameSInv == SInv /\ UNCHANGED vars => SInv'
<1> SUFFICES ASSUME SInv, UNCHANGED vars PROVE SInv'
  OBVIOUS
<1> USE DEF SInv, vars, store, login, request, uses, history
<1>1. TypeOK' /\ Booked' /\ Apart'
  BY DEF TypeOK, Booked, Works, Apart, Chats
<1>2. Placings' /\ Carryings'
  BY DEF Placings, Placing, Carryings, Carried, Known
<1>3. StoredIsSignedIn' /\ BackedAll' /\ Copies' /\ AddedSurvives'
  BY DEF StoredIsSignedIn, BackedAll, Backed, Copies, AddedSurvives, Signed
<1>4. TracedAll' /\ NotLost'
  BY DEF TracedAll, Traced, NotLost, Held, Signed
<1> QED
  BY <1>1, <1>2, <1>3, <1>4

LEMMA StepSInv == SInv /\ [Next]_vars => SInv'
<1>1. CASE UNCHANGED vars
  BY <1>1, SameSInv
<1>2. SInv /\ Next => SInv'
  BY TypeStep, BookedStep, PlacingStep, ApartStep, CarriedStep, StoredStep, BackedStep,
     CopiesStep, AddedStep, TracedStep, NotLostStep DEF SInv
<1> QED
  BY <1>1, <1>2

LEMMA AlwaysSInv == Spec => []SInv
BY InitSInv, StepSInv, PTL DEF Spec

\* Every variable keeps its type; a request that is not idle works on a sign-in,
\* also when the one it began with has been replaced or dropped meanwhile.
THEOREM TypeCorrect == Spec => []TypeOK
BY AlwaysSInv, PTL DEF SInv

\* Neither a file nor a copy holds a key that never signed in, whichever sign-in
\* the request finds pending after its wait (account_login._persist, _build of the
\* chat's messages).
THEOREM OnlySignedIsStored == Spec => []StoredIsSignedIn
BY AlwaysSInv, PTL DEF SInv

\* An account that was reported as added has its row and a copy of a session that
\* is signed in, also after restarts that lose the disk.
THEOREM AddedAccountsSurvive == Spec => []AddedSurvives
BY AlwaysSInv, PTL DEF SInv

\* A sign-in that Telegram accepted is stored in the end, or somebody expired,
\* cancelled, replaced or interrupted it.
THEOREM SignInsAreKept == Spec => []SignInKept
<1>1. SInv => SignInKept
  <2> SUFFICES ASSUME SInv, NEW l \in Login, Signed(l), ~ InHand(l)
               PROVE  l \in kept \cup disturbed
    BY DEF SignInKept
  <2>1. at[l] \in {"new", "over"} /\ \A r \in Request : rpc[r] = "idle" \/ rl[r] # l
    BY DEF InHand
  <2>2. ~ Held(l)
    BY <2>1 DEF Held
  <2> QED
    BY <2>1, <2>2 DEF SInv, NotLost
<1> QED
  BY <1>1, AlwaysSInv, PTL
===============================================================================
