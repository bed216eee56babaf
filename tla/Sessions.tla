------------------------------ MODULE Sessions ------------------------------
(***************************************************************************)
(* How an account gets its session and how the session is kept.             *)
(*                                                                         *)
(* A sign-in makes a new key in a temporary file.  The mini-app asks for it   *)
(* with requests that overlap (account_login), the chat with messages that    *)
(* atk_state ties together (bot.py).  Once signed in, the file becomes the    *)
(* permanent file of the phone, the phone gets a row, and the row a copy of   *)
(* the file.  The disk of the host does not survive a restart; the row and     *)
(* the copy do.  Operations restore the file from the copy, fetch it anew or   *)
(* give the account up.                                                      *)
(***************************************************************************)
EXTENDS Naturals

CONSTANTS
  Phone,
  Login,      \* sign-ins and uploaded session files, and the keys they make
  Request,    \* requests of the mini-app under way
  NoLogin,    \* no sign-in; no file, no copy
  Blank,      \* a session file without a sign-in
  MaxFaults   \* bound: statements, file operations and connections that fail

ASSUME SessionsAssumption ==
  NoLogin \notin Login /\ Blank \notin Login \cup {NoLogin} /\ MaxFaults \in Nat

Key == Login \cup {NoLogin, Blank}

VARIABLES
  row, blob,   \* saved_accounts_tbl and its session_data
  file,        \* acc_<phone>.session
  temp,        \* logins whose _newtmp_ file is there
  client,      \* logins whose client is connected
  of, at,      \* the phone of a login, and where it is
  tg,          \* what Telegram knows: "none", "asked", "half" (the password is
               \* to come), "signed" or "out"
  pending,     \* account_login._pending
  talk,        \* the login atk_state holds
  rpc, rl,     \* where a request is, and the login it works on
  doubt,       \* phones the chat failed to connect once
  scan,        \* phones an automatic scan works with
  added,       \* history: phones reported as added and not deleted since
  excused,     \* history: phones whose session was written in vain, used or
               \* uploaded while being added, spoiled while being scanned, or
               \* ended by its owner
  kept,        \* history: logins whose key was stored when they were reported
  disturbed,   \* history: logins that were expired, cancelled or interfered with
  faults

store == <<row, blob, file>>
login == <<temp, client, of, at, tg, pending, talk>>
request == <<rpc, rl>>
uses == <<doubt, scan>>
history == <<added, excused, kept, disturbed>>
vars == <<store, login, request, uses, history, faults>>

Places == {"new", "connecting", "calling", "open", "me", "move", "backup", "verify", "over"}

TypeOK ==
  /\ row \subseteq Phone /\ blob \in [Phone -> Key] /\ file \in [Phone -> Key]
  /\ temp \subseteq Login /\ client \subseteq Login
  /\ of \in [Login -> Phone] /\ at \in [Login -> Places]
  /\ tg \in [Login -> {"none", "asked", "half", "signed", "out"}]
  /\ pending \in [Phone -> Login \cup {NoLogin}] /\ talk \in Login \cup {NoLogin}
  /\ rpc \in [Request -> {"idle", "code", "password", "me", "move", "check", "retry"}]
  /\ rl \in [Request -> Login \cup {NoLogin}]
  /\ doubt \subseteq Phone /\ scan \subseteq Phone /\ added \subseteq Phone /\ excused \subseteq Phone
  /\ kept \subseteq Login /\ disturbed \subseteq Login /\ faults \in 0 .. MaxFaults

Init ==
  /\ row = {} /\ blob = [p \in Phone |-> NoLogin] /\ file = [p \in Phone |-> NoLogin]
  /\ temp = {} /\ client = {} /\ of \in [Login -> Phone]
  /\ at = [l \in Login |-> "new"] /\ tg = [l \in Login |-> "none"]
  /\ pending = [p \in Phone |-> NoLogin] /\ talk = NoLogin
  /\ rpc = [r \in Request |-> "idle"] /\ rl = [r \in Request |-> NoLogin]
  /\ doubt = {} /\ scan = {} /\ added = {} /\ excused = {} /\ kept = {} /\ disturbed = {} /\ faults = 0

\* What may go wrong at a step: ok says of each whether it went well.
Spent(ok) == faults' = faults + (IF ok THEN 0 ELSE 1) /\ faults' <= MaxFaults
Fault == Spent(FALSE)
Signed(k) == k \in Login /\ tg[k] = "signed"
Move(l, to) == at' = [at EXCEPT ![l] = to]
Goto(r, to) == rpc' = [rpc EXCEPT ![r] = to]
Restorable(p) == file[p] # NoLogin \/ blob[p] # NoLogin

-----------------------------------------------------------------------------
(* Storing.                                                                 *)

\* save_account.  Its errors are swallowed.
SaveRow(p, ok) == row' = IF ok THEN row \cup {p} ELSE row

\* Some sign-in of p is on its way from Telegram to the row.
Adding(p) ==
  \/ \E r \in Request : rpc[r] \in {"move", "retry", "check"} /\ of[rl[r]] = p
  \/ \E l \in Login : at[l] \in {"move", "backup", "verify"} /\ of[l] = p

\* Somebody still works on l.
InHand(l) == at[l] \notin {"new", "over"} \/ \E r \in Request : rpc[r] # "idle" /\ rl[r] = l

Others(p, l) == {k \in Login \ {l} : of[k] = p /\ InHand(k)}

Excuse(p, why) == excused' = IF why THEN excused \cup {p} ELSE excused

\* Whoever changes the file of p disturbs the sign-ins of p, and spoils what a
\* scan is going to copy if nobody has signed in with the file that is left.
Meddle(p) ==
  /\ Excuse(p, Adding(p) \/ (p \in scan /\ file'[p] = Blank))
  /\ disturbed' = disturbed \cup Others(p, NoLogin)

\* save_session_blob updates the row: without one nothing is stored.
Copied(p, k) == IF p \in row THEN [blob EXCEPT ![p] = k] ELSE blob

\* _backup_session, and the end of _persist: whatever file is there now.
BackedUp(p) == IF file[p] # NoLogin THEN Copied(p, file[p]) ELSE blob

\* Its errors are swallowed; the phone is reported as added all the same.
Backup(p, ok) ==
  /\ blob' = IF ok THEN BackedUp(p) ELSE blob
  /\ added' = added \cup {p} /\ Excuse(p, ~ok)

\* Mutant of Placed: the code looks for the file under the name it had asked for.
Placed_ByTmpName(l) == UNCHANGED <<temp, file>>

\* The temporary file takes the place of the permanent one, if it is there.
Placed(l) ==
  IF l \in temp
  THEN temp' = temp \ {l} /\ file' = [file EXCEPT ![of[l]] = l]
  ELSE UNCHANGED <<temp, file>>

\* persist_to_permanent swallows its errors.  Another sign-in of the phone
\* loses its file.
Persisted(l, ok, blamed) ==
  /\ IF ok THEN Placed(l) ELSE UNCHANGED <<temp, file>>
  /\ disturbed' = disturbed \cup (IF ok THEN Others(of[l], l) ELSE IF blamed THEN {l} ELSE {})

-----------------------------------------------------------------------------
(* A sign-in begins.                                                        *)

\* start: a stored phone is refused, and one that has a pending sign-in.
StartWeb(l) ==
  /\ at[l] = "new" /\ pending[of[l]] = NoLogin
  /\ \/ of[l] \notin row /\ UNCHANGED faults
     \/ Fault                                        \* load_accounts gives {}
  /\ Move(l, "connecting") /\ tg' = [tg EXCEPT ![l] = "none"]
  /\ UNCHANGED <<store, temp, client, of, pending, talk, request, uses, history>>

\* It looks at _pending before it connects and overwrites it afterwards.
CodeSent(l) ==
  /\ at[l] = "connecting"
  /\ tg' = [tg EXCEPT ![l] = "asked"] /\ temp' = temp \cup {l} /\ client' = client \cup {l}
  /\ pending' = [pending EXCEPT ![of[l]] = l]
  /\ Move(l, "open") /\ disturbed' = disturbed \cup ({pending[of[l]]} \ {NoLogin})
  /\ UNCHANGED <<store, of, talk, request, uses, added, excused, kept, faults>>

\* The chat refuses a stored phone whose session is there.
StartChat(l) ==
  /\ at[l] = "new" /\ ~(of[l] \in row /\ Restorable(of[l]))
  /\ Move(l, "calling")
  /\ UNCHANGED <<store, temp, client, of, tg, pending, talk, request, uses, history, faults>>

\* atk_state takes the sign-in, whatever has happened to it meanwhile.
ChatCodeSent(l) ==
  /\ at[l] = "calling"
  /\ tg' = [tg EXCEPT ![l] = "asked"] /\ temp' = temp \cup {l} /\ client' = client \cup {l}
  /\ at' = [k \in Login |-> IF k = l THEN "open" ELSE IF k = talk /\ at[k] = "open" THEN "over" ELSE at[k]]
  /\ talk' = l /\ disturbed' = disturbed \cup ({talk} \ {NoLogin})
  /\ UNCHANGED <<store, of, pending, request, uses, added, excused, kept, faults>>

\* No connection, or no code: the client may stay connected, its file stays.
NoCode(l) ==
  /\ at[l] \in {"connecting", "calling"}
  /\ temp' = temp \cup {l} /\ client' \in {client, client \cup {l}}
  /\ Move(l, "over") /\ talk' = IF at[l] = "calling" THEN NoLogin ELSE talk
  /\ UNCHANGED <<store, of, tg, pending, request, uses, history, faults>>

-----------------------------------------------------------------------------
(* The requests of the mini-app.                                            *)

\* The sign-in pending for the phone is dropped, whosever it is.  The files
\* that are removed have a name the sign-in never used.
Finish(p, blamed) ==
  LET l == pending[p] IN
  /\ pending' = [pending EXCEPT ![p] = NoLogin]
  /\ IF l = NoLogin THEN UNCHANGED <<client, at, disturbed>>
     ELSE /\ client' = client \ {l} /\ Move(l, "over")
          /\ disturbed' = IF blamed THEN disturbed \cup {l} ELSE disturbed

Cancel(p) ==
  /\ pending[p] # NoLogin /\ Finish(p, TRUE)
  /\ UNCHANGED <<store, temp, of, tg, talk, request, uses, added, excused, kept, faults>>

\* _purge_expired, run by the next request for any phone.
Expire(p) ==
  /\ pending[p] # NoLogin /\ Finish(p, TRUE)
  /\ UNCHANGED <<store, temp, of, tg, talk, request, uses, added, excused, kept, faults>>

\* submit_code and submit_password take what is pending; neither looks at the
\* step the sign-in has reached, or at another request.
Submit(r, p) ==
  /\ rpc[r] = "idle" /\ pending[p] # NoLogin
  /\ rl' = [rl EXCEPT ![r] = pending[p]] /\ rpc' \in {[rpc EXCEPT ![r] = s] : s \in {"code", "password"}}
  /\ UNCHANGED <<store, login, uses, history, faults>>

\* Telegram accepts the code of a sign-in whose client is there, or asks for
\* the password as well; it accepts the password.
Accepts(l, answer) ==
  l \in client /\ tg[l] = IF answer = "code" THEN "asked" ELSE "half"

NeedsPassword(r) ==
  LET l == rl[r] IN
  /\ rpc[r] = "code" /\ Accepts(l, "code")
  /\ tg' = [tg EXCEPT ![l] = "half"] /\ Goto(r, "idle")
  /\ UNCHANGED <<store, temp, client, of, at, pending, talk, rl, uses, history, faults>>

\* _persist looks the sign-in up again: it may be another one by now, or none.
Accepted(r) ==
  LET l == rl[r]  now == pending[of[l]] IN
  /\ rpc[r] \in {"code", "password"} /\ Accepts(l, rpc[r])
  /\ tg' = [tg EXCEPT ![l] = "signed"]
  /\ rl' = [rl EXCEPT ![r] = now] /\ Goto(r, IF now = NoLogin THEN "idle" ELSE "me")
  /\ UNCHANGED <<store, temp, client, of, at, pending, talk, uses, history, faults>>

WrongAnswer(r) ==
  /\ rpc[r] \in {"code", "password"} /\ Accepts(rl[r], rpc[r])
  /\ Goto(r, "idle")
  /\ UNCHANGED <<store, login, rl, uses, history, faults>>

\* Any other error ends what is pending for the phone.
Refused(r) ==
  /\ rpc[r] \in {"code", "password"}
  /\ Finish(of[rl[r]], TRUE) /\ Goto(r, "idle")
  /\ UNCHANGED <<store, temp, of, tg, talk, rl, uses, added, excused, kept, faults>>

\* Mutant of Knows: nobody is asked who has signed in.
Knows_Blind(l) == TRUE

\* get_me needs a client and a sign-in.
Knows(l) == l \in client /\ Signed(l)

Me(r) ==
  LET l == rl[r] IN
  /\ rpc[r] = "me" /\ Knows(l)
  /\ \E ok \in BOOLEAN : SaveRow(of[l], ok) /\ Excuse(of[l], ~ok) /\ Spent(ok)
  /\ Goto(r, "move")
  /\ UNCHANGED <<blob, file, login, rl, uses, added, kept, disturbed>>

MeFails(r) ==
  LET l == rl[r] IN
  /\ rpc[r] = "me"
  /\ IF Knows(l) THEN Fault ELSE UNCHANGED faults
  /\ Finish(of[l], Knows(l) \/ pending[of[l]] # l) /\ Goto(r, "idle")
  /\ UNCHANGED <<store, temp, of, tg, talk, rl, uses, added, excused, kept>>

\* persist_to_permanent, then the client is disconnected.
Persist(r) ==
  LET l == rl[r] IN
  /\ rpc[r] = "move" /\ client' = client \ {l}
  /\ \E ok \in BOOLEAN : Persisted(l, ok, file[of[l]] # NoLogin) /\ Excuse(of[l], ~ok) /\ Spent(ok)
  /\ Goto(r, IF file'[of[l]] = NoLogin THEN "retry" ELSE "check")
  /\ UNCHANGED <<row, blob, of, at, tg, pending, talk, rl, uses, added, kept>>

\* Mutant of Retry: the other way is not tried.
Retry_Not(r) ==
  /\ rpc[r] = "retry" /\ Goto(r, "check")
  /\ UNCHANGED <<store, login, rl, uses, history, faults>>

\* The other way of moving the file, by the name the client has.
Retry(r) ==
  /\ rpc[r] = "retry" /\ Goto(r, "check")
  /\ \E ok \in BOOLEAN : Persisted(rl[r], ok, TRUE) /\ Excuse(of[rl[r]], ~ok) /\ Spent(ok)
  /\ UNCHANGED <<row, blob, client, of, at, tg, pending, talk, rl, uses, added, kept>>

\* Success is only reported if the permanent file is there.
Reported(r) ==
  LET l == rl[r]  p == of[l] IN
  /\ rpc[r] = "check" /\ file[p] # NoLogin
  /\ \E ok \in BOOLEAN : Backup(p, ok) /\ Spent(ok)
  /\ kept' = IF file[p] = l THEN kept \cup {l} ELSE kept
  /\ pending' = [pending EXCEPT ![p] = NoLogin]
  /\ at' = [k \in Login |-> IF k \in {l, pending[p]} THEN "over" ELSE at[k]]
  /\ disturbed' = disturbed \cup ({pending[p]} \ {l, NoLogin})
  /\ Goto(r, "idle")
  /\ UNCHANGED <<row, file, temp, client, of, tg, talk, rl, uses>>

NotSaved(r) ==
  LET l == rl[r]  p == of[l] IN
  /\ rpc[r] = "check" /\ file[p] = NoLogin
  /\ Finish(p, pending[p] # l) /\ Goto(r, "idle")
  /\ row' = row \ {p} /\ blob' = [blob EXCEPT ![p] = NoLogin] /\ added' = added \ {p}
  /\ UNCHANGED <<file, temp, of, tg, talk, rl, uses, excused, kept, faults>>

-----------------------------------------------------------------------------
(* The messages of the chat (add_new_acc_code, add_new_acc_2fa).             *)

ChatNeedsPassword(l) ==
  /\ talk = l /\ at[l] = "open" /\ Accepts(l, "code")
  /\ tg' = [tg EXCEPT ![l] = "half"]
  /\ UNCHANGED <<store, temp, client, of, at, pending, talk, request, uses, history, faults>>

ChatAccepted(l) ==
  /\ talk = l /\ at[l] = "open" /\ \E a \in {"code", "password"} : Accepts(l, a)
  /\ tg' = [tg EXCEPT ![l] = "signed"] /\ Move(l, "me")
  /\ UNCHANGED <<store, temp, client, of, pending, talk, request, uses, history, faults>>

\* A new code is asked for.  If that fails too the state is emptied.
ChatCodeLost(l) ==
  /\ talk = l /\ at[l] = "open" /\ tg[l] = "asked"
  /\ talk' = NoLogin /\ Move(l, "over")
  /\ UNCHANGED <<store, temp, client, of, tg, pending, request, uses, history, faults>>

ChatMe(l) ==
  /\ at[l] = "me"
  /\ \/ Move(l, "move") /\ UNCHANGED <<disturbed, faults>>
     \/ Fault /\ Move(l, "open") /\ disturbed' = disturbed \cup {l}
  /\ UNCHANGED <<store, temp, client, of, tg, pending, talk, request, uses, added, excused, kept>>

ChatPersist(l) ==
  /\ at[l] = "move"
  /\ \E moved, saved \in BOOLEAN :
       /\ moved \/ saved
       /\ Persisted(l, moved, TRUE) /\ SaveRow(of[l], saved)
       /\ Excuse(of[l], ~(moved /\ saved)) /\ Spent(moved /\ saved)
  /\ Move(l, "backup")
  /\ UNCHANGED <<blob, client, of, tg, pending, talk, request, uses, added, kept>>

\* The client is disconnected, the copy made, the state emptied, the account
\* reported as stored for ever.
ChatDone(l) ==
  /\ at[l] = "backup" /\ Move(l, "over") /\ client' = client \ {l}
  /\ \E ok \in BOOLEAN : Backup(of[l], ok) /\ Spent(ok)
  /\ kept' = IF file[of[l]] = l THEN kept \cup {l} ELSE kept
  /\ talk' = NoLogin /\ disturbed' = disturbed \cup ({talk} \ {l, NoLogin})
  /\ UNCHANGED <<row, file, temp, of, tg, pending, request, uses>>

\* Any button that empties the state leaves the client and the file behind.
ChatDrop(l) ==
  /\ talk = l /\ talk' = NoLogin /\ disturbed' = disturbed \cup {l}
  /\ at' = IF at[l] = "open" THEN [at EXCEPT ![l] = "over"] ELSE at
  /\ UNCHANGED <<store, temp, client, of, tg, pending, request, uses, added, excused, kept, faults>>

\* A session file sent to the chat overwrites the permanent one first.
Upload(l) ==
  /\ at[l] = "new" /\ Move(l, "verify")
  /\ \E good \in BOOLEAN :
       /\ file' = [file EXCEPT ![of[l]] = IF good THEN l ELSE Blank]
       /\ tg' = [tg EXCEPT ![l] = IF good THEN "signed" ELSE "none"]
  /\ Meddle(of[l])
  /\ UNCHANGED <<row, blob, temp, client, of, pending, talk, request, uses, added, kept, faults>>

\* Then it is tried.  What fails stays where it is.
Verified(l) ==
  /\ at[l] = "verify" /\ Move(l, "over")
  /\ \/ /\ Signed(file[of[l]]) /\ row' = row \cup {of[l]}
        /\ blob' = [blob EXCEPT ![of[l]] = file[of[l]]] /\ added' = added \cup {of[l]}
        /\ UNCHANGED faults
     \/ /\ IF Signed(file[of[l]]) THEN Fault ELSE UNCHANGED faults
        /\ UNCHANGED <<row, blob, added>>
  /\ kept' = kept \cup {l}
  /\ UNCHANGED <<file, temp, client, of, tg, pending, talk, request, uses, excused, disturbed>>

-----------------------------------------------------------------------------
(* The users of the session.                                                *)

\* list_saved_accounts, _ensure_session, ensure_session: the file is fetched
\* if it is missing, not if it is there and worth nothing.
Restore(p) ==
  /\ p \in row /\ file[p] = NoLogin /\ blob[p] # NoLogin
  /\ file' = [file EXCEPT ![p] = blob[p]]
  /\ UNCHANGED <<row, blob, login, request, uses, history, faults>>

\* The simple add removes the file and fetches the copy afterwards.
Reload(p) ==
  /\ p \in row
  /\ \E ok \in BOOLEAN :
       Spent(ok) /\ file' = [file EXCEPT ![p] = IF ok THEN blob[p] ELSE NoLogin]
  /\ Meddle(p)
  /\ UNCHANGED <<row, blob, login, request, uses, added, kept>>

\* Connecting without a file makes one.
OpenBlank(p) ==
  /\ p \in row /\ file[p] = NoLogin
  /\ file' = [file EXCEPT ![p] = Blank]
  /\ Meddle(p)
  /\ UNCHANGED <<row, blob, login, request, uses, added, kept, faults>>

\* The chosen account does not connect: its key is not accepted, or there is
\* no connection.
UseFails(p) ==
  /\ p \in row \ doubt /\ doubt' = doubt \cup {p}
  /\ IF Signed(file[p]) THEN Fault ELSE UNCHANGED faults
  /\ UNCHANGED <<store, login, request, scan, history>>

UsedAfterAll(p) ==
  /\ p \in doubt /\ Signed(file[p]) /\ doubt' = doubt \ {p}
  /\ UNCHANGED <<store, login, request, scan, history, faults>>

\* Mutant of ScanBegins: the scan does not ask Telegram who it is.
ScanBegins_Blind(p) ==
  /\ file[p] # NoLogin /\ scan' = scan \cup {p}
  /\ UNCHANGED <<store, login, request, doubt, history, faults>>

\* An automatic scan opens the file, and Telegram accepts its key.
ScanBegins(p) ==
  /\ Signed(file[p]) /\ scan' = scan \cup {p}
  /\ UNCHANGED <<store, login, request, doubt, history, faults>>

\* A scan that ends well copies the file, whoever has changed it meanwhile.
ScanEnds(p) ==
  /\ p \in scan /\ scan' = scan \ {p} /\ blob' \in {blob, BackedUp(p)}
  /\ UNCHANGED <<row, file, login, request, doubt, history, faults>>

Forgotten(p) ==
  /\ row' = row \ {p} /\ blob' = [blob EXCEPT ![p] = NoLogin]
  /\ file' = [file EXCEPT ![p] = NoLogin] /\ added' = added \ {p}
  /\ Meddle(p)

\* The second time it is said to have expired and deleted, copy and all.
GiveUp(p) ==
  /\ p \in doubt /\ doubt' = doubt \ {p}
  /\ IF Signed(file[p]) THEN Fault ELSE UNCHANGED faults
  /\ Forgotten(p)
  /\ UNCHANGED <<login, request, scan, kept>>

\* delete_account_fully, and the button of the chat.
Delete(p) ==
  /\ p \in row /\ Forgotten(p)
  /\ UNCHANGED <<login, request, uses, kept, faults>>

\* The owner of the account ends the session from another device.
LoggedOut(l) ==
  /\ Signed(l) /\ l \in {file[of[l]], blob[of[l]]} /\ at[l] = "over"
  /\ tg' = [tg EXCEPT ![l] = "out"] /\ Excuse(of[l], TRUE) /\ disturbed' = disturbed \cup {l}
  /\ UNCHANGED <<store, temp, client, of, at, pending, talk, request, uses, added, kept, faults>>

\* _cleanup_session_locks removes the temporary files at the next start.
Restart ==
  /\ file' \in {file, [p \in Phone |-> NoLogin]}
  /\ temp' = {} /\ client' = {} /\ talk' = NoLogin /\ doubt' = {} /\ scan' = {}
  /\ pending' = [p \in Phone |-> NoLogin] /\ rpc' = [r \in Request |-> "idle"]
  /\ at' = [l \in Login |-> IF at[l] = "new" THEN "new" ELSE "over"]
  /\ disturbed' = disturbed \cup {l \in Login : InHand(l)}
  /\ UNCHANGED <<row, blob, of, tg, rl, added, excused, kept, faults>>

-----------------------------------------------------------------------------
Next ==
  \/ \E l \in Login :
       \/ StartWeb(l) \/ CodeSent(l) \/ StartChat(l) \/ ChatCodeSent(l) \/ NoCode(l)
       \/ ChatNeedsPassword(l) \/ ChatAccepted(l) \/ ChatCodeLost(l) \/ ChatMe(l)
       \/ ChatPersist(l) \/ ChatDone(l) \/ ChatDrop(l)
       \/ Upload(l) \/ Verified(l) \/ LoggedOut(l)
  \/ \E r \in Request :
       \/ NeedsPassword(r) \/ Accepted(r) \/ WrongAnswer(r) \/ Refused(r) \/ Me(r)
       \/ MeFails(r) \/ Persist(r) \/ Retry(r) \/ Reported(r) \/ NotSaved(r)
       \/ \E p \in Phone : Submit(r, p)
  \/ \E p \in Phone :
       \/ Cancel(p) \/ Expire(p) \/ Restore(p) \/ Reload(p) \/ OpenBlank(p)
       \/ UseFails(p) \/ UsedAfterAll(p) \/ GiveUp(p) \/ Delete(p)
       \/ ScanBegins(p) \/ ScanEnds(p)
  \/ Restart

Spec == Init /\ [][Next]_vars

-----------------------------------------------------------------------------
(* What the sessions promise.                                               *)

\* Who has been reported as added can be used after any restart: the row has a
\* copy of a session that is signed in, until the account is deleted or its
\* owner ends the session.  (What account_login and the chat save, and in
\* which order; the disk does not survive.)  Scans copy the file again and again:
\* only one that was spoiled under a scan takes the place of a good copy.
AddedSurvives == \A p \in added \ excused : p \in row /\ Signed(blob[p])

\* No key is stored that never signed in, although the sign-in that is pending
\* may have been replaced while Telegram was answering.
StoredIsSignedIn ==
  \A p \in Phone : \A k \in {file[p], blob[p]} \cap Login : tg[k] \in {"signed", "out"}

\* A sign-in that Telegram has accepted is stored when the last request is
\* done, unless it was cancelled, expired, interfered with or interrupted.
SignInKept ==
  \A l \in Login :
    (Signed(l) /\ ~InHand(l)) => l \in kept \cup disturbed

\* The chat deletes an account as expired only if Telegram does not accept it
\* (bot.py:6407, its message).  GiveUp does so after two connections that failed.
DeletedOnlyIfExpired ==
  [][\A p \in Phone : (p \in doubt \ doubt' /\ p \in row \ row') => ~Signed(file[p])]_vars
=============================================================================
