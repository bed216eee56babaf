---------------------------- MODULE Conversation ----------------------------
(***************************************************************************)
(* The dialogue of the admin with the bot: _cb_impl answers buttons and     *)
(* _steps_impl answers messages (bot.py).  What they agree on is one        *)
(* dictionary, atk_state: which step a message belongs to, which client is  *)
(* connected and for which phone.  Pyrogram runs the handlers on several    *)
(* workers and each is suspended at every await, so that another may write  *)
(* or empty the dictionary before it goes on; operations that handlers have *)
(* started empty it as well when they end.                                  *)
(*                                                                          *)
(* A client is named by the account it is connected as.  The code hash, the *)
(* progress message st and the texts are left out, what the operations do   *)
(* with a member is in MemberAdds and Scraping, and claims of accounts are  *)
(* in AccountLock.                                                          *)
(***************************************************************************)
EXTENDS Naturals, FiniteSets

CONSTANTS
  Account,      \* phones
  Handler,      \* handlers and operations that can be at work at once
  MaxDialogues, \* bound: dialogues that have keys set at a time
  Nil

ASSUME ConversationAssumption == Nil \notin Account /\ MaxDialogues \in Nat

Clients == {"atk", "add_client", "_simp_client", "_live_client", "quick_client", "new_client"}
Phones == {"phone", "_simp_phone", "_live_phone", "quick_phone"}
Field == Clients \cup Phones
\* The keys of the account that is used or added, and of the simple, direct and
\* quick add.
Dialogues == {{"atk", "add_client", "new_client", "phone"}, {"_simp_client", "_simp_phone"},
              {"_live_client", "_live_phone"}, {"quick_client", "quick_phone"}}
Marks == {"add_in_progress", "live_source_gid", "quick_gid"}
Steps == {"none", "number", "code", "password", "target", "adder_target", "finder",
          "instagram", "upload"}

VARIABLES
  field,        \* atk_state: clients and phones
  marks,        \* atk_state: which other keys are there
  step,         \* atk_state["step"]
  saved,        \* accounts that are listed
  at,           \* where a handler is suspended
  client, phone,\* its local variables
  stale,        \* atk_state was written since it was suspended
  torn          \* a stale handler has written to atk_state

state == <<field, marks, step>>
dialogueVars == <<field, marks, step, saved, at, client, phone, stale, torn>>

Suspended == {"connect_simple", "connect_live", "connect_quick", "connect", "list_atk",
  "list_add", "number", "sign_in", "resend", "check_password", "welcome", "reconnect",
  "quick_group", "check_target", "adder_target", "find_target", "target", "retry", "leave",
  "to_simple", "to_direct", "finder", "instagram", "upload"}
Operations == {"simple", "direct", "quick", "scrape"}

DialogueTypeOK ==
  /\ field \in [Field -> Account \cup {Nil}] /\ marks \subseteq Marks /\ step \in Steps
  /\ saved \subseteq Account /\ at \in [Handler -> {"idle"} \cup Suspended \cup Operations]
  /\ client \in [Handler -> Account \cup {Nil}] /\ phone \in [Handler -> Account \cup {Nil}]
  /\ stale \in [Handler -> BOOLEAN] /\ torn \in BOOLEAN

Nothing == [f \in Field |-> Nil]

DialogueInit ==
  /\ field = Nothing /\ marks = {} /\ step = "none" /\ saved \in SUBSET Account
  /\ at = [h \in Handler |-> "idle"] /\ stale = [h \in Handler |-> FALSE] /\ torn = FALSE
  /\ client = [h \in Handler |-> Nil] /\ phone = [h \in Handler |-> Nil]

-----------------------------------------------------------------------------
Free(h) == at[h] = "idle"
\* Of its local variables a handler keeps those that it reads after this await.
Keeps == {"connect_simple", "connect_live", "connect_quick", "connect", "number", "sign_in",
  "check_password", "welcome", "reconnect", "retry", "to_simple", "simple", "quick"}
Enter(h, place, c, p) ==
  /\ at' = [at EXCEPT ![h] = place]
  /\ client' = [client EXCEPT ![h] = c] /\ phone' = [phone EXCEPT ![h] = p]
Goto(h, place) ==
  IF place \in Keeps THEN Enter(h, place, client[h], phone[h]) ELSE Enter(h, place, Nil, Nil)
Has(f) == field[f] # Nil
With(f, a) == [field EXCEPT ![f] = a]

\* h writes to atk_state.  All others that are suspended will find it changed.
\* Emptying it mends what was torn.
Written(h, f, m, s, bad) ==
  /\ Cardinality({D \in Dialogues : \E x \in D : f[x] # Nil}) <= MaxDialogues
  /\ field' = f /\ marks' = m /\ step' = s /\ torn' = bad
  /\ stale' = [g \in Handler |-> g # h /\ at[g] # "idle"]

\* h writes and goes on to place.
Write(h, f, m, s, place) == Written(h, f, m, s, torn \/ stale[h]) /\ Goto(h, place)
\* The state is emptied and then gets the fields f.
Anew(h, f, s, place) == Written(h, f, {}, s, FALSE) /\ Goto(h, place)
Empty(h, s, place) == Anew(h, Nothing, s, place)
Put(h, f, place) == Write(h, f, marks, step, place)
Mark(h, m, place) == Write(h, field, m, step, place)

\* h goes on without writing.
Proceed(h, place) ==
  /\ Goto(h, place) /\ stale' = [stale EXCEPT ![h] = @ /\ place # "idle"]
  /\ UNCHANGED <<state, torn>>

\* h starts to wait, with the locals c and p.
Wait(h, place, c, p) ==
  /\ IF place \in Keeps THEN Enter(h, place, c, p) ELSE Enter(h, place, Nil, Nil)
  /\ stale' = [stale EXCEPT ![h] = FALSE] /\ UNCHANGED <<state, saved, torn>>

-----------------------------------------------------------------------------
(* Buttons that empty the dictionary.                                       *)

\* cb and steps catch what their handlers raise, and empty the state.
Error(h) == Free(h) /\ Empty(h, "none", "idle") /\ UNCHANGED saved

FinderMenu(h) == Free(h) /\ Empty(h, "finder", "idle") /\ UNCHANGED saved

\* Add an account, by a number or by its session file.
AddAccount(h) ==
  Free(h) /\ \E s \in {"number", "upload"} : Empty(h, s, "idle") /\ UNCHANGED saved

NewAccount(h) ==
  Free(h) /\ \E s \in {"number", "none"} : Empty(h, s, "idle") /\ UNCHANGED saved

\* The main menu offers this while no account is saved.  It does not empty the
\* state.
FirstAccount(h) ==
  /\ Free(h) /\ saved = {}
  /\ Write(h, field, marks, "number", "idle") /\ UNCHANGED saved

\* home does nothing while an add is going on.  Else it disconnects the clients
\* it knows, and then empties the state.
Home(h) ==
  /\ Free(h) /\ "add_in_progress" \notin marks
  /\ IF \E f \in {"atk", "add_client", "_simp_client"} : Has(f) THEN Wait(h, "leave", Nil, Nil)
     ELSE Empty(h, "none", "idle") /\ UNCHANGED saved

\* The stop button waits for one client only.
StopOp(h) ==
  /\ Free(h)
  /\ IF Has("_simp_client") THEN Wait(h, "leave", Nil, Nil)
     ELSE Empty(h, "none", "idle") /\ UNCHANGED saved

Left(h) == at[h] = "leave" /\ Empty(h, "none", "idle") /\ UNCHANGED saved

-----------------------------------------------------------------------------
(* The simple add: one account, chosen for it.  Two dialogues lead to it      *)
(* (simple_acc_ and simp_add_acc_), which note the client and phone alike.  *)

PickSimple(h, a) == Free(h) /\ a \in saved /\ Wait(h, "connect_simple", a, a)

\* Mutant of Simple: the phone is noted when the button is pressed, as the
\* quick add does.
Simple_ClientOnly(h) ==
  /\ at[h] = "connect_simple"
  /\ Put(h, [With("_simp_client", client[h]) EXCEPT !["_simp_phone"] = IF @ = Nil THEN phone[h] ELSE @], "idle")
  /\ UNCHANGED saved

\* Both keys, after the last await before them.
Simple(h) ==
  /\ at[h] = "connect_simple"
  /\ Put(h, [field EXCEPT !["_simp_client"] = client[h], !["_simp_phone"] = phone[h]], "idle")
  /\ UNCHANGED saved

\* Any connection may fail: the answer says so.
Unconnected(h) ==
  /\ at[h] \in {"connect_simple", "connect_live", "connect_quick", "connect", "reconnect", "retry"}
  /\ Proceed(h, "idle") /\ UNCHANGED saved

StartSimple(h) ==
  Free(h) /\ Has("_simp_client") /\ Wait(h, "to_simple", field["_simp_client"], field["_simp_phone"])

BeginSimple(h) ==
  at[h] = "to_simple" /\ Mark(h, marks \cup {"add_in_progress"}, "simple") /\ UNCHANGED saved

\* The end takes back the client, not the phone.
EndSimple(h) ==
  /\ at[h] = "simple"
  /\ Write(h, With("_simp_client", Nil), marks \ {"add_in_progress"}, step, "idle")
  /\ UNCHANGED saved

-----------------------------------------------------------------------------
(* The direct add from a source group.                                      *)

\* The account of the conversation or, without one, any that is saved.
PickLive(h, a) ==
  /\ Free(h) /\ a \in saved /\ (field["phone"] \in {Nil, a})
  /\ Wait(h, "connect_live", a, a)

Live(h) ==
  /\ at[h] = "connect_live"
  /\ Put(h, [field EXCEPT !["_live_client"] = client[h], !["_live_phone"] = phone[h]], "idle")
  /\ UNCHANGED saved

\* The source is chosen: the account becomes that of the conversation.
LiveSource(h) ==
  /\ Free(h) /\ Has("_live_client") /\ Has("_live_phone")
  /\ Write(h, [field EXCEPT !["add_client"] = field["_live_client"], !["phone"] = field["_live_phone"]],
             marks \cup {"live_source_gid"}, step, "idle")
  /\ UNCHANGED saved

StartDirect(h) ==
  /\ Free(h) /\ "live_source_gid" \in marks /\ Has("add_client")
  /\ Wait(h, "to_direct", field["add_client"], field["phone"])

\* The source is looked up again after the target has been found.
BeginDirect(h) ==
  /\ at[h] = "to_direct"
  /\ IF "live_source_gid" \in marks THEN Mark(h, marks \cup {"add_in_progress"}, "direct")
     ELSE Proceed(h, "idle")
  /\ UNCHANGED saved

EndDirect(h) ==
  /\ at[h] = "direct" /\ Mark(h, marks \ {"add_in_progress", "live_source_gid"}, "idle")
  /\ UNCHANGED saved

-----------------------------------------------------------------------------
(* The quick add.                                                           *)

\* The phone is noted before the client connects.
PickQuick(h, a) ==
  /\ Free(h) /\ a \in saved
  /\ Written(h, With("quick_phone", a), marks, step, torn \/ stale[h])
  /\ Enter(h, "connect_quick", a, a) /\ UNCHANGED saved

Quick(h) ==
  /\ at[h] = "connect_quick" /\ Put(h, With("quick_client", client[h]), "idle")
  /\ UNCHANGED saved

QuickGroup(h) ==
  /\ Free(h)
  /\ IF ~Has("quick_phone") THEN Empty(h, "none", "idle") /\ UNCHANGED saved
     ELSE Has("quick_client") /\ Wait(h, "quick_group", field["quick_client"], Nil)

QuickGroupFound(h) ==
  /\ at[h] = "quick_group"
  /\ \/ Mark(h, marks \cup {"quick_gid"}, "idle")
     \/ Proceed(h, "idle")
  /\ UNCHANGED saved

\* The group by its number: nobody is asked whether it exists.
QuickByHand(h) ==
  /\ Free(h)
  /\ IF Has("quick_phone") THEN Mark(h, marks \cup {"quick_gid"}, "idle") ELSE Empty(h, "none", "idle")
  /\ UNCHANGED saved

\* All members, or those of a file: the keys must be there.
StartQuick(h) ==
  /\ Free(h)
  /\ IF "quick_gid" \in marks /\ Has("quick_phone") /\ Has("quick_client")
     THEN Wait(h, "quick", field["quick_client"], field["quick_phone"])
     ELSE Empty(h, "none", "idle") /\ UNCHANGED saved

EndQuick(h) == at[h] = "quick" /\ Proceed(h, "idle") /\ UNCHANGED saved

-----------------------------------------------------------------------------
(* A saved account for an attack or for adding.                             *)

UseAccount(h, a) == Free(h) /\ a \in saved /\ Wait(h, "connect", a, a)

\* The account is somebody else's, or at its limit: the phone stays noted.
Taken(h) ==
  /\ at[h] = "connect" /\ Anew(h, [Nothing EXCEPT !["phone"] = phone[h]], "none", "idle")
  /\ UNCHANGED saved

Used(h) ==
  /\ at[h] = "connect"
  /\ \E f \in {"atk", "add_client"} :
       Anew(h, [Nothing EXCEPT !["phone"] = phone[h], ![f] = client[h]], "none",
            IF f = "atk" THEN "list_atk" ELSE "list_add")
  /\ UNCHANGED saved

\* Without a group to choose from the target is asked for by message.
Listed(h) ==
  /\ at[h] \in {"list_atk", "list_add"}
  /\ \/ Proceed(h, "idle")
     \/ Write(h, field, marks, IF at[h] = "list_atk" THEN "target" ELSE "adder_target", "idle")
  /\ UNCHANGED saved

-----------------------------------------------------------------------------
(* Signing in by messages.                                                  *)

\* A number that is saved already, or is none, ends it.
Number(h, a) ==
  /\ Free(h) /\ step = "number"
  /\ IF a \in saved THEN Empty(h, "none", "idle")
     ELSE /\ Written(h, With("phone", a), marks, step, torn \/ stale[h])
          /\ Enter(h, "number", a, a)
  /\ UNCHANGED saved

CodeSent(h) ==
  /\ at[h] = "number" /\ Write(h, With("new_client", client[h]), marks, "code", "idle")
  /\ UNCHANGED saved

\* Mutant of NoCode: only the client is given up.
NoCode_ClientOnly(h) ==
  /\ at[h] \in {"number", "resend"} /\ Put(h, With("new_client", Nil), "idle")
  /\ UNCHANGED saved

NoCode(h) == at[h] \in {"number", "resend"} /\ Empty(h, "none", "idle") /\ UNCHANGED saved

\* A code or a password.  A key that is missing raises an error.
Reply(h, place) ==
  IF Has("new_client") /\ Has("phone") THEN Wait(h, place, field["new_client"], field["phone"])
  ELSE Empty(h, "none", "idle") /\ UNCHANGED saved

Code(h) == Free(h) /\ step = "code" /\ Reply(h, "sign_in")
Password(h) == Free(h) /\ step = "password" /\ Reply(h, "check_password")

NeedsPassword(h) ==
  at[h] = "sign_in" /\ Write(h, field, marks, "password", "idle") /\ UNCHANGED saved

Expired(h) == at[h] = "sign_in" /\ Proceed(h, "resend") /\ UNCHANGED saved
Resent(h) == at[h] = "resend" /\ Put(h, field, "idle") /\ UNCHANGED saved

WrongAnswer(h) ==
  at[h] \in {"sign_in", "check_password"} /\ Proceed(h, "idle") /\ UNCHANGED saved

\* The account is saved.  A sign-in that an operation has asked for goes on.
Accepted(h) ==
  /\ at[h] \in {"sign_in", "check_password"} /\ saved' = saved \cup {phone[h]}
  /\ \E place \in IF at[h] = "sign_in" THEN {"idle", "welcome"} ELSE {"idle"} : Empty(h, "none", place)

Welcome(h) ==
  /\ at[h] = "welcome"
  /\ Anew(h, [Nothing EXCEPT !["phone"] = phone[h]], "none", "reconnect") /\ UNCHANGED saved

\* Now the operation has its client, wherever the conversation has gone.
Reconnected(h) ==
  /\ at[h] = "reconnect"
  /\ \/ Write(h, With("atk", phone[h]), marks, "none", "idle")
     \/ Put(h, With("add_client", phone[h]), "idle")
  /\ UNCHANGED saved

-----------------------------------------------------------------------------
(* Targets.                                                                 *)

\* By message.  Nobody looks whether a client is there: the menu of the parallel
\* add offers the first button without one, and the list of a client that has
\* been left still shows its button.
ByHand(h, s) == Free(h) /\ Write(h, field, marks, s, "idle") /\ UNCHANGED saved

TargetByHand(h) == ByHand(h, "target")
AddTargetByHand(h) == ByHand(h, "adder_target")

\* The target of an attack by its button.
AttackTarget(h) ==
  /\ Free(h)
  /\ IF Has("atk") THEN Wait(h, "find_target", field["atk"], field["phone"])
     ELSE Empty(h, "none", "idle") /\ UNCHANGED saved

Target(h) ==
  /\ Free(h) /\ step = "target"
  /\ IF Has("atk") THEN Wait(h, "find_target", field["atk"], field["phone"])
     ELSE Empty(h, "none", "idle") /\ UNCHANGED saved

TargetFound(h) ==
  at[h] = "find_target" /\ \E place \in {"scrape", "idle"} : Proceed(h, place) /\ UNCHANGED saved

\* The scrape empties the state, whoever uses it by now.
EndScrape(h) == at[h] = "scrape" /\ Empty(h, "none", "idle") /\ UNCHANGED saved

\* Trying again: with the client, or connecting the phone anew.
Retry(h) ==
  /\ Free(h)
  /\ \/ Has("atk") /\ Wait(h, "scrape", field["atk"], field["phone"])
     \/ ~Has("atk") /\ Has("phone") /\ Wait(h, "retry", field["phone"], field["phone"])

Retried(h) ==
  at[h] = "retry" /\ Put(h, With("atk", client[h]), "scrape") /\ UNCHANGED saved

\* The target of an add by its button.
AddTarget(h) ==
  /\ Free(h)
  /\ IF Has("add_client") THEN Wait(h, "check_target", field["add_client"], Nil)
     ELSE Empty(h, "none", "idle") /\ UNCHANGED saved

TargetChecked(h) ==
  /\ at[h] = "check_target"
  /\ (Put(h, field, "idle") \/ Proceed(h, "idle"))
  /\ UNCHANGED saved

AdderTarget(h) ==
  /\ Free(h) /\ step = "adder_target"
  /\ IF Has("add_client") THEN Wait(h, "adder_target", field["add_client"], Nil)
     ELSE Empty(h, "none", "idle") /\ UNCHANGED saved

\* Nobody counts as a member of the target: the status is an enumeration member
\* and is looked for among strings.  The step stays, and that of the file, to
\* which no other button leads either, is never reached.
AdderTargetFound(h) == at[h] = "adder_target" /\ Proceed(h, "idle") /\ UNCHANGED saved

\* A query of the group finder: one that is too short ends it at once.
Find(h) ==
  /\ Free(h) /\ step = "finder"
  /\ Wait(h, "finder", Nil, Nil) \/ (Empty(h, "none", "idle") /\ UNCHANGED saved)

Found(h) == at[h] = "finder" /\ Empty(h, "none", "idle") /\ UNCHANGED saved

\* Instagram asks for its step in the state as it is.
InstagramMenu(h) ==
  /\ Free(h) /\ \E s \in {"instagram", "upload"} : Write(h, field, marks, s, "idle")
  /\ UNCHANGED saved

\* A name is asked for again or answered at once, a password is tried.
Instagram(h) ==
  /\ Free(h) /\ step = "instagram"
  /\ Wait(h, "instagram", Nil, Nil) \/ (Empty(h, "none", "idle") /\ UNCHANGED saved)

InstagramDone(h) == at[h] = "instagram" /\ Empty(h, "none", "idle") /\ UNCHANGED saved

\* A session file, of Instagram or of an account.
Upload(h) == Free(h) /\ step = "upload" /\ Wait(h, "upload", Nil, Nil)

\* It is refused, the phone is asked for, or the account is saved.
Uploaded(h) ==
  /\ at[h] = "upload"
  /\ \/ Write(h, field, marks, "upload", "idle") /\ UNCHANGED saved
     \/ /\ Empty(h, "none", "idle")
        /\ \E new \in SUBSET Account : Cardinality(new) <= 1 /\ saved' = saved \cup new

-----------------------------------------------------------------------------
Menus(h) ==
  \/ Error(h) \/ FinderMenu(h) \/ AddAccount(h) \/ NewAccount(h) \/ FirstAccount(h)
  \/ Home(h) \/ StopOp(h) \/ Left(h)
Adds(h) ==
  \/ \E a \in Account : PickSimple(h, a) \/ PickLive(h, a) \/ PickQuick(h, a) \/ UseAccount(h, a)
  \/ Simple(h) \/ Unconnected(h) \/ StartSimple(h) \/ BeginSimple(h) \/ EndSimple(h)
  \/ Live(h) \/ LiveSource(h) \/ StartDirect(h) \/ BeginDirect(h) \/ EndDirect(h)
  \/ Quick(h) \/ QuickGroup(h) \/ QuickGroupFound(h) \/ QuickByHand(h) \/ StartQuick(h) \/ EndQuick(h)
  \/ Taken(h) \/ Used(h) \/ Listed(h)
SignIn(h) ==
  \/ \E a \in Account : Number(h, a)
  \/ CodeSent(h) \/ NoCode(h) \/ Code(h) \/ Password(h) \/ NeedsPassword(h) \/ Expired(h)
  \/ Resent(h) \/ WrongAnswer(h) \/ Accepted(h) \/ Welcome(h) \/ Reconnected(h)
Targets(h) ==
  \/ TargetByHand(h) \/ AddTargetByHand(h) \/ AttackTarget(h) \/ Target(h) \/ TargetFound(h)
  \/ EndScrape(h) \/ Retry(h) \/ Retried(h) \/ AddTarget(h) \/ TargetChecked(h)
  \/ AdderTarget(h) \/ AdderTargetFound(h)
Others(h) ==
  \/ Find(h) \/ Found(h) \/ InstagramMenu(h) \/ Instagram(h) \/ InstagramDone(h)
  \/ Upload(h) \/ Uploaded(h)

DialogueNext == \E h \in Handler : Menus(h) \/ Adds(h) \/ SignIn(h) \/ Targets(h) \/ Others(h)

DialogueSpec == DialogueInit /\ [][DialogueNext]_dialogueVars

-----------------------------------------------------------------------------
(* What the dialogue promises.                                              *)

\* A simple add is booked on the account whose client does it, whatever was
\* pressed while clients were connecting: both keys are written together.
SimpleBooked == \A h \in Handler : at[h] = "simple" => client[h] = phone[h]

\* The quick add notes the phone first: its adds may be booked on the account
\* that was picked last, by the client of another.
QuickBooked == \A h \in Handler : at[h] = "quick" => client[h] = phone[h]

\* Whatever was pressed one after the other, a code or a password finds the
\* client and the phone of a sign-in.  torn tells that a handler which has been
\* overtaken has written.  (Targets by message find no such thing: ByHand.)
StepServed == torn \/ (step \in {"code", "password"} => Has("new_client") /\ Has("phone"))
=============================================================================
