---------------------------- MODULE ChannelAdder ----------------------------
(***************************************************************************)
(* channel_adder.py: the console program that adds members to a channel.    *)
(* It keeps accounts, limits and history in three JSON files which it reads *)
(* and rewrites as a whole, and lists of users in CSV files.  It does one   *)
(* thing at a time; but a number that is none, Ctrl-C or the end of the     *)
(* machine may stop it anywhere, also while a file is being written: open() *)
(* has emptied it, and what is left of it cannot be read again.  A write     *)
(* that fails leaves the same; in the loop of the add its exception is       *)
(* swallowed and the loop goes on.                                           *)
(*                                                                          *)
(* One channel.  Whom Telegram lets into it is not modelled: an invitation   *)
(* that raises nothing may have added nobody (missing_invitees), the program  *)
(* does not look.  Contacts, delays and the progress report are left out.    *)
(* A CSV file is named by the users in it.                                   *)
(***************************************************************************)
EXTENDS Naturals, FiniteSets, FiniteSetsExt

CONSTANTS
  Account, User,
  MaxAdd,       \* MAX_ADD_PER_ACCOUNT
  MaxCrashes,   \* bound
  MaxFaults,    \* bound: writes that fail
  MaxResets,    \* bound: how often the limits are reset
  MaxLists,     \* bound: different lists that are kept
  Nil

Json == {"accounts", "limits", "history"}

ASSUME ChannelAdderAssumption ==
  /\ {MaxAdd, MaxCrashes, MaxFaults, MaxResets, MaxLists} \subseteq Nat /\ MaxAdd > 0
  /\ IsFiniteSet(Account) /\ IsFiniteSet(User) /\ Nil \notin Account \cup User \cup Json

VARIABLES
  accounts, limits, history,   \* data/*.json
  lists,        \* data/*.csv
  writing,      \* the file that is open
  broken,       \* files that cannot be read
  place,        \* where the program is
  phone, todo, uid, already, added,  \* local variables of the add
  answered,     \* whose invitation was answered: no error, or already in
  invited,      \* invitations without an error, by account since its limit was reset
  crashes, faults, resets

files == <<accounts, limits, history, lists, writing, broken>>
locals == <<phone, todo, uid, already, added>>
outside == <<answered, invited>>
bounds == <<crashes, faults, resets>>
vars == <<files, place, locals, outside, bounds>>

Places == {"down", "menu", "connected", "next", "invite", "note", "count", "noteAlready"}

TypeOK ==
  /\ accounts \subseteq Account /\ limits \in [Account -> 0..MaxAdd] /\ history \subseteq User
  /\ lists \subseteq SUBSET User /\ writing \in Json \cup {Nil} /\ broken \subseteq Json
  /\ place \in Places /\ phone \in Account \cup {Nil} /\ todo \subseteq User
  /\ uid \in User \cup {Nil} /\ already \in 0..MaxAdd /\ added \in 0..MaxAdd
  /\ answered \subseteq User /\ invited \in [Account -> Nat]
  /\ crashes \in 0..MaxCrashes /\ faults \in 0..MaxFaults /\ resets \in 0..MaxResets

Idle == phone' = Nil /\ todo' = {} /\ uid' = Nil /\ already' = 0 /\ added' = 0

Init ==
  /\ accounts = {} /\ limits = [a \in Account |-> 0] /\ history = {} /\ lists = {}
  /\ writing = Nil /\ broken = {} /\ place = "down"
  /\ phone = Nil /\ todo = {} /\ uid = Nil /\ already = 0 /\ added = 0
  /\ answered = {} /\ invited = limits /\ crashes = 0 /\ faults = 0 /\ resets = 0

-----------------------------------------------------------------------------
At(p) == place = p /\ writing = Nil
Opens(file) == writing' = file /\ UNCHANGED broken
Unread(file) == file \in broken /\ UNCHANGED <<writing, broken, faults>>
\* open() fails, and the file is what it was, or it fails while it is being written.
Fails(file) ==
  /\ faults < MaxFaults /\ faults' = faults + 1
  /\ broken' \in {broken, broken \cup {file}} /\ UNCHANGED writing

\* The file is whole again when it is closed.
Close ==
  /\ writing # Nil /\ writing' = Nil /\ broken' = broken \ {writing}
  /\ UNCHANGED <<accounts, limits, history, lists, place, locals, outside, bounds>>

\* The program ends, whatever it is doing.
Crash ==
  /\ place # "down" /\ crashes < MaxCrashes /\ crashes' = crashes + 1
  /\ place' = "down" /\ Idle /\ writing' = Nil /\ broken' = broken \cup ({writing} \ {Nil})
  /\ UNCHANGED <<accounts, limits, history, lists, outside, faults, resets>>

\* The menu reads the accounts and their limits each time: without them it ends.
AtMenu == At("menu") /\ broken \subseteq {"history"}

Start == At("down") /\ place' = "menu" /\ UNCHANGED <<files, locals, outside, bounds>>

Exit == At("menu") /\ place' = "down" /\ UNCHANGED <<files, locals, outside, bounds>>

\* What a sign-in cannot write it reports; a reset that fails ends the program.
MenuFails ==
  /\ AtMenu
  /\ \/ Fails("accounts") /\ UNCHANGED place
     \/ Fails("limits") /\ place' = "down"
  /\ UNCHANGED <<accounts, limits, history, lists, locals, outside, crashes, resets>>

\* 1: an account signs in.  If that fails nothing is kept.
Login(a) ==
  /\ AtMenu /\ accounts' = accounts \cup {a} /\ Opens("accounts")
  /\ UNCHANGED <<limits, history, lists, place, locals, outside, bounds>>

\* 4: the users of a file.  A program that ends here has written fewer of them.
\* 3, the users of a group, finds no group: the kind of a chat is compared with a
\* string, and Pyrogram 2 answers with an enumeration.
Import(l) ==
  /\ AtMenu /\ lists' = lists \cup {l} /\ Cardinality(lists') <= MaxLists
  /\ UNCHANGED <<accounts, limits, history, writing, broken, place, locals, outside, bounds>>

\* 6: one account or all of them.
Reset(as) ==
  /\ AtMenu /\ resets < MaxResets /\ resets' = resets + 1 /\ Opens("limits")
  /\ limits' = [a \in Account |-> IF a \in as THEN 0 ELSE limits[a]]
  /\ invited' = [a \in Account |-> IF a \in as THEN 0 ELSE invited[a]]
  /\ UNCHANGED <<accounts, history, lists, place, locals, answered, crashes, faults>>

-----------------------------------------------------------------------------
(* 2: the add.                                                              *)

\* Only accounts below the limit are offered.
Choose(a) ==
  /\ AtMenu /\ a \in accounts /\ limits[a] < MaxAdd
  /\ place' = "connected" /\ phone' = a
  /\ UNCHANGED <<files, todo, uid, already, added, outside, bounds>>

Menu == place' = "menu" /\ Idle
\* No connection, no channel, no list or group, a no to a question.
GiveUp == At("connected") /\ Menu /\ UNCHANGED <<files, outside, bounds>>

\* Mutant of Begin: a history that cannot be read is taken for an empty one.
Begin_Empty(l) ==
  /\ At("connected") /\ l \in lists \ {{}}
  /\ LET filtered == IF "history" \in broken THEN l ELSE l \ history
         total == Min({Cardinality(filtered), MaxAdd - limits[phone]})
     IN  \E ids \in kSubset(total, filtered) :
           IF ids = {} THEN Menu
           ELSE /\ place' = "next" /\ todo' = ids /\ already' = limits[phone] /\ added' = 0
                /\ UNCHANGED <<phone, uid>>
  /\ UNCHANGED <<files, outside, bounds>>

\* Whoever is in the history is left out, and no more are taken than the account
\* may still add.  A history that cannot be read ends the program.
Begin(l) ==
  /\ At("connected") /\ l \in lists \ {{}}
  /\ IF "history" \in broken THEN place' = "down" /\ Idle
     ELSE LET filtered == l \ history
              total == Min({Cardinality(filtered), MaxAdd - limits[phone]})
          IN  \E ids \in kSubset(total, filtered) :
                IF ids = {} THEN Menu
                ELSE /\ place' = "next" /\ todo' = ids /\ already' = limits[phone] /\ added' = 0
                     /\ UNCHANGED <<phone, uid>>
  /\ UNCHANGED <<files, outside, bounds>>

Done == At("next") /\ todo = {} /\ Menu /\ UNCHANGED <<files, outside, bounds>>

\* A user who cannot be resolved is passed over.
Take(u) ==
  /\ At("next") /\ u \in todo /\ todo' = todo \ {u}
  /\ \/ uid' = u /\ place' = "invite"
     \/ UNCHANGED <<uid, place>>
  /\ UNCHANGED <<files, phone, already, added, outside, bounds>>

\* No error: it counts as added, whether the user is in the channel now or not.
Accepted ==
  /\ At("invite") /\ place' = "note" /\ added' = added + 1
  /\ answered' = answered \cup {uid} /\ invited' = [invited EXCEPT ![phone] = @ + 1]
  /\ UNCHANGED <<files, phone, todo, uid, already, bounds>>

AlreadyIn ==
  /\ At("invite") /\ place' = "noteAlready" /\ answered' = answered \cup {uid}
  /\ UNCHANGED <<files, locals, invited, bounds>>

NextUser == place' = "next" /\ uid' = Nil /\ UNCHANGED <<phone, todo, already, added>>

\* Privacy, a flood wait, any other error: the next one.  No longer an admin: the end.
Refused ==
  /\ At("invite") /\ UNCHANGED <<files, outside, bounds>>
  /\ NextUser \/ Menu

\* Mutant of Note: the list of the channel is begun anew.
Note_Anew ==
  /\ At("note") /\ "history" \notin broken
  /\ history' = {uid} /\ Opens("history") /\ place' = "count"
  /\ UNCHANGED <<accounts, limits, lists, locals, outside, bounds>>

\* After an accepted invitation: first the history, which is read before,
Note ==
  /\ At("note") /\ "history" \notin broken
  /\ history' = history \cup {uid} /\ Opens("history") /\ place' = "count"
  /\ UNCHANGED <<accounts, limits, lists, locals, outside, bounds>>

\* Mutant of Count: what the account had added before this run is forgotten.
Count_Run ==
  /\ At("count") /\ NextUser
  /\ limits' = [limits EXCEPT ![phone] = added] /\ Opens("limits")
  /\ UNCHANGED <<accounts, history, lists, outside, bounds>>

\* then the limits: all this run has added, also what an earlier write has missed.
Count ==
  /\ At("count") /\ NextUser
  /\ limits' = [limits EXCEPT ![phone] = already + added] /\ Opens("limits")
  /\ UNCHANGED <<accounts, history, lists, outside, bounds>>

\* Neither is written, or the second is not: the exception is caught as if the
\* invitation had raised it, and the loop goes on.
NotCounted ==
  /\ \/ At("note") /\ (Unread("history") \/ Fails("history"))
     \/ At("count") /\ Fails("limits")
  /\ NextUser
  /\ UNCHANGED <<accounts, limits, history, lists, outside, crashes, resets>>

NoteAlready ==
  /\ At("noteAlready") /\ "history" \notin broken /\ NextUser
  /\ history' = history \cup {uid} /\ Opens("history")
  /\ UNCHANGED <<accounts, limits, lists, outside, bounds>>

\* Here the exception is raised by a handler, which nothing catches.
NotNotedAlready ==
  /\ At("noteAlready") /\ (Unread("history") \/ Fails("history"))
  /\ place' = "down" /\ Idle
  /\ UNCHANGED <<accounts, limits, history, lists, outside, crashes, resets>>

-----------------------------------------------------------------------------
Next ==
  \/ Start \/ Exit \/ MenuFails \/ Crash \/ Close \/ GiveUp \/ Done
  \/ \E a \in Account : Login(a) \/ Choose(a)
  \/ \E as \in {{a} : a \in Account} \cup {Account} : Reset(as)
  \/ \E l \in SUBSET User : Import(l) \/ Begin(l)
  \/ \E u \in User : Take(u)
  \/ Accepted \/ AlreadyIn \/ Refused \/ Note \/ Count \/ NotCounted
  \/ NoteAlready \/ NotNotedAlready

Spec == Init /\ [][Next]_vars

-----------------------------------------------------------------------------
(* What the files say, over any number of runs.                             *)

\* An invitation stands between its answer and the file.
Pending(a) == IF phone = a /\ place \in {"note", "count"} THEN 1 ELSE 0

\* While they can be read, the limits count what the account has added since its
\* last reset: never more, and less by one at most for every time the program was
\* stopped or a write failed.
CountTrue ==
  {"limits", "history"} \cap broken = {} =>
    \A a \in Account :
      /\ limits[a] <= invited[a]
      /\ invited[a] <= limits[a] + crashes + faults + Pending(a)

\* MAX_ADD_PER_ACCOUNT bounds what an account adds between two resets, up to one
\* for every such time.  It does so also after the history broke, from when on
\* nothing is counted: the run goes no further than it could at its beginning, and
\* there is no other.
WithinLimit == \A a \in Account : invited[a] <= MaxAdd + crashes + faults

\* The history, while it can be read, names only users Telegram has answered for,
\* and misses of them at most one for every time the program was stopped or a write
\* failed: nobody else of them is invited again.
HistoryTrue ==
  "history" \notin broken =>
    /\ history \subseteq answered
    /\ Cardinality(answered \ history)
         <= crashes + faults + (IF place \in {"note", "noteAlready"} THEN 1 ELSE 0)
=============================================================================
