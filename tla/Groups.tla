------------------------------- MODULE Groups -------------------------------
(***************************************************************************)
(* What the bot does in a group: bot.py's filter of texts and its commands, *)
(* the watch on captions of group_manager.py and the defender's watch on    *)
(* names.                                                                   *)
(* The handlers of an update are kept in the order in which they were       *)
(* registered, in two handler groups; in each of them the first that takes  *)
(* the update serves it and no other is called (Pyrogram, as the comment of *)
(* group_leave expects).  Several updates are served at a time and each     *)
(* handler is suspended at its calls to Telegram.                           *)
(*                                                                          *)
(* The code asks whether the writer is an administrator by comparing the    *)
(* status with strings; Pyrogram 2 answers with an enumeration, so that it  *)
(* never is.  The settings are as at the start: the commands that would     *)
(* change them are for administrators.  A message that is edited reaches no *)
(* handler.  Texts of answers are left out, what leaving does to the        *)
(* blocked list is in MemberAdds.                                           *)
(***************************************************************************)
EXTENDS Naturals, Sequences, FiniteSets

CONSTANTS
  Member,       \* people who write
  Suspect,      \* those whose name looks like a spammer's
  Worker,       \* updates that are served at a time
  WarnLimit,    \* group_manager: "warn_limit"
  FloodLimit,   \* group_manager: "flood_limit"
  SpamLimit,    \* bot.py: "spam_threshold"
  MaxMedia,     \* bound: captions that are written
  Nil

ASSUME GroupsAssumption ==
  /\ Suspect \subseteq Member /\ {WarnLimit, FloodLimit, SpamLimit} \subseteq Nat \ {0}
  /\ MaxMedia \in Nat /\ Nil \notin Member

\* What a message has in it.  www is an address without http, which the pattern
\* of bot.py alone finds; name a user name, which only that of group_manager finds.
Contents == {"plain", "link", "www", "name", "swear", "forward"}
BotLinks == {"link", "www"}
ManagerLinks == {"link", "name"}

\* Updates: notices of Telegram, and messages that may begin with a command, as a
\* text or as a caption.  Channels and anonymous administrators have no from_user.
\* All commands but the first three stand for one, ban_user.  (What follows the
\* first three, which nobody looks at, is left out.)
Written(kinds, contents) ==
  [kind : kinds, form : {"text", "caption"}, from : Member \cup {Nil}, content : contents]
Updates ==
  [kind : {"join", "left"}, form : {"notice"}, from : Member, content : {"plain"}]
    \cup Written({"help", "lock", "unlock"}, {"plain"}) \cup Written({"command"}, {"plain", "link"})
    \cup Written({"message"}, Contents)

\* Mutant of Registered: the handlers of group_manager are registered first.
Registered_Import == <<"on_new_member", "on_left_member", "cmd_ban", "anti_spam_handler",
  "group_help_cmd", "group_lock_cmd", "group_unlock_cmd", "bot_added_to_group", "group_welcome",
  "group_leave", "group_message_filter", "ban_user", "new_mem", "left_mem">>

\* The handlers of group 0 in the order of their registration, and what each takes.
Registered == <<"group_help_cmd", "group_lock_cmd", "group_unlock_cmd", "bot_added_to_group",
  "group_welcome", "group_leave", "group_message_filter", "ban_user", "new_mem", "left_mem",
  "on_new_member", "on_left_member", "cmd_ban", "anti_spam_handler">>
Takes(h, u) ==
  CASE h = "group_help_cmd" -> u.kind = "help"
    [] h = "group_lock_cmd" -> u.kind = "lock"
    [] h = "group_unlock_cmd" -> u.kind = "unlock"
    [] h \in {"bot_added_to_group", "group_welcome", "new_mem", "on_new_member"} -> u.kind = "join"
    [] h \in {"group_leave", "left_mem", "on_left_member"} -> u.kind = "left"
    [] h = "group_message_filter" -> u.form = "text"
    [] h \in {"ban_user", "cmd_ban"} -> u.kind = "command"
    [] h = "anti_spam_handler" -> u.form # "notice"

\* The dispatcher: the first that takes it, nobody after it.
Serves(u) ==
  LET takers == {i \in 1..Len(Registered) : Takes(Registered[i], u)}
  IN  Registered[CHOOSE i \in takers : \A j \in takers : i <= j]

VARIABLES
  at, update,   \* of each worker: the handler and the update it serves
  standing,     \* of each member
  locked,       \* nobody may write
  recent,       \* _user_message_tracker: messages of the last ten seconds
  burst,        \* user_messages: captions of the last five seconds
  warnings,     \* user_warnings
  sworn,        \* forbidden words of each member that were removed
  wrote,        \* captions so far
  failed,       \* members whose ban, or its announcement, failed
  deleted       \* the handler that was done last has asked to delete its message

members == <<standing, locked>>
counts == <<recent, burst, warnings>>
history == <<sworn, wrote, failed>>
vars == <<at, update, standing, locked, recent, burst, warnings, sworn, wrote, failed, deleted>>

Places == {"idle", "watch", "warn", "ban", "mute"} \cup {Registered[i] : i \in 1..Len(Registered)}

TypeOK ==
  /\ at \in [Worker -> Places]
  /\ update \in [Worker -> Updates \cup {Nil}]
  /\ standing \in [Member -> {"free", "muted", "restricted", "banned"}] /\ locked \in BOOLEAN
  /\ recent \in [Member -> 0..SpamLimit] /\ burst \in [Member -> Nat] /\ warnings \in [Member -> Nat]
  /\ sworn \in [Member -> Nat] /\ wrote \in 0..MaxMedia /\ failed \subseteq Member
  /\ deleted \in BOOLEAN

Init ==
  /\ at = [w \in Worker |-> "idle"] /\ update = [w \in Worker |-> Nil]
  /\ standing = [m \in Member |-> "free"] /\ locked = FALSE
  /\ recent = [m \in Member |-> 0] /\ burst = recent /\ warnings = recent
  /\ sworn = recent /\ wrote = 0 /\ failed = {} /\ deleted = FALSE

-----------------------------------------------------------------------------
Who(w) == update[w].from
Content(w) == update[w].content
Goto(w, place) == at' = [at EXCEPT ![w] = place] /\ UNCHANGED update

\* Handler group 1 looks only at who wrote the text.
Handed(u) == [kind |-> "message", form |-> "text", from |-> u.from, content |-> "plain"]

\* Handler group 0 is done with the update, and has asked Telegram to delete the
\* message or not (a refusal goes unnoticed).  Texts go to handler group 1.
Leave(w, delete) ==
  /\ IF update[w].form = "text"
     THEN at' = [at EXCEPT ![w] = "watch"] /\ update' = [update EXCEPT ![w] = Handed(@)]
     ELSE at' = [at EXCEPT ![w] = "idle"] /\ update' = [update EXCEPT ![w] = Nil]
  /\ deleted' = delete

\* A message comes in.  While it is served its writer may be restricted, or muted,
\* by the handler of an earlier one.
Message(w, u) ==
  /\ at[w] = "idle" /\ at' = [at EXCEPT ![w] = Serves(u)] /\ update' = [update EXCEPT ![w] = u]
  /\ u.from # Nil => standing[u.from] = "free" /\ (locked => u.kind \in {"join", "left", "unlock"})
  /\ IF u.form = "caption" THEN wrote < MaxMedia /\ wrote' = wrote + 1 ELSE UNCHANGED wrote
  /\ UNCHANGED <<members, counts, sworn, failed, deleted>>

\* Time passes: timestamps leave the windows.
Tick(m) ==
  /\ \/ recent[m] > 0 /\ recent' = [recent EXCEPT ![m] = @ - 1] /\ UNCHANGED burst
     \/ burst[m] > 0 /\ burst' = [burst EXCEPT ![m] = @ - 1] /\ UNCHANGED recent
  /\ UNCHANGED <<at, update, members, warnings, history, deleted>>

\* A mute of five minutes ends by itself.
MuteEnds(m) ==
  /\ standing[m] = "muted" /\ standing' = [standing EXCEPT ![m] = "free"]
  /\ UNCHANGED <<at, update, locked, counts, history, deleted>>

\* Telegram: new restrictions take the place of those before, a ban as well.
\* A call that is refused changes nothing.
Put(m, s) == standing' = [standing EXCEPT ![m] = s] /\ UNCHANGED locked
Try(m, s) == Put(m, s) \/ UNCHANGED members

-----------------------------------------------------------------------------
(* bot.py                                                                   *)

Help(w) ==
  at[w] = "group_help_cmd" /\ Leave(w, FALSE) /\ UNCHANGED <<members, counts, history>>

\* Anybody's command.  The call may be refused.
Lock(w) ==
  /\ at[w] \in {"group_lock_cmd", "group_unlock_cmd"} /\ Leave(w, FALSE)
  /\ locked' \in {locked, at[w] = "group_lock_cmd"}
  /\ UNCHANGED <<standing, counts, history>>

\* Only the bot's own arrival is answered, and its notice deleted.
Joined(w) ==
  /\ at[w] = "bot_added_to_group" /\ \E own \in BOOLEAN : Leave(w, own)
  /\ UNCHANGED <<members, counts, history>>

\* The notice is deleted.  continue_propagation raises, the handler catches it.
Left(w) == at[w] = "group_leave" /\ Leave(w, TRUE) /\ UNCHANGED <<members, counts, history>>

\* Of the last messages as many are kept as make spam, and the one that makes it
\* goes.
Counted(w) ==
  LET now == IF recent[Who(w)] = SpamLimit THEN SpamLimit ELSE recent[Who(w)] + 1
  IN  recent' = [recent EXCEPT ![Who(w)] = now] /\ Leave(w, now >= SpamLimit)

\* Mutant of Filter: it has the pattern of group_manager.
Filter_Pattern(w) ==
  /\ at[w] = "group_message_filter"
  /\ \/ Content(w) \in ManagerLinks /\ Leave(w, TRUE) /\ UNCHANGED recent
     \/ Content(w) \notin ManagerLinks /\ Who(w) = Nil /\ Leave(w, FALSE) /\ UNCHANGED recent
     \/ Content(w) \notin ManagerLinks /\ Who(w) # Nil /\ Counted(w)
  /\ UNCHANGED <<members, burst, warnings, history>>

\* Links go, whoever wrote them; they are not counted.  Else it raises an error
\* without a user to count.
Filter(w) ==
  /\ at[w] = "group_message_filter"
  /\ \/ Content(w) \in BotLinks /\ Leave(w, TRUE) /\ UNCHANGED recent
     \/ Content(w) \notin BotLinks /\ Who(w) = Nil /\ Leave(w, FALSE) /\ UNCHANGED recent
     \/ Content(w) \notin BotLinks /\ Who(w) # Nil /\ Counted(w)
  /\ UNCHANGED <<members, burst, warnings, history>>

\* The command of a caption (texts do not come here): the answer is that it is for
\* administrators, or information.
Command(w) == at[w] = "ban_user" /\ Leave(w, FALSE) /\ UNCHANGED <<members, counts, history>>

-----------------------------------------------------------------------------
(* group_manager.py: captions without a command are left for                *)
(* anti_spam_handler.                                                       *)

\* Nobody to answer: it returns.
NoUser(w) ==
  /\ at[w] = "anti_spam_handler" /\ Who(w) = Nil
  /\ Leave(w, FALSE) /\ UNCHANGED <<members, counts, history>>

Watched(w) == at[w] = "anti_spam_handler" /\ Who(w) # Nil

\* Links and forwarded messages go.
AntiLink(w) ==
  /\ Watched(w) /\ Content(w) \in ManagerLinks \cup {"forward"}
  /\ Leave(w, TRUE) /\ UNCHANGED <<members, counts, history>>

\* A forbidden word: if the message can be deleted it is counted.
AntiProfanity(w) ==
  /\ Watched(w) /\ Content(w) = "swear"
  /\ (Goto(w, "warn") /\ UNCHANGED deleted) \/ Leave(w, TRUE)
  /\ UNCHANGED <<members, counts, history>>

\* Mutant of Warn: the limit itself is still allowed.
Warn_After(w) ==
  /\ at[w] = "warn" /\ sworn' = [sworn EXCEPT ![Who(w)] = @ + 1]
  /\ warnings' = [warnings EXCEPT ![Who(w)] = @ + 1]
  /\ IF warnings[Who(w)] + 1 > WarnLimit THEN Goto(w, "ban") /\ UNCHANGED deleted ELSE Leave(w, TRUE)
  /\ UNCHANGED <<members, recent, burst, wrote, failed>>

\* Mutant of Warn: the last warning before the limit bans already.
Warn_Early(w) ==
  /\ at[w] = "warn" /\ sworn' = [sworn EXCEPT ![Who(w)] = @ + 1]
  /\ warnings' = [warnings EXCEPT ![Who(w)] = @ + 1]
  /\ IF warnings[Who(w)] + 2 >= WarnLimit THEN Goto(w, "ban") /\ UNCHANGED deleted ELSE Leave(w, TRUE)
  /\ UNCHANGED <<members, recent, burst, wrote, failed>>

Warn(w) ==
  /\ at[w] = "warn" /\ sworn' = [sworn EXCEPT ![Who(w)] = @ + 1]
  /\ warnings' = [warnings EXCEPT ![Who(w)] = @ + 1]
  /\ IF warnings[Who(w)] + 1 >= WarnLimit THEN Goto(w, "ban") /\ UNCHANGED deleted ELSE Leave(w, TRUE)
  /\ UNCHANGED <<members, recent, burst, wrote, failed>>

\* The warnings are forgotten after the ban and its announcement, if both succeed.
Ban(w) ==
  /\ at[w] = "ban" /\ Leave(w, TRUE)
  /\ \/ /\ Put(Who(w), "banned") /\ warnings' = [warnings EXCEPT ![Who(w)] = 0]
        /\ UNCHANGED failed
     \/ Try(Who(w), "banned") /\ failed' = failed \cup {Who(w)} /\ UNCHANGED warnings
  /\ UNCHANGED <<recent, burst, sworn, wrote>>

\* Every other caption is counted.
AntiFlood(w) ==
  /\ Watched(w) /\ Content(w) \in {"plain", "www"}
  /\ burst' = [burst EXCEPT ![Who(w)] = @ + 1]
  /\ IF burst'[Who(w)] > FloodLimit THEN Goto(w, "mute") /\ UNCHANGED deleted ELSE Leave(w, FALSE)
  /\ UNCHANGED <<members, recent, warnings, history>>

\* Muted or not, what has been counted until now is forgotten.
Mute(w) ==
  /\ at[w] = "mute" /\ Leave(w, FALSE) /\ burst' = [burst EXCEPT ![Who(w)] = 0]
  /\ Try(Who(w), "muted") /\ UNCHANGED <<recent, warnings, history>>

-----------------------------------------------------------------------------
(* defender.py, handler group 1: every text, whatever group 0 did with it.  *)

\* A name that looks like a spammer's: restricted with no end.  restrict
\* catches its errors.
Monitor(w) ==
  /\ at[w] = "watch" /\ at' = [at EXCEPT ![w] = "idle"] /\ update' = [update EXCEPT ![w] = Nil]
  /\ IF Who(w) \in Suspect THEN Try(Who(w), "restricted") ELSE UNCHANGED members
  /\ UNCHANGED <<counts, history, deleted>>

-----------------------------------------------------------------------------
Serve(w) ==
  \/ Help(w) \/ Lock(w) \/ Joined(w) \/ Left(w) \/ Filter(w) \/ Command(w)
  \/ NoUser(w) \/ AntiLink(w) \/ AntiProfanity(w)
  \/ Warn(w) \/ Ban(w) \/ AntiFlood(w) \/ Mute(w) \/ Monitor(w)

Next ==
  \/ \E w \in Worker : Serve(w)
  \/ \E w \in Worker, u \in Updates : Message(w, u)
  \/ \E m \in Member : Tick(m) \/ MuteEnds(m)

Spec == Init /\ [][Next]_vars

-----------------------------------------------------------------------------
(* What the group may rely on.                                              *)

\* Group 0 is done with what w serves.
Done(w) == at[w] \notin {"idle", "watch"} /\ at'[w] \in {"idle", "watch"}

\* What has a link in it for the handler that looks for one: a text, also with a
\* command that only group_message_filter takes, and the caption of a user that
\* begins with no command.
Forbidden(u) ==
  \/ u.form = "text" /\ u.content \in BotLinks
  \/ u.form = "caption" /\ u.kind = "message" /\ u.from # Nil /\ u.content \in ManagerLinks

\* No other handler serves such a message, and it is deleted before anything is
\* counted.  (Captions of commands and of channels stand, and each handler lets
\* pass what only the other's pattern finds.)
LinksGo == [][\A w \in Worker : Done(w) /\ Forbidden(update[w]) => deleted']_vars

\* Whoever has been warned as often as the limit allows is being banned, or a
\* call about them failed: handlers that count at the same time miss nobody.
LimitMeansBan ==
  \A m \in Member : warnings[m] >= WarnLimit =>
    m \in failed \/ \E w \in Worker : at[w] = "ban" /\ Who(w) = m

\* Nobody is banned for fewer words than the limit.
BanEarned == \A m \in Member : standing[m] = "banned" => sworn[m] >= WarnLimit

\* The help of group_manager.py promises that forbidden words are removed.
\* Violated: a text is served by group_message_filter, which was registered
\* first and does not look for them.
WordsGo == [][\A w \in Worker : Done(w) /\ update[w].content = "swear" => deleted']_vars
=============================================================================
