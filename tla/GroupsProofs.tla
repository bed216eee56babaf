----------------------------- MODULE GroupsProofs -----------------------------
(***************************************************************************)
(* What the handlers of a group guarantee for any members, any number of     *)
(* updates served at a time and any limits.                                 *)
(*                                                                         *)
(* Whom a ban is for is known only from the update that is being served, and  *)
(* what is left for a handler from those that come before it (Serving); that  *)
(* a ban was earned rests on the warnings never exceeding the words that were *)
(* counted (WarnedForWords), whoever counts at the same time.                 *)
(***************************************************************************)
EXTENDS Groups, TLAPS

\* What an update that is served at place is like.
Fits(place, u) ==
  /\ place \in {"bot_added_to_group", "group_leave"} => u.form = "notice"
  /\ place \in {"group_help_cmd", "group_lock_cmd", "group_unlock_cmd"} => u.content = "plain"
  /\ place = "group_message_filter" => u.form = "text"
  /\ place = "ban_user" => u.form = "caption" /\ u.kind = "command"
  /\ place \in {"anti_spam_handler", "warn", "ban", "mute"} => u.form = "caption"
  /\ place \in {"warn", "ban", "mute"} => u.from \in Member
  /\ place = "mute" => u.content \notin ManagerLinks

\* A handler that is suspended has its update.
Serving ==
  \A w \in Worker : at[w] # "idle" => update[w] \in Updates /\ Fits(at[w], update[w])

WarnedForWords == \A m \in Member : warnings[m] <= sworn[m]

BeingBanned == \A w \in Worker : at[w] = "ban" => sworn[Who(w)] >= WarnLimit

GInv ==
  /\ TypeOK /\ Serving /\ LimitMeansBan
  /\ WarnedForWords /\ BeingBanned /\ BanEarned

LEMMA Limits ==
  /\ WarnLimit \in Nat /\ WarnLimit > 0 /\ FloodLimit \in Nat /\ SpamLimit \in Nat
  /\ SpamLimit > 0 /\ MaxMedia \in Nat
BY GroupsAssumption

\* The fields of an update, by its kind.
LEMMA Fields ==
  ASSUME NEW u \in Updates
  PROVE  /\ u = [kind |-> u.kind, form |-> u.form, from |-> u.from, content |-> u.content]
         /\ u.from \in Member \cup {Nil} /\ u.content \in Contents
         /\ u.form \in {"notice", "text", "caption"}
         /\ u.kind \in {"join", "left"} <=> u.form = "notice"
         /\ u.kind \in {"help", "lock", "unlock"} => u.content = "plain"
         /\ u.kind \in {"join", "left", "help", "lock", "unlock", "command", "message"}
BY DEF Updates, Written, Contents

-----------------------------------------------------------------------------
(* The order of the handlers.                                               *)

LEMMA Order ==
  /\ Len(Registered) = 14
  /\ Registered[1] = "group_help_cmd" /\ Registered[2] = "group_lock_cmd"
  /\ Registered[3] = "group_unlock_cmd" /\ Registered[4] = "bot_added_to_group"
  /\ Registered[5] = "group_welcome" /\ Registered[6] = "group_leave"
  /\ Registered[7] = "group_message_filter" /\ Registered[8] = "ban_user"
  /\ Registered[9] = "new_mem" /\ Registered[10] = "left_mem"
  /\ Registered[11] = "on_new_member" /\ Registered[12] = "on_left_member"
  /\ Registered[13] = "cmd_ban" /\ Registered[14] = "anti_spam_handler"
BY DEF Registered

LEMMA HandlerPlaces ==
  /\ \A i \in 1 .. 14 : Registered[i] \in Places
  /\ {"idle", "watch", "warn", "ban", "mute"} \subseteq Places
BY Order DEF Places

LEMMA TakesWhat ==
  ASSUME NEW u
  PROVE  /\ Takes(Registered[1], u) <=> u.kind = "help"
         /\ Takes(Registered[2], u) <=> u.kind = "lock"
         /\ Takes(Registered[3], u) <=> u.kind = "unlock"
         /\ Takes(Registered[4], u) <=> u.kind = "join"
         /\ Takes(Registered[5], u) <=> u.kind = "join"
         /\ Takes(Registered[6], u) <=> u.kind = "left"
         /\ Takes(Registered[7], u) <=> u.form = "text"
         /\ Takes(Registered[8], u) <=> u.kind = "command"
         /\ Takes(Registered[9], u) <=> u.kind = "join"
         /\ Takes(Registered[10], u) <=> u.kind = "left"
         /\ Takes(Registered[11], u) <=> u.kind = "join"
         /\ Takes(Registered[12], u) <=> u.kind = "left"
         /\ Takes(Registered[13], u) <=> u.kind = "command"
         /\ Takes(Registered[14], u) <=> u.form # "notice"
BY Order DEF Takes

LEMMA First ==
  ASSUME NEW u, NEW n \in 1 .. 14, Takes(Registered[n], u),
         \A i \in 1 .. 14 : i < n => ~Takes(Registered[i], u)
  PROVE  Serves(u) = Registered[n]
<1> DEFINE takers == {i \in 1 .. Len(Registered) : Takes(Registered[i], u)}
           first == CHOOSE i \in takers : \A j \in takers : i <= j
<1>1. Serves(u) = Registered[first]
  BY DEF Serves
<1>2. takers \subseteq 1 .. 14 /\ n \in takers
  BY Order
<1>3. \A j \in takers : n <= j
  BY Order
<1>4. first \in takers /\ \A j \in takers : first <= j
  BY <1>2, <1>3
<1>5. first = n
  BY <1>2, <1>3, <1>4
<1> QED
  BY <1>1, <1>5

\* What is left for a handler when those before it have had their choice.
LEMMA ServesWhat ==
  ASSUME NEW u \in Updates
  PROVE  \E n \in 1 .. 14 : Serves(u) = Registered[n] /\ Fits(Registered[n], u)
<1>1. /\ u.form \in {"notice", "text", "caption"}
      /\ u.kind \in {"join", "left"} <=> u.form = "notice"
      /\ u.kind \in {"help", "lock", "unlock"} => u.content = "plain"
      /\ u.kind \in {"join", "left", "help", "lock", "unlock", "command", "message"}
  BY Fields
<1>2. CASE u.kind = "help"
  <2>1. Serves(u) = Registered[1]
    BY <1>2, First, TakesWhat
  <2> QED  BY <1>1, <1>2, <2>1, Order DEF Fits
<1>3. CASE u.kind = "lock"
  <2>1. Serves(u) = Registered[2]
    BY <1>1, <1>3, First, TakesWhat
  <2> QED  BY <1>1, <1>3, <2>1, Order DEF Fits
<1>4. CASE u.kind = "unlock"
  <2>1. Serves(u) = Registered[3]
    BY <1>1, <1>4, First, TakesWhat
  <2> QED  BY <1>1, <1>4, <2>1, Order DEF Fits
<1>5. CASE u.kind = "join"
  <2>1. Serves(u) = Registered[4]
    BY <1>1, <1>5, First, TakesWhat
  <2> QED  BY <1>1, <1>5, <2>1, Order DEF Fits
<1>6. CASE u.kind = "left"
  <2>1. Serves(u) = Registered[6]
    BY <1>1, <1>6, First, TakesWhat
  <2> QED  BY <1>1, <1>6, <2>1, Order DEF Fits
<1>7. CASE u.kind \in {"command", "message"} /\ u.form = "text"
  <2>1. Serves(u) = Registered[7]
    BY <1>1, <1>7, First, TakesWhat
  <2> QED  BY <1>1, <1>7, <2>1, Order DEF Fits
<1>8. CASE u.kind = "command" /\ u.form = "caption"
  <2>1. Serves(u) = Registered[8]
    BY <1>1, <1>8, First, TakesWhat
  <2> QED  BY <1>1, <1>8, <2>1, Order DEF Fits
<1>9. CASE u.kind = "message" /\ u.form = "caption"
  <2>1. Serves(u) = Registered[14]
    BY <1>1, <1>9, First, TakesWhat
  <2> QED  BY <1>1, <1>9, <2>1, Order DEF Fits
<1> QED
  BY <1>1, <1>2, <1>3, <1>4, <1>5, <1>6, <1>7, <1>8, <1>9

-----------------------------------------------------------------------------
(* What is being served, and by whom.                                       *)

Hands ==
  /\ at \in [Worker -> Places] /\ update \in [Worker -> Updates \cup {Nil}]
  /\ deleted \in BOOLEAN /\ Serving

\* The other workers keep what they are serving.
Alone(w) == \A v \in Worker \ {w} : at'[v] = at[v] /\ update'[v] = update[v]

LEMMA InHand ==
  ASSUME Serving, NEW w \in Worker, at[w] # "idle"
  PROVE  /\ update[w] \in Updates /\ Fits(at[w], update[w])
         /\ Who(w) \in Member \cup {Nil}
         /\ at[w] \in {"warn", "ban", "mute"} => Who(w) \in Member
<1>1. update[w] \in Updates /\ Fits(at[w], update[w])
  BY DEF Serving
<1>2. update[w].from \in Member \cup {Nil}
  BY <1>1, Fields
<1> QED
  BY <1>1, <1>2 DEF Fits, Who

\* One worker moves on, with an update that fits.
LEMMA Moves ==
  ASSUME Hands, NEW w \in Worker, NEW place \in Places, NEW u \in Updates \cup {Nil},
         at' = [at EXCEPT ![w] = place], update' = [update EXCEPT ![w] = u],
         deleted' \in BOOLEAN, place # "idle" => u \in Updates /\ Fits(place, u)
  PROVE  Hands' /\ Alone(w) /\ at'[w] = place /\ update'[w] = u
<1>1. /\ at' \in [Worker -> Places] /\ update' \in [Worker -> Updates \cup {Nil}]
      /\ Alone(w) /\ at'[w] = place /\ update'[w] = u
  BY DEF Hands, Alone
<1>2. Serving'
  <2> SUFFICES ASSUME NEW v \in Worker, at'[v] # "idle"
               PROVE  update'[v] \in Updates /\ Fits(at'[v], update'[v])
    BY DEF Serving, Fits
  <2>1. CASE v = w
    BY <1>1, <2>1
  <2>2. CASE v # w
    BY <1>1, <2>2 DEF Hands, Serving, Alone
  <2> QED  BY <2>1, <2>2
<1> QED
  BY <1>1, <1>2 DEF Hands

LEMMA Leaves ==
  ASSUME Hands, NEW w \in Worker, at[w] # "idle", NEW delete \in BOOLEAN, Leave(w, delete)
  PROVE  Hands' /\ Alone(w) /\ at'[w] \in {"watch", "idle"} /\ deleted' = delete
<1>1. update[w] \in Updates
  BY DEF Hands, Serving
<1>2. deleted' = delete
  BY DEF Leave
<1>3. CASE update[w].form = "text"
  <2>1. at' = [at EXCEPT ![w] = "watch"] /\ update' = [update EXCEPT ![w] = Handed(update[w])]
    BY <1>3 DEF Leave
  <2>2. Handed(update[w]) \in Updates
    <3>1. update[w].from \in Member \cup {Nil}
      BY <1>1, Fields
    <3> QED  BY <3>1 DEF Handed, Updates, Written, Contents
  <2>3. Fits("watch", Handed(update[w])) /\ "watch" \in Places
    BY HandlerPlaces DEF Fits
  <2> QED  BY <1>2, <2>1, <2>2, <2>3, Moves
<1>4. CASE update[w].form # "text"
  <2>1. at' = [at EXCEPT ![w] = "idle"] /\ update' = [update EXCEPT ![w] = Nil]
    BY <1>4 DEF Leave
  <2> QED  BY <1>2, <2>1, HandlerPlaces, Moves
<1> QED
  BY <1>3, <1>4

LEMMA Goes ==
  ASSUME Hands, NEW w \in Worker, at[w] # "idle", NEW place \in {"warn", "ban", "mute"},
         Goto(w, place), UNCHANGED deleted, Fits(place, update[w])
  PROVE  Hands' /\ Alone(w) /\ at'[w] = place /\ update' = update
<1>1. at' = [at EXCEPT ![w] = place] /\ update' = update
  BY DEF Goto
<1>2. update' = [update EXCEPT ![w] = update[w]]
  BY <1>1 DEF Hands
<1>3. update[w] \in Updates /\ place \in Places /\ deleted' \in BOOLEAN
  BY HandlerPlaces DEF Hands, Serving
<1> QED
  BY <1>1, <1>2, <1>3, Moves

-----------------------------------------------------------------------------
(* Where the workers are after a step.                                      *)

\* Only Warn sends a worker to ban, and only Ban takes it away.
Banning ==
  /\ \A v \in Worker : at'[v] = "ban" =>
       /\ update'[v] = update[v]
       /\ at[v] = "ban" \/ (Warn(v) /\ warnings[Who(v)] + 1 >= WarnLimit)
  /\ \A v \in Worker : at[v] = "ban" =>
       Ban(v) \/ (at'[v] = "ban" /\ update'[v] = update[v])

\* No link gets past the handlers of group 0.
Cleaned == \A w \in Worker : Done(w) /\ Forbidden(update[w]) => deleted'

LEMMA HandsKept ==
  ASSUME UNCHANGED <<at, update, deleted>>, Hands
  PROVE  Hands' /\ Banning /\ Cleaned
<1>1. at' = at /\ update' = update /\ deleted' = deleted
  OBVIOUS
<1>2. Serving'
  BY <1>1 DEF Hands, Serving, Fits
<1> QED
  BY <1>1, <1>2 DEF Hands, Banning, Cleaned, Done

\* Neither a handler that is done nor one that goes on to warn or mute bans.
LEMMA NobodyBans ==
  ASSUME NEW w \in Worker, Alone(w), at[w] # "ban", at'[w] # "ban"
  PROVE  Banning
BY DEF Banning, Alone

\* Who is done has deleted the message, had no link in hand, or is not done.
LEMMA CleanedBy ==
  ASSUME NEW w \in Worker, Alone(w),
         \/ at[w] \in {"idle", "watch"} \/ at'[w] \notin {"idle", "watch"}
         \/ deleted' \/ ~Forbidden(update[w])
  PROVE  Cleaned
BY DEF Cleaned, Done, Alone

LEMMA Arrives ==
  ASSUME Hands, NEW w \in Worker, NEW u \in Updates, Message(w, u)
  PROVE  Hands' /\ Banning /\ Cleaned
<1>1. PICK n \in 1 .. 14 : Serves(u) = Registered[n] /\ Fits(Registered[n], u)
  BY ServesWhat
<1>2. /\ at[w] = "idle" /\ at' = [at EXCEPT ![w] = Registered[n]]
      /\ update' = [update EXCEPT ![w] = u] /\ deleted' = deleted
  BY <1>1 DEF Message
<1>3. Registered[n] \in Places /\ deleted' \in BOOLEAN
  BY <1>2, HandlerPlaces DEF Hands
<1>4. Hands' /\ Alone(w) /\ at'[w] = Registered[n]
  BY <1>1, <1>2, <1>3, Moves
<1>5. Registered[n] # "ban"
  BY Order
<1> QED
  BY <1>2, <1>4, <1>5, NobodyBans, CleanedBy

\* A handler that is done with its message.
LEMMA IsDone ==
  ASSUME Hands, NEW w \in Worker, at[w] \notin {"idle", "ban"}, NEW delete \in BOOLEAN,
         Leave(w, delete), delete \/ ~Forbidden(update[w])
  PROVE  Hands' /\ Banning /\ Cleaned
<1>1. Hands' /\ Alone(w) /\ at'[w] \in {"watch", "idle"} /\ deleted' = delete
  BY Leaves
<1> QED
  BY <1>1, NobodyBans, CleanedBy

\* What has no link in it that its handler must see to.
LEMMA Harmless ==
  ASSUME NEW u \in Updates,
         \/ u.form = "notice" \/ u.content = "plain"
         \/ u.form = "caption" /\ (u.kind = "command" \/ u.from = Nil \/ u.content \notin ManagerLinks)
         \/ u.form = "text" /\ u.content \notin BotLinks
  PROVE  ~Forbidden(u)
BY DEF Forbidden, BotLinks, ManagerLinks

\* One step of a handler.
LEMMA Handles ==
  ASSUME Hands, NEW w \in Worker, Serve(w)
  PROVE  Hands' /\ Banning /\ Cleaned
<1> DEFINE u == update[w]
<1>1. at[w] # "idle" => u \in Updates /\ Fits(at[w], u)
  BY DEF Hands, Serving
<1>2. CASE Help(w) \/ Lock(w)
  <2>1. /\ at[w] \in {"group_help_cmd", "group_lock_cmd", "group_unlock_cmd"}
        /\ Leave(w, FALSE)
    BY <1>2 DEF Help, Lock
  <2>2. ~Forbidden(u)
    BY <1>1, <2>1, Harmless DEF Fits
  <2> QED  BY <2>1, <2>2, IsDone
<1>3. CASE Joined(w) \/ Left(w)
  <2>1. /\ at[w] \in {"bot_added_to_group", "group_leave"}
        /\ \E own \in BOOLEAN : Leave(w, own)
    BY <1>3 DEF Joined, Left
  <2>2. ~Forbidden(u)
    BY <1>1, <2>1, Harmless DEF Fits
  <2> QED  BY <2>1, <2>2, IsDone
<1>4. CASE Filter(w)
  <2>1. at[w] = "group_message_filter"
    BY <1>4 DEF Filter
  <2>2. CASE Content(w) \in BotLinks /\ Leave(w, TRUE)
    BY <2>1, <2>2, IsDone
  <2>3. CASE Content(w) \notin BotLinks /\ \E delete \in BOOLEAN : Leave(w, delete)
    <3>1. ~Forbidden(u)
      BY <1>1, <2>1, <2>3, Harmless DEF Fits, Content
    <3> QED  BY <2>1, <2>3, <3>1, IsDone
  <2>4. ASSUME Counted(w)
        PROVE  \E delete \in BOOLEAN : Leave(w, delete)
    <3> DEFINE now == IF recent[Who(w)] = SpamLimit THEN SpamLimit ELSE recent[Who(w)] + 1
    <3>1. Leave(w, now >= SpamLimit)
      BY <2>4 DEF Counted
    <3>2. (now >= SpamLimit) \in BOOLEAN
      OBVIOUS
    <3> HIDE DEF now
    <3> QED  BY <3>1, <3>2
  <2> QED  BY <1>4, <2>2, <2>3, <2>4 DEF Filter
<1>5. CASE Command(w)
  <2>1. at[w] = "ban_user" /\ Leave(w, FALSE)
    BY <1>5 DEF Command
  <2>2. ~Forbidden(u)
    BY <1>1, <2>1, Harmless DEF Fits
  <2> QED  BY <2>1, <2>2, IsDone
<1>6. CASE NoUser(w)
  <2>1. at[w] = "anti_spam_handler" /\ u.from = Nil /\ Leave(w, FALSE)
    BY <1>6 DEF NoUser, Who
  <2>2. ~Forbidden(u)
    BY <1>1, <2>1, Harmless DEF Fits
  <2> QED  BY <2>1, <2>2, IsDone
<1>7. CASE AntiLink(w)
  <2>1. at[w] = "anti_spam_handler" /\ Leave(w, TRUE)
    BY <1>7 DEF AntiLink, Watched
  <2> QED  BY <2>1, IsDone
<1>8. CASE AntiProfanity(w)
  <2>1. at[w] = "anti_spam_handler" /\ u.from # Nil
    BY <1>8 DEF AntiProfanity, Watched, Who
  <2>2. CASE Goto(w, "warn") /\ UNCHANGED deleted
    <3>1. Fits("warn", u)
      BY <1>1, <2>1, Fields DEF Fits
    <3>2. Hands' /\ Alone(w) /\ at'[w] = "warn"
      BY <2>1, <2>2, <3>1, Goes
    <3> QED  BY <2>1, <3>2, NobodyBans, CleanedBy
  <2>3. CASE Leave(w, TRUE)
    BY <2>1, <2>3, IsDone
  <2> QED  BY <1>8, <2>2, <2>3 DEF AntiProfanity
<1>9. CASE Warn(w)
  <2>1. at[w] = "warn"
    BY <1>9 DEF Warn
  <2>2. CASE warnings[Who(w)] + 1 >= WarnLimit
    <3>1. Goto(w, "ban") /\ UNCHANGED deleted
      BY <1>9, <2>2 DEF Warn
    <3>2. Fits("ban", u)
      BY <1>1, <2>1 DEF Fits
    <3>3. Hands' /\ Alone(w) /\ at'[w] = "ban" /\ update' = update
      BY <2>1, <3>1, <3>2, Goes
    <3>4. Banning
      BY <1>9, <2>1, <2>2, <3>3 DEF Banning, Alone
    <3> QED  BY <3>3, <3>4, CleanedBy
  <2>3. CASE ~(warnings[Who(w)] + 1 >= WarnLimit)
    <3>1. Leave(w, TRUE)
      BY <1>9, <2>3 DEF Warn
    <3> QED  BY <2>1, <3>1, IsDone
  <2> QED  BY <2>2, <2>3
<1>10. CASE Ban(w)
  <2>1. at[w] = "ban" /\ Leave(w, TRUE)
    BY <1>10 DEF Ban
  <2>2. Hands' /\ Alone(w) /\ at'[w] \in {"watch", "idle"} /\ deleted' = TRUE
    BY <2>1, Leaves
  <2>3. Banning
    BY <1>10, <2>2 DEF Banning, Alone
  <2> QED  BY <2>2, <2>3, CleanedBy
<1>11. CASE AntiFlood(w)
  <2>1. at[w] = "anti_spam_handler" /\ u.content \notin ManagerLinks /\ u.from # Nil
    BY <1>11 DEF AntiFlood, Watched, Who, Content, ManagerLinks
  <2>2. CASE Goto(w, "mute") /\ UNCHANGED deleted
    <3>1. Fits("mute", u)
      BY <1>1, <2>1, Fields DEF Fits
    <3>2. Hands' /\ Alone(w) /\ at'[w] = "mute"
      BY <2>1, <2>2, <3>1, Goes
    <3> QED  BY <2>1, <3>2, NobodyBans, CleanedBy
  <2>3. CASE Leave(w, FALSE)
    <3>1. ~Forbidden(u)
      BY <1>1, <2>1, Harmless DEF Fits
    <3> QED  BY <2>1, <2>3, <3>1, IsDone
  <2> QED  BY <1>11, <2>2, <2>3 DEF AntiFlood
<1>12. CASE Mute(w)
  <2>1. at[w] = "mute" /\ Leave(w, FALSE)
    BY <1>12 DEF Mute
  <2>2. ~Forbidden(u)
    BY <1>1, <2>1, Harmless DEF Fits
  <2> QED  BY <2>1, <2>2, IsDone
<1>13. CASE Monitor(w)
  <2>1. /\ at[w] = "watch" /\ deleted' = deleted
        /\ at' = [at EXCEPT ![w] = "idle"] /\ update' = [update EXCEPT ![w] = Nil]
    BY <1>13 DEF Monitor
  <2>2. "idle" \in Places /\ deleted' \in BOOLEAN
    BY <2>1, HandlerPlaces DEF Hands
  <2>3. Hands' /\ Alone(w) /\ at'[w] = "idle"
    BY <2>1, <2>2, Moves
  <2> QED  BY <2>1, <2>3, NobodyBans, CleanedBy
<1> QED
  BY <1>2, <1>3, <1>4, <1>5, <1>6, <1>7, <1>8, <1>9, <1>10, <1>11, <1>12, <1>13 DEF Serve

-----------------------------------------------------------------------------
(* What a step does to the members.                                         *)

Tables ==
  /\ standing \in [Member -> {"free", "muted", "restricted", "banned"}] /\ locked \in BOOLEAN
  /\ recent \in [Member -> 0..SpamLimit] /\ burst \in [Member -> Nat] /\ warnings \in [Member -> Nat]
  /\ sworn \in [Member -> Nat] /\ wrote \in 0..MaxMedia /\ failed \subseteq Member

\* Warnings come from words, bans from handlers that are banning; no word and
\* no failure is forgotten.
Effects ==
  /\ \A m \in Member : sworn'[m] >= sworn[m] /\ warnings'[m] <= sworn'[m]
  /\ failed \subseteq failed'
  /\ \A m \in Member : warnings'[m] >= WarnLimit /\ ~(warnings[m] >= WarnLimit) =>
       \E w \in Worker : Warn(w) /\ Who(w) = m /\ warnings[m] + 1 >= WarnLimit
  /\ \A m \in Member : standing'[m] = "banned" /\ standing[m] # "banned" =>
       \E w \in Worker : at[w] = "ban" /\ Who(w) = m

\* What all steps but Warn and Ban have in common.
LEMMA Quiet ==
  ASSUME Tables, WarnedForWords, UNCHANGED <<warnings, sworn, failed>>,
         standing' \in [Member -> {"free", "muted", "restricted", "banned"}],
         \A m \in Member : standing'[m] = "banned" => standing[m] = "banned",
         locked' \in BOOLEAN, recent' \in [Member -> 0 .. SpamLimit],
         burst' \in [Member -> Nat], wrote' \in 0 .. MaxMedia
  PROVE  Tables' /\ Effects
<1>1. warnings' = warnings /\ sworn' = sworn /\ failed' = failed
  OBVIOUS
<1>2. Tables'
  BY <1>1 DEF Tables
<1>3. \A m \in Member : sworn'[m] >= sworn[m] /\ warnings'[m] <= sworn'[m]
  BY <1>1 DEF Tables, WarnedForWords
<1> QED
  BY <1>1, <1>2, <1>3 DEF Effects

\* Restricting or muting, if Telegram allows it, is no ban.
LEMMA NoBan ==
  ASSUME Tables, NEW m \in Member, NEW s \in {"muted", "restricted"},
         Try(m, s) \/ UNCHANGED members
  PROVE  /\ standing' \in [Member -> {"free", "muted", "restricted", "banned"}]
         /\ \A n \in Member : standing'[n] = "banned" => standing[n] = "banned"
         /\ locked' \in BOOLEAN
<1>1. CASE UNCHANGED members
  <2>1. standing' = standing /\ locked' = locked
    BY <1>1 DEF members
  <2> QED  BY <2>1 DEF Tables
<1>2. CASE Put(m, s)
  <2>1. standing' = [standing EXCEPT ![m] = s] /\ locked' = locked
    BY <1>2 DEF Put
  <2> QED  BY <2>1 DEF Tables
<1> QED
  BY <1>1, <1>2 DEF Try

LEMMA TablesKept ==
  ASSUME Tables, WarnedForWords, UNCHANGED <<members, counts, sworn, failed>>,
         wrote' \in 0 .. MaxMedia
  PROVE  Tables' /\ Effects
<1>1. /\ standing' = standing /\ locked' = locked /\ recent' = recent /\ burst' = burst
      /\ warnings' = warnings /\ sworn' = sworn /\ failed' = failed
  BY DEF members, counts
<1>2. /\ standing' \in [Member -> {"free", "muted", "restricted", "banned"}]
      /\ locked' \in BOOLEAN /\ recent' \in [Member -> 0 .. SpamLimit]
      /\ burst' \in [Member -> Nat]
      /\ \A m \in Member : standing'[m] = "banned" => standing[m] = "banned"
  BY <1>1 DEF Tables
<1> QED
  BY <1>1, <1>2, Quiet

LEMMA Warns ==
  ASSUME Tables, WarnedForWords, Serving, NEW w \in Worker, Warn(w)
  PROVE  Tables' /\ Effects
<1>1. at[w] = "warn" /\ Who(w) \in Member
  BY InHand DEF Warn
<1> DEFINE m == Who(w)
<1>2. /\ sworn' = [sworn EXCEPT ![m] = sworn[m] + 1]
      /\ warnings' = [warnings EXCEPT ![m] = warnings[m] + 1]
      /\ standing' = standing /\ locked' = locked /\ recent' = recent /\ burst' = burst
      /\ wrote' = wrote /\ failed' = failed
  BY DEF Warn, members
<1>3. m \in Member
  BY <1>1
<1>4. \A n \in Member :
        /\ sworn[n] \in Nat /\ warnings[n] \in Nat /\ warnings[n] <= sworn[n]
        /\ sworn'[n] = IF n = m THEN sworn[n] + 1 ELSE sworn[n]
        /\ warnings'[n] = IF n = m THEN warnings[n] + 1 ELSE warnings[n]
  BY <1>2, <1>3 DEF Tables, WarnedForWords
<1>5. Tables'
  BY <1>2, <1>3, <1>4 DEF Tables
<1>6. \A n \in Member : sworn'[n] >= sworn[n] /\ warnings'[n] <= sworn'[n]
  BY <1>4
<1>7. \A n \in Member : warnings'[n] >= WarnLimit /\ ~(warnings[n] >= WarnLimit) =>
        n = m /\ warnings[n] + 1 >= WarnLimit
  BY <1>4
<1> QED
  BY <1>2, <1>5, <1>6, <1>7 DEF Effects

LEMMA Bans ==
  ASSUME Tables, WarnedForWords, Serving, NEW w \in Worker, Ban(w)
  PROVE  /\ Tables' /\ Effects
         /\ Who(w) \in failed' \/ warnings'[Who(w)] = 0
<1>1. at[w] = "ban" /\ Who(w) \in Member
  BY InHand DEF Ban
<1> DEFINE m == Who(w)
<1>2. /\ recent' = recent /\ burst' = burst /\ sworn' = sworn /\ wrote' = wrote
  BY DEF Ban
<1>3. locked' = locked /\ standing' \in {standing, [standing EXCEPT ![m] = "banned"]}
  BY DEF Ban, Put, Try, members
<1>4. \/ warnings' = [warnings EXCEPT ![m] = 0] /\ failed' = failed
      \/ warnings' = warnings /\ failed' = failed \cup {m}
  BY DEF Ban
<1>5. m \in Member
  BY <1>1
<1>6. \A n \in Member : sworn[n] \in Nat /\ warnings[n] \in Nat /\ warnings[n] <= sworn[n]
  BY DEF Tables, WarnedForWords
<1>7. \A n \in Member : warnings'[n] \in {0, warnings[n]}
  BY <1>4, <1>5 DEF Tables
<1>8. \A n \in Member : sworn'[n] >= sworn[n] /\ warnings'[n] <= sworn'[n]
  BY <1>2, <1>6, <1>7
<1>9. \A n \in Member : ~(warnings'[n] >= WarnLimit /\ ~(warnings[n] >= WarnLimit))
  BY <1>7, Limits
<1>10. \A n \in Member : standing'[n] = "banned" /\ standing[n] # "banned" => n = m
  BY <1>3 DEF Tables
<1>11. Tables'
  BY <1>2, <1>3, <1>4, <1>5 DEF Tables
<1>12. m \in failed' \/ warnings'[m] = 0
  BY <1>4, <1>5 DEF Tables
<1> QED
  BY <1>1, <1>4, <1>8, <1>9, <1>10, <1>11, <1>12 DEF Effects

LEMMA HandlerEffects ==
  ASSUME Tables, WarnedForWords, Serving, NEW w \in Worker, Serve(w)
  PROVE  Tables' /\ Effects
<1>1. wrote \in 0 .. MaxMedia
  BY DEF Tables
<1>2. CASE \/ Help(w) \/ Joined(w) \/ Left(w) \/ Command(w) \/ NoUser(w)
           \/ AntiLink(w) \/ AntiProfanity(w)
  <2>1. UNCHANGED <<members, counts, history>>
    BY <1>2 DEF Help, Joined, Left, Command, NoUser, AntiLink, AntiProfanity
  <2>2. UNCHANGED <<members, counts, sworn, failed>> /\ wrote' \in 0 .. MaxMedia
    BY <1>1, <2>1 DEF history
  <2> QED  BY <2>2, TablesKept
<1>3. CASE Lock(w)
  <2>1. /\ standing' = standing /\ recent' = recent /\ burst' = burst
        /\ UNCHANGED <<warnings, sworn, failed>> /\ wrote' = wrote
        /\ locked' \in {locked, at[w] = "group_lock_cmd"}
    BY <1>3 DEF Lock, counts, history
  <2>2. locked' \in BOOLEAN
    BY <2>1 DEF Tables
  <2>3. /\ standing' \in [Member -> {"free", "muted", "restricted", "banned"}]
        /\ \A n \in Member : standing'[n] = "banned" => standing[n] = "banned"
        /\ recent' \in [Member -> 0 .. SpamLimit] /\ burst' \in [Member -> Nat]
        /\ wrote' \in 0 .. MaxMedia
    BY <2>1 DEF Tables
  <2> QED  BY <2>1, <2>2, <2>3, Quiet
<1>4. CASE Filter(w)
  <2>1. at[w] # "idle"
    BY <1>4 DEF Filter
  <2>2. /\ standing' = standing /\ locked' = locked /\ burst' = burst
        /\ UNCHANGED <<warnings, sworn, failed>> /\ wrote' = wrote
    BY <1>4 DEF Filter, members, history
  <2>3. \/ recent' = recent
        \/ /\ Who(w) # Nil
           /\ recent' = [recent EXCEPT ![Who(w)] =
                IF recent[Who(w)] = SpamLimit THEN SpamLimit ELSE recent[Who(w)] + 1]
    BY <1>4 DEF Filter, Counted
  <2>4. Who(w) # Nil => Who(w) \in Member
    BY <2>1, InHand
  <2>5. recent' \in [Member -> 0..SpamLimit]
    BY <2>3, <2>4, Limits DEF Tables
  <2>6. /\ standing' \in [Member -> {"free", "muted", "restricted", "banned"}]
        /\ \A n \in Member : standing'[n] = "banned" => standing[n] = "banned"
        /\ locked' \in BOOLEAN /\ burst' \in [Member -> Nat] /\ wrote' \in 0 .. MaxMedia
    BY <2>2 DEF Tables
  <2> QED  BY <2>2, <2>5, <2>6, Quiet
<1>5. CASE Warn(w)
  BY <1>5, Warns
<1>6. CASE Ban(w)
  BY <1>6, Bans
<1>7. CASE AntiFlood(w)
  <2>1. at[w] # "idle" /\ Who(w) # Nil
    BY <1>7 DEF AntiFlood, Watched
  <2>2. Who(w) \in Member
    BY <2>1, InHand
  <2>3. /\ standing' = standing /\ locked' = locked /\ recent' = recent
        /\ UNCHANGED <<warnings, sworn, failed>> /\ wrote' = wrote
        /\ burst' = [burst EXCEPT ![Who(w)] = burst[Who(w)] + 1]
    BY <1>7 DEF AntiFlood, members, history
  <2>4. burst' \in [Member -> Nat]
    BY <2>2, <2>3 DEF Tables
  <2>5. /\ standing' \in [Member -> {"free", "muted", "restricted", "banned"}]
        /\ \A n \in Member : standing'[n] = "banned" => standing[n] = "banned"
        /\ locked' \in BOOLEAN /\ recent' \in [Member -> 0 .. SpamLimit]
        /\ wrote' \in 0 .. MaxMedia
    BY <2>3 DEF Tables
  <2> QED  BY <2>3, <2>4, <2>5, Quiet
<1>8. CASE Mute(w)
  <2>1. at[w] = "mute" /\ Try(Who(w), "muted")
    BY <1>8 DEF Mute
  <2>2. Who(w) \in Member
    BY <2>1, InHand
  <2>3. /\ recent' = recent /\ UNCHANGED <<warnings, sworn, failed>> /\ wrote' = wrote
        /\ burst' = [burst EXCEPT ![Who(w)] = 0]
    BY <1>8 DEF Mute, history
  <2>4. /\ recent' \in [Member -> 0 .. SpamLimit] /\ burst' \in [Member -> Nat]
        /\ wrote' \in 0 .. MaxMedia
    BY <2>2, <2>3 DEF Tables
  <2>5. /\ standing' \in [Member -> {"free", "muted", "restricted", "banned"}]
        /\ \A n \in Member : standing'[n] = "banned" => standing[n] = "banned"
        /\ locked' \in BOOLEAN
    BY <2>1, <2>2, NoBan
  <2> QED  BY <2>3, <2>4, <2>5, Quiet
<1>9. CASE Monitor(w)
  <2>1. /\ at[w] # "idle" /\ UNCHANGED <<counts, history>>
        /\ (Who(w) \in Suspect /\ Try(Who(w), "restricted")) \/ UNCHANGED members
    BY <1>9 DEF Monitor
  <2>2. Suspect \subseteq Member
    BY GroupsAssumption
  <2>3. /\ recent' = recent /\ burst' = burst /\ UNCHANGED <<warnings, sworn, failed>>
        /\ wrote' = wrote
    BY <2>1 DEF counts, history
  <2>4. /\ recent' \in [Member -> 0 .. SpamLimit] /\ burst' \in [Member -> Nat]
        /\ wrote' \in 0 .. MaxMedia
    BY <2>3 DEF Tables
  <2>5. /\ standing' \in [Member -> {"free", "muted", "restricted", "banned"}]
        /\ \A n \in Member : standing'[n] = "banned" => standing[n] = "banned"
        /\ locked' \in BOOLEAN
    <3>1. CASE Who(w) \in Suspect /\ Try(Who(w), "restricted")
      BY <2>2, <3>1, NoBan
    <3>2. CASE UNCHANGED members
      BY <3>2 DEF members, Tables
    <3> QED  BY <2>1, <3>1, <3>2
  <2> QED  BY <2>3, <2>4, <2>5, Quiet
<1> QED
  BY <1>2, <1>3, <1>4, <1>5, <1>6, <1>7, <1>8, <1>9 DEF Serve

\* Time, for a member: a message leaves its window, or a mute ends.
LEMMA TimeEffects ==
  ASSUME Tables, WarnedForWords, NEW m \in Member, Tick(m) \/ MuteEnds(m)
  PROVE  UNCHANGED <<at, update, deleted>> /\ Tables' /\ Effects
<1>1. CASE Tick(m)
  <2>1. /\ UNCHANGED <<at, update, deleted, warnings, sworn, failed>>
        /\ standing' = standing /\ locked' = locked /\ wrote' = wrote
    BY <1>1 DEF Tick, members, history
  <2>2. \/ recent[m] > 0 /\ recent' = [recent EXCEPT ![m] = recent[m] - 1] /\ burst' = burst
        \/ burst[m] > 0 /\ burst' = [burst EXCEPT ![m] = burst[m] - 1] /\ recent' = recent
    BY <1>1 DEF Tick
  <2>3. recent' \in [Member -> 0 .. SpamLimit] /\ burst' \in [Member -> Nat]
    BY <2>2, Limits DEF Tables
  <2>4. /\ standing' \in [Member -> {"free", "muted", "restricted", "banned"}]
        /\ \A n \in Member : standing'[n] = "banned" => standing[n] = "banned"
        /\ locked' \in BOOLEAN /\ wrote' \in 0 .. MaxMedia
    BY <2>1 DEF Tables
  <2> QED  BY <2>1, <2>3, <2>4, Quiet
<1>2. CASE MuteEnds(m)
  <2>1. /\ UNCHANGED <<at, update, deleted, warnings, sworn, failed>>
        /\ locked' = locked /\ recent' = recent /\ burst' = burst /\ wrote' = wrote
        /\ standing' = [standing EXCEPT ![m] = "free"]
    BY <1>2 DEF MuteEnds, counts, history
  <2>2. /\ standing' \in [Member -> {"free", "muted", "restricted", "banned"}]
        /\ \A n \in Member : standing'[n] = "banned" => standing[n] = "banned"
        /\ locked' \in BOOLEAN /\ recent' \in [Member -> 0 .. SpamLimit]
        /\ burst' \in [Member -> Nat] /\ wrote' \in 0 .. MaxMedia
    BY <2>1 DEF Tables
  <2> QED  BY <2>1, <2>2, Quiet
<1> QED
  BY <1>1, <1>2

LEMMA MessageEffects ==
  ASSUME Tables, WarnedForWords, NEW w \in Worker, NEW u \in Updates, Message(w, u)
  PROVE  Tables' /\ Effects
<1>1. UNCHANGED <<members, counts, sworn, failed>>
  BY DEF Message
<1>2. wrote' = wrote \/ (wrote < MaxMedia /\ wrote' = wrote + 1)
  BY DEF Message
<1>3. wrote' \in 0 .. MaxMedia
  BY <1>2, Limits DEF Tables
<1> QED
  BY <1>1, <1>3, TablesKept

-----------------------------------------------------------------------------
(* The inductive invariant.                                                 *)

LEMMA Parts == TypeOK /\ Serving <=> Hands /\ Tables
BY DEF TypeOK, Hands, Tables

LEMMA InitGInv == Init => GInv
<1> SUFFICES ASSUME Init
             PROVE  GInv
  OBVIOUS
<1>1. /\ at = [w \in Worker |-> "idle"] /\ update = [w \in Worker |-> Nil]
      /\ standing = [m \in Member |-> "free"] /\ locked = FALSE
      /\ recent = [m \in Member |-> 0] /\ burst = [m \in Member |-> 0]
      /\ warnings = [m \in Member |-> 0] /\ sworn = [m \in Member |-> 0]
      /\ wrote = 0 /\ failed = {} /\ deleted = FALSE
  BY DEF Init
<1>2. Hands
  BY <1>1, HandlerPlaces DEF Hands, Serving
<1>3. Tables
  <2>1. 0 \in 0 .. SpamLimit /\ 0 \in 0 .. MaxMedia
    BY Limits
  <2>2. recent \in [Member -> 0 .. SpamLimit]
    BY <1>1, <2>1
  <2>3. burst \in [Member -> Nat] /\ warnings \in [Member -> Nat] /\ sworn \in [Member -> Nat]
    BY <1>1
  <2> QED
    BY <1>1, <2>1, <2>2, <2>3 DEF Tables
<1>4. LimitMeansBan
  BY <1>1, Limits DEF LimitMeansBan
<1>5. WarnedForWords /\ BeingBanned /\ BanEarned
  BY <1>1 DEF WarnedForWords, BeingBanned, BanEarned
<1> QED
  BY <1>2, <1>3, <1>4, <1>5, Parts DEF GInv

LEMMA Steps ==
  ASSUME Hands, Tables, WarnedForWords, [Next]_vars
  PROVE  Hands' /\ Banning /\ Cleaned /\ Tables' /\ Effects
<1>1. Serving
  BY DEF Hands
<1>2. CASE \E w \in Worker : Serve(w)
  BY <1>1, <1>2, Handles, HandlerEffects
<1>3. CASE \E w \in Worker, u \in Updates : Message(w, u)
  BY <1>3, Arrives, MessageEffects
<1>4. CASE \E m \in Member : Tick(m) \/ MuteEnds(m)
  BY <1>4, TimeEffects, HandsKept
<1>5. CASE UNCHANGED vars
  <2>1. UNCHANGED <<at, update, deleted>> /\ UNCHANGED <<members, counts, sworn, failed>>
    BY <1>5 DEF vars, members, counts
  <2>2. wrote' \in 0 .. MaxMedia
    BY <1>5 DEF vars, Tables
  <2> QED  BY <2>1, <2>2, HandsKept, TablesKept
<1> QED
  BY <1>2, <1>3, <1>4, <1>5 DEF Next

\* A worker that reaches ban because of a member deleted there until the ban has
\* been tried, and what comes of it is either written down or a fresh count.
LEMMA LimitStep ==
  ASSUME Hands, Tables, WarnedForWords, LimitMeansBan, Banning, Effects
  PROVE  LimitMeansBan'
<1> SUFFICES ASSUME NEW m \in Member, warnings'[m] >= WarnLimit, m \notin failed'
             PROVE  \E w \in Worker : at'[w] = "ban" /\ update'[w].from = m
  BY DEF LimitMeansBan, Who
<1>1. m \notin failed
  BY DEF Effects
<1>2. CASE warnings[m] >= WarnLimit
  <2>1. PICK w \in Worker : at[w] = "ban" /\ Who(w) = m
    BY <1>1, <1>2 DEF LimitMeansBan
  <2>2. ~Ban(w)
    <3> SUFFICES ASSUME Ban(w)
                 PROVE  FALSE
      OBVIOUS
    <3>1. Who(w) \in failed' \/ warnings'[Who(w)] = 0
      BY Bans DEF Hands
    <3>2. m \in failed' \/ warnings'[m] = 0
      BY <2>1, <3>1
    <3> QED
      BY <3>2, Limits
  <2> QED
    BY <2>1, <2>2 DEF Banning, Who
<1>3. CASE ~(warnings[m] >= WarnLimit)
  <2>1. PICK w \in Worker : Warn(w) /\ Who(w) = m /\ warnings[m] + 1 >= WarnLimit
    BY <1>3 DEF Effects
  <2>2. Goto(w, "ban") /\ UNCHANGED deleted /\ at[w] # "idle"
    BY <2>1 DEF Warn
  <2>3. at'[w] = "ban" /\ update' = update
    BY <2>2 DEF Goto, Hands
  <2> QED
    BY <2>1, <2>3 DEF Who
<1> QED
  BY <1>2, <1>3

\* The warning that starts a ban is one of as many words.
LEMMA EarnedStep ==
  ASSUME Hands, Tables, WarnedForWords, BeingBanned, BanEarned, Banning, Effects, Tables'
  PROVE  WarnedForWords' /\ BeingBanned' /\ BanEarned'
<1>1. \A m \in Member :
        /\ sworn[m] \in Nat /\ sworn'[m] \in Nat /\ warnings[m] \in Nat
        /\ warnings[m] <= sworn[m] /\ sworn'[m] >= sworn[m]
  BY DEF Tables, WarnedForWords, Effects
<1>2. WarnedForWords'
  BY DEF Effects, WarnedForWords
<1>3. BeingBanned'
  <2> SUFFICES ASSUME NEW w \in Worker, at'[w] = "ban"
               PROVE  sworn'[update'[w].from] >= WarnLimit
    BY DEF BeingBanned, Who
  <2>1. /\ update'[w] = update[w]
        /\ at[w] = "ban" \/ (Warn(w) /\ warnings[Who(w)] + 1 >= WarnLimit)
    BY DEF Banning
  <2>2. at[w] \in {"ban", "warn"}
    BY <2>1 DEF Warn
  <2>3. Who(w) \in Member
    BY <2>2, InHand DEF Hands
  <2>4. CASE at[w] = "ban"
    <3>1. sworn[Who(w)] >= WarnLimit
      BY <2>4 DEF BeingBanned
    <3>2. sworn'[Who(w)] >= WarnLimit
      BY <1>1, <2>3, <3>1, Limits
    <3> QED  BY <2>1, <3>2 DEF Who
  <2>5. CASE Warn(w) /\ warnings[Who(w)] + 1 >= WarnLimit
    <3>1. sworn' = [sworn EXCEPT ![Who(w)] = sworn[Who(w)] + 1]
      BY <2>5 DEF Warn
    <3>2. sworn'[Who(w)] = sworn[Who(w)] + 1
      BY <2>3, <3>1 DEF Tables
    <3>3. sworn'[Who(w)] >= WarnLimit
      BY <1>1, <2>3, <2>5, <3>2, Limits
    <3> QED  BY <2>1, <3>3 DEF Who
  <2> QED
    BY <2>1, <2>4, <2>5
<1>4. BanEarned'
  <2> SUFFICES ASSUME NEW m \in Member, standing'[m] = "banned"
               PROVE  sworn'[m] >= WarnLimit
    BY DEF BanEarned
  <2>1. sworn[m] >= WarnLimit
    BY DEF BanEarned, BeingBanned, Effects
  <2> QED
    BY <1>1, <2>1, Limits
<1> QED
  BY <1>2, <1>3, <1>4

LEMMA NextGInv == GInv /\ [Next]_vars => GInv'
<1> SUFFICES ASSUME GInv, [Next]_vars
             PROVE  GInv'
  OBVIOUS
<1>1. /\ Hands /\ Tables /\ LimitMeansBan
      /\ WarnedForWords /\ BeingBanned /\ BanEarned
  BY Parts DEF GInv
<1>2. Hands' /\ Banning /\ Tables' /\ Effects
  BY <1>1, Steps
<1>3. LimitMeansBan'
  BY <1>1, <1>2, LimitStep
<1>4. WarnedForWords' /\ BeingBanned' /\ BanEarned'
  BY <1>1, <1>2, EarnedStep
<1>5. (TypeOK /\ Serving)'
  BY <1>2 DEF TypeOK, Hands, Tables
<1> QED
  BY <1>3, <1>4, <1>5 DEF GInv

LEMMA Invariance == Spec => []GInv
BY InitGInv, NextGInv, PTL DEF Spec

-----------------------------------------------------------------------------
(* What the group may rely on, for any members and workers.                 *)

\* The tables of the handlers keep their types: no window of messages grows
\* beyond the limit of spam, and a handler at work has its update.
THEOREM TypeCorrect == Spec => []TypeOK
BY Invariance, PTL DEF GInv

\* A text with a link that bot.py knows, and a user's caption with one that
\* group_manager knows and no command, are deleted by the handler of group 0 that
\* serves them: no other of the fourteen comes before it, and it looks for the link
\* before it counts.
THEOREM LinksAlwaysGo == Spec => LinksGo
<1>1. GInv /\ [Next]_vars => [\A w \in Worker : Done(w) /\ Forbidden(update[w]) => deleted']_vars
  <2> SUFFICES ASSUME GInv, [Next]_vars
               PROVE  Cleaned
    BY DEF Cleaned
  <2> QED
    BY Parts, Steps DEF GInv
<1> QED
  BY <1>1, Invariance, PTL DEF Spec, LinksGo

\* A member who has reached the limit of warnings is being banned by some
\* worker, or a call about them failed: once a message is deleted,
\* anti_spam_handler counts it and compares the count without being suspended,
\* so handlers that serve one member at the same time cannot pass the limit.
THEOREM LimitsBan == Spec => []LimitMeansBan
BY Invariance, PTL DEF GInv

\* Whoever is banned had as many forbidden words removed as the limit says.
THEOREM BansAreEarned == Spec => []BanEarned
BY Invariance, PTL DEF GInv
=============================================================================
