------------------------------ MODULE Scraping ------------------------------
(***************************************************************************)
(* Reading the members of chats into the list of members (scraped_users).   *)
(*                                                                         *)
(*   attack  run_full_scrape for the attack menu and its retry              *)
(*   finder  run_full_scrape from the group finder                          *)
(*   bulk    scan_all_chats, every group or every channel of the account     *)
(*   web     run_full_scrape for the mini-app                               *)
(*   auto    run_one_scan, started by bg_loop                               *)
(*   par     one worker of parallel_scrape                                  *)
(*                                                                         *)
(* A scrape is a sequence of phases; each reads one source of people and may  *)
(* end, be stopped or break at any member.  What has been found is kept in   *)
(* the scraper object and is only stored by what the phases and their caller  *)
(* save.  An attack, a finder or a bulk scan runs on the scraper object of     *)
(* the attack menu, which nothing keeps from serving two of them at once.      *)
(* The workers of a parallel scrape share a dictionary; it has the place of     *)
(* the scraper object here.                                                  *)
(***************************************************************************)
EXTENDS Naturals, FiniteSets, Sequences, SequencesExt

CONSTANTS
  User, Chat,
  Scraper,    \* scraper objects, each used for one connection
  Job,
  Absent,     \* nowhere
  Unsourced,  \* the source of those a bulk scan stores, group 0
  Every,      \* finds of add_user between two saves, 100 in the code
  SaveAfter,  \* chats of a bulk scan between two saves, 3 in the code
  BulkChats,  \* bound: chats of a bulk scan
  MaxFaults   \* bound: statements of a save that fail unheard

ASSUME ScrapingAssumption ==
  /\ Absent \notin Chat /\ Unsourced \notin Chat \cup {Absent}
  /\ Every \in Nat \ {0} /\ SaveAfter \in Nat \ {0} /\ BulkChats \in Nat
  /\ MaxFaults \in Nat /\ IsFiniteSet(Job)

Kinds == {"attack", "finder", "bulk", "web", "auto", "par"}
Menu == {"attack", "finder", "bulk"}

VARIABLES
  members,   \* scraped_users: the source of each, Absent if not stored
  dna,       \* do_not_add_tbl
  object,    \* of a scraper: "new", "open" if the attack menu knows it,
             \* "dropped" if it is connected and the menu does not, "closed"
  found,     \* found_users; as history, the chat where each was found
  existing,  \* _existing_user_ids
  count,     \* _last_progress_val % Every
  stop,      \* _stop_requested
  kind, chat, on,
  plan,      \* the phases a job has still to run
  st,        \* "idle", "resolve", "run", "save", "done" or "failed"
  mixed,     \* history: a scraper has served two jobs, or the list was emptied
             \* under a parallel scrape
  faults

store == <<members, dna>>
scraper == <<object, found, existing, count, stop, mixed>>
job == <<kind, chat, on, plan, st>>
scrapingVars == <<store, scraper, job, faults>>

-----------------------------------------------------------------------------
(* Phases, by name.                                                         *)

FullScrape(channel) ==
  IF channel THEN <<"posts", "reactions", "list">> ELSE <<"list", "history", "joins">>

\* The auto scan and the parallel scrape have phases of their own.
AutoScan(channel) ==
  IF channel THEN <<"auto_posts", "auto_list">>
  ELSE <<"auto_alphabet", "auto_history", "auto_joins", "auto_reactions">>

Strategies == <<"alphabet", "par_history", "new_members", "groups_in_common", "recent_active">>

Phases == {"list", "history", "joins", "posts", "reactions", "deep"}

\* Phases that call add_user, with its saves; the others write found_users.
CallAddUser == {"posts", "reactions", "deep"}
\* Phases whose errors nobody catches: they end the scrape.
Fatal == {"posts", "reactions", "history", "joins"}
\* Phases that look at the stop flag, and skip whom the list has already.
Heeds(p) == p \in Phases
\* Both read the attribute _stop_requested of a self that is not there.
Void == {"alphabet", "groups_in_common"}

\* The strategies of worker i, from 0, of n.
ShareOf(i, n) ==
  LET mine == {s \in 1 .. Len(Strategies) : (s - 1) % n = i % n}
  IN  IF mine = {} THEN <<Strategies[(i % Len(Strategies)) + 1]>>
      ELSE [k \in 1 .. Cardinality(mine) |->
              Strategies[CHOOSE s \in mine : Cardinality({t \in mine : t < s}) = k - 1]]

BulkScan == [p \in 1 .. 2 * BulkChats |-> IF p % 2 = 1 THEN "list" ELSE "deep"]

Plans(k) ==
  IF k \in {"attack", "finder", "web"} THEN {FullScrape(c) : c \in BOOLEAN}
  ELSE IF k = "auto" THEN {AutoScan(c) : c \in BOOLEAN}
  ELSE {BulkScan}

-----------------------------------------------------------------------------
ScrapingTypeOK ==
  /\ members \in [User -> Chat \cup {Absent, Unsourced}] /\ dna \subseteq User
  /\ object \in [Scraper -> {"new", "open", "dropped", "closed"}]
  /\ found \in [Scraper -> [User -> Chat \cup {Absent, Unsourced}]]
  /\ existing \in [Scraper -> SUBSET User]
  /\ count \in [Scraper -> 0 .. Every - 1] /\ stop \in [Scraper -> BOOLEAN]
  /\ mixed \in BOOLEAN
  /\ kind \in [Job -> Kinds \cup {"none"}] /\ chat \in [Job -> Chat \cup {Absent}]
  /\ on \in [Job -> Scraper \cup {Absent}]
  /\ st \in [Job -> {"idle", "resolve", "run", "save", "done", "failed"}]
  /\ faults \in 0 .. MaxFaults

Nothing == [u \in User |-> Absent]

ScrapingInit ==
  /\ members = [u \in User |-> Absent] /\ dna = {}
  /\ object = [s \in Scraper |-> "new"]
  /\ found = [s \in Scraper |-> Nothing]
  /\ existing = [s \in Scraper |-> {}]
  /\ count = [s \in Scraper |-> 0] /\ stop = [s \in Scraper |-> FALSE]
  /\ mixed = FALSE
  /\ kind = [j \in Job |-> "none"] /\ chat = [j \in Job |-> Absent]
  /\ on = [j \in Job |-> Absent]
  /\ plan = [j \in Job |-> <<>>] /\ st = [j \in Job |-> "idle"]
  /\ faults = 0

Stored == {u \in User : members[u] # Absent}
Found(s) == {u \in User : found[s][u] # Absent}
Running(j) == st[j] \in {"resolve", "run", "save"}
Connected(s) == object[s] \in {"open", "dropped"}
Source(j) == IF kind[j] = "bulk" THEN Unsourced ELSE chat[j]

Fault == faults < MaxFaults /\ faults' = faults + 1

\* Mutant of Kept: the people who must not be added are stored again.
Kept_Any(U) == U

\* bulk_save_users leaves them out, and those of added_history_tbl: dna stands
\* for both.  save_scraped does too, by a set that may
\* be two minutes old and leaves out nobody whom the query does not.
Kept(U) == U \ dna

\* Mutant of Insert: the row is written anew, its source as well.
Insert_Anew(U, c) ==
  members' = [u \in User |-> IF u \in U THEN c ELSE members[u]]

\* Who is stored already keeps his source (ON CONFLICT).
Insert(U, c) ==
  members' = [u \in User |-> IF members[u] = Absent /\ u \in U THEN c ELSE members[u]]

\* Storing U.  An error of the two queries of the filter, or of the insertion,
\* is logged and nobody hears of it.
Save(U, c) ==
  \/ Insert(Kept(U), c) /\ UNCHANGED faults
  \/ Insert(U, c) /\ Fault
  \/ UNCHANGED members /\ Fault

-----------------------------------------------------------------------------
\* The jobs J end, all on the scraper s.  What it holds is gone with them, unless
\* the menu still knows it or another job runs on it.
EndJobs(J, s, end) ==
  /\ st' = [j \in Job |-> IF j \in J THEN end ELSE st[j]]
  /\ kind' = [j \in Job |-> IF j \in J THEN "none" ELSE kind[j]]
  /\ chat' = [j \in Job |-> IF j \in J THEN Absent ELSE chat[j]]
  /\ on' = [j \in Job |-> IF j \in J THEN Absent ELSE on[j]]
  /\ plan' = [j \in Job |-> IF j \in J THEN <<>> ELSE plan[j]]
  /\ IF object'[s] = "open" \/ \E j \in Job \ J : Running(j) /\ on[j] = s
     THEN UNCHANGED <<found, existing, count, stop>>
     ELSE /\ found' = [found EXCEPT ![s] = Nothing] /\ existing' = [existing EXCEPT ![s] = {}]
          /\ count' = [count EXCEPT ![s] = 0] /\ stop' = [stop EXCEPT ![s] = FALSE]

(* Beginnings.                                                              *)

Begin(j, k, c, s, phases) ==
  /\ st[j] = "idle"
  /\ kind' = [kind EXCEPT ![j] = k] /\ chat' = [chat EXCEPT ![j] = c]
  /\ on' = [on EXCEPT ![j] = s] /\ plan' = [plan EXCEPT ![j] = phases]
  /\ object' = [object EXCEPT ![s] = IF k \in Menu THEN "open" ELSE "dropped"]

\* A scraper of its own, or from the attack menu the one that it knows.
Serves(k, s) == object[s] = "new" \/ (object[s] = "open" /\ k \in Menu)

Opened(j, k, c, s, phases) ==
  /\ phases \in Plans(k) /\ Serves(k, s) /\ Begin(j, k, c, s, phases)
  /\ st' = [st EXCEPT ![j] = "resolve"]
  /\ mixed' = (mixed \/ object[s] = "open")
  /\ UNCHANGED <<store, found, count, stop, faults>>

\* run_full_scrape and scan_all_chats up to their first await.  Only the former
\* reads who is stored already, and an error of that query is taken for nobody.
Start(j, k, c, s, phases) ==
  /\ k \notin {"par", "auto"} /\ Opened(j, k, c, s, phases)
  /\ IF k = "bulk" THEN UNCHANGED existing
     ELSE existing' \in {[existing EXCEPT ![s] = got] : got \in {Stored, {}}}

\* bg_loop awaits one scan before it begins another.
StartAuto(j, c, s, phases) ==
  /\ \A i \in Job : Running(i) => kind[i] # "auto"
  /\ Opened(j, "auto", c, s, phases) /\ UNCHANGED existing

\* parallel_scrape: the dictionary begins as the stored list, or empty if that
\* cannot be read, and the strategies
\* go round among the accounts.
StartParallel(crew, c, s) ==
  /\ object[s] = "new" /\ \A j \in Range(crew) : st[j] = "idle"
  /\ LET worker(j) == CHOOSE i \in DOMAIN crew : crew[i] = j
         Put(f, v(_)) == [j \in Job |-> IF j \in Range(crew) THEN v(j) ELSE f[j]]
     IN  /\ kind' = Put(kind, LAMBDA j : "par") /\ chat' = Put(chat, LAMBDA j : c)
         /\ on' = Put(on, LAMBDA j : s) /\ st' = Put(st, LAMBDA j : "resolve")
         /\ plan' = Put(plan, LAMBDA j : ShareOf(worker(j) - 1, Len(crew)))
  /\ object' = [object EXCEPT ![s] = "dropped"]
  /\ found' \in {found, [found EXCEPT ![s] = members]}
  /\ UNCHANGED <<store, existing, count, stop, mixed, faults>>

\* The target is found, or the chats of a bulk scan are.
Resolve(j) ==
  /\ st[j] = "resolve" /\ Connected(on[j])
  /\ st' = [st EXCEPT ![j] = "run"]
  /\ UNCHANGED <<store, scraper, kind, chat, on, plan, faults>>

\* What a failed job makes of its scraper: the attack menu forgets it, the bulk
\* and the automatic scan disconnect it, the finder keeps it.
Left(j) ==
  CASE kind[j] = "attack" /\ object[on[j]] = "open" -> [object EXCEPT ![on[j]] = "dropped"]
    [] kind[j] \in {"bulk", "auto"} -> [object EXCEPT ![on[j]] = "closed"]
    [] OTHER -> object

\* No session, no connection or no such chat.  A worker of a parallel scrape
\* ends, and the others go on.
Unreachable(j) ==
  /\ st[j] = "resolve" /\ object' = Left(j)
  /\ IF kind[j] # "par" THEN EndJobs({j}, on[j], "failed")
     ELSE /\ st' = [st EXCEPT ![j] = "save"] /\ plan' = [plan EXCEPT ![j] = <<>>]
          /\ UNCHANGED <<found, existing, count, stop, kind, chat, on>>
  /\ UNCHANGED <<store, mixed, faults>>

-----------------------------------------------------------------------------
(* Phases at work.                                                          *)

Working(j) == st[j] = "run" /\ plan[j] # <<>>

\* The save a find brings with it: every Every-th, if the phase calls add_user
\* and the job has a callback that saves.
SaveOnFind(j, u) ==
  LET s == on[j] IN
  IF Head(plan[j]) \notin CallAddUser THEN UNCHANGED <<count, members, faults>>
  ELSE /\ count' = [count EXCEPT ![s] = (@ + 1) % Every]
       /\ IF count'[s] = 0 /\ kind[j] \in Menu
          THEN Save(Found(s) \cup {u}, Source(j)) ELSE UNCHANGED <<members, faults>>

Find(j, u) ==
  LET s == on[j] p == Head(plan[j]) IN
  /\ Working(j) /\ Connected(s) /\ p \notin Void
  /\ Heeds(p) => ~stop[s]
  /\ found[s][u] = Absent /\ (Heeds(p) => u \notin existing[s])
  /\ found' = [found EXCEPT ![s][u] = Source(j)]
  /\ SaveOnFind(j, u)
  /\ UNCHANGED <<dna, object, existing, stop, mixed, job>>

\* A person who reacted but cannot be looked up is noted by number, whether
\* stored before or not, and without a save.
FindReactor(j, u) ==
  LET s == on[j] IN
  /\ Working(j) /\ Connected(s) /\ Head(plan[j]) \in {"posts", "reactions"}
  /\ ~stop[s]
  /\ found[s][u] = Absent /\ u \in existing[s]
  /\ found' = [found EXCEPT ![s][u] = Source(j)]
  /\ UNCHANGED <<store, object, existing, count, stop, mixed, job, faults>>

\* A phase is over: at its end, at the stop flag, at a flood wait or at an error
\* that is not fatal.  A bulk scan saves after every SaveAfter chats, and begins
\* no other chat once it is stopped.
EndPhase(j) ==
  LET s == on[j]
      left == IF kind[j] = "bulk" /\ stop[s] /\ Head(plan[j]) = "deep" THEN <<>> ELSE Tail(plan[j])
      chats == BulkChats - Len(Tail(plan[j])) \div 2
  IN
  /\ Working(j)
  /\ plan' = [plan EXCEPT ![j] = left]
  /\ IF kind[j] = "bulk" /\ Head(plan[j]) = "deep" /\ chats % SaveAfter = 0
     THEN Save(Found(s), Unsourced) ELSE UNCHANGED <<members, faults>>
  /\ UNCHANGED <<dna, scraper, kind, chat, on, st>>

\* An error of a phase that nothing catches ends the scrape: what it has found
\* is not saved.
Break(j) ==
  /\ Working(j) /\ Head(plan[j]) \in Fatal
  /\ object' = Left(j) /\ EndJobs({j}, on[j], "failed")
  /\ UNCHANGED <<store, mixed, faults>>

-----------------------------------------------------------------------------
(* Ends.                                                                    *)

\* run_full_scrape after its phases: a last call of the callback.  The callback of the mini-app only counts.
LastSave(j) ==
  /\ st[j] = "run" /\ plan[j] = <<>>
  /\ st' = [st EXCEPT ![j] = "save"]
  /\ IF kind[j] \in {"attack", "finder"} THEN Save(Found(on[j]), Source(j))
     ELSE UNCHANGED <<members, faults>>
  /\ UNCHANGED <<dna, scraper, kind, chat, on, plan>>

\* Mutant of Report: the caller relies on the saves of the scrape.
Report_Only(j) ==
  /\ st[j] = "save" /\ kind[j] # "par"
  /\ UNCHANGED <<members, faults>>
  /\ object' = IF kind[j] = "web" THEN object ELSE [object EXCEPT ![on[j]] = "closed"]
  /\ EndJobs({j}, on[j], "done") /\ UNCHANGED <<dna, mixed>>

\* The caller saves what it is given, reports success and disconnects.  The
\* mini-app reports without a save.
Report(j) ==
  /\ st[j] = "save" /\ kind[j] # "par"
  /\ IF kind[j] = "web" THEN UNCHANGED <<members, faults>> ELSE Save(Found(on[j]), Source(j))
  /\ object' = IF kind[j] = "web" THEN object ELSE [object EXCEPT ![on[j]] = "closed"]
  /\ EndJobs({j}, on[j], "done") /\ UNCHANGED <<dna, mixed>>

\* The save of the caller raises, when there is no connection to be had.
CannotSave(j) ==
  /\ st[j] = "save" /\ kind[j] \notin {"par", "web"}
  /\ object' = Left(j) /\ EndJobs({j}, on[j], "failed")
  /\ UNCHANGED <<store, mixed, faults>>

\* All workers of a parallel scrape have ended: the save, which may raise.
ReportParallel(s) ==
  LET crew == {j \in Job : kind[j] = "par" /\ on[j] = s /\ Running(j)} IN
  /\ crew # {} /\ \A j \in crew : st[j] = "save"
  /\ object' = [object EXCEPT ![s] = "closed"]
  /\ \E end \in {"done", "failed"} :
       /\ EndJobs(crew, s, end)
       /\ IF end = "done" THEN Save(Found(s), chat[CHOOSE j \in crew : TRUE])
          ELSE UNCHANGED <<members, faults>>
  /\ UNCHANGED <<dna, mixed>>

-----------------------------------------------------------------------------
(* The others.                                                              *)

\* The stop button: the flag of the scraper that the menu knows, which then
\* forgets it.
StopScraper(s) ==
  /\ object[s] = "open"
  /\ stop' = [stop EXCEPT ![s] = TRUE] /\ object' = [object EXCEPT ![s] = "dropped"]
  /\ UNCHANGED <<store, found, existing, count, mixed, job, faults>>

\* never_add_again.
Ban(u) ==
  /\ u \notin dna
  /\ dna' = dna \cup {u} /\ members' = [members EXCEPT ![u] = Absent]
  /\ UNCHANGED <<scraper, job, faults>>

\* The button that empties the list.
Clear ==
  /\ Stored # {} /\ members' = [u \in User |-> Absent]
  /\ mixed' = (mixed \/ \E j \in Job : kind[j] = "par" /\ Running(j))
  /\ UNCHANGED <<dna, object, found, existing, count, stop, job, faults>>

Crews == {c \in UNION {[1 .. n -> Job] : n \in 1 .. Cardinality(Job)} :
            \A a, b \in DOMAIN c : c[a] = c[b] => a = b}

JobStep(j) ==
  \/ Resolve(j) \/ Unreachable(j)
  \/ \E u \in User : Find(j, u) \/ FindReactor(j, u)
  \/ EndPhase(j) \/ Break(j) \/ LastSave(j) \/ Report(j) \/ CannotSave(j)

ScrapingNext ==
  \/ \E j \in Job, k \in Kinds, c \in Chat, s \in Scraper :
       \E phases \in Plans(k) : Start(j, k, c, s, phases)
  \/ \E j \in Job, c \in Chat, s \in Scraper :
       \E phases \in Plans("auto") : StartAuto(j, c, s, phases)
  \/ \E crew \in Crews, c \in Chat, s \in Scraper : StartParallel(crew, c, s)
  \/ \E j \in Job : JobStep(j)
  \/ \E s \in Scraper : ReportParallel(s) \/ StopScraper(s)
  \/ \E u \in User : Ban(u)
  \/ Clear

ScrapingSpec == ScrapingInit /\ [][ScrapingNext]_scrapingVars

-----------------------------------------------------------------------------
(* Properties.                                                              *)

\* Whoever left or shut the door is taken off the list, and no scrape that had
\* already found him brings him back (bulk_save_users, never_add_again).
GoneForGood == faults = 0 => Stored \cap dna = {}

\* A scrape that reports success has stored all whom its scraper holds, but for
\* those who must not be added and those removed while it worked: nobody is in
\* memory only.  The mini-app is the exception (MiniAppSaves).
ReportedIsSaved ==
  [][\A j \in Job :
       st[j] # "done" /\ st'[j] = "done" /\ kind[j] # "web" /\ faults' = 0
         => Found(on[j]) \subseteq Stored' \cup dna]_scrapingVars

\* A member is stored as coming from a chat in which he was found, and keeps
\* his source: it is what adds choose from.  Not so when one scraper serves two
\* jobs at once, which the attack menu allows.
RightSource ==
  [][\A u \in User :
       members'[u] # members[u] /\ members'[u] \in Chat /\ faults' = 0
         => mixed \/ \E s \in Scraper : members'[u] \in {found[s][u], found'[s][u]}]_scrapingVars

\* "N new members stored" (web_app.py): what the mini-app reports is stored.
MiniAppSaves ==
  [][\A j \in Job :
       st[j] # "done" /\ st'[j] = "done" /\ kind[j] = "web" /\ faults' = 0
         => Found(on[j]) \subseteq Stored' \cup dna]_scrapingVars
=============================================================================
