# A formal model of the Telegram member bot

This directory models the bot in `src/` in TLA+: how members are found, how they
are invited by one account or by several at once, how such operations are started
and stopped, how accounts sign in and are kept apart, how much each is said to have
added, how the admin's dialogue with the bot shares one dictionary, what the bot
does in a group, and the console program beside it. TLC checks the models on small
instances; TLAPS proves the safety properties of all of them for every value of the
constants. Where the code does not do what its documentation, its tests, its
comments or its own messages say, a configuration shows the behaviour (`findings`
in `PROJECT.json`), or it is listed under the observations of section 3.

## 1. The system

One process. Pyrogram's event loop runs every coroutine (menus, adds, scans,
updates of groups). A second thread serves the mini-app over HTTP (`web_app.py`), a
third resets the counters once a day, others keep the service awake. They share the
dict `atk_state`, the asyncio event `stop_event`, the table of busy accounts and a
PostgreSQL database. `channel_adder.py` is a program of its own.

| Component | Source | State | Operations | What is hard | Correct when |
|---|---|---|---|---|---|
| Parallel add | `bot.py` 8260-8990 | queue of members, shared counters, blocked set, flood strikes | take, resolve, throttle, invite, answer, put back, cool down, stop | workers interleave at every await; put-backs; stops; a database that fails | no member lost, doubled or miscounted; nobody invited after a verdict or a stop; it ends |
| Other adds | `bot.py` 1521-2028, 7773-8190; `parallel.py` 338-498; `add_engine.py` 262-420 | a list or a queue, permits | as above, simpler; the filter of users | stops, floods, what each loop remembers of verdicts | nobody invited after a verdict the loop could know |
| Added and do-not-add lists | `db.py` 733-783, 1210-1281; `add_engine.py` 99-157 | two tables, a cache of two minutes | record, forget, look up | cache, its aliasing, partial failure | the cache is complete |
| Global throttle | `add_engine.py` 57-93 | time of the last invitation, a lock | wait | all accounts wait in one queue | invitations are at least the interval apart; no waiter is forgotten |
| Start and stop | `web_app.py` 706-1115, 3031; `bot.py` 8196-8215, 3609 | `add_in_progress`, `_stop_requested`, `stop_parallel_add`, `stop_event` | triggers, stop buttons, resets, claims, releases | flags without a lock between a thread and coroutines; late `finally`s | one operation at a time; a stop holds; no claim without owner |
| Account lock | `account_state.py`, callers in `bot.py`, `web_app.py`, `account_doctor.py`, `bg_scraper.py` | `_busy`, with time stamps | claim, look, release, expire | releases by non-owners; expiry during work; look-then-act in another thread | one user per session; no entry without user; nothing locked for ever |
| Adder limits | `db.py` 645-733, `bot.py` 640-660, 2303-2345 | a row per account: count and rest | row writes, whole-table saves, resets, status checks | stale snapshots, three threads, failing statements | no addition lost or doubled; a rest lasts until its time and no longer |
| Scraping, automatic scan | `attacker.py`, `parallel.py` 1-337, `bg_scraper.py`, `bot.py` 4200-5600, `web_app.py` 706-830 | `found_users` of a scraper, table of members | phases, saves, stop, report, retry | results are in memory until saved; scrapers that are shared; phases that break off | what is reported is stored, with its source; who was taken off stays off |
| Sign-in and sessions | `account_login.py`; `bot.py` 217-456, 2030-2300, 7200-7400; `account_doctor.py` 206-340 | pending logins, temporary files, session files, rows with copies | code, password, persist, cancel, expire, upload, restore, delete | overlapping requests, expiry during an answer, a disk that does not survive, failing writes | who was reported as added survives; nothing unsigned is stored; a sign-in is not lost |
| Dialogue | `bot.py` 3560-7770 | `atk_state`: clients, phones, step | every button and message | handlers suspended at awaits overtake each other | a simple add is booked on the account that does it; a code finds the sign-in it is for |
| Groups | `bot.py` 2380-2760; `group_manager.py`; `defender.py` | warnings, message trackers, locks | watch, delete, warn, mute, ban | order of registration; two handlers that count the same member | the handler that looks for a link gets the message and deletes it; the limit means a ban and a ban means the limit |
| Channel adder | `channel_adder.py` | three JSON files, CSV lists | sign in, import, add, reset | it may be stopped anywhere, also inside a write; a failed write is swallowed and the add goes on | counts and history agree with what Telegram answered, up to the stops and failed writes |
| Account health | `account_doctor.py` | probe results | probe, collect, choose | stale answers | a limited or broken account is not chosen |
| Database access | `db.py` 36-133 | connection pool | get, release, reset | a failed statement looks like an empty answer | every connection returns |
| Finders, Instagram | `group_finder.py`, `lead_finder.py`, `instagram_scraper.py`, `chat_analyzer.py` | answers they cache | request and answer | hardly any control of their own | |

The interactions: a trigger in the HTTP thread claims `add_in_progress`, hands a
coroutine to the loop and answers; the coroutine connects accounts, reads the
blocked ids, invites, and writes verdicts and limits; the stop handler sets flags
those loops read; menus release the account `atk_state` names; the scan and the
live test take accounts from the same table; a scrape fills the list adds choose
from and an add takes people off it; a sign-in writes the files those clients open.

## 2. The modules

| Module | Models | Run |
|---|---|---|
| `MemberDispatch` | what a parallel add promises, without queue, flags, delays or limits | refined by `ParallelAdd` |
| `ParallelAdd` | one run of `_execute_parallel_add` | `parallel` |
| `AddControl` | the flags that start, stop and separate operations | `control`, `control_undone` |
| `AccountLock` | the table of busy accounts and its clients | `lock_safety` |
| `AdderLimits` | the table of counts and rests and its writers | `limits_safety`, `limits_direct` |
| `MemberAdds` | the other loops that add members, the verdicts and their cache, the throttle | `adds` |
| `Scraping` | every job that reads members into the list | `scrape` |
| `Sessions` | sign-ins, session files and their copies | `sessions` |
| `Conversation` | the admin's buttons and messages and `atk_state` | `dialogue` |
| `Groups` | the handlers of updates of groups | `groups` |
| `ChannelAdder` | the console program | `channel` |

`MC…` beside each gives the constants their names and the symmetry; `…Proofs` beside
`AccountLock`, `AdderLimits`, `MemberAdds`, `Sessions`, `ChannelAdder` and `Groups`
holds the theorems about it. `MembersProofs` holds those about `Scraping`, which fills
the list of members, and `ParallelAdd`, which takes them from it; `AtkStateProofs` those
about the two halves of `atk_state`, the flags (`AddControl`) and the clients, phones
and steps (`Conversation`). Both extend two components; that is why the initial state,
the next-state relation and the specification of `Scraping` and `Conversation` carry
their component's name (`ScrapingInit`, `DialogueSpec`). In all modules of the bot a step is the code between two awaits, and a place (`pc`, `at`, `st`)
names the await at which a coroutine is suspended.

### ParallelAdd

`pc[a]` names the await of the worker of account `a`, or says why it has returned.
`queue` is `member_queue`, `hand[a]` the local `member`, `blocked` the set shared in
memory, `dbBlocked` the two tables behind it, `limit` the row of the account,
`fruitless` is `_global_consecutive_fails`. `dbFails` is fixed in the beginning: the
statements that record verdicts and limits may fail in this run, or not. `verdict`
is a history variable. Every answer of Telegram to an invitation has an action
(`Joined`, `NotJoined`, `PrivacyRefused`, `AlreadyOrInvalid`, `TooManyChannels`,
`FloodWait`, `PeerFlood`, `Forbidden`, `OtherError`), which contains the counting,
the recording and the put-back of that branch. Members carry only what the code
looks at: an id only, a malformed id, blocked at the start. Delays are abstracted to
their end, interrupted or not.

Left out: the optional filter, which is off (it is in `MemberAdds`); the staggered
start, which raises a `NameError` that is swallowed (bot.py:8460); texts and
progress messages.

### AddControl

A job is one press of a start button, and its life the awaits between which
others act. `Claim` and `StartParallel`, `StartSingle`, `StartScrape` are the
triggers, which look, reset and claim in one go within the HTTP thread; the start
from the bot's chat (`StartBot`) looks at nothing. `RequestStop` is the handler of
the mini-app, `ClearState` any of the bot's buttons that empty `atk_state`, its own
stop button among them, which does no more to the flags. Each loop reads its own
flags (`Stopping`): a parallel add the event and a flag, a single add a flag, a
direct add another one. The variables `told`, `retracted`, `late` are history.
`Room` bounds how many jobs are started. The workers of one parallel job are
`ParallelAdd`'s subject; here it has one. The workers' counters and the accounts
they use play no part.

Left out: the fallback HTTP server used when aiohttp is missing.

### AccountLock

`busy` has for each phone an owner and an age. Each function of
`account_state.py` holds a mutex and is one step. The clients are classes:
scanners choose and then claim; probes claim what they are told; manuals are the
accounts opened in the chat, which connect first, then release what `atk_state`
names, write their phone there and claim; adders claim nothing and release at the
end; deleters look, delete and release in another thread. The labels in the
code's entries say what an operation is, not whose it is, so the code cannot
check who releases; the owner in the model is there for the properties. What
happens to whom is history: `overstayed` (the entry expired while its owner was
at work), `robbed` (somebody else released it), `robbers` (who did so without
having lost their own entry first).

### AdderLimits

`table` is `adder_limits_tbl`: a function on the phones that have a row. `Merge`
is its `ON CONFLICT`. A save writes one row per statement: `pending` holds the
rows the loop is still to write, and no other action of the loop is enabled
meanwhile (`Free`), while the reset thread (`ResetStart`, `ResetRow`, `ResetEnd`)
and the HTTP thread (`WebReset`, `HttpCheck`, `HttpClear`) act in between. A
statement may fail (`Try`): it changes nothing, and a failed load yields an empty
table. `base` is `already_added`, and `memo` the table the parallel direct add
loaded when it began. `sent` counts the additions since the account was last said
to be reset, and `disturbed` collects the phones two writers were concerned with
at a time; both are history.

Left out: `last_used`, and the row that stays when an account is deleted.

### MemberAdds

A worker is a coroutine with one account, and `kind` says which loop it runs; the
loops share their places and differ in what they look at and record (`Loop`,
`Exhausted`, the answers). `added` and `dna` are the tables; `cache` is
`_BLOCKED_IDS_CACHE`. Its set object is handed out as it is, so that a loop that
keeps it sees what others add to it until it is dropped: `shares` are the workers
that hold this very object, `view` the set of the others. `line`, `since` and `need`
are the throttle: `asyncio.Lock` lets waiters in first come first served, and the
holder sleeps inside it. `queue` and `permits` belong to the pool of `parallel.py`;
`Shares` is the distribution of members over accounts of the batch add. `known` is
history. The pool is modelled as it is written although the menu does not get to it at
present (bot.py:6323).

Left out: the loop over a file of members, which nothing reaches (bot.py:7513); delays other than the throttle, whom a direct add prefers, and what the
loops write to the table of limits, which is `AdderLimits`' subject.

### Scraping

A job of one of six kinds runs the phases of `plan` on the scraper object `on[j]`;
`found[s]` is `found_users` of a scraper, with the chat where each was found, and
`existing[s]` what it loaded at the start. A find may bring a save with it (`Find`,
`SaveOnFind`); the ends of phases (`EndPhase`), errors (`Break`), the last save and the
report of the caller are actions of their own, as are the stop button, the emptying of
the list and people who are taken off it meanwhile (`Ban`). The
workers of a parallel scrape share a dictionary, which has the place of the scraper
object. A job that has ended takes with it what its scraper holds, unless another job
or the menu has the scraper (`EndJobs`). `mixed` is history: a scraper served two jobs
at once.

Left out: which requests a phase makes and how it sleeps; the counters of scanned
chats (db.py:988); when the automatic scan is due; strategies nobody calls.

### Sessions

A login is a sign-in or an uploaded file, and at the same time the key it makes.
`temp`, `file` and `blob` say which key is in the temporary file, in the permanent
file and in the copy in the database; `tg` is what Telegram knows of a key. Requests
of the mini-app (`rpc`, `rl`) overlap, as `submit_code` and `submit_password` take
the login out of `_pending` only at the end; the chat's login is the one `atk_state`
holds (`talk`). `scan` are the phones an automatic scan works with: it begins only when
Telegram accepts the key of the file (`ScanBegins`), and when it ends well it copies
whatever file is there by then (`ScanEnds`, bg_scraper.py:305). `Restart` loses the disk and the memory and keeps the database.
Every write and every connection may fail (`MaxFaults` times). `Restore`, `Reload`,
`OpenBlank`, `UseFails`, `GiveUp` are what operations do when a file is missing or a
connection fails: fetch the copy, make a blank file, delete the account. `kept`,
`added`, `excused`, `disturbed` are history.

Left out: the contents of the write-ahead log, the digits of a code (right or
wrong), and `robust_connect_v2` and `safe_connect_with_recovery`, which nobody calls.

### Conversation

`field`, `marks` and `step` are the keys of `atk_state` that handlers exchange;
`client[h]` and `phone[h]` are the local variables a handler reads after its await.
One action per button or message and per continuation after an await, grouped as
the code groups them (`Menus`, `Adds`, `SignIn`, `Targets`, `Others`). A continuation
writes the dictionary whatever happened meanwhile, as the code does. `stale[h]` and
`torn` are history: somebody has written since this handler was suspended, and a
handler so overtaken has then written itself. Buttons are pressed in any order, those
of old menus as well, and that excuses nothing: what they need and do not find is an
error of the code (`ByHand`, `Target`).

Left out: navigation and settings, texts, and the filters chosen for an add.

### Groups

`Registered` lists the handlers of group 0 in the order in which they are
registered, `Takes` their filters, and `Serves` is the dispatcher: the first that
takes an update serves it alone. Group 1 has the defender's watch on names. An update is
a notice, a text or a caption, from a member or from a channel (`from` is `Nil`), may
begin with a command, and has something in it (`Contents`): `BotLinks` and `ManagerLinks`
are what the patterns of the two handlers find. Several updates are
served at a time; each call to Telegram (delete, ban, mute) is a step that may fail.
`recent` and `burst` are the two trackers, whose messages `Tick` makes too old;
`warnings` is `user_warnings`. `sworn` and `failed` are history, `deleted` says whether the
handler that was done last has asked to delete its message. That nobody
is recognised as an administrator is part of the model: the code compares the
enumeration Pyrogram 2 returns with strings.

Left out: commands no update reaches, and answers, which are output.

### ChannelAdder

One thread of control, so a step is the code between two points where it may be
stopped. A file is opened (`writing`), which empties it, and closed; `Crash` in
between leaves it `broken`, and so may a write that fails (`Fails`); the next start or
the next add then ends with an exception. After an accepted invitation the exception of
such a write is caught as if the invitation had raised it, and the loop goes on
(`NotCounted`, channel_adder.py:464). `accounts`, `limits`, `history` and `lists` are the
files. An invitation that raises nothing counts as an addition, whether Telegram has
added the user or not: the program does not look at `missing_invitees`, and the model
does not say who is in the channel. `answered` (whose invitation raised nothing, or who
was in already) and `invited` are history.

Left out: the scraping of groups, which finds none (the enumeration again), delays,
the report, and imports of contacts.

## 3. What is checked

Every property has a mutant: a change of one definition of the kind a programmer
could make, under which TLC finds the property violated. They stand next to the
definition they change, named after it.

### Runs that pass

| Run | Instance | Properties |
|---|---|---|
| `parallel` | 2 accounts, 4 members: one blocked, one with a malformed id, one with an id only; strikes from earlier runs; a database that may fail | `EveryMemberOnce`, `Conservation`, `NoBlockedInvite`, `RecordedVerdicts`, `NoInviteAfterStop`; the run ends (`Terminates`) and implements `MemberDispatch` |
| `control` | any three of six jobs (parallel, single and scrape of the mini-app; parallel, single and direct of the chat), one stop, one emptied state | a stop holds until it is reset and takes effect; no woken worker is put to sleep again; one operation at a time unless disturbed; a claim has an owner |
| `lock_safety` | 2 accounts; a scan, a live test, an account of the chat, a single add, a deletion; TTL 1 | who works holds a live entry, excludes others and robs nobody, except as recorded; no orphan entries of scans and tests, and none that lasts for ever |
| `limits_safety` | 2 accounts, a worker and a single add, all resets, one failing statement | no addition lost; a rest survives other writes; no row calls an account limited without an end |
| `limits_direct` | the parallel direct add beside a single and a quick add, two additions per account, a reset, one failing statement | no addition lost, and none counted twice |
| `adds` | two workers of any kind, two users, one failing query | the cache holds all that is recorded (`CacheComplete`); nobody is invited of whom the loop could know (`NoOldVerdict`); no waiter is forgotten; invitations keep their distance (`Spaced`) |
| `scrape` | two jobs of any kind, two scrapers, two chats, two users | who was taken off stays off (`GoneForGood`); what is reported is stored (`ReportedIsSaved`), with the right source (`RightSource`) |
| `sessions` | two sign-ins for a phone, two requests, scans, two faults, restarts at any time | who was reported as added survives a restart; no unsigned key is stored; an accepted sign-in is kept |
| `dialogue` | two handlers at once, two accounts | a simple add is booked on its account (`SimpleBooked`); a code or password finds the client and the phone it is for (`StepServed`) |
| `groups` | two updates at once, a member and a channel, limits of three, two and one | what a handler knows as a link is served by that handler and deleted (`LinksGo`); the limit means a ban; a ban was earned |
| `channel` | three users, two accounts, a stop at any point, two failed writes, a reset | limits and history, while they can be read, miss at most one answer for each stop or failed write, and list nothing Telegram did not answer (`CountTrue`, `HistoryTrue`); an account goes beyond its limit by no more than that (`WithinLimit`) |

### What the code does against what is said

`control_undone` is a run of the project. The others are configurations to be run by
hand with `tlc -config <file> MC<module>`; TLC finds the property violated.

| Configuration | The code | Against |
|---|---|---|
| `AddControl_undone.cfg` (run `control_undone`) | a start resets the flag before the stopped worker looks | README.md:25, web_app.py:3040 |
| `ParallelAdd_stranded.cfg` | a worker that finds the queue empty leaves, and a member put back later stays | bot.py:8853, 8883 |
| `AddControl_late.cfg` | a late `finally` clears the claim of the next job | tests/test_miniapp_actions.py:71 |
| `AccountLock_refused.cfg` | a menu entry releases the account of a running operation | account_state.py:9 |
| `AdderLimits_button.cfg` | the bot's reset buttons reset nothing | bot.py:5396, 5390 |
| `Scraping_web.cfg` | the mini-app's scrape reports members as stored that are not | web_app.py:794 |
| `Sessions_expired.cfg` | an account is deleted as expired after two connection errors | bot.py:6407 |
| `Conversation_quick.cfg` | a quick add is booked on the account picked last | bot.py:3821 |
| `Groups_words.cfg` | a text with a forbidden word stands | group_manager.py:591 |

Observations of the same kind, met while modelling, for which no configuration is kept.

Adding and stopping:

- Privacy refusals count towards the threshold of a hopeless run and never end it
  (bot.py:8804 against the comment at 8388).
- The stop handler frees the claim while the worker goes on, so the next start runs
  beside it (web_app.py:3039 against tests/test_miniapp_actions.py:71).
- The first step of a parallel add wipes a stop that came between the request and
  that step (bot.py:8267 against web_app.py:3040).
- The bot's own stop button sets no flag an add looks at (bot.py:3609 against 3632).
- A direct add that finds nobody keeps the claim (bot.py:1568 against
  tests/test_miniapp_actions.py:94).
- `par_add_target_` treats a list as a dictionary (bot.py:6323), so the pool of
  `parallel.py` is never started from there.
- The button offers `csv_add_<group>` (bot.py:5652) where the handler expects
  `csv_add` (5727), and the step `adder_target` compares an enumeration with strings
  (7513), so the loop over a file of members is never reached.

Accounts and limits:

- The chat connects an account before it claims it (bot.py:6374) and keeps the claim
  of one at its limit (bot.py:6483), both against docs/agent-notes.md:119.
- A single add claims nothing, so its account may be deleted (bot.py:7775 against
  tests/test_miniapp_actions.py:130).
- A worker at work during a reset writes the old count back (bot.py:8753 against
  web_app.py:2974).
- The HTTP thread clears a rest that was renewed after it looked (db.py:709 against
  CHANGELOG.md:235).

Scraping:

- A scrape of a group bypasses `add_user`: nothing is saved before the end, and an
  uncaught error in its last phases loses what was found (attacker.py:351, bot.py:5515).
- Two scrapes on the attack menu's client share `found_users`, so members are stored
  with the wrong source (bot.py:4293).
- The retry button finds the state it needs cleared (bot.py:5530 against 5544).
- An automatic scan that fails is tried again every minute (bg_scraper.py:310), and
  one branch skips the sleep (368). `bulk_save_users` swallows errors of inserts. A
  list that is emptied during a parallel scrape comes back whole.

Sessions:

- The chat reports an account as stored for ever whether or not the file, the row or
  the copy was written; of two answers to one login, the refusal of the second ends
  the login the first is persisting; clean-ups look for a name the temporary file
  does not have; clients of failed starts stay connected.
- A simple add deletes the file before it reads the copy (bot.py:5960-5976), and a bad
  upload overwrites a good file (bot.py:2107). If a scan is under way with that file, its
  end copies the bad one over the good copy (bg_scraper.py:308), and the account is lost
  with the next restart; a scan that begins later fails and copies nothing.
- The stop button deletes write-ahead logs of accounts in use (bot.py:3627).

Dialogue:

- The end of a scrape empties `atk_state` whatever conversation is going on
  (bot.py:5530). The quick retry sets `atk` without `st`. `gf_scan_` needs the client
  `group_finder_menu` has cleared. A refused claim leaves the phone in the state.
- The list of accounts for a parallel add (bot.py:2224) leads to the attack menu
  (bot.py:6254) without a client. Its button for a target by hand sets the step, and the
  next message ends in a `KeyError` (bot.py:7364): no handler needs to be overtaken.
  `StepServed` is therefore about codes and passwords only.

Groups:

- The first handler that matches serves an update alone, so the commands below
  bot.py:2760, all text handlers of `group_manager.py` and the later handlers of
  joins and leaves are never called; with them the captcha and the bans on joining.
- A caption that begins with a command is served by the handler of the command
  (bot.py:2680-3237), which looks for no link: it stands.
- The patterns for links differ: an address with `www.` and no `http` stands in a caption
  (group_manager.py:47), a user name in a text (bot.py:2637).
- Captions of channels and anonymous administrators are let pass (group_manager.py:353);
  for their texts without a link the filter raises an error (bot.py:2657).
- The exemption of administrators (group_manager.py:356) compares an enumeration with
  strings and exempts nobody.
- `defender.py` calls functions and arguments Pyrogram does not have (`app.listen`,
  `delete_after`), never stores the list of the banned, and restricts without the end
  its alert announces. The tracker of spam is per user across all groups.

Channel adder:

- A torn file of accounts or limits keeps the program from starting, a torn history
  ends every add. Scraping never finds a group and the list of channels is never
  shown, for the same comparison with an enumeration (channel_adder.py:665).
- An invitation answered without an error counts and goes into the history although
  Telegram may have added nobody (channel_adder.py:418; bot.py:8641 looks): that user is
  never invited again.
- A failed write of the history or the limits is reported as a failed invitation and the
  loop goes on (channel_adder.py:464); if it has broken the history, nothing more of the
  run is noted or counted.

Where a promise fails, the passing runs check how much of it holds:
`ExclusiveIfUndisturbed` says which disturbances let two operations in,
`ExclusiveUse` and `UsersHoldTheLock` that two users of a session always go back
to an expiry or a release by somebody else, `NoLostCount` and `RestKept` that
counts and rests are lost only under the named conditions, `RightSource` that a wrong
source needs a shared scraper, `SignInKept` that a lost sign-in was expired,
cancelled or interfered with, `StepServed` that a code without its sign-in needs an
overtaken handler, `LinksGo` which links are looked for.

### Bounds

- `ParallelAdd`: a worker holds one member, so two workers and more members than
  workers give every order of take, put-back and return. Strikes and threshold 2
  instead of 6 and 25 keep the repeated case and the last one.
- `AddControl`: `MaxJobs` 3 of six jobs is a running job, one that is stopped and one
  that is started after; `MaxStops`, `MaxClears` = 1: a second stop finds the flags the
  first has set.
- `AccountLock`: `TTL` = 1: an entry is fresh, old and expired; ages stop at the first
  that counts as expired. Two accounts are needed because the chat releases one and
  claims another.
- `AdderLimits`: `MaxAdds` counts additions of one account between resets; 2 are needed
  only where an addition builds on an earlier one (`limits_direct`). `MaxTime`
  and `Day` leave room for one reset and for a rest and its renewal. `MaxFaults` = 1:
  the functions of `db.py` fail independently, one failure shows what each does.
- `MemberAdds`: two users are one who has a verdict and one who has not. `Interval`
  1 tells early from late, `Width` 1 makes the second worker wait for the permit,
  `MaxErrors` 2 keeps the repeated and the last failure of the filter, `MaxRoom` 1 an
  account that is used up.
- `Scraping`: `Every` and `SaveAfter` 2 instead of 100 and 3 leave somebody unsaved in
  between; `BulkChats` 2 is a bulk scan that moves on. `MaxFaults` 0: the properties are
  about what the jobs do, and hold only while the statements of a save succeed.
- `Sessions`: two sign-ins for one phone replace each other and two requests overtake
  each other; two faults are two writes of one sign-in that fail, or the two connections
  after which an account is given up.
- `Conversation`: two handlers overtake each other, two accounts can be confused.
  `MaxDialogues` 2 lets the clients and phones of two dialogues (the account in use,
  simple, direct, quick add) be in the state at a time.
- `Groups`: `WarnLimit` 3 and `SpamLimit` 2 leave a warning and a message before the
  last, `FloodLimit` 1 mutes at the second caption; `MaxMedia` 5 captions are two more
  than the limit, so that one handler bans while another still counts. One member
  suffices: the counters of two have nothing to do with each other.
- `ChannelAdder`: `MaxAdd` 2 leaves an account with room and one without; a stop and two
  failed writes can strike the same add or different ones, the second write after the
  first has broken the history; after one reset counts start again.

Deadlock checking is on for `lock_safety` and `sessions`, where something can always
happen. It is off elsewhere: operations finish and bounds are used up, in `parallel`,
`control` and `limits_*` as well as in `adds`, `scrape`, `dialogue`, `groups` and
`channel`.

### Fairness

- `ParallelAdd`, `AddControl`: weak fairness of each worker or job. Its awaits are
  timers, are under `wait_for`, or are calls the client answers or fails; the loop
  runs what is ready. Nobody has to press a button.
- `AccountLock`: only time passes. An operation may hang for ever; that is the
  point of `LocksExpire`.
- The other modules have no liveness property. A rest is ended by whoever reads it, and
  nobody is sure to; what it needs to be ended is `NoEndlessRest`. That nobody waits for
  a throttle or a permit that no one holds is `NobodyForgotten`. A sign-in, a dialogue
  and a moderated group wait for people.

## 4. What is proved

`MembersProofs` proves of `ParallelAdd`, for any finite sets of accounts and members and
any thresholds: `TypeCorrect`, `HandsMatch`, `OnceAlways` (no member is lost or handed
out twice), `BlockedNeverInvited`, `VerdictsRecorded`, `NothingUncounted`, `StopIsFinal`
and `DispatchImplemented` (the run implements `MemberDispatch`). The types are not
inductive by themselves: a put-back appends `hand[a]`, which is a member only because
the worker is at a place where it holds one. So `Placed` joins the types and
`HandMatchesPlace`; `EveryMemberOnce` is inductive on top of it, with lemmas on what
taking from and appending to the queue do (`PopKeeps`, `PutBackKeeps`).
`RecordedVerdicts` speaks of runs whose statements do not fail, which `FailsFixed`
carries from the beginning to every step. The refinement maps `inviting` to the accounts
at that place and `halted` to the flags; each action maps to a step of `MemberDispatch`
or to a stutter, by `EveryMemberOnce`.

`MembersProofs` proves of `Scraping`, for any members, chats, scrapers and jobs, however
their phases end, are stopped or break: `ScrapingTypes`, `GoneStayGone`,
`ReportsAreSaved`, `SourcesAreRight`, the last three for as long as no statement of a
save has failed. `Stores` says what a save does when no statement fails. `GoneForGood`
then is inductive; that a report leaves nobody in memory only follows from the save that
precedes it being one of all that the scraper holds (`StoresAll`). For the source of a
member it has to be known who runs on a scraper: unless it is mixed, one job or the
workers of one parallel scrape (`OneScrape`), so that what it holds comes from their
chat, or was in the list with which a parallel scrape began (`Sourced`). Those of the
list keep their source because nobody who is stored is written anew, and a list that is
emptied meanwhile makes the scrape a mixed one. `Ends`, `Begins`, `NewFind` and
`PlanStep` are what the ends, the beginnings, the finds and the other steps of all kinds
of jobs have in common.

`AccountLockProofs` proves, for any finite set of accounts, any clients and any TTL:
`TypeCorrect`, `LockHeld`, `Exclusive`, `NoRobbing` and `NoOrphans`. The invariant
`LInv` joins the types, `Placed` (who is not idle has chosen a phone) and the three
properties, which need each other: a locker frees only its own entry because
`UsersHoldTheLock` says the entry of its phone is its own. `FreeKeeps` is the step all
releases share: whoever loses its entry by it is among the recorded victims.

`AtkStateProofs` proves of `AddControl`, for any jobs of each kind: `TypeCorrect`,
`WokenLeaves`, `StopIsKept`, `MiniAppExclusive`, `FlagIsOwned`. None of the properties
is inductive. A stop holds because the flag a told job looks at is up for as long as
nobody has reset it (`StopFlagUp`; which flag that is differs from kind to kind). That
one operation runs at a time needs the flag to be up while one is alive (`ClaimHeld`);
that a flag has an owner needs a parallel job never to wait where the jobs of the chat
give up without a `finally` (`ParallelPlaces`).

`AtkStateProofs` proves of `Conversation`, for any accounts, any number of handlers and
any bound on dialogues: `DialogueTypes`, `SimpleAddsAreBooked`, `StepsAreServed`. The
invariant joins what is true of the dictionary (`Paired`: a client of a simple add
stands beside its own phone; `Provides`: a step for a code or a password has its client and phone) with what is
true of a handler that is suspended (`DLocals`: its locals are of one account; if nobody
has written since, what it will set a step for is still there, `Suffices`). The lemmas `Writes`,
`GoesOn`, `WritesOn`, `Notes`, `Empties`, `Renews`, `Passes`, `Waits` and `Continues`
prove that once for each way in which a handler goes on, and every handler is a case of
one of them.

`AdderLimitsProofs` proves, for any accounts, any adders of each kind, any lengths of
rests and any number of failing statements: `TypeCorrect`, `CountsAreKept`,
`NoOvercounting`, `RestsEnd`, `RestsAreKept`. Counts are written from what an adder
carries (`base + n`), from a table it has loaded or from the copy of a direct add;
`Counted` says of each of these sources how it stands to what was really sent, as long
as only one operation is concerned with the account, and `Separate` that a second one
makes the account `disturbed`. `Ending` follows the ends of rests through all copies of
the table, `Current` says that a save under way holds no older rest than the table: the
HTTP thread may clear one in between, and no thread but the loop sets one. With a
parallel direct add, whose copy is old, `Current` is false, which is the condition of
`RestKept`. The lemmas `PutFacts` (the merge of `ON CONFLICT`), `AssignCount`,
`WithoutFacts`, `ClearFacts` and `ResetFacts` say what each write does to counts and
rests.

`MemberAddsProofs` proves, for any members, any workers, any width of the pool and any
interval: `TypeCorrect`, `CacheIsComplete`, `OldVerdictsHold`, `WaitersAreServed`,
`InvitationsAreSpaced`. That nobody is invited of whom the loop knew rests on what each
kind of loop does with the set it has read: the single add keeps the object, which
others may add to but nobody takes from, and looks into it again; the others take those
members off their lists (`Barred`). `Once` and `Paced` make the throttle a queue without
repetitions whose first still sleeps exactly what the time since the last invitation
leaves.

`SessionsProofs` proves, for any phones, any sign-ins and requests at a time and any
restarts: `TypeCorrect`, `OnlySignedIsStored`, `AddedAccountsSurvive`, `SignInsAreKept`.
The invariant follows a key from Telegram's answer to the copy in the database. A
request works on the sign-in it finds after its wait, which another request may have
replaced or stored: `Carryings` says for each place of a request what is known of that
sign-in, `BackedAll` what of its file and row, `TracedAll` who is to blame if the file
is another's, `NotLost` that a signed key is stored, in hand or accounted for. `Copies` says that a
copy, and the file a scan is going to copy, are signed in unless the phone is excused:
a write of it failed, it was used, uploaded or given up meanwhile. `Apart`
keeps the sign-in of the chat, which stands in `atk_state`, out of those of the
mini-app.

`ChannelAdderProofs` proves, for any accounts and users, any limit, any number of stops
and of failed writes: `TypeCorrect`, `LimitsCount`, `HistoryIsTrue`, and `NobodyOveradds`
(an account invites at most its limit and one user for each stop or failed write). The
files do not bound what a run does, as nothing is written any more once the history is
broken; the local counters do. `Counting` places them between the limit in the file and
the invitations and says that they leave room for what is still to do, `CountKept` is
`CountTrue` also while only the limits cannot be read (the next write of a run makes
them whole), `Underway` says that nobody who is still to be invited or noted is in the
history. `LosesOne` is what a stop and the failed writes have in common.

`GroupsProofs` proves, for any members, any number of updates served at a time and any
limits: `TypeCorrect`, `LinksAlwaysGo`, `LimitsBan`, `BansAreEarned`. `ServesWhat` takes
the order of the fourteen handlers apart and says what is left for each when those before
it have had their choice (`Fits`): texts reach `group_message_filter`, captions without a
command `anti_spam_handler`, and the handlers that let everything stand get notices,
texts without content or captions of commands. `Serving` carries that through the awaits,
and `Cleaned` is what every step does with a link. A ban names its member only through the update that is being served; that
it was earned rests on `WarnedForWords` (warnings never exceed the words counted, though
a ban by another handler may set them back in between) and `BeingBanned`. `Banning` and
`Effects` say what any step does to the workers that ban and to the members.

The proofs use only the assumptions named in the modules (`ParallelAddAssumption`,
`AddControlAssumption`, `AccountLockAssumption`, `AdderLimitsAssumption`,
`MemberAddsAssumption`, `SessionsAssumption`, `ChannelAdderAssumption`,
`GroupsAssumption`, `ConversationAssumption`, `ScrapingAssumption`), which every run
evaluates. They ask for finite sets where something is counted, for natural bounds, for
classes of jobs that are disjoint, and that the value standing for nobody is nobody.
Each inductive invariant was checked with TLC on the instance of its run before it was
proved.

Only model-checked: the liveness properties (`Terminates`, `StopTakesEffect`,
`LocksExpire`), which need fairness and `ENABLED` and are beyond the prover; and that
the properties of the findings do not hold, which is shown by a behaviour and not by a
proof. Every safety invariant and every action property that a passing run checks is a
theorem.

## 5. Plan

Done, in this order: `ParallelAdd` with its abstract specification and proofs,
`AddControl`, `AccountLock` with proofs, `AdderLimits`, `MemberAdds`, `Scraping`,
`Sessions`, `Conversation`, `Groups`, `ChannelAdder`.

Proofs, in this order: `ParallelAdd`, `AccountLock`, `AddControl`, `ChannelAdder`,
`MemberAdds`, `Sessions`, `AdderLimits`, `Groups`, `Conversation`, `Scraping`: every
safety property the passing runs check.

Modules that could follow: the schedule of the automatic scan and the choice of
accounts; the connection pool; operators for the pure functions (cooldowns, references
to groups), checked against reference definitions.

## 6. What is not modelled

Texts, keyboards and progress messages; how a request to Telegram lists the members of
a chat; the group and lead finders, the chat analyzer and the Instagram scraper, which
are requests to services with hardly any control; when the automatic scan is due; the
verdicts of a health test and the order in which accounts are preferred; the connection
pool (a statement that fails is in the model, whatever made it fail), the encryption of
session copies and the schema; the pages of the mini-app and the fallback HTTP server;
code that no handler or caller reaches. Each component is listed in `PROJECT.json` with
what of it is modelled.
