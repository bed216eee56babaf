----------------------------- MODULE MemberAdds -----------------------------
(***************************************************************************)
(* The loops that add members one after the other, and what they share:     *)
(* the list of people not to be added (two tables and a set in memory that   *)
(* stands for them), the throttle and, for the pool, a queue and a           *)
(* semaphore.                                                               *)
(*                                                                         *)
(*   single   _execute_simple_add_inner                                    *)
(*   direct   _execute_direct_add: reads a group, then adds whom it found    *)
(*   batch    _execute_parallel_direct_add: a list shared out beforehand     *)
(*   pool     parallel.parallel_add: accounts at one queue                  *)
(*   quick    _do_quick_add                                                *)
(*   filter   prefilter_unaddable, which a parallel add runs first           *)
(*                                                                         *)
(* get_blocked_ids_cached hands out the set object of the cache itself, so a  *)
(* loop that keeps it sees what other loops add to it until the cache is      *)
(* dropped or loaded anew; an empty set is a new object each time.  ParallelAdd   *)
(* has the loop of _execute_parallel_add, AdderLimits the counters that all   *)
(* loops write, AddControl who sets and clears the stop flag.                *)
(*                                                                         *)
(* The pool is modelled as it is written although the menu does not get to it *)
(* at present: its callback treats a list as a dictionary (bot.py:6323).  The *)
(* members of a CSV are left out: the step before them is never passed        *)
(* (bot.py:7513).                                                            *)
(***************************************************************************)
EXTENDS Naturals, FiniteSets, Sequences, SequencesExt

CONSTANTS
  User,
  Worker,    \* coroutines, one account each
  Nobody,
  Width,     \* the semaphore of the pool, 2 in the code
  Interval,  \* least time between two throttled invitations
  MaxRoom,   \* bound: additions an account has left, up to 1000 in the code
  MaxErrors, \* failed chunks in a row before the filter gives up, 3 in the code
  MaxFaults  \* bound: times that get_blocked_user_ids fails

ASSUME MemberAddsAssumption ==
  /\ Nobody \notin User
  /\ Width \in Nat \ {0} /\ Interval \in Nat /\ MaxRoom \in Nat
  /\ MaxErrors \in Nat \ {0} /\ MaxFaults \in Nat
  /\ IsFiniteSet(Worker)

Kinds == {"single", "direct", "batch", "pool", "quick", "filter"}

VARIABLES
  added,  \* added_history_tbl
  dna,    \* do_not_add_tbl
  cache,  \* _BLOCKED_IDS_CACHE: its ids, whether they are none, fresh or old,
          \* and, as history, whether the statements that read them succeeded
  shares, \* the workers whose set is the one of the cache
  view,   \* the set of the other workers
  kind, pc, todo, hand,
  room,   \* additions left; of a filter, errors left
  found,  \* members a direct add has found
  menu,   \* par_add_uid_list
  queue, permits,     \* of the pool
  line, since, need,  \* throttle: who waits, time since the last pass, what
                      \* its holder still has to sleep
  stop,   \* atk_state["_stop_requested"]
  known,  \* history: who was recorded when a worker read its list
  faults

tables   == <<added, dna, cache, shares, view>>
work     == <<kind, pc, todo, hand, room, found>>
throttle == <<line, since, need>>
pool     == <<queue, permits>>
vars == <<tables, work, throttle, pool, menu, stop, known, faults>>

Places == {"idle", "scan", "loop", "permit", "throttle", "spaced", "invite",
           "confirm", "done"}

TypeOK ==
  /\ added \subseteq User /\ dna \subseteq User /\ menu \subseteq User
  /\ cache \in [ids : SUBSET User, state : {"none", "fresh", "old"}, whole : BOOLEAN]
  /\ shares \subseteq Worker /\ permits \subseteq Worker
  /\ view \in [Worker -> SUBSET User] /\ known \in [Worker -> SUBSET User]
  /\ kind \in [Worker -> Kinds] /\ pc \in [Worker -> Places]
  /\ todo \in [Worker -> SUBSET User] /\ found \in [Worker -> SUBSET User]
  /\ hand \in [Worker -> User \cup {Nobody}]
  /\ room \in [Worker -> 0 .. MaxRoom + MaxErrors]
  /\ queue \subseteq User
  /\ line \in Seq(Worker) /\ since \in 0 .. Interval /\ need \in 0 .. Interval
  /\ stop \in BOOLEAN /\ faults \in 0 .. MaxFaults

None == [ids |-> {}, state |-> "none", whole |-> FALSE]

Init ==
  /\ added = {} /\ dna = {}
  /\ cache = None /\ shares = {}
  /\ view = [w \in Worker |-> {}] /\ known = [w \in Worker |-> {}]
  /\ kind = [w \in Worker |-> "single"] /\ pc = [w \in Worker |-> "idle"]
  /\ todo = [w \in Worker |-> {}] /\ found = [w \in Worker |-> {}]
  /\ hand = [w \in Worker |-> Nobody] /\ room = [w \in Worker |-> 0]
  /\ menu = {} /\ queue = {} /\ permits = {}
  /\ line = <<>> /\ since = Interval /\ need = 0
  /\ stop = FALSE /\ faults = 0

-----------------------------------------------------------------------------
Recorded == added \cup dna

View(w) == IF w \in shares THEN cache.ids ELSE view[w]

\* What get_blocked_user_ids may return: one query may fail and leave the set
\* as it is then.
Fetched == {Recorded} \cup IF faults < MaxFaults THEN {{}, added} ELSE {}

\* What a worker knows when it has read a list that no failed query spoilt.
Learn(readers) ==
  known' = [w \in Worker |->
              IF w \in readers THEN (IF cache'.whole THEN Recorded ELSE {}) ELSE known[w]]

\* The cache is loaded.  Whoever shared its set keeps the old object.
Reload(readers, got) ==
  /\ got \in Fetched /\ faults' = faults + IF got = Recorded THEN 0 ELSE 1
  /\ cache' = [ids |-> got, state |-> "fresh", whole |-> got = Recorded]
  /\ shares' = IF got = {} THEN {} ELSE readers
  /\ view' = [w \in Worker |-> IF w \in readers THEN {} ELSE View(w)]

\* get_blocked_ids_cached, called for readers that keep the set.
GetBlocked(readers, got) ==
  IF cache.state # "fresh" THEN Reload(readers, got)
  ELSE /\ got = cache.ids
       /\ shares' = IF got = {} THEN shares \ readers ELSE shares \cup readers
       /\ view' = [w \in Worker |-> IF w \in readers THEN {} ELSE view[w]]
       /\ UNCHANGED <<cache, faults>>

\* Mutant of MarkAdded: the set in memory is not told.
MarkAdded_TableOnly(u) ==
  /\ added' = added \cup {u}
  /\ UNCHANGED <<dna, cache, shares, view, faults>>

\* mark_user_as_added: the table, and the set in memory if there is one.
MarkAdded(u) ==
  /\ added' = added \cup {u}
  /\ cache' = IF cache.state = "none" THEN cache ELSE [cache EXCEPT !.ids = @ \cup {u}]
  /\ UNCHANGED <<dna, shares, view, faults>>

\* Mutant of NeverAgain: the set in memory stays as it is.
NeverAgain_Cached(U) ==
  /\ dna' = dna \cup U
  /\ UNCHANGED <<added, cache, shares, view, faults>>

\* never_add_again, for each of U: the table, and the set in memory is dropped.
NeverAgain(U) ==
  IF U = {} THEN UNCHANGED <<tables, faults>>
  ELSE /\ dna' = dna \cup U
       /\ cache' = None /\ shares' = {} /\ view' = [w \in Worker |-> View(w)]
       /\ UNCHANGED <<added, faults>>

-----------------------------------------------------------------------------
(* Beginnings.  Each coroutine is started once.                             *)

Start(w, k, place, members, left) ==
  /\ pc[w] = "idle" /\ members # {}
  /\ kind' = [kind EXCEPT ![w] = k] /\ pc' = [pc EXCEPT ![w] = place]
  /\ todo' = [todo EXCEPT ![w] = members]
  /\ room' = [room EXCEPT ![w] = left]
  /\ UNCHANGED <<hand, found, pool, throttle, menu, stop, added, dna>>

\* The single add drops the cache and loads it; it has no limit of its own.
StartSingle(w) ==
  \E M, got \in SUBSET User :
    /\ Start(w, "single", "loop", M, 0)
    /\ Reload({w}, got) /\ Learn({w})

\* The direct add reads the members of a group first.
StartDirect(w) ==
  \E M, got \in SUBSET User, left \in 1 .. MaxRoom :
    /\ Start(w, "direct", "scan", M, left)
    /\ GetBlocked({w}, got) /\ Learn({w})

\* The quick add takes its list from the table of users or from a CSV, and
\* asks nobody whether they have been added.
StartQuick(w) ==
  /\ \E M \in SUBSET User : Start(w, "quick", "loop", M, 0)
  /\ UNCHANGED <<cache, shares, view, known, faults>>

StartFilter(w) ==
  \E M, got \in SUBSET User :
    /\ Start(w, "filter", "loop", M \ got, MaxErrors)
    /\ GetBlocked({}, got) /\ Learn({w})

\* _start_parallel_direct_add leaves the list in atk_state, for a button that
\* may be pressed later.  Bound: once per list, and while a worker is idle.
OfferBatch ==
  \E M, got \in SUBSET User :
    /\ menu = {} /\ menu' = M \ got /\ menu' # {}
    /\ \E w \in Worker : pc[w] = "idle"
    /\ GetBlocked({}, got)
    /\ UNCHANGED <<added, dna, work, throttle, pool, stop, known>>

\* How many of n members each account gets: each one in turn goes to an account
\* that has the most room left, and the rest to nobody.
Shares(cap, n) ==
  LET give[i \in 0 .. n] ==
        IF i = 0 THEN [w \in DOMAIN cap |-> 0]
        ELSE LET g    == give[i - 1]
                 best == CHOOSE w \in DOMAIN cap :
                           \A x \in DOMAIN cap : cap[x] - g[x] <= cap[w] - g[w]
             IN IF g[best] >= cap[best] THEN g ELSE [g EXCEPT ![best] = @ + 1]
  IN give[n]

StartBatch(W) ==
  /\ menu # {} /\ \A w \in W : pc[w] = "idle"
  /\ \E cap \in [W -> 1 .. MaxRoom], list \in [W -> SUBSET menu] :
       /\ \A w \in W : Cardinality(list[w]) = Shares(cap, Cardinality(menu))[w]
       /\ \A w, x \in W : w # x => list[w] \cap list[x] = {}
       /\ kind' = [w \in Worker |-> IF w \in W THEN "batch" ELSE kind[w]]
       /\ pc' = [w \in Worker |-> IF w \in W THEN "loop" ELSE pc[w]]
       /\ todo' = [w \in Worker |-> IF w \in W THEN list[w] ELSE todo[w]]
       /\ room' = [w \in Worker |-> IF w \in W THEN cap[w] ELSE room[w]]
  /\ menu' = {}
  /\ UNCHANGED <<hand, found, tables, throttle, pool, stop, known, faults>>

\* parallel_add puts whoever is not blocked into the queue; each worker then
\* connects, and takes all of the queue out and puts it back without a pause.
StartPool(W) ==
  /\ queue = {} /\ \A w \in Worker : kind[w] # "pool"
  /\ \A w \in W : pc[w] = "idle"
  /\ \E M, got \in SUBSET User, left \in [W -> 0 .. MaxRoom] :
       /\ GetBlocked({}, got) /\ Learn(W)
       /\ queue' = M \ got
       /\ kind' = [w \in Worker |-> IF w \in W THEN "pool" ELSE kind[w]]
       /\ \E up \in SUBSET W :      \* the others have no session or cannot connect
            pc' = [w \in Worker |-> IF w \notin W THEN pc[w]
                                    ELSE IF w \in up THEN "loop" ELSE "done"]
       /\ room' = [w \in Worker |-> IF w \in W THEN left[w] ELSE room[w]]
  /\ UNCHANGED <<added, dna, todo, hand, found, throttle, permits, menu, stop>>

-----------------------------------------------------------------------------
(* What the loops make of Telegram's answers:                               *)
(*   heeds     looks at the stop flag                                       *)
(*   confirms  asks whether a member who was accepted is there (confirm_joined) *)
(*   notices   sees members that Telegram names as missing                   *)
(*   already   a member who is there already counts as added                 *)
(*   bars      a refusal is recorded                                        *)
(*   fatal     errors that end the loop                                     *)
(*   rooms     counts what the account has left                             *)

Failures == {"flood", "long_flood", "not_admin", "dead", "peer_flood", "other"}

\* While it waits for a flood the single add writes a message, and an error
\* there ends it (aborts).
SingleLoop ==
  [heeds |-> TRUE, confirms |-> FALSE, notices |-> TRUE, already |-> TRUE, bars |-> TRUE,
   fatal |-> {"long_flood", "not_admin", "dead", "peer_flood"}, aborts |-> {"flood"},
   rooms |-> FALSE]

DirectLoop ==
  [heeds |-> TRUE, confirms |-> TRUE, notices |-> TRUE, already |-> TRUE, bars |-> FALSE,
   fatal |-> {"long_flood"}, aborts |-> {}, rooms |-> FALSE]

\* Its stop_req is never set.
BatchLoop ==
  [heeds |-> FALSE, confirms |-> TRUE, notices |-> TRUE, already |-> TRUE, bars |-> FALSE,
   fatal |-> {"long_flood"}, aborts |-> {}, rooms |-> FALSE]

\* BadRequest comes before ChatAdminRequired, one of its subclasses, so that an
\* account without rights goes through the queue.
PoolLoop ==
  [heeds |-> FALSE, confirms |-> FALSE, notices |-> FALSE, already |-> TRUE, bars |-> FALSE,
   fatal |-> {}, aborts |-> {}, rooms |-> TRUE]

QuickLoop ==
  [heeds |-> FALSE, confirms |-> FALSE, notices |-> FALSE, already |-> FALSE, bars |-> FALSE,
   fatal |-> {"long_flood", "not_admin"}, aborts |-> {}, rooms |-> FALSE]

Loop(w) ==
  CASE kind[w] = "single" -> SingleLoop [] kind[w] = "direct" -> DirectLoop
    [] kind[w] = "batch"  -> BatchLoop  [] kind[w] = "pool"   -> PoolLoop
    [] OTHER              -> QuickLoop

-----------------------------------------------------------------------------
(* Choosing the next member.                                                *)

Goto(w, place) == pc' = [pc EXCEPT ![w] = place]
Drop(w, u)     == todo' = [todo EXCEPT ![w] = @ \ {u}]
Hold(w, u)     == hand' = [hand EXCEPT ![w] = u]

Tables == <<added, dna, cache, faults>>
Shared == <<tables, pool, menu, stop, known, faults>>

Clear(f, w) == [f EXCEPT ![w] = {}]

\* The set that a loop has read is not looked at again.
Forget(w) == shares' = shares \ {w} /\ view' = Clear(view, w)

\* The coroutine of w returns, and what it alone knew is gone.
Return(w) ==
  /\ Goto(w, "done") /\ Forget(w)
  /\ kind' = [kind EXCEPT ![w] = "single"] /\ room' = [room EXCEPT ![w] = 0]
  /\ hand' = [hand EXCEPT ![w] = Nobody]
  /\ todo' = Clear(todo, w) /\ found' = Clear(found, w) /\ known' = Clear(known, w)

\* Phase 1 of the direct add: a member that is not blocked and can be resolved
\* is kept.
Scan(w) ==
  /\ pc[w] = "scan" /\ ~stop
  /\ \E u \in todo[w] :
       /\ Drop(w, u)
       /\ \/ UNCHANGED found
          \/ u \notin View(w) /\ found' = [found EXCEPT ![w] = @ \cup {u}]
  /\ UNCHANGED <<kind, pc, hand, room, throttle, Shared>>

\* A stop only ends the reading; the second phase takes at most room members.
Scanned(w) ==
  /\ pc[w] = "scan" /\ (stop \/ todo[w] = {})
  /\ \E list \in SUBSET found[w] :
       /\ Cardinality(list) = IF Cardinality(found[w]) < room[w]
                              THEN Cardinality(found[w]) ELSE room[w]
       /\ todo' = [todo EXCEPT ![w] = list]
  /\ found' = Clear(found, w)
  /\ Goto(w, "loop") /\ Forget(w)
  /\ UNCHANGED <<kind, hand, room, throttle, Tables, pool, menu, stop, known>>

\* The single add passes over whoever is in its set, stop or not.
SkipBlocked(w) ==
  /\ pc[w] = "loop" /\ kind[w] = "single"
  /\ \E u \in todo[w] \cap View(w) : Drop(w, u)
  /\ UNCHANGED <<kind, pc, hand, room, found, throttle, Shared>>

Take(w) ==
  /\ pc[w] = "loop" /\ kind[w] \notin {"pool", "filter"}
  /\ ~(stop /\ Loop(w).heeds)
  /\ \E u \in todo[w] :
       /\ kind[w] = "single" => u \notin View(w)
       /\ Drop(w, u) /\ Hold(w, u)
  /\ IF kind[w] = "single"
     THEN Goto(w, "throttle") /\ line' = Append(line, w)
     ELSE Goto(w, "invite") /\ UNCHANGED line
  /\ UNCHANGED <<kind, room, found, since, need, Shared>>

\* The single add skips a member it cannot resolve; the others fail on it.
Unresolved(w) ==
  /\ pc[w] = "loop" /\ kind[w] = "single" /\ ~stop
  /\ \E u \in todo[w] \ View(w) : Drop(w, u)
  /\ UNCHANGED <<kind, pc, hand, room, found, throttle, Shared>>

TakeFromPool(w) ==
  /\ pc[w] = "loop" /\ kind[w] = "pool" /\ room[w] > 0
  /\ \E u \in queue : queue' = queue \ {u} /\ Hold(w, u)
  /\ Goto(w, "permit")
  /\ UNCHANGED <<kind, todo, room, found, tables, throttle, permits, menu, stop,
                 known, faults>>

Acquire(w) ==
  /\ pc[w] = "permit" /\ Cardinality(permits) < Width
  /\ permits' = permits \cup {w} /\ Goto(w, "invite")
  /\ UNCHANGED <<kind, todo, hand, room, found, tables, throttle, queue, menu, stop,
                 known, faults>>

\* The loop is over.
Exhausted(w) ==
  CASE kind[w] = "pool"   -> queue = {} \/ room[w] = 0
    [] kind[w] = "single" -> todo[w] = {} \/ (stop /\ todo[w] \ View(w) # {})
    [] kind[w] = "direct" -> todo[w] = {} \/ stop
    [] OTHER              -> todo[w] = {}

End(w) ==
  /\ pc[w] = "loop" /\ Exhausted(w) /\ Return(w)
  /\ UNCHANGED <<throttle, Tables, pool, menu, stop>>

-----------------------------------------------------------------------------
(* The throttle: whoever has the lock sleeps as long as is missing.          *)

\* Mutant of Grant: the sleep is not under the lock, and nobody waits for it.
Grant_Unlocked(w) ==
  /\ pc[w] = "throttle" /\ Goto(w, "spaced") /\ need' = 0
  /\ UNCHANGED <<kind, todo, hand, room, found, line, since, Shared>>

Grant(w) ==
  /\ pc[w] = "throttle" /\ Head(line) = w
  /\ need' = Interval - since
  /\ Goto(w, "spaced")
  /\ UNCHANGED <<kind, todo, hand, room, found, line, since, Shared>>

\* The stop flag is looked at once more, unless the single add only passes the
\* time after an invitation that came to nothing.
Pass(w) ==
  /\ pc[w] = "spaced" /\ need = 0
  /\ since' = 0 /\ line' = Tail(line) /\ UNCHANGED need
  /\ IF hand[w] # Nobody /\ stop THEN Return(w)
     ELSE /\ Goto(w, IF hand[w] = Nobody THEN "loop" ELSE "invite")
          /\ UNCHANGED <<kind, todo, hand, room, found, shares, view, known>>
  /\ UNCHANGED <<Tables, pool, menu, stop>>

Tick ==
  /\ since < Interval
  /\ since' = since + 1
  /\ need' = IF need > 0 THEN need - 1 ELSE 0
  /\ UNCHANGED <<work, line, Shared>>

-----------------------------------------------------------------------------
(* Telegram's answers.                                                      *)


\* Mutant of Released: an error leaves the semaphore as it is.
Released_Not(w) == UNCHANGED permits

\* async with sem: the permit is given back on every way out.
Released(w) == permits' = permits \ {w}

\* The invitation is accepted, and for those who can see that it is so,
\* Telegram does not name the member as missing.
Accepted(w) ==
  /\ pc[w] = "invite" /\ Loop(w).confirms /\ Goto(w, "confirm")
  /\ UNCHANGED <<kind, todo, hand, room, found, throttle, Shared>>

\* The member has joined, or the loop believes so.
Joined(w) ==
  /\ \/ pc[w] = "confirm"
     \/ pc[w] = "invite" /\ ~Loop(w).confirms
  /\ MarkAdded(hand[w])
  /\ Released(w) /\ Hold(w, Nobody) /\ Goto(w, "loop")
  /\ room' = [room EXCEPT ![w] = IF Loop(w).rooms THEN @ - 1 ELSE @]
  /\ UNCHANGED <<kind, todo, found, throttle, queue, menu, stop, known>>

\* Invited, but not a member: the single add spends the throttle again.
NotJoined(w) ==
  /\ \/ pc[w] = "confirm"
     \/ pc[w] = "invite" /\ Loop(w).notices
  /\ Hold(w, Nobody)
  /\ IF kind[w] = "single"
     THEN Goto(w, "throttle") /\ line' = Append(line, w)
     ELSE Goto(w, "loop") /\ UNCHANGED line
  /\ UNCHANGED <<kind, todo, room, found, since, need, Shared>>

AlreadyIn(w) ==
  /\ pc[w] = "invite"
  /\ IF Loop(w).already THEN MarkAdded(hand[w])
     ELSE UNCHANGED <<tables, faults>>
  /\ Released(w) /\ Hold(w, Nobody) /\ Goto(w, "loop")
  /\ UNCHANGED <<kind, todo, room, found, throttle, queue, menu, stop, known>>

\* A refusal, or an id that means nobody: only the single add remembers it.
Refused(w) ==
  /\ pc[w] = "invite"
  /\ IF Loop(w).bars THEN NeverAgain({hand[w]}) ELSE UNCHANGED <<tables, faults>>
  /\ Released(w) /\ Hold(w, Nobody) /\ Goto(w, "loop")
  /\ UNCHANGED <<kind, todo, room, found, throttle, queue, menu, stop, known>>

\* Anything else costs the member its turn.
Failed(w) ==
  /\ pc[w] = "invite"
  /\ \E ans \in Failures :
       \/ ans \in Loop(w).fatal \cup Loop(w).aborts /\ Return(w)
       \/ /\ ans \notin Loop(w).fatal /\ Goto(w, "loop") /\ Hold(w, Nobody)
          /\ UNCHANGED <<kind, todo, room, found, shares, view, known>>
  /\ Released(w)
  /\ UNCHANGED <<Tables, throttle, queue, menu, stop>>

-----------------------------------------------------------------------------
(* prefilter_unaddable: chunks of members are looked up.                    *)

\* Whoever Telegram does not return, or returns as deleted, hidden or a bot, is
\* barred.
FilterChunk(w) ==
  /\ pc[w] = "loop" /\ kind[w] = "filter"
  /\ \E chunk \in SUBSET todo[w] : \E bad \in SUBSET chunk :
       /\ chunk # {}
       /\ todo' = [todo EXCEPT ![w] = @ \ chunk]
       /\ NeverAgain(bad)
  /\ room' = [room EXCEPT ![w] = MaxErrors]
  /\ UNCHANGED <<kind, pc, hand, found, throttle, pool, menu, stop, known>>

\* A chunk that cannot be looked up is kept; after MaxErrors in a row, or a
\* flood, so is all the rest.
FilterError(w) ==
  /\ pc[w] = "loop" /\ kind[w] = "filter"
  /\ \E chunk \in SUBSET todo[w], flood \in BOOLEAN :
       LET kept == IF flood \/ room[w] = 1 THEN todo[w] ELSE chunk
       IN /\ chunk # {}
          /\ todo' = [todo EXCEPT ![w] = @ \ kept]
  /\ room' = [room EXCEPT ![w] = IF @ > 1 THEN @ - 1 ELSE @]
  /\ UNCHANGED <<kind, pc, hand, found, throttle, Shared>>

-----------------------------------------------------------------------------
(* The rest of the program.  Bound: it acts while a worker is not done.      *)

Busy == \E w \in Worker : pc[w] # "done"

\* Two minutes pass.
Expire ==
  /\ Busy /\ cache.state = "fresh" /\ cache' = [cache EXCEPT !.state = "old"]
  /\ UNCHANGED <<added, dna, shares, view, work, throttle, pool, menu, stop, known,
                 faults>>

\* group_leave: whoever leaves and is in the set is never added again.
GroupLeave ==
  /\ Busy
  /\ \E u \in User : u \in (IF cache.state = "fresh" THEN cache.ids ELSE Recorded)
                     /\ u \notin dna /\ NeverAgain({u})
  /\ UNCHANGED <<work, throttle, pool, menu, stop, known>>

\* save_scraped and other readers only look into the set.
LookUp ==
  /\ Busy /\ cache.state # "fresh" /\ \E got \in SUBSET User : Reload({}, got)
  /\ UNCHANGED <<added, dna, work, throttle, pool, menu, stop, known>>

RequestStop ==
  /\ Busy /\ ~stop /\ stop' = TRUE
  /\ UNCHANGED <<tables, work, throttle, pool, menu, known, faults>>

Begin(w) ==
  \/ StartSingle(w) \/ StartDirect(w) \/ StartQuick(w)
  \/ StartFilter(w)

Continue(w) ==
  \/ Scan(w) \/ Scanned(w) \/ SkipBlocked(w) \/ Take(w) \/ Unresolved(w)
  \/ TakeFromPool(w) \/ Acquire(w) \/ End(w)
  \/ Grant(w) \/ Pass(w)
  \/ Accepted(w) \/ Joined(w) \/ NotJoined(w) \/ AlreadyIn(w) \/ Refused(w)
  \/ Failed(w) \/ FilterChunk(w) \/ FilterError(w)

Next ==
  \/ \E w \in Worker : Begin(w) \/ Continue(w)
  \/ \E W \in SUBSET Worker \ {{}} : StartBatch(W) \/ StartPool(W)
  \/ OfferBatch \/ Tick \/ Expire \/ GroupLeave \/ LookUp \/ RequestStop

Spec == Init /\ [][Next]_vars

-----------------------------------------------------------------------------
\* Whatever is recorded is in the set in memory, unless a query failed when the
\* set was loaded (get_blocked_ids_cached, mark_added_local,
\* invalidate_blocked_cache).
CacheComplete ==
  cache.state # "none" /\ cache.whole => Recorded \subseteq cache.ids

\* A loop that asks who is blocked invites nobody who was recorded, by whichever
\* other loop, before it asked.
NoOldVerdict == \A w \in Worker : hand[w] \notin known[w]

\* Invitations that pass the throttle are at least Interval apart, however many
\* accounts wait for it (global_throttle).
Spaced ==
  [][\A w \in Worker : pc[w] = "spaced" /\ pc'[w] # "spaced" => since = Interval]_vars

\* Whoever waits has somebody to wait for: the lock of the throttle is held by
\* the first in line, and a permit by a worker that awaits an answer, whichever
\* way the answers before went (async with sem, async with the throttle's lock).
NobodyForgotten ==
  /\ \A w \in Worker : pc[w] \in {"throttle", "spaced"} <=> Contains(line, w)
  /\ \A w \in Worker : pc[w] = "spaced" => Head(line) = w
  /\ permits = {w \in Worker : kind[w] = "pool" /\ pc[w] = "invite"}
=============================================================================
