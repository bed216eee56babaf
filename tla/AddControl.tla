------------------------------ MODULE AddControl -----------------------------
(***************************************************************************)
(* How operations on the accounts are started, stopped and kept apart: the *)
(* flags of the dict atk_state, which the bot's coroutines and the HTTP     *)
(* thread of the mini-app share without a lock, and the asyncio stop_event.*)
(*                                                                         *)
(* A job is one press of a start button.  Its inner life is reduced to the *)
(* awaits between which the others act:                                    *)
(*                                                                         *)
(*   scheduled   handed to the event loop, not yet running                 *)
(*   connecting  connecting the account, resolving the target              *)
(*   fetching    reading members from a group (scrape; phase 1 of direct)   *)
(*   ready, throttling, inviting, pausing   the loop over the members       *)
(*   closing     the clients of a parallel job are being stopped            *)
(*   reporting   the operation is over; the finally of the mini-app's       *)
(*               wrapper has not run yet                                   *)
(*                                                                         *)
(* The workers of one parallel job are the subject of ParallelAdd; here a   *)
(* parallel job has one.                                                   *)
(***************************************************************************)
EXTENDS Naturals, FiniteSets

CONSTANTS
  Parallel,   \* jobs that run _execute_parallel_add
  Single,     \* jobs that run _execute_simple_add
  Direct,     \* jobs that run _execute_direct_add
  Scrape,     \* jobs that run trigger_scrape_group's coroutine
  FromBot,    \* the jobs started in the bot's chat, not in the mini-app
  MaxJobs,    \* bound on the jobs that are started
  MaxStops,   \* bound on the presses of the mini-app's stop button
  MaxClears   \* bound on the buttons of the bot that empty atk_state

Jobs == Parallel \cup Single \cup Direct \cup Scrape

ASSUME AddControlAssumption ==
  /\ IsFiniteSet(Jobs)
  /\ Parallel \cap Single = {} /\ Parallel \cap Direct = {}
  /\ Parallel \cap Scrape = {} /\ Single \cap Direct = {}
  /\ Single \cap Scrape = {} /\ Direct \cap Scrape = {}
  /\ FromBot \subseteq Jobs
  /\ Direct \subseteq FromBot         \* the mini-app has no direct add
  /\ Scrape \cap FromBot = {}
  /\ MaxJobs \in Nat /\ MaxStops \in Nat /\ MaxClears \in Nat

VARIABLES
  pc,            \* where each job is
  inProgress,    \* atk_state["add_in_progress"]
  stopRequested, \* atk_state["_stop_requested"]
  stopParallel,  \* atk_state["stop_parallel_add"]
  stopEvent,     \* stop_event.is_set()
  woken,         \* jobs whose pause the event has ended
  told,          \* what a stop has found each job doing: see RequestStop, Abort
  retracted,     \* jobs told to stop whose flags were reset since
  late,          \* a finally has cleared the flag of another job
  stops, clears  \* presses so far

flags   == <<inProgress, stopRequested, stopParallel, stopEvent>>
ghosts  == <<told, retracted>>
presses == <<stops, clears>>
vars    == <<pc, flags, woken, ghosts, late, presses>>

Web      == Jobs \ FromBot
Loop     == {"ready", "throttling", "inviting", "pausing"}
Busy     == {"fetching"} \cup Loop
PC       == {"idle", "scheduled", "connecting", "closing", "reporting", "done"}
              \cup Busy
Alive(j)    == pc[j] \notin {"idle", "reporting", "done"}
Underway(j) == pc[j] \notin {"idle", "done"}

TypeOK ==
  /\ pc \in [Jobs -> PC]
  /\ inProgress \in BOOLEAN /\ stopRequested \in BOOLEAN
  /\ stopParallel \in BOOLEAN /\ stopEvent \in BOOLEAN /\ late \in BOOLEAN
  /\ woken \subseteq Parallel
  /\ told \in [Jobs -> {"no", "early", "running", "abort"}]
  /\ retracted \subseteq Jobs
  /\ stops \in 0 .. MaxStops /\ clears \in 0 .. MaxClears

\* bot.py: atk_state = {} and a new asyncio.Event.
Init ==
  /\ pc = [j \in Jobs |-> "idle"]
  /\ inProgress = FALSE /\ stopRequested = FALSE
  /\ stopParallel = FALSE /\ stopEvent = FALSE /\ late = FALSE
  /\ woken = {}
  /\ told = [j \in Jobs |-> "no"]
  /\ retracted = {}
  /\ stops = 0 /\ clears = 0

GoTo(j, place) == pc' = [pc EXCEPT ![j] = place]

\* Bound.
Room == Cardinality({j \in Jobs : pc[j] # "idle"}) < MaxJobs

\* The jobs that were told to stop, of which the flags no longer tell.
Retract(S) == retracted' = retracted \cup {j \in S : told[j] # "no"}

\* What each loop looks at.
\* Mutant: a single add looks at nothing.
Stopping_Parallel(j) ==
  j \in Parallel /\ (stopEvent \/ stopRequested \/ stopParallel)

Stopping(j) ==
  IF j \in Parallel THEN stopEvent \/ stopRequested \/ stopParallel
                    ELSE stopRequested

-----------------------------------------------------------------------------
\* Starting.

\* Mutant: the flag is left to the job to set.
Claim_Later(j) ==
  /\ j \in Web
  /\ pc[j] = "idle" /\ Room
  /\ ~inProgress
  /\ UNCHANGED inProgress
  /\ GoTo(j, "scheduled")

\* The mini-app's start buttons.  The HTTP server has one thread, so looking at
\* the flag and setting it is one step with respect to other requests.
Claim(j) ==
  /\ j \in Web
  /\ pc[j] = "idle" /\ Room
  /\ ~inProgress
  /\ inProgress' = TRUE
  /\ GoTo(j, "scheduled")

StartParallel(j) ==
  /\ j \in Parallel
  /\ Claim(j)
  /\ stopRequested' = FALSE /\ stopParallel' = FALSE
  /\ Retract(Jobs \ Parallel)
  /\ UNCHANGED <<stopEvent, woken, told, late, presses>>

StartSingle(j) ==
  /\ j \in Single
  /\ Claim(j)
  /\ stopRequested' = FALSE
  /\ Retract(Jobs \ Parallel)
  /\ UNCHANGED <<stopParallel, stopEvent, woken, told, late,
                 presses>>

StartScrape(j) ==
  /\ j \in Scrape
  /\ Claim(j)
  /\ UNCHANGED <<stopRequested, stopParallel, stopEvent, woken, ghosts, late,
                 presses>>

\* The bot's start buttons look at nothing.
StartBot(j) ==
  /\ j \in FromBot
  /\ pc[j] = "idle" /\ Room
  /\ GoTo(j, "scheduled")
  /\ UNCHANGED <<flags, woken, ghosts, late, presses>>

\* The first step of the coroutine.  _execute_parallel_add resets all flags.
BeginParallel(j) ==
  /\ j \in Parallel
  /\ pc[j] = "scheduled"
  /\ GoTo(j, "ready")
  /\ inProgress' = TRUE
  /\ stopRequested' = FALSE /\ stopParallel' = FALSE /\ stopEvent' = FALSE
  /\ Retract(Jobs)
  /\ UNCHANGED <<woken, told, late, presses>>

BeginOther(j) ==
  /\ j \notin Parallel
  /\ pc[j] = "scheduled"
  /\ GoTo(j, "connecting")
  /\ UNCHANGED <<flags, woken, ghosts, late, presses>>

\* The account is connected and the target resolved (single, direct), or the
\* account is free and its session opened (scrape, which sets no flag here).
Connected(j) ==
  /\ pc[j] = "connecting"
  /\ GoTo(j, IF j \in Single THEN "ready" ELSE "fetching")
  /\ inProgress' = (inProgress \/ j \notin Scrape)
  /\ UNCHANGED <<stopRequested, stopParallel, stopEvent, woken, ghosts, late,
                 presses>>

-----------------------------------------------------------------------------
\* Ending.

\* Mutant: the wrapper of the mini-app has no finally.
Release_Never(j) == UNCHANGED <<inProgress, late>>

\* The finally of a coroutine of the mini-app: whoever set the flag.
Release(j) ==
  /\ inProgress' = FALSE
  /\ late' = (late \/ \E k \in Jobs \ {j} : Underway(k))

\* A job that ends before its loop: no usable account, no connection or
\* target, an account that is busy, a source group without new members.  A
\* single add in the bot's chat also ends when the handler of a FloodWait fails
\* to edit the message.  The mini-app's coroutines pass their finally, the
\* bot's leave everything as it is.
GiveUp(j) ==
  /\ \/ pc[j] = "scheduled" /\ j \in Parallel \cap Web
     \/ pc[j] = "connecting"
     \/ pc[j] = "fetching" /\ j \in Direct
     \/ pc[j] = "inviting" /\ j \in Single \cap FromBot
  /\ GoTo(j, "done")
  /\ IF j \in Web THEN Release(j) ELSE UNCHANGED <<inProgress, late>>
  /\ UNCHANGED <<stopRequested, stopParallel, stopEvent, woken, ghosts,
                 presses>>

\* The loop is left.  A parallel job still has its clients to stop.
Leave(j) ==
  IF j \in Parallel
  THEN GoTo(j, "closing") /\ UNCHANGED inProgress
  ELSE /\ GoTo(j, IF j \in Web THEN "reporting" ELSE "done")
       /\ inProgress' = FALSE

Finish(j) ==
  /\ pc[j] = "closing"
  /\ GoTo(j, IF j \in Web THEN "reporting" ELSE "done")
  /\ inProgress' = FALSE
  /\ UNCHANGED <<stopRequested, stopParallel, stopEvent, woken, ghosts, late,
                 presses>>

Finally(j) ==
  /\ \/ pc[j] = "reporting"
     \/ pc[j] = "fetching" /\ j \in Scrape
  /\ GoTo(j, "done")
  /\ Release(j)
  /\ UNCHANGED <<stopRequested, stopParallel, stopEvent, woken, ghosts,
                 presses>>

-----------------------------------------------------------------------------
\* The loop.

\* Phase 1 of a direct add is over; a stop only shortens it.
Fetched(j) ==
  /\ j \in Direct
  /\ pc[j] = "fetching"
  /\ GoTo(j, "ready")
  /\ UNCHANGED <<flags, woken, ghosts, late, presses>>

\* The top of the loop: nobody is left, a stop is seen, or the next member is
\* taken (a direct add has no throttle).  A parallel worker that finds the
\* queue empty does not look at the flags.
Exhausted(j) ==
  /\ pc[j] = "ready"
  /\ Leave(j)
  /\ UNCHANGED <<stopRequested, stopParallel, stopEvent, woken, ghosts, late,
                 presses>>

SeeStop(j) ==
  /\ pc[j] \in {"ready", "throttling"}
  /\ Stopping(j)
  /\ Leave(j)
  /\ UNCHANGED <<stopRequested, stopParallel, stopEvent, woken, told,
                 retracted, late, presses>>

\* Mutant: the flags are not looked at again after the throttle.
GoOn_Blind(j) ==
  /\ pc[j] \in {"ready", "throttling"}
  /\ pc[j] = "throttling" \/ ~ Stopping(j)
  /\ GoTo(j, IF pc[j] = "ready" /\ j \notin Direct THEN "throttling"
                                                   ELSE "inviting")
  /\ UNCHANGED <<flags, woken, ghosts, late, presses>>

GoOn(j) ==
  /\ pc[j] \in {"ready", "throttling"}
  /\ ~ Stopping(j)
  /\ GoTo(j, IF pc[j] = "ready" /\ j \notin Direct THEN "throttling"
                                                   ELSE "inviting")
  /\ UNCHANGED <<flags, woken, ghosts, late, presses>>

\* Telegram answers: pause, go on at once, or leave the loop because the
\* account is limited, banned or not allowed.  A wait for an event that is set
\* already ends at once.
Answer(j) ==
  /\ pc[j] = "inviting"
  /\ \/ /\ GoTo(j, "pausing")
        /\ woken' = IF j \in Parallel /\ stopEvent THEN woken \cup {j} ELSE woken
        /\ UNCHANGED inProgress
     \/ GoTo(j, "ready") /\ UNCHANGED <<inProgress, woken>>
     \/ Leave(j) /\ UNCHANGED woken
  /\ UNCHANGED <<stopRequested, stopParallel, stopEvent, ghosts, late, presses>>

\* Nobody has joined for too long: the worker stops them all.
Abort(j) ==
  /\ j \in Parallel
  /\ pc[j] = "inviting"
  /\ Leave(j)
  /\ stopEvent' = TRUE
  /\ woken' = woken \cup {k \in Parallel : pc[k] = "pausing"}
  /\ told' = [k \in Jobs |-> IF k \in Parallel /\ Alive(k) /\ told[k] = "no"
                               THEN "abort" ELSE told[k]]
  /\ UNCHANGED <<stopRequested, stopParallel, retracted, late, presses>>

\* Mutant: the pause looks at the event when its time is up.
PauseOver_Polled(j) ==
  /\ pc[j] = "pausing"
  /\ \/ j \in Parallel /\ stopEvent /\ Leave(j)
     \/ ~ (j \in Parallel /\ stopEvent) /\ GoTo(j, "ready")
                                        /\ UNCHANGED inProgress
  /\ UNCHANGED <<stopRequested, stopParallel, stopEvent, woken, told,
                 retracted, late, presses>>

\* A single or direct add sleeps through a stop; a parallel one waits for the
\* event with a timeout, and remembers that it was set even if it is cleared
\* before the worker runs again.
PauseOver(j) ==
  /\ pc[j] = "pausing"
  /\ \/ j \in woken /\ Leave(j)
     \/ j \notin woken /\ GoTo(j, "ready") /\ UNCHANGED inProgress
  /\ UNCHANGED <<stopRequested, stopParallel, stopEvent, woken, told,
                 retracted, late, presses>>

-----------------------------------------------------------------------------
\* Stopping.

\* POST /api/add/stop, in the HTTP thread: request_stop_all and the same three
\* assignments again.
RequestStop ==
  /\ stops < MaxStops
  /\ stops' = stops + 1
  /\ stopEvent' = TRUE /\ stopRequested' = TRUE /\ stopParallel' = TRUE
  /\ inProgress' = FALSE
  /\ woken' = woken \cup {j \in Parallel : pc[j] = "pausing"}
  /\ told' = [j \in Jobs |->
                IF pc[j] \in Loop THEN "running"
                ELSE IF Alive(j) THEN "early" ELSE told[j]]
  /\ retracted' = {j \in retracted : ~ Alive(j)}
  /\ UNCHANGED <<pc, late, clears>>

\* atk_state.clear(): the flags are gone, the event is not.  Many menu entries
\* begin with it, the handler of an exception in a callback ends with it, and the
\* stop button under the bot's progress message does no more to the flags.
ClearState ==
  /\ clears < MaxClears
  /\ clears' = clears + 1
  /\ inProgress' = FALSE /\ stopRequested' = FALSE /\ stopParallel' = FALSE
  /\ Retract(Jobs \ Parallel)
  /\ UNCHANGED <<pc, stopEvent, woken, told, late, stops>>

-----------------------------------------------------------------------------
Job(j) ==
  \/ BeginParallel(j) \/ BeginOther(j) \/ Connected(j) \/ GiveUp(j)
  \/ Finish(j) \/ Finally(j) \/ Fetched(j) \/ Exhausted(j) \/ SeeStop(j)
  \/ GoOn(j) \/ Answer(j) \/ Abort(j) \/ PauseOver(j)

Next ==
  \/ \E j \in Jobs : \/ StartParallel(j) \/ StartSingle(j) \/ StartScrape(j)
                     \/ StartBot(j) \/ Job(j)
  \/ RequestStop \/ ClearState

Spec == Init /\ [][Next]_vars

\* A job the event loop was given goes on: its awaits have timeouts, are
\* timers, or are calls to Telegram that answer or raise.
FairSpec == Spec /\ \A j \in Jobs : WF_vars(Job(j))

-----------------------------------------------------------------------------
\* Properties.

\* A job that was told to stop sends no new invitation as long as nothing has
\* reset the flags it looks at: every loop reads them both at its top and
\* after the throttle (bot.py:7898, 7940, 8511, 8628, 1658).
StopHolds ==
  [][\A j \in Jobs :
       told[j] = "running" /\ j \notin retracted /\ pc[j] # "inviting"
         => pc'[j] # "inviting"]_vars

\* ... and in the end all that were told have ended (the pauses and the throttle
\* are bounded, and so are the presses).
StopTakesEffect ==
  <>[] \A j \in Jobs :
         told[j] = "running" => pc[j] = "done" \/ j \in retracted

\* A pause ended by the event is not undone by a new start that clears the
\* event before the woken coroutine runs: the worker leaves.
NoResurrectedWait ==
  \A j \in woken : pc[j] \in {"pausing", "closing", "reporting", "done"}

\* Unless a stop, a menu entry or the bot's chat interferes, or the late
\* finally of a previous job does, the mini-app runs one operation at a time:
\* the flag is claimed in the request, before the coroutine is scheduled.
ExclusiveIfUndisturbed ==
  /\ stops = 0 /\ clears = 0 /\ ~ late
  /\ \A j \in FromBot : pc[j] = "idle"
  => \A j, k \in Jobs : Alive(j) /\ Alive(k) => j = k

\* tests/test_miniapp_actions.py:93: a flag nobody clears refuses all later
\* adds for ever.  The flag is up only while some job is there to clear it, or
\* after a single or direct add of the bot's chat, which may leave it up.
FlagHasOwner ==
  inProgress /\ (\A j \in FromBot \ Parallel : pc[j] # "done") => \E j \in Jobs : Underway(j)

-----------------------------------------------------------------------------
\* What docs, tests and messages say, and the code does not do.

\* tests/test_miniapp_actions.py:71: two operations on one session at a time
\* burn the session; both triggers must prevent it.
OneOperation == \A j, k \in Jobs : pc[j] \in Busy /\ pc[k] \in Busy => j = k

\* README.md:25 promises an immediate stop, and the answer to the request says
\* that the operation was stopped: no job that was in its loop then sends
\* another invitation.
StopIsFinal ==
  [][\A j \in Jobs : told[j] = "running" /\ pc[j] # "inviting"
                       => pc'[j] # "inviting"]_vars
=============================================================================
