--------------------------- MODULE AtkStateProofs ---------------------------
(***************************************************************************)
(* What the flags of atk_state and stop_event guarantee, for any jobs and   *)
(* any number of stops and cleared states.                                  *)
(*                                                                         *)
(* No property is inductive by itself.  A stop holds because the flag that   *)
(* a job looks at is up for as long as nobody has reset it (StopFlagUp); one  *)
(* operation at a time rests on the flag being up while one is alive          *)
(* (ClaimHeld); and a flag has an owner because a parallel job never waits     *)
(* where the bot's jobs give up (ParallelPlaces).                           *)
(*                                                                         *)
(* At the end, what is guaranteed about the rest of atk_state, the clients,     *)
(* phones and steps of the admin's dialogue (Conversation), for any accounts     *)
(* and any number of handlers.  A handler that nothing overtook knows what the    *)
(* step it sets will need (DLocals).                                        *)
(***************************************************************************)
EXTENDS AddControl, Conversation, TLAPS

\* The flag that ends the loop of a job that was told to stop: for a parallel
\* job it is the event, which a start of the mini-app leaves alone.
StopFlagUp ==
  \A j \in Jobs : told[j] = "running" /\ j \notin retracted =>
    IF j \in Parallel THEN stopEvent ELSE stopRequested

Undisturbed ==
  /\ stops = 0 /\ clears = 0 /\ ~ late
  /\ \A j \in FromBot : pc[j] = "idle"

ClaimHeld ==
  Undisturbed => \A j \in Jobs : Alive(j) => inProgress /\ \A k \in Jobs : Alive(k) => k = j

\* _execute_parallel_add connects inside its workers and reads no group.
ParallelPlaces == \A j \in Parallel : pc[j] \notin {"connecting", "fetching"}

CInv == TypeOK /\ NoResurrectedWait /\ StopFlagUp /\ ClaimHeld /\ ParallelPlaces /\ FlagHasOwner

\* A job of the program's own: Job(j) or one of its starts.
Step(j) == StartParallel(j) \/ StartSingle(j) \/ StartScrape(j) \/ StartBot(j) \/ Job(j)

LEMMA Classes ==
  /\ Parallel \subseteq Jobs /\ Single \subseteq Jobs /\ Direct \subseteq Jobs /\ Scrape \subseteq Jobs
  /\ FromBot \subseteq Jobs /\ Direct \subseteq FromBot /\ Scrape \cap FromBot = {}
  /\ Parallel \cap Single = {} /\ Parallel \cap Direct = {} /\ Parallel \cap Scrape = {}
  /\ Single \cap Direct = {} /\ Single \cap Scrape = {} /\ Direct \cap Scrape = {}
  /\ MaxStops \in Nat /\ MaxClears \in Nat
BY AddControlAssumption DEF Jobs

LEMMA InitCInv == Init => CInv
<1> SUFFICES ASSUME Init PROVE CInv
  OBVIOUS
<1> USE Classes DEF Init
<1>1. TypeOK
  <2>1. stops \in 0 .. MaxStops /\ clears \in 0 .. MaxClears
    OBVIOUS
  <2>2. pc \in [Jobs -> PC]
    BY DEF PC
  <2>3. told \in [Jobs -> {"no", "early", "running", "abort"}]
    OBVIOUS
  <2> QED
    BY <2>1, <2>2, <2>3 DEF TypeOK
<1>2. NoResurrectedWait /\ ParallelPlaces
  BY DEF NoResurrectedWait, ParallelPlaces
<1>3. StopFlagUp
  BY DEF StopFlagUp
<1>4. ClaimHeld
  BY DEF ClaimHeld, Alive
<1>5. FlagHasOwner
  BY DEF FlagHasOwner
<1> QED
  BY <1>1, <1>2, <1>3, <1>4, <1>5 DEF CInv

-----------------------------------------------------------------------------
\* Whether a finally comes late is a Boolean, whoever is under way.
LEMMA ReleaseType ==
  ASSUME TypeOK, NEW j \in Jobs, Release(j)
  PROVE  inProgress' \in BOOLEAN /\ late' \in BOOLEAN
BY Zenon DEF TypeOK, Release

LEMMA TypeStep == TypeOK /\ [Next]_vars => TypeOK'
<1> SUFFICES ASSUME TypeOK, [Next]_vars PROVE TypeOK'
  OBVIOUS
<1> USE Classes DEF TypeOK, PC, Busy, Loop, GoTo, flags, ghosts, presses, Leave
<1>1. ASSUME NEW j \in Jobs, Step(j) PROVE TypeOK'
  <2>1. CASE StartParallel(j)
    BY <2>1 DEF StartParallel, Claim, Retract
  <2>2. CASE StartSingle(j)
    BY <2>2 DEF StartSingle, Claim, Retract
  <2>3. CASE StartScrape(j)
    BY <2>3 DEF StartScrape, Claim
  <2>4. CASE StartBot(j)
    BY <2>4 DEF StartBot
  <2>5. CASE BeginParallel(j)
    BY <2>5 DEF BeginParallel, Retract
  <2>6. CASE BeginOther(j)
    BY <2>6 DEF BeginOther
  <2>7. CASE Connected(j)
    <3>1. inProgress' \in BOOLEAN
      BY <2>7, Zenon DEF Connected
    <3> QED
      BY <2>7, <3>1 DEF Connected
  <2>8. CASE GiveUp(j)
    <3>1. inProgress' \in BOOLEAN /\ late' \in BOOLEAN
      BY <2>8, ReleaseType DEF GiveUp
    <3>2. pc' = [pc EXCEPT ![j] = "done"]
      BY <2>8 DEF GiveUp
    <3>3. UNCHANGED <<stopRequested, stopParallel, stopEvent, woken, ghosts, presses>>
      BY <2>8 DEF GiveUp
    <3> QED
      BY <3>1, <3>2, <3>3
  <2>9. CASE Finish(j)
    BY <2>9 DEF Finish
  <2>10. CASE Finally(j)
    <3>1. inProgress' \in BOOLEAN /\ late' \in BOOLEAN
      BY <2>10, ReleaseType DEF Finally
    <3> QED
      BY <2>10, <3>1 DEF Finally
  <2>11. CASE Fetched(j)
    BY <2>11 DEF Fetched
  <2>12. CASE Exhausted(j)
    BY <2>12 DEF Exhausted
  <2>13. CASE SeeStop(j)
    BY <2>13 DEF SeeStop
  <2>14. CASE GoOn(j)
    BY <2>14 DEF GoOn
  <2>15. CASE Answer(j)
    BY <2>15 DEF Answer
  <2>16. CASE Abort(j)
    BY <2>16 DEF Abort
  <2>17. CASE PauseOver(j)
    BY <2>17 DEF PauseOver
  <2> QED
    BY <1>1, <2>1, <2>2, <2>3, <2>4, <2>5, <2>6, <2>7, <2>8, <2>9, <2>10, <2>11, <2>12, <2>13,
       <2>14, <2>15, <2>16, <2>17 DEF Step, Job
<1>2. CASE RequestStop
  <2>1. stops' \in 0 .. MaxStops /\ clears' \in 0 .. MaxClears
    BY <1>2 DEF RequestStop
  <2>2. told' \in [Jobs -> {"no", "early", "running", "abort"}]
    BY <1>2 DEF RequestStop
  <2>3. woken' \subseteq Parallel /\ retracted' \subseteq Jobs
    BY <1>2 DEF RequestStop
  <2> QED
    BY <1>2, <2>1, <2>2, <2>3 DEF RequestStop
<1>3. CASE ClearState
  <2>1. stops' \in 0 .. MaxStops /\ clears' \in 0 .. MaxClears
    BY <1>3 DEF ClearState
  <2>2. retracted' \subseteq Jobs
    BY <1>3 DEF ClearState, Retract
  <2> QED
    BY <1>3, <2>1, <2>2 DEF ClearState
<1>4. CASE UNCHANGED vars
  BY <1>4 DEF vars
<1> QED
  BY <1>1, <1>2, <1>3, <1>4 DEF Next, Step
-----------------------------------------------------------------------------
\* What a step of a job does.

\* Where it goes: a job moves only itself, never back to the start; a woken wait
\* leads out of the loop, and so does the end of a loop.
LEMMA Moves ==
  ASSUME TypeOK, ParallelPlaces, NEW j \in Jobs, Step(j)
  PROVE  /\ \A k \in Jobs \ {j} : pc'[k] = pc[k]
         /\ pc[j] # "done" /\ pc'[j] # "idle"
         /\ pc[j] = "pausing" /\ j \in woken => pc'[j] = "closing"
         /\ pc[j] = "closing" => pc'[j] \in {"reporting", "done"}
         /\ pc[j] = "reporting" => pc'[j] = "done"
         /\ j \in Parallel => pc'[j] \notin {"connecting", "fetching"}
<1> USE Classes DEF TypeOK, ParallelPlaces, GoTo, Leave
<1>1. CASE StartParallel(j)
  BY <1>1 DEF StartParallel, Claim
<1>2. CASE StartSingle(j)
  BY <1>2 DEF StartSingle, Claim
<1>3. CASE StartScrape(j)
  BY <1>3 DEF StartScrape, Claim
<1>4. CASE StartBot(j)
  BY <1>4 DEF StartBot
<1>5. CASE BeginParallel(j)
  BY <1>5 DEF BeginParallel
<1>6. CASE BeginOther(j)
  BY <1>6 DEF BeginOther
<1>7. CASE Connected(j)
  BY <1>7 DEF Connected
<1>8. CASE GiveUp(j)
  BY <1>8 DEF GiveUp
<1>9. CASE Finish(j)
  BY <1>9 DEF Finish
<1>10. CASE Finally(j)
  BY <1>10 DEF Finally
<1>11. CASE Fetched(j)
  BY <1>11 DEF Fetched
<1>12. CASE Exhausted(j)
  BY <1>12 DEF Exhausted
<1>13. CASE SeeStop(j)
  BY <1>13 DEF SeeStop
<1>14. CASE GoOn(j)
  BY <1>14 DEF GoOn
<1>15. CASE Answer(j)
  BY <1>15 DEF Answer
<1>16. CASE Abort(j)
  BY <1>16 DEF Abort
<1>17. CASE PauseOver(j)
  BY <1>17 DEF PauseOver
<1> QED
  BY <1>1, <1>2, <1>3, <1>4, <1>5, <1>6, <1>7, <1>8, <1>9,
     <1>10, <1>11, <1>12, <1>13, <1>14, <1>15, <1>16, <1>17 DEF Step, Job

\* The event is remembered by those that wait for it.
LEMMA Wakes ==
  ASSUME TypeOK, NEW j \in Jobs, Step(j)
  PROVE  \A k \in woken' \ woken : pc'[k] = "pausing"
<1> USE Classes DEF TypeOK, GoTo, Leave
<1>1. CASE StartParallel(j)
  BY <1>1 DEF StartParallel, Claim
<1>2. CASE StartSingle(j)
  BY <1>2 DEF StartSingle, Claim
<1>3. CASE StartScrape(j)
  BY <1>3 DEF StartScrape, Claim
<1>4. CASE StartBot(j)
  BY <1>4 DEF StartBot
<1>5. CASE BeginParallel(j)
  BY <1>5 DEF BeginParallel
<1>6. CASE BeginOther(j)
  BY <1>6 DEF BeginOther
<1>7. CASE Connected(j)
  BY <1>7 DEF Connected
<1>8. CASE GiveUp(j)
  BY <1>8 DEF GiveUp
<1>9. CASE Finish(j)
  BY <1>9 DEF Finish
<1>10. CASE Finally(j)
  BY <1>10 DEF Finally
<1>11. CASE Fetched(j)
  BY <1>11 DEF Fetched
<1>12. CASE Exhausted(j)
  BY <1>12 DEF Exhausted
<1>13. CASE SeeStop(j)
  BY <1>13 DEF SeeStop
<1>14. CASE GoOn(j)
  BY <1>14 DEF GoOn
<1>15. CASE Answer(j)
  BY <1>15 DEF Answer
<1>16. CASE Abort(j)
  BY <1>16 DEF Abort
<1>17. CASE PauseOver(j)
  BY <1>17 DEF PauseOver
<1> QED
  BY <1>1, <1>2, <1>3, <1>4, <1>5, <1>6, <1>7, <1>8, <1>9,
     <1>10, <1>11, <1>12, <1>13, <1>14, <1>15, <1>16, <1>17 DEF Step, Job

\* Nobody is told anything, and who loses the flag that ends its loop is written
\* down as retracted.
LEMMA Tells ==
  ASSUME TypeOK, NEW j \in Jobs, Step(j)
  PROVE  /\ \A k \in Jobs : told'[k] = "running" => told[k] = "running"
         /\ retracted \subseteq retracted'
         /\ \A k \in Jobs \ retracted' : told[k] = "running" =>
              IF k \in Parallel THEN stopEvent => stopEvent' ELSE stopRequested => stopRequested'
<1> USE Classes DEF TypeOK, flags, ghosts, Leave
<1>1. CASE StartParallel(j)
  BY <1>1 DEF StartParallel, Claim, Retract
<1>2. CASE StartSingle(j)
  BY <1>2 DEF StartSingle, Claim, Retract
<1>3. CASE StartScrape(j)
  BY <1>3 DEF StartScrape, Claim
<1>4. CASE StartBot(j)
  BY <1>4 DEF StartBot
<1>5. CASE BeginParallel(j)
  BY <1>5 DEF BeginParallel, Retract
<1>6. CASE BeginOther(j)
  BY <1>6 DEF BeginOther
<1>7. CASE Connected(j)
  BY <1>7 DEF Connected
<1>8. CASE GiveUp(j)
  BY <1>8 DEF GiveUp
<1>9. CASE Finish(j)
  BY <1>9 DEF Finish
<1>10. CASE Finally(j)
  BY <1>10 DEF Finally
<1>11. CASE Fetched(j)
  BY <1>11 DEF Fetched
<1>12. CASE Exhausted(j)
  BY <1>12 DEF Exhausted
<1>13. CASE SeeStop(j)
  BY <1>13 DEF SeeStop
<1>14. CASE GoOn(j)
  BY <1>14 DEF GoOn
<1>15. CASE Answer(j)
  BY <1>15 DEF Answer
<1>16. CASE Abort(j)
  BY <1>16 DEF Abort
<1>17. CASE PauseOver(j)
  BY <1>17 DEF PauseOver
<1> QED
  BY <1>1, <1>2, <1>3, <1>4, <1>5, <1>6, <1>7, <1>8, <1>9,
     <1>10, <1>11, <1>12, <1>13, <1>14, <1>15, <1>16, <1>17 DEF Step, Job

\* The operation flag: the mini-app's starts find it down and put it up, only
\* the end of a job takes it down, and only a job of the bot's chat that gives
\* up ends and leaves it up.
LEMMA Claims ==
  ASSUME TypeOK, ParallelPlaces, NEW j \in Jobs, Step(j)
  PROVE  /\ pc[j] = "idle" /\ j \notin FromBot => ~ inProgress /\ inProgress'
         /\ pc[j] # "idle" /\ Alive(j)' /\ inProgress => inProgress'
         /\ pc'[j] = "done" /\ j \notin FromBot \ Parallel => ~ inProgress'
         /\ pc[j] = "reporting" => late' \/ \A k \in Jobs \ {j} : ~ Underway(k)
         /\ late => late'
         /\ UNCHANGED presses
<1> USE Classes DEF TypeOK, ParallelPlaces, GoTo, Leave, flags, Alive, Web
<1>1. CASE StartParallel(j)
  BY <1>1 DEF StartParallel, Claim
<1>2. CASE StartSingle(j)
  BY <1>2 DEF StartSingle, Claim
<1>3. CASE StartScrape(j)
  BY <1>3 DEF StartScrape, Claim
<1>4. CASE StartBot(j)
  BY <1>4 DEF StartBot
<1>5. CASE BeginParallel(j)
  BY <1>5 DEF BeginParallel
<1>6. CASE BeginOther(j)
  BY <1>6 DEF BeginOther
<1>7. CASE Connected(j)
  BY <1>7 DEF Connected
<1>8. CASE GiveUp(j)
  BY <1>8 DEF GiveUp, Release
<1>9. CASE Finish(j)
  BY <1>9 DEF Finish
<1>10. CASE Finally(j)
  BY <1>10 DEF Finally, Release
<1>11. CASE Fetched(j)
  BY <1>11 DEF Fetched
<1>12. CASE Exhausted(j)
  BY <1>12 DEF Exhausted
<1>13. CASE SeeStop(j)
  BY <1>13 DEF SeeStop
<1>14. CASE GoOn(j)
  BY <1>14 DEF GoOn
<1>15. CASE Answer(j)
  BY <1>15 DEF Answer
<1>16. CASE Abort(j)
  BY <1>16 DEF Abort
<1>17. CASE PauseOver(j)
  BY <1>17 DEF PauseOver
<1> QED
  BY <1>1, <1>2, <1>3, <1>4, <1>5, <1>6, <1>7, <1>8, <1>9,
     <1>10, <1>11, <1>12, <1>13, <1>14, <1>15, <1>16, <1>17 DEF Step, Job

-----------------------------------------------------------------------------
\* The steps preserve the invariant.

LEMMA PlacesStep == TypeOK /\ ParallelPlaces /\ [Next]_vars => ParallelPlaces'
<1> SUFFICES ASSUME TypeOK, ParallelPlaces, [Next]_vars PROVE ParallelPlaces'
  OBVIOUS
<1>1. ASSUME NEW j \in Jobs, Step(j) PROVE ParallelPlaces'
  BY <1>1, Moves, Classes DEF ParallelPlaces
<1>2. CASE RequestStop \/ ClearState \/ UNCHANGED vars
  BY <1>2 DEF RequestStop, ClearState, vars, ParallelPlaces
<1> QED
  BY <1>1, <1>2 DEF Next, Step

LEMMA WaitStep ==
  TypeOK /\ ParallelPlaces /\ NoResurrectedWait /\ [Next]_vars => NoResurrectedWait'
<1> SUFFICES ASSUME TypeOK, ParallelPlaces, NoResurrectedWait, [Next]_vars
             PROVE  NoResurrectedWait'
  OBVIOUS
<1> USE DEF NoResurrectedWait
<1>1. ASSUME NEW j \in Jobs, Step(j), NEW k \in woken'
      PROVE  pc'[k] \in {"pausing", "closing", "reporting", "done"}
  <2>1. CASE k \notin woken
    BY <1>1, <2>1, Wakes
  <2>2. CASE k \in woken
    BY <1>1, <2>2, Moves, Classes DEF TypeOK
  <2> QED
    BY <2>1, <2>2
<1>2. CASE RequestStop
  BY <1>2 DEF RequestStop
<1>3. CASE ClearState \/ UNCHANGED vars
  BY <1>3 DEF ClearState, vars
<1> QED
  BY <1>1, <1>2, <1>3 DEF Next, Step

LEMMA FlagUpStep == TypeOK /\ StopFlagUp /\ [Next]_vars => StopFlagUp'
<1> SUFFICES ASSUME TypeOK, StopFlagUp, [Next]_vars PROVE StopFlagUp'
  OBVIOUS
<1> USE DEF StopFlagUp
<1>1. ASSUME NEW j \in Jobs, Step(j) PROVE StopFlagUp'
  BY <1>1, Tells
<1>2. CASE RequestStop
  BY <1>2 DEF RequestStop
<1>3. CASE ClearState
  BY <1>3, Classes DEF ClearState, Retract, TypeOK
<1>4. CASE UNCHANGED vars
  BY <1>4 DEF vars, flags, ghosts
<1> QED
  BY <1>1, <1>2, <1>3, <1>4 DEF Next, Step

LEMMA ClaimStep == TypeOK /\ ParallelPlaces /\ ClaimHeld /\ [Next]_vars => ClaimHeld'
<1> SUFFICES ASSUME TypeOK, ParallelPlaces, ClaimHeld, [Next]_vars, Undisturbed',
                    NEW m \in Jobs, Alive(m)'
             PROVE  inProgress' /\ \A k \in Jobs : Alive(k)' => k = m
  BY DEF ClaimHeld
<1>1. ASSUME NEW j \in Jobs, Step(j)
      PROVE  inProgress' /\ \A k \in Jobs : Alive(k)' => k = m
  <2>1. j \notin FromBot /\ Undisturbed
    BY <1>1, Moves, Claims, Classes DEF Undisturbed, presses
  <2>2. \A k \in Jobs : Alive(k) => inProgress /\ \A l \in Jobs : Alive(l) => l = k
    BY <2>1 DEF ClaimHeld
  <2>3. \A k \in Jobs \ {j} : Alive(k)' <=> Alive(k)
    BY <1>1, Moves DEF Alive
  <2>4. CASE pc[j] = "idle"
    <3>1. \A k \in Jobs : ~ Alive(k)
      BY <1>1, <2>1, <2>2, <2>4, Claims
    <3> QED
      BY <1>1, <2>1, <2>3, <2>4, <3>1, Claims
  <2>5. CASE pc[j] = "reporting"
    <3>1. \A k \in Jobs \ {j} : ~ Underway(k)
      BY <1>1, <2>5, Claims DEF Undisturbed
    <3>2. ~ Alive(j)'
      BY <1>1, <2>5, Moves DEF Alive
    <3> QED
      BY <2>3, <3>1, <3>2 DEF Alive, Underway
  <2>6. CASE Alive(j)
    <3>1. m = j /\ inProgress
      BY <2>2, <2>3, <2>6
    <3>2. \A k \in Jobs : Alive(k)' => k = m
      BY <2>2, <2>3, <2>6, <3>1
    <3> QED
      BY <1>1, <2>6, <3>1, <3>2, Claims DEF Alive
  <2> QED
    BY <1>1, <2>4, <2>5, <2>6, Moves DEF Alive
<1>2. CASE RequestStop
  BY <1>2, Classes DEF RequestStop, Undisturbed, TypeOK
<1>3. CASE ClearState
  BY <1>3, Classes DEF ClearState, Undisturbed, TypeOK
<1>4. CASE UNCHANGED vars
  BY <1>4 DEF vars, flags, presses, ClaimHeld, Undisturbed, Alive
<1> QED
  BY <1>1, <1>2, <1>3, <1>4 DEF Next, Step

LEMMA OwnerStep ==
  TypeOK /\ ParallelPlaces /\ FlagHasOwner /\ [Next]_vars => FlagHasOwner'
<1> SUFFICES ASSUME TypeOK, ParallelPlaces, FlagHasOwner, [Next]_vars,
                    inProgress', \A j \in FromBot \ Parallel : pc'[j] # "done"
             PROVE  \E j \in Jobs : Underway(j)'
  BY DEF FlagHasOwner
<1>1. ASSUME NEW j \in Jobs, Step(j) PROVE Underway(j)'
  BY <1>1, Moves, Claims, Classes DEF Underway
<1>2. CASE RequestStop \/ ClearState
  BY <1>2 DEF RequestStop, ClearState
<1>3. CASE UNCHANGED vars
  BY <1>3 DEF vars, flags, FlagHasOwner, Underway
<1> QED
  BY <1>1, <1>2, <1>3 DEF Next, Step

LEMMA Inductive == Spec => []CInv
<1>1. CInv /\ [Next]_vars => CInv'
  BY TypeStep, PlacesStep, WaitStep, FlagUpStep, ClaimStep, OwnerStep DEF CInv
<1> QED
  BY InitCInv, <1>1, PTL DEF Spec

-----------------------------------------------------------------------------
\* The state of atk_state, of the event and of the jobs has its type, for any
\* number of jobs and of presses.
THEOREM TypeCorrect == Spec => []TypeOK
BY Inductive, PTL DEF CInv

\* A worker whose pause was ended by the event (bot.py:8695) leaves its loop,
\* even if a new parallel add has cleared the event before the worker runs.
THEOREM WokenLeaves == Spec => []NoResurrectedWait
BY Inductive, PTL DEF CInv

\* No invitation begins after a stop, as long as nobody has reset the flag that
\* the job looks at: whatever other jobs start, end or abort in the meantime.
THEOREM StopIsKept == Spec => StopHolds
<1>1. ASSUME CInv, Next
      PROVE  \A j \in Jobs : told[j] = "running" /\ j \notin retracted /\ pc[j] # "inviting"
                              => pc'[j] # "inviting"
  <2> SUFFICES ASSUME NEW k \in Jobs, told[k] = "running", k \notin retracted,
                      pc[k] # "inviting", pc'[k] = "inviting"
               PROVE  FALSE
    OBVIOUS
  <2>1. Stopping(k)
    BY <1>1 DEF CInv, StopFlagUp, Stopping
  <2>2. ASSUME NEW j \in Jobs, Step(j) PROVE FALSE
    <3>1. j = k
      BY <1>1, <2>2, Moves DEF CInv
    <3>2. GoOn(j)
      BY <1>1, <2>2, <3>1
         DEF CInv, TypeOK, Step, Job, StartParallel, StartSingle, StartScrape, Claim, StartBot,
             BeginParallel, BeginOther, Connected, GiveUp, Finish, Finally, Fetched, Exhausted,
             SeeStop, Answer, Abort, PauseOver, Leave, GoTo
    <3> QED
      BY <2>1, <3>1, <3>2 DEF GoOn
  <2>3. CASE RequestStop \/ ClearState
    BY <2>3 DEF RequestStop, ClearState
  <2> QED
    BY <1>1, <2>2, <2>3 DEF Next, Step
<1> QED
  BY Inductive, <1>1, PTL DEF Spec, StopHolds

\* The mini-app alone runs one operation at a time: as long as no stop, no menu
\* entry, no job of the chat and no late finally interferes, two jobs are never
\* alive together (the flag is claimed in the request, web_app.py).
THEOREM MiniAppExclusive == Spec => []ExclusiveIfUndisturbed
<1>1. ClaimHeld => ExclusiveIfUndisturbed
  BY DEF ClaimHeld, Undisturbed, ExclusiveIfUndisturbed
<1> QED
  BY Inductive, <1>1, PTL DEF CInv

\* The operation flag never outlives the operations: while it is up some job is
\* under way that will take it down, unless a single or direct add of the chat
\* has given up.
THEOREM FlagIsOwned == Spec => []FlagHasOwner
BY Inductive, PTL DEF CInv

-----------------------------------------------------------------------------
(* The admin's dialogue (Conversation), whose handlers share atk_state.      *)

\* The keys of the simple add belong together.
Paired(f) == f["_simp_client"] # Nil => f["_simp_client"] = f["_simp_phone"]

\* What a message of step s reads is in f.
Provides(f, s) ==
  s \in {"code", "password"} => f["new_client"] # Nil /\ f["phone"] # Nil

\* What a handler that is suspended at place will need in f when it sets a step.
Suffices(f, place) ==
  /\ place = "number" => f["phone"] # Nil
  /\ place \in {"sign_in", "check_password"} => f["new_client"] # Nil /\ f["phone"] # Nil

\* Where the client of a simple add and its phone are carried, and where a
\* client and a phone are carried at all.
OneAccount == {"connect_simple", "to_simple", "simple"}
Carrying == {"connect_simple", "connect_live", "connect_quick", "connect", "number", "sign_in",
  "check_password", "welcome", "reconnect", "retry"}

DLocals(h) ==
  /\ at[h] \in OneAccount => client[h] = phone[h]
  /\ at[h] \in Carrying => client[h] \in Account /\ phone[h] \in Account
  /\ stale[h] \/ Suffices(field, at[h])

DTypes ==
  /\ field \in [Field -> Account \cup {Nil}] /\ marks \subseteq Marks /\ step \in Steps
  /\ at \in [Handler -> {"idle"} \cup Suspended \cup Operations]
  /\ client \in [Handler -> Account \cup {Nil}] /\ phone \in [Handler -> Account \cup {Nil}]
  /\ stale \in [Handler -> BOOLEAN] /\ torn \in BOOLEAN

DInv ==
  /\ DTypes /\ Paired(field) /\ (torn \/ Provides(field, step))
  /\ \A h \in Handler : DLocals(h)

-----------------------------------------------------------------------------
(* The ways in which a handler goes on.                                     *)

LEMMA Keys ==
  /\ Field = {"atk", "add_client", "_simp_client", "_live_client", "quick_client",
                "new_client", "phone", "_simp_phone", "_live_phone", "quick_phone"}
BY DEF Field, Clients, Phones

\* Writing to atk_state and going on with the locals c and p.
LEMMA Writes ==
  ASSUME DInv, NEW h \in Handler, NEW f \in [Field -> Account \cup {Nil}],
         NEW m \in SUBSET Marks, NEW s \in Steps, NEW bad \in BOOLEAN,
         NEW place \in {"idle"} \cup Suspended \cup Operations,
         NEW c \in Account \cup {Nil}, NEW p \in Account \cup {Nil},
         Written(h, f, m, s, bad), Enter(h, place, c, p),
         Paired(f), bad \/ Provides(f, s), Suffices(f, place),
         place \in OneAccount => c = p,
         place \in Carrying => c \in Account /\ p \in Account
  PROVE  DInv'
<1>1. /\ field' = f /\ marks' = m /\ step' = s /\ torn' = bad
      /\ stale' = [g \in Handler |-> g # h /\ at[g] # "idle"]
      /\ at' = [at EXCEPT ![h] = place]
      /\ client' = [client EXCEPT ![h] = c] /\ phone' = [phone EXCEPT ![h] = p]
  BY DEF Written, Enter
<1>2. DTypes'
  BY <1>1 DEF DInv, DTypes
<1>3. Paired(field)' /\ (torn \/ Provides(field, step))'
  BY <1>1 DEF Paired, Provides
<1>4. ASSUME NEW g \in Handler
      PROVE  DLocals(g)'
  <2>1. CASE g = h
    <3>1. at'[h] = place /\ client'[h] = c /\ phone'[h] = p
      BY <1>1 DEF DInv, DTypes
    <3> QED
      BY <1>1, <2>1, <3>1 DEF DLocals, Suffices
  <2>2. CASE g # h
    <3>1. at'[g] = at[g] /\ client'[g] = client[g] /\ phone'[g] = phone[g]
      BY <1>1, <2>2 DEF DInv, DTypes
    <3>2. stale'[g] = (at[g] # "idle")
      BY <1>1, <2>2
    <3>3. at[g] = "idle" => Suffices(field, at[g])'
      BY <3>1 DEF Suffices
    <3> QED
      BY <3>1, <3>2, <3>3 DEF DInv, DLocals
  <2> QED
    BY <2>1, <2>2
<1> QED
  BY <1>2, <1>3, <1>4 DEF DInv

\* Going on without writing.
LEMMA Continues ==
  ASSUME DInv, NEW h \in Handler, NEW old \in BOOLEAN,
         NEW place \in {"idle"} \cup Suspended \cup Operations,
         NEW c \in Account \cup {Nil}, NEW p \in Account \cup {Nil},
         UNCHANGED <<field, marks, step, torn>>, stale' = [stale EXCEPT ![h] = old],
         Enter(h, place, c, p), old \/ Suffices(field, place),
         place \in OneAccount => c = p,
         place \in Carrying => c \in Account /\ p \in Account
  PROVE  DInv'
<1>1. /\ field' = field /\ marks' = marks /\ step' = step /\ torn' = torn
      /\ at' = [at EXCEPT ![h] = place]
      /\ client' = [client EXCEPT ![h] = c] /\ phone' = [phone EXCEPT ![h] = p]
  BY DEF Enter
<1>2. DTypes'
  BY <1>1 DEF DInv, DTypes
<1>3. Paired(field)' /\ (torn \/ Provides(field, step))'
  BY <1>1 DEF DInv, Paired, Provides
<1>4. ASSUME NEW g \in Handler
      PROVE  DLocals(g)'
  <2>1. CASE g = h
    <3>1. at'[h] = place /\ client'[h] = c /\ phone'[h] = p /\ stale'[h] = old
      BY <1>1 DEF DInv, DTypes
    <3> QED
      BY <1>1, <2>1, <3>1 DEF DLocals, Suffices
  <2>2. CASE g # h
    <3>1. /\ at'[g] = at[g] /\ client'[g] = client[g] /\ phone'[g] = phone[g]
          /\ stale'[g] = stale[g]
      BY <1>1, <2>2 DEF DInv, DTypes
    <3> QED
      BY <1>1, <3>1 DEF DInv, DLocals, Suffices
  <2> QED
    BY <2>1, <2>2
<1> QED
  BY <1>2, <1>3, <1>4 DEF DInv

\* Goto keeps the locals where they are still read.
LEMMA GoesOn ==
  ASSUME DInv, NEW h \in Handler, NEW place, Goto(h, place),
         place \in OneAccount => client[h] = phone[h],
         place \in Carrying => client[h] \in Account /\ phone[h] \in Account
  PROVE  \E c, p \in Account \cup {Nil} :
           /\ Enter(h, place, c, p) /\ (place \in OneAccount => c = p)
           /\ place \in Carrying => c \in Account /\ p \in Account
<1>1. CASE place \in Keeps
  <2>1. Enter(h, place, client[h], phone[h])
    BY <1>1 DEF Goto
  <2>2. client[h] \in Account \cup {Nil} /\ phone[h] \in Account \cup {Nil}
    BY DEF DInv, DTypes
  <2> QED
    BY <2>1, <2>2
<1>2. CASE place \notin Keeps
  <2>1. Enter(h, place, Nil, Nil)
    BY <1>2 DEF Goto
  <2>2. place \notin OneAccount /\ place \notin Carrying
    BY <1>2 DEF OneAccount, Carrying, Keeps
  <2> QED
    BY <2>1, <2>2
<1> QED
  BY <1>1, <1>2

LEMMA WritesOn ==
  ASSUME DInv, NEW h \in Handler, NEW f \in [Field -> Account \cup {Nil}],
         NEW m \in SUBSET Marks, NEW s \in Steps, NEW bad \in BOOLEAN,
         NEW place \in {"idle"} \cup Suspended \cup Operations,
         Written(h, f, m, s, bad), Goto(h, place),
         Paired(f), bad \/ Provides(f, s), Suffices(f, place),
         place \in OneAccount => client[h] = phone[h],
         place \in Carrying => client[h] \in Account /\ phone[h] \in Account
  PROVE  DInv'
<1>1. PICK c, p \in Account \cup {Nil} :
        /\ Enter(h, place, c, p) /\ (place \in OneAccount => c = p)
        /\ place \in Carrying => c \in Account /\ p \in Account
  BY GoesOn
<1> QED
  BY <1>1, Writes

\* A handler that writes what it has and is done.
LEMMA Notes ==
  ASSUME DInv, NEW h \in Handler, NEW f \in [Field -> Account \cup {Nil}],
         NEW m \in SUBSET Marks, NEW s \in Steps,
         NEW place \in {"idle", "simple", "direct", "scrape"}, Write(h, f, m, s, place),
         Paired(f), torn \/ stale[h] \/ Provides(f, s),
         place = "simple" => client[h] = phone[h]
  PROVE  DInv'
<1>1. Written(h, f, m, s, torn \/ stale[h]) /\ Goto(h, place)
  BY DEF Write
<1>2. place \in {"idle"} \cup Suspended \cup Operations
  BY DEF Operations
<1>3. (torn \/ stale[h]) \in BOOLEAN
  BY DEF DInv, DTypes
<1>4. Suffices(f, place) /\ (place \in OneAccount => place = "simple") /\ place \notin Carrying
  BY DEF Suffices, OneAccount, Carrying
<1> QED
  BY <1>1, <1>2, <1>3, <1>4, WritesOn

\* Emptying atk_state: no message is asked for that needs a client.
LEMMA Empties ==
  ASSUME DInv, NEW h \in Handler, NEW s \in {"none", "number", "finder", "upload"},
         NEW place \in {"idle", "welcome"}, Empty(h, s, place),
         place = "welcome" => at[h] = "sign_in"
  PROVE  DInv'
<1>1. Written(h, Nothing, {}, s, FALSE) /\ Goto(h, place)
  BY DEF Empty, Anew
<1>2. /\ Nothing \in [Field -> Account \cup {Nil}] /\ Paired(Nothing)
      /\ s \in Steps /\ Provides(Nothing, s)
  BY Keys DEF Nothing, Paired, Provides, Steps
<1>3. /\ place \in {"idle"} \cup Suspended \cup Operations /\ Suffices(Nothing, place)
      /\ place \notin OneAccount /\ (place \in Carrying => place = "welcome")
  BY DEF Suspended, Suffices, OneAccount, Carrying
<1>4. place = "welcome" => client[h] \in Account /\ phone[h] \in Account
  BY DEF DInv, DLocals, Carrying
<1> QED
  BY <1>1, <1>2, <1>3, <1>4, WritesOn

\* Emptying it and noting the account that is used.
LEMMA Renews ==
  ASSUME DInv, NEW h \in Handler, NEW f \in [Field -> Account \cup {Nil}],
         NEW place \in {"idle", "list_atk", "list_add", "reconnect"},
         Anew(h, f, "none", place), f["_simp_client"] = Nil, Suffices(f, place),
         place = "reconnect" => at[h] = "welcome"
  PROVE  DInv'
<1>1. Written(h, f, {}, "none", FALSE) /\ Goto(h, place)
  BY DEF Anew
<1>2. /\ Paired(f) /\ "none" \in Steps /\ Provides(f, "none")
      /\ place \in {"idle"} \cup Suspended \cup Operations
      /\ place \notin OneAccount /\ (place \in Carrying => place = "reconnect")
  BY DEF Suspended, Paired, Provides, Steps, OneAccount, Carrying
<1>3. place = "reconnect" => client[h] \in Account /\ phone[h] \in Account
  BY DEF DInv, DLocals, Carrying
<1> QED
  BY <1>1, <1>2, <1>3, WritesOn

\* Going on, or being done, without having written.
LEMMA Passes ==
  ASSUME DInv, NEW h \in Handler, NEW place \in {"idle", "resend", "scrape"}, Proceed(h, place)
  PROVE  DInv'
<1>1. /\ Goto(h, place) /\ UNCHANGED <<field, marks, step, torn>>
      /\ stale' = [stale EXCEPT ![h] = stale[h] /\ place # "idle"]
  BY DEF Proceed, state
<1>2. (stale[h] /\ place # "idle") \in BOOLEAN
  BY DEF DInv, DTypes
<1>3. /\ place \in {"idle"} \cup Suspended \cup Operations /\ Suffices(field, place)
      /\ place \notin OneAccount /\ place \notin Carrying
  BY DEF Suspended, Operations, Suffices, OneAccount, Carrying
<1>4. PICK c, p \in Account \cup {Nil} : Enter(h, place, c, p)
  BY <1>1, <1>3, GoesOn
<1> QED
  BY <1>1, <1>2, <1>3, <1>4, Continues

\* Beginning to wait, with what the handler has read.
LEMMA Waits ==
  ASSUME DInv, NEW h \in Handler, NEW place \in Suspended \cup Operations,
         NEW c \in Account \cup {Nil}, NEW p \in Account \cup {Nil}, Wait(h, place, c, p),
         Suffices(field, place), place \in OneAccount => c = p,
         place \in Carrying => c \in Account /\ p \in Account
  PROVE  DInv' /\ saved' = saved
<1>1. /\ UNCHANGED <<field, marks, step, torn>> /\ stale' = [stale EXCEPT ![h] = FALSE]
      /\ saved' = saved
      /\ Enter(h, place, c, p) \/ (place \notin Keeps /\ Enter(h, place, Nil, Nil))
  BY DEF Wait, state
<1>2. CASE Enter(h, place, c, p)
  BY <1>1, <1>2, Continues
<1>3. CASE place \notin Keeps /\ Enter(h, place, Nil, Nil)
  <2>1. place \notin OneAccount /\ place \notin Carrying
    BY <1>3 DEF OneAccount, Carrying, Keeps
  <2> QED
    BY <1>1, <1>3, <2>1, Continues
<1> QED
  BY <1>1, <1>2, <1>3

-----------------------------------------------------------------------------
(* The handlers.                                                            *)

LEMMA MenuSteps ==
  ASSUME DInv, saved \subseteq Account, NEW h \in Handler, Menus(h)
  PROVE  DInv' /\ saved' \subseteq Account
<1>1. CASE Error(h) \/ FinderMenu(h) \/ AddAccount(h) \/ NewAccount(h) \/ Left(h)
  <2>1. /\ \E s \in {"none", "number", "finder", "upload"} : Empty(h, s, "idle")
        /\ saved' = saved
    BY <1>1 DEF Error, FinderMenu, AddAccount, NewAccount, Left
  <2> QED  BY <2>1, Empties
<1>2. CASE FirstAccount(h)
  <2>1. Write(h, field, marks, "number", "idle") /\ saved' = saved
    BY <1>2 DEF FirstAccount
  <2>2. /\ field \in [Field -> Account \cup {Nil}] /\ marks \in SUBSET Marks
        /\ "number" \in Steps /\ Paired(field) /\ Provides(field, "number")
    BY DEF DInv, DTypes, Steps, Provides
  <2> QED  BY <2>1, <2>2, Notes
<1>3. CASE Home(h) \/ StopOp(h)
  <2>1. CASE Wait(h, "leave", Nil, Nil)
    <3>1. /\ "leave" \in Suspended /\ Suffices(field, "leave")
          /\ "leave" \notin OneAccount /\ "leave" \notin Carrying
      BY DEF Suspended, Suffices, OneAccount, Carrying
    <3> QED  BY <2>1, <3>1, Waits
  <2>2. CASE Empty(h, "none", "idle") /\ saved' = saved
    BY <2>2, Empties
  <2> QED
    BY <1>3, <2>1, <2>2 DEF Home, StopOp
<1> QED
  BY <1>1, <1>2, <1>3 DEF Menus

\* Connecting, for an account that is listed.
LEMMA Connecting ==
  ASSUME DInv, NEW h \in Handler, NEW a \in Account,
         NEW place \in {"connect_simple", "connect_live", "connect"}, Wait(h, place, a, a)
  PROVE  DInv' /\ saved' = saved
<1>1. place \in Suspended \cup Operations /\ Suffices(field, place)
  BY DEF Suspended, Suffices
<1> QED
  BY <1>1, Waits

LEMMA SimpleSteps ==
  ASSUME DInv, saved \subseteq Account, NEW h \in Handler,
         \/ \E a \in Account : PickSimple(h, a)
         \/ Simple(h) \/ Unconnected(h) \/ StartSimple(h) \/ BeginSimple(h)
         \/ EndSimple(h)
  PROVE  DInv' /\ saved' \subseteq Account
<1>1. /\ field \in [Field -> Account \cup {Nil}] /\ marks \in SUBSET Marks
      /\ step \in Steps /\ Paired(field) /\ (torn \/ Provides(field, step))
      /\ client[h] \in Account \cup {Nil} /\ phone[h] \in Account \cup {Nil} /\ DLocals(h)
  BY DEF DInv, DTypes
<1>2. CASE \E a \in Account : PickSimple(h, a)
  <2>1. PICK a \in Account : Wait(h, "connect_simple", a, a)
    BY <1>2 DEF PickSimple
  <2> QED  BY <2>1, Connecting
<1>3. CASE Simple(h)
  <2> DEFINE f == [field EXCEPT !["_simp_client"] = client[h], !["_simp_phone"] = phone[h]]
  <2>1. at[h] = "connect_simple" /\ Write(h, f, marks, step, "idle") /\ saved' = saved
    BY <1>3 DEF Simple, Put
  <2>2. client[h] = phone[h]
    BY <1>1, <2>1 DEF DLocals, OneAccount
  <2>3. /\ f \in [Field -> Account \cup {Nil}] /\ f["_simp_client"] = client[h]
        /\ f["_simp_phone"] = phone[h] /\ \A x \in {"new_client", "phone", "atk", "add_client"} :
                                             f[x] = field[x]
    BY <1>1, Keys
  <2> HIDE DEF f
  <2>4. Paired(f)
    BY <2>2, <2>3 DEF Paired
  <2>5. torn \/ Provides(f, step)
    BY <1>1, <2>3 DEF Provides
  <2> QED  BY <1>1, <2>1, <2>3, <2>4, <2>5, Notes
<1>4. CASE Unconnected(h)
  <2>1. Proceed(h, "idle") /\ saved' = saved
    BY <1>4 DEF Unconnected
  <2> QED  BY <2>1, Passes
<1>5. CASE StartSimple(h)
  <2>1. /\ field["_simp_client"] # Nil
        /\ Wait(h, "to_simple", field["_simp_client"], field["_simp_phone"])
    BY <1>5 DEF StartSimple, Has
  <2>2. /\ field["_simp_client"] \in Account \cup {Nil} /\ field["_simp_phone"] \in Account \cup {Nil}
        /\ field["_simp_client"] = field["_simp_phone"]
    BY <1>1, <2>1, Keys DEF Paired
  <2>3. /\ "to_simple" \in Suspended \cup Operations /\ Suffices(field, "to_simple")
        /\ "to_simple" \notin Carrying
    BY DEF Suspended, Suffices, Carrying
  <2> QED  BY <2>1, <2>2, <2>3, Waits
<1>6. CASE BeginSimple(h)
  <2>1. /\ at[h] = "to_simple" /\ saved' = saved
        /\ Write(h, field, marks \cup {"add_in_progress"}, step, "simple")
    BY <1>6 DEF BeginSimple, Mark
  <2>2. client[h] = phone[h] /\ marks \cup {"add_in_progress"} \in SUBSET Marks
    BY <1>1, <2>1 DEF DLocals, OneAccount, Marks
  <2> QED  BY <1>1, <2>1, <2>2, Notes
<1>7. CASE EndSimple(h)
  <2> DEFINE f == [field EXCEPT !["_simp_client"] = Nil]
  <2>1. Write(h, f, marks \ {"add_in_progress"}, step, "idle") /\ saved' = saved
    BY <1>7 DEF EndSimple, With
  <2>2. /\ f \in [Field -> Account \cup {Nil}] /\ f["_simp_client"] = Nil
        /\ \A x \in {"new_client", "phone", "atk", "add_client"} : f[x] = field[x]
    BY <1>1, Keys
  <2> HIDE DEF f
  <2>3. Paired(f)
    BY <2>2 DEF Paired
  <2>4. torn \/ Provides(f, step)
    BY <1>1, <2>2 DEF Provides
  <2>5. marks \ {"add_in_progress"} \in SUBSET Marks
    BY <1>1
  <2> QED  BY <1>1, <2>1, <2>2, <2>3, <2>4, <2>5, Notes
<1> QED
  BY <1>2, <1>3, <1>4, <1>5, <1>6, <1>7

LEMMA DirectSteps ==
  ASSUME DInv, saved \subseteq Account, NEW h \in Handler,
         \/ \E a \in Account : PickLive(h, a)
         \/ Live(h) \/ LiveSource(h) \/ StartDirect(h) \/ BeginDirect(h)
         \/ EndDirect(h)
  PROVE  DInv' /\ saved' \subseteq Account
<1>1. /\ field \in [Field -> Account \cup {Nil}] /\ marks \in SUBSET Marks
      /\ step \in Steps /\ Paired(field) /\ (torn \/ Provides(field, step))
      /\ client[h] \in Account \cup {Nil} /\ phone[h] \in Account \cup {Nil} /\ DLocals(h)
  BY DEF DInv, DTypes
<1>2. CASE \E a \in Account : PickLive(h, a)
  <2>1. PICK a \in Account : Wait(h, "connect_live", a, a)
    BY <1>2 DEF PickLive
  <2> QED  BY <2>1, Connecting
<1>3. CASE Live(h)
  <2> DEFINE f == [field EXCEPT !["_live_client"] = client[h], !["_live_phone"] = phone[h]]
  <2>1. Write(h, f, marks, step, "idle") /\ saved' = saved
    BY <1>3 DEF Live, Put
  <2>2. /\ f \in [Field -> Account \cup {Nil}]
        /\ \A x \in {"_simp_client", "_simp_phone", "new_client", "phone", "atk", "add_client"} :
             f[x] = field[x]
    BY <1>1, Keys
  <2> HIDE DEF f
  <2>3. Paired(f)
    BY <1>1, <2>2 DEF Paired
  <2>4. torn \/ Provides(f, step)
    BY <1>1, <2>2 DEF Provides
  <2> QED  BY <1>1, <2>1, <2>2, <2>3, <2>4, Notes
<1>4. CASE LiveSource(h)
  <2> DEFINE f == [field EXCEPT !["add_client"] = field["_live_client"],
                                !["phone"] = field["_live_phone"]]
  <2>1. /\ field["_live_client"] # Nil /\ field["_live_phone"] # Nil /\ saved' = saved
        /\ Write(h, f, marks \cup {"live_source_gid"}, step, "idle")
    BY <1>4 DEF LiveSource, Has
  <2>2. /\ f \in [Field -> Account \cup {Nil}] /\ f["add_client"] # Nil /\ f["phone"] # Nil
        /\ \A x \in {"_simp_client", "_simp_phone", "new_client", "atk"} : f[x] = field[x]
    BY <1>1, <2>1, Keys
  <2> HIDE DEF f
  <2>3. Paired(f)
    BY <1>1, <2>2 DEF Paired
  <2>4. torn \/ Provides(f, step)
    BY <1>1, <2>2 DEF Provides
  <2>5. marks \cup {"live_source_gid"} \in SUBSET Marks
    BY <1>1 DEF Marks
  <2> QED  BY <1>1, <2>1, <2>2, <2>3, <2>4, <2>5, Notes
<1>5. CASE StartDirect(h)
  <2>1. Wait(h, "to_direct", field["add_client"], field["phone"])
    BY <1>5 DEF StartDirect
  <2>2. field["add_client"] \in Account \cup {Nil} /\ field["phone"] \in Account \cup {Nil}
    BY <1>1, Keys
  <2>3. /\ "to_direct" \in Suspended \cup Operations /\ Suffices(field, "to_direct")
        /\ "to_direct" \notin OneAccount /\ "to_direct" \notin Carrying
    BY DEF Suspended, Suffices, OneAccount, Carrying
  <2> QED  BY <2>1, <2>2, <2>3, Waits
<1>6. CASE BeginDirect(h)
  <2>1. CASE Write(h, field, marks \cup {"add_in_progress"}, step, "direct") /\ saved' = saved
    <3>1. marks \cup {"add_in_progress"} \in SUBSET Marks
      BY <1>1 DEF Marks
    <3> QED  BY <1>1, <2>1, <3>1, Notes
  <2>2. CASE Proceed(h, "idle") /\ saved' = saved
    BY <2>2, Passes
  <2> QED
    BY <1>6, <2>1, <2>2 DEF BeginDirect, Mark
<1>7. CASE EndDirect(h)
  <2>1. /\ Write(h, field, marks \ {"add_in_progress", "live_source_gid"}, step, "idle")
        /\ saved' = saved
    BY <1>7 DEF EndDirect, Mark
  <2>2. marks \ {"add_in_progress", "live_source_gid"} \in SUBSET Marks
    BY <1>1
  <2> QED  BY <1>1, <2>1, <2>2, Notes
<1> QED
  BY <1>2, <1>3, <1>4, <1>5, <1>6, <1>7

LEMMA QuickSteps ==
  ASSUME DInv, saved \subseteq Account, NEW h \in Handler,
         \/ \E a \in Account : PickQuick(h, a)
         \/ Quick(h) \/ QuickGroup(h) \/ QuickGroupFound(h) \/ QuickByHand(h)
         \/ StartQuick(h) \/ EndQuick(h)
  PROVE  DInv' /\ saved' \subseteq Account
<1>1. /\ field \in [Field -> Account \cup {Nil}] /\ marks \in SUBSET Marks
      /\ step \in Steps /\ Paired(field) /\ (torn \/ Provides(field, step))
      /\ client[h] \in Account \cup {Nil} /\ (torn \/ stale[h]) \in BOOLEAN
  BY DEF DInv, DTypes
<1>2. \A x \in {"quick_client", "quick_phone"}, a \in Account \cup {Nil} :
        LET f == [field EXCEPT ![x] = a]
        IN  f \in [Field -> Account \cup {Nil}] /\ Paired(f) /\ (torn \/ Provides(f, step))
  <2> SUFFICES ASSUME NEW x \in {"quick_client", "quick_phone"}, NEW a \in Account \cup {Nil},
                      NEW f, f = [field EXCEPT ![x] = a]
               PROVE  f \in [Field -> Account \cup {Nil}] /\ Paired(f) /\ (torn \/ Provides(f, step))
    OBVIOUS
  <2>1. /\ f \in [Field -> Account \cup {Nil}]
        /\ \A y \in {"_simp_client", "_simp_phone", "new_client", "phone", "atk", "add_client"} :
             f[y] = field[y]
    BY <1>1, Keys
  <2> QED  BY <1>1, <2>1 DEF Paired, Provides
<1>3. /\ marks \cup {"quick_gid"} \in SUBSET Marks
      /\ field["quick_client"] \in Account \cup {Nil} /\ field["quick_phone"] \in Account \cup {Nil}
  BY <1>1, Keys DEF Marks
<1>4. CASE \E a \in Account : PickQuick(h, a)
  <2>1. PICK a \in Account :
          /\ Written(h, [field EXCEPT !["quick_phone"] = a], marks, step, torn \/ stale[h])
          /\ Enter(h, "connect_quick", a, a) /\ saved' = saved
    BY <1>4 DEF PickQuick, With
  <2> DEFINE f == [field EXCEPT !["quick_phone"] = a]
  <2>2. f \in [Field -> Account \cup {Nil}] /\ Paired(f) /\ (torn \/ stale[h] \/ Provides(f, step))
    BY <1>2
  <2> HIDE DEF f
  <2>3. "connect_quick" \in Suspended /\ Suffices(f, "connect_quick")
    BY DEF Suspended, Suffices
  <2>4. Written(h, f, marks, step, torn \/ stale[h])
    BY <2>1 DEF f
  <2> QED  BY <1>1, <2>1, <2>2, <2>3, <2>4, Writes
<1>5. CASE Quick(h)
  <2>1. Write(h, [field EXCEPT !["quick_client"] = client[h]], marks, step, "idle") /\ saved' = saved
    BY <1>5 DEF Quick, Put, With
  <2> DEFINE f == [field EXCEPT !["quick_client"] = client[h]]
  <2>2. f \in [Field -> Account \cup {Nil}] /\ Paired(f) /\ (torn \/ stale[h] \/ Provides(f, step))
    BY <1>1, <1>2
  <2>3. Write(h, f, marks, step, "idle")
    BY <2>1
  <2> HIDE DEF f
  <2> QED  BY <1>1, <2>1, <2>2, <2>3, Notes
<1>6. CASE QuickGroup(h)
  <2>1. CASE Empty(h, "none", "idle") /\ saved' = saved
    BY <2>1, Empties
  <2>2. CASE Wait(h, "quick_group", field["quick_client"], Nil)
    <3>1. /\ "quick_group" \in Suspended /\ Suffices(field, "quick_group")
          /\ "quick_group" \notin OneAccount /\ "quick_group" \notin Carrying
      BY DEF Suspended, Suffices, OneAccount, Carrying
    <3> QED  BY <1>3, <2>2, <3>1, Waits
  <2> QED
    BY <1>6, <2>1, <2>2 DEF QuickGroup
<1>7. CASE QuickGroupFound(h) \/ QuickByHand(h)
  <2>1. CASE Write(h, field, marks \cup {"quick_gid"}, step, "idle") /\ saved' = saved
    BY <1>1, <1>3, <2>1, Notes
  <2>2. CASE Proceed(h, "idle") /\ saved' = saved
    BY <2>2, Passes
  <2>3. CASE Empty(h, "none", "idle") /\ saved' = saved
    BY <2>3, Empties
  <2> QED
    BY <1>7, <2>1, <2>2, <2>3 DEF QuickGroupFound, QuickByHand, Mark
<1>8. CASE StartQuick(h)
  <2>1. CASE Empty(h, "none", "idle") /\ saved' = saved
    BY <2>1, Empties
  <2>2. CASE Wait(h, "quick", field["quick_client"], field["quick_phone"])
    <3>1. /\ "quick" \in Suspended \cup Operations /\ Suffices(field, "quick")
          /\ "quick" \notin OneAccount /\ "quick" \notin Carrying
      BY DEF Operations, Suffices, OneAccount, Carrying
    <3> QED  BY <1>3, <2>2, <3>1, Waits
  <2> QED
    BY <1>8, <2>1, <2>2 DEF StartQuick
<1>9. CASE EndQuick(h)
  <2>1. Proceed(h, "idle") /\ saved' = saved
    BY <1>9 DEF EndQuick
  <2> QED  BY <2>1, Passes
<1> QED
  BY <1>4, <1>5, <1>6, <1>7, <1>8, <1>9

LEMMA AccountSteps ==
  ASSUME Nil \notin Account, DInv, saved \subseteq Account, NEW h \in Handler,
         \/ \E a \in Account : UseAccount(h, a)
         \/ Taken(h) \/ Used(h) \/ Listed(h)
  PROVE  DInv' /\ saved' \subseteq Account
<1>1. /\ field \in [Field -> Account \cup {Nil}] /\ marks \in SUBSET Marks
      /\ Paired(field) /\ (torn \/ Provides(field, step)) /\ DLocals(h)
  BY DEF DInv, DTypes
<1>2. at[h] = "connect" => client[h] \in Account /\ phone[h] \in Account
  BY <1>1 DEF DLocals, Carrying
<1>3. CASE \E a \in Account : UseAccount(h, a)
  <2>1. PICK a \in Account : Wait(h, "connect", a, a)
    BY <1>3 DEF UseAccount
  <2> QED  BY <2>1, Connecting
<1>4. CASE Taken(h)
  <2> DEFINE f == [Nothing EXCEPT !["phone"] = phone[h]]
  <2>1. at[h] = "connect" /\ Anew(h, f, "none", "idle") /\ saved' = saved
    BY <1>4 DEF Taken
  <2>2. f \in [Field -> Account \cup {Nil}] /\ f["_simp_client"] = Nil
    BY <1>2, <2>1, Keys DEF Nothing
  <2> HIDE DEF f
  <2>3. Suffices(f, "idle")
    BY DEF Suffices
  <2> QED  BY <2>1, <2>2, <2>3, Renews
<1>5. CASE Used(h)
  <2>1. PICK x \in {"atk", "add_client"} :
          /\ at[h] = "connect" /\ saved' = saved
          /\ Anew(h, [Nothing EXCEPT !["phone"] = phone[h], ![x] = client[h]], "none",
                    IF x = "atk" THEN "list_atk" ELSE "list_add")
    BY <1>5 DEF Used
  <2> DEFINE f == [Nothing EXCEPT !["phone"] = phone[h], ![x] = client[h]]
             place == IF x = "atk" THEN "list_atk" ELSE "list_add"
  <2>2. f \in [Field -> Account \cup {Nil}] /\ f["_simp_client"] = Nil /\ f[x] \in Account
    BY <1>2, <2>1, Keys DEF Nothing
  <2>3. Anew(h, f, "none", place)
    BY <2>1
  <2> HIDE DEF f
  <2>4. Suffices(f, place) /\ place \in {"idle", "list_atk", "list_add", "reconnect"}
        /\ place # "reconnect"
    BY <2>2 DEF Suffices
  <2> QED  BY <2>1, <2>2, <2>3, <2>4, Renews
<1>6. CASE Listed(h)
  <2>1. CASE Proceed(h, "idle") /\ saved' = saved
    BY <2>1, Passes
  <2>2. CASE \E s \in {"target", "adder_target"} :
               saved' = saved /\ Write(h, field, marks, s, "idle")
    <3>1. \A s \in {"target", "adder_target"} : s \in Steps /\ Provides(field, s)
      BY DEF Steps, Provides
    <3> QED  BY <1>1, <2>2, <3>1, Notes
  <2> QED
    BY <1>6, <2>1, <2>2 DEF Listed
<1> QED
  BY <1>3, <1>4, <1>5, <1>6

\* The messages of a sign-in: the number is noted before the code is asked for,
\* and the client that asked for it before the message that says so.
LEMMA SignInSteps ==
  ASSUME Nil \notin Account, DInv, saved \subseteq Account, NEW h \in Handler, SignIn(h)
  PROVE  DInv' /\ saved' \subseteq Account
<1>1. /\ field \in [Field -> Account \cup {Nil}] /\ marks \in SUBSET Marks
      /\ step \in Steps /\ Paired(field) /\ (torn \/ Provides(field, step)) /\ DLocals(h)
      /\ (torn \/ stale[h]) \in BOOLEAN
  BY DEF DInv, DTypes
<1>2. at[h] \in Carrying => client[h] \in Account /\ phone[h] \in Account
  BY <1>1 DEF DLocals
<1>3. CASE \E a \in Account : Number(h, a)
  <2>1. PICK a \in Account : Number(h, a)
    BY <1>3
  <2>2. CASE Empty(h, "none", "idle") /\ saved' = saved
    BY <2>2, Empties
  <2>3. CASE /\ Written(h, [field EXCEPT !["phone"] = a], marks, step, torn \/ stale[h])
             /\ Enter(h, "number", a, a) /\ saved' = saved /\ step = "number"
    <3> DEFINE f == [field EXCEPT !["phone"] = a]
    <3>1. /\ f \in [Field -> Account \cup {Nil}] /\ f["phone"] = a
          /\ f["_simp_client"] = field["_simp_client"] /\ f["_simp_phone"] = field["_simp_phone"]
      BY <1>1, Keys
    <3>2. Written(h, f, marks, step, torn \/ stale[h])
      BY <2>3
    <3> HIDE DEF f
    <3>3. /\ Paired(f) /\ Provides(f, step) /\ Suffices(f, "number") /\ "number" \in Suspended
          /\ "number" \notin OneAccount
      BY <1>1, <2>3, <3>1 DEF Paired, Provides, Suffices, Suspended, OneAccount
    <3> QED  BY <1>1, <2>3, <3>1, <3>2, <3>3, Writes
  <2> QED
    BY <2>1, <2>2, <2>3 DEF Number, With
<1>4. CASE CodeSent(h)
  <2> DEFINE f == [field EXCEPT !["new_client"] = client[h]]
  <2>1. at[h] = "number" /\ Write(h, f, marks, "code", "idle") /\ saved' = saved
    BY <1>4 DEF CodeSent, With
  <2>2. client[h] \in Account
    BY <1>2, <2>1 DEF Carrying
  <2>3. /\ f \in [Field -> Account \cup {Nil}] /\ f["new_client"] = client[h]
        /\ \A x \in {"_simp_client", "_simp_phone", "phone"} : f[x] = field[x]
    BY <1>1, <2>2, Keys
  <2> HIDE DEF f
  <2>4. Paired(f) /\ "code" \in Steps
    BY <1>1, <2>3 DEF Paired, Steps
  <2>5. torn \/ stale[h] \/ Provides(f, "code")
    BY <1>1, <2>1, <2>2, <2>3 DEF Provides, DLocals, Suffices
  <2> QED  BY <1>1, <2>1, <2>3, <2>4, <2>5, Notes
<1>5. CASE NoCode(h)
  <2>1. Empty(h, "none", "idle") /\ saved' = saved
    BY <1>5 DEF NoCode
  <2> QED  BY <2>1, Empties
<1>6. CASE Code(h) \/ Password(h)
  <2>1. CASE Empty(h, "none", "idle") /\ saved' = saved
    BY <2>1, Empties
  <2>2. ASSUME NEW place \in {"sign_in", "check_password"}, Has("new_client"), Has("phone"),
               Wait(h, place, field["new_client"], field["phone"])
        PROVE  DInv' /\ saved' = saved
    <3>1. field["new_client"] \in Account /\ field["phone"] \in Account
      BY <1>1, <2>2, Keys DEF Has
    <3>2. place \in Suspended \cup Operations /\ Suffices(field, place) /\ place \notin OneAccount
      BY <2>2 DEF Suspended, Suffices, OneAccount, Has
    <3> QED  BY <2>2, <3>1, <3>2, Waits
  <2> QED
    BY <1>6, <2>1, <2>2 DEF Code, Password, Reply
<1>7. CASE NeedsPassword(h)
  <2>1. at[h] = "sign_in" /\ Write(h, field, marks, "password", "idle") /\ saved' = saved
    BY <1>7 DEF NeedsPassword
  <2>2. "password" \in Steps /\ (torn \/ stale[h] \/ Provides(field, "password"))
    BY <1>1, <2>1 DEF Steps, Provides, DLocals, Suffices
  <2> QED  BY <1>1, <2>1, <2>2, Notes
<1>8. CASE Expired(h) \/ WrongAnswer(h)
  <2>1. \E place \in {"idle", "resend"} : Proceed(h, place) /\ saved' = saved
    BY <1>8 DEF Expired, WrongAnswer
  <2> QED  BY <2>1, Passes
<1>9. CASE Resent(h)
  <2>1. Write(h, field, marks, step, "idle") /\ saved' = saved
    BY <1>9 DEF Resent, Put
  <2> QED  BY <1>1, <2>1, Notes
<1>10. CASE Accepted(h)
  <2>1. /\ at[h] \in {"sign_in", "check_password"} /\ saved' = saved \cup {phone[h]}
        /\ \E place \in {"idle", "welcome"} :
             Empty(h, "none", place) /\ (place = "welcome" => at[h] = "sign_in")
    BY <1>10 DEF Accepted
  <2>2. phone[h] \in Account
    BY <1>2, <2>1 DEF Carrying
  <2> QED  BY <2>1, <2>2, Empties
<1>11. CASE Welcome(h)
  <2> DEFINE f == [Nothing EXCEPT !["phone"] = phone[h]]
  <2>1. at[h] = "welcome" /\ Anew(h, f, "none", "reconnect") /\ saved' = saved
    BY <1>11 DEF Welcome
  <2>2. phone[h] \in Account
    BY <1>2, <2>1 DEF Carrying
  <2>3. f \in [Field -> Account \cup {Nil}] /\ f["_simp_client"] = Nil
    BY <2>2, Keys DEF Nothing
  <2> HIDE DEF f
  <2>4. Suffices(f, "reconnect")
    BY DEF Suffices
  <2> QED  BY <2>1, <2>3, <2>4, Renews
<1>12. CASE Reconnected(h)
  <2>1. at[h] = "reconnect" /\ saved' = saved
    BY <1>12 DEF Reconnected
  <2>2. phone[h] \in Account
    BY <1>2, <2>1 DEF Carrying
  <2>3. CASE Write(h, [field EXCEPT !["atk"] = phone[h]], marks, "none", "idle")
    <3> DEFINE f == [field EXCEPT !["atk"] = phone[h]]
    <3>1. /\ f \in [Field -> Account \cup {Nil}]
          /\ f["_simp_client"] = field["_simp_client"] /\ f["_simp_phone"] = field["_simp_phone"]
      BY <1>1, <2>2, Keys
    <3>2. Write(h, f, marks, "none", "idle")
      BY <2>3
    <3> HIDE DEF f
    <3>3. Paired(f) /\ Provides(f, "none") /\ "none" \in Steps
      BY <1>1, <3>1 DEF Paired, Provides, Steps
    <3> QED  BY <1>1, <2>1, <3>1, <3>2, <3>3, Notes
  <2>4. CASE Write(h, [field EXCEPT !["add_client"] = phone[h]], marks, step, "idle")
    <3> DEFINE f == [field EXCEPT !["add_client"] = phone[h]]
    <3>1. /\ f \in [Field -> Account \cup {Nil}] /\ f["add_client"] = phone[h]
          /\ \A x \in {"_simp_client", "_simp_phone", "new_client", "phone", "atk"} : f[x] = field[x]
      BY <1>1, <2>2, Keys
    <3>2. Write(h, f, marks, step, "idle")
      BY <2>4
    <3> HIDE DEF f
    <3>3. Paired(f)
      BY <1>1, <3>1 DEF Paired
    <3>4. torn \/ Provides(f, step)
      BY <1>1, <2>2, <3>1 DEF Provides
    <3> QED  BY <1>1, <2>1, <3>1, <3>2, <3>3, <3>4, Notes
  <2> QED
    BY <1>12, <2>1, <2>3, <2>4 DEF Reconnected, Put, With
<1> QED
  BY <1>3, <1>4, <1>5, <1>6, <1>7, <1>8, <1>9, <1>10, <1>11, <1>12 DEF SignIn

\* Waiting where nothing is carried and nothing promised.
LEMMA IdleWaits ==
  ASSUME DInv, NEW h \in Handler, NEW c \in Account \cup {Nil}, NEW p \in Account \cup {Nil},
         NEW place \in {"find_target", "check_target", "adder_target", "scrape", "finder",
                        "instagram", "upload"}, Wait(h, place, c, p)
  PROVE  DInv' /\ saved' = saved
<1>1. /\ place \in Suspended \cup Operations /\ Suffices(field, place)
      /\ place \notin OneAccount /\ place \notin Carrying
  BY DEF Suspended, Operations, Suffices, OneAccount, Carrying
<1> QED
  BY <1>1, Waits

LEMMA TargetSteps ==
  ASSUME Nil \notin Account, DInv, saved \subseteq Account, NEW h \in Handler, Targets(h)
  PROVE  DInv' /\ saved' \subseteq Account
<1>1. /\ field \in [Field -> Account \cup {Nil}] /\ marks \in SUBSET Marks
      /\ step \in Steps /\ Paired(field) /\ (torn \/ Provides(field, step)) /\ DLocals(h)
      /\ torn \in BOOLEAN
  BY DEF DInv, DTypes
<1>2. /\ \A x \in {"atk", "add_client", "phone"} : field[x] \in Account \cup {Nil}
  BY <1>1, Keys
<1>3. CASE TargetByHand(h) \/ AddTargetByHand(h)
  <2>1. PICK s \in {"target", "adder_target"} : ByHand(h, s)
    BY <1>3 DEF TargetByHand, AddTargetByHand
  <2>2. Write(h, field, marks, s, "idle") /\ saved' = saved
    BY <2>1 DEF ByHand
  <2>3. s \in Steps /\ (torn \/ stale[h] \/ Provides(field, s))
    BY <2>1 DEF Steps, Provides
  <2> QED  BY <1>1, <2>2, <2>3, Notes
<1>4. CASE AttackTarget(h) \/ Target(h) \/ AddTarget(h) \/ AdderTarget(h)
  <2>1. CASE Empty(h, "none", "idle") /\ saved' = saved
    BY <2>1, Empties
  <2>2. CASE Wait(h, "find_target", field["atk"], field["phone"])
    BY <1>2, <2>2, IdleWaits
  <2>3. CASE \E place \in {"check_target", "adder_target"} :
               Wait(h, place, field["add_client"], Nil)
    BY <1>2, <2>3, IdleWaits
  <2> QED
    BY <1>4, <2>1, <2>2, <2>3 DEF AttackTarget, Target, AddTarget, AdderTarget
<1>5. CASE TargetFound(h) \/ AdderTargetFound(h)
  <2>1. \E place \in {"idle", "scrape"} : Proceed(h, place) /\ saved' = saved
    BY <1>5 DEF TargetFound, AdderTargetFound
  <2> QED  BY <2>1, Passes
<1>6. CASE EndScrape(h)
  <2>1. Empty(h, "none", "idle") /\ saved' = saved
    BY <1>6 DEF EndScrape
  <2> QED  BY <2>1, Empties
<1>7. CASE Retry(h)
  <2>1. CASE Wait(h, "scrape", field["atk"], field["phone"])
    BY <1>2, <2>1, IdleWaits
  <2>2. CASE field["phone"] # Nil /\ Wait(h, "retry", field["phone"], field["phone"])
    <3>1. field["phone"] \in Account
      BY <1>2, <2>2
    <3>2. "retry" \in Suspended \cup Operations /\ Suffices(field, "retry")
      BY DEF Suspended, Suffices
    <3> QED  BY <2>2, <3>1, <3>2, Waits
  <2> QED
    BY <1>7, <2>1, <2>2 DEF Retry, Has
<1>8. CASE Retried(h)
  <2> DEFINE f == [field EXCEPT !["atk"] = client[h]]
  <2>1. at[h] = "retry" /\ Write(h, f, marks, step, "scrape") /\ saved' = saved
    BY <1>8 DEF Retried, Put, With
  <2>2. client[h] \in Account
    BY <1>1, <2>1 DEF DLocals, Carrying
  <2>3. /\ f \in [Field -> Account \cup {Nil}] /\ f["atk"] = client[h]
        /\ \A x \in {"_simp_client", "_simp_phone", "new_client", "phone", "add_client"} :
             f[x] = field[x]
    BY <1>1, <2>2, Keys
  <2> HIDE DEF f
  <2>4. Paired(f)
    BY <1>1, <2>3 DEF Paired
  <2>5. torn \/ Provides(f, step)
    BY <1>1, <2>2, <2>3 DEF Provides
  <2> QED  BY <1>1, <2>1, <2>3, <2>4, <2>5, Notes
<1>9. CASE TargetChecked(h)
  <2>1. CASE Write(h, field, marks, step, "idle") /\ saved' = saved
    BY <1>1, <2>1, Notes
  <2>2. CASE Proceed(h, "idle") /\ saved' = saved
    BY <2>2, Passes
  <2> QED
    BY <1>9, <2>1, <2>2 DEF TargetChecked, Put
<1> QED
  BY <1>3, <1>4, <1>5, <1>6, <1>7, <1>8, <1>9 DEF Targets

LEMMA OtherSteps ==
  ASSUME DInv, saved \subseteq Account, NEW h \in Handler, Others(h)
  PROVE  DInv' /\ saved' \subseteq Account
<1>1. /\ field \in [Field -> Account \cup {Nil}] /\ marks \in SUBSET Marks /\ Paired(field)
  BY DEF DInv, DTypes
<1>2. CASE Find(h) \/ Instagram(h) \/ Upload(h)
  <2>1. CASE \E place \in {"finder", "instagram", "upload"} : Wait(h, place, Nil, Nil)
    BY <2>1, IdleWaits
  <2>2. CASE Empty(h, "none", "idle") /\ saved' = saved
    BY <2>2, Empties
  <2> QED
    BY <1>2, <2>1, <2>2 DEF Find, Instagram, Upload
<1>3. CASE Found(h) \/ InstagramDone(h)
  <2>1. Empty(h, "none", "idle") /\ saved' = saved
    BY <1>3 DEF Found, InstagramDone
  <2> QED  BY <2>1, Empties
<1>4. CASE InstagramMenu(h) \/ Uploaded(h)
  <2>1. ASSUME NEW s \in {"instagram", "upload"}, Write(h, field, marks, s, "idle")
        PROVE  DInv'
    <3>1. s \in Steps /\ Provides(field, s)
      BY DEF Steps, Provides
    <3> QED  BY <1>1, <2>1, <3>1, Notes
  <2>2. \/ saved' = saved /\ \E s \in {"instagram", "upload"} : Write(h, field, marks, s, "idle")
        \/ Empty(h, "none", "idle") /\ \E new \in SUBSET Account : saved' = saved \cup new
    BY <1>4 DEF InstagramMenu, Uploaded
  <2>3. CASE Empty(h, "none", "idle") /\ \E new \in SUBSET Account : saved' = saved \cup new
    BY <2>3, Empties
  <2> QED
    BY <2>1, <2>2, <2>3
<1> QED
  BY <1>2, <1>3, <1>4 DEF Others

-----------------------------------------------------------------------------
(* The inductive invariant of the dialogue.                                 *)

DialogueInv == DInv /\ saved \subseteq Account

LEMMA InitDialogue == DialogueInit => DialogueInv
<1> SUFFICES ASSUME DialogueInit
             PROVE  DialogueInv
  OBVIOUS
<1>1. /\ field = Nothing /\ marks = {} /\ step = "none" /\ saved \in SUBSET Account
      /\ at = [h \in Handler |-> "idle"] /\ stale = [h \in Handler |-> FALSE] /\ torn = FALSE
      /\ client = [h \in Handler |-> Nil] /\ phone = [h \in Handler |-> Nil]
  BY DEF DialogueInit
<1>2. DTypes
  BY <1>1 DEF DTypes, Nothing, Steps
<1>3. Paired(field) /\ Provides(field, step)
  BY <1>1, Keys DEF Paired, Provides, Nothing
<1>4. \A h \in Handler : DLocals(h)
  BY <1>1 DEF DLocals, OneAccount, Carrying, Suffices
<1> QED
  BY <1>1, <1>2, <1>3, <1>4 DEF DialogueInv, DInv

LEMMA NextDialogue ==
  ASSUME Nil \notin Account
  PROVE  DialogueInv /\ [DialogueNext]_dialogueVars => DialogueInv'
<1> SUFFICES ASSUME DInv, saved \subseteq Account, [DialogueNext]_dialogueVars
             PROVE  DInv' /\ saved' \subseteq Account
  BY DEF DialogueInv
<1>1. CASE UNCHANGED dialogueVars
  <2>1. /\ field' = field /\ marks' = marks /\ step' = step /\ saved' = saved /\ at' = at
        /\ client' = client /\ phone' = phone /\ stale' = stale /\ torn' = torn
    BY <1>1 DEF dialogueVars
  <2>2. \A h \in Handler : DLocals(h)'
    BY <2>1 DEF DInv, DLocals, Suffices
  <2> QED
    BY <2>1, <2>2 DEF DInv, DTypes, Paired, Provides
<1>2. CASE DialogueNext
  <2>1. PICK h \in Handler : Menus(h) \/ Adds(h) \/ SignIn(h) \/ Targets(h) \/ Others(h)
    BY <1>2 DEF DialogueNext
  <2>2. CASE Adds(h)
    <3>1. \/ \E a \in Account : PickSimple(h, a)
          \/ \E a \in Account : PickLive(h, a)
          \/ \E a \in Account : PickQuick(h, a)
          \/ \E a \in Account : UseAccount(h, a)
          \/ Simple(h) \/ Unconnected(h) \/ StartSimple(h) \/ BeginSimple(h) \/ EndSimple(h)
          \/ Live(h) \/ LiveSource(h) \/ StartDirect(h) \/ BeginDirect(h) \/ EndDirect(h)
          \/ Quick(h) \/ QuickGroup(h) \/ QuickGroupFound(h) \/ QuickByHand(h)
          \/ StartQuick(h) \/ EndQuick(h)
          \/ Taken(h) \/ Used(h) \/ Listed(h)
      BY <2>2 DEF Adds
    <3> QED
      BY <3>1, SimpleSteps, DirectSteps, QuickSteps, AccountSteps
  <2> QED
    BY <2>1, <2>2, MenuSteps, SignInSteps, TargetSteps, OtherSteps
<1> QED
  BY <1>1, <1>2

LEMMA DialogueInvariance ==
  DialogueSpec => []DialogueInv
<1>1. DialogueInv /\ [DialogueNext]_dialogueVars => DialogueInv'
  BY NextDialogue, ConversationAssumption
<1> QED
  BY <1>1, InitDialogue, PTL DEF DialogueSpec

\* atk_state and the locals of the handlers keep their types, at whatever await
\* a handler is suspended and whoever writes meanwhile.
THEOREM DialogueTypes ==
  DialogueSpec => []DialogueTypeOK
<1>1. DialogueInv => DialogueTypeOK
  BY DEF DialogueInv, DInv, DTypes, DialogueTypeOK
<1> QED
  BY <1>1, DialogueInvariance, PTL

\* _execute_simple_add books on the account whose client it uses, however many
\* buttons were pressed while clients connected: both keys of atk_state are
\* written together, and read together.
THEOREM SimpleAddsAreBooked ==
  DialogueSpec => []SimpleBooked
<1>1. DialogueInv => SimpleBooked
  BY DEF DialogueInv, DInv, DLocals, OneAccount, SimpleBooked
<1> QED
  BY <1>1, DialogueInvariance, PTL

\* A code or a password finds the client and the phone of a sign-in, unless a
\* handler that was overtaken has written since atk_state was last emptied.
THEOREM StepsAreServed ==
  DialogueSpec => []StepServed
<1>1. DialogueInv => StepServed
  <2> SUFFICES ASSUME torn \/ Provides(field, step)
               PROVE  StepServed
    BY DEF DialogueInv, DInv
  <2> QED
    BY DEF Provides, StepServed, Has
<1> QED
  BY <1>1, DialogueInvariance, PTL
=============================================================================
