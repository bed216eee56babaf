--------------------------- MODULE MembersProofs ----------------------------
(***************************************************************************)
(* What is proved of the way of the members: from the chats into the list       *)
(* (Scraping) and from the list into a group (ParallelAdd).                  *)
(*                                                                         *)
(* Scraping, for any members, chats, scrapers and jobs.  That what is stored     *)
(* keeps its true source, and that nothing found is lost by a report, rests on  *)
(* who runs on a scraper (OneScrape) and on where what it holds comes from       *)
(* (Sourced).                                                               *)
(*                                                                         *)
(* ParallelAdd, for any finite sets of accounts and members.  TypeOK is not     *)
(* inductive: a worker that puts its member back appends hand[a] to the queue,   *)
(* and only HandMatchesPlace says that the hand is not empty there.  The two    *)
(* are proved together (Placed), and everything else is proved on top of them.  *)
(***************************************************************************)
EXTENDS ParallelAdd, Scraping, TLAPS, FiniteSetTheorems, SequenceTheorems

-----------------------------------------------------------------------------
(* Filling the list (Scraping): the scrapes, their scrapers and the list.    *)

\* A job that runs has its scraper and its chat; a scraper that is new has
\* nobody, and nobody runs on it.
JobsPlaced ==
  \A j \in Job : Running(j) => on[j] \in Scraper /\ kind[j] \in Kinds /\ chat[j] \in Chat

Unused ==
  \A s \in Scraper : object[s] = "new" =>
    found[s] = Nothing /\ \A j \in Job : Running(j) => on[j] # s

\* Two jobs on a scraper that is not mixed are workers of one parallel scrape.
OneScrape ==
  ~mixed => \A i, j \in Job : Running(i) /\ Running(j) /\ on[i] = on[j] =>
    i = j \/ (kind[i] = "par" /\ kind[j] = "par" /\ chat[i] = chat[j])

\* What a scraper holds comes from the chat of its job; a parallel scrape
\* begins with the list, and those of it keep their source or have been removed.
Sourced ==
  faults = 0 /\ ~mixed => \A j \in Job, u \in User : Running(j) =>
    \/ found[on[j]][u] \in {Absent, Source(j)}
    \/ kind[j] = "par" /\ (members[u] # Absent \/ u \in dna)

ScrapingInv == ScrapingTypeOK /\ JobsPlaced /\ Unused /\ OneScrape /\ Sourced /\ GoneForGood

\* The action properties of Scraping, step by step.
RightStep ==
  \A u \in User : members'[u] # members[u] /\ members'[u] \in Chat /\ faults' = 0
    => mixed \/ \E s \in Scraper : members'[u] \in {found[s][u], found'[s][u]}

SavedStep ==
  \A j \in Job : st[j] # "done" /\ st'[j] = "done" /\ kind[j] # "web" /\ faults' = 0
    => Found(on[j]) \subseteq Stored' \cup dna

\* What of ScrapingAssumption the proofs use.
ScrapingConstants ==
  /\ Absent \notin Chat /\ Unsourced \notin Chat \cup {Absent} /\ Every \in Nat \ {0}
  /\ MaxFaults \in Nat

LEMMA ConstantsHold == ScrapingConstants
BY ScrapingAssumption DEF ScrapingConstants

-----------------------------------------------------------------------------
(* What a save does to the list.                                            *)

\* Without an error those of U who may be added are stored, the others stay as
\* they are.
Stores(U, c) ==
  /\ members' \in [User -> Chat \cup {Absent, Unsourced}]
  /\ faults' \in 0 .. MaxFaults /\ faults <= faults'
  /\ faults' = 0 => \A u \in User :
       members'[u] = IF members[u] = Absent /\ u \in U \ dna THEN c ELSE members[u]

LEMMA SaveStores ==
  ASSUME ScrapingConstants, ScrapingTypeOK, NEW U \in SUBSET User, NEW c \in Chat \cup {Unsourced},
         Save(U, c)
  PROVE  Stores(U, c)
<1>1. /\ members \in [User -> Chat \cup {Absent, Unsourced}] /\ faults \in 0 .. MaxFaults
      /\ MaxFaults \in Nat
  BY DEF ScrapingTypeOK, ScrapingConstants
<1>2. CASE Insert(Kept(U), c) /\ UNCHANGED faults
  <2>1. members' = [u \in User |-> IF members[u] = Absent /\ u \in U \ dna THEN c ELSE members[u]]
    BY <1>2 DEF Insert, Kept
  <2> QED  BY <1>1, <1>2, <2>1 DEF Stores
<1>3. CASE Insert(U, c) /\ Fault
  <2>1. members' = [u \in User |-> IF members[u] = Absent /\ u \in U THEN c ELSE members[u]]
    BY <1>3 DEF Insert
  <2>2. faults < MaxFaults /\ faults' = faults + 1
    BY <1>3 DEF Fault
  <2> QED  BY <1>1, <2>1, <2>2 DEF Stores
<1>4. CASE UNCHANGED members /\ Fault
  <2>1. faults < MaxFaults /\ faults' = faults + 1 /\ members' = members
    BY <1>4 DEF Fault
  <2> QED  BY <1>1, <2>1 DEF Stores
<1> QED
  BY <1>2, <1>3, <1>4 DEF Save

LEMMA NoSaveStores ==
  ASSUME ScrapingConstants, ScrapingTypeOK, UNCHANGED <<members, faults>>
  PROVE  \A c : Stores({}, c)
BY DEF ScrapingTypeOK, ScrapingConstants, Stores

\* Nobody comes back by a save, and nobody of the list is lost.
LEMMA StoresKeep ==
  ASSUME ScrapingTypeOK, GoneForGood, NEW U \in SUBSET User, NEW c \in Chat \cup {Unsourced},
         ScrapingConstants, Stores(U, c), dna' = dna
  PROVE  /\ GoneForGood'
         /\ faults' = 0 => faults = 0 /\ \A u \in User : members[u] # Absent => members'[u] # Absent
<1>1. c # Absent /\ faults \in Nat /\ faults' \in Nat
  BY DEF ScrapingConstants, ScrapingTypeOK, Stores
<1>2. faults' = 0 => faults = 0
  BY <1>1 DEF Stores
<1>3. GoneForGood'
  <2> SUFFICES ASSUME faults' = 0, NEW u \in User, members'[u] # Absent
               PROVE  u \notin dna
    BY DEF GoneForGood, Stored
  <2>1. \A v \in User : members[v] # Absent => v \notin dna
    BY <1>2 DEF GoneForGood, Stored
  <2> QED
    BY <2>1 DEF Stores
<1>4. faults' = 0 => \A u \in User : members[u] # Absent => members'[u] # Absent
  BY <1>1 DEF Stores
<1> QED
  BY <1>2, <1>3, <1>4

\* A save of what the scraper of j holds, for the source of j.
LEMMA StoresRight ==
  ASSUME ScrapingInv, ScrapingConstants, NEW j \in Job, Running(j), NEW U \in SUBSET User,
         NEW c \in Chat \cup {Unsourced}, Stores(U, c), c \in Chat => c = Source(j),
         \A u \in U : found[on[j]][u] # Absent \/ found'[on[j]][u] = Source(j)
  PROVE  RightStep
<1> SUFFICES ASSUME NEW u \in User, members'[u] # members[u], members'[u] \in Chat, faults' = 0,
                    ~mixed
             PROVE  \E s \in Scraper : members'[u] \in {found[s][u], found'[s][u]}
  BY DEF RightStep
<1>1. faults = 0
  BY DEF Stores, ScrapingInv, ScrapingTypeOK, ScrapingConstants
<1>2. members[u] = Absent /\ u \in U \ dna /\ members'[u] = c
  BY DEF Stores
<1>3. members'[u] = Source(j) /\ on[j] \in Scraper
  BY <1>2 DEF ScrapingInv, JobsPlaced
<1>4. found[on[j]][u] \in {Absent, Source(j)}
  BY <1>1, <1>2 DEF ScrapingInv, Sourced
<1>5. found[on[j]][u] = Source(j) \/ found'[on[j]][u] = Source(j)
  BY <1>2, <1>4
<1> QED
  BY <1>3, <1>5

\* A save of all that the scraper holds leaves nobody in memory only.
LEMMA StoresAll ==
  ASSUME ScrapingTypeOK, ScrapingConstants, NEW s \in Scraper, NEW c \in Chat \cup {Unsourced},
         Stores(Found(s), c), faults' = 0
  PROVE  Found(s) \subseteq Stored' \cup dna
<1>1. c # Absent
  BY DEF ScrapingConstants
<1> SUFFICES ASSUME NEW u \in User, u \in Found(s), u \notin dna
             PROVE  members'[u] # Absent
  BY DEF Found, Stored
<1> QED
  BY <1>1 DEF Stores

-----------------------------------------------------------------------------
(* Who runs after a step, and with what in its scraper.                     *)

\* Jobs go on as they were or end, and scrapers hold what they held, what a
\* job of theirs has found, or nothing.
JobsGoOn ==
  /\ \A j \in Job : Running(j)' =>
       Running(j) /\ kind'[j] = kind[j] /\ chat'[j] = chat[j] /\ on'[j] = on[j]
  /\ \A s \in Scraper : object'[s] = "new" => object[s] = "new" /\ found'[s] = found[s]
  /\ mixed => mixed'
  /\ \A s \in Scraper, u \in User :
       \/ found'[s][u] \in {Absent, found[s][u]}
       \/ \E j \in Job : Running(j) /\ on[j] = s /\ found'[s][u] = Source(j)

\* Nobody disappears from the list under a parallel scrape but those who are
\* to be left out.
ListStays ==
  faults' = 0 /\ ~mixed' => faults = 0 /\ \A u \in User :
    members[u] # Absent \/ u \in dna =>
      \/ members'[u] # Absent \/ u \in dna'
      \/ \A j \in Job : Running(j) => kind[j] # "par"

LEMMA JobsKept ==
  ASSUME ScrapingInv, JobsGoOn, ListStays
  PROVE  (JobsPlaced /\ Unused /\ OneScrape /\ Sourced)'
<1>1. JobsPlaced /\ Unused /\ OneScrape /\ Sourced
  BY DEF ScrapingInv
<1>2. JobsPlaced'
  <2> SUFFICES ASSUME NEW j \in Job, Running(j)'
               PROVE  on'[j] \in Scraper /\ kind'[j] \in Kinds /\ chat'[j] \in Chat
    BY DEF JobsPlaced
  <2>1. Running(j) /\ kind'[j] = kind[j] /\ chat'[j] = chat[j] /\ on'[j] = on[j]
    BY DEF JobsGoOn
  <2> QED  BY <1>1, <2>1 DEF JobsPlaced
<1>3. Unused'
  <2> SUFFICES ASSUME NEW s \in Scraper, object'[s] = "new"
               PROVE  found'[s] = Nothing /\ \A j \in Job : Running(j)' => on'[j] # s
    BY DEF Unused, Nothing
  <2>1. object[s] = "new" /\ found'[s] = found[s]
    BY DEF JobsGoOn
  <2> QED  BY <1>1, <2>1 DEF JobsGoOn, Unused
<1>4. OneScrape'
  <2> SUFFICES ASSUME ~mixed', NEW i \in Job, NEW j \in Job, Running(i)', Running(j)',
                      on'[i] = on'[j]
               PROVE  i = j \/ (kind'[i] = "par" /\ kind'[j] = "par" /\ chat'[i] = chat'[j])
    BY DEF OneScrape
  <2>1. /\ Running(i) /\ kind'[i] = kind[i] /\ chat'[i] = chat[i] /\ on'[i] = on[i]
        /\ Running(j) /\ kind'[j] = kind[j] /\ chat'[j] = chat[j] /\ on'[j] = on[j] /\ ~mixed
    BY DEF JobsGoOn
  <2> QED  BY <1>1, <2>1 DEF OneScrape
<1>5. Sourced'
  <2> SUFFICES ASSUME faults' = 0, ~mixed', NEW j \in Job, NEW u \in User, Running(j)'
               PROVE  \/ found'[on'[j]][u] \in {Absent, Source(j)'}
                      \/ kind'[j] = "par" /\ (members'[u] # Absent \/ u \in dna')
    BY DEF Sourced
  <2>1. /\ Running(j) /\ kind'[j] = kind[j] /\ chat'[j] = chat[j] /\ on'[j] = on[j] /\ ~mixed
    BY DEF JobsGoOn
  <2>2. Source(j)' = Source(j) /\ on[j] \in Scraper
    BY <1>1, <2>1 DEF Source, JobsPlaced
  <2>3. \/ found'[on[j]][u] \in {Absent, found[on[j]][u]}
        \/ \E i \in Job : Running(i) /\ on[i] = on[j] /\ found'[on[j]][u] = Source(i)
    BY <2>2 DEF JobsGoOn
  <2>4. \A i \in Job : Running(i) /\ on[i] = on[j] => Source(i) = Source(j)
    BY <1>1, <2>1 DEF OneScrape, Source
  <2>5. faults = 0
    BY DEF ListStays
  <2>6. \/ found[on[j]][u] \in {Absent, Source(j)}
        \/ kind[j] = "par" /\ (members[u] # Absent \/ u \in dna)
    BY <1>1, <2>1, <2>5 DEF Sourced
  <2>7. CASE kind[j] = "par" /\ (members[u] # Absent \/ u \in dna)
    <3>1. members'[u] # Absent \/ u \in dna'
      BY <2>1, <2>7 DEF ListStays
    <3> QED  BY <2>1, <2>7, <3>1
  <2>8. CASE found[on[j]][u] \in {Absent, Source(j)}
    BY <2>1, <2>2, <2>3, <2>4, <2>8
  <2> QED
    BY <2>6, <2>7, <2>8
<1> QED
  BY <1>2, <1>3, <1>4, <1>5

\* A save, as far as the list is concerned.
LEMMA ListKept ==
  ASSUME ScrapingInv, ScrapingConstants, NEW U \in SUBSET User, NEW c \in Chat \cup {Unsourced},
         Stores(U, c), dna' = dna
  PROVE  ListStays /\ GoneForGood'
<1>1. ScrapingTypeOK /\ GoneForGood
  BY DEF ScrapingInv
<1>2. /\ GoneForGood'
      /\ faults' = 0 => faults = 0 /\ \A u \in User : members[u] # Absent => members'[u] # Absent
  BY <1>1, StoresKeep
<1> QED
  BY <1>2 DEF ListStays

LEMMA ListSame ==
  ASSUME ScrapingInv, UNCHANGED <<members, dna, faults>>
  PROVE  ListStays /\ GoneForGood' /\ RightStep
<1>1. members' = members /\ dna' = dna /\ faults' = faults
  OBVIOUS
<1> QED
  BY <1>1 DEF ListStays, ScrapingInv, GoneForGood, Stored, RightStep

\* What a job that runs is known to have.
LEMMA JobFacts ==
  ASSUME ScrapingInv, NEW j \in Job, Running(j)
  PROVE  /\ on[j] \in Scraper /\ chat[j] \in Chat /\ kind[j] \in Kinds
         /\ Source(j) \in Chat \cup {Unsourced}
         /\ Found(on[j]) \in SUBSET User /\ object[on[j]] # "new"
BY DEF ScrapingInv, JobsPlaced, Unused, Source, Found

\* What the end of a job changes, with the types it had.
WellTyped ==
  /\ kind' \in [Job -> Kinds \cup {"none"}] /\ chat' \in [Job -> Chat \cup {Absent}]
  /\ on' \in [Job -> Scraper \cup {Absent}]
  /\ st' \in [Job -> {"idle", "resolve", "run", "save", "done", "failed"}]
  /\ found' \in [Scraper -> [User -> Chat \cup {Absent, Unsourced}]]
  /\ existing' \in [Scraper -> SUBSET User]
  /\ count' \in [Scraper -> 0 .. Every - 1] /\ stop' \in [Scraper -> BOOLEAN]

\* The ends of jobs.
LEMMA Ends ==
  ASSUME ScrapingInv, NEW J \in SUBSET Job, NEW s \in Scraper, NEW end \in {"done", "failed"},
         EndJobs(J, s, end), ScrapingConstants,
         \A x \in Scraper : object'[x] = "new" => object[x] = "new", object[s] # "new",
         UNCHANGED mixed
  PROVE  /\ JobsGoOn /\ WellTyped
         /\ \A j \in Job : st[j] # "done" /\ st'[j] = "done" => j \in J /\ end = "done"
<1>1. /\ st' = [j \in Job |-> IF j \in J THEN end ELSE st[j]]
      /\ kind' = [j \in Job |-> IF j \in J THEN "none" ELSE kind[j]]
      /\ chat' = [j \in Job |-> IF j \in J THEN Absent ELSE chat[j]]
      /\ on' = [j \in Job |-> IF j \in J THEN Absent ELSE on[j]]
  BY DEF EndJobs
<1>2. \/ found' = found /\ existing' = existing /\ count' = count /\ stop' = stop
      \/ /\ found' = [found EXCEPT ![s] = Nothing] /\ existing' = [existing EXCEPT ![s] = {}]
         /\ count' = [count EXCEPT ![s] = 0] /\ stop' = [stop EXCEPT ![s] = FALSE]
  BY DEF EndJobs
<1>3. ScrapingTypeOK
  BY DEF ScrapingInv
<1>4. /\ kind' \in [Job -> Kinds \cup {"none"}] /\ chat' \in [Job -> Chat \cup {Absent}]
      /\ on' \in [Job -> Scraper \cup {Absent}]
      /\ st' \in [Job -> {"idle", "resolve", "run", "save", "done", "failed"}]
  BY <1>1, <1>3 DEF ScrapingTypeOK
<1>5. 0 \in 0 .. Every - 1
  BY DEF ScrapingConstants
<1>6. Nothing \in [User -> Chat \cup {Absent, Unsourced}] /\ \A u \in User : Nothing[u] = Absent
  BY DEF Nothing
<1>7. /\ found' \in [Scraper -> [User -> Chat \cup {Absent, Unsourced}]]
      /\ existing' \in [Scraper -> SUBSET User]
      /\ count' \in [Scraper -> 0 .. Every - 1] /\ stop' \in [Scraper -> BOOLEAN]
  <2>1. /\ found \in [Scraper -> [User -> Chat \cup {Absent, Unsourced}]]
        /\ existing \in [Scraper -> SUBSET User]
        /\ count \in [Scraper -> 0 .. Every - 1] /\ stop \in [Scraper -> BOOLEAN]
    BY <1>3 DEF ScrapingTypeOK
  <2> DEFINE nobody == Nothing
             turns == 0 .. Every - 1
  <2>2. /\ nobody \in [User -> Chat \cup {Absent, Unsourced}] /\ 0 \in turns
        /\ count \in [Scraper -> turns]
    BY <1>5, <1>6, <2>1
  <2>3. \/ found' = found /\ existing' = existing /\ count' = count /\ stop' = stop
        \/ /\ found' = [found EXCEPT ![s] = nobody] /\ existing' = [existing EXCEPT ![s] = {}]
           /\ count' = [count EXCEPT ![s] = 0] /\ stop' = [stop EXCEPT ![s] = FALSE]
    BY <1>2
  <2> HIDE DEF nobody, turns
  <2>4. /\ found' \in [Scraper -> [User -> Chat \cup {Absent, Unsourced}]]
        /\ existing' \in [Scraper -> SUBSET User]
        /\ count' \in [Scraper -> turns] /\ stop' \in [Scraper -> BOOLEAN]
    BY <2>1, <2>2, <2>3
  <2> QED
    BY <2>4 DEF turns
<1>8. \A x \in Scraper : found'[x] = found[x] \/ (x = s /\ found'[x] = Nothing)
  BY <1>2, <1>3 DEF ScrapingTypeOK
<1>9. \A j \in Job : Running(j)' =>
        Running(j) /\ kind'[j] = kind[j] /\ chat'[j] = chat[j] /\ on'[j] = on[j]
  BY <1>1 DEF Running
<1>10. JobsGoOn
  <2>1. \A x \in Scraper : object'[x] = "new" => object[x] = "new" /\ found'[x] = found[x]
    BY <1>8
  <2>2. \A x \in Scraper, u \in User : found'[x][u] \in {Absent, found[x][u]}
    BY <1>6, <1>8
  <2> QED
    BY <1>9, <2>1, <2>2 DEF JobsGoOn
<1>11. \A j \in Job : st[j] # "done" /\ st'[j] = "done" => j \in J /\ end = "done"
  BY <1>1
<1> QED
  BY <1>4, <1>7, <1>10, <1>11 DEF WellTyped

LEMMA Leaving ==
  ASSUME ScrapingInv, NEW j \in Job, Running(j), object' = Left(j)
  PROVE  /\ object' \in [Scraper -> {"new", "open", "dropped", "closed"}]
         /\ \A x \in Scraper : object'[x] = "new" => object[x] = "new"
<1>1. object \in [Scraper -> {"new", "open", "dropped", "closed"}] /\ on[j] \in Scraper
  BY JobFacts DEF ScrapingInv, ScrapingTypeOK
<1>2. object' \in {object, [object EXCEPT ![on[j]] = "dropped"], [object EXCEPT ![on[j]] = "closed"]}
  BY DEF Left
<1> QED
  BY <1>1, <1>2

-----------------------------------------------------------------------------
(* The steps of a job.                                                      *)

\* All that a step has to keep.
KeepsAll == ScrapingInv' /\ RightStep /\ SavedStep

LEMMA Resolves ==
  ASSUME ScrapingInv, ScrapingConstants, NEW j \in Job, Resolve(j)
  PROVE  KeepsAll
<1>1. /\ st[j] = "resolve" /\ st' = [st EXCEPT ![j] = "run"]
      /\ UNCHANGED <<members, dna, faults>> /\ UNCHANGED <<object, found, existing, count, stop, mixed>>
      /\ UNCHANGED <<kind, chat, on>>
  BY DEF Resolve, store, scraper
<1>2. ListStays /\ GoneForGood' /\ RightStep
  BY <1>1, ListSame
<1>3. \A i \in Job : st'[i] = IF i = j THEN "run" ELSE st[i]
  BY <1>1 DEF ScrapingInv, ScrapingTypeOK
<1>4. JobsGoOn
  <2>1. \A i \in Job : Running(i)' => Running(i)
    BY <1>1, <1>3 DEF Running
  <2> QED  BY <1>1, <2>1 DEF JobsGoOn
<1>5. ScrapingTypeOK'
  BY <1>1 DEF ScrapingInv, ScrapingTypeOK
<1>6. SavedStep
  BY <1>3 DEF SavedStep
<1> QED
  BY <1>2, <1>4, <1>5, <1>6, JobsKept DEF ScrapingInv, KeepsAll

LEMMA NotReached ==
  ASSUME ScrapingInv, ScrapingConstants, NEW j \in Job, Unreachable(j)
  PROVE  KeepsAll
<1>1. /\ st[j] = "resolve" /\ object' = Left(j) /\ UNCHANGED <<members, dna, mixed, faults>>
  BY DEF Unreachable, store
<1>2. Running(j)
  BY <1>1 DEF Running
<1>3. /\ object' \in [Scraper -> {"new", "open", "dropped", "closed"}]
      /\ \A x \in Scraper : object'[x] = "new" => object[x] = "new"
  BY <1>1, <1>2, Leaving
<1>4. on[j] \in Scraper /\ object[on[j]] # "new"
  BY <1>2, JobFacts
<1>5. ListStays /\ GoneForGood' /\ RightStep
  BY <1>1, ListSame
<1>6. ScrapingTypeOK
  BY DEF ScrapingInv
<1>7. CASE EndJobs({j}, on[j], "failed")
  <2>1. /\ JobsGoOn /\ WellTyped
        /\ \A i \in Job : ~(st[i] # "done" /\ st'[i] = "done")
    BY <1>1, <1>3, <1>4, <1>7, Ends
  <2>2. ScrapingTypeOK'
    BY <1>1, <1>3, <1>6, <2>1 DEF ScrapingTypeOK, WellTyped
  <2>3. SavedStep
    BY <2>1 DEF SavedStep
  <2> QED
    BY <1>5, <2>1, <2>2, <2>3, JobsKept DEF ScrapingInv, KeepsAll
<1>8. CASE /\ st' = [st EXCEPT ![j] = "save"]
           /\ UNCHANGED <<found, existing, count, stop, kind, chat, on>>
  <2>1. \A i \in Job : st'[i] = IF i = j THEN "save" ELSE st[i]
    BY <1>6, <1>8 DEF ScrapingTypeOK
  <2>2. JobsGoOn
    <3>1. \A i \in Job : Running(i)' => Running(i)
      BY <1>2, <2>1 DEF Running
    <3> QED  BY <1>1, <1>3, <1>8, <3>1 DEF JobsGoOn
  <2>3. ScrapingTypeOK'
    BY <1>1, <1>3, <1>6, <1>8 DEF ScrapingTypeOK
  <2>4. SavedStep
    BY <2>1 DEF SavedStep
  <2> QED
    BY <1>5, <2>2, <2>3, <2>4, JobsKept DEF ScrapingInv, KeepsAll
<1> QED
  BY <1>7, <1>8 DEF Unreachable

\* A job breaks off, or its caller cannot save: what the scraper holds is lost,
\* and nothing is reported.
LEMMA BreaksOff ==
  ASSUME ScrapingInv, ScrapingConstants, NEW j \in Job, Break(j) \/ CannotSave(j)
  PROVE  KeepsAll
<1>1. /\ Running(j) /\ object' = Left(j) /\ UNCHANGED <<members, dna, mixed, faults>>
      /\ EndJobs({j}, on[j], "failed")
  BY DEF Break, CannotSave, Working, Running, store
<1>2. /\ object' \in [Scraper -> {"new", "open", "dropped", "closed"}]
      /\ \A x \in Scraper : object'[x] = "new" => object[x] = "new"
  BY <1>1, Leaving
<1>3. on[j] \in Scraper /\ object[on[j]] # "new"
  BY <1>1, JobFacts
<1>4. ListStays /\ GoneForGood' /\ RightStep
  BY <1>1, ListSame
<1>5. /\ JobsGoOn /\ WellTyped
      /\ \A i \in Job : ~(st[i] # "done" /\ st'[i] = "done")
  BY <1>1, <1>2, <1>3, Ends
<1>6. ScrapingTypeOK
  BY DEF ScrapingInv
<1>7. ScrapingTypeOK'
  BY <1>1, <1>2, <1>5, <1>6 DEF ScrapingTypeOK, WellTyped
<1>8. SavedStep
  BY <1>5 DEF SavedStep
<1> QED
  BY <1>4, <1>5, <1>7, <1>8, JobsKept DEF ScrapingInv, KeepsAll

\* A find: what the scraper gets comes from the chat of the job, and the save
\* that may come with it stores this find for the same source.
LEMMA NewFind ==
  ASSUME ScrapingInv, NEW j \in Job, Running(j), NEW u \in User,
         found' = [found EXCEPT ![on[j]][u] = Source(j)],
         UNCHANGED <<object, mixed, kind, chat, on, st>>
  PROVE  /\ found' \in [Scraper -> [User -> Chat \cup {Absent, Unsourced}]]
         /\ JobsGoOn /\ found'[on[j]][u] = Source(j)
<1>1. /\ found \in [Scraper -> [User -> Chat \cup {Absent, Unsourced}]] /\ on[j] \in Scraper
      /\ Source(j) \in Chat \cup {Unsourced} /\ object[on[j]] # "new"
  BY JobFacts DEF ScrapingInv, ScrapingTypeOK
<1> DEFINE s == on[j]
           held == [found[s] EXCEPT ![u] = Source(j)]
<1>2. held \in [User -> Chat \cup {Absent, Unsourced}] /\ held[u] = Source(j)
  BY <1>1
<1>3. \A v \in User : held[v] \in {found[s][v], Source(j)}
  BY <1>1
<1>4. found' = [found EXCEPT ![s] = held]
  OBVIOUS
<1>5. s \in Scraper /\ object[s] # "new"
  BY <1>1
<1> HIDE DEF held, s
<1>6. /\ found' \in [Scraper -> [User -> Chat \cup {Absent, Unsourced}]]
      /\ found'[s] = held /\ \A x \in Scraper : x # s => found'[x] = found[x]
  BY <1>1, <1>2, <1>4, <1>5
<1>7. \A i \in Job : Running(i)' => Running(i)
  BY DEF Running
<1>8. \A x \in Scraper : object'[x] = "new" => object[x] = "new" /\ found'[x] = found[x]
  BY <1>5, <1>6
<1>9. \A x \in Scraper, v \in User :
        \/ found'[x][v] \in {Absent, found[x][v]}
        \/ Running(j) /\ on[j] = x /\ found'[x][v] = Source(j)
  <2> SUFFICES ASSUME NEW x \in Scraper, NEW v \in User
               PROVE  \/ found'[x][v] = found[x][v]
                      \/ on[j] = x /\ found'[x][v] = Source(j)
    OBVIOUS
  <2>1. CASE x = s
    BY <1>3, <1>6, <2>1 DEF s
  <2>2. CASE x # s
    BY <1>6, <2>2
  <2> QED  BY <2>1, <2>2
<1>10. JobsGoOn
  BY <1>7, <1>8, <1>9 DEF JobsGoOn
<1> QED
  BY <1>2, <1>6, <1>10 DEF s

LEMMA Finds ==
  ASSUME ScrapingInv, ScrapingConstants, NEW j \in Job, NEW u \in User, Find(j, u)
  PROVE  KeepsAll
<1>1. /\ st[j] = "run" /\ found' = [found EXCEPT ![on[j]][u] = Source(j)]
      /\ SaveOnFind(j, u) /\ UNCHANGED <<dna, object, existing, stop, mixed>>
      /\ UNCHANGED <<kind, chat, on, st>>
  BY DEF Find, Working, job
<1>2. Running(j)
  BY <1>1 DEF Running
<1>3. /\ found' \in [Scraper -> [User -> Chat \cup {Absent, Unsourced}]]
      /\ JobsGoOn /\ found'[on[j]][u] = Source(j)
  BY <1>1, <1>2, NewFind
<1>4. /\ on[j] \in Scraper /\ Source(j) \in Chat \cup {Unsourced}
      /\ Found(on[j]) \in SUBSET User /\ ScrapingTypeOK
  BY <1>2, JobFacts DEF ScrapingInv
<1>5. count' \in [Scraper -> 0 .. Every - 1]
  <2>1. count \in [Scraper -> 0 .. Every - 1] /\ Every \in Nat \ {0}
    BY <1>4 DEF ScrapingTypeOK, ScrapingConstants
  <2>2. count' = count \/ count' = [count EXCEPT ![on[j]] = (count[on[j]] + 1) % Every]
    BY <1>1 DEF SaveOnFind
  <2>3. (count[on[j]] + 1) % Every \in 0 .. Every - 1
    BY <1>4, <2>1
  <2> QED
    BY <1>4, <2>1, <2>2, <2>3
<1>6. PICK U \in SUBSET User :
        Stores(U, Source(j)) /\ \A v \in U : v = u \/ found[on[j]][v] # Absent
  <2>1. CASE Save(Found(on[j]) \cup {u}, Source(j))
    <3>1. Found(on[j]) \cup {u} \in SUBSET User
      BY <1>4
    <3>2. Stores(Found(on[j]) \cup {u}, Source(j))
      BY <1>4, <2>1, <3>1, SaveStores
    <3>3. \A v \in Found(on[j]) \cup {u} : v = u \/ found[on[j]][v] # Absent
      BY DEF Found
    <3> QED
      BY <3>1, <3>2, <3>3
  <2>2. CASE UNCHANGED <<members, faults>>
    <3>1. Stores({}, Source(j))
      BY <1>4, <2>2, NoSaveStores
    <3> QED
      BY <3>1
  <2> QED
    BY <1>1, <2>1, <2>2 DEF SaveOnFind
<1>7. ListStays /\ GoneForGood'
  BY <1>1, <1>4, <1>6, ListKept
<1>8. RightStep
  <2>1. \A v \in U : found[on[j]][v] # Absent \/ found'[on[j]][v] = Source(j)
    BY <1>3, <1>6
  <2> QED
    BY <1>2, <1>4, <1>6, <2>1, StoresRight
<1>9. SavedStep
  BY <1>1 DEF SavedStep
<1>10. ScrapingTypeOK'
  <2>1. members' \in [User -> Chat \cup {Absent, Unsourced}] /\ faults' \in 0 .. MaxFaults
    BY <1>6 DEF Stores
  <2> QED
    BY <1>1, <1>3, <1>4, <1>5, <2>1 DEF ScrapingTypeOK
<1> QED
  BY <1>3, <1>7, <1>8, <1>9, <1>10, JobsKept DEF ScrapingInv, KeepsAll

LEMMA FindsReactor ==
  ASSUME ScrapingInv, ScrapingConstants, NEW j \in Job, NEW u \in User, FindReactor(j, u)
  PROVE  KeepsAll
<1>1. /\ st[j] = "run" /\ found' = [found EXCEPT ![on[j]][u] = Source(j)]
      /\ UNCHANGED <<members, dna, faults>> /\ UNCHANGED <<object, existing, count, stop, mixed>>
      /\ UNCHANGED <<kind, chat, on, st>>
  BY DEF FindReactor, Working, job, store
<1>2. Running(j)
  BY <1>1 DEF Running
<1>3. found' \in [Scraper -> [User -> Chat \cup {Absent, Unsourced}]] /\ JobsGoOn
  BY <1>1, <1>2, NewFind
<1>4. ListStays /\ GoneForGood' /\ RightStep
  BY <1>1, ListSame
<1>5. ScrapingTypeOK' /\ SavedStep
  BY <1>1, <1>3 DEF ScrapingInv, ScrapingTypeOK, SavedStep
<1> QED
  BY <1>3, <1>4, <1>5, JobsKept DEF ScrapingInv, KeepsAll

\* A step of a job that changes nothing but its plan, its place and the list.
LEMMA PlanStep ==
  ASSUME ScrapingInv, ScrapingConstants, NEW j \in Job, Running(j), NEW place \in {"run", "save"},
         st' = [st EXCEPT ![j] = place], NEW U \in SUBSET User, NEW c \in Chat \cup {Unsourced},
         Stores(U, c), \A u \in U : found[on[j]][u] # Absent, c \in Chat => c = Source(j),
         UNCHANGED <<dna, object, found, existing, count, stop, mixed, kind, chat, on>>
  PROVE  KeepsAll
<1>1. ListStays /\ GoneForGood'
  BY ListKept
<1>2. RightStep
  BY StoresRight
<1>3. ScrapingTypeOK
  BY DEF ScrapingInv
<1>4. \A i \in Job : st'[i] = IF i = j THEN place ELSE st[i]
  BY <1>3 DEF ScrapingTypeOK
<1>5. JobsGoOn
  <2>1. \A i \in Job : Running(i)' => Running(i)
    BY <1>4 DEF Running
  <2> QED  BY <2>1 DEF JobsGoOn
<1>6. SavedStep
  BY <1>4 DEF SavedStep
<1>7. ScrapingTypeOK'
  <2>1. members' \in [User -> Chat \cup {Absent, Unsourced}] /\ faults' \in 0 .. MaxFaults
    BY DEF Stores
  <2>2. st' \in [Job -> {"idle", "resolve", "run", "save", "done", "failed"}]
    BY <1>3 DEF ScrapingTypeOK
  <2> QED
    BY <1>3, <2>1, <2>2 DEF ScrapingTypeOK
<1> QED
  BY <1>1, <1>2, <1>5, <1>6, <1>7, JobsKept DEF ScrapingInv, KeepsAll

LEMMA PhaseEnds ==
  ASSUME ScrapingInv, ScrapingConstants, NEW j \in Job, EndPhase(j) \/ LastSave(j)
  PROVE  KeepsAll
<1>1. /\ Running(j) /\ \E place \in {"run", "save"} : st' = [st EXCEPT ![j] = place]
      /\ UNCHANGED <<dna, object, found, existing, count, stop, mixed, kind, chat, on>>
      /\ \/ Save(Found(on[j]), Unsourced) \/ Save(Found(on[j]), Source(j))
         \/ UNCHANGED <<members, faults>>
  <2>1. CASE EndPhase(j)
    <3>1. /\ st[j] = "run" /\ st' = st
          /\ UNCHANGED <<dna, object, found, existing, count, stop, mixed, kind, chat, on>>
          /\ Save(Found(on[j]), Unsourced) \/ UNCHANGED <<members, faults>>
      BY <2>1 DEF EndPhase, Working, scraper
    <3>2. st' = [st EXCEPT ![j] = "run"]
      BY <3>1 DEF ScrapingInv, ScrapingTypeOK
    <3> QED
      BY <3>1, <3>2 DEF Running
  <2>2. CASE LastSave(j)
    BY <2>2 DEF LastSave, Running, scraper
  <2> QED
    BY <2>1, <2>2
<1>2. /\ Source(j) \in Chat \cup {Unsourced} /\ Found(on[j]) \in SUBSET User /\ ScrapingTypeOK
      /\ \A u \in Found(on[j]) : found[on[j]][u] # Absent
  BY <1>1, JobFacts DEF ScrapingInv, Found
<1>3. Unsourced \notin Chat
  BY DEF ScrapingConstants
<1>4. CASE Save(Found(on[j]), Unsourced)
  <2>1. Stores(Found(on[j]), Unsourced)
    BY <1>2, <1>4, SaveStores
  <2> QED  BY <1>1, <1>2, <1>3, <2>1, PlanStep
<1>5. CASE Save(Found(on[j]), Source(j))
  <2>1. Stores(Found(on[j]), Source(j))
    BY <1>2, <1>5, SaveStores
  <2> QED  BY <1>1, <1>2, <2>1, PlanStep
<1>6. CASE UNCHANGED <<members, faults>>
  <2>1. Stores({}, Source(j))
    BY <1>2, <1>6, NoSaveStores
  <2>2. {} \in SUBSET User /\ \A u \in {} : found[on[j]][u] # Absent
    OBVIOUS
  <2> QED  BY <1>1, <1>2, <2>1, <2>2, PlanStep
<1> QED
  BY <1>1, <1>4, <1>5, <1>6

\* The caller saves what the scraper holds, reports, and the jobs are over.
LEMMA ReportStep ==
  ASSUME ScrapingInv, ScrapingConstants, NEW J \in SUBSET Job, NEW j \in J, Running(j),
         NEW end \in {"done", "failed"}, EndJobs(J, on[j], end), \A i \in J : on[i] = on[j],
         \/ Save(Found(on[j]), Source(j))
         \/ UNCHANGED <<members, faults>> /\ (end = "done" => \A i \in J : kind[i] = "web"),
         object' \in {object, [object EXCEPT ![on[j]] = "closed"]}, UNCHANGED <<dna, mixed>>
  PROVE  KeepsAll
<1>1. ScrapingTypeOK
  BY DEF ScrapingInv
<1>2. /\ on[j] \in Scraper /\ Source(j) \in Chat \cup {Unsourced} /\ object[on[j]] # "new"
      /\ Found(on[j]) \in SUBSET User /\ \A u \in Found(on[j]) : found[on[j]][u] # Absent
  BY JobFacts DEF Found
<1>3. /\ object' \in [Scraper -> {"new", "open", "dropped", "closed"}]
      /\ \A x \in Scraper : object'[x] = "new" => object[x] = "new"
  BY <1>1, <1>2 DEF ScrapingTypeOK
<1>4. /\ JobsGoOn /\ WellTyped
      /\ \A i \in Job : st[i] # "done" /\ st'[i] = "done" => i \in J /\ end = "done"
  <2> DEFINE s == on[j]
  <2>1. /\ J \in SUBSET Job /\ s \in Scraper /\ object[s] # "new" /\ EndJobs(J, s, end)
        /\ mixed' = mixed
    BY <1>2
  <2> HIDE DEF s
  <2> QED
    BY <1>3, <2>1, Ends
<1>5. CASE Save(Found(on[j]), Source(j))
  <2>1. Stores(Found(on[j]), Source(j))
    BY <1>1, <1>2, <1>5, SaveStores
  <2>2. ListStays /\ GoneForGood'
    BY <1>2, <2>1, ListKept
  <2>3. RightStep
    BY <1>2, <2>1, StoresRight
  <2>4. SavedStep
    <3>1. faults' = 0 => Found(on[j]) \subseteq Stored' \cup dna
      BY <1>1, <1>2, <2>1, StoresAll
    <3> QED
      BY <1>4, <3>1 DEF SavedStep
  <2>5. ScrapingTypeOK'
    <3>1. members' \in [User -> Chat \cup {Absent, Unsourced}] /\ faults' \in 0 .. MaxFaults
      BY <2>1 DEF Stores
    <3> QED
      BY <1>1, <1>3, <1>4, <3>1 DEF ScrapingTypeOK, WellTyped
  <2> QED
    BY <1>4, <2>2, <2>3, <2>4, <2>5, JobsKept DEF ScrapingInv, KeepsAll
<1>6. CASE UNCHANGED <<members, faults>> /\ (end = "done" => \A i \in J : kind[i] = "web")
  <2>1. ListStays /\ GoneForGood' /\ RightStep
    BY <1>6, ListSame
  <2>2. SavedStep
    BY <1>4, <1>6 DEF SavedStep
  <2>3. ScrapingTypeOK'
    BY <1>1, <1>3, <1>4, <1>6 DEF ScrapingTypeOK, WellTyped
  <2> QED
    BY <1>4, <2>1, <2>2, <2>3, JobsKept DEF ScrapingInv, KeepsAll
<1> QED
  BY <1>5, <1>6

LEMMA Reports ==
  ASSUME ScrapingInv, ScrapingConstants, NEW j \in Job, Report(j)
  PROVE  KeepsAll
<1>1. /\ st[j] = "save" /\ EndJobs({j}, on[j], "done") /\ UNCHANGED <<dna, mixed>>
      /\ \/ kind[j] = "web" /\ UNCHANGED <<members, faults>>
         \/ Save(Found(on[j]), Source(j))
      /\ object' \in {object, [object EXCEPT ![on[j]] = "closed"]}
  BY DEF Report
<1>2. Running(j)
  BY <1>1 DEF Running
<1> QED
  BY <1>1, <1>2, ReportStep

LEMMA ReportsTogether ==
  ASSUME ScrapingInv, ScrapingConstants, NEW s \in Scraper, ReportParallel(s)
  PROVE  KeepsAll
<1> DEFINE crew == {j \in Job : kind[j] = "par" /\ on[j] = s /\ Running(j)}
           j == CHOOSE i \in crew : TRUE
<1>1. /\ crew # {} /\ object' = [object EXCEPT ![s] = "closed"] /\ UNCHANGED <<dna, mixed>>
  BY DEF ReportParallel
<1>2. PICK end \in {"done", "failed"} :
        /\ EndJobs(crew, s, end)
        /\ \/ Save(Found(s), chat[j])
           \/ end = "failed" /\ UNCHANGED <<members, faults>>
  BY DEF ReportParallel
<1>3. j \in crew
  BY <1>1
<1> HIDE DEF j
<1>4. kind[j] = "par" /\ on[j] = s /\ Running(j) /\ crew \in SUBSET Job
  BY <1>3
<1>5. Source(j) = chat[j]
  BY <1>4 DEF Source
<1>6. \A i \in crew : on[i] = on[j]
  BY <1>4
<1> HIDE DEF crew
<1> QED
  BY <1>1, <1>2, <1>3, <1>4, <1>5, <1>6, ReportStep

-----------------------------------------------------------------------------
(* The steps of the others.                                                 *)

LEMMA Stops ==
  ASSUME ScrapingInv, ScrapingConstants, NEW s \in Scraper, StopScraper(s)
  PROVE  KeepsAll
<1>1. /\ stop' = [stop EXCEPT ![s] = TRUE] /\ object' = [object EXCEPT ![s] = "dropped"]
      /\ UNCHANGED <<members, dna, faults>> /\ UNCHANGED <<found, existing, count, mixed>>
      /\ UNCHANGED <<kind, chat, on, st>>
  BY DEF StopScraper, store, job
<1>2. ListStays /\ GoneForGood' /\ RightStep
  BY <1>1, ListSame
<1>3. \A x \in Scraper : object'[x] = "new" => object[x] = "new"
  BY <1>1 DEF ScrapingInv, ScrapingTypeOK
<1>4. \A i \in Job : Running(i)' => Running(i)
  BY <1>1 DEF Running
<1>5. JobsGoOn
  BY <1>1, <1>3, <1>4 DEF JobsGoOn
<1>6. ScrapingTypeOK' /\ SavedStep
  BY <1>1 DEF ScrapingInv, ScrapingTypeOK, SavedStep
<1> QED
  BY <1>2, <1>5, <1>6, JobsKept DEF ScrapingInv, KeepsAll

\* never_add_again and the button that empties the list take members off it.
LEMMA TakesOff ==
  ASSUME ScrapingInv, ScrapingConstants, Clear \/ \E u \in User : Ban(u)
  PROVE  KeepsAll
<1>1. /\ UNCHANGED <<object, found, existing, count, stop, kind, chat, on, st, faults>>
      /\ dna \subseteq dna' /\ dna' \subseteq User
      /\ members' \in [User -> Chat \cup {Absent, Unsourced}]
      /\ \A u \in User : members'[u] \in {Absent, members[u]}
      /\ \A u \in User : u \in dna' => u \in dna \/ members'[u] = Absent
      /\ mixed' \in BOOLEAN /\ (mixed => mixed')
      /\ \/ \A u \in User : members[u] # Absent => members'[u] # Absent \/ u \in dna'
         \/ mixed' \/ \A j \in Job : Running(j) => kind[j] # "par"
  <2>1. ScrapingTypeOK
    BY DEF ScrapingInv
  <2>2. CASE Clear
    <3>1. members' = [u \in User |-> Absent] /\ dna' = dna /\ faults' = faults
      BY <2>2 DEF Clear
    <3>2. /\ mixed' = (mixed \/ \E j \in Job : kind[j] = "par" /\ Running(j))
          /\ UNCHANGED <<object, found, existing, count, stop, kind, chat, on, st>>
      BY <2>2 DEF Clear, job
    <3>3. mixed' \in BOOLEAN /\ (mixed => mixed')
          /\ (mixed' \/ \A j \in Job : Running(j) => kind[j] # "par")
      BY <2>1, <3>2 DEF ScrapingTypeOK
    <3> QED
      BY <2>1, <3>1, <3>2, <3>3 DEF ScrapingTypeOK
  <2>3. CASE \E u \in User : Ban(u)
    <3>1. PICK u \in User : dna' = dna \cup {u} /\ members' = [members EXCEPT ![u] = Absent]
      BY <2>3 DEF Ban
    <3>2. UNCHANGED <<object, found, existing, count, stop, kind, chat, on, st, faults, mixed>>
      BY <2>3 DEF Ban, scraper, job
    <3> QED
      BY <2>1, <3>1, <3>2 DEF ScrapingTypeOK
  <2> QED
    BY <2>2, <2>3
<1>2. ListStays
  BY <1>1 DEF ListStays
<1>3. GoneForGood'
  <2> SUFFICES ASSUME faults' = 0, NEW u \in User, members'[u] # Absent
               PROVE  u \notin dna'
    BY DEF GoneForGood, Stored
  <2>1. faults = 0 /\ members[u] # Absent
    BY <1>1
  <2>2. u \notin dna
    BY <2>1 DEF ScrapingInv, GoneForGood, Stored
  <2> QED
    BY <1>1, <2>2
<1>4. RightStep
  <2>1. Absent \notin Chat
    BY DEF ScrapingConstants
  <2> QED
    BY <1>1, <2>1 DEF RightStep
<1>5. \A i \in Job : Running(i)' => Running(i)
  BY <1>1 DEF Running
<1>6. JobsGoOn
  BY <1>1, <1>5 DEF JobsGoOn
<1>7. ScrapingTypeOK' /\ SavedStep
  BY <1>1 DEF ScrapingInv, ScrapingTypeOK, SavedStep
<1> QED
  BY <1>2, <1>3, <1>4, <1>6, <1>7, JobsKept DEF ScrapingInv, KeepsAll


\* Jobs J begin on the scraper s: it is new and nobody runs on it, or from now
\* on it counts as mixed.
LEMMA Begins ==
  ASSUME ScrapingInv, ScrapingConstants, NEW J \in SUBSET Job, NEW k \in Kinds, NEW c \in Chat,
         NEW s \in Scraper, k = "par" \/ \E j \in Job : J = {j}, ScrapingTypeOK',
         \A j \in J : st'[j] = "resolve" /\ kind'[j] = k /\ chat'[j] = c /\ on'[j] = s,
         \A j \in Job \ J :
           st'[j] = st[j] /\ kind'[j] = kind[j] /\ chat'[j] = chat[j] /\ on'[j] = on[j],
         object'[s] # "new", \A x \in Scraper \ {s} : object'[x] = object[x],
         mixed => mixed', ~mixed' => object[s] = "new",
         \A x \in Scraper \ {s} : found'[x] = found[x],
         found'[s] = found[s] \/ (k = "par" /\ found'[s] = members),
         UNCHANGED <<members, dna, faults>>
  PROVE  KeepsAll
<1>1. ListStays /\ GoneForGood' /\ RightStep
  BY ListSame
<1>2. JobsPlaced /\ Unused /\ OneScrape /\ Sourced
  BY DEF ScrapingInv
<1>3. \A j \in Job : Running(j)' =>
        \/ j \in J /\ kind'[j] = k /\ chat'[j] = c /\ on'[j] = s
        \/ /\ j \notin J /\ Running(j) /\ kind'[j] = kind[j] /\ chat'[j] = chat[j]
           /\ on'[j] = on[j]
  BY DEF Running
<1>4. JobsPlaced'
  BY <1>2, <1>3 DEF JobsPlaced
<1>5. Unused'
  <2> SUFFICES ASSUME NEW x \in Scraper, object'[x] = "new"
               PROVE  found'[x] = Nothing /\ \A j \in Job : Running(j)' => on'[j] # x
    BY DEF Unused, Nothing
  <2>1. x # s /\ object[x] = "new" /\ found'[x] = found[x]
    OBVIOUS
  <2> QED  BY <1>2, <1>3, <2>1 DEF Unused
<1>6. ~mixed' => ~mixed /\ found[s] = Nothing /\ \A j \in Job : Running(j) => on[j] # s
  BY <1>2 DEF Unused
<1>7. OneScrape'
  <2> SUFFICES ASSUME ~mixed', NEW i \in Job, NEW j \in Job, Running(i)', Running(j)',
                      on'[i] = on'[j]
               PROVE  i = j \/ (kind'[i] = "par" /\ kind'[j] = "par" /\ chat'[i] = chat'[j])
    BY DEF OneScrape
  <2>1. CASE i \in J /\ j \in J
    BY <1>3, <2>1
  <2>2. CASE i \notin J /\ j \notin J
    BY <1>2, <1>3, <1>6, <2>2 DEF OneScrape
  <2> QED
    BY <1>3, <1>6, <2>1, <2>2
<1>8. Sourced'
  <2> SUFFICES ASSUME faults' = 0, ~mixed', NEW j \in Job, NEW u \in User, Running(j)'
               PROVE  \/ found'[on'[j]][u] \in {Absent, Source(j)'}
                      \/ kind'[j] = "par" /\ (members'[u] # Absent \/ u \in dna')
    BY DEF Sourced
  <2>1. CASE j \in J
    <3>1. kind'[j] = k /\ on'[j] = s
      BY <2>1
    <3>2. found[s][u] = Absent
      BY <1>6 DEF Nothing
    <3>3. CASE found'[s] = found[s]
      BY <3>1, <3>2, <3>3
    <3>4. CASE k = "par" /\ found'[s] = members
      BY <3>1, <3>4
    <3> QED
      BY <3>3, <3>4
  <2>2. CASE j \notin J
    <3>1. Running(j) /\ kind'[j] = kind[j] /\ chat'[j] = chat[j] /\ on'[j] = on[j]
      BY <1>3, <2>2
    <3>2. on[j] \in Scraper /\ on[j] # s
      BY <1>2, <1>6, <3>1 DEF JobsPlaced
    <3>3. found'[on[j]] = found[on[j]] /\ Source(j)' = Source(j)
      BY <3>1, <3>2 DEF Source
    <3>4. faults = 0 /\ ~mixed
      BY <1>6
    <3>5. \/ found[on[j]][u] \in {Absent, Source(j)}
          \/ kind[j] = "par" /\ (members[u] # Absent \/ u \in dna)
      BY <1>2, <3>1, <3>4 DEF Sourced
    <3> QED
      BY <3>1, <3>3, <3>5
  <2> QED
    BY <2>1, <2>2
<1>9. SavedStep
  <2> SUFFICES ASSUME NEW j \in Job, st[j] # "done", st'[j] = "done" PROVE FALSE
    BY DEF SavedStep
  <2> QED
    OBVIOUS
<1> QED
  BY <1>1, <1>4, <1>5, <1>7, <1>8, <1>9 DEF ScrapingInv, KeepsAll

LEMMA Starts ==
  ASSUME ScrapingInv, ScrapingConstants, NEW j \in Job, NEW k \in Kinds, NEW c \in Chat,
         NEW s \in Scraper, NEW phases,
         Start(j, k, c, s, phases) \/ (k = "auto" /\ StartAuto(j, c, s, phases))
  PROVE  KeepsAll
<1>1. ScrapingTypeOK
  BY DEF ScrapingInv
<1>2. Opened(j, k, c, s, phases) /\ existing' \in [Scraper -> SUBSET User]
  <2>1. CASE Start(j, k, c, s, phases)
    <3>1. Stored \subseteq User
      BY DEF Stored
    <3>2. \/ existing' = existing
          \/ existing' = [existing EXCEPT ![s] = Stored]
          \/ existing' = [existing EXCEPT ![s] = {}]
      BY <2>1 DEF Start
    <3>3. existing' \in [Scraper -> SUBSET User]
      BY <1>1, <3>1, <3>2 DEF ScrapingTypeOK
    <3> QED
      BY <2>1, <3>3 DEF Start
  <2>2. CASE k = "auto" /\ StartAuto(j, c, s, phases)
    BY <1>1, <2>2 DEF StartAuto, ScrapingTypeOK
  <2> QED
    BY <2>1, <2>2
<1>3. /\ kind' = [kind EXCEPT ![j] = k] /\ chat' = [chat EXCEPT ![j] = c]
      /\ on' = [on EXCEPT ![j] = s] /\ st' = [st EXCEPT ![j] = "resolve"]
      /\ object' \in {[object EXCEPT ![s] = "open"], [object EXCEPT ![s] = "dropped"]}
      /\ mixed' = (mixed \/ object[s] = "open") /\ object[s] \in {"new", "open"}
      /\ UNCHANGED <<members, dna, faults>> /\ UNCHANGED <<found, count, stop>>
  BY <1>2 DEF Opened, Begin, Serves, store
<1>4. mixed' \in BOOLEAN /\ (mixed => mixed') /\ (~mixed' => object[s] = "new")
  BY <1>1, <1>3 DEF ScrapingTypeOK
<1>5. ScrapingTypeOK'
  <2>1. /\ kind' \in [Job -> Kinds \cup {"none"}] /\ chat' \in [Job -> Chat \cup {Absent}]
        /\ on' \in [Job -> Scraper \cup {Absent}]
        /\ st' \in [Job -> {"idle", "resolve", "run", "save", "done", "failed"}]
        /\ object' \in [Scraper -> {"new", "open", "dropped", "closed"}]
    BY <1>1, <1>3 DEF ScrapingTypeOK
  <2> QED
    BY <1>1, <1>2, <1>3, <1>4, <2>1 DEF ScrapingTypeOK
<1> DEFINE J == {j}
<1>6. /\ \A i \in J : st'[i] = "resolve" /\ kind'[i] = k /\ chat'[i] = c /\ on'[i] = s
      /\ \A i \in Job \ J :
           st'[i] = st[i] /\ kind'[i] = kind[i] /\ chat'[i] = chat[i] /\ on'[i] = on[i]
      /\ J \in SUBSET Job /\ \E i \in Job : J = {i}
  BY <1>1, <1>3 DEF ScrapingTypeOK
<1>7. /\ object'[s] # "new" /\ \A x \in Scraper \ {s} : object'[x] = object[x]
      /\ \A x \in Scraper : found'[x] = found[x]
  BY <1>1, <1>3 DEF ScrapingTypeOK
<1> HIDE DEF J
<1> QED
  BY <1>3, <1>4, <1>5, <1>6, <1>7, Begins

LEMMA StartsTogether ==
  ASSUME ScrapingInv, ScrapingConstants, NEW crew \in Crews, NEW c \in Chat, NEW s \in Scraper,
         StartParallel(crew, c, s)
  PROVE  KeepsAll
<1>1. ScrapingTypeOK
  BY DEF ScrapingInv
<1> DEFINE J == Range(crew)
<1>2. J \in SUBSET Job
  BY DEF Crews, Range
<1>3. /\ kind' = [j \in Job |-> IF j \in J THEN "par" ELSE kind[j]]
      /\ chat' = [j \in Job |-> IF j \in J THEN c ELSE chat[j]]
      /\ on' = [j \in Job |-> IF j \in J THEN s ELSE on[j]]
      /\ st' = [j \in Job |-> IF j \in J THEN "resolve" ELSE st[j]]
  BY DEF StartParallel
<1>4. /\ object[s] = "new" /\ object' = [object EXCEPT ![s] = "dropped"]
      /\ found' = found \/ found' = [found EXCEPT ![s] = members]
      /\ UNCHANGED <<members, dna, faults>> /\ UNCHANGED <<existing, count, stop, mixed>>
  BY DEF StartParallel, store
<1> HIDE DEF J
<1>5. ScrapingTypeOK'
  <2>1. /\ kind' \in [Job -> Kinds \cup {"none"}] /\ chat' \in [Job -> Chat \cup {Absent}]
        /\ on' \in [Job -> Scraper \cup {Absent}]
        /\ st' \in [Job -> {"idle", "resolve", "run", "save", "done", "failed"}]
    BY <1>1, <1>3 DEF ScrapingTypeOK, Kinds
  <2>2. /\ object' \in [Scraper -> {"new", "open", "dropped", "closed"}]
        /\ found' \in [Scraper -> [User -> Chat \cup {Absent, Unsourced}]]
    BY <1>1, <1>4 DEF ScrapingTypeOK
  <2> QED
    BY <1>1, <1>4, <2>1, <2>2 DEF ScrapingTypeOK
<1>6. /\ \A i \in J : st'[i] = "resolve" /\ kind'[i] = "par" /\ chat'[i] = c /\ on'[i] = s
      /\ \A i \in Job \ J :
           st'[i] = st[i] /\ kind'[i] = kind[i] /\ chat'[i] = chat[i] /\ on'[i] = on[i]
  BY <1>2, <1>3
<1>7. /\ object'[s] # "new" /\ \A x \in Scraper \ {s} : object'[x] = object[x]
      /\ \A x \in Scraper \ {s} : found'[x] = found[x]
      /\ found'[s] = found[s] \/ found'[s] = members
  BY <1>1, <1>4 DEF ScrapingTypeOK
<1>8. "par" \in Kinds
  BY DEF Kinds
<1> QED
  BY <1>2, <1>4, <1>5, <1>6, <1>7, <1>8, Begins

-----------------------------------------------------------------------------
(* The invariant, and what follows from it.                                 *)

LEMMA InitScraping ==
  ASSUME ScrapingConstants
  PROVE  ScrapingInit => ScrapingInv
<1> SUFFICES ASSUME ScrapingInit PROVE ScrapingInv
  OBVIOUS
<1>1. \A j \in Job : ~Running(j)
  BY DEF ScrapingInit, Running
<1>2. 0 \in 0 .. Every - 1 /\ 0 \in 0 .. MaxFaults
  BY DEF ScrapingConstants
<1>3. ScrapingTypeOK
  BY <1>2 DEF ScrapingInit, ScrapingTypeOK, Nothing
<1>4. JobsPlaced /\ OneScrape /\ Sourced
  BY <1>1 DEF JobsPlaced, OneScrape, Sourced
<1>5. Unused
  BY <1>1 DEF Unused, ScrapingInit
<1>6. GoneForGood
  BY DEF ScrapingInit, GoneForGood
<1> QED
  BY <1>3, <1>4, <1>5, <1>6 DEF ScrapingInv

LEMMA NextScraping ==
  ASSUME ScrapingConstants, ScrapingInv, [ScrapingNext]_scrapingVars
  PROVE  KeepsAll
<1>1. CASE UNCHANGED scrapingVars
  <2>1. /\ UNCHANGED <<members, dna, faults>> /\ UNCHANGED <<object, found, existing, count>>
        /\ UNCHANGED <<stop, mixed, kind, chat, on, st>>
    BY <1>1 DEF scrapingVars, store, scraper, job
  <2>2. ListStays /\ GoneForGood' /\ RightStep
    BY <2>1, ListSame
  <2>3. JobsGoOn
    BY <2>1 DEF JobsGoOn, Running
  <2>4. ScrapingTypeOK' /\ SavedStep
    BY <2>1 DEF ScrapingInv, ScrapingTypeOK, SavedStep
  <2> QED
    BY <2>2, <2>3, <2>4, JobsKept DEF ScrapingInv, KeepsAll
<1>2. ASSUME NEW j \in Job, NEW k \in Kinds, NEW c \in Chat, NEW s \in Scraper,
             NEW phases \in Plans(k), Start(j, k, c, s, phases)
      PROVE  KeepsAll
  BY <1>2, Starts
<1>3. ASSUME NEW j \in Job, NEW c \in Chat, NEW s \in Scraper,
             NEW phases \in Plans("auto"), StartAuto(j, c, s, phases)
      PROVE  KeepsAll
  <2>1. "auto" \in Kinds
    BY DEF Kinds
  <2> QED
    BY <1>3, <2>1, Starts
<1>4. ASSUME NEW crew \in Crews, NEW c \in Chat, NEW s \in Scraper,
             StartParallel(crew, c, s)
      PROVE  KeepsAll
  BY <1>4, StartsTogether
<1>5. ASSUME NEW j \in Job, JobStep(j)
      PROVE  KeepsAll
  BY <1>5, Resolves, NotReached, Finds, FindsReactor, PhaseEnds, BreaksOff, Reports DEF JobStep
<1>6. ASSUME NEW s \in Scraper, ReportParallel(s) \/ StopScraper(s)
      PROVE  KeepsAll
  BY <1>6, ReportsTogether, Stops
<1>7. CASE Clear \/ \E u \in User : Ban(u)
  BY <1>7, TakesOff
<1> QED
  BY <1>1, <1>2, <1>3, <1>4, <1>5, <1>6, <1>7 DEF ScrapingNext

LEMMA ScrapingHolds ==
  ScrapingSpec => []ScrapingInv
<1>1. ScrapingInit => ScrapingInv
  BY InitScraping, ConstantsHold
<1>2. ScrapingInv /\ [ScrapingNext]_scrapingVars => ScrapingInv'
  BY NextScraping, ConstantsHold DEF KeepsAll
<1> QED
  BY <1>1, <1>2, PTL DEF ScrapingSpec

\* The types of Scraping.
THEOREM ScrapingTypes ==
  ScrapingSpec => []ScrapingTypeOK
<1>1. ScrapingInv => ScrapingTypeOK
  BY DEF ScrapingInv
<1> QED
  BY <1>1, ScrapingHolds, PTL

\* Whoever left or shut the door stays off the list, whatever scrapes have
\* found him: no save of theirs brings him back (bulk_save_users).
THEOREM GoneStayGone ==
  ScrapingSpec => []GoneForGood
<1>1. ScrapingInv => GoneForGood
  BY DEF ScrapingInv
<1> QED
  BY <1>1, ScrapingHolds, PTL

\* A scrape that reports success has nobody in memory only, however many others
\* ran, were stopped or broke off meanwhile.
THEOREM ReportsAreSaved ==
  ScrapingSpec => ReportedIsSaved
<1>1. ScrapingInv /\ [ScrapingNext]_scrapingVars => [SavedStep]_scrapingVars
  BY NextScraping, ConstantsHold DEF KeepsAll
<1> QED
  BY <1>1, ScrapingHolds, PTL DEF ScrapingSpec, ReportedIsSaved, SavedStep

\* A member is stored as coming from a chat in which he was found, as long as
\* no scraper has served two jobs.
THEOREM SourcesAreRight ==
  ScrapingSpec => RightSource
<1>1. ScrapingInv /\ [ScrapingNext]_scrapingVars => [RightStep]_scrapingVars
  BY NextScraping, ConstantsHold DEF KeepsAll
<1> QED
  BY <1>1, ScrapingHolds, PTL DEF ScrapingSpec, RightSource, RightStep

-----------------------------------------------------------------------------
(* The parallel add.                                                        *)

Placed == TypeOK /\ HandMatchesPlace

USE ParallelAddAssumption

\* A finite set has a natural number of elements; so do its subsets.
LEMMA QueueableFinite ==
  /\ IsFiniteSet(Queueable)
  /\ Cardinality(Queueable) \in Nat
  /\ Cardinality(Members) \in Nat
<1>1. Queueable \in SUBSET Members
  BY DEF Queueable
<1> QED
  BY <1>1, FS_Subset, FS_CardinalityType

\* The initial queue is an enumeration of the queueable members.
LEMMA InitialQueue ==
  ASSUME Init
  PROVE  /\ queue \in Seq(Members)
         /\ Len(queue) = Cardinality(Queueable)
         /\ \A i, j \in 1 .. Len(queue) : queue[i] = queue[j] => i = j
         /\ \A u \in Members : u \in Queueable <=> Queued(u)
<1> DEFINE n == Cardinality(Queueable)
<1>1. n \in Nat
  BY QueueableFinite
<1>2. queue \in Bijection(1 .. n, Queueable)
  BY DEF Init
<1>3. queue \in [1 .. n -> Queueable]
  BY <1>2 DEF Bijection, Injection
<1>4. \A i, j \in 1 .. n : queue[i] = queue[j] => i = j
  BY <1>2, <1>3 DEF Bijection, Injection, IsInjective
<1>5. \A u \in Queueable : \E i \in 1 .. n : queue[i] = u
  BY <1>2 DEF Bijection, Surjection
<1> HIDE DEF n
<1>6. queue \in Seq(Queueable) /\ Len(queue) = n
  BY <1>1, <1>3
<1>7. Queueable \subseteq Members
  BY DEF Queueable
<1>8. queue \in Seq(Members)
  BY <1>6, <1>7
<1> QED
  BY <1>3, <1>4, <1>5, <1>6, <1>7, <1>8 DEF Queued, n

LEMMA PlacedInit == Init => Placed
<1> SUFFICES ASSUME Init PROVE Placed
  OBVIOUS
<1>1. queue \in Seq(Members)
  BY InitialQueue
<1>2. Cardinality(Members) \in Nat
  BY QueueableFinite
<1>3. strikes \in [Accounts -> Nat]
  BY DEF Init
<1>4. limit \in [Accounts -> Limits]
  BY DEF Init, Limits
<1>5. TypeOK
  BY <1>1, <1>2, <1>3, <1>4
  DEF Init, TypeOK, PC, Verdicts
<1>6. HandMatchesPlace
  BY DEF Init, HandMatchesPlace, Holding
<1> QED
  BY <1>5, <1>6 DEF Placed

\* The effects of the helpers on the types, each where its member is known.
LEMMA GoToType ==
  ASSUME Placed, NEW a \in Accounts, NEW p \in PC, GoTo(a, p)
  PROVE  pc' \in [Accounts -> PC]
BY DEF Placed, TypeOK, GoTo

LEMMA SettleType ==
  ASSUME Placed, NEW a \in Accounts, NEW v \in Verdicts, Settle(a, v)
  PROVE  /\ hand' \in [Accounts -> Members \cup {NoMember}]
         /\ verdict' \in [Members -> Verdicts]
<1>1. hand \in [Accounts -> Members \cup {NoMember}]
  BY DEF Placed, TypeOK
<1>2. verdict \in [Members -> Verdicts]
  BY DEF Placed, TypeOK
<1> QED
  BY <1>1, <1>2 DEF Settle

LEMMA PutBackType ==
  ASSUME Placed, NEW a \in Accounts, hand[a] # NoMember, PutBack(a)
  PROVE  /\ queue' \in Seq(Members)
         /\ hand' \in [Accounts -> Members \cup {NoMember}]
         /\ verdict' \in [Members -> Verdicts]
<1>1. hand \in [Accounts -> Members \cup {NoMember}]
  BY DEF Placed, TypeOK
<1>2. verdict \in [Members -> Verdicts] /\ queue \in Seq(Members)
  BY DEF Placed, TypeOK
<1> QED
  BY <1>1, <1>2 DEF PutBack

LEMMA RememberType ==
  ASSUME Placed, NEW a \in Accounts, hand[a] # NoMember, Remember(a)
  PROVE  /\ blocked' \subseteq Members /\ dbBlocked' \subseteq Members
         /\ dbFails' \in BOOLEAN
BY DEF Placed, TypeOK, Remember, Record

LEMMA WriteLimitType ==
  ASSUME Placed, NEW a \in Accounts, NEW n \in Nat,
         NEW k \in {"none", "PeerFlood", "FloodWait"}, WriteLimit(a, n, k)
  PROVE  limit' \in [Accounts -> Limits]
<1>1. limit \in [Accounts -> Limits]
  BY DEF Placed, TypeOK
<1>2. [added |-> n, kind |-> IF k = "none" THEN limit[a].kind ELSE k] \in Limits
  BY <1>1 DEF Limits
<1> QED
  BY <1>1, <1>2 DEF WriteLimit

\* A step of a worker keeps the types.
LEMMA TypeWorker ==
  ASSUME Placed, NEW a \in Accounts, Worker(a)
  PROVE  TypeOK'
<1> USE DEF tallies, lists, control
<1>p. /\ {"ready", "drained", "halted", "resting", "barred", "dead"} \subseteq PC
      /\ {"resolving", "throttling", "inviting", "pausing", "cooling"} \subseteq PC
  BY DEF PC, Returned, Holding, Waiting
<1>v. {"skipped", "added", "refused", "failed"} \subseteq Verdicts
  BY DEF Verdicts
<1>h. pc[a] \in Holding => hand[a] # NoMember
  BY DEF Placed, HandMatchesPlace
<1>n. accAdded[a] \in Nat
  BY DEF Placed, TypeOK
<1>1. CASE Connect(a)
  BY <1>1, <1>p, GoToType DEF Connect, Placed, TypeOK
<1>2. CASE LeaveDrained(a) \/ LeaveHalted(a)
  BY <1>2, <1>p, GoToType DEF LeaveDrained, LeaveHalted, Placed, TypeOK
<1>3. CASE SkipMember(a)
  BY <1>3, <1>v, HeadTailProperties DEF SkipMember, Placed, TypeOK
<1>4. CASE TakeMember(a)
  BY <1>4, <1>p, GoToType, HeadTailProperties DEF TakeMember, Placed, TypeOK
<1>5. CASE Resolved(a)
  BY <1>5, <1>p, GoToType DEF Resolved, Placed, TypeOK
<1>6. CASE Unresolved(a)
  BY <1>6, <1>p, <1>v, GoToType, SettleType DEF Unresolved, Placed, TypeOK
<1>7. CASE PeerFlood(a)
  <2>1. hand[a] # NoMember
    BY <1>7, <1>h DEF PeerFlood, Holding
  <2>2. limit' \in [Accounts -> Limits]
    BY <1>7, <1>n, WriteLimitType DEF PeerFlood
  <2>3. pc' \in [Accounts -> PC]
    BY <1>7, <1>p, GoToType DEF PeerFlood
  <2>4. /\ queue' \in Seq(Members)
        /\ hand' \in [Accounts -> Members \cup {NoMember}]
        /\ verdict' \in [Members -> Verdicts]
    BY <1>7, <2>1, PutBackType DEF PeerFlood
  <2>5. strikes' \in [Accounts -> Nat]
    BY <1>7 DEF PeerFlood, Placed, TypeOK
  <2> QED
    BY <1>7, <2>2, <2>3, <2>4, <2>5 DEF PeerFlood, Placed, TypeOK
<1>8. CASE CooledDown(a)
  BY <1>8, <1>p, GoToType DEF CooledDown, Placed, TypeOK
<1>9. CASE Throttled(a)
  <2>1. hand[a] # NoMember
    BY <1>9, <1>h DEF Throttled, Holding
  <2>2. pc' \in [Accounts -> PC]
    BY <1>9, <1>p, GoToType DEF Throttled
  <2> QED
    BY <1>9, <2>1, <2>2, PutBackType DEF Throttled, Placed, TypeOK
<1>i. CASE pc[a] = "inviting" /\ Answer(a)
  <2>1. hand[a] # NoMember
    BY <1>i, <1>h DEF Holding
  <2>2. CASE Joined(a)
    <3>1. limit' \in [Accounts -> Limits]
      BY <2>2, <1>n, WriteLimitType DEF Joined
    <3>2. pc' \in [Accounts -> PC]
      BY <2>2, <1>p, GoToType DEF Joined
    <3>3. /\ hand' \in [Accounts -> Members \cup {NoMember}]
          /\ verdict' \in [Members -> Verdicts]
      BY <2>2, <1>v, SettleType DEF Joined
    <3>4. strikes' \in [Accounts -> Nat] /\ accAdded' \in [Accounts -> Nat]
      BY <2>2 DEF Joined, Placed, TypeOK
    <3>5. /\ blocked' \subseteq Members /\ dbBlocked' \subseteq Members
          /\ dbFails' \in BOOLEAN
      BY <2>1, <2>2, RememberType DEF Joined
    <3> QED
      BY <2>2, <3>1, <3>2, <3>3, <3>4, <3>5 DEF Joined, Placed, TypeOK
  <2>3. CASE NotJoined(a)
    <3>1. pc' \in [Accounts -> PC]
      BY <2>3, <1>p, GoToType DEF NotJoined
    <3>2. /\ hand' \in [Accounts -> Members \cup {NoMember}]
          /\ verdict' \in [Members -> Verdicts]
      BY <2>3, <1>v, SettleType DEF NotJoined
    <3>3. /\ blocked' \subseteq Members /\ dbBlocked' \subseteq Members
          /\ dbFails' \in BOOLEAN
      BY <2>1, <2>3, RememberType DEF NotJoined
    <3>4. stopEvent' \in BOOLEAN
      BY <2>3 DEF NotJoined, Placed, TypeOK
    <3> QED
      BY <2>3, <3>1, <3>2, <3>3, <3>4 DEF NotJoined, Placed, TypeOK
  <2>4. CASE PrivacyRefused(a)
    BY <2>1, <2>4, <1>p, <1>v, GoToType, SettleType, RememberType
    DEF PrivacyRefused, Placed, TypeOK
  <2>5. CASE AlreadyOrInvalid(a)
    BY <2>1, <2>5, <1>p, <1>v, GoToType, SettleType, RememberType
    DEF AlreadyOrInvalid, Placed, TypeOK
  <2>6. CASE TooManyChannels(a)
    <3>1. dbBlocked' \subseteq Members /\ dbFails' \in BOOLEAN
      BY <2>1, <2>6 DEF TooManyChannels, Record, Placed, TypeOK
    <3> QED
      BY <2>6, <3>1, <1>p, <1>v, GoToType, SettleType
      DEF TooManyChannels, Placed, TypeOK
  <2>7. CASE FloodWait(a)
    <3>1. limit' \in [Accounts -> Limits]
      BY <2>7, <1>n, WriteLimitType DEF FloodWait
    <3> QED
      BY <2>7, <3>1, <1>p, <1>v, GoToType, SettleType
      DEF FloodWait, Placed, TypeOK
  <2>8. CASE Forbidden(a)
    <3>1. limit' \in [Accounts -> Limits]
      BY <2>8, <1>n, WriteLimitType DEF Forbidden
    <3> QED
      BY <2>1, <2>8, <3>1, <1>p, GoToType, PutBackType
      DEF Forbidden, Placed, TypeOK
  <2>9. CASE OtherError(a)
    BY <2>9, <1>p, <1>v, GoToType, SettleType DEF OtherError, Placed, TypeOK
  <2> QED
    BY <1>i, <2>2, <2>3, <2>4, <2>5, <2>6, <2>7, <2>8, <2>9 DEF Answer
<1>10. CASE PauseOver(a) \/ Woken(a)
  BY <1>10, <1>p, GoToType DEF PauseOver, Woken, Placed, TypeOK
<1>11. Answer(a) => pc[a] = "inviting"
  BY DEF Answer, Joined, NotJoined, PrivacyRefused, AlreadyOrInvalid,
         TooManyChannels, FloodWait, Forbidden, OtherError
<1> QED
  BY <1>1, <1>2, <1>3, <1>4, <1>5, <1>6, <1>7, <1>8, <1>9, <1>i, <1>10, <1>11
  DEF Worker

\* A step of a worker fills or empties its hand as it moves.
LEMMA HandWorker ==
  ASSUME Placed, NEW a \in Accounts, Worker(a)
  PROVE  HandMatchesPlace'
<1>1. /\ pc \in [Accounts -> PC]
      /\ hand \in [Accounts -> Members \cup {NoMember}]
      /\ queue \in Seq(Members)
      /\ \A b \in Accounts : hand[b] # NoMember <=> pc[b] \in Holding
  BY DEF Placed, TypeOK, HandMatchesPlace
<1>2. CASE hand' = [hand EXCEPT ![a] = NoMember]
           /\ \E p \in PC \ Holding : GoTo(a, p)
  BY <1>1, <1>2 DEF HandMatchesPlace, GoTo
<1>3. CASE /\ UNCHANGED hand
           /\ \E p \in PC : GoTo(a, p) /\ (p \in Holding <=> pc[a] \in Holding)
  BY <1>1, <1>3 DEF HandMatchesPlace, GoTo
<1>4. CASE TakeMember(a)
  <2>1. Head(queue) \in Members
    BY <1>1, <1>4, HeadTailProperties DEF TakeMember
  <2> QED
    BY <1>1, <1>4, <2>1 DEF TakeMember, HandMatchesPlace, GoTo, Holding
<1>5. CASE SkipMember(a)
  BY <1>1, <1>5 DEF SkipMember, HandMatchesPlace
<1>6. CASE PeerFlood(a) \/ Unresolved(a) \/ Answer(a)
  BY <1>2, <1>6
  DEF PeerFlood, Unresolved, PutBack, Settle, Answer, Joined, NotJoined,
      PrivacyRefused, AlreadyOrInvalid, TooManyChannels, FloodWait, Forbidden,
      OtherError, PC, Returned, Holding, Waiting
<1>7. CASE Throttled(a)
  BY <1>2, <1>3, <1>7
  DEF Throttled, PutBack, PC, Returned, Holding, Waiting
<1>8. CASE \/ Connect(a) \/ LeaveDrained(a) \/ LeaveHalted(a) \/ Resolved(a)
           \/ CooledDown(a) \/ PauseOver(a) \/ Woken(a)
  BY <1>3, <1>8
  DEF Connect, LeaveDrained, LeaveHalted, Resolved, CooledDown, PauseOver,
      Woken, PC, Returned, Holding, Waiting
<1> QED
  BY <1>4, <1>5, <1>6, <1>7, <1>8 DEF Worker

LEMMA PlacedNext == Placed /\ [Next]_vars => Placed'
<1> SUFFICES ASSUME Placed, [Next]_vars PROVE Placed'
  OBVIOUS
<1>1. CASE \E a \in Accounts : Worker(a)
  BY <1>1, TypeWorker, HandWorker DEF Placed
<1>2. CASE RequestStop
  BY <1>2 DEF RequestStop, Placed, TypeOK, HandMatchesPlace, tallies, lists
<1>3. CASE Finish
  <2>1. remaining' \in Nat
    BY <1>3, QueueableFinite DEF Finish, Placed, TypeOK
  <2> QED
    BY <1>3, <2>1 DEF Finish, Placed, TypeOK, HandMatchesPlace, tallies, lists
<1>4. CASE UNCHANGED vars
  BY <1>4 DEF vars, Placed, TypeOK, HandMatchesPlace, tallies, lists, control
<1> QED
  BY <1>1, <1>2, <1>3, <1>4 DEF Next

LEMMA AlwaysPlaced == Spec => []Placed
BY PlacedInit, PlacedNext, PTL DEF Spec

\* Type correctness: in particular the queue never holds anything but members,
\* which depends on every put_nowait being made with a member in hand.
THEOREM TypeCorrect == Spec => []TypeOK
BY AlwaysPlaced, PTL DEF Placed

\* A worker of _execute_parallel_add holds a member exactly while it awaits
\* something on that member's behalf, so a worker that returned kept none.
THEOREM HandsMatch == Spec => []HandMatchesPlace
BY AlwaysPlaced, PTL DEF Placed

-----------------------------------------------------------------------------
(***************************************************************************)
(* EveryMemberOnce.  The queue and the hands change in four ways only: a   *)
(* member leaves the queue for a hand, leaves it for good, leaves a hand   *)
(* for good, or goes back from a hand to the tail of the queue.            *)
(***************************************************************************)
LEMMA SettleKeeps ==
  ASSUME Placed, EveryMemberOnce, NEW a \in Accounts, hand[a] # NoMember,
         NEW v \in Verdicts \ {"pending"}, Settle(a, v), UNCHANGED queue
  PROVE  EveryMemberOnce'
<1>1. /\ hand \in [Accounts -> Members \cup {NoMember}]
      /\ verdict \in [Members -> Verdicts]
  BY DEF Placed, TypeOK
<1>2. \A b \in Accounts : hand'[b] = IF b = a THEN NoMember ELSE hand[b]
  BY <1>1 DEF Settle
<1>3. \A u \in Members : verdict'[u] = IF u = hand[a] THEN v ELSE verdict[u]
  BY <1>1 DEF Settle
<1>4. \A u \in Members : Held(u)' <=> Held(u) /\ u # hand[a]
  BY <1>1, <1>2 DEF Held, EveryMemberOnce
<1>5. \A u : Queued(u)' <=> Queued(u)
  BY DEF Queued
<1>6. \A b, c \in Accounts : hand'[b] = hand'[c] /\ hand'[b] # NoMember => b = c
  BY <1>2 DEF EveryMemberOnce
<1>7. \A i, j \in 1 .. Len(queue') : queue'[i] = queue'[j] => i = j
  BY DEF EveryMemberOnce
<1>8. Held(hand[a])
  BY DEF Held
<1> QED
  BY <1>1, <1>3, <1>4, <1>5, <1>6, <1>7, <1>8 DEF EveryMemberOnce

LEMMA PutBackKeeps ==
  ASSUME Placed, EveryMemberOnce, NEW a \in Accounts, hand[a] # NoMember,
         PutBack(a)
  PROVE  EveryMemberOnce'
<1> DEFINE m == hand[a]
<1>1. /\ hand \in [Accounts -> Members \cup {NoMember}]
      /\ queue \in Seq(Members)
      /\ m \in Members
  BY DEF Placed, TypeOK
<1>2. \A b \in Accounts : hand'[b] = IF b = a THEN NoMember ELSE hand[b]
  BY <1>1 DEF PutBack
<1>3. /\ Len(queue') = Len(queue) + 1
      /\ \A i \in 1 .. Len(queue) : queue'[i] = queue[i]
      /\ queue'[Len(queue) + 1] = m
      /\ Len(queue) \in Nat
  BY <1>1 DEF PutBack
<1>4. \A u \in Members : Held(u)' <=> Held(u) /\ u # m
  BY <1>1, <1>2 DEF Held, EveryMemberOnce
<1>5. \A u \in Members : Queued(u)' <=> Queued(u) \/ u = m
  BY <1>3 DEF Queued
<1>6. \A b, c \in Accounts : hand'[b] = hand'[c] /\ hand'[b] # NoMember => b = c
  BY <1>2 DEF EveryMemberOnce
<1>7. Held(m) /\ ~ Queued(m)
  BY <1>1 DEF Held, EveryMemberOnce
<1>8. \A i, j \in 1 .. Len(queue') : queue'[i] = queue'[j] => i = j
  BY <1>3, <1>7 DEF EveryMemberOnce, Queued
<1>9. verdict' = verdict
  BY DEF PutBack
<1> QED
  BY <1>1, <1>4, <1>5, <1>6, <1>7, <1>8, <1>9 DEF EveryMemberOnce

\* What the queue looks like without its head.
LEMMA PopFacts ==
  ASSUME NEW q \in Seq(Members), q # <<>>,
         \A i, j \in 1 .. Len(q) : q[i] = q[j] => i = j
  PROVE  /\ Head(q) \in Members
         /\ Tail(q) \in Seq(Members)
         /\ Len(Tail(q)) = Len(q) - 1
         /\ \E i \in 1 .. Len(q) : q[i] = Head(q)
         /\ \A i, j \in 1 .. Len(Tail(q)) : Tail(q)[i] = Tail(q)[j] => i = j
         /\ \A u \in Members :
              (\E i \in 1 .. Len(Tail(q)) : Tail(q)[i] = u)
                <=> (\E i \in 1 .. Len(q) : q[i] = u) /\ u # Head(q)
<1>1. Head(q) = q[1] /\ Len(q) \in Nat \ {0}
  BY EmptySeq
<1>2. /\ Head(q) \in Members
      /\ Tail(q) \in Seq(Members)
      /\ Len(Tail(q)) = Len(q) - 1
      /\ \A i \in 1 .. Len(Tail(q)) : Tail(q)[i] = q[i + 1]
  BY HeadTailProperties
<1>3. \A i \in 1 .. Len(Tail(q)) : i + 1 \in 1 .. Len(q)
  BY <1>1, <1>2
<1>4. \A i, j \in 1 .. Len(Tail(q)) : Tail(q)[i] = Tail(q)[j] => i = j
  BY <1>1, <1>2, <1>3
<1>5. ASSUME NEW u \in Members
      PROVE  (\E i \in 1 .. Len(Tail(q)) : Tail(q)[i] = u)
               <=> (\E i \in 1 .. Len(q) : q[i] = u) /\ u # Head(q)
  <2>1. ASSUME NEW i \in 1 .. Len(Tail(q)), Tail(q)[i] = u
        PROVE  (\E k \in 1 .. Len(q) : q[k] = u) /\ u # Head(q)
    BY <2>1, <1>1, <1>2, <1>3
  <2>2. ASSUME NEW k \in 1 .. Len(q), q[k] = u, u # Head(q)
        PROVE  \E i \in 1 .. Len(Tail(q)) : Tail(q)[i] = u
    <3>1. k # 1 /\ k - 1 \in 1 .. Len(Tail(q)) /\ (k - 1) + 1 = k
      BY <2>2, <1>1, <1>2
    <3> QED
      BY <2>2, <1>2, <3>1
  <2> QED
    BY <2>1, <2>2
<1> QED
  BY <1>1, <1>2, <1>4, <1>5

LEMMA PopKeeps ==
  ASSUME Placed, EveryMemberOnce, NEW a \in Accounts,
         SkipMember(a) \/ TakeMember(a)
  PROVE  EveryMemberOnce'
<1> DEFINE m == Head(queue)
<1>1. /\ hand \in [Accounts -> Members \cup {NoMember}]
      /\ verdict \in [Members -> Verdicts]
      /\ queue \in Seq(Members)
      /\ queue # <<>>
      /\ queue' = Tail(queue)
      /\ hand[a] = NoMember
  BY DEF Placed, TypeOK, SkipMember, TakeMember, HandMatchesPlace, Holding
<1>2. /\ m \in Members
      /\ Queued(m)
      /\ \A i, j \in 1 .. Len(queue') : queue'[i] = queue'[j] => i = j
      /\ \A u \in Members : Queued(u)' <=> Queued(u) /\ u # m
  <2>1. \A i, j \in 1 .. Len(queue) : queue[i] = queue[j] => i = j
    BY DEF EveryMemberOnce
  <2>2. /\ m \in Members
        /\ \E i \in 1 .. Len(queue) : queue[i] = m
        /\ \A i, j \in 1 .. Len(Tail(queue)) :
             Tail(queue)[i] = Tail(queue)[j] => i = j
        /\ \A u \in Members :
             (\E i \in 1 .. Len(Tail(queue)) : Tail(queue)[i] = u)
               <=> (\E i \in 1 .. Len(queue) : queue[i] = u) /\ u # m
    <3>1. queue \in Seq(Members) /\ queue # <<>>
      BY <1>1
    <3> QED
      BY <3>1, <2>1, PopFacts
  <2> QED
    BY <1>1, <2>2 DEF Queued
<1>3. ~ Held(m)
  BY <1>2 DEF EveryMemberOnce
<1>4. CASE SkipMember(a)
  <2>1. /\ hand' = hand
        /\ \A u \in Members : verdict'[u] = IF u = m THEN "skipped" ELSE verdict[u]
    BY <1>1, <1>4 DEF SkipMember
  <2>2. \A u : Held(u)' <=> Held(u)
    BY <2>1 DEF Held
  <2> QED
    BY <1>2, <1>3, <2>1, <2>2 DEF EveryMemberOnce
<1>5. CASE TakeMember(a)
  <2>1. /\ verdict' = verdict
        /\ \A b \in Accounts : hand'[b] = IF b = a THEN m ELSE hand[b]
    BY <1>1, <1>5 DEF TakeMember
  <2>2. \A u \in Members : Held(u)' <=> Held(u) \/ u = m
    BY <1>1, <2>1 DEF Held
  <2>3. \A b, c \in Accounts :
          hand'[b] = hand'[c] /\ hand'[b] # NoMember => b = c
    BY <1>3, <2>1 DEF EveryMemberOnce, Held
  <2> QED
    BY <1>2, <1>3, <2>1, <2>2, <2>3 DEF EveryMemberOnce
<1> QED
  BY <1>4, <1>5

LEMMA OnceInit == Init => EveryMemberOnce
<1> SUFFICES ASSUME Init PROVE EveryMemberOnce
  OBVIOUS
<1>1. \A u : Held(u) => u = NoMember
  BY DEF Init, Held
<1>2. \A u \in Members : ~ Held(u)
  BY <1>1
<1>3. \A u \in Members : verdict[u] = "pending" <=> u \in Queueable
  BY DEF Init, Queueable
<1> QED
  BY <1>2, <1>3, InitialQueue DEF Init, EveryMemberOnce

LEMMA OnceNext == Placed /\ EveryMemberOnce /\ [Next]_vars => EveryMemberOnce'
<1> SUFFICES ASSUME Placed, EveryMemberOnce, [Next]_vars PROVE EveryMemberOnce'
  OBVIOUS
<1>1. UNCHANGED <<queue, hand, verdict>> => EveryMemberOnce'
  BY DEF EveryMemberOnce, Queued, Held
<1>2. ASSUME NEW a \in Accounts, Worker(a) PROVE EveryMemberOnce'
  <2> DEFINE Decided == Verdicts \ {"pending"}
  <2>h. pc[a] \in Holding => hand[a] # NoMember
    BY DEF Placed, HandMatchesPlace
  <2>v. {"skipped", "added", "refused", "failed"} \subseteq Decided
    BY DEF Verdicts
  <2> HIDE DEF Decided
  <2>1. CASE SkipMember(a) \/ TakeMember(a)
    BY <2>1, PopKeeps
  <2>2. CASE Unresolved(a) \/ (Answer(a) /\ ~ Forbidden(a))
    <3>1. /\ hand[a] # NoMember
          /\ \E v \in Decided : Settle(a, v)
          /\ UNCHANGED queue
      BY <2>2, <2>h, <2>v
      DEF Holding, Unresolved, Answer, Joined, NotJoined, PrivacyRefused,
          AlreadyOrInvalid, TooManyChannels, FloodWait, OtherError
    <3> QED
      BY <3>1, SettleKeeps DEF Decided
  <2>3. CASE PeerFlood(a) \/ Forbidden(a)
    <3>1. hand[a] # NoMember /\ PutBack(a)
      BY <2>3, <2>h DEF Holding, PeerFlood, Forbidden
    <3> QED
      BY <3>1, PutBackKeeps
  <2>4. CASE Throttled(a)
    <3>1. hand[a] # NoMember
      BY <2>4, <2>h DEF Holding, Throttled
    <3> QED
      BY <1>1, <2>4, <3>1, PutBackKeeps DEF Throttled
  <2>5. CASE \/ Connect(a) \/ LeaveDrained(a) \/ LeaveHalted(a) \/ Resolved(a)
             \/ CooledDown(a) \/ PauseOver(a) \/ Woken(a)
    BY <1>1, <2>5
    DEF Connect, LeaveDrained, LeaveHalted, Resolved, CooledDown, PauseOver,
        Woken
  <2> QED
    BY <1>2, <2>1, <2>2, <2>3, <2>4, <2>5 DEF Worker, Answer
<1>3. CASE RequestStop \/ Finish \/ UNCHANGED vars
  BY <1>1, <1>3 DEF RequestStop, Finish, vars
<1> QED
  BY <1>2, <1>3 DEF Next

\* No interleaving of the workers of _execute_parallel_add loses a member or
\* hands it out twice, for any number of accounts and members.
THEOREM OnceAlways == Spec => []EveryMemberOnce
BY OnceInit, OnceNext, AlwaysPlaced, PTL DEF Spec

-----------------------------------------------------------------------------
\* Whether calls can fail is settled before the run.
LEMMA FailsFixed ==
  ASSUME NEW a \in Accounts, Worker(a)
  PROVE  dbFails' = dbFails
BY DEF Worker, Answer, Connect, LeaveDrained, LeaveHalted, SkipMember,
       TakeMember, Resolved, Unresolved, PeerFlood, CooledDown, Throttled,
       Joined, NotJoined, PrivacyRefused, AlreadyOrInvalid, TooManyChannels,
       FloodWait, Forbidden, OtherError, PauseOver, Woken, Remember, Record,
       lists

-----------------------------------------------------------------------------
(***************************************************************************)
(* NoBlockedInvite.  It is strengthened to every place in which a member   *)
(* is held, and by the fact that blocked_ids only grows.                   *)
(***************************************************************************)
HeldUnblocked ==
  /\ BlockedAtStart \subseteq blocked \/ dbFails
  /\ \A a \in Accounts :
       pc[a] \in Holding => /\ hand[a] \notin Malformed
                            /\ hand[a] \in BlockedAtStart => dbFails

LEMMA HeldUnblockedWorker ==
  ASSUME Placed, HeldUnblocked, NEW a \in Accounts, Worker(a)
  PROVE  HeldUnblocked'
<1>1. /\ pc \in [Accounts -> PC]
      /\ hand \in [Accounts -> Members \cup {NoMember}]
  BY DEF Placed, TypeOK
<1>2. dbFails' = dbFails /\ (BlockedAtStart \subseteq blocked' \/ dbFails)
  BY FailsFixed
  DEF HeldUnblocked, Worker, Answer, Connect, LeaveDrained, LeaveHalted,
         SkipMember, TakeMember, Resolved, Unresolved, PeerFlood, CooledDown,
         Throttled, Joined, NotJoined, PrivacyRefused, AlreadyOrInvalid,
         TooManyChannels, FloodWait, Forbidden, OtherError, PauseOver, Woken,
         Remember, lists
<1>3. CASE TakeMember(a)
  <2>1. /\ Head(queue) \notin Malformed
        /\ Head(queue) \in BlockedAtStart => dbFails
    BY <1>3 DEF TakeMember, HeldUnblocked
  <2>2. \A b \in Accounts \ {a} : pc'[b] = pc[b] /\ hand'[b] = hand[b]
    BY <1>1, <1>3 DEF TakeMember, GoTo
  <2>3. hand'[a] = Head(queue)
    BY <1>1, <1>3 DEF TakeMember
  <2> QED
    BY <1>2, <2>1, <2>2, <2>3 DEF HeldUnblocked
<1>4. CASE ~ TakeMember(a)
  <2>1. \A b \in Accounts \ {a} : pc'[b] = pc[b] /\ hand'[b] = hand[b]
    BY <1>1, <1>4
    DEF Worker, Answer, Connect, LeaveDrained, LeaveHalted, SkipMember,
        Resolved, Unresolved, PeerFlood, CooledDown, Throttled, Joined,
        NotJoined, PrivacyRefused, AlreadyOrInvalid, TooManyChannels,
        FloodWait, Forbidden, OtherError, PauseOver, Woken, GoTo, Settle,
        PutBack
  <2>2. pc'[a] \in Holding => pc[a] \in Holding /\ hand'[a] = hand[a]
    BY <1>1, <1>4
    DEF Worker, Answer, Connect, LeaveDrained, LeaveHalted, SkipMember,
        Resolved, Unresolved, PeerFlood, CooledDown, Throttled, Joined,
        NotJoined, PrivacyRefused, AlreadyOrInvalid, TooManyChannels,
        FloodWait, Forbidden, OtherError, PauseOver, Woken, GoTo, Settle,
        PutBack, Holding
  <2> QED
    BY <1>2, <2>1, <2>2 DEF HeldUnblocked
<1> QED
  BY <1>3, <1>4

LEMMA AlwaysHeldUnblocked == Spec => []HeldUnblocked
<1>1. Init => HeldUnblocked
  BY DEF Init, HeldUnblocked, Holding
<1>2. Placed /\ HeldUnblocked /\ [Next]_vars => HeldUnblocked'
  <2> SUFFICES ASSUME Placed, HeldUnblocked, [Next]_vars PROVE HeldUnblocked'
    OBVIOUS
  <2>1. CASE \E a \in Accounts : Worker(a)
    BY <2>1, HeldUnblockedWorker
  <2>2. CASE RequestStop \/ Finish \/ UNCHANGED vars
    BY <2>2 DEF RequestStop, Finish, vars, lists, HeldUnblocked
  <2> QED
    BY <2>1, <2>2 DEF Next
<1> QED
  BY <1>1, <1>2, AlwaysPlaced, PTL DEF Spec

\* No invitation goes to a member that was added or banned before the run, or
\* about whom this run already has an answer.
THEOREM BlockedNeverInvited == Spec => []NoBlockedInvite
<1>1. Placed /\ EveryMemberOnce /\ HeldUnblocked => NoBlockedInvite
  BY DEF Placed, TypeOK, HandMatchesPlace, EveryMemberOnce, HeldUnblocked,
         NoBlockedInvite, Held, Holding
<1> QED
  BY <1>1, AlwaysPlaced, OnceAlways, AlwaysHeldUnblocked, PTL

-----------------------------------------------------------------------------
\* Once a stop was requested no worker moves on to an invitation: of all the
\* steps of a worker only Throttled leads there, and it reads the flags.
THEOREM StopIsFinal == Spec => NoInviteAfterStop
<1> DEFINE Quiet == Stopping => \A a \in Accounts :
                                  pc[a] # "inviting" => pc'[a] # "inviting"
<1>1. TypeOK /\ [Next]_vars => Quiet
  <2> SUFFICES ASSUME TypeOK, [Next]_vars, Stopping, NEW b \in Accounts,
                      pc[b] # "inviting"
               PROVE  pc'[b] # "inviting"
    OBVIOUS
  <2>1. pc \in [Accounts -> PC]
    BY DEF TypeOK
  <2>2. ASSUME NEW a \in Accounts, Worker(a) PROVE pc'[b] # "inviting"
    BY <2>1, <2>2
    DEF Worker, Answer, Connect, LeaveDrained, LeaveHalted, SkipMember,
        TakeMember, Resolved, Unresolved, PeerFlood, CooledDown, Throttled,
        Joined, NotJoined, PrivacyRefused, AlreadyOrInvalid, TooManyChannels,
        FloodWait, Forbidden, OtherError, PauseOver, Woken, GoTo
  <2>3. CASE RequestStop \/ Finish \/ UNCHANGED vars
    BY <2>3 DEF RequestStop, Finish, vars
  <2> QED
    BY <2>2, <2>3 DEF Next
<1>2. TypeOK /\ [Next]_vars => [Quiet]_vars
  BY <1>1
<1> QED
  BY <1>2, TypeCorrect, PTL DEF Spec, NoInviteAfterStop

-----------------------------------------------------------------------------
(***************************************************************************)
(* RecordedVerdicts.  The verdict of a member changes in SkipMember and    *)
(* Settle only, and every Settle to a lasting verdict writes it.           *)
(***************************************************************************)
LEMMA RecordedWorker ==
  ASSUME Placed, RecordedVerdicts, ~ dbFails, NEW a \in Accounts, Worker(a)
  PROVE  RecordedVerdicts'
<1>1. verdict \in [Members -> Verdicts]
  BY DEF Placed, TypeOK
<1>2. /\ \A u \in Members : verdict[u] \in {"added", "refused"} => u \in dbBlocked
      /\ blocked \subseteq dbBlocked
  BY DEF RecordedVerdicts, With
<1>3. SUFFICES /\ \A u \in Members :
                    verdict'[u] \in {"added", "refused"} => u \in dbBlocked'
               /\ blocked' \subseteq dbBlocked'
  BY DEF RecordedVerdicts, With
<1>4. CASE /\ \A u \in Members :
                verdict'[u] \in {"added", "refused"} => verdict'[u] = verdict[u]
           /\ UNCHANGED <<blocked, dbBlocked>>
  BY <1>2, <1>4
<1>5. CASE /\ \E v \in {"added", "refused"} : Settle(a, v)
           /\ dbBlocked' = dbBlocked \cup {hand[a]}
           /\ blocked' \subseteq blocked \cup {hand[a]}
  BY <1>1, <1>2, <1>5 DEF Settle
<1>6. CASE SkipMember(a)
  BY <1>1, <1>4, <1>6 DEF SkipMember, lists
<1>7. CASE Unresolved(a) \/ FloodWait(a) \/ OtherError(a)
  BY <1>1, <1>4, <1>7 DEF Unresolved, FloodWait, OtherError, Settle, lists
<1>8. CASE \/ Joined(a) \/ NotJoined(a) \/ PrivacyRefused(a)
           \/ AlreadyOrInvalid(a) \/ TooManyChannels(a)
  BY <1>5, <1>8
  DEF Joined, NotJoined, PrivacyRefused, AlreadyOrInvalid, TooManyChannels,
      Remember, Record
<1>9. CASE \/ Connect(a) \/ LeaveDrained(a) \/ LeaveHalted(a) \/ TakeMember(a)
           \/ Resolved(a) \/ PeerFlood(a) \/ CooledDown(a) \/ Throttled(a)
           \/ Forbidden(a) \/ PauseOver(a) \/ Woken(a)
  BY <1>4, <1>9
  DEF Connect, LeaveDrained, LeaveHalted, TakeMember, Resolved, PeerFlood,
      CooledDown, Throttled, Forbidden, PauseOver, Woken, PutBack, lists
<1> QED
  BY <1>6, <1>7, <1>8, <1>9 DEF Worker, Answer

\* What Telegram answered for good about a member is in the database, so that a
\* later run does not try the member again.
THEOREM VerdictsRecorded == Spec => []RecordedVerdicts
<1>1. Init => RecordedVerdicts
  <2> SUFFICES ASSUME Init PROVE RecordedVerdicts
    OBVIOUS
  <2>1. \A u \in Members : verdict[u] \in {"dropped", "pending"}
    BY DEF Init
  <2> QED
    BY <2>1 DEF Init, RecordedVerdicts, With
<1>2. Placed /\ RecordedVerdicts /\ [Next]_vars => RecordedVerdicts'
  <2> SUFFICES ASSUME Placed, RecordedVerdicts, [Next]_vars
               PROVE  RecordedVerdicts'
    OBVIOUS
  <2>1. CASE \E a \in Accounts : Worker(a)
    BY <2>1, RecordedWorker, FailsFixed DEF RecordedVerdicts
  <2>2. CASE RequestStop \/ Finish \/ UNCHANGED vars
    BY <2>2 DEF RequestStop, Finish, vars, lists, RecordedVerdicts, With
  <2> QED
    BY <2>1, <2>2 DEF Next
<1> QED
  BY <1>1, <1>2, AlwaysPlaced, PTL DEF Spec

-----------------------------------------------------------------------------
(***************************************************************************)
(* Conservation.  The number of hands that hold something changes by one   *)
(* when a worker takes, settles or puts back a member.                     *)
(***************************************************************************)
LEMMA HoldersEmptied ==
  ASSUME Placed, NEW a \in Accounts, hand[a] # NoMember,
         hand' = [hand EXCEPT ![a] = NoMember]
  PROVE  /\ Cardinality(Holders) \in Nat
         /\ Cardinality(Holders') = Cardinality(Holders) - 1
<1>1. hand \in [Accounts -> Members \cup {NoMember}]
  BY DEF Placed, TypeOK
<1>2. Holders' = Holders \ {a} /\ a \in Holders
  BY <1>1 DEF Holders
<1>3. IsFiniteSet(Holders)
  BY FS_Subset DEF Holders
<1> QED
  BY <1>2, <1>3, FS_RemoveElement, FS_CardinalityType

LEMMA HoldersFilled ==
  ASSUME Placed, NEW a \in Accounts, hand[a] = NoMember, NEW m \in Members,
         hand' = [hand EXCEPT ![a] = m]
  PROVE  /\ Cardinality(Holders) \in Nat
         /\ Cardinality(Holders') = Cardinality(Holders) + 1
<1>1. hand \in [Accounts -> Members \cup {NoMember}]
  BY DEF Placed, TypeOK
<1>2. Holders' = Holders \cup {a} /\ a \notin Holders
  BY <1>1 DEF Holders
<1>3. IsFiniteSet(Holders)
  BY FS_Subset DEF Holders
<1> QED
  BY <1>2, <1>3, FS_AddElement, FS_CardinalityType

LEMMA ConservationWorker ==
  ASSUME Placed, Conservation, NEW a \in Accounts, Worker(a)
  PROVE  Conservation'
<1> DEFINE counted == added + failed + skipped
           h == Cardinality(Holders)
           l == Len(queue)
           total == counted + l + h
<1>1. /\ added \in Nat /\ failed \in Nat /\ skipped \in Nat
      /\ l \in Nat /\ queue \in Seq(Members)
      /\ hand \in [Accounts -> Members \cup {NoMember}]
  BY DEF Placed, TypeOK
<1>2. h \in Nat
  BY FS_Subset, FS_CardinalityType DEF Holders
<1>3. total = Cardinality(Queueable)
  BY DEF Conservation
<1>4. SUFFICES total' = total
  BY <1>3 DEF Conservation
<1>5. pc[a] \in Holding => hand[a] # NoMember
  BY DEF Placed, HandMatchesPlace
<1>6. UNCHANGED hand => h' = h
  BY DEF Holders
<1>7. CASE SkipMember(a)
  <2>1. l' = l - 1
    BY <1>1, <1>7, HeadTailProperties DEF SkipMember
  <2>2. h' = h /\ counted' = counted + 1
    BY <1>1, <1>6, <1>7 DEF SkipMember
  <2> QED
    BY <1>1, <1>2, <2>1, <2>2
<1>8. CASE TakeMember(a)
  <2>1. l' = l - 1 /\ Head(queue) \in Members
    BY <1>1, <1>8, HeadTailProperties DEF TakeMember
  <2>2. hand[a] = NoMember
    BY <1>8 DEF TakeMember, Placed, HandMatchesPlace, Holding
  <2>3. h' = h + 1
    BY <1>8, <2>1, <2>2, HoldersFilled DEF TakeMember
  <2>4. counted' = counted
    BY <1>8 DEF TakeMember, tallies
  <2> QED
    BY <1>1, <1>2, <2>1, <2>3, <2>4
<1>9. CASE Unresolved(a) \/ (Answer(a) /\ ~ Forbidden(a))
  <2>1. hand[a] # NoMember /\ hand' = [hand EXCEPT ![a] = NoMember]
    BY <1>5, <1>9
    DEF Unresolved, Answer, Joined, NotJoined, PrivacyRefused,
        AlreadyOrInvalid, TooManyChannels, FloodWait, OtherError, Settle,
        Holding
  <2>2. h' = h - 1
    BY <2>1, HoldersEmptied
  <2>3. l' = l /\ counted' = counted + 1
    BY <1>1, <1>9
    DEF Unresolved, Answer, Joined, NotJoined, PrivacyRefused,
        AlreadyOrInvalid, TooManyChannels, FloodWait, OtherError
  <2> QED
    BY <1>1, <1>2, <2>2, <2>3
<1>10. CASE PutBack(a) /\ (PeerFlood(a) \/ Forbidden(a) \/ Throttled(a))
  <2>1. hand[a] # NoMember /\ hand' = [hand EXCEPT ![a] = NoMember]
    BY <1>5, <1>10 DEF PeerFlood, Forbidden, Throttled, PutBack, Holding
  <2>2. h' = h - 1
    BY <2>1, HoldersEmptied
  <2>3. l' = l + 1
    BY <1>1, <1>10, <2>1 DEF PutBack
  <2>4. counted' = counted
    BY <1>10 DEF PeerFlood, Forbidden, Throttled, tallies
  <2> QED
    BY <1>1, <1>2, <2>2, <2>3, <2>4
<1>11. CASE \/ Connect(a) \/ LeaveDrained(a) \/ LeaveHalted(a) \/ Resolved(a)
            \/ CooledDown(a) \/ (Throttled(a) /\ ~ PutBack(a))
            \/ PauseOver(a) \/ Woken(a)
  <2>1. UNCHANGED <<queue, hand, added, failed, skipped>>
    BY <1>11
    DEF Connect, LeaveDrained, LeaveHalted, Resolved, CooledDown, Throttled,
        PauseOver, Woken, tallies
  <2> QED
    BY <1>6, <2>1
<1>12. PeerFlood(a) \/ Forbidden(a) => PutBack(a)
  BY DEF PeerFlood, Forbidden
<1> HIDE DEF total
<1> QED
  BY <1>7, <1>8, <1>9, <1>10, <1>11, <1>12 DEF Worker, Answer

\* The counters shared by the workers never drift: every member that entered
\* the queue is counted, queued or held.
THEOREM NothingUncounted == Spec => []Conservation
<1>1. Init => Conservation
  <2> SUFFICES ASSUME Init PROVE Conservation
    OBVIOUS
  <2>1. Holders = {}
    BY DEF Init, Holders
  <2>2. Len(queue) = Cardinality(Queueable) /\ Len(queue) \in Nat
    BY InitialQueue, QueueableFinite
  <2> QED
    BY <2>1, <2>2, FS_EmptySet DEF Init, Conservation
<1>2. Placed /\ Conservation /\ [Next]_vars => Conservation'
  <2> SUFFICES ASSUME Placed, Conservation, [Next]_vars PROVE Conservation'
    OBVIOUS
  <2>1. CASE \E a \in Accounts : Worker(a)
    BY <2>1, ConservationWorker
  <2>2. CASE RequestStop \/ Finish \/ UNCHANGED vars
    BY <2>2 DEF RequestStop, Finish, vars, tallies, Conservation, Holders
  <2> QED
    BY <2>1, <2>2 DEF Next
<1> QED
  BY <1>1, <1>2, AlwaysPlaced, PTL DEF Spec

-----------------------------------------------------------------------------
(***************************************************************************)
(* Refinement: each step of the run is one step of MemberDispatch or a     *)
(* stutter.  EveryMemberOnce is what makes TakeMember a Take: the member   *)
(* at the head of the queue is in nobody's hand and has no verdict.        *)
(***************************************************************************)
Refined == Dispatch!DispatchNext \/ UNCHANGED Dispatch!dispatchVars

LEMMA RefineWorker ==
  ASSUME Placed, EveryMemberOnce, NEW a \in Accounts, Worker(a)
  PROVE  Refined
<1> DEFINE inviting == {b \in Accounts : pc[b] = "inviting"}
<1>1. /\ pc \in [Accounts -> PC]
      /\ hand \in [Accounts -> Members \cup {NoMember}]
      /\ verdict \in [Members -> Verdicts]
      /\ queue \in Seq(Members)
  BY DEF Placed, TypeOK
<1>2. pc[a] \in Holding <=> hand[a] # NoMember
  BY DEF Placed, HandMatchesPlace
<1>3. hand[a] # NoMember => verdict[hand[a]] = "pending"
  BY <1>1 DEF EveryMemberOnce, Held
<1>4. ASSUME NEW p \in PC \ {"inviting"}, GoTo(a, p)
      PROVE  inviting' = inviting \ {a}
  BY <1>1, <1>4 DEF GoTo
<1>5. ASSUME GoTo(a, "inviting")
      PROVE  inviting' = inviting \cup {a}
  BY <1>1, <1>5 DEF GoTo
<1>p. /\ {"ready", "drained", "halted", "resting", "barred", "dead"} \subseteq PC \ {"inviting"}
      /\ {"resolving", "throttling", "pausing", "cooling"} \subseteq PC \ {"inviting"}
  BY DEF PC, Returned, Holding, Waiting
<1>6. CASE SkipMember(a) \/ TakeMember(a)
  <2> DEFINE m == Head(queue)
  <2>1. m \in Members /\ Queued(m)
    <3>1. queue # <<>>
      BY <1>6 DEF SkipMember, TakeMember
    <3>2. m = queue[1] /\ Len(queue) \in Nat \ {0} /\ m \in Members
      BY <1>1, <3>1, EmptySeq, HeadTailProperties
    <3> QED
      BY <3>2 DEF Queued
  <2>2. verdict[m] = "pending" /\ \A b \in Accounts : hand[b] # m
    BY <2>1 DEF EveryMemberOnce, Held
  <2>3. pc[a] = "ready" /\ hand[a] = NoMember
    BY <1>2, <1>6 DEF SkipMember, TakeMember, Holding
  <2>4. UNCHANGED Stopping
    BY <1>6 DEF SkipMember, TakeMember, control, Stopping
  <2>5. CASE SkipMember(a)
    <3>1. Dispatch!PassOver(m)
      BY <2>2, <2>4, <2>5 DEF SkipMember, Dispatch!PassOver, Dispatch!Free
    <3> QED
      BY <2>1, <3>1 DEF Refined, Dispatch!DispatchNext
  <2>6. CASE TakeMember(a)
    <3>1. inviting' = inviting
      BY <1>4, <1>p, <2>3, <2>6 DEF TakeMember
    <3>2. Dispatch!Take(a, m)
      BY <2>2, <2>3, <2>4, <2>6, <3>1
      DEF TakeMember, Dispatch!Take, Dispatch!Free
    <3> QED
      BY <2>1, <3>2 DEF Refined, Dispatch!DispatchNext
  <2> QED
    BY <1>6, <2>5, <2>6
<1>7. CASE Unresolved(a)
  <2>1. inviting' = inviting /\ a \notin inviting
    BY <1>4, <1>p, <1>7 DEF Unresolved
  <2>2. UNCHANGED Stopping
    BY <1>7 DEF Unresolved, control, Stopping
  <2>3. Dispatch!GiveUp(a)
    BY <1>2, <1>7, <2>1, <2>2 DEF Unresolved, Settle, Dispatch!GiveUp, Holding
  <2> QED
    BY <2>3 DEF Refined, Dispatch!DispatchNext
<1>8. CASE PutBack(a) /\ (PeerFlood(a) \/ Forbidden(a) \/ Throttled(a))
  <2>1. /\ hand[a] # NoMember
        /\ hand' = [hand EXCEPT ![a] = NoMember]
        /\ verdict' = verdict
    BY <1>2, <1>8 DEF PeerFlood, Forbidden, Throttled, PutBack, Holding
  <2>2. inviting' = inviting \ {a}
    <3>1. \E p \in {"cooling", "barred", "halted"} : GoTo(a, p)
      BY <1>1, <1>2, <1>8, <2>1
      DEF PeerFlood, Forbidden, Throttled, Holding
    <3> QED
      BY <1>4, <1>p, <3>1
  <2>3. UNCHANGED Stopping
    BY <1>8 DEF PeerFlood, Forbidden, Throttled, control, Stopping
  <2>4. Dispatch!Return(a)
    BY <2>1, <2>2, <2>3 DEF Dispatch!Return
  <2> QED
    BY <2>4 DEF Refined, Dispatch!DispatchNext
<1>9. CASE Throttled(a) /\ ~ PutBack(a)
  <2>1. ~ Stopping /\ GoTo(a, "inviting") /\ UNCHANGED <<hand, verdict, Stopping>>
    BY <1>9 DEF Throttled, control, Stopping
  <2>2. Dispatch!Invite(a)
    BY <1>2, <1>5, <1>9, <2>1 DEF Throttled, Dispatch!Invite, Holding
  <2> QED
    BY <2>2 DEF Refined, Dispatch!DispatchNext
<1>10. CASE Answer(a) /\ ~ Forbidden(a)
  <2>1. /\ pc[a] = "inviting"
        /\ \E v \in {"added", "refused", "failed"} : Settle(a, v)
    BY <1>10
    DEF Answer, Joined, NotJoined, PrivacyRefused, AlreadyOrInvalid,
        TooManyChannels, FloodWait, OtherError
  <2>2. \E p \in {"ready", "pausing", "halted", "resting"} : GoTo(a, p)
    BY <1>10
    DEF Answer, Joined, NotJoined, PrivacyRefused, AlreadyOrInvalid,
        TooManyChannels, FloodWait, OtherError
  <2>3. inviting' = inviting \ {a} /\ a \in inviting
    BY <1>4, <1>p, <2>1, <2>2
  <2>4. Stopping' \in {Stopping, TRUE}
    <3>1. UNCHANGED <<stopEvent, stopRequested>> \/ stopEvent'
      BY <1>10
      DEF Answer, Joined, NotJoined, PrivacyRefused, AlreadyOrInvalid,
          TooManyChannels, FloodWait, OtherError, control
    <3>2. CASE UNCHANGED <<stopEvent, stopRequested>>
      BY <3>2 DEF Stopping
    <3>3. CASE stopEvent'
      BY <3>3 DEF Stopping
    <3> QED
      BY <3>1, <3>2, <3>3
  <2>5. hand[a] # NoMember
    BY <1>2, <2>1 DEF Holding
  <2>6. Dispatch!Answered(a)
    BY <1>3, <2>1, <2>3, <2>4, <2>5 DEF Settle, Dispatch!Answered
  <2> QED
    BY <2>6 DEF Refined, Dispatch!DispatchNext
<1>11. CASE \/ Connect(a) \/ LeaveDrained(a) \/ LeaveHalted(a) \/ Resolved(a)
            \/ CooledDown(a) \/ PauseOver(a) \/ Woken(a)
  <2>1. UNCHANGED <<hand, verdict, Stopping>>
    BY <1>11
    DEF Connect, LeaveDrained, LeaveHalted, Resolved, CooledDown, PauseOver,
        Woken, control, Stopping
  <2>2. pc[a] # "inviting" /\ \E p \in PC \ {"inviting"} : GoTo(a, p)
    BY <1>11, <1>p
    DEF Connect, LeaveDrained, LeaveHalted, Resolved, CooledDown, PauseOver,
        Woken, Waiting
  <2>3. inviting' = inviting
    BY <1>4, <2>2
  <2> QED
    BY <2>1, <2>3 DEF Refined, Dispatch!dispatchVars
<1>12. PeerFlood(a) \/ Forbidden(a) => PutBack(a)
  BY DEF PeerFlood, Forbidden
<1> QED
  BY <1>6, <1>7, <1>8, <1>9, <1>10, <1>11, <1>12 DEF Worker, Answer

\* The parallel add implements MemberDispatch: whatever the queue, the flags and
\* the delays do, members are dispatched one at a time, answered at most once,
\* and never invited after a halt.
THEOREM DispatchImplemented == Spec => ImplementsDispatch
<1>1. Init => Dispatch!DispatchInit
  BY DEF Init, Dispatch!DispatchInit, Stopping
<1>2. Placed /\ EveryMemberOnce /\ [Next]_vars
        => [Dispatch!DispatchNext]_Dispatch!dispatchVars
  <2> SUFFICES ASSUME Placed, EveryMemberOnce, [Next]_vars PROVE Refined
    BY DEF Refined
  <2>1. CASE \E a \in Accounts : Worker(a)
    BY <2>1, RefineWorker
  <2>2. CASE RequestStop
    <3>1. Dispatch!Halt
      BY <2>2 DEF RequestStop, Dispatch!Halt, Stopping
    <3> QED
      BY <3>1 DEF Refined, Dispatch!DispatchNext
  <2>3. CASE Finish \/ UNCHANGED vars
    BY <2>3 DEF Finish, vars, control, Stopping, Refined, Dispatch!dispatchVars
  <2> QED
    BY <2>1, <2>2, <2>3 DEF Next
<1> QED
  BY <1>1, <1>2, AlwaysPlaced, OnceAlways, PTL
  DEF Spec, ImplementsDispatch, Dispatch!DispatchSpec
=============================================================================
