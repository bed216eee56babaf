-------------------------- MODULE MemberAddsProofs --------------------------
(***************************************************************************)
(* What the loops of MemberAdds guarantee for any members, any workers, any  *)
(* width of the pool and any interval of the throttle.                      *)
(*                                                                         *)
(* That nobody who was recorded is invited rests on what each kind of loop    *)
(* does with the set it has read: the single add keeps the object and looks   *)
(* into it again, the others take the members out of their lists (Barred).    *)
(* The throttle is a queue without repetitions whose first sleeps what is     *)
(* missing (Paced).                                                         *)
(***************************************************************************)
EXTENDS MemberAdds, SequenceTheorems, TLAPS

\* Where the kinds of loops get to.
Position(w) ==
  /\ pc[w] = "idle" => kind[w] = "single" /\ hand[w] = Nobody /\ found[w] = {}
  /\ pc[w] \in {"permit", "invite", "confirm"} => hand[w] # Nobody
  /\ pc[w] \in {"throttle", "spaced"} => kind[w] = "single"
  /\ pc[w] = "scan" => kind[w] = "direct"
  /\ pc[w] = "confirm" => kind[w] \in {"direct", "batch"}
  /\ pc[w] = "permit" => kind[w] = "pool"
  /\ kind[w] = "pool" /\ pc[w] \in {"permit", "invite"} => room[w] > 0

Positions == \A w \in Worker : Position(w)

\* Where those are kept out who were recorded when the list was read.
Bar(w) ==
  /\ pc[w] = "idle" => known[w] = {}
  /\ kind[w] = "single" => known[w] \subseteq View(w)
  /\ pc[w] = "scan" => known[w] \subseteq View(w) /\ found[w] \cap known[w] = {}
  /\ kind[w] = "direct" /\ pc[w] # "scan" => todo[w] \cap known[w] = {}
  /\ kind[w] = "filter" => todo[w] \cap known[w] = {}
  /\ kind[w] = "pool" => queue \cap known[w] = {}
  /\ kind[w] \in {"batch", "quick"} => known[w] = {}

Barred == \A w \in Worker : Bar(w)

\* Nobody waits twice for the throttle.
Once == \A i, j \in 1 .. Len(line) : line[i] = line[j] => i = j

\* Its holder still has to sleep what the time since the last invitation leaves.
Paced == \A w \in Worker : pc[w] = "spaced" => need + since = Interval

MInv ==
  /\ TypeOK /\ Positions /\ CacheComplete /\ Barred /\ NoOldVerdict
  /\ Once /\ NobodyForgotten /\ Paced

LEMMA Given ==
  /\ Nobody \notin User /\ Interval \in Nat /\ MaxRoom \in Nat /\ MaxErrors \in Nat
  /\ MaxErrors > 0 /\ MaxFaults \in Nat
BY MemberAddsAssumption

-----------------------------------------------------------------------------
(* The tables and the set that stands for them.                             *)

Ids == [ids : SUBSET User, state : {"none", "fresh", "old"}, whole : BOOLEAN]

\* The part of TypeOK that the operations on the tables change.
TablesOK ==
  /\ added \subseteq User /\ dna \subseteq User /\ cache \in Ids
  /\ shares \subseteq Worker /\ view \in [Worker -> SUBSET User] /\ faults \in 0 .. MaxFaults

LEMMA TablesTyped == TypeOK => TablesOK
BY DEF TypeOK, TablesOK, Ids

LEMMA ViewType == TablesOK => \A w \in Worker : View(w) \subseteq User
BY DEF TablesOK, Ids, View

\* Loading gives every reader what was read and leaves the others what they had.
LEMMA ReloadFacts ==
  ASSUME TablesOK, CacheComplete, NEW readers \in SUBSET Worker, NEW got,
         Reload(readers, got), UNCHANGED <<added, dna>>
  PROVE  /\ TablesOK' /\ CacheComplete' /\ got \subseteq User
         /\ cache'.whole => Recorded \subseteq got
         /\ \A w \in Worker : View(w)' = IF w \in readers THEN got ELSE View(w)
<1>1. got \subseteq User
  BY DEF Reload, Fetched, Recorded, TablesOK
<1>2. cache' \in Ids
  <2>1. (got = Recorded) \in BOOLEAN
    OBVIOUS
  <2> QED
    BY <1>1, <2>1 DEF Reload, Ids
<1>3. cache'.ids = got /\ cache'.whole = (got = Recorded)
  BY DEF Reload
<1>4. faults' \in 0 .. MaxFaults
  BY Given DEF Reload, Fetched, TablesOK
<1>5. shares' \subseteq Worker
  BY DEF Reload
<1>6. view' \in [Worker -> SUBSET User]
  BY ViewType DEF Reload
<1>7. \A w \in Worker : View(w)' = IF w \in readers THEN got ELSE View(w)
  <2> SUFFICES ASSUME NEW w \in Worker PROVE View(w)' = IF w \in readers THEN got ELSE View(w)
    OBVIOUS
  <2>1. View(w)' = IF w \in shares' THEN got ELSE view'[w]
    BY <1>3 DEF View
  <2>2. view'[w] = IF w \in readers THEN {} ELSE View(w)
    BY DEF Reload
  <2>3. shares' = IF got = {} THEN {} ELSE readers
    BY DEF Reload
  <2> QED
    BY <2>1, <2>2, <2>3
<1>8. cache'.whole => Recorded \subseteq got
  BY <1>3
<1>9. Recorded' = Recorded
  BY DEF Recorded
<1> QED
  BY <1>1, <1>2, <1>3, <1>4, <1>5, <1>6, <1>7, <1>8, <1>9 DEF TablesOK, CacheComplete

LEMMA GetBlockedFacts ==
  ASSUME TablesOK, CacheComplete, NEW readers \in SUBSET Worker, NEW got,
         GetBlocked(readers, got), UNCHANGED <<added, dna>>
  PROVE  /\ TablesOK' /\ CacheComplete' /\ got \subseteq User
         /\ cache'.whole => Recorded \subseteq got
         /\ \A w \in Worker : View(w)' = IF w \in readers THEN got ELSE View(w)
<1>1. CASE cache.state # "fresh"
  BY <1>1, ReloadFacts DEF GetBlocked
<1>2. CASE cache.state = "fresh"
  <2>1. /\ got = cache.ids /\ UNCHANGED <<cache, faults>>
        /\ shares' = IF got = {} THEN shares \ readers ELSE shares \cup readers
        /\ view' = [w \in Worker |-> IF w \in readers THEN {} ELSE view[w]]
    BY <1>2 DEF GetBlocked
  <2>2. got \subseteq User
    BY <2>1 DEF TablesOK, Ids
  <2>3. TablesOK'
    BY <2>1 DEF TablesOK
  <2>4. CacheComplete' /\ (cache'.whole => Recorded \subseteq got)
    BY <1>2, <2>1 DEF CacheComplete, Recorded
  <2>5. \A w \in Worker : View(w)' = IF w \in readers THEN got ELSE View(w)
    BY <2>1 DEF View
  <2> QED
    BY <2>2, <2>3, <2>4, <2>5
<1> QED
  BY <1>1, <1>2

\* A new entry of added_history_tbl reaches those who share the set.
LEMMA MarkAddedFacts ==
  ASSUME TablesOK, CacheComplete, NEW u \in User, MarkAdded(u)
  PROVE  /\ TablesOK' /\ CacheComplete'
         /\ \A w \in Worker : View(w) \subseteq View(w)'
<1>1. /\ cache'.ids = (IF cache.state = "none" THEN cache.ids ELSE cache.ids \cup {u})
      /\ cache'.state = cache.state /\ cache'.whole = cache.whole /\ cache' \in Ids
  BY DEF MarkAdded, TablesOK, Ids
<1>2. TablesOK'
  BY <1>1 DEF MarkAdded, TablesOK
<1>3. CacheComplete'
  BY <1>1 DEF MarkAdded, CacheComplete, Recorded
<1>4. \A w \in Worker : View(w) \subseteq View(w)'
  BY <1>1 DEF MarkAdded, View
<1> QED
  BY <1>2, <1>3, <1>4

\* A new entry of do_not_add_tbl drops the set and leaves the copies as they are.
LEMMA NeverAgainFacts ==
  ASSUME TablesOK, CacheComplete, NEW U \in SUBSET User, NeverAgain(U)
  PROVE  /\ TablesOK' /\ CacheComplete'
         /\ \A w \in Worker : View(w)' = View(w)
<1>1. CASE U = {}
  BY <1>1 DEF NeverAgain, tables, TablesOK, CacheComplete, Recorded, View
<1>2. CASE U # {}
  <2>1. /\ dna' = dna \cup U /\ cache' = None /\ shares' = {} /\ UNCHANGED <<added, faults>>
        /\ view' = [w \in Worker |-> View(w)]
    BY <1>2 DEF NeverAgain
  <2>2. None \in Ids /\ None.state = "none"
    BY DEF None, Ids
  <2> QED
    BY <2>1, <2>2, ViewType DEF TablesOK, CacheComplete, View
<1> QED
  BY <1>1, <1>2

\* Whoever returns forgets only its own.
LEMMA ForgetFacts ==
  ASSUME TablesOK, CacheComplete, NEW w \in Worker, Forget(w), UNCHANGED Tables
  PROVE  /\ TablesOK' /\ CacheComplete'
         /\ \A x \in Worker \ {w} : View(x)' = View(x)
BY DEF Forget, Clear, Tables, TablesOK, CacheComplete, Recorded, View

-----------------------------------------------------------------------------
(* The tables in every step.                                                *)

\* What a step of the tables may be, from the view of those who do not take part.
TablesMove(W) ==
  /\ TablesOK' /\ CacheComplete'
  /\ \A x \in Worker \ W : View(x) \subseteq View(x)'

LEMMA Untouched ==
  ASSUME TablesOK, CacheComplete, UNCHANGED <<tables, faults>>, NEW W
  PROVE  TablesMove(W)
BY DEF TablesMove, tables, TablesOK, CacheComplete, Recorded, View

LEMMA ReturnMove ==
  ASSUME TablesOK, CacheComplete, NEW w \in Worker, Return(w), UNCHANGED Tables
  PROVE  TablesMove({w})
BY ForgetFacts DEF TablesMove, Return

LEMMA TablesStep ==
  ASSUME TypeOK, Positions, CacheComplete, NEW w \in Worker, Begin(w) \/ Continue(w)
  PROVE  TablesMove({w})
<1> USE TablesTyped, Untouched DEF Shared
<1>1. CASE StartSingle(w)
  <2>1. PICK got : Reload({w}, got) /\ UNCHANGED <<added, dna>>
    BY <1>1 DEF StartSingle, Start
  <2> QED
    BY <2>1, ReloadFacts DEF TablesMove
<1>2. CASE StartDirect(w)
  <2>1. PICK got : GetBlocked({w}, got) /\ UNCHANGED <<added, dna>>
    BY <1>2 DEF StartDirect, Start
  <2>2. /\ TablesOK' /\ CacheComplete'
        /\ \A x \in Worker : View(x)' = IF x \in {w} THEN got ELSE View(x)
    BY <2>1, GetBlockedFacts, {w} \in SUBSET Worker
  <2> QED
    BY <2>2 DEF TablesMove
<1>3. CASE StartQuick(w)
  BY <1>3 DEF StartQuick, Start, tables
<1>4. CASE StartFilter(w)
  BY <1>4, GetBlockedFacts DEF StartFilter, Start, TablesMove
<1>5. CASE Scan(w) \/ SkipBlocked(w) \/ Take(w) \/ Unresolved(w)
  BY <1>5 DEF Scan, SkipBlocked, Take, Unresolved
<1>6. CASE Scanned(w)
  BY <1>6, ForgetFacts DEF Scanned, TablesMove
<1>7. CASE TakeFromPool(w) \/ Acquire(w) \/ Grant(w) \/ Accepted(w) \/ NotJoined(w) \/ FilterError(w)
  BY <1>7 DEF TakeFromPool, Acquire, Grant, Accepted, NotJoined, FilterError
<1>8. CASE End(w)
  BY <1>8, ReturnMove DEF End
<1>9. CASE Pass(w)
  BY <1>9, ReturnMove DEF Pass, Tables, tables
<1>10. CASE Joined(w)
  <2>1. hand[w] \in User
    BY <1>10 DEF Joined, Positions, Position, TypeOK
  <2> QED
    BY <1>10, <2>1, MarkAddedFacts DEF Joined, TablesMove
<1>11. CASE AlreadyIn(w)
  <2>1. hand[w] \in User
    BY <1>11 DEF AlreadyIn, Positions, Position, TypeOK
  <2> QED
    BY <1>11, <2>1, MarkAddedFacts DEF AlreadyIn, TablesMove
<1>12. CASE Refused(w)
  <2>1. {hand[w]} \in SUBSET User
    BY <1>12 DEF Refused, Positions, Position, TypeOK
  <2> QED
    BY <1>12, <2>1, NeverAgainFacts DEF Refused, TablesMove
<1>13. CASE Failed(w)
  BY <1>13, ReturnMove DEF Failed, Tables, tables
<1>14. CASE FilterChunk(w)
  <2>1. PICK bad \in SUBSET todo[w] : NeverAgain(bad)
    BY <1>14 DEF FilterChunk
  <2>2. bad \in SUBSET User
    BY DEF TypeOK
  <2> QED
    BY <2>1, <2>2, NeverAgainFacts DEF TablesMove
<1> QED
  BY <1>1, <1>2, <1>3, <1>4, <1>5, <1>6, <1>7, <1>8, <1>9, <1>10, <1>11, <1>12, <1>13, <1>14
     DEF Begin, Continue

\* Steps that are no worker's.
Elsewhere ==
  \/ \E W \in SUBSET Worker \ {{}} : StartBatch(W) \/ StartPool(W)
  \/ OfferBatch \/ Tick \/ Expire \/ GroupLeave \/ LookUp \/ RequestStop
  \/ UNCHANGED vars

LEMMA TablesElsewhere ==
  ASSUME TypeOK, CacheComplete, Elsewhere
  PROVE  TablesMove({})
<1> USE TablesTyped, Untouched DEF Shared
<1>1. ASSUME NEW W \in SUBSET Worker, StartBatch(W) PROVE TablesMove({})
  BY <1>1 DEF StartBatch
<1>2. ASSUME NEW W \in SUBSET Worker, StartPool(W) PROVE TablesMove({})
  <2>1. PICK got : GetBlocked({}, got) /\ UNCHANGED <<added, dna>>
    BY <1>2 DEF StartPool
  <2> QED
    BY <2>1, GetBlockedFacts DEF TablesMove
<1>3. CASE OfferBatch
  <2>1. PICK got : GetBlocked({}, got) /\ UNCHANGED <<added, dna>>
    BY <1>3 DEF OfferBatch
  <2>2. /\ TablesOK' /\ CacheComplete'
        /\ \A x \in Worker : View(x)' = IF x \in {} THEN got ELSE View(x)
    BY <2>1, GetBlockedFacts, {} \in SUBSET Worker
  <2> QED
    BY <2>2 DEF TablesMove
<1>4. CASE Tick \/ RequestStop \/ UNCHANGED vars
  BY <1>4 DEF Tick, RequestStop, vars, tables
<1>5. CASE Expire
  <2>1. cache' \in Ids /\ cache'.ids = cache.ids /\ cache'.whole = cache.whole /\ cache.state # "none"
    BY <1>5 DEF Expire, TablesOK, Ids
  <2> QED
    BY <1>5, <2>1 DEF Expire, TablesMove, TablesOK, CacheComplete, Recorded, View
<1>6. CASE GroupLeave
  BY <1>6, NeverAgainFacts DEF GroupLeave, TablesMove
<1>7. CASE LookUp
  BY <1>7, ReloadFacts DEF LookUp, TablesMove
<1> QED
  BY <1>1, <1>2, <1>3, <1>4, <1>5, <1>6, <1>7 DEF Elsewhere

LEMMA CacheStep ==
  ASSUME TypeOK, Positions, CacheComplete, [Next]_vars
  PROVE  TablesOK' /\ CacheComplete'
BY TablesStep, TablesElsewhere DEF Next, Elsewhere, TablesMove

-----------------------------------------------------------------------------
(* The types of all else.                                                   *)

LoopsOK ==
  /\ kind \in [Worker -> Kinds] /\ pc \in [Worker -> Places]
  /\ todo \in [Worker -> SUBSET User] /\ found \in [Worker -> SUBSET User]
  /\ hand \in [Worker -> User \cup {Nobody}]
  /\ room \in [Worker -> 0 .. MaxRoom + MaxErrors]
  /\ known \in [Worker -> SUBSET User]

RestOK ==
  /\ menu \subseteq User /\ permits \subseteq Worker /\ queue \subseteq User /\ stop \in BOOLEAN
  /\ line \in Seq(Worker) /\ since \in 0 .. Interval /\ need \in 0 .. Interval

LEMMA TypeParts == TypeOK <=> TablesOK /\ LoopsOK /\ RestOK
BY DEF TypeOK, TablesOK, Ids, LoopsOK, RestOK

LEMMA ReturnType == ASSUME LoopsOK, NEW w \in Worker, Return(w) PROVE LoopsOK'
BY Given DEF LoopsOK, Return, Goto, Clear, Places, Kinds

LEMMA LearnType ==
  ASSUME TypeOK, NEW readers, Learn(readers)
  PROVE  known' \in [Worker -> SUBSET User]
BY DEF Learn, TypeOK, Recorded

LEMMA StartType ==
  ASSUME TypeOK, NEW w \in Worker, NEW k \in Kinds, NEW place \in Places,
         NEW members \in SUBSET User, NEW left \in 0 .. MaxRoom + MaxErrors,
         Start(w, k, place, members, left), known' \in [Worker -> SUBSET User]
  PROVE  LoopsOK' /\ RestOK'
BY DEF Start, TypeOK, LoopsOK, RestOK, throttle, pool

LEMMA JoinType == \A w \in Worker : line \in Seq(Worker) => Append(line, w) \in Seq(Worker)
OBVIOUS

LEMMA RoomRange == \A n \in 0 .. MaxRoom : n \in 0 .. MaxRoom + MaxErrors
BY Given

LEMMA TypeStep ==
  ASSUME TypeOK, Positions, NobodyForgotten, NEW w \in Worker, Begin(w) \/ Continue(w)
  PROVE  LoopsOK' /\ RestOK'
<1>a. LoopsOK /\ RestOK
  BY TypeParts
<1>b. /\ {"idle", "scan", "loop", "permit", "throttle", "spaced", "invite", "confirm", "done"} = Places
      /\ {"single", "direct", "batch", "pool", "quick", "filter"} = Kinds
  BY DEF Places, Kinds
<1>c. 0 \in 0 .. MaxRoom + MaxErrors /\ MaxErrors \in 0 .. MaxRoom + MaxErrors
  BY Given
<1> USE <1>a DEF Shared
<1>1. CASE StartSingle(w)
  <2>1. known' \in [Worker -> SUBSET User]
    BY <1>1, LearnType DEF StartSingle
  <2> QED
    BY <1>1, <1>b, <1>c, <2>1, StartType DEF StartSingle
<1>2. CASE StartDirect(w)
  <2>1. known' \in [Worker -> SUBSET User]
    BY <1>2, LearnType DEF StartDirect
  <2> QED
    BY <1>2, <1>b, <2>1, StartType, RoomRange, Given DEF StartDirect
<1>3. CASE StartQuick(w)
  BY <1>3, <1>b, <1>c, StartType DEF StartQuick, TypeOK
<1>4. CASE StartFilter(w)
  <2>1. known' \in [Worker -> SUBSET User]
    BY <1>4, LearnType DEF StartFilter
  <2> QED
    BY <1>4, <1>b, <1>c, <2>1, StartType DEF StartFilter
<1> USE DEF LoopsOK, RestOK, throttle, pool, Goto, Drop, Hold, Clear
<1>5. CASE Scan(w)
  <2>1. PICK u \in todo[w] :
          /\ todo' = [todo EXCEPT ![w] = @ \ {u}]
          /\ found' = found \/ found' = [found EXCEPT ![w] = @ \cup {u}]
    BY <1>5 DEF Scan
  <2>2. todo' \in [Worker -> SUBSET User] /\ found' \in [Worker -> SUBSET User]
    BY <2>1, ZenonT(60)
  <2> QED
    BY <1>5, <2>2 DEF Scan
<1>6. CASE Scanned(w)
  BY <1>6, <1>b DEF Scanned
<1>7. CASE SkipBlocked(w) \/ Unresolved(w)
  BY <1>7 DEF SkipBlocked, Unresolved
<1>8. CASE Take(w)
  <2>1. line' \in Seq(Worker)
    <3>1. line' = line \/ line' = Append(line, w)
      BY <1>8 DEF Take
    <3> QED
      BY <3>1, JoinType, Zenon
  <2>2. pc' \in [Worker -> Places]
    BY <1>8, <1>b, ZenonT(60) DEF Take
  <2> QED
    BY <1>8, <2>1, <2>2 DEF Take
<1>9. CASE TakeFromPool(w)
  BY <1>9, <1>b DEF TakeFromPool
<1>10. CASE Acquire(w)
  BY <1>10, <1>b DEF Acquire
<1>11. CASE End(w)
  BY <1>11, ReturnType DEF End
<1>12. CASE Grant(w)
  <2>1. need' \in 0 .. Interval
    BY <1>12, Given DEF Grant
  <2> QED
    BY <1>12, <2>1, <1>b DEF Grant
<1>13. CASE Pass(w)
  <2>1. line # <<>>
    BY <1>13 DEF Pass, NobodyForgotten, Contains
  <2>2. line' \in Seq(Worker) /\ since' \in 0 .. Interval
    BY <1>13, <2>1, Given DEF Pass
  <2>3. LoopsOK'
    <3>1. CASE Return(w)
      BY <3>1, ReturnType
    <3>2. CASE ~ Return(w)
      BY <1>13, <3>2, <1>b DEF Pass
    <3> QED
      BY <3>1, <3>2
  <2> QED
    BY <1>13, <2>2, <2>3 DEF Pass
<1>14. CASE Accepted(w)
  BY <1>14, <1>b DEF Accepted
<1>15. CASE Joined(w)
  <2>1. room' \in [Worker -> 0 .. MaxRoom + MaxErrors]
    <3>1. Loop(w).rooms => kind[w] = "pool"
      BY DEF Loop, SingleLoop, DirectLoop, BatchLoop, QuickLoop
    <3>2. Loop(w).rooms => room[w] > 0
      BY <1>15, <3>1 DEF Joined, Positions, Position
    <3>3. (IF Loop(w).rooms THEN room[w] - 1 ELSE room[w]) \in 0 .. MaxRoom + MaxErrors
      BY <3>2, Given
    <3> QED
      BY <1>15, <3>3 DEF Joined
  <2> QED
    BY <1>15, <2>1, <1>b DEF Joined, Released
<1>16. CASE NotJoined(w)
  <2>1. line' \in Seq(Worker)
    <3>1. line' = line \/ line' = Append(line, w)
      BY <1>16 DEF NotJoined
    <3> QED
      BY <3>1, JoinType, Zenon
  <2>2. pc' \in [Worker -> Places]
    BY <1>16, <1>b, ZenonT(60) DEF NotJoined
  <2> QED
    BY <1>16, <2>1, <2>2 DEF NotJoined
<1>17. CASE AlreadyIn(w) \/ Refused(w)
  BY <1>17, <1>b DEF AlreadyIn, Refused, Released
<1>18. CASE Failed(w)
  <2>1. LoopsOK'
    <3>1. CASE Return(w)
      BY <3>1, ReturnType
    <3>2. CASE ~ Return(w)
      BY <1>18, <3>2, <1>b DEF Failed
    <3> QED
      BY <3>1, <3>2
  <2> QED
    BY <1>18, <2>1 DEF Failed, Released
<1>19. CASE FilterChunk(w)
  BY <1>19, <1>c DEF FilterChunk
<1>20. CASE FilterError(w)
  <2>1. room' \in [Worker -> 0 .. MaxRoom + MaxErrors]
    BY <1>20, Given DEF FilterError
  <2>2. todo' \in [Worker -> SUBSET User]
    BY <1>20 DEF FilterError
  <2> QED
    BY <1>20, <2>1, <2>2 DEF FilterError
<1> QED
  BY <1>1, <1>2, <1>3, <1>4, <1>5, <1>6, <1>7, <1>8, <1>9, <1>10, <1>11, <1>12, <1>13, <1>14,
     <1>15, <1>16, <1>17, <1>18, <1>19, <1>20 DEF Begin, Continue

LEMMA TypeElsewhere ==
  ASSUME TypeOK, Elsewhere
  PROVE  LoopsOK' /\ RestOK'
<1>a. LoopsOK /\ RestOK
  BY TypeParts
<1>b. {"loop", "done"} \subseteq Places /\ {"batch", "pool"} \subseteq Kinds
  BY DEF Places, Kinds
<1> USE <1>a DEF LoopsOK, RestOK, Shared, throttle, pool
<1>1. ASSUME NEW W \in SUBSET Worker, StartBatch(W) PROVE LoopsOK' /\ RestOK'
  <2>1. PICK cap \in [W -> 1 .. MaxRoom], list \in [W -> SUBSET menu] :
          /\ kind' = [w \in Worker |-> IF w \in W THEN "batch" ELSE kind[w]]
          /\ pc' = [w \in Worker |-> IF w \in W THEN "loop" ELSE pc[w]]
          /\ todo' = [w \in Worker |-> IF w \in W THEN list[w] ELSE todo[w]]
          /\ room' = [w \in Worker |-> IF w \in W THEN cap[w] ELSE room[w]]
    BY <1>1 DEF StartBatch
  <2>2. \A w \in W : cap[w] \in 0 .. MaxRoom + MaxErrors
    BY Given
  <2>3. room' \in [Worker -> 0 .. MaxRoom + MaxErrors]
    BY <2>1, <2>2
  <2>4. kind' \in [Worker -> Kinds] /\ pc' \in [Worker -> Places]
    BY <1>b, <2>1
  <2>5. todo' \in [Worker -> SUBSET User]
    BY <2>1
  <2> QED
    BY <1>1, <2>3, <2>4, <2>5 DEF StartBatch
<1>2. ASSUME NEW W \in SUBSET Worker, StartPool(W) PROVE LoopsOK' /\ RestOK'
  <2>1. known' \in [Worker -> SUBSET User]
    BY <1>2, LearnType DEF StartPool
  <2>2. PICK left \in [W -> 0 .. MaxRoom] :
          room' = [w \in Worker |-> IF w \in W THEN left[w] ELSE room[w]]
    BY <1>2 DEF StartPool
  <2>3. \A w \in W : left[w] \in 0 .. MaxRoom + MaxErrors
    BY RoomRange
  <2>4. room' \in [Worker -> 0 .. MaxRoom + MaxErrors]
    BY <2>2, <2>3
  <2>5. kind' \in [Worker -> Kinds] /\ pc' \in [Worker -> Places] /\ queue' \subseteq User
    BY <1>b, <1>2 DEF StartPool
  <2> QED
    BY <1>2, <2>1, <2>4, <2>5 DEF StartPool
<1>3. CASE OfferBatch
  BY <1>3 DEF OfferBatch, work
<1>4. CASE Tick
  <2>1. since' \in 0 .. Interval /\ need' \in 0 .. Interval
    BY <1>4, Given DEF Tick
  <2> QED
    BY <1>4, <2>1 DEF Tick, work
<1>5. CASE Expire \/ GroupLeave \/ LookUp \/ RequestStop \/ UNCHANGED vars
  BY <1>5 DEF Expire, GroupLeave, LookUp, RequestStop, vars, work
<1> QED
  BY <1>1, <1>2, <1>3, <1>4, <1>5 DEF Elsewhere

-----------------------------------------------------------------------------
(* A worker does nothing to the others.                                     *)

Alone(w) ==
  /\ \A x \in Worker \ {w} :
       /\ pc'[x] = pc[x] /\ kind'[x] = kind[x] /\ hand'[x] = hand[x] /\ room'[x] = room[x]
       /\ todo'[x] = todo[x] /\ found'[x] = found[x] /\ known'[x] = known[x]
  /\ queue' \subseteq queue

LEMMA ReturnAlone ==
  ASSUME LoopsOK, NEW w \in Worker, Return(w), UNCHANGED queue
  PROVE  Alone(w)
BY DEF LoopsOK, Alone, Return, Goto, Clear

LEMMA Workers ==
  ASSUME TypeOK, NEW w \in Worker, Begin(w) \/ Continue(w)
  PROVE  Alone(w)
<1>a. LoopsOK
  BY TypeParts
<1> USE <1>a DEF LoopsOK, Alone, Shared, pool, Goto, Drop, Hold, Clear
<1>1. CASE StartSingle(w) \/ StartDirect(w) \/ StartQuick(w) \/ StartFilter(w)
  BY <1>1 DEF StartSingle, StartDirect, StartQuick, StartFilter, Start, Learn
<1>2. CASE Scan(w)
  BY <1>2 DEF Scan
<1>3. CASE Scanned(w)
  BY <1>3 DEF Scanned
<1>4. CASE SkipBlocked(w) \/ Unresolved(w)
  BY <1>4 DEF SkipBlocked, Unresolved
<1>5. CASE Take(w)
  BY <1>5 DEF Take
<1>6. CASE TakeFromPool(w) \/ Acquire(w) \/ Grant(w) \/ Accepted(w)
  BY <1>6 DEF TakeFromPool, Acquire, Grant, Accepted
<1>7. CASE End(w)
  BY <1>7, ReturnAlone DEF End
<1>8. CASE Pass(w)
  <2>1. CASE Return(w)
    BY <1>8, <2>1, ReturnAlone DEF Pass
  <2>2. CASE ~ Return(w)
    BY <1>8, <2>2 DEF Pass
  <2> QED
    BY <2>1, <2>2
<1>9. CASE Joined(w)
  BY <1>9 DEF Joined
<1>10. CASE NotJoined(w)
  BY <1>10 DEF NotJoined
<1>11. CASE AlreadyIn(w) \/ Refused(w)
  BY <1>11 DEF AlreadyIn, Refused
<1>12. CASE Failed(w)
  <2>1. CASE Return(w)
    BY <1>12, <2>1, ReturnAlone DEF Failed
  <2>2. CASE ~ Return(w)
    BY <1>12, <2>2 DEF Failed
  <2> QED
    BY <2>1, <2>2
<1>13. CASE FilterChunk(w)
  BY <1>13 DEF FilterChunk
<1>14. CASE FilterError(w)
  BY <1>14 DEF FilterError
<1> QED
  BY <1>1, <1>2, <1>3, <1>4, <1>5, <1>6, <1>7, <1>8, <1>9, <1>10, <1>11, <1>12, <1>13, <1>14
     DEF Begin, Continue

-----------------------------------------------------------------------------
(* Where the loops get to.                                                  *)

LEMMA PositionStep ==
  ASSUME TypeOK, NEW w \in Worker, Position(w), Begin(w) \/ Continue(w)
  PROVE  Position(w)'
<1>a. LoopsOK
  BY TypeParts
<1> USE <1>a, Given DEF LoopsOK, Position, Shared, Goto, Drop, Hold, Clear, Return
<1>1. CASE StartSingle(w) \/ StartDirect(w) \/ StartQuick(w) \/ StartFilter(w)
  BY <1>1 DEF StartSingle, StartDirect, StartQuick, StartFilter, Start
<1>2. CASE Scan(w)
  BY <1>2 DEF Scan
<1>3. CASE Scanned(w)
  BY <1>3 DEF Scanned
<1>4. CASE SkipBlocked(w) \/ Unresolved(w)
  BY <1>4 DEF SkipBlocked, Unresolved
<1>5. CASE Take(w)
  BY <1>5 DEF Take
<1>6. CASE TakeFromPool(w)
  BY <1>6 DEF TakeFromPool, TypeOK
<1>7. CASE Acquire(w)
  BY <1>7 DEF Acquire
<1>8. CASE End(w)
  BY <1>8 DEF End
<1>9. CASE Grant(w)
  BY <1>9 DEF Grant
<1>10. CASE Pass(w)
  BY <1>10 DEF Pass
<1>11. CASE Accepted(w)
  <2>1. kind[w] \in {"direct", "batch"}
    BY <1>11 DEF Accepted, Loop, SingleLoop, PoolLoop, QuickLoop, Kinds
  <2> QED
    BY <1>11, <2>1 DEF Accepted
<1>12. CASE Joined(w)
  BY <1>12 DEF Joined
<1>13. CASE NotJoined(w)
  BY <1>13 DEF NotJoined
<1>14. CASE AlreadyIn(w) \/ Refused(w)
  BY <1>14 DEF AlreadyIn, Refused
<1>15. CASE Failed(w)
  BY <1>15 DEF Failed
<1>16. CASE FilterChunk(w)
  BY <1>16 DEF FilterChunk
<1>17. CASE FilterError(w)
  BY <1>17 DEF FilterError
<1> QED
  BY <1>1, <1>2, <1>3, <1>4, <1>5, <1>6, <1>7, <1>8, <1>9, <1>10, <1>11, <1>12, <1>13, <1>14,
     <1>15, <1>16, <1>17 DEF Begin, Continue

LEMMA PositionElsewhere ==
  ASSUME TypeOK, Positions, Elsewhere
  PROVE  Positions'
<1>a. LoopsOK
  BY TypeParts
<1> USE <1>a DEF LoopsOK, Positions, Position, Shared
<1>1. ASSUME NEW W \in SUBSET Worker, StartBatch(W) PROVE Positions'
  BY <1>1 DEF StartBatch
<1>2. ASSUME NEW W \in SUBSET Worker, StartPool(W) PROVE Positions'
  BY <1>2 DEF StartPool
<1>3. CASE OfferBatch \/ Tick \/ Expire \/ GroupLeave \/ LookUp \/ RequestStop \/ UNCHANGED vars
  BY <1>3 DEF OfferBatch, Tick, Expire, GroupLeave, LookUp, RequestStop, vars, work
<1> QED
  BY <1>1, <1>2, <1>3 DEF Elsewhere

-----------------------------------------------------------------------------
(* Who is kept out.                                                         *)

LEMMA BarStep ==
  ASSUME TypeOK, CacheComplete, NEW w \in Worker, Position(w), Bar(w), Begin(w) \/ Continue(w)
  PROVE  Bar(w)'
<1>a. LoopsOK /\ TablesOK /\ {w} \in SUBSET Worker /\ {} \in SUBSET Worker
  BY TypeParts
<1>b. ASSUME LoopsOK, Return(w) PROVE Bar(w)'
  BY <1>b DEF LoopsOK, Bar, Return, Goto, Clear
<1>1. CASE StartSingle(w)
  <2>1. PICK got : Reload({w}, got) /\ UNCHANGED <<added, dna>> /\ Learn({w})
    BY <1>1 DEF StartSingle, Start
  <2>2. View(w)' = got /\ known'[w] \subseteq got
    BY <2>1, <1>a, ReloadFacts DEF Learn
  <2>3. pc'[w] = "loop" /\ kind'[w] = "single"
    BY <1>1, <1>a DEF StartSingle, Start, LoopsOK
  <2> QED
    BY <2>2, <2>3 DEF Bar
<1>2. CASE StartDirect(w)
  <2>1. PICK got : GetBlocked({w}, got) /\ UNCHANGED <<added, dna>> /\ Learn({w})
    BY <1>2 DEF StartDirect, Start
  <2>2. View(w)' = got /\ known'[w] \subseteq got
    BY <2>1, <1>a, GetBlockedFacts DEF Learn
  <2>3. pc'[w] = "scan" /\ kind'[w] = "direct" /\ found'[w] = {}
    BY <1>2, <1>a DEF StartDirect, Start, LoopsOK, Position
  <2> QED
    BY <2>2, <2>3 DEF Bar
<1>3. CASE StartQuick(w)
  BY <1>3, <1>a DEF StartQuick, Start, LoopsOK, Bar
<1>4. CASE StartFilter(w)
  <2>1. PICK M, got : /\ GetBlocked({}, got) /\ UNCHANGED <<added, dna>> /\ Learn({w})
                      /\ Start(w, "filter", "loop", M \ got, MaxErrors)
    BY <1>4 DEF StartFilter, Start
  <2>2. known'[w] \subseteq got
    BY <2>1, <1>a, GetBlockedFacts DEF Learn
  <2>3. pc'[w] = "loop" /\ kind'[w] = "filter" /\ todo'[w] = M \ got
    BY <2>1, <1>a DEF Start, LoopsOK
  <2> QED
    BY <2>2, <2>3 DEF Bar
<1> USE <1>a DEF LoopsOK, Bar, Shared, Tables, tables, pool, Goto, Drop, Hold, Clear, View
<1>5. CASE Scan(w)
  BY <1>5 DEF Scan, Position
<1>6. CASE Scanned(w)
  BY <1>6 DEF Scanned, Position
<1>7. CASE SkipBlocked(w) \/ Unresolved(w)
  BY <1>7 DEF SkipBlocked, Unresolved
<1>8. CASE Take(w)
  BY <1>8 DEF Take
<1>9. CASE TakeFromPool(w) \/ Acquire(w) \/ Grant(w)
  BY <1>9 DEF TakeFromPool, Acquire, Grant
<1>10. CASE End(w)
  BY <1>10, <1>b DEF End
<1>11. CASE Pass(w)
  BY <1>11, <1>b DEF Pass
<1>12. CASE Accepted(w)
  BY <1>12 DEF Accepted
<1>13. CASE NotJoined(w)
  BY <1>13 DEF NotJoined
<1>c. ASSUME View(w) \subseteq View(w)', UNCHANGED <<kind, todo, found, queue, known>>,
             pc[w] \notin {"scan", "idle"}, pc'[w] = "loop"
      PROVE  Bar(w)'
  BY <1>c
<1>14. CASE Joined(w)
  <2>1. hand[w] \in User
    BY <1>14 DEF Joined, Position
  <2>2. View(w) \subseteq View(w)'
    BY <1>14, <2>1, MarkAddedFacts DEF Joined
  <2> QED
    BY <1>14, <2>2, <1>c DEF Joined
<1>15. CASE AlreadyIn(w)
  <2>1. hand[w] \in User
    BY <1>15 DEF AlreadyIn, Position
  <2>2. View(w) \subseteq View(w)'
    BY <1>15, <2>1, MarkAddedFacts DEF AlreadyIn
  <2> QED
    BY <1>15, <2>2, <1>c DEF AlreadyIn
<1>16. CASE Refused(w)
  <2>1. {hand[w]} \in SUBSET User
    BY <1>16 DEF Refused, Position
  <2>2. View(w) \subseteq View(w)'
    BY <1>16, <2>1, NeverAgainFacts DEF Refused
  <2> QED
    BY <1>16, <2>2, <1>c DEF Refused
<1>17. CASE Failed(w)
  BY <1>17, <1>b DEF Failed
<1>18. CASE FilterChunk(w)
  <2>1. PICK chunk \in SUBSET todo[w], bad \in SUBSET todo[w] :
          NeverAgain(bad) /\ todo' = [todo EXCEPT ![w] = @ \ chunk]
    BY <1>18 DEF FilterChunk
  <2>2. kind[w] = "filter" /\ pc[w] = "loop" /\ UNCHANGED <<kind, pc, known>>
    BY <1>18 DEF FilterChunk
  <2> QED
    BY <2>1, <2>2
<1>19. CASE FilterError(w)
  BY <1>19 DEF FilterError
<1> QED
  BY <1>1, <1>2, <1>3, <1>4, <1>5, <1>6, <1>7, <1>8, <1>9, <1>10, <1>11, <1>12, <1>13, <1>14,
     <1>15, <1>16, <1>17, <1>18, <1>19 DEF Begin, Continue

\* Whoever takes no part keeps its place and its bar.
LEMMA Bystander ==
  ASSUME NEW x \in Worker, Position(x), Bar(x), hand[x] \notin known[x],
         pc'[x] = pc[x], kind'[x] = kind[x], hand'[x] = hand[x], room'[x] = room[x],
         todo'[x] = todo[x], found'[x] = found[x], known'[x] = known[x],
         queue' \subseteq queue \/ kind[x] # "pool", View(x) \subseteq View(x)'
  PROVE  Position(x)' /\ Bar(x)' /\ hand'[x] \notin known'[x]
<1>1. Position(x)'
  BY DEF Position
<1>2. Bar(x)'
  <2> HIDE DEF View
  <2> QED
    BY DEF Bar
<1> QED
  BY <1>1, <1>2

LEMMA BarElsewhere ==
  ASSUME TypeOK, CacheComplete, Positions, Barred, NoOldVerdict, Elsewhere
  PROVE  Barred' /\ NoOldVerdict'
<1>a. LoopsOK /\ TablesOK /\ {} \in SUBSET Worker
  BY TypeParts
<1>b. \A x \in Worker : View(x) \subseteq View(x)'
  BY TablesElsewhere DEF TablesMove
<1>c. \A x \in Worker : Position(x) /\ Bar(x) /\ hand[x] \notin known[x]
  BY DEF Positions, Barred, NoOldVerdict
<1>1. ASSUME NEW W \in SUBSET Worker, StartBatch(W), NEW x \in Worker
      PROVE  Bar(x)' /\ hand'[x] \notin known'[x]
  <2>1. CASE x \in W
    BY <1>1, <1>a, <1>c, <2>1 DEF StartBatch, Bar, LoopsOK
  <2>2. CASE x \notin W
    BY <1>1, <1>a, <1>b, <1>c, <2>2, Bystander DEF StartBatch, pool, LoopsOK
  <2> QED
    BY <2>1, <2>2
<1>2. ASSUME NEW W \in SUBSET Worker, StartPool(W), NEW x \in Worker
      PROVE  Bar(x)' /\ hand'[x] \notin known'[x]
  <2>1. CASE x \in W
    <3>1. PICK M, got : /\ GetBlocked({}, got) /\ UNCHANGED <<added, dna>> /\ Learn(W)
                        /\ queue' = M \ got
      BY <1>2 DEF StartPool
    <3>2. known'[x] \subseteq got /\ known'[x] \subseteq User
      BY <3>1, <2>1, <1>a, GetBlockedFacts DEF Learn
    <3>3. kind'[x] = "pool" /\ pc'[x] \in {"loop", "done"} /\ hand'[x] = hand[x] /\ pc[x] = "idle"
      BY <1>2, <2>1 DEF StartPool
    <3>4. hand'[x] = Nobody
      BY <3>3, <1>c DEF Position
    <3> QED
      BY <3>1, <3>2, <3>3, <3>4, Given DEF Bar
  <2>2. CASE x \notin W
    <3>1. known'[x] = known[x] /\ kind[x] # "pool"
      BY <1>2, <2>2 DEF StartPool, Learn
    <3> QED
      BY <1>2, <1>a, <1>b, <1>c, <2>2, <3>1, Bystander DEF StartPool, LoopsOK
  <2> QED
    BY <2>1, <2>2
<1>3. CASE OfferBatch \/ Tick \/ Expire \/ GroupLeave \/ LookUp \/ RequestStop \/ UNCHANGED vars
  <2>1. UNCHANGED <<work, known, queue>>
    BY <1>3 DEF OfferBatch, Tick, Expire, GroupLeave, LookUp, RequestStop, vars, work, pool, Shared
  <2> QED
    BY <2>1, <1>b, <1>c, Bystander DEF work, Barred, NoOldVerdict
<1> QED
  BY <1>1, <1>2, <1>3 DEF Elsewhere, Barred, NoOldVerdict

\* The member that a loop picks was not recorded when the loop read its list.
LEMMA VerdictStep ==
  ASSUME TypeOK, NEW w \in Worker, Position(w), Bar(w), hand[w] \notin known[w],
         Begin(w) \/ Continue(w)
  PROVE  hand'[w] \notin known'[w]
<1>a. LoopsOK /\ Nobody \notin User
  BY TypeParts, Given
<1>b. ASSUME hand'[w] = Nobody, known'[w] \subseteq User PROVE hand'[w] \notin known'[w]
  BY <1>a, <1>b
<1>c. known[w] \subseteq User
  BY <1>a DEF LoopsOK
<1> USE <1>a DEF LoopsOK, Shared, Goto, Drop, Hold, Clear, Return
<1>1. CASE StartSingle(w) \/ StartDirect(w) \/ StartQuick(w) \/ StartFilter(w)
  <2>1. hand'[w] = Nobody
    BY <1>1 DEF StartSingle, StartDirect, StartQuick, StartFilter, Start, Position
  <2>2. known'[w] \subseteq User
    <3>1. Learn({w}) \/ UNCHANGED known
      BY <1>1 DEF StartSingle, StartDirect, StartQuick, StartFilter
    <3> QED
      BY <1>c, <3>1, LearnType
  <2> QED
    BY <1>b, <2>1, <2>2
<1>2. CASE Scan(w) \/ Scanned(w) \/ SkipBlocked(w) \/ Unresolved(w) \/ Acquire(w) \/ Grant(w)
             \/ Accepted(w) \/ FilterChunk(w) \/ FilterError(w)
  BY <1>2 DEF Scan, Scanned, SkipBlocked, Unresolved, Acquire, Grant, Accepted, FilterChunk, FilterError
<1>3. CASE Take(w)
  <2>1. PICK u \in todo[w] : /\ kind[w] = "single" => u \notin View(w)
                             /\ hand' = [hand EXCEPT ![w] = u]
    BY <1>3 DEF Take
  <2>2. pc[w] = "loop" /\ kind[w] \in {"single", "direct", "batch", "quick"} /\ UNCHANGED known
    BY <1>3 DEF Take, Kinds
  <2>3. u \notin known[w]
    BY <2>1, <2>2 DEF Bar
  <2> QED
    BY <2>1, <2>2, <2>3
<1>4. CASE TakeFromPool(w)
  BY <1>4 DEF TakeFromPool, Bar
<1>5. CASE End(w)
  BY <1>5 DEF End
<1>6. CASE Pass(w)
  BY <1>6 DEF Pass
<1>7. CASE Joined(w) \/ NotJoined(w) \/ AlreadyIn(w) \/ Refused(w)
  BY <1>7, <1>b, <1>c DEF Joined, NotJoined, AlreadyIn, Refused
<1>8. CASE Failed(w)
  BY <1>8, <1>b, <1>c DEF Failed
<1> QED
  BY <1>1, <1>2, <1>3, <1>4, <1>5, <1>6, <1>7, <1>8 DEF Begin, Continue

-----------------------------------------------------------------------------
(* The line before the throttle, and the permits.                           *)

InLine(w) == pc[w] \in {"throttle", "spaced"}

\* One more at the end.
LEMMA Appended ==
  ASSUME line \in Seq(Worker), Once, NEW w \in Worker, ~ Contains(line, w),
         line' = Append(line, w)
  PROVE  /\ Once'
         /\ \A x \in Worker : Contains(line', x) <=> (Contains(line, x) \/ x = w)
         /\ \A x \in Worker : Contains(line, x) => Head(line') = Head(line)
<1>1. /\ Len(line) \in Nat /\ Len(line') = Len(line) + 1 /\ line'[Len(line) + 1] = w
      /\ \A i \in 1 .. Len(line) : line'[i] = line[i]
  OBVIOUS
<1>2. \A i \in 1 .. Len(line) : line[i] # w
  BY DEF Contains
<1>3. Once'
  <2> SUFFICES ASSUME NEW i \in 1 .. Len(line'), NEW j \in 1 .. Len(line'), line'[i] = line'[j]
               PROVE  i = j
    BY DEF Once
  <2>1. i \in 1 .. Len(line) \/ i = Len(line) + 1
    BY <1>1
  <2>2. j \in 1 .. Len(line) \/ j = Len(line) + 1
    BY <1>1
  <2> QED
    BY <1>1, <1>2, <2>1, <2>2 DEF Once
<1>4. \A x \in Worker : Contains(line', x) <=> (Contains(line, x) \/ x = w)
  <2> SUFFICES ASSUME NEW x \in Worker PROVE Contains(line', x) <=> (Contains(line, x) \/ x = w)
    OBVIOUS
  <2>1. \A i \in 1 .. Len(line') : i \in 1 .. Len(line) \/ i = Len(line) + 1
    BY <1>1
  <2>2. Len(line) + 1 \in 1 .. Len(line') /\ \A i \in 1 .. Len(line) : i \in 1 .. Len(line')
    BY <1>1
  <2> QED
    BY <1>1, <2>1, <2>2 DEF Contains
<1>5. ASSUME NEW x \in Worker, Contains(line, x) PROVE Head(line') = Head(line)
  <2>1. Len(line) > 0
    BY <1>1, <1>5 DEF Contains
  <2> QED
    BY <1>1, <2>1
<1> QED
  BY <1>3, <1>4, <1>5

\* The first one leaves.
LEMMA Shortened ==
  ASSUME line \in Seq(Worker), Once, line # <<>>, line' = Tail(line)
  PROVE  /\ Once'
         /\ \A x \in Worker : Contains(line', x) <=> (Contains(line, x) /\ x # Head(line))
<1>1. /\ Len(line) \in Nat \ {0} /\ Len(line') = Len(line) - 1 /\ Head(line) = line[1]
      /\ \A i \in 1 .. Len(line') : line'[i] = line[i + 1]
  BY HeadTailProperties, EmptySeq
<1>2. \A i \in 1 .. Len(line') : i + 1 \in 1 .. Len(line) /\ i + 1 # 1
  BY <1>1
<1>3. \A i \in 1 .. Len(line) : i = 1 \/ (i - 1 \in 1 .. Len(line') /\ (i - 1) + 1 = i)
  BY <1>1
<1>4. 1 \in 1 .. Len(line)
  BY <1>1
<1>5. Once'
  <2> SUFFICES ASSUME NEW i \in 1 .. Len(line'), NEW j \in 1 .. Len(line'), line'[i] = line'[j]
               PROVE  i = j
    BY DEF Once
  <2>1. i + 1 = j + 1
    BY <1>1, <1>2 DEF Once
  <2> QED
    BY <2>1
<1>6. ASSUME NEW x \in Worker PROVE Contains(line', x) <=> (Contains(line, x) /\ x # Head(line))
  <2>1. ASSUME Contains(line', x) PROVE Contains(line, x) /\ x # Head(line)
    <3>1. PICK i \in 1 .. Len(line') : line'[i] = x
      BY <2>1 DEF Contains
    <3>2. line[i + 1] = x /\ i + 1 \in 1 .. Len(line) /\ i + 1 # 1
      BY <1>1, <1>2, <3>1
    <3> QED
      BY <1>1, <1>4, <3>2 DEF Contains, Once
  <2>2. ASSUME Contains(line, x), x # Head(line) PROVE Contains(line', x)
    <3>1. PICK i \in 1 .. Len(line) : line[i] = x
      BY <2>2 DEF Contains
    <3>2. i - 1 \in 1 .. Len(line') /\ (i - 1) + 1 = i
      BY <1>1, <1>3, <2>2, <3>1
    <3>3. line'[i - 1] = x
      BY <1>1, <3>1, <3>2
    <3> QED
      BY <3>2, <3>3 DEF Contains
  <2> QED
    BY <2>1, <2>2
<1> QED
  BY <1>5, <1>6

\* The line holds those who wait for the throttle, the first of them may pass.
LineKept ==
  /\ Once
  /\ \A w \in Worker : InLine(w) <=> Contains(line, w)
  /\ \A w \in Worker : pc[w] = "spaced" => Head(line) = w

\* Nobody enters or leaves it.
LEMMA LineSame ==
  ASSUME LineKept, UNCHANGED line,
         \A w \in Worker : (InLine(w)' <=> InLine(w)) /\ (pc'[w] = "spaced" => pc[w] = "spaced")
  PROVE  LineKept'
BY DEF LineKept, Once

LEMMA LineLonger ==
  ASSUME TypeOK, LineKept, NEW w \in Worker, ~ InLine(w), line' = Append(line, w),
         pc' = [pc EXCEPT ![w] = "throttle"]
  PROVE  LineKept'
<1>1. /\ Once'
      /\ \A x \in Worker : Contains(line', x) <=> (Contains(line, x) \/ x = w)
      /\ \A x \in Worker : Contains(line, x) => Head(line') = Head(line)
  BY Appended DEF LineKept, TypeOK
<1>2. pc'[w] = "throttle" /\ \A x \in Worker \ {w} : pc'[x] = pc[x]
  BY DEF TypeOK
<1> QED
  BY <1>1, <1>2 DEF LineKept, InLine

LEMMA LineShorter ==
  ASSUME TypeOK, LineKept, NEW w \in Worker, pc[w] = "spaced", line' = Tail(line),
         \A x \in Worker \ {w} : pc'[x] = pc[x], ~ InLine(w)'
  PROVE  LineKept'
<1>1. Contains(line, w) /\ Head(line) = w
  BY DEF LineKept, InLine
<1>2. line # <<>>
  BY <1>1 DEF Contains
<1>3. Once' /\ \A x \in Worker : Contains(line', x) <=> (Contains(line, x) /\ x # w)
  BY <1>1, <1>2, Shortened DEF LineKept, TypeOK
<1>4. \A x \in Worker : pc'[x] # "spaced"
  BY <1>1 DEF LineKept, InLine
<1> QED
  BY <1>3, <1>4 DEF LineKept, InLine

LEMMA LineStep ==
  ASSUME TypeOK, LineKept, NEW w \in Worker, Position(w), Begin(w) \/ Continue(w)
  PROVE  LineKept'
<1>a. LoopsOK /\ \A x \in Worker \ {w} : pc'[x] = pc[x]
  BY TypeParts, Workers DEF Alone
<1>b. ASSUME UNCHANGED line, InLine(w)' <=> InLine(w), pc'[w] = "spaced" => pc[w] = "spaced"
      PROVE  LineKept'
  BY <1>a, <1>b, LineSame DEF InLine
<1> USE <1>a DEF LoopsOK, InLine, throttle, Shared, Goto, Drop, Hold, Return
<1>1. CASE StartSingle(w) \/ StartDirect(w) \/ StartQuick(w) \/ StartFilter(w)
  BY <1>1, <1>b DEF StartSingle, StartDirect, StartQuick, StartFilter, Start
<1>2. CASE Scan(w) \/ Scanned(w) \/ SkipBlocked(w) \/ Unresolved(w)
  BY <1>2, <1>b DEF Scan, Scanned, SkipBlocked, Unresolved
<1>3. CASE Take(w)
  <2>1. CASE kind[w] = "single"
    BY <1>3, <2>1, LineLonger DEF Take
  <2>2. CASE kind[w] # "single"
    BY <1>3, <1>b, <2>2 DEF Take
  <2> QED
    BY <2>1, <2>2
<1>4. CASE TakeFromPool(w) \/ Acquire(w) \/ End(w) \/ Accepted(w)
  BY <1>4, <1>b DEF TakeFromPool, Acquire, End, Accepted
<1>5. CASE Grant(w)
  <2>1. UNCHANGED line /\ pc[w] = "throttle" /\ Head(line) = w /\ pc'[w] = "spaced"
    BY <1>5 DEF Grant
  <2> QED
    BY <2>1 DEF LineKept, Once
<1>6. CASE Pass(w)
  <2>1. pc[w] = "spaced" /\ line' = Tail(line) /\ pc'[w] \in {"done", "loop", "invite"}
    BY <1>6 DEF Pass
  <2> QED
    BY <2>1, LineShorter
<1>7. CASE NotJoined(w)
  <2>1. CASE kind[w] = "single"
    BY <1>7, <2>1, LineLonger DEF NotJoined, Position
  <2>2. CASE kind[w] # "single"
    BY <1>7, <1>b, <2>2 DEF NotJoined
  <2> QED
    BY <2>1, <2>2
<1>8. CASE Joined(w) \/ AlreadyIn(w) \/ Refused(w) \/ Failed(w)
  BY <1>8, <1>b DEF Joined, AlreadyIn, Refused, Failed
<1>9. CASE FilterChunk(w) \/ FilterError(w)
  BY <1>9, <1>b DEF FilterChunk, FilterError
<1> QED
  BY <1>1, <1>2, <1>3, <1>4, <1>5, <1>6, <1>7, <1>8, <1>9 DEF Begin, Continue

LEMMA LineElsewhere ==
  ASSUME TypeOK, LineKept, Elsewhere
  PROVE  LineKept'
<1>1. ASSUME NEW W \in SUBSET Worker, StartBatch(W) \/ StartPool(W) PROVE LineKept'
  <2>1. UNCHANGED line
    BY <1>1 DEF StartBatch, StartPool, throttle
  <2>2. \A x \in Worker : pc'[x] = pc[x] \/ (pc[x] = "idle" /\ pc'[x] \in {"loop", "done"})
    BY <1>1 DEF StartBatch, StartPool, TypeOK
  <2> QED
    BY <2>1, <2>2, LineSame DEF InLine
<1>2. CASE OfferBatch \/ Tick \/ Expire \/ GroupLeave \/ LookUp \/ RequestStop \/ UNCHANGED vars
  <2>1. UNCHANGED <<line, pc>>
    BY <1>2 DEF OfferBatch, Tick, Expire, GroupLeave, LookUp, RequestStop, vars, work, throttle, Shared
  <2> QED
    BY <2>1, LineSame DEF InLine
<1> QED
  BY <1>1, <1>2 DEF Elsewhere

\* The permits are with the workers of the pool that await an answer.
PermitsKept == permits = {w \in Worker : kind[w] = "pool" /\ pc[w] = "invite"}

AwaitsAnswer(w) == kind[w] = "pool" /\ pc[w] = "invite"

LEMMA PermitsSame ==
  ASSUME PermitsKept, UNCHANGED permits, \A w \in Worker : AwaitsAnswer(w)' <=> AwaitsAnswer(w)
  PROVE  PermitsKept'
BY DEF PermitsKept, AwaitsAnswer

LEMMA PermitsStep ==
  ASSUME TypeOK, PermitsKept, NEW w \in Worker, Position(w), Begin(w) \/ Continue(w)
  PROVE  PermitsKept'
<1>a. LoopsOK /\ \A x \in Worker \ {w} : pc'[x] = pc[x] /\ kind'[x] = kind[x]
  BY TypeParts, Workers DEF Alone
<1>b. ASSUME UNCHANGED permits, AwaitsAnswer(w)' <=> AwaitsAnswer(w) PROVE PermitsKept'
  BY <1>a, <1>b, PermitsSame DEF AwaitsAnswer
<1>c. ASSUME Released(w), pc'[w] # "invite" PROVE PermitsKept'
  BY <1>a, <1>c DEF PermitsKept, Released
<1> USE <1>a DEF LoopsOK, AwaitsAnswer, pool, Shared, Goto, Drop, Hold, Return
<1>1. CASE StartSingle(w) \/ StartDirect(w) \/ StartQuick(w) \/ StartFilter(w)
  BY <1>1, <1>b DEF StartSingle, StartDirect, StartQuick, StartFilter, Start
<1>2. CASE Scan(w) \/ Scanned(w) \/ SkipBlocked(w) \/ Unresolved(w)
  BY <1>2, <1>b DEF Scan, Scanned, SkipBlocked, Unresolved
<1>3. CASE Take(w) \/ TakeFromPool(w) \/ End(w) \/ Grant(w)
  BY <1>3, <1>b DEF Take, TakeFromPool, End, Grant
<1>4. CASE Acquire(w)
  BY <1>4 DEF Acquire, PermitsKept, Position
<1>5. CASE Pass(w)
  BY <1>5, <1>b DEF Pass, Position
<1>6. CASE Accepted(w) \/ NotJoined(w)
  <2>1. pc[w] = "confirm" \/ kind[w] # "pool"
    BY <1>6 DEF Accepted, NotJoined, Loop, PoolLoop
  <2> QED
    BY <1>6, <1>b, <2>1 DEF Accepted, NotJoined, Position
<1>7. CASE Joined(w) \/ AlreadyIn(w) \/ Refused(w) \/ Failed(w)
  BY <1>7, <1>c DEF Joined, AlreadyIn, Refused, Failed
<1>8. CASE FilterChunk(w) \/ FilterError(w)
  BY <1>8, <1>b DEF FilterChunk, FilterError
<1> QED
  BY <1>1, <1>2, <1>3, <1>4, <1>5, <1>6, <1>7, <1>8 DEF Begin, Continue

LEMMA PermitsElsewhere ==
  ASSUME TypeOK, PermitsKept, Elsewhere
  PROVE  PermitsKept'
<1>1. ASSUME NEW W \in SUBSET Worker, StartBatch(W) \/ StartPool(W) PROVE PermitsKept'
  <2>1. UNCHANGED permits
    BY <1>1 DEF StartBatch, StartPool, pool
  <2>2. \A x \in Worker : \/ pc'[x] = pc[x] /\ kind'[x] = kind[x]
                          \/ pc[x] = "idle" /\ pc'[x] \in {"loop", "done"}
    BY <1>1 DEF StartBatch, StartPool, TypeOK
  <2> QED
    BY <2>1, <2>2, PermitsSame DEF AwaitsAnswer
<1>2. CASE OfferBatch \/ Tick \/ Expire \/ GroupLeave \/ LookUp \/ RequestStop \/ UNCHANGED vars
  <2>1. UNCHANGED <<permits, pc, kind>>
    BY <1>2 DEF OfferBatch, Tick, Expire, GroupLeave, LookUp, RequestStop, vars, work, pool, Shared
  <2> QED
    BY <2>1, PermitsSame DEF AwaitsAnswer
<1> QED
  BY <1>1, <1>2 DEF Elsewhere

LEMMA Lines == Once /\ NobodyForgotten <=> LineKept /\ PermitsKept
BY DEF NobodyForgotten, LineKept, InLine, PermitsKept

-----------------------------------------------------------------------------
(* The holder of the throttle.                                              *)

LEMMA PacedSame ==
  ASSUME Paced, UNCHANGED <<since, need>>, \A w \in Worker : pc'[w] = "spaced" => pc[w] = "spaced"
  PROVE  Paced'
BY DEF Paced

LEMMA PacedStep ==
  ASSUME TypeOK, LineKept, Paced, NEW w \in Worker, Position(w), Begin(w) \/ Continue(w)
  PROVE  Paced'
<1>a. LoopsOK /\ \A x \in Worker \ {w} : pc'[x] = pc[x]
  BY TypeParts, Workers DEF Alone
<1>b. ASSUME UNCHANGED <<since, need>>, pc'[w] = "spaced" => pc[w] = "spaced"
      PROVE  Paced'
  BY <1>a, <1>b, PacedSame
<1>c. since \in 0 .. Interval /\ need \in 0 .. Interval /\ Interval \in Nat
  BY Given DEF TypeOK
<1> USE <1>a DEF LoopsOK, throttle, Shared, Goto, Drop, Hold, Return
<1>1. CASE StartSingle(w) \/ StartDirect(w) \/ StartQuick(w) \/ StartFilter(w)
  BY <1>1, <1>b DEF StartSingle, StartDirect, StartQuick, StartFilter, Start
<1>2. CASE Scan(w) \/ Scanned(w) \/ SkipBlocked(w) \/ Unresolved(w)
  BY <1>2, <1>b DEF Scan, Scanned, SkipBlocked, Unresolved
<1>3. CASE Take(w) \/ NotJoined(w)
  BY <1>3, <1>b DEF Take, NotJoined
<1>4. CASE TakeFromPool(w) \/ Acquire(w) \/ End(w) \/ Accepted(w)
  BY <1>4, <1>b DEF TakeFromPool, Acquire, End, Accepted
<1>5. CASE Grant(w)
  <2>1. since' = since /\ need' = Interval - since
    BY <1>5 DEF Grant
  <2>2. need' + since' = Interval
    BY <1>c, <2>1
  <2> QED
    BY <2>2 DEF Paced
<1>6. CASE Pass(w)
  <2>1. pc[w] = "spaced" /\ pc'[w] # "spaced"
    BY <1>6 DEF Pass
  <2>2. \A x \in Worker : pc'[x] # "spaced"
    BY <2>1 DEF LineKept
  <2> QED
    BY <2>2 DEF Paced
<1>7. CASE Joined(w) \/ AlreadyIn(w) \/ Refused(w) \/ Failed(w)
  BY <1>7, <1>b DEF Joined, AlreadyIn, Refused, Failed
<1>8. CASE FilterChunk(w) \/ FilterError(w)
  BY <1>8, <1>b DEF FilterChunk, FilterError
<1> QED
  BY <1>1, <1>2, <1>3, <1>4, <1>5, <1>6, <1>7, <1>8 DEF Begin, Continue

LEMMA PacedElsewhere ==
  ASSUME TypeOK, Paced, Elsewhere
  PROVE  Paced'
<1>1. ASSUME NEW W \in SUBSET Worker, StartBatch(W) \/ StartPool(W) PROVE Paced'
  <2>1. UNCHANGED <<since, need>>
    BY <1>1 DEF StartBatch, StartPool, throttle
  <2>2. \A x \in Worker : pc'[x] = pc[x] \/ pc'[x] \in {"loop", "done"}
    BY <1>1 DEF StartBatch, StartPool, TypeOK
  <2> QED
    BY <2>1, <2>2, PacedSame
<1>2. CASE Tick
  <2>1. /\ since \in 0 .. Interval /\ need \in 0 .. Interval /\ Interval \in Nat
        /\ since < Interval /\ since' = since + 1 /\ need' = IF need > 0 THEN need - 1 ELSE 0
    BY <1>2, Given DEF Tick, TypeOK
  <2>2. need + since = Interval => need' + since' = Interval
    BY <2>1
  <2> QED
    BY <1>2, <2>2 DEF Tick, work, Paced
<1>3. CASE OfferBatch \/ Expire \/ GroupLeave \/ LookUp \/ RequestStop \/ UNCHANGED vars
  <2>1. UNCHANGED <<since, need, pc>>
    BY <1>3 DEF OfferBatch, Expire, GroupLeave, LookUp, RequestStop, vars, work, throttle
  <2> QED
    BY <2>1, PacedSame
<1> QED
  BY <1>1, <1>2, <1>3 DEF Elsewhere

-----------------------------------------------------------------------------
(* The theorems.                                                            *)

LEMMA InitMInv == Init => MInv
<1> SUFFICES ASSUME Init PROVE MInv
  OBVIOUS
<1> USE Given DEF Init
<1>1. TypeOK
  <2>1. None \in Ids
    BY DEF None, Ids
  <2>2. since \in 0 .. Interval /\ need \in 0 .. Interval /\ faults \in 0 .. MaxFaults
        /\ 0 \in 0 .. MaxRoom + MaxErrors
    OBVIOUS
  <2>3. TablesOK
    BY <2>1, <2>2 DEF TablesOK
  <2>4. LoopsOK
    BY <2>2 DEF LoopsOK, Kinds, Places
  <2>5. RestOK
    <3>1. line = <<>> /\ stop = FALSE
      OBVIOUS
    <3>2. menu \subseteq User /\ permits \subseteq Worker /\ queue \subseteq User
      OBVIOUS
    <3> HIDE DEF Init
    <3> QED
      BY <2>2, <3>1, <3>2, EmptySeq DEF RestOK
  <2> QED
    BY <2>3, <2>4, <2>5, TypeParts
<1>2. Positions
  BY DEF Positions, Position
<1>3. CacheComplete
  BY DEF CacheComplete, None
<1>4. Barred /\ NoOldVerdict
  BY DEF Barred, Bar, NoOldVerdict
<1>5. Once /\ NobodyForgotten
  BY DEF Once, NobodyForgotten, Contains
<1>6. Paced
  BY DEF Paced
<1> QED
  BY <1>1, <1>2, <1>3, <1>4, <1>5, <1>6 DEF MInv

LEMMA WorkerStep ==
  ASSUME MInv, NEW w \in Worker, Begin(w) \/ Continue(w)
  PROVE  MInv'
<1>a. /\ TypeOK /\ Positions /\ CacheComplete /\ Barred /\ NoOldVerdict
      /\ LineKept /\ PermitsKept /\ NobodyForgotten /\ Paced
  BY Lines DEF MInv
<1>b. \A x \in Worker : Position(x) /\ Bar(x) /\ hand[x] \notin known[x]
  BY <1>a DEF Positions, Barred, NoOldVerdict
<1>1. TablesOK' /\ CacheComplete' /\ \A x \in Worker \ {w} : View(x) \subseteq View(x)'
  BY <1>a, TablesStep DEF TablesMove
<1>2. LoopsOK' /\ RestOK'
  BY <1>a, TypeStep
<1>3. TypeOK'
  BY <1>1, <1>2 DEF TypeOK, TablesOK, Ids, LoopsOK, RestOK
<1>4. \A x \in Worker : Position(x)' /\ Bar(x)' /\ hand'[x] \notin known'[x]
  <2>1. Position(w)' /\ Bar(w)' /\ hand'[w] \notin known'[w]
    BY <1>a, <1>b, PositionStep, BarStep, VerdictStep
  <2>2. Alone(w)
    BY <1>a, Workers
  <2>3. ASSUME NEW x \in Worker \ {w} PROVE Position(x)' /\ Bar(x)' /\ hand'[x] \notin known'[x]
    BY <1>b, <1>1, <2>2, Bystander DEF Alone
  <2> QED
    BY <2>1, <2>3
<1>5. LineKept' /\ PermitsKept' /\ Paced'
  BY <1>a, <1>b, LineStep, PermitsStep, PacedStep
<1>6. Once' /\ NobodyForgotten'
  BY <1>5 DEF NobodyForgotten, LineKept, InLine, PermitsKept
<1> QED
  BY <1>1, <1>3, <1>4, <1>5, <1>6 DEF MInv, Positions, Barred, NoOldVerdict

LEMMA OtherStep ==
  ASSUME MInv, Elsewhere
  PROVE  MInv'
<1>a. /\ TypeOK /\ Positions /\ CacheComplete /\ Barred /\ NoOldVerdict
      /\ LineKept /\ PermitsKept /\ NobodyForgotten /\ Paced
  BY Lines DEF MInv
<1>1. TablesOK' /\ CacheComplete'
  BY <1>a, TablesElsewhere DEF TablesMove
<1>2. LoopsOK' /\ RestOK'
  BY <1>a, TypeElsewhere
<1>3. TypeOK'
  BY <1>1, <1>2 DEF TypeOK, TablesOK, Ids, LoopsOK, RestOK
<1>4. Positions' /\ Barred' /\ NoOldVerdict'
  BY <1>a, PositionElsewhere, BarElsewhere
<1>5. LineKept' /\ PermitsKept' /\ Paced'
  BY <1>a, LineElsewhere, PermitsElsewhere, PacedElsewhere
<1>6. Once' /\ NobodyForgotten'
  BY <1>5 DEF NobodyForgotten, LineKept, InLine, PermitsKept
<1> QED
  BY <1>1, <1>3, <1>4, <1>5, <1>6 DEF MInv

LEMMA StepMInv == MInv /\ [Next]_vars => MInv'
BY WorkerStep, OtherStep DEF Next, Elsewhere

LEMMA AlwaysMInv == Spec => []MInv
BY InitMInv, StepMInv, PTL DEF Spec

\* Every variable keeps its type; for the workers that means that no account is
\* given more room than it had, and for the throttle that no sleep is longer
\* than Interval.
THEOREM TypeCorrect == Spec => []TypeOK
BY AlwaysMInv, PTL DEF MInv

\* The set in memory never lacks anybody who is in one of the two tables, unless
\* a query failed when it was loaded: every write to a table tells the set or
\* drops it (mark_user_as_added, never_add_again, get_blocked_ids_cached).
THEOREM CacheIsComplete == Spec => []CacheComplete
BY AlwaysMInv, PTL DEF MInv

\* Whoever was recorded when a loop read who is blocked is not invited by it,
\* although some keep the set and others the list they made with it.
THEOREM OldVerdictsHold == Spec => []NoOldVerdict
BY AlwaysMInv, PTL DEF MInv

\* However the answers come, the lock of the throttle and the permits of the pool
\* are held by coroutines that are about to give them back.
THEOREM WaitersAreServed == Spec => []NobodyForgotten
BY AlwaysMInv, PTL DEF MInv

\* Two throttled invitations are Interval apart whatever the number of accounts
\* that wait (global_throttle).
THEOREM InvitationsAreSpaced == Spec => Spaced
<1> DEFINE Late == \A w \in Worker : pc[w] = "spaced" /\ pc'[w] # "spaced" => since = Interval
<1>1. MInv /\ [Next]_vars => [Late]_vars
  <2> SUFFICES ASSUME MInv, Next, NEW x \in Worker, pc[x] = "spaced", pc'[x] # "spaced"
               PROVE  since = Interval
    OBVIOUS
  <2>a. TypeOK /\ Paced /\ LoopsOK
    BY TypeParts DEF MInv
  <2>1. ASSUME NEW w \in Worker, Begin(w) \/ Continue(w) PROVE since = Interval
    <3>1. w = x
      BY <2>a, <2>1, Workers DEF Alone
    <3>2. Pass(w)
      BY <2>1, <3>1, <2>a
         DEF Begin, StartSingle, StartDirect, StartQuick, StartFilter, Start, Continue, Scan, Scanned,
             SkipBlocked, Take, Unresolved, TakeFromPool, Acquire, End, Grant, Accepted, Joined,
             NotJoined, AlreadyIn, Refused, Failed, FilterChunk, FilterError
    <3>3. need = 0 /\ need + since = Interval /\ since \in 0 .. Interval
      BY <2>a, <3>1, <3>2 DEF Pass, Paced, TypeOK
    <3> QED
      BY <3>3, Given
  <2>2. ASSUME NEW W \in SUBSET Worker, StartBatch(W) \/ StartPool(W) PROVE FALSE
    BY <2>2, <2>a DEF StartBatch, StartPool, LoopsOK
  <2>3. ASSUME OfferBatch \/ Tick \/ Expire \/ GroupLeave \/ LookUp \/ RequestStop PROVE FALSE
    BY <2>3 DEF OfferBatch, Tick, Expire, GroupLeave, LookUp, RequestStop, work
  <2> QED
    BY <2>1, <2>2, <2>3 DEF Next
<1> QED
  BY <1>1, AlwaysMInv, PTL DEF Spec, Spaced
=============================================================================
