----------------------------- MODULE ParallelAdd -----------------------------
(***************************************************************************)
(* One run of _execute_parallel_add (bot.py): the workers, one per Telegram *)
(* account, that share one asyncio queue of members and invite them to the *)
(* target group.                                                           *)
(*                                                                         *)
(* The workers are coroutines of one event loop, so a step is the code      *)
(* between two awaits.  The value of pc[a] names the await at which the     *)
(* worker of account a is suspended:                                       *)
(*                                                                         *)
(*   starting    client.start() and the resolution of the target           *)
(*   ready       the top of the while loop (no await: see NextMember)      *)
(*   resolving   client.resolve_peer(member)                               *)
(*   throttling  global_throttle(add_mode)                                 *)
(*   inviting    client.invoke(InviteToChannel)                            *)
(*   pausing     the human delay after an invitation                       *)
(*   cooling     the cooldown after PEER_FLOOD                             *)
(*                                                                         *)
(* and, for a worker that has returned, why it returned:                   *)
(*                                                                         *)
(*   drained     it found the queue empty                                  *)
(*   halted      it saw a stop                                             *)
(*   resting     FloodWait, or PEER_FLOOD too many times in a row          *)
(*   barred      the account may not add members to the target             *)
(*   dead        no session, no connection, or an unknown target           *)
(***************************************************************************)
EXTENDS Integers, Sequences, FiniteSets, Functions

CONSTANTS
  Accounts,        \* the accounts (phones) the run was given
  Members,         \* the members the run was given, one record per user id
  IdOnly,          \* those with neither username nor phone
  Malformed,       \* those whose id is outside the range the worker accepts
  BlockedAtStart,  \* get_blocked_ids_cached() when the run starts
  StrikesAtStart,  \* the flood strikes an account can bring from earlier runs
  AbortAfterFails, \* _ABORT_AFTER_FAILS, 25 in the code
  MaxStrikes,      \* 6 in the code
  DbMayFail,       \* whether there are runs in which database calls can fail
  NoMember         \* the empty hand

ASSUME ParallelAddAssumption ==
  /\ IsFiniteSet(Accounts)
  /\ IsFiniteSet(Members)
  /\ IdOnly \subseteq Members
  /\ Malformed \subseteq Members
  /\ BlockedAtStart \subseteq Members
  /\ StrikesAtStart \subseteq Nat
  /\ AbortAfterFails \in Nat \ {0}
  /\ MaxStrikes \in Nat \ {0}
  /\ DbMayFail \in BOOLEAN
  /\ NoMember \notin Members

VARIABLES
  pc,            \* where each worker is
  queue,         \* member_queue
  hand,          \* the member each worker has taken and not yet dealt with
  verdict,       \* what became of each member (history, for the properties)
  added,         \* total_added
  failed,        \* total_failed
  skipped,       \* total_skipped
  accAdded,      \* acc_added of each worker
  fruitless,     \* _global_consecutive_fails
  strikes,       \* _peer_flood_strikes
  blocked,       \* blocked_ids, the set in memory all workers share
  dbBlocked,     \* added_history_tbl and do_not_add_tbl
  dbFails,       \* calls of this run to the database can fail
  limit,         \* adder_limits_tbl, "added" relative to the start of the run
  stopEvent,     \* stop_event.is_set()
  stopRequested, \* _stop_requested and stop_parallel_add, set together
  inProgress,    \* add_in_progress
  remaining,     \* live_remaining
  finished       \* the run has returned

tallies  == <<added, failed, skipped, accAdded>>
lists    == <<blocked, dbBlocked, dbFails>>
control  == <<stopEvent, stopRequested, inProgress, remaining, finished>>
vars     == <<pc, queue, hand, verdict, tallies, fruitless, strikes, lists,
              limit, control>>

Returned == {"drained", "halted", "resting", "barred", "dead"}
Holding  == {"resolving", "throttling", "inviting"}
Waiting  == {"pausing", "cooling"}
PC       == {"starting", "ready"} \cup Holding \cup Waiting \cup Returned
Verdicts == {"pending", "dropped", "skipped", "added", "refused", "failed"}
Limits   == [added : Nat, kind : {"none", "PeerFlood", "FloodWait"}]

\* prefer_addable_members drops the members with an id only.
Queueable == Members \ IdOnly

TypeOK ==
  /\ pc \in [Accounts -> PC]
  /\ queue \in Seq(Members)
  /\ hand \in [Accounts -> Members \cup {NoMember}]
  /\ verdict \in [Members -> Verdicts]
  /\ added \in Nat /\ failed \in Nat /\ skipped \in Nat
  /\ accAdded \in [Accounts -> Nat]
  /\ fruitless \in Nat
  /\ strikes \in [Accounts -> Nat]
  /\ blocked \subseteq Members
  /\ dbBlocked \subseteq Members
  /\ dbFails \in BOOLEAN
  /\ limit \in [Accounts -> Limits]
  /\ stopEvent \in BOOLEAN /\ stopRequested \in BOOLEAN
  /\ inProgress \in BOOLEAN /\ finished \in BOOLEAN
  /\ remaining \in Nat

-----------------------------------------------------------------------------
\* The run up to the creation of the worker tasks: the flags are reset, the
\* blocked ids are read (get_blocked_user_ids returns what it has read when one
\* of its two queries fails), and the queue is filled in some order (username
\* first, or shuffled).
Init ==
  /\ pc = [a \in Accounts |-> "starting"]
  /\ queue \in Bijection(1 .. Cardinality(Queueable), Queueable)
  /\ hand = [a \in Accounts |-> NoMember]
  /\ verdict = [u \in Members |-> IF u \in IdOnly THEN "dropped" ELSE "pending"]
  /\ added = 0 /\ failed = 0 /\ skipped = 0
  /\ accAdded = [a \in Accounts |-> 0]
  /\ fruitless = 0
  /\ strikes \in [Accounts -> StrikesAtStart]
  /\ dbFails \in {FALSE, DbMayFail}
  /\ blocked \in {BlockedAtStart} \cup IF dbFails THEN SUBSET BlockedAtStart ELSE {}
  /\ dbBlocked = BlockedAtStart
  /\ limit = [a \in Accounts |-> [added |-> 0, kind |-> "none"]]
  /\ stopEvent = FALSE /\ stopRequested = FALSE
  /\ inProgress = TRUE
  /\ remaining = Cardinality(Members)
  /\ finished = FALSE

Stopping == stopEvent \/ stopRequested

GoTo(a, place) == pc' = [pc EXCEPT ![a] = place]

\* The member in hand is dealt with for good ...
Settle(a, v) ==
  /\ verdict' = [verdict EXCEPT ![hand[a]] = v]
  /\ hand' = [hand EXCEPT ![a] = NoMember]

\* Mutant of PutBack: the member is forgotten.
PutBack_Lost(a) ==
  /\ hand' = [hand EXCEPT ![a] = NoMember]
  /\ UNCHANGED <<queue, verdict>>

\* ... or goes back to the tail of the queue.
PutBack(a) ==
  /\ queue' = Append(queue, hand[a])
  /\ hand' = [hand EXCEPT ![a] = NoMember]
  /\ UNCHANGED verdict

\* Mutant of Remember: the verdict is kept in memory only.
Remember_InMemory(a) ==
  /\ blocked' = blocked \cup {hand[a]}
  /\ UNCHANGED <<dbBlocked, dbFails>>

\* A row of added_history_tbl or do_not_add_tbl; db.py logs a failed write and
\* goes on.
Record(a) ==
  /\ \/ dbBlocked' = dbBlocked \cup {hand[a]}
     \/ dbFails /\ UNCHANGED dbBlocked
  /\ UNCHANGED dbFails

\* mark_user_as_added or never_add_again, with blocked_ids.add.
Remember(a) ==
  /\ blocked' = blocked \cup {hand[a]}
  /\ Record(a)

\* db.set_adder_limit(phone, already_added + acc_added, kind): the count is
\* overwritten, a missing kind keeps the stored one (COALESCE), and a failed
\* write is logged.
WriteLimit(a, n, kind) ==
  \/ limit' = [limit EXCEPT ![a] =
                 [added |-> n, kind |-> IF kind = "none" THEN @.kind ELSE kind]]
  \/ dbFails /\ UNCHANGED limit

-----------------------------------------------------------------------------
\* The session is restored, copied and connected, and the target resolved.
Connect(a) ==
  /\ pc[a] = "starting"
  /\ \/ GoTo(a, "ready")
     \/ GoTo(a, "dead")
  /\ UNCHANGED <<queue, hand, verdict, tallies, fruitless, strikes, lists,
                 limit, control>>

\* One iteration of the loop up to its first await.  The empty queue is
\* looked at before the stop flags.
LeaveDrained(a) ==
  /\ pc[a] = "ready"
  /\ queue = <<>>
  /\ GoTo(a, "drained")
  /\ UNCHANGED <<queue, hand, verdict, tallies, fruitless, strikes, lists,
                 limit, control>>

LeaveHalted(a) ==
  /\ pc[a] = "ready"
  /\ queue # <<>>
  /\ Stopping
  /\ GoTo(a, "halted")
  /\ UNCHANGED <<queue, hand, verdict, tallies, fruitless, strikes, lists,
                 limit, control>>

SkipMember(a) ==
  /\ pc[a] = "ready"
  /\ queue # <<>>
  /\ ~Stopping
  /\ Head(queue) \in Malformed \cup blocked
  /\ queue' = Tail(queue)
  /\ verdict' = [verdict EXCEPT ![Head(queue)] = "skipped"]
  /\ skipped' = skipped + 1
  /\ UNCHANGED <<pc, hand, added, failed, accAdded, fruitless, strikes, lists,
                 limit, control>>

\* Mutants of TakeMember: the blocked ids are not looked at; the member is read
\* without being removed.
TakeMember_Unfiltered(a) ==
  /\ pc[a] = "ready"
  /\ queue # <<>>
  /\ ~Stopping
  /\ queue' = Tail(queue)
  /\ hand' = [hand EXCEPT ![a] = Head(queue)]
  /\ GoTo(a, "resolving")
  /\ UNCHANGED <<verdict, tallies, fruitless, strikes, lists, limit, control>>

TakeMember_Peek(a) ==
  /\ pc[a] = "ready"
  /\ queue # <<>>
  /\ ~Stopping
  /\ Head(queue) \notin Malformed \cup blocked
  /\ hand' = [hand EXCEPT ![a] = Head(queue)]
  /\ GoTo(a, "resolving")
  /\ UNCHANGED <<queue, verdict, tallies, fruitless, strikes, lists, limit,
                 control>>

TakeMember(a) ==
  /\ pc[a] = "ready"
  /\ queue # <<>>
  /\ ~Stopping
  /\ Head(queue) \notin Malformed \cup blocked
  /\ queue' = Tail(queue)
  /\ hand' = [hand EXCEPT ![a] = Head(queue)]
  /\ GoTo(a, "resolving")
  /\ UNCHANGED <<verdict, tallies, fruitless, strikes, lists, limit, control>>

-----------------------------------------------------------------------------
\* resolve_peer answers: the peer, nothing, or a flood error.
Resolved(a) ==
  /\ pc[a] = "resolving"
  /\ GoTo(a, "throttling")
  /\ UNCHANGED <<queue, hand, verdict, tallies, fruitless, strikes, lists,
                 limit, control>>

Unresolved(a) ==
  /\ pc[a] = "resolving"
  /\ Settle(a, "skipped")
  /\ skipped' = skipped + 1
  /\ GoTo(a, "ready")
  /\ UNCHANGED <<queue, added, failed, accAdded, fruitless, strikes, lists,
                 limit, control>>

\* Mutant of PeerFlood: the strike is not counted.
PeerFlood_Uncounted(a) ==
  /\ pc[a] \in {"resolving", "inviting"}
  /\ PutBack(a)
  /\ WriteLimit(a, accAdded[a], "PeerFlood")
  /\ GoTo(a, "cooling")
  /\ UNCHANGED <<tallies, fruitless, strikes, lists, control>>

\* PEER_FLOOD, on the resolution or on the invitation: the member goes back,
\* the strike is counted and the account cools down.
PeerFlood(a) ==
  /\ pc[a] \in {"resolving", "inviting"}
  /\ PutBack(a)
  /\ strikes' = [strikes EXCEPT ![a] = @ + 1]
  /\ WriteLimit(a, accAdded[a], "PeerFlood")
  /\ GoTo(a, "cooling")
  /\ UNCHANGED <<tallies, fruitless, lists, control>>

\* The cooldown ran out: try again, unless this was one strike too many.
CooledDown(a) ==
  /\ pc[a] = "cooling"
  /\ ~stopEvent
  /\ GoTo(a, IF strikes[a] >= MaxStrikes THEN "resting" ELSE "ready")
  /\ UNCHANGED <<queue, hand, verdict, tallies, fruitless, strikes, lists,
                 limit, control>>

\* Mutants of Throttled: the flags are not read again; the member is not put
\* back when the worker stops here.
Throttled_Blind(a) ==
  /\ pc[a] = "throttling"
  /\ GoTo(a, "inviting")
  /\ UNCHANGED <<queue, hand, verdict, tallies, fruitless, strikes, lists,
                 limit, control>>

\* The throttle is over; the stop flags are looked at once more before the
\* invitation is sent.
Throttled(a) ==
  /\ pc[a] = "throttling"
  /\ \/ /\ Stopping
        /\ PutBack(a)
        /\ GoTo(a, "halted")
     \/ /\ ~Stopping
        /\ GoTo(a, "inviting")
        /\ UNCHANGED <<queue, hand, verdict>>
  /\ UNCHANGED <<tallies, fruitless, strikes, lists, limit, control>>

-----------------------------------------------------------------------------
\* The answers to an invitation.
Joined(a) ==
  /\ pc[a] = "inviting"
  /\ Settle(a, "added")
  /\ added' = added + 1
  /\ accAdded' = [accAdded EXCEPT ![a] = @ + 1]
  /\ strikes' = [strikes EXCEPT ![a] = 0]
  /\ fruitless' = 0
  /\ Remember(a)
  /\ WriteLimit(a, accAdded[a] + 1, "none")
  /\ GoTo(a, "pausing")
  /\ UNCHANGED <<queue, failed, skipped, control>>

\* The user is in missing_invitees: Telegram accepted the request and did not
\* add the user.  This is the only answer that can end a hopeless run.
NotJoined(a) ==
  /\ pc[a] = "inviting"
  /\ Settle(a, "refused")
  /\ skipped' = skipped + 1
  /\ Remember(a)
  /\ fruitless' = fruitless + 1
  /\ \/ /\ fruitless + 1 >= AbortAfterFails
        /\ added = 0
        /\ stopEvent' = TRUE
        /\ GoTo(a, "halted")
     \/ /\ fruitless + 1 < AbortAfterFails \/ added # 0
        /\ GoTo(a, "pausing")
        /\ UNCHANGED stopEvent
  /\ UNCHANGED <<queue, added, failed, accAdded, strikes, limit,
                 stopRequested, inProgress, remaining, finished>>

\* UserPrivacyRestricted or UserNotMutualContact.
PrivacyRefused(a) ==
  /\ pc[a] = "inviting"
  /\ Settle(a, "refused")
  /\ skipped' = skipped + 1
  /\ Remember(a)
  /\ fruitless' = fruitless + 1
  /\ GoTo(a, "pausing")
  /\ UNCHANGED <<queue, added, failed, accAdded, strikes, limit, control>>

\* UserAlreadyParticipant or PeerIdInvalid.
AlreadyOrInvalid(a) ==
  /\ pc[a] = "inviting"
  /\ Settle(a, "refused")
  /\ skipped' = skipped + 1
  /\ Remember(a)
  /\ GoTo(a, "pausing")
  /\ UNCHANGED <<queue, added, failed, accAdded, fruitless, strikes, limit,
                 control>>

\* USER_CHANNELS_TOO_MUCH: recorded in the database only, and no delay.
TooManyChannels(a) ==
  /\ pc[a] = "inviting"
  /\ Settle(a, "refused")
  /\ skipped' = skipped + 1
  /\ Record(a)
  /\ GoTo(a, "ready")
  /\ UNCHANGED <<queue, added, failed, accAdded, fruitless, strikes, blocked,
                 limit, control>>

\* FloodWait: the worker returns and the member counts as failed.
FloodWait(a) ==
  /\ pc[a] = "inviting"
  /\ Settle(a, "failed")
  /\ failed' = failed + 1
  /\ WriteLimit(a, accAdded[a], "FloodWait")
  /\ GoTo(a, "resting")
  /\ UNCHANGED <<queue, added, skipped, accAdded, fruitless, strikes, lists,
                 control>>

\* Mutant of Forbidden: falls through to the counter of the other errors.
Forbidden_Counted(a) ==
  /\ pc[a] = "inviting"
  /\ PutBack(a)
  /\ failed' = failed + 1
  /\ WriteLimit(a, accAdded[a], "none")
  /\ GoTo(a, "barred")
  /\ UNCHANGED <<added, skipped, accAdded, fruitless, strikes, lists, control>>

\* CHAT_WRITE_FORBIDDEN or CHAT_ADMIN_REQUIRED: the member goes back and the
\* worker returns.
Forbidden(a) ==
  /\ pc[a] = "inviting"
  /\ PutBack(a)
  /\ WriteLimit(a, accAdded[a], "none")
  /\ GoTo(a, "barred")
  /\ UNCHANGED <<tallies, fruitless, strikes, lists, control>>

OtherError(a) ==
  /\ pc[a] = "inviting"
  /\ Settle(a, "failed")
  /\ failed' = failed + 1
  /\ GoTo(a, "pausing")
  /\ UNCHANGED <<queue, added, skipped, accAdded, fruitless, strikes, lists,
                 limit, control>>

-----------------------------------------------------------------------------
\* The human delay ran out.
PauseOver(a) ==
  /\ pc[a] = "pausing"
  /\ ~stopEvent
  /\ GoTo(a, "ready")
  /\ UNCHANGED <<queue, hand, verdict, tallies, fruitless, strikes, lists,
                 limit, control>>

\* wait_for(stop_event.wait()) returned: the event was set during the wait.
Woken(a) ==
  /\ pc[a] \in Waiting
  /\ stopEvent
  /\ GoTo(a, "halted")
  /\ UNCHANGED <<queue, hand, verdict, tallies, fruitless, strikes, lists,
                 limit, control>>

\* request_stop_all, from the mini-app's stop button.
RequestStop ==
  /\ ~finished
  /\ stopEvent' = TRUE
  /\ stopRequested' = TRUE
  /\ inProgress' = FALSE
  /\ UNCHANGED <<pc, queue, hand, verdict, tallies, fruitless, strikes, lists,
                 limit, remaining, finished>>

\* asyncio.gather returned.  total_members still counts the id-only members
\* that never entered the queue.
Finish ==
  /\ ~finished
  /\ \A a \in Accounts : pc[a] \in Returned
  /\ finished' = TRUE
  /\ inProgress' = FALSE
  /\ remaining' = LET left == Cardinality(Members) - added - failed - skipped
                  IN  IF left > 0 THEN left ELSE 0
  /\ UNCHANGED <<pc, queue, hand, verdict, tallies, fruitless, strikes, lists,
                 limit, stopEvent, stopRequested>>

-----------------------------------------------------------------------------
Answer(a) ==
  \/ Joined(a) \/ NotJoined(a) \/ PrivacyRefused(a) \/ AlreadyOrInvalid(a)
  \/ TooManyChannels(a) \/ FloodWait(a) \/ Forbidden(a) \/ OtherError(a)

Worker(a) ==
  \/ Connect(a) \/ LeaveDrained(a) \/ LeaveHalted(a) \/ SkipMember(a)
  \/ TakeMember(a) \/ Resolved(a) \/ Unresolved(a) \/ PeerFlood(a)
  \/ CooledDown(a) \/ Throttled(a) \/ Answer(a) \/ PauseOver(a) \/ Woken(a)

Next ==
  \/ \E a \in Accounts : Worker(a)
  \/ RequestStop
  \/ Finish

Spec == Init /\ [][Next]_vars

\* Every await returns: connection and target resolution are under wait_for,
\* delays and cooldowns are timers, and the client answers or raises.  Nobody
\* has to press stop.
FairSpec ==
  /\ Spec
  /\ \A a \in Accounts : WF_vars(Worker(a))
  /\ WF_vars(Finish)

-----------------------------------------------------------------------------
\* Properties.

Queued(u)  == \E i \in 1 .. Len(queue) : queue[i] = u
Held(u)    == \E a \in Accounts : hand[a] = u
Holders    == {a \in Accounts : hand[a] # NoMember}
With(v)    == {u \in Members : verdict[u] = v}

\* No member is lost and none is handed out twice, whatever the order in which
\* workers take members, put them back after a flood or a stop, and return: an
\* undecided member is in the queue exactly once or in exactly one hand, and a
\* decided one is in neither (put_nowait, task_done and total_* in
\* _worker_account_inner).
EveryMemberOnce ==
  /\ \A u \in Members : verdict[u] = "pending" <=> Queued(u) \/ Held(u)
  /\ \A u \in Members : ~ (Queued(u) /\ Held(u))
  /\ \A i, j \in 1 .. Len(queue) : queue[i] = queue[j] => i = j
  /\ \A a, b \in Accounts : hand[a] = hand[b] /\ hand[a] # NoMember => a = b

\* A worker holds a member exactly while it is suspended on that member's
\* behalf; in particular a worker that returned kept none (each break in the
\* loop either counted its member or put it back).  The proofs rest on it.
HandMatchesPlace ==
  \A a \in Accounts : hand[a] # NoMember <=> pc[a] \in Holding

\* The counters shared by the workers add up: every member that entered the
\* queue is counted once, is still queued or is in a hand.
Conservation ==
  added + failed + skipped + Len(queue) + Cardinality(Holders)
    = Cardinality(Queueable)

\* No invitation is sent for a member that was already added or banned when
\* the run started, nor for one this run has had an answer about; the former
\* if the blocked ids could be read.
NoBlockedInvite ==
  \A a \in Accounts :
    pc[a] = "inviting" => /\ hand[a] \notin Malformed
                          /\ hand[a] \in BlockedAtStart => dbFails
                          /\ verdict[hand[a]] = "pending"

\* Whatever Telegram answered for good is in the database before anything else
\* happens, so that a later run does not invite the member again (the comment
\* at bot.py:8656 tells of the runs that did); and the set in memory never
\* knows more than the database.  This takes a database that does not fail:
\* nothing retries a verdict that was not written.
RecordedVerdicts ==
  ~ dbFails => /\ With("added") \cup With("refused") \subseteq dbBlocked
               /\ blocked \subseteq dbBlocked

\* Once a stop was requested, or the run gave up, no further invitation is
\* sent: the flags are read again after the throttle.
NoInviteAfterStop ==
  [][Stopping => \A a \in Accounts : pc[a] # "inviting" => pc'[a] # "inviting"]_vars

\* The run ends: floods cannot keep a worker going forever.
Terminates == <>finished

\* The run implements the promise of MemberDispatch.
Dispatch ==
  INSTANCE MemberDispatch
    WITH inviting <- {a \in Accounts : pc[a] = "inviting"},
         halted   <- Stopping

ImplementsDispatch == Dispatch!DispatchSpec

-----------------------------------------------------------------------------
\* What comments in the code say of a run, which it does not do.

\* bot.py:8853 and bot.py:8883: a member put back by an account that floods or
\* is barred is not wasted, the other accounts go on.  Yet a run in which
\* nobody asked for a stop can end with members in the queue although some
\* account was able to go on until it saw the queue empty.
NoStrandedMember ==
  finished /\ ~Stopping /\ (\E a \in Accounts : pc[a] = "drained")
    => queue = <<>>
=============================================================================
