----------------------------- MODULE AccountLock -----------------------------
(***************************************************************************)
(* account_state.py, the table that says which account is in use and by     *)
(* what, together with the operations that take and give back its entries:  *)
(*                                                                         *)
(*   Scanners   the automatic scan and the mini-app's scrape: they choose   *)
(*              a free account, claim it, use it, release it                *)
(*   Probes     the live test of an account somebody names                  *)
(*   Manuals    the accounts the admin opens in the bot's chat; what the     *)
(*              chat releases is the phone in atk_state, the last one named  *)
(*   Adders     _execute_simple_add: it claims nothing and releases          *)
(*   Deleters   delete_account_fully: it looks, deletes and releases         *)
(*                                                                         *)
(* Releasing takes away whatever entry there is, and an entry older than TTL *)
(* counts for nothing.  The table has a mutex, so each of its functions is   *)
(* one step.                                                                *)
(***************************************************************************)
EXTENDS Naturals, FiniteSets

CONSTANTS
  Phones,
  Scanners, Probes, Manuals, Adders, Deleters,
  TTL,      \* _DEFAULT_TTL, 45 minutes in the code
  Nobody,   \* the owner of an account that has no entry
  NoPhone   \* atk_state has no "phone"

Lockers == Scanners \cup Probes
Careful == Lockers \cup Manuals
Clients == Careful \cup Adders \cup Deleters

ASSUME AccountLockAssumption ==
  /\ IsFiniteSet(Phones)
  /\ Scanners \cap Probes = {} /\ Lockers \cap Manuals = {}
  /\ Careful \cap Adders = {}
  /\ (Careful \cup Adders) \cap Deleters = {}
  /\ TTL \in Nat
  /\ Nobody \notin Clients
  /\ NoPhone \notin Phones

VARIABLES
  busy,       \* _busy: for each phone the owner of its entry and its age
  at,         \* what each client is doing
  on,         \* the phone it is doing it with
  statePhone, \* atk_state["phone"]
  overstayed, \* clients whose entry has expired while they were at work
  robbed,     \* clients at work whose entry another client has taken away
  robbers     \* clients that did so though they still had their own entry, or none

vars == <<busy, at, on, statePhone, overstayed, robbed, robbers>>

Places == {"idle", "aiming", "connecting", "using"}
Entry  == [owner : Clients \cup {Nobody}, age : 0 .. TTL + 1]
Free   == [owner |-> Nobody, age |-> 0]

Expired(p) == busy[p].age > TTL
Locked(p)  == busy[p].owner # Nobody /\ ~ Expired(p)
Using(c)   == at[c] = "using"

TypeOK ==
  /\ busy \in [Phones -> Entry]
  /\ at \in [Clients -> Places]
  /\ on \in [Clients -> Phones \cup {NoPhone}]
  /\ statePhone \in Phones \cup {NoPhone}
  /\ overstayed \subseteq Clients
  /\ robbed \subseteq Clients
  /\ robbers \subseteq Clients

Init ==
  /\ busy = [p \in Phones |-> Free]
  /\ at = [c \in Clients |-> "idle"]
  /\ on = [c \in Clients |-> NoPhone]
  /\ statePhone = NoPhone
  /\ overstayed = {} /\ robbed = {} /\ robbers = {}

Go(c, place, p) ==
  /\ at' = [at EXCEPT ![c] = place]
  /\ on' = [on EXCEPT ![c] = p]

Rest(c) == Go(c, "idle", NoPhone)

\* Whose work the entry of phone p protects, other than c's.
Victims(c, p) ==
  {d \in Clients \ {c} : busy[p].owner = d /\ Locked(p) /\ Using(d) /\ on[d] = p}

\* account_state.release by client c, which goes on to the given place.
Rob(c, p) ==
  /\ robbed' = (robbed \ {c}) \cup Victims(c, p)
  /\ robbers' = IF Victims(c, p) # {} /\ c \notin overstayed \cup robbed
                  THEN robbers \cup {c} ELSE robbers
  /\ overstayed' = overstayed \ {c}

-----------------------------------------------------------------------------
\* pick_scrape_account: a phone that busy_label calls free; expired entries are
\* dropped on the way.
Pick(c) ==
  /\ c \in Scanners
  /\ at[c] = "idle"
  /\ \E p \in Phones : ~ Locked(p) /\ Go(c, "aiming", p)
  /\ busy' = [p \in Phones |-> IF Expired(p) THEN Free ELSE busy[p]]
  /\ UNCHANGED <<statePhone, overstayed, robbed, robbers>>

\* probe_account is told which phone to test.
Aim(c) ==
  /\ c \in Probes
  /\ at[c] = "idle"
  /\ \E p \in Phones : Go(c, "aiming", p)
  /\ UNCHANGED <<busy, statePhone, overstayed, robbed, robbers>>

\* Mutant of Claim: the answer of pick_scrape_account is trusted.
Claim_Unchecked(c) ==
  /\ c \in Lockers
  /\ at[c] = "aiming"
  /\ busy' = [busy EXCEPT ![on[c]] = [owner |-> c, age |-> 0]]
  /\ Go(c, "using", on[c])
  /\ UNCHANGED <<statePhone, overstayed, robbed, robbers>>

\* mark_busy: some time has passed since the phone was chosen.
Claim(c) ==
  /\ c \in Lockers
  /\ at[c] = "aiming"
  /\ \/ /\ Locked(on[c])
        /\ Rest(c)
        /\ UNCHANGED busy
     \/ /\ ~ Locked(on[c])
        /\ busy' = [busy EXCEPT ![on[c]] = [owner |-> c, age |-> 0]]
        /\ Go(c, "using", on[c])
  /\ UNCHANGED <<statePhone, overstayed, robbed, robbers>>

\* Mutants of Done: a path without the release; the release of another phone.
Done_Leaks(c) ==
  /\ c \in Lockers
  /\ Using(c)
  /\ Rest(c)
  /\ overstayed' = overstayed \ {c} /\ robbed' = robbed \ {c}
  /\ UNCHANGED <<busy, statePhone, robbers>>

Done_Wrong(c) ==
  /\ c \in Lockers
  /\ Using(c)
  /\ \E p \in Phones : /\ Rob(c, p)
                       /\ busy' = [busy EXCEPT ![p] = Free]
  /\ Rest(c)
  /\ UNCHANGED statePhone

\* The finally of a scan, a scrape or a probe.
Done(c) ==
  /\ c \in Lockers
  /\ Using(c)
  /\ Rob(c, on[c])
  /\ busy' = [busy EXCEPT ![on[c]] = Free]
  /\ Rest(c)
  /\ UNCHANGED statePhone

-----------------------------------------------------------------------------
\* The admin chooses a saved account: the client is connected first.
ManualConnect(m) ==
  /\ m \in Manuals
  /\ at[m] = "idle"
  /\ \E p \in Phones : Go(m, "connecting", p)
  /\ UNCHANGED <<busy, statePhone, overstayed, robbed, robbers>>

ManualFail(m) ==
  /\ m \in Manuals
  /\ at[m] = "connecting"
  /\ Rest(m)
  /\ UNCHANGED <<busy, statePhone, overstayed, robbed, robbers>>

\* What the table is once the chat has released the phone it knows.
Released == IF statePhone = NoPhone THEN busy
                                    ELSE [busy EXCEPT ![statePhone] = Free]

RobState(m) ==
  IF statePhone = NoPhone
    THEN /\ overstayed' = overstayed \ {m} /\ robbed' = robbed \ {m}
         /\ UNCHANGED robbers
    ELSE Rob(m, statePhone)

\* Then the phone known so far is released, the new one is written into
\* atk_state, and only then claimed; it stays there if the claim is refused.
\* An account that has reached its limit of additions is claimed and not used.
ManualClaim(m) ==
  /\ m \in Manuals
  /\ at[m] = "connecting"
  /\ RobState(m)
  /\ statePhone' = on[m]
  /\ IF Locked(on[m]) /\ statePhone # on[m]
       THEN /\ busy' = Released
            /\ Rest(m)
       ELSE /\ busy' = [Released EXCEPT ![on[m]] = [owner |-> m, age |-> 0]]
            /\ Go(m, "using", on[m]) \/ Rest(m)

\* The operation is over: _release_busy_account and atk_state.clear().
ManualDone(m) ==
  /\ m \in Manuals
  /\ Using(m)
  /\ RobState(m)
  /\ busy' = Released
  /\ statePhone' = NoPhone
  /\ Rest(m)

\* The same two calls at the start of another menu entry, whatever still runs.
\* The one who robs is the chat, for whom every Manual stands.
MenuClear ==
  /\ statePhone # NoPhone
  /\ busy' = Released
  /\ statePhone' = NoPhone
  /\ LET v == {c \in Clients : /\ busy[statePhone].owner = c
                              /\ Locked(statePhone)
                              /\ Using(c) /\ on[c] = statePhone}
     IN  /\ robbed' = robbed \cup v
         /\ robbers' = IF v # {} THEN robbers \cup Manuals ELSE robbers
  /\ UNCHANGED <<at, on, overstayed>>

-----------------------------------------------------------------------------
\* _execute_simple_add.
AddStart(c) ==
  /\ c \in Adders
  /\ at[c] = "idle"
  /\ \E p \in Phones : Go(c, "using", p)
  /\ UNCHANGED <<busy, statePhone, overstayed, robbed, robbers>>

AddDone(c) ==
  /\ c \in Adders
  /\ Using(c)
  /\ Rob(c, on[c])
  /\ busy' = [busy EXCEPT ![on[c]] = Free]
  /\ Rest(c)
  /\ UNCHANGED statePhone

\* delete_account_fully, in the HTTP thread: busy_label, and some time later the
\* removal of the files and the row, and the release.
DeleteCheck(c) ==
  /\ c \in Deleters
  /\ at[c] = "idle"
  /\ \E p \in Phones :
       /\ ~ Locked(p)
       /\ Go(c, "aiming", p)
       /\ busy' = [busy EXCEPT ![p] = Free]
  /\ UNCHANGED <<statePhone, overstayed, robbed, robbers>>

Delete(c) ==
  /\ c \in Deleters
  /\ at[c] = "aiming"
  /\ Rob(c, on[c])
  /\ busy' = [busy EXCEPT ![on[c]] = Free]
  /\ Rest(c)
  /\ UNCHANGED statePhone

\* Mutant of Tick: no entry ages.
Tick_Never ==
  /\ \E p \in Phones : Locked(p)
  /\ UNCHANGED vars

\* Time passes; ages stop at the first one that counts as expired.
Tick ==
  /\ \E p \in Phones : Locked(p)
  /\ busy' = [p \in Phones |->
                IF Locked(p) THEN [busy[p] EXCEPT !.age = @ + 1] ELSE busy[p]]
  /\ overstayed' = overstayed \cup
       {c \in Clients : \E p \in Phones : /\ busy[p].owner = c
                                          /\ busy[p].age = TTL /\ Using(c)}
  /\ UNCHANGED <<at, on, statePhone, robbed, robbers>>

-----------------------------------------------------------------------------
Client(c) ==
  \/ Pick(c) \/ Aim(c) \/ Claim(c) \/ Done(c)
  \/ ManualConnect(c) \/ ManualFail(c) \/ ManualClaim(c) \/ ManualDone(c)
  \/ AddStart(c) \/ AddDone(c) \/ DeleteCheck(c) \/ Delete(c)

Next == (\E c \in Clients : Client(c)) \/ MenuClear \/ Tick

Spec == Init /\ [][Next]_vars

\* Only time is sure to pass: an operation may hang for ever.
FairSpec == Spec /\ WF_vars(Tick)

-----------------------------------------------------------------------------
\* A client at work owns a live entry of its phone, unless it has held it for
\* longer than TTL or somebody has released it.
UsersHoldTheLock ==
  \A c \in Careful :
    Using(c) /\ c \notin overstayed \cup robbed
      => busy[on[c]].owner = c /\ ~ Expired(on[c])

\* account_state.py:5: no two operations use one session at a time; this much of
\* it the table guarantees.
ExclusiveUse ==
  \A c, d \in Careful :
    Using(c) /\ Using(d) /\ on[c] = on[d] /\ c # d
      => c \in overstayed \cup robbed \/ d \in overstayed \cup robbed

\* A scan, a scrape or a probe takes away somebody else's entry only after it
\* has overstayed or been robbed: the finally releases what mark_busy gave.
LockersDoNotRob == robbers \cap Lockers = {}

\* No entry of a scan, a scrape or a probe outlives the work it was made for,
\* whatever path that ended on.
EntryInUse(p) == Using(busy[p].owner) /\ on[busy[p].owner] = p

NoOrphan == \A p \in Phones : busy[p].owner \in Lockers => EntryInUse(p)

\* account_state.py:10: an account is not locked for ever, even if the operation
\* that took it never ends.  (The admin can renew a claim without end.)
LocksExpire ==
  \A p \in Phones, c \in Lockers :
    Locked(p) /\ busy[p].owner = c ~> ~ (Locked(p) /\ busy[p].owner = c)

-----------------------------------------------------------------------------
\* What the module says of itself, and its users do not keep.

\* account_state.py:9: this module prevents simultaneous use.
NoSharedUse ==
  \A c, d \in Careful : Using(c) /\ Using(d) /\ on[c] = on[d] => c = d
=============================================================================
