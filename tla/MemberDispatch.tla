---------------------------- MODULE MemberDispatch ----------------------------
(***************************************************************************)
(* What a parallel add promises, without queue, flags, delays or limits:   *)
(* a member is in the hands of at most one account, is invited only by the *)
(* account that holds it, receives at most one verdict, and no invitation  *)
(* starts once the run is halted.                                          *)
(***************************************************************************)
CONSTANTS Accounts, Members, NoMember

VARIABLES
  hand,      \* the member each account holds
  verdict,   \* what became of each member
  inviting,  \* the accounts whose invitation has not been answered
  halted     \* a stop was requested, or the run gave up

dispatchVars == <<hand, verdict, inviting, halted>>

DispatchInit ==
  /\ hand = [a \in Accounts |-> NoMember]
  /\ verdict \in [Members -> {"pending", "dropped"}]
  /\ inviting = {}
  /\ halted = FALSE

Free(u) == \A a \in Accounts : hand[a] # u

Take(a, u) ==
  /\ hand[a] = NoMember
  /\ verdict[u] = "pending"
  /\ Free(u)
  /\ hand' = [hand EXCEPT ![a] = u]
  /\ UNCHANGED <<verdict, inviting, halted>>

\* A member nobody holds is passed over.
PassOver(u) ==
  /\ verdict[u] = "pending"
  /\ Free(u)
  /\ verdict' = [verdict EXCEPT ![u] = "skipped"]
  /\ UNCHANGED <<hand, inviting, halted>>

GiveUp(a) ==
  /\ hand[a] # NoMember
  /\ a \notin inviting
  /\ verdict' = [verdict EXCEPT ![hand[a]] = "skipped"]
  /\ hand' = [hand EXCEPT ![a] = NoMember]
  /\ UNCHANGED <<inviting, halted>>

Return(a) ==
  /\ hand[a] # NoMember
  /\ hand' = [hand EXCEPT ![a] = NoMember]
  /\ inviting' = inviting \ {a}
  /\ UNCHANGED <<verdict, halted>>

Invite(a) ==
  /\ hand[a] # NoMember
  /\ ~halted
  /\ inviting' = inviting \cup {a}
  /\ UNCHANGED <<hand, verdict, halted>>

\* The verdict that makes a run hopeless also halts it.
Answered(a) ==
  /\ a \in inviting
  /\ hand[a] # NoMember
  /\ verdict[hand[a]] = "pending"
  /\ \E v \in {"added", "refused", "failed"} :
       verdict' = [verdict EXCEPT ![hand[a]] = v]
  /\ hand' = [hand EXCEPT ![a] = NoMember]
  /\ inviting' = inviting \ {a}
  /\ halted' \in {halted, TRUE}

Halt ==
  /\ halted' = TRUE
  /\ UNCHANGED <<hand, verdict, inviting>>

DispatchNext ==
  \/ \E a \in Accounts : GiveUp(a) \/ Return(a) \/ Invite(a) \/ Answered(a)
  \/ \E a \in Accounts, u \in Members : Take(a, u)
  \/ \E u \in Members : PassOver(u)
  \/ Halt

DispatchSpec == DispatchInit /\ [][DispatchNext]_dispatchVars
=============================================================================
