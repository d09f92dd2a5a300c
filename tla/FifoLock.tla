------------------------------ MODULE FifoLock ------------------------------
(***************************************************************************)
(* What AccountSyncCoordinator.run promises its callers: one first-come-   *)
(* first-served lock per account.  A call remembers the calls that were    *)
(* before it; it is let in when all of them have left.                     *)
(***************************************************************************)
CONSTANTS Ops, Accounts, AccountOf

VARIABLES
    phase,    \* outside, queued, inside or left
    ahead     \* the calls each call still has to wait for

vars == <<phase, ahead>>

Present(a) == {o \in Ops : AccountOf[o] = a /\ phase[o] \in {"queued", "inside"}}

Init ==
    /\ phase = [o \in Ops |-> "outside"]
    /\ ahead = [o \in Ops |-> {}]

\* A call arrives; the lock of its account may be free.
Arrive(o) ==
    /\ phase[o] = "outside"
    /\ ahead' = [ahead EXCEPT ![o] = Present(AccountOf[o])]
    /\ phase' = [phase EXCEPT ![o] = IF Present(AccountOf[o]) = {} THEN "inside" ELSE "queued"]

\* A call whose predecessors have all left is let in.
Admit(o) ==
    /\ phase[o] = "queued"
    /\ ahead[o] = {}
    /\ phase' = [phase EXCEPT ![o] = "inside"]
    /\ UNCHANGED ahead

\* A call leaves and stops holding up the others.
Leave(o) ==
    /\ phase[o] = "inside"
    /\ phase' = [phase EXCEPT ![o] = "left"]
    /\ ahead' = [p \in Ops |-> ahead[p] \ {o}]

Next == \E o \in Ops : Arrive(o) \/ Admit(o) \/ Leave(o)

Spec == Init /\ [][Next]_vars
==============================================================================
