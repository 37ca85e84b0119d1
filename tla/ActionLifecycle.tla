--------------------------- MODULE ActionLifecycle ---------------------------
(***************************************************************************)
(* What the pending-action slot of QConnect promises to a caller of        *)
(* QconnectApp::send_queue_command, without saying how: one action at a    *)
(* time owns the slot, the slot never passes from one action directly to   *)
(* another, and an action is given at most one verdict, at the moment it   *)
(* leaves the slot.                                                        *)
(***************************************************************************)
CONSTANTS Uuids,    \* action uuids
          NoOwner   \* the slot is free

VARIABLES owner,    \* the action that holds the slot, or NoOwner
          verdict   \* what the application was told about each action

lifecycleVars == <<owner, verdict>>

Verdicts == {"none", "completed", "canceled", "timedOut"}

LifecycleInit ==
    /\ owner = NoOwner
    /\ verdict = [u \in Uuids |-> "none"]

\* A fresh action takes the free slot.
Reserve(u) ==
    /\ owner = NoOwner
    /\ owner' = u
    /\ verdict' = [verdict EXCEPT ![u] = "none"]

\* A fresh action goes out beside the slot.
GoAround(u) ==
    /\ owner # u
    /\ verdict' = [verdict EXCEPT ![u] = "none"]
    /\ UNCHANGED owner

\* The owner leaves the slot and is told why.
Settle(u, v) ==
    /\ owner = u
    /\ verdict[u] = "none"
    /\ owner' = NoOwner
    /\ verdict' = [verdict EXCEPT ![u] = v]

\* The owner leaves the slot untold: its send failed, its sender gave the slot
\* back, or the connection is gone.
Withdraw ==
    /\ owner # NoOwner
    /\ owner' = NoOwner
    /\ UNCHANGED verdict

LifecycleNext ==
    \/ \E u \in Uuids : Reserve(u) \/ GoAround(u)
    \/ \E u \in Uuids, v \in Verdicts \ {"none"} : Settle(u, v)
    \/ Withdraw

LifecycleSpec == LifecycleInit /\ [][LifecycleNext]_lifecycleVars
=============================================================================
