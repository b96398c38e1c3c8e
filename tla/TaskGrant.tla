------------------------------ MODULE TaskGrant ------------------------------
(***************************************************************************)
(* What a task grant promises its user, whatever the storage, the runtime  *)
(* and the network do: every request is counted before it leaves and the   *)
(* count never passes the limit, requests are counted only while the       *)
(* grant is given, and one operation of the user gives it at most once.    *)
(* AdaptiveTask is shown to implement this module.                         *)
(***************************************************************************)
EXTENDS Naturals

CONSTANTS
    Operations,     \* the user's operations, each with an identifier of its own
    Limit           \* the requests the user allowed the task

VARIABLES
    counted,        \* requests the task has been charged for
    sent,           \* requests that have left
    granted,        \* whether the grant is in force
    spent           \* the operations that have given the grant

vars == <<counted, sent, granted, spent>>

Init ==
    /\ counted = 0
    /\ sent = 0
    /\ granted = FALSE
    /\ spent = {}

\* The user's operation puts the grant in force. It can do that once.
Give(op) ==
    /\ ~granted
    /\ op \notin spent
    /\ granted' = TRUE
    /\ spent' = spent \union {op}
    /\ UNCHANGED <<counted, sent>>

\* Anything may end it: the user, a restart, the limit.
Withdraw ==
    /\ granted
    /\ granted' = FALSE
    /\ UNCHANGED <<counted, sent, spent>>

\* A request is charged.
Count ==
    /\ granted
    /\ counted < Limit
    /\ counted' = counted + 1
    /\ UNCHANGED <<sent, granted, spent>>

\* A request that was charged leaves. A charge may stay without a request.
Send ==
    /\ sent < counted
    /\ sent' = sent + 1
    /\ UNCHANGED <<counted, granted, spent>>

Next == (\E op \in Operations : Give(op)) \/ Withdraw \/ Count \/ Send

Spec == Init /\ [][Next]_vars
=============================================================================
