----------------------------- MODULE AccountStore -----------------------------
(***************************************************************************)
(* The account state a browser page shares between its views               *)
(* (client/account-store.ts): one status poll at a time, one mutation at a *)
(* time, a timer, and the window a sign-in opens.  Both kinds of requests  *)
(* may fail, time out, or be carried out by the server after the page has  *)
(* given up on them; other browsers change the server's state meanwhile.   *)
(***************************************************************************)
EXTENDS Naturals, FiniteSets

CONSTANTS
    Accounts,       \* accounts the server may have active
    None,           \* no account is stored
    MaxListeners,   \* bound: views that subscribe
    MaxOps,         \* bound: mutations the user begins
    MaxChanges,     \* bound: changes made by others to the server's state
    MaxFaults       \* bound: requests that fail or time out

ASSUME StoreAssumption ==
    /\ None \notin Accounts
    /\ MaxListeners \in Nat /\ MaxOps \in Nat /\ MaxChanges \in Nat /\ MaxFaults \in Nat

VARIABLES
    server,         \* the server's state, numbered by its changes
    faults,         \* requests that have failed
    view,           \* snapshot
    listeners,      \* how many views are subscribed
    timer,          \* the poll timer is set
    poll,           \* controller: the poll under way
    tails,          \* the mutations that wait for a poll that was aborted
    mut,            \* the mutation under way
    ops,            \* mutations begun; the last one's number
    popup,          \* the mutation whose window the store holds, or 0
    blank,          \* the mutations whose window is open and still blank
    disposed

serverVars == <<server, faults>>
windowVars == <<popup, blank>>
pollVars == <<listeners, timer, poll, tails>>
vars == <<server, faults, view, listeners, timer, poll, tails,
          mut, ops, popup, blank, disposed>>

-----------------------------------------------------------------------------
(* The server: what a status read returns.                                 *)

Kept == {"signed-in", "reauth-required"}

\* The accounts come with the status in one answer; without an account there is
\* nothing to be signed in with.
ServerStates ==
    {s \in [status : {"signed-out", "signing-in", "error"} \union Kept,
            active : Accounts \union {None}, seq : 0 .. MaxChanges + MaxOps] :
        /\ s.status \in Kept => s.active # None
        /\ s.status = "signed-out" => s.active = None}

Later == {s \in ServerStates : s.seq = server.seq + 1}

\* What carrying out a mutation may leave behind.
Outcomes(kind) ==
    CASE kind = "signIn" -> {s \in Later : s.status = "signing-in" /\ s.active = server.active}
      [] kind = "signOut" -> {s \in Later : s.status = "signed-out"}
      [] kind = "cancel" -> {s \in Later : s.status # "signing-in" /\ s.active = server.active}
      [] OTHER -> Later

-----------------------------------------------------------------------------
Kinds == {"signIn", "callback", "cancel", "signOut", "account"}

NoPoll == [pc |-> "none", got |-> None, tail |-> 0]
NoMut == [pc |-> "none", kind |-> "none", got |-> None]

\* owner is the account that status was read for.
Loading == [status |-> "loading", active |-> None, owner |-> None, busy |-> FALSE,
            op |-> "idle", error |-> FALSE, seq |-> 0]

Init ==
    /\ server \in {s \in ServerStates : s.seq = 0}
    /\ faults = 0
    /\ view = Loading
    /\ listeners = 0
    /\ timer = FALSE
    /\ poll = NoPoll
    /\ tails = {}
    /\ mut = NoMut
    /\ ops = 0
    /\ popup = 0
    /\ blank = {}
    /\ disposed = FALSE

-----------------------------------------------------------------------------
(* schedule, stopPolling, publish, refresh: what the operations share.     *)

\* The states that may change while the page is only looking on.
Polled(v) == v.op = "waiting" \/ v.status \in {"signing-in", "signed-in", "error"} \/ v.error

\* schedule: the timer is cleared, and set again where it is wanted.
Scheduled(v) == ~disposed /\ listeners > 0 /\ Polled(v)

\* Mutant: the poll under way is not aborted.
StopTimer ==
    /\ timer' = FALSE
    /\ UNCHANGED <<poll, tails>>

\* stopPolling.  Nothing is shown of an aborted poll, and only a mutation that
\* waits for it goes on when it settles.
StopPolling ==
    /\ timer' = FALSE
    /\ poll' = NoPoll
    /\ tails' = IF poll.tail = 0 THEN tails ELSE tails \union {poll.tail}

Publish(v) == view' = IF disposed THEN view ELSE v

\* refresh, its early return.
Refreshable(v, heard) == ~disposed /\ ~v.busy /\ poll = NoPoll /\ heard > 0

\* refresh begins; tail is the mutation that waits for it.
Begin(tail) == poll' = [pc |-> "sent", got |-> None, tail |-> tail] /\ tails' = tails

\* Mutant: the status of another account is kept.
StableAnyAccount(s) ==
    IF s.status = "signing-in" /\ s.active # None /\ view.status \in Kept
    THEN [status |-> view.status, owner |-> view.owner]
    ELSE [status |-> s.status, owner |-> s.active]

\* stableStatus: a pending login does not hide the account that stays active.
Stable(s) ==
    IF s.status = "signing-in" /\ s.active # None /\ s.active = view.active /\ view.status \in Kept
    THEN [status |-> view.status, owner |-> view.owner]
    ELSE [status |-> s.status, owner |-> s.active]

\* The answer of a poll, as it is shown.
Shown(s) ==
    [Loading EXCEPT !.status = Stable(s).status, !.owner = Stable(s).owner, !.active = s.active,
        !.op = IF s.status = "signing-in" THEN "waiting" ELSE "idle", !.seq = s.seq]

\* The answer of the read that follows a mutation.
Read(s) == [Loading EXCEPT !.status = s.status, !.owner = s.active, !.active = s.active, !.seq = s.seq]

\* failure: the status that stands for a request that failed.
Failures == {"error", "untrusted"}
Failed(status) == [view EXCEPT !.status = status, !.busy = FALSE, !.op = "idle", !.error = FALSE]

-----------------------------------------------------------------------------
(* Views come and go; the timer fires.                                     *)

Subscribe ==
    /\ ~disposed
    /\ listeners < MaxListeners
    /\ listeners' = listeners + 1
    /\ IF listeners = 0 /\ Refreshable(view, 1) THEN Begin(0) ELSE UNCHANGED <<poll, tails>>
    /\ UNCHANGED <<serverVars, view, timer, mut, ops, windowVars, disposed>>

Unsubscribe ==
    /\ listeners > 0
    /\ listeners' = listeners - 1
    /\ IF listeners = 1 THEN StopPolling ELSE UNCHANGED <<timer, poll, tails>>
    /\ UNCHANGED <<serverVars, view, mut, ops, windowVars, disposed>>

TimerFires ==
    /\ timer
    /\ timer' = FALSE
    /\ IF Refreshable(view, listeners) THEN Begin(0) ELSE UNCHANGED <<poll, tails>>
    /\ UNCHANGED <<serverVars, view, listeners, mut, ops, windowVars, disposed>>

-----------------------------------------------------------------------------
(* A poll.                                                                 *)

\* Where its answer is taken: the server looks at its state once.
ServePoll ==
    /\ poll.pc = "sent"
    /\ poll' = [poll EXCEPT !.pc = "served", !.got = server]
    /\ UNCHANGED <<serverVars, view, listeners, timer, tails, mut, ops, windowVars, disposed>>

\* The end of a mutation: it gives up its window, if no newer one is held.
LetGo(n) == popup' = IF popup = n THEN 0 ELSE popup

\* Mutant: the next poll is not scheduled.
SettledUnscheduled(v) ==
    /\ view' = v
    /\ poll' = NoPoll
    /\ timer' = timer
    /\ IF poll.tail = 0 THEN popup' = popup ELSE LetGo(poll.tail)

\* The finally clauses: of the poll, and of the mutation that waits for it.
Settled(v) ==
    /\ view' = v
    /\ poll' = NoPoll
    /\ timer' = Scheduled(v)
    /\ IF poll.tail = 0 THEN popup' = popup ELSE LetGo(poll.tail)

Answers ==
    /\ poll.pc = "served"
    /\ Settled(Shown(poll.got))
    /\ UNCHANGED <<serverVars, listeners, tails, mut, ops, blank, disposed>>

Fails ==
    /\ poll.pc \in {"sent", "served"}
    /\ faults < MaxFaults
    /\ faults' = faults + 1
    /\ \E status \in Failures : Settled(Failed(status))
    /\ UNCHANGED <<server, listeners, tails, mut, ops, blank, disposed>>

\* A mutation whose refresh was aborted comes to its finally clause, whatever
\* has begun since.
Aborted(n) ==
    /\ n \in tails
    /\ tails' = tails \ {n}
    /\ timer' = Scheduled(view)
    /\ LetGo(n)
    /\ UNCHANGED <<serverVars, view, listeners, poll, mut, ops, blank, disposed>>

-----------------------------------------------------------------------------
(* A mutation.                                                             *)

\* The snapshot while it is under way.
Working(kind) ==
    CASE kind = "signIn" ->
            [view EXCEPT !.busy = TRUE, !.op = "working", !.error = FALSE,
                !.status = IF view.status \in Kept THEN @ ELSE "signing-in"]
      [] kind = "callback" -> [view EXCEPT !.busy = TRUE, !.error = FALSE]
      [] OTHER -> [view EXCEPT !.busy = TRUE, !.op = "working"]

Start(kind) ==
    /\ ~disposed
    /\ ~view.busy
    /\ kind = "callback" => view.op = "waiting"
    /\ ops < MaxOps
    /\ StopPolling
    /\ view' = Working(kind)
    /\ mut' = [pc |-> "sent", kind |-> kind, got |-> None]
    /\ ops' = ops + 1
    /\ IF kind = "signIn"
       THEN \/ popup' = ops + 1 /\ blank' = blank \union {ops + 1}
            \/ popup' = 0 /\ blank' = blank
       ELSE UNCHANGED windowVars
    /\ UNCHANGED <<serverVars, listeners, disposed>>

\* The server carries the mutation out, finds nothing to do, or refuses.
Serve ==
    /\ mut.pc = "sent"
    /\ \/ server' \in Outcomes(mut.kind)
       \/ server' = server /\ (mut.kind = "signOut" => server.status = "signed-out")
    /\ mut' = [mut EXCEPT !.pc = "done", !.got = IF mut.kind = "signOut" THEN server' ELSE None]
    /\ UNCHANGED <<faults, view, pollVars, ops, windowVars, disposed>>

\* The mutation is over: its finally clause, unless it waits for a refresh.
Settle(v, refreshes) ==
    /\ mut' = NoMut
    /\ Publish(v)
    /\ blank' = blank \ {ops}
    /\ IF refreshes /\ Refreshable(v, listeners)
       THEN /\ Begin(ops)
            /\ timer' = timer
            /\ popup' = popup
       ELSE /\ timer' = Scheduled(v)
            /\ LetGo(ops)
            /\ UNCHANGED <<poll, tails>>

\* The answer to a sign-in, a callback or a sign-out ends it. The others go on
\* to read the server's state.
Done ==
    /\ mut.pc = "done"
    /\ ~disposed
    /\ CASE mut.kind = "signIn" -> Settle([view EXCEPT !.busy = FALSE, !.op = "waiting"], FALSE)
         [] mut.kind = "callback" -> Settle([view EXCEPT !.busy = FALSE], FALSE)
         [] mut.kind = "signOut" ->
                Settle([Loading EXCEPT !.status = "signed-out", !.seq = mut.got.seq], FALSE)
         [] OTHER -> /\ mut' = [mut EXCEPT !.pc = "read"]
                     /\ UNCHANGED <<view, timer, poll, tails, windowVars>>
    /\ UNCHANGED <<serverVars, listeners, ops, disposed>>

\* readServerState: where its answer is taken, and where it is shown.
ServeMutationRead ==
    /\ mut.pc = "read"
    /\ mut' = [mut EXCEPT !.pc = "answered", !.got = server]
    /\ UNCHANGED <<serverVars, view, pollVars, ops, windowVars, disposed>>

Reread ==
    /\ mut.pc = "answered"
    /\ ~disposed
    /\ Settle(Read(mut.got), FALSE)
    /\ UNCHANGED <<serverVars, listeners, ops, disposed>>

\* What may be shown when the mutation failed.
Complaints ==
    CASE mut.kind = "callback" -> {[view EXCEPT !.busy = FALSE]}
      [] mut.kind \in {"signIn", "cancel"} /\ view.active = None -> {Failed(s) : s \in Failures}
      [] OTHER -> {[view EXCEPT !.busy = FALSE, !.op = "idle", !.error = TRUE]}

\* The server refuses.  A sign-in that was cancelled elsewhere is read again.
Refused(refreshes) ==
    /\ mut.pc = "sent"
    /\ ~disposed
    /\ refreshes => mut.kind = "signIn"
    /\ \E v \in Complaints : Settle(v, refreshes)
    /\ UNCHANGED <<serverVars, listeners, ops, disposed>>

\* The request fails, or its deadline passes; then the server's state is read,
\* for it may have carried the mutation out, or may still do so.
MutationFails(timedOut) ==
    /\ mut.pc # "none"
    /\ ~disposed
    /\ faults < MaxFaults
    /\ faults' = faults + 1
    /\ \E v \in Complaints : Settle(v, timedOut /\ mut.kind # "callback")
    /\ UNCHANGED <<server, listeners, ops, disposed>>

\* What a disposed store does with its mutation: nothing that can be seen.
Abandoned ==
    /\ mut.pc # "none"
    /\ disposed
    /\ \E v \in Complaints : Settle(v, FALSE)
    /\ UNCHANGED <<serverVars, listeners, ops, disposed>>

-----------------------------------------------------------------------------
\* Another browser, the provider, or a request this page has given up on.
ServerChanges ==
    /\ server.seq < MaxChanges
    /\ server' \in Later
    /\ UNCHANGED <<faults, view, pollVars, mut, ops, windowVars, disposed>>

Dispose ==
    /\ ~disposed
    /\ disposed' = TRUE
    /\ StopPolling
    /\ popup' = 0
    /\ blank' = blank \ {popup}
    /\ listeners' = 0
    /\ view' = Loading
    /\ UNCHANGED <<serverVars, mut, ops>>

-----------------------------------------------------------------------------
\* What goes on by itself: the timer, the requests and their continuations.
Proceed ==
    \/ TimerFires
    \/ ServePoll \/ Answers \/ \E n \in tails : Aborted(n)
    \/ Serve \/ Done \/ ServeMutationRead \/ Reread \/ Abandoned

Next ==
    \/ Subscribe \/ Unsubscribe \/ Proceed \/ Dispose
    \/ Fails
    \/ \E kind \in Kinds : Start(kind)
    \/ \E b \in BOOLEAN : Refused(b) \/ MutationFails(b)
    \/ ServerChanges

\* A browser settles every request, by its deadline at the latest, and runs its
\* timers.
Fairness == WF_vars(Proceed)

Spec == Init /\ [][Next]_vars /\ Fairness

-----------------------------------------------------------------------------
(* Properties                                                              *)

Views ==
    [status : {"loading", "signed-out", "signing-in"} \union Kept \union Failures,
     active : Accounts \union {None}, owner : Accounts \union {None}, busy : BOOLEAN,
     op : {"idle", "waiting", "working"}, error : BOOLEAN, seq : 0 .. MaxChanges + MaxOps]

\* The type invariant.
TypeOK ==
    /\ server \in ServerStates
    /\ faults \in 0 .. MaxFaults
    /\ view \in Views
    /\ listeners \in 0 .. MaxListeners
    /\ timer \in BOOLEAN
    /\ poll \in [pc : {"none", "sent", "served"}, got : ServerStates \union {None}, tail : 0 .. MaxOps]
    /\ tails \subseteq 1 .. MaxOps
    /\ mut \in [pc : {"none", "sent", "done", "read", "answered"}, kind : Kinds \union {"none"},
                got : ServerStates \union {None}]
    /\ ops \in 0 .. MaxOps
    /\ popup \in 0 .. MaxOps
    /\ blank \subseteq 1 .. MaxOps
    /\ disposed \in BOOLEAN

\* "Refresh only while observed, without overlapping status reads or OAuth
\* mutations": a poll that may still be shown has a view to serve, and no mutation
\* is under way.
NoOverlap == poll # NoPoll => listeners > 0 /\ ~view.busy /\ mut = NoMut

\* A late answer never overwrites what a newer one has shown.
NeverBack == [][~disposed' => view'.seq >= view.seq]_vars

\* The quota and the state of an account are shown under that account's name,
\* also while a login is pending and other browsers switch the account.
OwnStatus == view.status \in Kept => view.owner = view.active

\* A window that a sign-in has opened and not yet used can still be closed by
\* disposing the store, and is closed when the sign-in fails or the store goes.
WindowHeld == \A n \in blank : popup = n /\ mut.kind = "signIn" /\ n = ops /\ ~disposed

\* A disposed store stays as it is: no view, no timer, no poll, no news.
DisposedForGood ==
    [][disposed => /\ UNCHANGED <<view, listeners, disposed>>
                   /\ ~timer' /\ poll' = NoPoll]_vars

\* While a view looks on and the state shown is one that may change by itself,
\* the page comes to show the server's state, whatever failed on the way, and
\* no mutation stays under way.
Converges ==
    <>[](listeners > 0 /\ ~disposed)
        => <>[](~view.busy /\ (Polled(view) => view.seq = server.seq))
=============================================================================
