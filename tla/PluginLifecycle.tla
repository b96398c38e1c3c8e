---- MODULE PluginLifecycle ----
(***************************************************************************)
(* The life of the plugin in src/src/index.ts: the optional capabilities   *)
(* that follow its settings, each in a fiber of its own, the search route  *)
(* that the search capability takes, and the order in which all of it is   *)
(* given up.                                                               *)
(*                                                                         *)
(* Every update of the settings puts one reconciliation at the tail of     *)
(* each capability.  A reconciliation may wait for the disposal of the     *)
(* former fiber; it goes on with the settings that it had read before.  A  *)
(* fiber runs its callback when the services it asks for are there, takes  *)
(* back what the callback did when one of them goes, and waits again.      *)
(*                                                                         *)
(* What an update does to the quota state and to the proxy manager is      *)
(* modelled with those (Invalidate in QuotaState, Shutdown in              *)
(* ProviderProxy).                                                         *)
(***************************************************************************)
EXTENDS SearchRoute, FiniteSets

CONSTANTS Capability, Search,   \* the capabilities; the one that takes the route
          Setup(_),             \* the registrations that settings can ask for
          None,
          MaxEvents             \* bound of the model: updates, others' moves, failures

ASSUME LifecycleAssumption ==
  /\ Search \in Capability
  /\ \A c \in Capability : /\ None \notin Setup(c)
                            /\ None \notin [next : Setup(c) \cup {None}, fiber : Nat]
  /\ MaxEvents \in Nat

VARIABLES settings, \* per capability: the registration asked for, or None
          tail,     \* per capability: reconciliations to come
          waiting,  \* per capability: the reconciliation that waits, or None
          fibers,   \* per capability: the fibers that have not gone, by number
          current,  \* searchFiber, imageFiber, imageGenerationFiber: a number, or 0
          service,  \* per capability: the services it asks for are there
          logged,   \* per capability: a failure was logged since the last update
          phase,    \* how far the plugin's disposal is
          events    \* updates, others' moves and failures so far

caps == <<tail, waiting, fibers, current, service, logged>>
vars == <<settings, caps, phase, events, routeVars>>

FiberState == {"pending", "active", "failed", "closing"}
Phase == {"up", "quota", "tails", "fibers", "proxy", "done"}

\* deepEqualJson(nextRegistration, searchRegistration), or the flag against the
\* fiber: both are cleared together.
Registered(c) == IF current[c] = 0 THEN None ELSE fibers[c][current[c]].want
stopped == phase # "up"

Fiber(w) == [state |-> "pending", want |-> w]
NoFiber == [n \in {} |-> Fiber(None)]
Waits(n, f) == [next |-> n, fiber |-> f]

TypeOK ==
  /\ RouteTypeOK
  /\ \A c \in Capability :
       /\ settings[c] \in Setup(c) \cup {None}
       /\ tail[c] \in 0..(MaxEvents + 1)
       /\ \A n \in DOMAIN fibers[c] : fibers[c][n].state \in FiberState
                                      /\ fibers[c][n].want \in Setup(c)
       /\ DOMAIN fibers[c] \subseteq Nat \ {0}
       /\ current[c] \in {0} \cup DOMAIN fibers[c]
       /\ waiting[c] # None => waiting[c].next \in Setup(c) \cup {None} /\ waiting[c].fiber \in Nat \ {0}
       /\ service[c] \in BOOLEAN /\ logged[c] \in BOOLEAN
  /\ phase \in Phase

Init == /\ settings \in [Capability -> UNION {Setup(c) : c \in Capability} \cup {None}]
        /\ \A c \in Capability : settings[c] \in Setup(c) \cup {None}
        /\ tail = [c \in Capability |-> 1]
        /\ waiting = [c \in Capability |-> None]
        /\ fibers = [c \in Capability |-> NoFiber]
        /\ current = [c \in Capability |-> 0]
        /\ service \in [Capability -> BOOLEAN]
        /\ logged = [c \in Capability |-> FALSE]
        /\ phase = "up"
        /\ events = 0
        /\ RouteInit

-----------------------------------------------------------------------------
\* Fibers.

Event == events < MaxEvents /\ events' = events + 1

To(c, n, s) == fibers' = [fibers EXCEPT ![c][n].state = s]

With(fs, n, w) == [m \in DOMAIN fs \cup {n} |-> IF m = n THEN Fiber(w) ELSE fs[m]]
Without(fs, n) == [m \in DOMAIN fs \ {n} |-> fs[m]]
Gone(c, n) == fibers' = [fibers EXCEPT ![c] = Without(@, n)]

\* The fiber's callback registers the provider or the tool; a search provider
\* also takes the route.
Starts(c, n) ==
  /\ fibers[c][n].state = "pending" /\ service[c]
  /\ To(c, n, "active")
  /\ IF c = Search THEN Selectable /\ Select ELSE UNCHANGED routeVars
  /\ UNCHANGED <<settings, tail, waiting, current, service, logged, phase, events>>

\* It throws, after taking back the registration if it was made.
Throws(c, n) ==
  /\ fibers[c][n].state = "pending" /\ service[c]
  /\ To(c, n, "failed")
  /\ IF c = Search /\ ~Selectable THEN UNCHANGED events ELSE Event
  /\ UNCHANGED <<settings, tail, waiting, current, service, logged, phase, routeVars>>

\* `if (searchFiber === fiber)`.
Cleared(c, n) == IF current[c] = n THEN 0 ELSE current[c]

\* The rejection of a failed fiber arrives, later than the failure.
FailureSeen(c, n) ==
  /\ fibers[c][n].state = "failed"
  /\ Gone(c, n)
  /\ current' = [current EXCEPT ![c] = Cleared(c, n)]
  /\ logged' = [logged EXCEPT ![c] = TRUE]
  /\ UNCHANGED <<settings, tail, waiting, service, phase, events, routeVars>>

\* dispose() of a fiber begins; only one that is active has anything to undo.
Closing(fs, n) == IF fs[n].state = "pending" THEN Without(fs, n)
                  ELSE IF fs[n].state = "active" THEN [fs EXCEPT ![n].state = "closing"] ELSE fs

\* Its cleanups run: for search the route's, then the registration's.
Closed(c, n) ==
  /\ fibers[c][n].state = "closing"
  /\ Gone(c, n)
  /\ IF c = Search THEN GiveBack ELSE UNCHANGED routeVars
  /\ UNCHANGED <<settings, tail, waiting, current, service, logged, phase, events>>

-----------------------------------------------------------------------------
\* Reconciliations: reconcileSearch, reconcileImageTool, reconcileImageGeneration.

\* A fiber is made for w.
Made(c, w) ==
  LET new == CHOOSE n \in 1..(Cardinality(DOMAIN fibers[c]) + 1) : n \notin DOMAIN fibers[c]
  IN /\ fibers' = [fibers EXCEPT ![c] = With(@, new, w)]
     /\ current' = [current EXCEPT ![c] = new]

\* The next reconciliation of c runs up to its first wait, or to its end.
Reconcile(c) ==
  /\ tail[c] > 0 /\ waiting[c] = None
  /\ tail' = [tail EXCEPT ![c] = @ - 1]
  /\ CASE stopped \/ settings[c] = Registered(c) -> UNCHANGED <<waiting, fibers, current>>
       [] ~stopped /\ settings[c] # Registered(c) /\ current[c] = 0 ->
            Made(c, settings[c]) /\ UNCHANGED waiting
       [] OTHER ->
            /\ waiting' = [waiting EXCEPT ![c] = Waits(settings[c], current[c])]
            /\ fibers' = [fibers EXCEPT ![c] = Closing(@, current[c])]
            /\ current' = [current EXCEPT ![c] = 0]
  /\ UNCHANGED <<settings, service, logged, phase, events, routeVars>>

Undone(c) == {n \in DOMAIN fibers[c] : fibers[c][n].state = "closing"}

\* Mutant: the disposal is begun and not awaited.
ReadyAtOnce(c) == waiting[c] # None

\* The disposal that the reconciliation waits for has ended.
Ready(c) == waiting[c] # None /\ waiting[c].fiber \notin Undone(c)

\* The rest of the reconciliation, with the settings it began with.
Continue(c) ==
  /\ Ready(c)
  /\ waiting' = [waiting EXCEPT ![c] = None]
  /\ IF stopped \/ waiting[c].next = None
     THEN UNCHANGED <<fibers, current>>
     ELSE Made(c, waiting[c].next)
  /\ UNCHANGED <<settings, tail, service, logged, phase, events, routeVars>>

\* A disposal rejects, after the cleanups: the reconciliation that waits for it
\* ends there; the plugin's own disposal goes on (allSettled).
ClosingFails(c, n) ==
  /\ n \in Undone(c) /\ Event
  /\ Gone(c, n)
  /\ IF c = Search THEN GiveBack ELSE UNCHANGED routeVars
  /\ IF waiting[c] # None /\ waiting[c].fiber = n
     THEN waiting' = [waiting EXCEPT ![c] = None] /\ logged' = [logged EXCEPT ![c] = TRUE]
     ELSE UNCHANGED <<waiting, logged>>
  /\ UNCHANGED <<settings, tail, current, service, phase>>

-----------------------------------------------------------------------------
\* The settings.

\* Mutant: while a reconciliation waits, no other is added.
ScheduledOnce == [c \in Capability |-> IF waiting[c] # None THEN tail[c] ELSE tail[c] + 1]

\* scheduleCapabilities.
Scheduled == [c \in Capability |-> tail[c] + 1]

\* loader/volatile-update, after the settings have changed.
Update(s) ==
  /\ Event
  /\ settings' = s
  /\ tail' = Scheduled
  /\ logged' = [c \in Capability |-> FALSE]
  /\ UNCHANGED <<waiting, fibers, current, service, phase, routeVars>>

-----------------------------------------------------------------------------
\* What others do.

\* A service that c asks for goes: an active fiber takes back what it did.
ServiceGone(c) ==
  /\ service[c] /\ Event
  /\ Undone(c) = {}
  /\ service' = [service EXCEPT ![c] = FALSE]
  /\ fibers' = [fibers EXCEPT ![c] =
       [n \in DOMAIN @ |-> IF @[n].state = "active" THEN Fiber(@[n].want) ELSE @[n]]]
  /\ IF c = Search /\ \E n \in DOMAIN fibers[c] : fibers[c][n].state = "active"
     THEN GiveBack ELSE UNCHANGED routeVars
  /\ UNCHANGED <<settings, tail, waiting, current, logged, phase>>

ServiceBack(c) ==
  /\ ~service[c]
  /\ service' = [service EXCEPT ![c] = TRUE]
  /\ IF c = Search THEN \E r \in Route : NewRuntime(r) ELSE UNCHANGED routeVars
  /\ UNCHANGED <<settings, tail, waiting, fibers, current, logged, phase, events>>

\* The Host's user, or another plugin, selects a search provider.
Selects(r) == /\ Event /\ service[Search]
              /\ r # (IF legacy THEN field ELSE chosen) /\ Choose(r)
              /\ UNCHANGED <<settings, caps, phase>>

Replaces(r) == /\ Event /\ service[Search] /\ ReplaceConfig(r)
               /\ UNCHANGED <<settings, caps, phase>>

-----------------------------------------------------------------------------
\* The plugin's disposal, step by step.

Stop == /\ phase = "up" /\ phase' = "quota"
        /\ UNCHANGED <<settings, caps, events, routeVars>>

\* quota.dispose() has ended.
QuotaDisposed == /\ phase = "quota" /\ phase' = "tails"
                 /\ UNCHANGED <<settings, caps, events, routeVars>>

Idle == \A c \in Capability : tail[c] = 0 /\ waiting[c] = None

\* Mutant: the fibers are collected without waiting for the tails.
CollectAtOnce ==
  /\ phase = "tails" /\ phase' = "fibers"
  /\ current' = [c \in Capability |-> 0]
  /\ fibers' = [c \in Capability |-> IF current[c] = 0 THEN fibers[c] ELSE Closing(fibers[c], current[c])]
  /\ UNCHANGED <<settings, tail, waiting, service, logged, events, routeVars>>

\* The tails have ended, and the fibers begin to be disposed.
Collect ==
  /\ phase = "tails" /\ Idle /\ phase' = "fibers"
  /\ current' = [c \in Capability |-> 0]
  /\ fibers' = [c \in Capability |-> IF current[c] = 0 THEN fibers[c] ELSE Closing(fibers[c], current[c])]
  /\ UNCHANGED <<settings, tail, waiting, service, logged, events, routeVars>>

\* The disposal of every fiber that was collected has settled.
FibersDisposed ==
  /\ phase = "fibers" /\ phase' = "proxy"
  /\ \A c \in Capability : Undone(c) = {}
  /\ UNCHANGED <<settings, caps, events, routeVars>>

\* proxyManager.dispose() has ended.
ProxyDisposed ==
  /\ phase = "proxy" /\ phase' = "done"
  /\ UNCHANGED <<settings, caps, events, routeVars>>

-----------------------------------------------------------------------------
\* What the plugin and its fibers do of themselves.
Proceed ==
  \/ \E c \in Capability :
       \/ Reconcile(c) \/ Continue(c)
       \/ \E n \in DOMAIN fibers[c] : Starts(c, n) \/ Throws(c, n) \/ FailureSeen(c, n) \/ Closed(c, n)
  \/ QuotaDisposed \/ Collect \/ FibersDisposed \/ ProxyDisposed

Environment ==
  \/ \E s \in [Capability -> UNION {Setup(c) : c \in Capability} \cup {None}] :
       (\A c \in Capability : s[c] \in Setup(c) \cup {None}) /\ Update(s)
  \/ Stop
  \/ \E c \in Capability :
       ServiceGone(c) \/ ServiceBack(c) \/ \E n \in DOMAIN fibers[c] : ClosingFails(c, n)
  \/ \E r \in Route \cup {Ours} : Selects(r) \/ Replaces(r)

Next == Proceed \/ Environment

Spec == Init /\ [][Next]_vars

\* Promises settle, timers fire and callbacks run: what can go on goes on.
Fairness == WF_vars(Proceed)
FairSpec == Spec /\ Fairness

-----------------------------------------------------------------------------
Alive(c) == {n \in DOMAIN fibers[c] : fibers[c][n].state \in {"pending", "active", "closing"}}

\* A capability never has two fibers at a time, of which the second would find
\* the provider's or the tool's name taken: index.ts:557, 610, 630 wait for the
\* disposal of the former one, however the settings change meanwhile.
OneAtATime == \A c \in Capability : Cardinality(Alive(c)) <= 1

\* When the proxy manager is disposed (index.ts:668) no capability that sends
\* through it is left, none will come, and what the search capability took has
\* been given back.
NothingLeft ==
  phase \in {"proxy", "done"} =>
    /\ \A c \in Capability : Alive(c) = {} /\ current[c] = 0 /\ waiting[c] = None
    /\ service[Search] => Selected = chosen \/ Indistinguishable

\* Whoever selects last wins: while our provider is active and nobody selected
\* another since it became so, it is used; otherwise the others' last choice is,
\* an A to B to A included (search-route-override.ts:60-62), and it is there
\* when our provider has gone (line 85).
LastChoiceWins ==
  service[Search] =>
    LET inForce == \E n \in DOMAIN fibers[Search] : fibers[Search][n].state \in {"active", "closing"}
    IN IF inForce /\ ~newer THEN Selected = Ours ELSE Selected = chosen \/ Indistinguishable

InEffect(c) ==
  IF settings[c] = None THEN Alive(c) = {}
  ELSE /\ Registered(c) = settings[c]
       /\ fibers[c][current[c]].state = IF service[c] THEN "active" ELSE "pending"

\* While the plugin runs, its capabilities come to be what the settings last
\* asked for, or the log says why not (index.ts:635-648, 682); and once its
\* disposal has begun it ends, whatever is under way.
Settles ==
  <>[](IF phase = "up" THEN \A c \in Capability : InEffect(c) \/ logged[c] ELSE phase = "done")
====
