---- MODULE PluginLifecycleProofs ----
(***************************************************************************)
(* Theorems about PluginLifecycle: any capabilities with any settings, any *)
(* providers that others select.                                           *)
(***************************************************************************)
EXTENDS PluginLifecycle, FiniteSetTheorems, TLAPS

\* What a capability's fibers are, and the states they are in.
Good(f, c) ==
  /\ IsFiniteSet(DOMAIN f) /\ DOMAIN f \subseteq Nat \ {0}
  /\ f = [n \in DOMAIN f |-> f[n]]
  /\ \A n \in DOMAIN f : f[n] \in [state : FiberState, want : Setup(c)]

StatesOf(f) == [n \in Nat |-> IF n \in DOMAIN f THEN f[n].state ELSE "gone"]
States == [c \in Capability |-> StatesOf(fibers[c])]

Shape ==
  /\ settings = [c \in Capability |-> settings[c]]
  /\ \A c \in Capability : settings[c] \in Setup(c) \cup {None}
  /\ tail \in [Capability -> Nat] /\ current \in [Capability -> Nat]
  /\ service \in [Capability -> BOOLEAN] /\ logged \in [Capability -> BOOLEAN]
  /\ waiting = [c \in Capability |-> waiting[c]]
  /\ phase \in Phase
  /\ events \in 0..MaxEvents /\ \A c \in Capability : tail[c] <= events + 1

FibersGood == /\ fibers = [c \in Capability |-> fibers[c]]
              /\ \A c \in Capability : Good(fibers[c], c)

\* A reconciliation that waits has no current fiber beside it.
Waiting == \A c \in Capability :
  waiting[c] # None => /\ current[c] = 0
                       /\ waiting[c] \in [next : Setup(c) \cup {None}, fiber : Nat \ {0}]

\* A fiber that may run is the current one; one that is being disposed is awaited
\* by a reconciliation or by the disposal of the plugin, and is the only one.
Placed == \A c \in Capability :
  /\ current[c] # 0 => States[c][current[c]] # "gone"
  /\ \A n \in Nat :
       /\ States[c][n] # "gone" => n # 0
       /\ States[c][n] \in {"pending", "active"} => n = current[c]
       /\ States[c][n] = "closing" =>
            /\ current[c] = 0
            /\ IF waiting[c] = None THEN phase = "fibers" ELSE waiting[c].fiber = n
       /\ \A m \in Nat : States[c][n] = "closing" /\ States[c][m] = "closing" => m = n

\* Once the fibers are collected no other comes.
Ending ==
  /\ phase \in {"fibers", "proxy", "done"} =>
       \A c \in Capability : current[c] = 0 /\ waiting[c] = None
  /\ phase \in {"proxy", "done"} => \A c \in Capability : \A n \in Nat : States[c][n] # "closing"

InForce(c) == \E n \in Nat : States[c][n] \in {"active", "closing"}

\* The route is taken while the search fiber is in force, and nothing is in
\* force without its services.
Forced == /\ active <=> InForce(Search)
          /\ \A c \in Capability : ~service[c] => ~InForce(c)

\* What the route is, as far as the last choice is concerned.
RouteInv ==
  /\ RouteTypeOK
  /\ newer => active
  /\ legacy =>
       /\ active /\ ~newer => field = Ours /\ (before = chosen \/ chosen = Ours)
       /\ active /\ newer => field = chosen
       /\ ~active => field = chosen \/ chosen = Ours
  /\ ~legacy =>
       /\ active => config # "host"
       /\ config = "facade" => active /\ (mine <=> ~newer)
       /\ active /\ config = "foreign" => newer

IInv == /\ Shape /\ FibersGood /\ Waiting /\ Placed /\ Ending /\ Forced /\ RouteInv

-----------------------------------------------------------------------------
\* Fibers.

LEMMA NoFiberGood ==
  ASSUME NEW c \in Capability PROVE Good(NoFiber, c) /\ StatesOf(NoFiber) = [n \in Nat |-> "gone"]
<1>1. DOMAIN NoFiber = {}
  BY DEF NoFiber
<1>2. IsFiniteSet(DOMAIN NoFiber)
  BY <1>1, FS_EmptySet
<1>3. NoFiber = [n \in DOMAIN NoFiber |-> NoFiber[n]]
  BY DEF NoFiber
<1> QED BY <1>1, <1>2, <1>3 DEF Good, StatesOf

LEMMA WithGood ==
  ASSUME NEW c \in Capability, NEW f, Good(f, c), NEW n \in Nat \ {0}, n \notin DOMAIN f,
         NEW w \in Setup(c)
  PROVE  /\ Good(With(f, n, w), c)
         /\ StatesOf(With(f, n, w)) = [StatesOf(f) EXCEPT ![n] = "pending"]
<1> DEFINE g == With(f, n, w)
<1>1. /\ DOMAIN g = DOMAIN f \cup {n}
      /\ \A m \in DOMAIN g : g[m] = IF m = n THEN Fiber(w) ELSE f[m]
      /\ g = [m \in DOMAIN g |-> g[m]]
  BY DEF With
<1> HIDE DEF g
<1>2. IsFiniteSet(DOMAIN g)
  BY <1>1, FS_AddElement DEF Good
<1>3. Fiber(w) \in [state : FiberState, want : Setup(c)] /\ Fiber(w).state = "pending"
  BY DEF Fiber, FiberState
<1>4. Good(g, c)
  BY <1>1, <1>2, <1>3 DEF Good
<1>5. StatesOf(g) = [StatesOf(f) EXCEPT ![n] = "pending"]
  BY <1>1, <1>3 DEF StatesOf
<1> QED BY <1>4, <1>5 DEF g

LEMMA WithoutGood ==
  ASSUME NEW c \in Capability, NEW f, Good(f, c), NEW n \in Nat
  PROVE  /\ Good(Without(f, n), c)
         /\ StatesOf(Without(f, n)) = [StatesOf(f) EXCEPT ![n] = "gone"]
<1> DEFINE g == Without(f, n)
<1>1. /\ DOMAIN g = DOMAIN f \ {n}
      /\ \A m \in DOMAIN g : g[m] = f[m]
      /\ g = [m \in DOMAIN g |-> g[m]]
  BY DEF Without
<1> HIDE DEF g
<1>2. IsFiniteSet(DOMAIN g)
  BY <1>1, FS_RemoveElement DEF Good
<1>3. Good(g, c)
  BY <1>1, <1>2 DEF Good
<1>4. StatesOf(g) = [StatesOf(f) EXCEPT ![n] = "gone"]
  BY <1>1 DEF StatesOf
<1> QED BY <1>3, <1>4 DEF g

LEMMA ToGood ==
  ASSUME NEW c \in Capability, NEW f, Good(f, c), NEW n \in DOMAIN f, NEW s \in FiberState
  PROVE  /\ Good([f EXCEPT ![n].state = s], c)
         /\ StatesOf([f EXCEPT ![n].state = s]) = [StatesOf(f) EXCEPT ![n] = s]
<1> DEFINE g == [f EXCEPT ![n].state = s]
<1>1. /\ DOMAIN g = DOMAIN f
      /\ \A m \in DOMAIN g : g[m] = IF m = n THEN [f[m] EXCEPT !.state = s] ELSE f[m]
      /\ g = [m \in DOMAIN g |-> g[m]]
  BY DEF Good
<1>2. [f[n] EXCEPT !.state = s] \in [state : FiberState, want : Setup(c)]
      /\ [f[n] EXCEPT !.state = s].state = s
  BY DEF Good
<1> HIDE DEF g
<1>3. Good(g, c)
  BY <1>1, <1>2 DEF Good
<1>4. StatesOf(g) = [StatesOf(f) EXCEPT ![n] = s]
  BY <1>1, <1>2 DEF StatesOf
<1> QED BY <1>3, <1>4 DEF g

\* The state that the beginning of its disposal puts a fiber in.
Ends(s) == IF s = "pending" THEN "gone" ELSE IF s = "active" THEN "closing" ELSE s

LEMMA ClosingGood ==
  ASSUME NEW c \in Capability, NEW f, Good(f, c), NEW n \in DOMAIN f
  PROVE  /\ Good(Closing(f, n), c)
         /\ StatesOf(Closing(f, n)) = [StatesOf(f) EXCEPT ![n] = Ends(f[n].state)]
<1>1. n \in Nat /\ StatesOf(f)[n] = f[n].state /\ "closing" \in FiberState
  BY DEF Good, StatesOf, FiberState
<1>2. CASE f[n].state = "pending"
  BY <1>1, <1>2, WithoutGood DEF Closing, Ends
<1>3. CASE f[n].state = "active"
  BY <1>1, <1>3, ToGood DEF Closing, Ends
<1>4. CASE f[n].state \notin {"pending", "active"}
  <2>1. Closing(f, n) = f
    BY <1>4 DEF Closing
  <2>2. StatesOf(f) = [StatesOf(f) EXCEPT ![n] = f[n].state]
    BY <1>1 DEF StatesOf
  <2> QED BY <1>4, <2>1, <2>2 DEF Ends
<1> QED BY <1>2, <1>3, <1>4

\* There is always a number for another fiber.
LEMMA FreeNumber ==
  ASSUME NEW D, IsFiniteSet(D)
  PROVE  \E n \in 1..(Cardinality(D) + 1) : n \notin D
<1>1. SUFFICES ASSUME 1..(Cardinality(D) + 1) \subseteq D PROVE FALSE
  OBVIOUS
<1>2. Cardinality(D) \in Nat
  BY FS_CardinalityType
<1>3. Cardinality(1..(Cardinality(D) + 1)) = Cardinality(D) + 1
  BY <1>2, FS_Interval
<1>4. Cardinality(1..(Cardinality(D) + 1)) <= Cardinality(D)
  BY <1>1, FS_Subset
<1> QED BY <1>2, <1>3, <1>4

\* The fibers of one capability change.
LEMMA OneChanges ==
  ASSUME FibersGood, NEW c \in Capability, NEW g, Good(g, c), fibers' = [fibers EXCEPT ![c] = g]
  PROVE  /\ FibersGood'
         /\ States' = [States EXCEPT ![c] = StatesOf(g)]
<1>1. /\ fibers' = [d \in Capability |-> fibers'[d]]
      /\ \A d \in Capability : fibers'[d] = IF d = c THEN g ELSE fibers[d]
  BY DEF FibersGood
<1>2. FibersGood'
  BY <1>1 DEF FibersGood
<1>3. States' = [d \in Capability |-> StatesOf(fibers'[d])]
  BY DEF States, StatesOf
<1>4. States' = [States EXCEPT ![c] = StatesOf(g)]
  BY <1>1, <1>3 DEF States
<1> QED BY <1>2, <1>4

LEMMA StateFacts ==
  ASSUME FibersGood, NEW c \in Capability
  PROVE  /\ States \in [Capability -> [Nat -> FiberState \cup {"gone"}]]
         /\ States[c] = StatesOf(fibers[c])
         /\ \A n \in Nat : States[c][n] # "gone" <=> n \in DOMAIN fibers[c]
         /\ \A n \in DOMAIN fibers[c] : n \in Nat \ {0} /\ States[c][n] = fibers[c][n].state
BY DEF FibersGood, Good, States, StatesOf, FiberState

LEMMA ToStates ==
  ASSUME FibersGood, NEW c \in Capability, NEW n \in DOMAIN fibers[c], NEW s \in FiberState, To(c, n, s)
  PROVE  FibersGood' /\ States' = [States EXCEPT ![c][n] = s]
<1>1. fibers' = [fibers EXCEPT ![c] = [fibers[c] EXCEPT ![n].state = s]]
  BY DEF To
<1>2. Good(fibers[c], c)
  BY DEF FibersGood
<1>3. /\ Good([fibers[c] EXCEPT ![n].state = s], c)
      /\ StatesOf([fibers[c] EXCEPT ![n].state = s]) = [StatesOf(fibers[c]) EXCEPT ![n] = s]
  BY <1>2, ToGood
<1>4. /\ FibersGood'
      /\ States' = [States EXCEPT ![c] = StatesOf([fibers[c] EXCEPT ![n].state = s])]
  BY <1>1, <1>3, OneChanges
<1> QED BY <1>3, <1>4, StateFacts

LEMMA GoneStates ==
  ASSUME FibersGood, NEW c \in Capability, NEW n \in DOMAIN fibers[c], Gone(c, n)
  PROVE  FibersGood' /\ States' = [States EXCEPT ![c][n] = "gone"]
<1>1. fibers' = [fibers EXCEPT ![c] = Without(fibers[c], n)]
  BY DEF Gone
<1>2. Good(fibers[c], c) /\ n \in Nat
  BY StateFacts DEF FibersGood
<1>3. /\ Good(Without(fibers[c], n), c)
      /\ StatesOf(Without(fibers[c], n)) = [StatesOf(fibers[c]) EXCEPT ![n] = "gone"]
  BY <1>2, WithoutGood
<1>4. /\ FibersGood'
      /\ States' = [States EXCEPT ![c] = StatesOf(Without(fibers[c], n))]
  BY <1>1, <1>3, OneChanges
<1> QED BY <1>3, <1>4, StateFacts

LEMMA ClosingStates ==
  ASSUME FibersGood, NEW c \in Capability, NEW n \in DOMAIN fibers[c],
         fibers' = [fibers EXCEPT ![c] = Closing(@, n)]
  PROVE  FibersGood' /\ States' = [States EXCEPT ![c][n] = Ends(@)]
<1>1. fibers' = [fibers EXCEPT ![c] = Closing(fibers[c], n)]
  OBVIOUS
<1>2. Good(fibers[c], c)
  BY DEF FibersGood
<1>3. /\ Good(Closing(fibers[c], n), c)
      /\ StatesOf(Closing(fibers[c], n)) = [StatesOf(fibers[c]) EXCEPT ![n] = Ends(fibers[c][n].state)]
  BY <1>2, ClosingGood
<1>4. /\ FibersGood'
      /\ States' = [States EXCEPT ![c] = StatesOf(Closing(fibers[c], n))]
  BY <1>1, <1>3, OneChanges
<1> QED BY <1>3, <1>4, StateFacts

LEMMA MadeStates ==
  ASSUME FibersGood, NEW c \in Capability, NEW w \in Setup(c), Made(c, w)
  PROVE  /\ FibersGood'
         /\ \E n \in Nat \ {0} : /\ States[c][n] = "gone"
                                 /\ States' = [States EXCEPT ![c][n] = "pending"]
                                 /\ current' = [current EXCEPT ![c] = n]
<1> DEFINE D == DOMAIN fibers[c]
           new == CHOOSE n \in 1..(Cardinality(D) + 1) : n \notin D
<1>1. Good(fibers[c], c) /\ IsFiniteSet(D)
  BY DEF FibersGood, Good
<1>2. \E n \in 1..(Cardinality(D) + 1) : n \notin D
  BY <1>1, FreeNumber
<1>3. new \in Nat \ {0} /\ new \notin D
  BY <1>1, <1>2, FS_CardinalityType
<1>4. fibers' = [fibers EXCEPT ![c] = With(fibers[c], new, w)] /\ current' = [current EXCEPT ![c] = new]
  BY DEF Made
<1> HIDE DEF new
<1>5. /\ Good(With(fibers[c], new, w), c)
      /\ StatesOf(With(fibers[c], new, w)) = [StatesOf(fibers[c]) EXCEPT ![new] = "pending"]
  BY <1>1, <1>3, WithGood
<1>6. /\ FibersGood'
      /\ States' = [States EXCEPT ![c] = StatesOf(With(fibers[c], new, w))]
  BY <1>4, <1>5, OneChanges
<1>7. States[c][new] = "gone" /\ States' = [States EXCEPT ![c][new] = "pending"]
  BY <1>3, <1>5, <1>6, StateFacts
<1> QED BY <1>3, <1>4, <1>6, <1>7

-----------------------------------------------------------------------------
\* The route.

LEMMA SelectKeeps ==
  ASSUME RouteInv, Selectable, Select, ~active PROVE RouteInv' /\ active'
<1>1. RouteTypeOK'
  BY DEF RouteInv, RouteTypeOK, Select
<1> QED BY <1>1 DEF RouteInv, RouteTypeOK, Selectable, Select

LEMMA GiveBackKeeps ==
  ASSUME RouteInv, GiveBack, active PROVE RouteInv' /\ ~active'
<1>1. RouteTypeOK'
  BY DEF RouteInv, RouteTypeOK, GiveBack
<1> QED BY <1>1 DEF RouteInv, RouteTypeOK, GiveBack

LEMMA OthersKeep ==
  ASSUME RouteInv, NEW r \in Route \cup {Ours}, Choose(r) \/ ReplaceConfig(r)
  PROVE  RouteInv' /\ active' = active
<1>1. CASE Choose(r)
  <2>1. RouteTypeOK'
    BY <1>1 DEF RouteInv, RouteTypeOK, Choose, Noticed
  <2> QED BY <1>1, <2>1 DEF RouteInv, RouteTypeOK, Choose, Noticed
<1>2. CASE ReplaceConfig(r)
  <2>1. RouteTypeOK'
    BY <1>2 DEF RouteInv, RouteTypeOK, ReplaceConfig
  <2> QED BY <1>2, <2>1 DEF RouteInv, RouteTypeOK, ReplaceConfig
<1> QED BY <1>1, <1>2

LEMMA NewRuntimeKeeps ==
  ASSUME RouteInv, NEW r \in Route, NewRuntime(r), ~active PROVE RouteInv' /\ active' = active
<1>1. RouteTypeOK'
  BY DEF RouteInv, RouteTypeOK, NewRuntime, Legacy
<1> QED BY <1>1 DEF RouteInv, RouteTypeOK, NewRuntime, Legacy

LEMMA RouteSame ==
  ASSUME RouteInv, UNCHANGED routeVars PROVE RouteInv' /\ active' = active
BY DEF RouteInv, RouteTypeOK, routeVars

-----------------------------------------------------------------------------
\* The initial states.

LEMMA InitInv == Init => IInv
<1> SUFFICES ASSUME Init PROVE IInv
  OBVIOUS
<1>1. Shape
  BY LifecycleAssumption DEF Init, Shape, Phase
<1>2. FibersGood
  BY NoFiberGood DEF Init, FibersGood
<1>3. States = [c \in Capability |-> [n \in Nat |-> "gone"]]
  BY NoFiberGood DEF Init, States
<1>4. Waiting
  BY DEF Init, Waiting
<1>5. Placed
  BY <1>3 DEF Init, Placed
<1>6. Ending
  BY DEF Init, Ending
<1>7. Forced
  BY <1>3, LifecycleAssumption DEF Init, RouteInit, Forced, InForce
<1>8. RouteInv
  <2>1. legacy \in BOOLEAN /\ chosen \in Route \cup {Ours} /\ field = Legacy(chosen) /\ before = Ours
        /\ config = "host" /\ active = FALSE /\ mine = FALSE /\ newer = FALSE
    BY DEF Init, RouteInit
  <2>2. RouteTypeOK
    BY <2>1 DEF RouteTypeOK, Legacy
  <2> QED BY <2>1, <2>2 DEF RouteInv, Legacy
<1> QED BY <1>1, <1>2, <1>4, <1>5, <1>6, <1>7, <1>8 DEF IInv

-----------------------------------------------------------------------------
\* One lemma for each operation.

\* The parts of the state that most operations leave alone.
LEMMA ShapeSame ==
  ASSUME Shape, UNCHANGED <<settings, tail, current, service, logged, waiting, phase>>,
         events' \in events..MaxEvents
  PROVE  Shape'
BY LifecycleAssumption DEF Shape

LEMMA EventNat == Shape => events \in 0..MaxEvents /\ (Event => events' \in events..MaxEvents)
BY LifecycleAssumption DEF Shape, Event

LEMMA StartsStep ==
  ASSUME IInv, NEW c \in Capability, NEW n \in DOMAIN fibers[c], Starts(c, n) PROVE IInv'
<1> USE DEF IInv
<1>1. /\ service[c] /\ To(c, n, "active") /\ States[c][n] = "pending" /\ n \in Nat \ {0}
      /\ UNCHANGED <<settings, tail, current, service, logged, waiting, phase, events>>
  BY StateFacts DEF Starts
<1>2. FibersGood' /\ States' = [States EXCEPT ![c][n] = "active"]
  BY <1>1, ToStates DEF FiberState
<1>3. n = current[c] /\ ~InForce(c)
  BY <1>1 DEF Placed, InForce
<1>4. States \in [Capability -> [Nat -> FiberState \cup {"gone"}]]
  BY StateFacts
<1>5. Shape' /\ Waiting'
  BY <1>1, EventNat, ShapeSame DEF Waiting
<1>6. Placed'
  BY <1>1, <1>2, <1>3, <1>4 DEF Placed
<1>7. Ending'
  BY <1>1, <1>2, <1>4 DEF Ending
<1>8. Forced' /\ RouteInv'
  <2>1. CASE c = Search
    <3>1. RouteInv' /\ active'
      BY <1>3, <2>1, SelectKeeps DEF Starts, Forced
    <3>2. InForce(Search)'
      BY <1>1, <1>2, <1>4, <2>1 DEF InForce
    <3>3. Forced'
      BY <1>1, <1>2, <1>4, <2>1, <3>1, <3>2 DEF Forced, InForce
    <3> QED BY <3>1, <3>3
  <2>2. CASE c # Search
    <3>1. RouteInv' /\ active' = active
      BY <2>2, RouteSame DEF Starts
    <3>2. Forced'
      BY <1>1, <1>2, <1>4, <2>2, <3>1, LifecycleAssumption DEF Forced, InForce
    <3> QED BY <3>1, <3>2
  <2> QED BY <2>1, <2>2
<1> QED BY <1>2, <1>5, <1>6, <1>7, <1>8

LEMMA ThrowsStep ==
  ASSUME IInv, NEW c \in Capability, NEW n \in DOMAIN fibers[c], Throws(c, n) PROVE IInv'
<1> USE DEF IInv
<1>1. /\ To(c, n, "failed") /\ States[c][n] = "pending" /\ n \in Nat \ {0}
      /\ UNCHANGED <<settings, tail, current, service, logged, waiting, phase, routeVars>>
      /\ events' \in events..MaxEvents
  BY StateFacts, EventNat, LifecycleAssumption DEF Throws
<1>2. FibersGood' /\ States' = [States EXCEPT ![c][n] = "failed"]
  BY <1>1, ToStates DEF FiberState
<1>3. States \in [Capability -> [Nat -> FiberState \cup {"gone"}]]
  BY StateFacts
<1>4. Shape' /\ Waiting'
  BY <1>1, ShapeSame DEF Waiting
<1>5. Placed' /\ Ending'
  BY <1>1, <1>2, <1>3 DEF Placed, Ending
<1>6. RouteInv' /\ active' = active
  BY <1>1, RouteSame
<1>7. Forced'
  BY <1>1, <1>2, <1>3, <1>6, LifecycleAssumption DEF Forced, InForce
<1> QED BY <1>2, <1>4, <1>5, <1>6, <1>7

LEMMA FailureSeenStep ==
  ASSUME IInv, NEW c \in Capability, NEW n \in DOMAIN fibers[c], FailureSeen(c, n) PROVE IInv'
<1> USE DEF IInv
<1>1. /\ Gone(c, n) /\ States[c][n] = "failed" /\ n \in Nat \ {0}
      /\ current' = [current EXCEPT ![c] = IF current[c] = n THEN 0 ELSE current[c]]
      /\ logged' = [logged EXCEPT ![c] = TRUE]
      /\ UNCHANGED <<settings, tail, service, waiting, phase, events, routeVars>>
  BY StateFacts DEF FailureSeen, Cleared
<1>2. FibersGood' /\ States' = [States EXCEPT ![c][n] = "gone"]
  BY <1>1, GoneStates
<1>3. States \in [Capability -> [Nat -> FiberState \cup {"gone"}]]
  BY StateFacts
<1>4. Shape'
  BY <1>1 DEF Shape
<1>5. Waiting'
  BY <1>1 DEF Waiting, Shape
<1>6. Placed' /\ Ending'
  BY <1>1, <1>2, <1>3 DEF Placed, Ending, Shape
<1>7. RouteInv' /\ active' = active
  BY <1>1, RouteSame
<1>8. Forced'
  BY <1>1, <1>2, <1>3, <1>7, LifecycleAssumption DEF Forced, InForce
<1> QED BY <1>2, <1>4, <1>5, <1>6, <1>7, <1>8

\* A disposal ends, well or not.
LEMMA ClosedKeeps ==
  ASSUME IInv, NEW c \in Capability, NEW n \in DOMAIN fibers[c], States[c][n] = "closing", Gone(c, n),
         IF c = Search THEN GiveBack ELSE UNCHANGED routeVars,
         waiting' = waiting \/ waiting' = [waiting EXCEPT ![c] = None],
         Shape', current' = current, service' = service, phase' = phase
  PROVE  IInv'
<1> USE DEF IInv
<1>1. FibersGood' /\ States' = [States EXCEPT ![c][n] = "gone"] /\ n \in Nat \ {0}
  BY GoneStates, StateFacts
<1>2. States \in [Capability -> [Nat -> FiberState \cup {"gone"}]]
  BY StateFacts
<1>3. \A d \in Capability : waiting'[d] = waiting[d] \/ (d = c /\ waiting'[d] = None)
  BY DEF Shape
<1>4. Waiting'
  BY <1>3 DEF Waiting
<1>5. \A m \in Nat : States'[c][m] # "closing" /\ States'[c][m] # "active"
  BY <1>1, <1>2 DEF Placed
<1>6. Placed'
  BY <1>1, <1>2, <1>3, <1>5 DEF Placed
<1>7. Ending'
  BY <1>1, <1>2, <1>3 DEF Ending
<1>8. Forced' /\ RouteInv'
  <2>1. CASE c = Search
    <3>1. active
      BY <1>1, <2>1 DEF Forced, InForce
    <3>2. RouteInv' /\ ~active'
      BY <2>1, <3>1, GiveBackKeeps
    <3>3. Forced'
      BY <1>1, <1>2, <1>5, <2>1, <3>2 DEF Forced, InForce
    <3> QED BY <3>2, <3>3
  <2>2. CASE c # Search
    <3>1. RouteInv' /\ active' = active
      BY <2>2, RouteSame
    <3>2. Forced'
      BY <1>1, <1>2, <2>2, <3>1, LifecycleAssumption DEF Forced, InForce
    <3> QED BY <3>1, <3>2
  <2> QED BY <2>1, <2>2
<1> QED BY <1>1, <1>4, <1>6, <1>7, <1>8

LEMMA ClosedStep ==
  ASSUME IInv, NEW c \in Capability, NEW n \in DOMAIN fibers[c], Closed(c, n) PROVE IInv'
<1>1. /\ States[c][n] = "closing" /\ Gone(c, n)
      /\ IF c = Search THEN GiveBack ELSE UNCHANGED routeVars
      /\ UNCHANGED <<settings, tail, waiting, current, service, logged, phase, events>>
  BY StateFacts DEF IInv, Closed
<1>2. Shape'
  BY <1>1, EventNat, ShapeSame DEF IInv
<1> QED BY <1>1, <1>2, ClosedKeeps

LEMMA ClosingFailsStep ==
  ASSUME IInv, NEW c \in Capability, NEW n \in DOMAIN fibers[c], ClosingFails(c, n) PROVE IInv'
<1>1. /\ States[c][n] = "closing" /\ Gone(c, n) /\ Event
      /\ IF c = Search THEN GiveBack ELSE UNCHANGED routeVars
      /\ UNCHANGED <<settings, tail, current, service, phase>>
      /\ \/ waiting' = [waiting EXCEPT ![c] = None] /\ logged' = [logged EXCEPT ![c] = TRUE]
         \/ UNCHANGED <<waiting, logged>>
  BY StateFacts DEF IInv, ClosingFails, Undone
<1>2. events' \in events..MaxEvents
  BY <1>1, EventNat DEF IInv
<1>3. Shape'
  <2>1. /\ events' \in 0..MaxEvents /\ \A d \in Capability : tail'[d] <= events' + 1
    BY <1>1, <1>2, LifecycleAssumption DEF IInv, Shape
  <2>2. logged' \in [Capability -> BOOLEAN] /\ waiting' = [d \in Capability |-> waiting'[d]]
    BY <1>1 DEF IInv, Shape
  <2> QED BY <1>1, <2>1, <2>2 DEF IInv, Shape
<1> QED BY <1>1, <1>3, ClosedKeeps

LEMMA ReconcileStep ==
  ASSUME IInv, NEW c \in Capability, Reconcile(c) PROVE IInv'
<1> USE DEF IInv
<1>1. /\ tail[c] \in Nat /\ tail[c] > 0 /\ waiting[c] = None
      /\ tail' = [tail EXCEPT ![c] = @ - 1]
      /\ UNCHANGED <<settings, service, logged, phase, events, routeVars>>
  BY DEF Reconcile, Shape
<1>2. States \in [Capability -> [Nat -> FiberState \cup {"gone"}]]
  BY StateFacts
<1>3. tail' \in [Capability -> Nat] /\ \A d \in Capability : tail'[d] <= tail[d]
  BY <1>1 DEF Shape
<1>4. RouteInv' /\ active' = active
  BY <1>1, RouteSame
<1>5. CASE UNCHANGED <<waiting, fibers, current>>
  <2>1. States' = States
    BY <1>5 DEF States, StatesOf
  <2>2. Shape'
    BY <1>1, <1>3, <1>5 DEF Shape
  <2>3. FibersGood' /\ Waiting'
    BY <1>5 DEF FibersGood, Waiting
  <2>4. Placed' /\ Ending' /\ Forced'
    BY <1>1, <1>4, <1>5, <2>1 DEF Placed, Ending, Forced, InForce
  <2> QED BY <1>4, <2>2, <2>3, <2>4
<1>6. CASE /\ ~stopped /\ settings[c] # Registered(c) /\ current[c] = 0
           /\ Made(c, settings[c]) /\ UNCHANGED waiting
  <2>1. settings[c] \in Setup(c)
    BY <1>6 DEF Registered, Shape
  <2>2. FibersGood'
    BY <1>6, <2>1, MadeStates
  <2>3. PICK n \in Nat \ {0} : /\ States[c][n] = "gone"
                               /\ States' = [States EXCEPT ![c][n] = "pending"]
                               /\ current' = [current EXCEPT ![c] = n]
    BY <1>6, <2>1, MadeStates
  <2>4. phase = "up"
    BY <1>6 DEF stopped
  <2>5. Shape'
    BY <1>1, <1>3, <1>6, <2>3 DEF Shape
  <2>6. Waiting'
    BY <1>1, <1>6, <2>3 DEF Waiting, Shape
  <2>7. Placed'
    BY <1>1, <1>2, <1>6, <2>3, <2>4 DEF Placed, Shape
  <2>8. Ending' /\ Forced'
    BY <1>1, <1>2, <1>4, <2>3, <2>4, LifecycleAssumption DEF Ending, Forced, InForce
  <2> QED BY <1>4, <2>2, <2>5, <2>6, <2>7, <2>8
<1>7. CASE /\ ~stopped /\ current[c] # 0
           /\ waiting' = [waiting EXCEPT ![c] = Waits(settings[c], current[c])]
           /\ fibers' = [fibers EXCEPT ![c] = Closing(@, current[c])]
           /\ current' = [current EXCEPT ![c] = 0]
  <2> DEFINE n == current[c]
  <2>1. n \in Nat \ {0} /\ n \in DOMAIN fibers[c]
    BY <1>7, StateFacts DEF Placed, Shape
  <2>2. FibersGood' /\ States' = [States EXCEPT ![c][n] = Ends(@)]
    BY <1>7, <2>1, ClosingStates
  <2>3. waiting'[c] = Waits(settings[c], n)
    BY <1>7 DEF Shape
  <2>4. waiting'[c] \in [next : Setup(c) \cup {None}, fiber : Nat \ {0}] /\ waiting'[c].fiber = n
    BY <2>1, <2>3 DEF Waits, Shape
  <2>5. waiting'[c] # None
    BY <2>4, LifecycleAssumption
  <2>6. phase = "up"
    BY <1>7 DEF stopped
  <2>7. \A d \in Capability : d # c => waiting'[d] = waiting[d] /\ current'[d] = current[d] /\ States'[d] = States[d]
    BY <1>2, <1>7, <2>2 DEF Shape
  <2>8. current'[c] = 0 /\ States'[c] = [States[c] EXCEPT ![n] = Ends(@)]
    BY <1>2, <1>7, <2>2 DEF Shape
  <2>9. Shape'
    <3>1. waiting' = [d \in Capability |-> waiting'[d]]
      BY <1>7 DEF Shape
    <3>2. current' \in [Capability -> Nat]
      BY <1>7 DEF Shape
    <3>3. \A d \in Capability : tail'[d] <= events' + 1
      BY <1>1, <1>3, LifecycleAssumption DEF Shape
    <3> QED BY <1>1, <1>3, <3>1, <3>2, <3>3 DEF Shape
  <2>10. Waiting'
    BY <2>4, <2>7, <2>8 DEF Waiting
  <2>11. \A m \in Nat : /\ States'[c][m] \notin {"pending", "active"}
                        /\ States'[c][m] = "closing" => m = n /\ States[c][m] = "active"
                        /\ States'[c][m] # "gone" => States[c][m] # "gone"
    BY <1>2, <2>1, <2>8 DEF Placed, Ends
  <2> HIDE DEF n
  <2>12. Placed'
    <3>1. SUFFICES ASSUME NEW d \in Capability
                   PROVE  /\ current'[d] # 0 => States'[d][current'[d]] # "gone"
                          /\ \A m \in Nat :
                               /\ States'[d][m] # "gone" => m # 0
                               /\ States'[d][m] \in {"pending", "active"} => m = current'[d]
                               /\ States'[d][m] = "closing" =>
                                    /\ current'[d] = 0
                                    /\ IF waiting'[d] = None THEN phase' = "fibers" ELSE waiting'[d].fiber = m
                               /\ \A l \in Nat : States'[d][m] = "closing" /\ States'[d][l] = "closing" => l = m
      BY DEF Placed
    <3>2. CASE d = c
      <4>1. \A m \in Nat : States'[c][m] # "gone" => m # 0
        BY <2>11 DEF Placed
      <4> QED BY <2>4, <2>5, <2>8, <2>11, <3>2, <4>1
    <3>3. CASE d # c
      BY <1>1, <2>7, <3>3 DEF Placed
    <3> QED BY <3>2, <3>3
  <2>13. Ending'
    BY <1>1, <2>6 DEF Ending
  <2>14. InForce(c)' <=> InForce(c)
    <3>1. InForce(c) => States[c][n] = "active"
      BY <1>7, <2>1 DEF InForce, Placed, n
    <3>2. States[c][n] = "active" => States'[c][n] = "closing"
      BY <1>2, <2>1, <2>8 DEF Ends
    <3> QED BY <2>1, <2>11, <3>1, <3>2 DEF InForce
  <2>15. Forced'
    <3>1. \A d \in Capability : InForce(d)' <=> InForce(d)
      BY <2>7, <2>14 DEF InForce
    <3> QED BY <1>1, <1>4, <3>1, LifecycleAssumption DEF Forced, InForce
  <2> QED BY <1>4, <2>2, <2>9, <2>10, <2>12, <2>13, <2>15
<1> QED BY <1>5, <1>6, <1>7 DEF Reconcile

LEMMA ContinueStep ==
  ASSUME IInv, NEW c \in Capability, Continue(c) PROVE IInv'
<1> USE DEF IInv
<1>1. /\ waiting[c] # None /\ waiting[c].fiber \notin Undone(c)
      /\ waiting' = [waiting EXCEPT ![c] = None]
      /\ UNCHANGED <<settings, tail, service, logged, phase, events, routeVars>>
  BY DEF Continue, Ready
<1>2. States \in [Capability -> [Nat -> FiberState \cup {"gone"}]]
  BY StateFacts
<1>3. current[c] = 0 /\ waiting[c].next \in Setup(c) \cup {None}
  BY <1>1 DEF Waiting
<1>4. \A m \in Nat : States[c][m] \notin {"pending", "active", "closing"}
  BY <1>1, <1>3, StateFacts DEF Placed, Undone
<1>5. \A d \in Capability : waiting'[d] = IF d = c THEN None ELSE waiting[d]
  BY <1>1 DEF Shape
<1>6. RouteInv' /\ active' = active
  BY <1>1, RouteSame
<1>7. CASE UNCHANGED <<fibers, current>>
  <2>1. States' = States
    BY <1>7 DEF States, StatesOf
  <2>2. Shape'
    BY <1>1, <1>7 DEF Shape
  <2>3. FibersGood' /\ Waiting'
    BY <1>5, <1>7 DEF FibersGood, Waiting
  <2>4. Placed' /\ Ending' /\ Forced'
    BY <1>1, <1>4, <1>5, <1>6, <1>7, <2>1 DEF Placed, Ending, Forced, InForce
  <2> QED BY <1>6, <2>2, <2>3, <2>4
<1>8. CASE ~stopped /\ waiting[c].next # None /\ Made(c, waiting[c].next)
  <2>1. waiting[c].next \in Setup(c)
    BY <1>3, <1>8
  <2>2. FibersGood'
    BY <1>8, <2>1, MadeStates
  <2>3. PICK n \in Nat \ {0} : /\ States[c][n] = "gone"
                               /\ States' = [States EXCEPT ![c][n] = "pending"]
                               /\ current' = [current EXCEPT ![c] = n]
    BY <1>8, <2>1, MadeStates
  <2>4. phase = "up"
    BY <1>8 DEF stopped
  <2>5. Shape'
    BY <1>1, <2>3 DEF Shape
  <2>6. Waiting'
    BY <1>5, <2>3 DEF Waiting, Shape
  <2>7. Placed'
    BY <1>1, <1>2, <1>4, <1>5, <2>3, <2>4 DEF Placed, Shape
  <2>8. Ending' /\ Forced'
    BY <1>1, <1>2, <1>6, <2>3, <2>4, LifecycleAssumption DEF Ending, Forced, InForce
  <2> QED BY <1>6, <2>2, <2>5, <2>6, <2>7, <2>8
<1> QED BY <1>7, <1>8 DEF Continue

LEMMA UpdateStep ==
  ASSUME IInv, NEW s \in [Capability -> UNION {Setup(c) : c \in Capability} \cup {None}],
         \A c \in Capability : s[c] \in Setup(c) \cup {None}, Update(s)
  PROVE  IInv'
<1> USE DEF IInv
<1>1. /\ events' = events + 1 /\ events < MaxEvents /\ settings' = s
      /\ tail' = [c \in Capability |-> tail[c] + 1]
      /\ logged' = [c \in Capability |-> FALSE]
      /\ UNCHANGED <<waiting, fibers, current, service, phase, routeVars>>
  BY DEF Update, Event, Scheduled
<1>2. Shape'
  BY <1>1, LifecycleAssumption DEF Shape
<1>3. States' = States
  BY <1>1 DEF States, StatesOf
<1>4. RouteInv' /\ active' = active
  BY <1>1, RouteSame
<1>5. FibersGood' /\ Waiting'
  BY <1>1 DEF FibersGood, Waiting
<1>6. Placed' /\ Ending' /\ Forced'
  BY <1>1, <1>3, <1>4 DEF Placed, Ending, Forced, InForce
<1> QED BY <1>2, <1>4, <1>5, <1>6

LEMMA ServiceGoneStep ==
  ASSUME IInv, NEW c \in Capability, ServiceGone(c) PROVE IInv'
<1> USE DEF IInv
<1>1. /\ Event /\ Undone(c) = {}
      /\ service' = [service EXCEPT ![c] = FALSE]
      /\ UNCHANGED <<settings, tail, waiting, current, logged, phase>>
  BY DEF ServiceGone
<1> DEFINE g == [n \in DOMAIN fibers[c] |->
                   IF fibers[c][n].state = "active" THEN Fiber(fibers[c][n].want) ELSE fibers[c][n]]
<1>2. fibers' = [fibers EXCEPT ![c] = g] /\ Good(fibers[c], c)
  BY DEF ServiceGone, FibersGood
<1>3. /\ Good(g, c)
      /\ StatesOf(g) = [n \in Nat |-> IF States[c][n] = "active" THEN "pending" ELSE States[c][n]]
  <2>1. \A n \in DOMAIN fibers[c] :
          /\ g[n] \in [state : FiberState, want : Setup(c)]
          /\ g[n].state = IF fibers[c][n].state = "active" THEN "pending" ELSE fibers[c][n].state
    BY <1>2 DEF Good, Fiber, FiberState
  <2>2. DOMAIN g = DOMAIN fibers[c] /\ g = [n \in DOMAIN g |-> g[n]]
    OBVIOUS
  <2>3. Good(g, c)
    BY <1>2, <2>1, <2>2 DEF Good
  <2> HIDE DEF g
  <2>4. StatesOf(g) = [n \in Nat |-> IF States[c][n] = "active" THEN "pending" ELSE States[c][n]]
    <3>1. \A n \in Nat : States[c][n] = IF n \in DOMAIN fibers[c] THEN fibers[c][n].state ELSE "gone"
      BY StateFacts DEF StatesOf
    <3>2. \A n \in Nat : (IF n \in DOMAIN g THEN g[n].state ELSE "gone")
                         = IF States[c][n] = "active" THEN "pending" ELSE States[c][n]
      BY <2>1, <2>2, <3>1
    <3> QED BY <3>2 DEF StatesOf
  <2> QED BY <2>3, <2>4
<1> HIDE DEF g
<1>4. FibersGood' /\ States' = [States EXCEPT ![c] = StatesOf(g)]
  BY <1>2, <1>3, OneChanges
<1>5. States \in [Capability -> [Nat -> FiberState \cup {"gone"}]]
  BY StateFacts
<1>6. \A m \in Nat : /\ States[c][m] # "closing"
                     /\ States'[c][m] = IF States[c][m] = "active" THEN "pending" ELSE States[c][m]
  BY <1>1, <1>3, <1>4, <1>5, StateFacts DEF Undone
<1>7. \A d \in Capability : d # c => States'[d] = States[d] /\ service'[d] = service[d]
  BY <1>1, <1>4, <1>5 DEF Shape
<1>8. Shape'
  <2>1. events' \in events..MaxEvents
    BY <1>1, EventNat
  <2> QED BY <1>1, <2>1, LifecycleAssumption DEF Shape
<1>9. Waiting'
  BY <1>1 DEF Waiting
<1>10. Placed'
  <2>1. SUFFICES ASSUME NEW d \in Capability
                 PROVE  /\ current[d] # 0 => States'[d][current[d]] # "gone"
                        /\ \A m \in Nat :
                             /\ States'[d][m] # "gone" => m # 0
                             /\ States'[d][m] \in {"pending", "active"} => m = current[d]
                             /\ States'[d][m] = "closing" =>
                                  /\ current[d] = 0
                                  /\ IF waiting[d] = None THEN phase = "fibers" ELSE waiting[d].fiber = m
                             /\ \A l \in Nat : States'[d][m] = "closing" /\ States'[d][l] = "closing" => l = m
    BY <1>1 DEF Placed
  <2>2. current[d] \in Nat
    BY DEF Shape
  <2>3. CASE d = c
    BY <1>6, <2>2, <2>3 DEF Placed
  <2>4. CASE d # c
    BY <1>7, <2>4 DEF Placed
  <2> QED BY <2>3, <2>4
<1>11. Ending'
  BY <1>1, <1>6, <1>7 DEF Ending
<1>12. ~InForce(c)' /\ \A d \in Capability : d # c => (InForce(d)' <=> InForce(d))
  BY <1>6, <1>7 DEF InForce
<1>13. Forced' /\ RouteInv'
  <2>1. CASE c = Search
    <3>1. active <=> \E n \in DOMAIN fibers[c] : fibers[c][n].state = "active"
      BY <1>6, <2>1, StateFacts DEF Forced, InForce
    <3>2. RouteInv' /\ ~active'
      <4>1. CASE active
        BY <2>1, <3>1, <4>1, GiveBackKeeps DEF ServiceGone
      <4>2. CASE ~active
        BY <2>1, <3>1, <4>2, RouteSame DEF ServiceGone
      <4> QED BY <4>1, <4>2
    <3>3. Forced'
      BY <1>7, <1>12, <2>1, <3>2 DEF Forced, InForce
    <3> QED BY <3>2, <3>3
  <2>2. CASE c # Search
    <3>1. RouteInv' /\ active' = active
      BY <2>2, RouteSame DEF ServiceGone
    <3>2. Forced'
      BY <1>7, <1>12, <2>2, <3>1, LifecycleAssumption DEF Forced, InForce
    <3> QED BY <3>1, <3>2
  <2> QED BY <2>1, <2>2
<1> QED BY <1>4, <1>8, <1>9, <1>10, <1>11, <1>13

LEMMA ServiceBackStep ==
  ASSUME IInv, NEW c \in Capability, ServiceBack(c) PROVE IInv'
<1> USE DEF IInv
<1>1. /\ ~service[c] /\ service' = [service EXCEPT ![c] = TRUE]
      /\ UNCHANGED <<settings, tail, waiting, fibers, current, logged, phase, events>>
  BY DEF ServiceBack
<1>2. States' = States
  BY <1>1 DEF States, StatesOf
<1>3. Shape' /\ FibersGood' /\ Waiting'
  BY <1>1 DEF Shape, FibersGood, Waiting
<1>4. Placed' /\ Ending'
  BY <1>1, <1>2 DEF Placed, Ending
<1>5. RouteInv' /\ active' = active
  <2>1. CASE c = Search
    BY <1>1, <2>1, NewRuntimeKeeps DEF ServiceBack, Forced
  <2>2. CASE c # Search
    BY <2>2, RouteSame DEF ServiceBack
  <2> QED BY <2>1, <2>2
<1>6. Forced'
  BY <1>1, <1>2, <1>5 DEF Forced, InForce, Shape
<1> QED BY <1>3, <1>4, <1>5, <1>6

\* Others change the route, and nothing else.
LEMMA OthersStep ==
  ASSUME IInv, NEW r \in Route \cup {Ours}, Selects(r) \/ Replaces(r) PROVE IInv'
<1> USE DEF IInv
<1>1. /\ Event /\ UNCHANGED <<settings, caps, phase>> /\ (Choose(r) \/ ReplaceConfig(r))
  BY DEF Selects, Replaces
<1>2. UNCHANGED <<settings, tail, waiting, fibers, current, service, logged, phase>>
  BY <1>1 DEF caps
<1>3. events' \in events..MaxEvents
  BY <1>1, EventNat
<1>4. States' = States
  BY <1>2 DEF States, StatesOf
<1>5. Shape' /\ FibersGood' /\ Waiting'
  BY <1>2, <1>3, ShapeSame DEF FibersGood, Waiting
<1>6. Placed' /\ Ending'
  BY <1>2, <1>4 DEF Placed, Ending
<1>7. RouteInv' /\ active' = active
  BY <1>1, OthersKeep
<1>8. Forced'
  BY <1>2, <1>4, <1>7 DEF Forced, InForce
<1> QED BY <1>5, <1>6, <1>7, <1>8

\* The disposal of the plugin goes on, and its capabilities stay as they are.
LEMMA PhaseKeeps ==
  ASSUME IInv, phase' \in Phase, UNCHANGED <<settings, caps, events, routeVars>>, Ending', Placed'
  PROVE  IInv'
<1> USE DEF IInv
<1>1. UNCHANGED <<settings, tail, waiting, fibers, current, service, logged, events>>
  BY DEF caps
<1>2. States' = States
  BY <1>1 DEF States, StatesOf
<1>3. Shape' /\ FibersGood' /\ Waiting'
  BY <1>1 DEF Shape, FibersGood, Waiting
<1>4. RouteInv' /\ active' = active
  BY RouteSame
<1>5. Forced'
  BY <1>1, <1>2, <1>4 DEF Forced, InForce
<1> QED BY <1>3, <1>4, <1>5

LEMMA PhaseStep ==
  ASSUME IInv, Stop \/ QuotaDisposed \/ FibersDisposed \/ ProxyDisposed PROVE IInv'
<1>1. /\ UNCHANGED <<settings, caps, events, routeVars>>
      /\ UNCHANGED <<tail, waiting, fibers, current>>
  BY DEF Stop, QuotaDisposed, FibersDisposed, ProxyDisposed, caps
<1>2. States' = States
  BY <1>1 DEF States, StatesOf
<1>3. CASE Stop \/ QuotaDisposed
  <2>1. phase \notin {"fibers", "proxy", "done"} /\ phase' \in {"quota", "tails"}
    BY <1>3 DEF Stop, QuotaDisposed
  <2>2. Ending' /\ Placed'
    BY <1>1, <1>2, <2>1 DEF IInv, Ending, Placed
  <2> QED BY <1>1, <2>1, <2>2, PhaseKeeps DEF Phase
<1>4. CASE FibersDisposed
  <2>1. phase = "fibers" /\ phase' = "proxy" /\ \A c \in Capability : Undone(c) = {}
    BY <1>4 DEF FibersDisposed
  <2>2. \A c \in Capability : \A n \in Nat : States[c][n] # "closing"
    BY <2>1, StateFacts DEF IInv, Undone
  <2>3. Ending' /\ Placed'
    BY <1>1, <1>2, <2>1, <2>2 DEF IInv, Ending, Placed
  <2> QED BY <1>1, <2>1, <2>3, PhaseKeeps DEF Phase
<1>5. CASE ProxyDisposed
  <2>1. phase = "proxy" /\ phase' = "done"
    BY <1>5 DEF ProxyDisposed
  <2>2. Ending' /\ Placed'
    BY <1>1, <1>2, <2>1 DEF IInv, Ending, Placed
  <2> QED BY <1>1, <2>1, <2>2, PhaseKeeps DEF Phase
<1> QED BY <1>3, <1>4, <1>5

LEMMA CollectStep ==
  ASSUME IInv, Collect PROVE IInv'
<1> USE DEF IInv
<1>1. /\ phase = "tails" /\ phase' = "fibers"
      /\ \A c \in Capability : waiting[c] = None
      /\ current' = [c \in Capability |-> 0]
      /\ fibers' = [c \in Capability |-> IF current[c] = 0 THEN fibers[c] ELSE Closing(fibers[c], current[c])]
      /\ UNCHANGED <<settings, tail, waiting, service, logged, events, routeVars>>
  BY DEF Collect, Idle
<1>2. \A c \in Capability : current[c] # 0 => current[c] \in DOMAIN fibers[c]
  BY StateFacts DEF Placed, Shape
<1>3. \A c \in Capability :
        /\ Good(fibers'[c], c)
        /\ StatesOf(fibers'[c]) = IF current[c] = 0 THEN States[c]
                                  ELSE [States[c] EXCEPT ![current[c]] = Ends(@)]
  <2>1. SUFFICES ASSUME NEW c \in Capability
                 PROVE  /\ Good(fibers'[c], c)
                        /\ StatesOf(fibers'[c]) = IF current[c] = 0 THEN States[c]
                                                  ELSE [States[c] EXCEPT ![current[c]] = Ends(@)]
    OBVIOUS
  <2>2. Good(fibers[c], c) /\ States[c] = StatesOf(fibers[c])
    BY StateFacts DEF FibersGood
  <2>3. CASE current[c] = 0
    BY <1>1, <2>2, <2>3
  <2>4. CASE current[c] # 0
    <3>1. fibers'[c] = Closing(fibers[c], current[c]) /\ current[c] \in DOMAIN fibers[c]
      BY <1>1, <1>2, <2>4
    <3>2. States[c][current[c]] = fibers[c][current[c]].state
      BY <3>1, StateFacts
    <3> QED BY <2>2, <2>4, <3>1, <3>2, ClosingGood
  <2> QED BY <2>3, <2>4
<1>4. FibersGood' /\ States' = [c \in Capability |-> StatesOf(fibers'[c])]
  <2>1. fibers' = [c \in Capability |-> fibers'[c]]
    BY <1>1
  <2>2. FibersGood'
    BY <1>3, <2>1 DEF FibersGood
  <2>3. States' = [c \in Capability |-> StatesOf(fibers'[c])]
    BY DEF States, StatesOf
  <2> QED BY <2>2, <2>3
<1>5. States \in [Capability -> [Nat -> FiberState \cup {"gone"}]]
  BY StateFacts, LifecycleAssumption
<1>6. \A c \in Capability : \A m \in Nat :
        /\ States'[c][m] \notin {"pending", "active"}
        /\ States'[c][m] = "closing" <=> m = current[c] /\ States[c][m] = "active"
        /\ States'[c][m] # "gone" => States[c][m] # "gone"
  <2>1. SUFFICES ASSUME NEW c \in Capability, NEW m \in Nat
                 PROVE  /\ States'[c][m] \notin {"pending", "active"}
                        /\ States'[c][m] = "closing" <=> m = current[c] /\ States[c][m] = "active"
                        /\ States'[c][m] # "gone" => States[c][m] # "gone"
    OBVIOUS
  <2>2. /\ States[c][m] # "gone" => m # 0
        /\ States[c][m] \in {"pending", "active"} => m = current[c]
        /\ States[c][m] # "closing"
    BY <1>1 DEF Placed
  <2>3. States'[c][m] = IF m = current[c] /\ m # 0 THEN Ends(States[c][m]) ELSE States[c][m]
    <3>1. States'[c] = StatesOf(fibers'[c]) /\ States[c] \in [Nat -> FiberState \cup {"gone"}]
      BY <1>4, <1>5
    <3>2. CASE current[c] = 0
      <4>1. States'[c] = States[c]
        BY <1>3, <3>1, <3>2
      <4> QED BY <3>2, <4>1
    <3>3. CASE current[c] # 0
      <4>1. States'[c] = [States[c] EXCEPT ![current[c]] = Ends(@)]
        BY <1>3, <3>1, <3>3
      <4> QED BY <2>2, <3>1, <3>3, <4>1
    <3> QED BY <3>2, <3>3
  <2> QED BY <2>2, <2>3 DEF Ends
<1>7. Shape'
  BY <1>1 DEF Shape, Phase
<1>8. Waiting' /\ Ending'
  BY <1>1 DEF Waiting, Ending
<1>9. Placed'
  BY <1>1, <1>6 DEF Placed
<1>10. RouteInv' /\ active' = active
  BY <1>1, RouteSame
<1>11. \A c \in Capability : InForce(c)' <=> InForce(c)
  <2>1. SUFFICES ASSUME NEW c \in Capability PROVE InForce(c)' <=> InForce(c)
    OBVIOUS
  <2>2. \A m \in Nat : States[c][m] \in {"active", "closing"} <=> States'[c][m] \in {"active", "closing"}
    BY <1>1, <1>6 DEF Placed
  <2> QED BY <2>2 DEF InForce
<1>12. Forced'
  BY <1>1, <1>10, <1>11, LifecycleAssumption DEF Forced, InForce
<1> QED BY <1>4, <1>7, <1>8, <1>9, <1>10, <1>12

-----------------------------------------------------------------------------
\* Theorems.

LEMMA StepInv == IInv /\ [Next]_vars => IInv'
<1> SUFFICES ASSUME IInv, [Next]_vars PROVE IInv'
  OBVIOUS
<1>1. ASSUME NEW c \in Capability, Reconcile(c) \/ Continue(c) PROVE IInv'
  BY <1>1, ReconcileStep, ContinueStep
<1>2. ASSUME NEW c \in Capability, NEW n \in DOMAIN fibers[c],
             Starts(c, n) \/ Throws(c, n) \/ FailureSeen(c, n) \/ Closed(c, n) \/ ClosingFails(c, n)
      PROVE  IInv'
  BY <1>2, StartsStep, ThrowsStep, FailureSeenStep, ClosedStep, ClosingFailsStep
<1>3. CASE Stop \/ QuotaDisposed \/ FibersDisposed \/ ProxyDisposed
  BY <1>3, PhaseStep
<1>4. CASE Collect
  BY <1>4, CollectStep
<1>5. ASSUME NEW s \in [Capability -> UNION {Setup(c) : c \in Capability} \cup {None}],
             \A c \in Capability : s[c] \in Setup(c) \cup {None}, Update(s)
      PROVE  IInv'
  BY <1>5, UpdateStep
<1>6. ASSUME NEW c \in Capability, ServiceGone(c) \/ ServiceBack(c) PROVE IInv'
  BY <1>6, ServiceGoneStep, ServiceBackStep
<1>7. ASSUME NEW r \in Route \cup {Ours}, Selects(r) \/ Replaces(r) PROVE IInv'
  BY <1>7, OthersStep
<1>8. CASE UNCHANGED vars
  <2>1. /\ UNCHANGED <<settings, caps, phase, events, routeVars>>
        /\ UNCHANGED <<tail, waiting, fibers, current>>
    BY <1>8 DEF vars, caps
  <2>2. States' = States
    BY <2>1 DEF States, StatesOf
  <2>3. Ending' /\ Placed' /\ phase' \in Phase
    BY <2>1, <2>2 DEF IInv, Ending, Placed, Shape
  <2> QED BY <2>1, <2>3, PhaseKeeps
<1>9. CASE Proceed
  BY <1>1, <1>2, <1>3, <1>4, <1>9 DEF Proceed
<1>10. CASE Environment
  BY <1>2, <1>3, <1>5, <1>6, <1>7, <1>10 DEF Environment
<1> QED BY <1>8, <1>9, <1>10 DEF Next

\* Where fibers are and who waits for them, whatever the settings, the services
\* and the others' choices do.
THEOREM Invariance == Spec => []IInv
BY InitInv, StepInv, PTL DEF Spec

\* The types.
THEOREM TypeCorrect == Spec => []TypeOK
<1>1. ASSUME IInv PROVE TypeOK
  <2>1. RouteTypeOK /\ phase \in Phase
    BY <1>1 DEF IInv, RouteInv, Shape
  <2>2. SUFFICES ASSUME NEW c \in Capability
        PROVE  /\ settings[c] \in Setup(c) \cup {None}
               /\ tail[c] \in 0..(MaxEvents + 1)
               /\ \A n \in DOMAIN fibers[c] : fibers[c][n].state \in FiberState
                                              /\ fibers[c][n].want \in Setup(c)
               /\ DOMAIN fibers[c] \subseteq Nat \ {0}
               /\ current[c] \in {0} \cup DOMAIN fibers[c]
               /\ waiting[c] # None => /\ waiting[c].next \in Setup(c) \cup {None}
                                       /\ waiting[c].fiber \in Nat \ {0}
               /\ service[c] \in BOOLEAN /\ logged[c] \in BOOLEAN
    BY <2>1 DEF TypeOK
  <2>3. tail[c] \in 0..(MaxEvents + 1)
    BY <1>1, LifecycleAssumption DEF IInv, Shape
  <2>4. /\ \A n \in DOMAIN fibers[c] : fibers[c][n].state \in FiberState
                                       /\ fibers[c][n].want \in Setup(c)
        /\ DOMAIN fibers[c] \subseteq Nat \ {0}
    BY <1>1 DEF IInv, FibersGood, Good
  <2>5. current[c] \in {0} \cup DOMAIN fibers[c]
    BY <1>1, StateFacts DEF IInv, Placed, Shape
  <2> QED BY <1>1, <2>3, <2>4, <2>5 DEF IInv, Shape, Waiting
<1> QED BY <1>1, Invariance, PTL

\* A capability never has two fibers at a time.
THEOREM NeverTwo == Spec => []OneAtATime
<1>1. ASSUME IInv, NEW c \in Capability PROVE Cardinality(Alive(c)) <= 1
  <2>1. \A m, n \in Alive(c) : m = n
    <3>1. SUFFICES ASSUME NEW m \in Alive(c), NEW n \in Alive(c) PROVE m = n
      OBVIOUS
    <3>2. /\ m \in Nat \ {0} /\ States[c][m] \in {"pending", "active", "closing"}
          /\ n \in Nat \ {0} /\ States[c][n] \in {"pending", "active", "closing"}
      BY <1>1, StateFacts DEF IInv, Alive
    <3> QED BY <1>1, <3>2 DEF IInv, Placed
  <2>2. CASE Alive(c) = {}
    BY <2>2, FS_EmptySet
  <2>3. CASE Alive(c) # {}
    <3>1. PICK n : n \in Alive(c)
      BY <2>3
    <3>2. Alive(c) = {n}
      BY <2>1, <3>1
    <3> QED BY <3>2, FS_Singleton
  <2> QED BY <2>2, <2>3
<1>2. IInv => OneAtATime
  BY <1>1 DEF OneAtATime
<1> QED BY <1>2, Invariance, PTL

\* Whoever selected a search provider last wins, at any time.
THEOREM LastChoiceKept == Spec => []LastChoiceWins
<1>1. ASSUME IInv PROVE LastChoiceWins
  <2>1. active <=> \E n \in DOMAIN fibers[Search] : fibers[Search][n].state \in {"active", "closing"}
    BY <1>1, StateFacts, LifecycleAssumption DEF IInv, Forced, InForce
  <2>2. /\ active /\ ~newer => Selected = Ours
        /\ ~active \/ newer => Selected = chosen \/ Indistinguishable
    BY <1>1 DEF IInv, RouteInv, RouteTypeOK, Selected, Indistinguishable
  <2> QED BY <2>1, <2>2 DEF LastChoiceWins
<1> QED BY <1>1, Invariance, PTL

\* Nothing that uses the proxy is left when it is disposed.
THEOREM NothingStays == Spec => []NothingLeft
<1>1. ASSUME IInv PROVE NothingLeft
  <2>1. SUFFICES ASSUME phase \in {"proxy", "done"}
                 PROVE  /\ \A c \in Capability : Alive(c) = {} /\ current[c] = 0 /\ waiting[c] = None
                        /\ Selected = chosen \/ Indistinguishable
    BY DEF NothingLeft
  <2>2. \A c \in Capability : current[c] = 0 /\ waiting[c] = None /\ \A n \in Nat : States[c][n] # "closing"
    BY <1>1, <2>1 DEF IInv, Ending
  <2>3. \A c \in Capability : \A n \in Nat : States[c][n] \notin {"pending", "active", "closing"}
    BY <1>1, <2>2 DEF IInv, Placed
  <2>4. \A c \in Capability : Alive(c) = {}
    BY <1>1, <2>3, StateFacts DEF IInv, Alive
  <2>5. ~active
    BY <1>1, <2>3, LifecycleAssumption DEF IInv, Forced, InForce
  <2>6. Selected = chosen \/ Indistinguishable
    BY <1>1, <2>5 DEF IInv, RouteInv, RouteTypeOK, Selected, Indistinguishable
  <2> QED BY <2>2, <2>4, <2>6
<1> QED BY <1>1, Invariance, PTL
====
