---- MODULE RequestProofs ----
(***************************************************************************)
(* Theorems about what bounds one model request: BackendGovernor, for any  *)
(* number of attempts, lanes, scopes and slots, and Preflight, for any     *)
(* deadlines, routes and number of fetches.  The two specifications share  *)
(* nothing; each theorem is about the one it names.                        *)
(***************************************************************************)
EXTENDS BackendGovernor, Preflight, FiniteSetTheorems, TLAPS

(***************************************************************************)
(* BackendGovernor.                                                        *)
(***************************************************************************)

-----------------------------------------------------------------------------
\* What the three changes of the queue do to its members.

LEMMA TailQueue ==
  ASSUME NEW s \in Seq(Attempt), s # <<>>, Distinct(s)
  PROVE  /\ Tail(s) \in Seq(Attempt) /\ Distinct(Tail(s))
         /\ Head(s) \in Members(s)
         /\ Members(Tail(s)) = Members(s) \ {Head(s)}
<1>1. /\ Tail(s) \in Seq(Attempt) /\ Len(s) \in Nat \ {0} /\ Len(Tail(s)) = Len(s) - 1
      /\ Head(s) = s[1] /\ \A i \in 1..(Len(s) - 1) : Tail(s)[i] = s[i + 1]
  OBVIOUS
<1>2. Distinct(Tail(s))
  BY <1>1 DEF Distinct
<1>3. Members(Tail(s)) = Members(s) \ {Head(s)}
  <2>1. ASSUME NEW x \in Members(Tail(s)) PROVE x \in Members(s) \ {Head(s)}
    <3>1. PICK i \in 1..Len(Tail(s)) : x = Tail(s)[i]
      BY DEF Members
    <3>2. x = s[i + 1] /\ i + 1 \in 1..Len(s) /\ i + 1 # 1 /\ 1 \in 1..Len(s)
      BY <1>1, <3>1
    <3>3. x \in Members(s)
      BY <3>2 DEF Members
    <3>4. \A j, k \in 1..Len(s) : s[j] = s[k] => j = k
      BY DEF Distinct
    <3>5. s[i + 1] # s[1]
      BY <3>2, <3>4
    <3>6. x # Head(s)
      BY <1>1, <3>2, <3>5
    <3> QED BY <3>3, <3>6
  <2>2. ASSUME NEW x \in Members(s) \ {Head(s)} PROVE x \in Members(Tail(s))
    <3>1. PICK i \in 1..Len(s) : x = s[i]
      BY DEF Members
    <3>2. i # 1 /\ i - 1 \in 1..Len(Tail(s)) /\ Tail(s)[i - 1] = s[i]
      BY <1>1, <3>1
    <3> QED BY <3>1, <3>2 DEF Members
  <2> QED BY <2>1, <2>2
<1>4. Head(s) \in Members(s)
  BY <1>1 DEF Members
<1> QED BY <1>1, <1>2, <1>3, <1>4

LEMMA AppendQueue ==
  ASSUME NEW s \in Seq(Attempt), NEW a \in Attempt, Distinct(s), a \notin Members(s)
  PROVE  /\ Append(s, a) \in Seq(Attempt) /\ Distinct(Append(s, a))
         /\ Members(Append(s, a)) = Members(s) \cup {a}
<1>1. /\ Append(s, a) \in Seq(Attempt) /\ Len(s) \in Nat /\ Len(Append(s, a)) = Len(s) + 1
      /\ \A i \in 1..Len(s) : Append(s, a)[i] = s[i]
      /\ Append(s, a)[Len(s) + 1] = a
  OBVIOUS
<1>2. Distinct(Append(s, a))
  BY <1>1 DEF Distinct, Members
<1>3. ASSUME NEW x \in Members(Append(s, a)) PROVE x \in Members(s) \cup {a}
  BY <1>1 DEF Members
<1>4. ASSUME NEW x \in Members(s) \cup {a} PROVE x \in Members(Append(s, a))
  <2>1. CASE x = a
    BY <1>1, <2>1 DEF Members
  <2>2. CASE x \in Members(s)
    <3>1. PICK i \in 1..Len(s) : x = s[i]
      BY <2>2 DEF Members
    <3>2. i \in 1..Len(Append(s, a)) /\ x = Append(s, a)[i]
      BY <1>1, <3>1
    <3> QED BY <3>2 DEF Members
  <2> QED BY <2>1, <2>2
<1> QED BY <1>1, <1>2, <1>3, <1>4

LEMMA SpliceQueue ==
  ASSUME NEW s \in Seq(Attempt), NEW k \in 1..Len(s), Distinct(s)
  PROVE  /\ Splice(s, k) \in Seq(Attempt) /\ Distinct(Splice(s, k))
         /\ Members(Splice(s, k)) = Members(s) \ {s[k]}
<1> DEFINE t == Splice(s, k)
<1>1. /\ t \in Seq(Attempt) /\ Len(s) \in Nat \ {0} /\ Len(t) = Len(s) - 1
      /\ \A j \in 1..(Len(s) - 1) : t[j] = IF j < k THEN s[j] ELSE s[j + 1]
  BY DEF Splice
<1> HIDE DEF t
<1>2. Distinct(t)
  BY <1>1 DEF Distinct
<1>3. ASSUME NEW x \in Members(t) PROVE x \in Members(s) \ {s[k]}
  <2>1. PICK j \in 1..Len(t) : x = t[j]
    BY DEF Members
  <2>2. PICK i \in 1..Len(s) : i # k /\ x = s[i]
    BY <1>1, <2>1
  <2> QED BY <2>2 DEF Members, Distinct
<1>4. ASSUME NEW x \in Members(s) \ {s[k]} PROVE x \in Members(t)
  <2>1. PICK i \in 1..Len(s) : i # k /\ x = s[i]
    BY DEF Members
  <2>2. CASE i < k
    <3>1. i \in 1..Len(t) /\ t[i] = x
      BY <1>1, <2>1, <2>2
    <3> QED BY <3>1 DEF Members
  <2>3. CASE i > k
    <3>1. i - 1 \in 1..Len(t) /\ t[i - 1] = x
      BY <1>1, <2>1, <2>3
    <3> QED BY <3>1 DEF Members
  <2> QED BY <2>1, <2>2, <2>3
<1> QED BY <1>1, <1>2, <1>3, <1>4 DEF t

-----------------------------------------------------------------------------
\* What one attempt's move does to the number of slot holders.
LEMMA HoldersCount ==
  ASSUME TypeOK, NEW a \in Attempt, NEW to \in Stage, pc' = [pc EXCEPT ![a] = to]
  PROVE  /\ Cardinality(Holders) \in Nat
         /\ pc[a] \in Holding /\ to \in Holding => Cardinality(Holders)' = Cardinality(Holders)
         /\ pc[a] \notin Holding /\ to \notin Holding
              => Cardinality(Holders)' = Cardinality(Holders)
         /\ pc[a] \notin Holding /\ to \in Holding
              => Cardinality(Holders)' = Cardinality(Holders) + 1
         /\ pc[a] \in Holding /\ to \notin Holding
              => Cardinality(Holders) > 0 /\ Cardinality(Holders)' = Cardinality(Holders) - 1
<1>1. IsFiniteSet(Holders)
  BY GovernorAssumption, FS_Subset DEF Holders
<1>2. /\ pc'[a] = to /\ \A b \in Attempt \ {a} : pc'[b] = pc[b]
  BY DEF TypeOK
<1>3. Cardinality(Holders) \in Nat
  BY <1>1, FS_CardinalityType
<1>4. CASE (pc[a] \in Holding) <=> (to \in Holding)
  <2>1. Holders' = Holders
    BY <1>2, <1>4 DEF Holders
  <2> QED BY <1>3, <1>4, <2>1
<1>5. CASE pc[a] \notin Holding /\ to \in Holding
  <2>1. Holders' = Holders \cup {a} /\ a \notin Holders
    BY <1>2, <1>5 DEF Holders
  <2> QED BY <1>1, <1>3, <1>5, <2>1, FS_AddElement
<1>6. CASE pc[a] \in Holding /\ to \notin Holding
  <2>1. Holders' = Holders \ {a} /\ a \in Holders
    BY <1>2, <1>6 DEF Holders
  <2>2. Cardinality(Holders \ {a}) = Cardinality(Holders) - 1
    BY <1>1, <2>1, FS_RemoveElement
  <2>3. Cardinality(Holders \ {a}) \in Nat
    BY <1>1, FS_RemoveElement, FS_CardinalityType
  <2> QED BY <1>3, <1>6, <2>1, <2>2, <2>3
<1> QED BY <1>4, <1>5, <1>6

\* A move keeps the counter exact when it counts what it does.
LEMMA CountKept ==
  ASSUME TypeOK, SlotsAccounted, NEW a \in Attempt, NEW to \in Stage,
         pc' = [pc EXCEPT ![a] = to],
         \/ pc[a] \in Holding /\ to \in Holding /\ active' = active
         \/ pc[a] \notin Holding /\ to \notin Holding /\ active' = active
         \/ pc[a] \notin Holding /\ to \in Holding /\ active < MaxConcurrent /\ active' = active + 1
         \/ pc[a] \in Holding /\ to \notin Holding /\ active' = active - 1
  PROVE  SlotsAccounted' /\ active' \in 0..MaxConcurrent
<1> DEFINE n == Cardinality(Holders)
           m == Cardinality(Holders)'
           was == pc[a] \in Holding
           is == to \in Holding
<1>1. /\ n \in Nat
      /\ was /\ is => m = n
      /\ ~was /\ ~is => m = n
      /\ ~was /\ is => m = n + 1
      /\ was /\ ~is => n > 0 /\ m = n - 1
  BY HoldersCount
<1>2. \/ was /\ is /\ active' = active
      \/ ~was /\ ~is /\ active' = active
      \/ ~was /\ is /\ active < MaxConcurrent /\ active' = active + 1
      \/ was /\ ~is /\ active' = active - 1
  OBVIOUS
<1>3. active = n /\ active <= MaxConcurrent /\ MaxConcurrent \in Nat
  BY GovernorAssumption DEF SlotsAccounted
<1>4. SlotsAccounted' <=> active' = m /\ active' <= MaxConcurrent
  BY DEF SlotsAccounted
<1> HIDE DEF n, m, was, is
<1>5. active' = m /\ active' <= MaxConcurrent /\ active' \in 0..MaxConcurrent
  BY <1>1, <1>2, <1>3
<1> QED BY <1>4, <1>5

-----------------------------------------------------------------------------
\* A lane's deadline is never earlier than what any of its responses asked for.
NoneForgotten == \A l \in Lane : \A n \in asked[l] : n <= cooldown[l]

\* The inductive invariant is the conjunction of the safety properties: the
\* counter needs the queue to be exact (drain must not grant a slot to an
\* attempt that is elsewhere), the full queue needs the counter.
GInv == TypeOK /\ SlotsAccounted /\ QueueExact /\ NoIdleSlot /\ DeadHoldNothing /\ NoneForgotten

\* A step that leaves the lanes alone forgets nothing.
LEMMA SameLanes == NoneForgotten /\ UNCHANGED lanes => NoneForgotten'
BY DEF NoneForgotten, lanes

\* Most steps move one attempt that is not in the queue: within the holders of
\* a slot, outside them, into them when a slot is free, or out with a release.
LEMMA MoveOne ==
  ASSUME GInv, NEW a \in Attempt, NEW from, NEW to \in Stage,
         from # "queued", to # "queued", Move(a, from, to),
         UNCHANGED <<aborted, disposed>>, firing' \in {firing, firing \ {a}},
         cooldown' \in [Lane -> 0..MaxDelay], asked' \in [Lane -> SUBSET (1..MaxDelay)],
         NoneForgotten',
         \/ (from \in Holding <=> to \in Holding) /\ Stay
         \/ /\ from \notin Holding /\ to \in Holding /\ active < MaxConcurrent
            /\ active' = active + 1 /\ UNCHANGED <<waiters, draining>>
         \/ from \in Holding /\ to \notin Holding /\ Release,
         Dead(a) => to \notin {"body", "cancelling"}
  PROVE  GInv'
<1> USE DEF Move, Stay, Release
<1> USE DEF GInv
<1>1. SlotsAccounted' /\ active' \in 0..MaxConcurrent
  BY CountKept
<1>2. TypeOK'
  BY <1>1 DEF TypeOK
<1>3. QueueExact'
  <2>1. {b \in Attempt : pc'[b] = "queued"} = {b \in Attempt : pc[b] = "queued"}
    BY DEF TypeOK
  <2> QED BY <2>1 DEF QueueExact, Members, Distinct
<1>4. NoIdleSlot'
  BY GovernorAssumption DEF NoIdleSlot, TypeOK, SlotsAccounted
<1>5. DeadHoldNothing'
  <2> SUFFICES ASSUME NEW b \in Attempt, Dead(b), b \notin firing'
               PROVE  pc'[b] \notin {"queued", "body", "cancelling"}
    BY DEF DeadHoldNothing, Dead
  <2>1. CASE b = a
    BY <2>1 DEF TypeOK
  <2>2. CASE b # a
    BY <2>2 DEF TypeOK, DeadHoldNothing
  <2> QED BY <2>1, <2>2
<1> QED BY <1>1, <1>2, <1>3, <1>4, <1>5

\* drain takes the oldest waiter off the queue.
LEMMA GrantKeeps == GInv /\ Grant => GInv'
<1> SUFFICES ASSUME GInv, Grant PROVE GInv'
  OBVIOUS
<1> USE DEF GInv
<1> DEFINE h == Head(waiters)
           to == IF Dead(h) THEN "done" ELSE "granted"
<1>1. /\ Distinct(waiters) /\ waiters \in Seq(Attempt) /\ waiters # <<>>
      /\ Members(waiters) = {b \in Attempt : pc[b] = "queued"}
  BY DEF Grant, MayGrant, TypeOK, QueueExact
<1>2. /\ Tail(waiters) \in Seq(Attempt) /\ Distinct(Tail(waiters))
      /\ h \in Attempt /\ pc[h] = "queued"
      /\ Members(Tail(waiters)) = Members(waiters) \ {h}
  BY <1>1, TailQueue
<1>3. /\ pc' = [pc EXCEPT ![h] = to] /\ to \in Stage /\ to # "queued"
      /\ to \notin {"body", "cancelling"}
      /\ waiters' = Tail(waiters) /\ draining /\ draining' = draining
      /\ UNCHANGED <<lanes, aborted, disposed, firing>>
      /\ active' = IF Dead(h) THEN active ELSE active + 1
      /\ active < MaxConcurrent
  BY DEF Grant, MayGrant, signals, Stage, Holding
<1>4. pc[h] \notin Holding /\ (to \in Holding <=> ~Dead(h))
  BY <1>2 DEF Holding
<1> HIDE DEF h, to
<1>5. SlotsAccounted' /\ active' \in 0..MaxConcurrent
  <2>1. \/ to \notin Holding /\ active' = active
        \/ to \in Holding /\ active' = active + 1
    BY <1>3, <1>4
  <2> QED BY <1>2, <1>3, <1>4, <2>1, CountKept
<1>6. TypeOK'
  BY <1>2, <1>3, <1>5 DEF TypeOK, lanes
<1>7. QueueExact'
  <2>1. {b \in Attempt : pc'[b] = "queued"} = {b \in Attempt : pc[b] = "queued"} \ {h}
    BY <1>2, <1>3 DEF TypeOK
  <2>2. Members(waiters)' = Members(Tail(waiters)) /\ Distinct(waiters)' = Distinct(Tail(waiters))
    BY <1>3 DEF Members, Distinct
  <2> QED BY <1>1, <1>2, <2>1, <2>2 DEF QueueExact
<1>8. NoIdleSlot'
  BY <1>3 DEF NoIdleSlot
<1>9. DeadHoldNothing'
  <2> SUFFICES ASSUME NEW b \in Attempt, Dead(b), b \notin firing
               PROVE  pc'[b] \notin {"queued", "body", "cancelling"}
    BY <1>3 DEF DeadHoldNothing, Dead
  <2> QED BY <1>2, <1>3 DEF TypeOK, DeadHoldNothing
<1> QED BY <1>3, <1>5, <1>6, <1>7, <1>8, <1>9, SameLanes

\* A new waiter joins at the end, when every slot is taken.
LEMMA EnqueueKeeps ==
  ASSUME GInv, NEW a \in Attempt, ~Busy, ~Dead(a), active >= MaxConcurrent,
         Move(a, "asking", "queued"), waiters' = Append(waiters, a),
         UNCHANGED <<active, draining, lanes, signals>>
  PROVE  GInv'
<1> USE DEF GInv, signals
<1>1. /\ Distinct(waiters) /\ waiters \in Seq(Attempt) /\ a \notin Members(waiters)
      /\ Members(waiters) = {b \in Attempt : pc[b] = "queued"}
      /\ pc[a] = "asking" /\ pc' = [pc EXCEPT ![a] = "queued"]
  BY DEF Move, TypeOK, QueueExact
<1>2. /\ waiters' \in Seq(Attempt) /\ Distinct(waiters')
      /\ Members(waiters') = Members(waiters) \cup {a}
  BY <1>1, AppendQueue
<1>3. SlotsAccounted' /\ active' \in 0..MaxConcurrent /\ active' = MaxConcurrent
  <2>1. "asking" \notin Holding /\ "queued" \notin Holding /\ "queued" \in Stage
    BY DEF Holding, Stage, Waiting
  <2>2. SlotsAccounted' /\ active' \in 0..MaxConcurrent
    BY <1>1, <2>1, CountKept
  <2> QED BY <2>2, GovernorAssumption
<1>4. TypeOK'
  BY <1>1, <1>2, <1>3 DEF TypeOK, lanes, Stage, Waiting
<1>5. QueueExact'
  <2>1. {b \in Attempt : pc'[b] = "queued"} = {b \in Attempt : pc[b] = "queued"} \cup {a}
    BY <1>1 DEF TypeOK
  <2>2. Members(waiters)' = Members(waiters') /\ Distinct(waiters)' = Distinct(waiters')
    BY DEF Members, Distinct
  <2> QED BY <1>1, <1>2, <2>1, <2>2 DEF QueueExact
<1>6. NoIdleSlot'
  BY <1>3 DEF NoIdleSlot
<1>7. DeadHoldNothing'
  BY <1>1 DEF DeadHoldNothing, Dead, TypeOK
<1> QED BY <1>3, <1>4, <1>5, <1>6, <1>7, SameLanes

\* An aborted waiter leaves the queue wherever it stands.
LEMMA DequeueKeeps ==
  ASSUME GInv, NEW a \in Attempt, NEW i \in 1..Len(waiters), waiters[i] = a,
         Move(a, "queued", "done"), waiters' = Splice(waiters, i),
         firing' = firing \ {a}, UNCHANGED <<active, draining, lanes, aborted, disposed>>
  PROVE  GInv'
<1> USE DEF GInv
<1>1. /\ Distinct(waiters) /\ waiters \in Seq(Attempt)
      /\ Members(waiters) = {b \in Attempt : pc[b] = "queued"}
      /\ pc[a] = "queued" /\ pc' = [pc EXCEPT ![a] = "done"]
  BY DEF Move, TypeOK, QueueExact
<1>2. /\ waiters' \in Seq(Attempt) /\ Distinct(waiters')
      /\ Members(waiters') = Members(waiters) \ {a}
  BY <1>1, SpliceQueue
<1>3. SlotsAccounted' /\ active' \in 0..MaxConcurrent
  <2>1. "done" \notin Holding /\ "queued" \notin Holding /\ "done" \in Stage
    BY DEF Holding, Stage, Waiting
  <2> QED BY <1>1, <2>1, CountKept
<1>4. TypeOK'
  BY <1>1, <1>2 DEF TypeOK, lanes, Stage
<1>5. QueueExact'
  <2>1. {b \in Attempt : pc'[b] = "queued"} = {b \in Attempt : pc[b] = "queued"} \ {a}
    BY <1>1 DEF TypeOK
  <2>2. Members(waiters)' = Members(waiters') /\ Distinct(waiters)' = Distinct(waiters')
    BY DEF Members, Distinct
  <2> QED BY <1>1, <1>2, <2>1, <2>2 DEF QueueExact
<1>6. waiters # <<>>
  BY <1>1
<1>7. NoIdleSlot'
  BY <1>6 DEF NoIdleSlot
<1>8. DeadHoldNothing'
  BY <1>1 DEF DeadHoldNothing, Dead, TypeOK
<1> QED BY <1>3, <1>4, <1>5, <1>7, <1>8, SameLanes

\* Steps that move no attempt and serve nobody.
LEMMA SameQueue ==
  ASSUME SlotsAccounted, QueueExact, UNCHANGED <<pc, active, waiters>>
  PROVE  SlotsAccounted' /\ QueueExact'
<1>1. Holders' = Holders /\ Members(waiters)' = Members(waiters)
      /\ Distinct(waiters)' = Distinct(waiters)
  BY DEF Holders, Members, Distinct
<1> QED BY <1>1 DEF SlotsAccounted, QueueExact

LEMMA InitGInv == Init => GInv
<1> SUFFICES ASSUME Init PROVE GInv
  OBVIOUS
<1>1. TypeOK
  <2>1. pc \in [Attempt -> Stage] /\ waiters \in Seq(Attempt)
    BY DEF Init, Stage
  <2>2. active \in 0..MaxConcurrent
    BY GovernorAssumption DEF Init
  <2>3. cooldown \in [Lane -> 0..MaxDelay]
    <3>1. 0 \in 0..MaxDelay
      BY GovernorAssumption
    <3> QED BY <3>1 DEF Init
  <2>4. asked \in [Lane -> SUBSET (1..MaxDelay)]
    BY DEF Init
  <2> QED BY <2>1, <2>2, <2>3, <2>4 DEF Init, TypeOK
<1>2. SlotsAccounted
  <2>1. Holders = {}
    BY DEF Init, Holders, Holding
  <2> QED BY <2>1, FS_EmptySet, GovernorAssumption DEF Init, SlotsAccounted
<1>3. QueueExact
  BY DEF Init, QueueExact, Members, Distinct
<1>4. NoIdleSlot /\ DeadHoldNothing
  BY DEF Init, NoIdleSlot, DeadHoldNothing
<1>5. NoneForgotten
  BY DEF Init, NoneForgotten
<1> QED BY <1>1, <1>2, <1>3, <1>4, <1>5 DEF GInv

LEMMA DrainedKeeps == GInv /\ Drained => GInv'
<1> SUFFICES ASSUME GInv, Drained PROVE GInv'
  OBVIOUS
<1> USE DEF GInv, Drained, signals
<1>1. SlotsAccounted' /\ QueueExact'
  BY SameQueue
<1>2. TypeOK'
  BY DEF TypeOK, lanes
<1>3. NoIdleSlot'
  BY GovernorAssumption DEF MayGrant, NoIdleSlot, TypeOK
<1>4. DeadHoldNothing'
  BY DEF DeadHoldNothing, Dead
<1> QED BY <1>1, <1>2, <1>3, <1>4, SameLanes

LEMMA AbortKeeps == ASSUME GInv, NEW s \in Scope, Abort(s) PROVE GInv'
<1> USE DEF GInv, Abort
<1>1. SlotsAccounted' /\ QueueExact'
  BY SameQueue
<1>2. TypeOK'
  BY DEF TypeOK, Listening, lanes
<1>3. NoIdleSlot'
  BY DEF NoIdleSlot
<1>4. DeadHoldNothing'
  BY DEF DeadHoldNothing, Dead, Busy, Listening
<1> QED BY <1>1, <1>2, <1>3, <1>4, SameLanes

LEMMA DisposeKeeps == GInv /\ Dispose => GInv'
<1> SUFFICES ASSUME GInv, Dispose PROVE GInv'
  OBVIOUS
<1> USE DEF GInv, Dispose
<1>1. SlotsAccounted' /\ QueueExact'
  BY SameQueue
<1>2. TypeOK'
  BY DEF TypeOK, Listening, lanes
<1>3. NoIdleSlot'
  BY DEF NoIdleSlot
<1>4. DeadHoldNothing'
  BY DEF DeadHoldNothing, Dead, Busy, Listening
<1> QED BY <1>1, <1>2, <1>3, <1>4, SameLanes

LEMMA TickKeeps == GInv /\ Tick => GInv'
<1> SUFFICES ASSUME GInv, Tick PROVE GInv'
  OBVIOUS
<1> USE DEF GInv, Tick, signals
<1>1. SlotsAccounted' /\ QueueExact'
  BY SameQueue
<1>2. TypeOK'
  <2>1. MaxDelay \in Nat /\ cooldown \in [Lane -> 0..MaxDelay]
    BY GovernorAssumption DEF TypeOK
  <2>2. \A l \in Lane : (IF cooldown[l] > 0 THEN cooldown[l] - 1 ELSE 0) \in 0..MaxDelay
    BY <2>1
  <2>3. cooldown' \in [Lane -> 0..MaxDelay]
    BY <2>2
  <2>4. asked' \in [Lane -> SUBSET (1..MaxDelay)]
    <3> SUFFICES ASSUME NEW l \in Lane, NEW n \in asked[l], n - 1 # 0
                 PROVE  n - 1 \in 1..MaxDelay
      OBVIOUS
    <3>1. n \in 1..MaxDelay
      BY DEF TypeOK
    <3> QED BY <2>1, <3>1
  <2> QED BY <2>3, <2>4 DEF TypeOK
<1>3. NoIdleSlot'
  BY DEF NoIdleSlot
<1>4. DeadHoldNothing'
  BY DEF DeadHoldNothing, Dead
<1>5. NoneForgotten'
  <2> SUFFICES ASSUME NEW l \in Lane, NEW n \in asked[l], n - 1 # 0
               PROVE  n - 1 <= cooldown'[l]
    BY DEF NoneForgotten, TypeOK
  <2>1. n \in 1..MaxDelay /\ MaxDelay \in Nat /\ cooldown[l] \in 0..MaxDelay /\ n <= cooldown[l]
    BY GovernorAssumption DEF NoneForgotten, TypeOK
  <2>2. cooldown'[l] = IF cooldown[l] > 0 THEN cooldown[l] - 1 ELSE 0
    OBVIOUS
  <2> QED BY <2>1, <2>2
<1> QED BY <1>1, <1>2, <1>3, <1>4, <1>5

\* One step per action of an attempt.
LEMMA StepKeeps == ASSUME GInv, NEW a \in Attempt, Step(a) PROVE GInv'
<1> USE DEF signals
<1>0. cooldown \in [Lane -> 0..MaxDelay] /\ asked \in [Lane -> SUBSET (1..MaxDelay)]
      /\ NoneForgotten /\ LaneOf[a] \in Lane
      /\ MaxDelay \in Nat /\ MaxConcurrent \in Nat /\ active \in Nat
  BY GovernorAssumption DEF GInv, TypeOK
<1>same. UNCHANGED lanes => NoneForgotten' /\ UNCHANGED <<cooldown, asked>>
  BY <1>0, SameLanes DEF lanes
<1> USE <1>0, <1>same DEF Stage, Waiting, Holding
<1>1. CASE Call(a)
  BY <1>1, MoveOne DEF Call
<1>2. CASE CooledDown(a)
  BY <1>2, MoveOne DEF CooledDown
<1>3. CASE Acquire(a)
  <2>1. CASE Dead(a) /\ Move(a, "asking", "done") /\ Stay
    BY <1>3, <2>1, MoveOne DEF Acquire
  <2>2. CASE /\ active < MaxConcurrent /\ Move(a, "asking", "granted")
             /\ active' = active + 1 /\ UNCHANGED <<waiters, draining>>
    BY <1>3, <2>2, MoveOne DEF Acquire
  <2>3. CASE /\ ~Dead(a) /\ active >= MaxConcurrent /\ Move(a, "asking", "queued")
             /\ waiters' = Append(waiters, a) /\ UNCHANGED <<active, draining>>
    BY <1>3, <2>3, EnqueueKeeps DEF Acquire
  <2> QED BY <1>3, <2>1, <2>2, <2>3 DEF Acquire
<1>4. CASE Admit(a)
  BY <1>4, MoveOne DEF Admit
<1>5. CASE Recheck(a)
  BY <1>5, MoveOne DEF Recheck
<1>6. CASE Send(a)
  BY <1>6, MoveOne DEF Send
<1>7. ASSUME NEW d \in 0..MaxDelay, Respond(a, d) PROVE GInv'
  <2>1. CASE UNCHANGED lanes
    BY <1>7, <2>1, MoveOne DEF Respond
  <2>2. CASE /\ cooldown' = [cooldown EXCEPT ![LaneOf[a]] = Later(LaneOf[a], d)]
             /\ asked' = [asked EXCEPT ![LaneOf[a]] = @ \cup ({d} \ {0})]
    <3>1. /\ Later(LaneOf[a], d) \in 0..MaxDelay /\ d <= Later(LaneOf[a], d)
          /\ cooldown[LaneOf[a]] <= Later(LaneOf[a], d)
      BY DEF Later
    <3>2. cooldown' \in [Lane -> 0..MaxDelay] /\ asked' \in [Lane -> SUBSET (1..MaxDelay)]
      BY <2>2, <3>1
    <3>3. NoneForgotten'
      <4> SUFFICES ASSUME NEW l \in Lane, NEW n \in asked'[l] PROVE n <= cooldown'[l]
        BY DEF NoneForgotten
      <4>1. CASE l = LaneOf[a]
        <5>1. cooldown'[l] = Later(LaneOf[a], d) /\ (n = d \/ n \in asked[l])
          BY <2>2, <4>1
        <5>2. CASE n = d
          BY <3>1, <5>1, <5>2
        <5>3. CASE n \in asked[l]
          <6>1. n <= cooldown[l] /\ n \in Nat /\ cooldown[l] \in Nat
            BY <4>1, <5>3 DEF NoneForgotten
          <6> QED BY <3>1, <4>1, <5>1, <6>1
        <5> QED BY <5>1, <5>2, <5>3
      <4>2. CASE l # LaneOf[a]
        BY <2>2, <4>2 DEF NoneForgotten
      <4> QED BY <4>1, <4>2
    <3> QED BY <1>7, <3>2, <3>3, MoveOne DEF Respond
  <2> QED BY <1>7, <2>1, <2>2 DEF Respond
<1>8. CASE FetchFails(a)
  BY <1>8, MoveOne DEF FetchFails
<1>9. CASE Wrap(a)
  BY <1>9, MoveOne DEF Wrap
<1>10. CASE Finish(a)
  BY <1>10, MoveOne DEF Finish
<1>11. CASE Cancel(a)
  <2>1. ~Dead(a)
    BY <1>11 DEF Cancel, Move, Busy, GInv, DeadHoldNothing
  <2> QED BY <1>11, <2>1, MoveOne DEF Cancel
<1>12. CASE Fire(a)
  <2>1. CASE Move(a, "cooling", "done") /\ Stay
    BY <1>12, <2>1, MoveOne DEF Fire
  <2>2. CASE /\ Move(a, "queued", "done")
             /\ \E i \in 1..Len(waiters) : waiters[i] = a /\ waiters' = Splice(waiters, i)
             /\ UNCHANGED <<active, draining>>
    BY <1>12, <2>2, DequeueKeeps DEF Fire
  <2>3. CASE (Move(a, "body", "done") \/ Move(a, "cancelling", "done")) /\ Release
    BY <1>12, <2>3, MoveOne DEF Fire
  <2>4. CASE pc[a] \notin {"cooling", "queued", "body", "cancelling"} /\ UNCHANGED pc /\ Stay
    <3>1. SlotsAccounted' /\ QueueExact'
      BY <2>4, SameQueue DEF GInv, Stay
    <3>2. TypeOK' /\ NoIdleSlot'
      BY <1>12, <2>4 DEF Fire, GInv, TypeOK, NoIdleSlot, Stay, lanes
    <3>3. DeadHoldNothing'
      BY <1>12, <2>4 DEF Fire, GInv, DeadHoldNothing, Dead, Stay
    <3>4. NoneForgotten'
      BY <1>12 DEF Fire
    <3> QED BY <3>1, <3>2, <3>3, <3>4 DEF GInv
  <2> QED BY <1>12, <2>1, <2>2, <2>3, <2>4 DEF Fire
<1> QED BY <1>1, <1>2, <1>3, <1>4, <1>5, <1>6, <1>7, <1>8, <1>9, <1>10, <1>11, <1>12
        DEF Step, Advance

LEMMA NextGInv == GInv /\ [Next]_vars => GInv'
<1> SUFFICES ASSUME GInv, [Next]_vars PROVE GInv'
  OBVIOUS
<1>1. CASE UNCHANGED vars
  <2>1. SlotsAccounted' /\ QueueExact'
    BY <1>1, SameQueue DEF GInv, vars
  <2>2. TypeOK' /\ NoIdleSlot' /\ DeadHoldNothing'
    BY <1>1 DEF GInv, vars, lanes, TypeOK, NoIdleSlot, DeadHoldNothing, Dead
  <2>3. NoneForgotten'
    BY <1>1, SameLanes DEF GInv, vars
  <2> QED BY <2>1, <2>2, <2>3 DEF GInv
<1> QED BY <1>1, GrantKeeps, DrainedKeeps, DisposeKeeps, TickKeeps, AbortKeeps, StepKeeps DEF Next

\* Every reachable state satisfies the inductive invariant.
THEOREM Invariance == Spec => []GInv
BY InitGInv, NextGInv, PTL DEF Spec

\* The variables keep their types; in particular no more than MaxConcurrent
\* slots are ever taken.
THEOREM TypeCorrect == Spec => []TypeOK
<1>1. GInv => TypeOK
  BY DEF GInv
<1> QED BY <1>1, Invariance, PTL

\* The slot counter of backend-request.ts counts the attempts that hold a slot
\* on every path, and stays within the limit.
THEOREM CounterExact == Spec => []SlotsAccounted
<1>1. GInv => SlotsAccounted
  BY DEF GInv
<1> QED BY <1>1, Invariance, PTL

\* The array of waiters holds the attempts that wait, each once: an abort finds
\* its own entry, and drain never serves an attempt that has moved on.
THEOREM QueueIsExact == Spec => []QueueExact
<1>1. GInv => QueueExact
  BY DEF GInv
<1> QED BY <1>1, Invariance, PTL

\* No wake-up is lost: outside a release nobody is queued while a slot is free.
THEOREM WorkConserving == Spec => []NoIdleSlot
<1>1. GInv => NoIdleSlot
  BY DEF GInv
<1> QED BY <1>1, Invariance, PTL

\* Once its listeners have run, an aborted attempt is in no queue and holds no
\* slot for a body that nobody reads.
THEOREM AbortReleases == Spec => []DeadHoldNothing
<1>1. GInv => DeadHoldNothing
  BY DEF GInv
<1> QED BY <1>1, Invariance, PTL

-----------------------------------------------------------------------------
\* Every Retry-After is waited out.  A lane's deadline covers all that its responses
\* asked for, also when a later one asks for less (NoneForgotten), and the last look
\* before the hooks is in the same synchronous stretch as their start.
THEOREM WaitsAreHonoured == Spec => RetryAfterHonoured
<1> DEFINE Honoured == \A a \in Attempt :
                         pc[a] # "hooks" /\ pc'[a] = "hooks" => asked[LaneOf[a]] = {}
<1>1. GInv /\ [Next]_vars => [Honoured]_vars
  <2> SUFFICES ASSUME GInv, Next, NEW b \in Attempt, pc[b] # "hooks", pc'[b] = "hooks"
               PROVE  asked[LaneOf[b]] = {}
    OBVIOUS
  <2> USE DEF GInv, TypeOK
  <2>1. ~(Grant \/ Drained \/ Dispose \/ Tick \/ \E s \in Scope : Abort(s))
    BY DEF Grant, Drained, Dispose, Tick, Abort
  <2>2. PICK a \in Attempt : Step(a)
    BY <2>1 DEF Next
  <2>3. a = b /\ Recheck(a)
    BY <2>2 DEF Step, Advance, Call, CooledDown, Acquire, Admit, Recheck, Send, Respond,
                FetchFails, Wrap, Finish, Cancel, Fire, Move
  <2>4. ~Cooling(b)
    BY <2>3 DEF Recheck, Move
  <2>5. /\ LaneOf[b] \in Lane /\ MaxDelay \in Nat
        /\ cooldown[LaneOf[b]] \in 0..MaxDelay /\ asked[LaneOf[b]] \subseteq 1..MaxDelay
    BY GovernorAssumption
  <2>6. ASSUME NEW n \in asked[LaneOf[b]] PROVE FALSE
    <3>1. n <= cooldown[LaneOf[b]] /\ n \in 1..MaxDelay
      BY <2>5 DEF NoneForgotten
    <3> QED BY <2>4, <2>5, <3>1 DEF Cooling
  <2> QED BY <2>6
<1> QED BY <1>1, Invariance, PTL DEF Spec, RetryAfterHonoured

\* Grants leave the queue from its head, and Acquire serves a newcomer only when
\* nobody waits: the counter is at its limit while somebody does.
THEOREM FirstComeFirstServed == Spec => NoOvertaking
<1> DEFINE Fair == \A a, b \in Attempt :
                     pc[b] \in {"asking", "queued"} /\ pc'[b] = "granted" /\ Ahead(a, b) => Dead(a)
<1>1. GInv /\ [Next]_vars => [Fair]_vars
  <2> SUFFICES ASSUME GInv, Next, NEW a \in Attempt, NEW b \in Attempt,
                      pc[b] \in {"asking", "queued"}, pc'[b] = "granted", Ahead(a, b)
               PROVE  Dead(a)
    OBVIOUS
  <2> USE DEF GInv
  <2>1. CASE Grant
    <3>1. waiters \in Seq(Attempt) /\ waiters # <<>> /\ Distinct(waiters)
      BY <2>1 DEF Grant, MayGrant, TypeOK, QueueExact
    <3>2. b = Head(waiters)
      BY <2>1 DEF Grant, TypeOK
    <3>3. Head(waiters) = waiters[1] /\ 1 \in 1..Len(waiters) /\ Len(waiters) \in Nat
      BY <3>1
    <3>4. b \in Members(waiters)
      BY <3>2, <3>3 DEF Members
    <3>5. pc[b] = "queued"
      BY <3>4 DEF QueueExact
    <3>6. PICK i, j \in 1..Len(waiters) : i < j /\ waiters[j] = b
      BY <3>5 DEF Ahead
    <3>7. j = 1
      BY <3>1, <3>2, <3>3, <3>6 DEF Distinct
    <3> QED BY <3>3, <3>6, <3>7
  <2>2. ~(Drained \/ Dispose \/ Tick \/ \E s \in Scope : Abort(s))
    BY DEF Drained, Dispose, Tick, Abort, TypeOK
  <2>3. CASE \E c \in Attempt : Step(c)
    <3>1. PICK c \in Attempt : Step(c)
      BY <2>3
    <3>2. c = b /\ Acquire(b)
      BY <3>1 DEF Step, Advance, Call, CooledDown, Acquire, Admit, Recheck, Send, Respond,
                  FetchFails, Wrap, Finish, Cancel, Fire, Move, TypeOK
    <3>3. active < MaxConcurrent /\ ~draining /\ pc[b] = "asking" /\ ~Dead(b)
      BY <3>2 DEF Acquire, Move, Busy, TypeOK
    <3>4. waiters = <<>>
      BY <3>3, GovernorAssumption DEF NoIdleSlot, Dead, TypeOK
    <3>5. Members(waiters) = {}
      BY <3>4 DEF Members
    <3> QED BY <3>3, <3>5 DEF Ahead
  <2> QED BY <2>1, <2>2, <2>3 DEF Next
<1> QED BY <1>1, Invariance, PTL DEF Spec, NoOvertaking

(***************************************************************************)
(* Preflight: one iterator and its deadlines.                              *)
(***************************************************************************)

\* Which deadline runs when: the idle one while a guarded read can still be
\* heard of, the total one while the preflight is active, which it is only
\* within a guarded read.
Running == /\ TimersOnlyWhileReading
           /\ Guarded /\ cause = "none" => idle # Off
           /\ budget # Off => phase = "active"
           /\ phase = "active" /\ cause = "none" => budget # Off
           /\ phase # "closed" /\ watched => Guarded
           /\ phase = "active" \/ awaited # {} => watched

\* A cancelled read has its turn of the event loop.
Cancelled == Guarded /\ cause = "caller" => turn

\* What is left of either deadline, and what the read has waited, add up.
Window == Guarded => /\ waited <= HostIdleTimeout
                     /\ phase # "active" /\ idle # Off => waited + idle <= Idle
                     /\ phase = "active" /\ budget # Off => waited + budget <= HostIdleTimeout

ReadInvariant == ReadTypeOK /\ Running /\ Cancelled /\ Window /\ TimeoutIsFinal

LEMMA ReadTypeStep == ReadTypeOK /\ [ReadNext]_readVars => ReadTypeOK'
<1> SUFFICES ASSUME ReadTypeOK, [ReadNext]_readVars PROVE ReadTypeOK'
  OBVIOUS
<1> USE PreflightAssumption DEF ReadTypeOK
<1>0. Off \in Int /\ Off \in Off..Idle /\ Off \in Off..Budget /\ Idle \in Off..Idle /\ 0 \in 0..MaxFetch
  BY DEF Off
<1>1. CASE UNCHANGED readVars
  BY <1>1 DEF readVars
<1>2. ASSUME NEW how \in {"done", "failed", "aborted", "timeout", "returned"}, Close(how) PROVE ReadTypeOK'
  BY <1>0, <1>2 DEF Close, EndPreflight, fetchVars
<1>3. CASE HandOver
  BY <1>0, <1>3 DEF HandOver, EndPreflight, fetchVars
<1>4. CASE Deliver \/ Expire \/ GiveUp \/ Return
  BY <1>2, <1>3, <1>4 DEF Deliver, Expire, GiveUp, Return, Failure
<1>5. CASE IdleFires
  BY <1>0, <1>5 DEF IdleFires, Expired, fetchVars
<1>6. CASE TotalFires
  BY <1>0, <1>6 DEF TotalFires, Expired, fetchVars
<1>7. CASE CancelRead
  BY <1>0, <1>7 DEF CancelRead, fetchVars, timerVars
<1>8. CASE Clock
  BY <1>8 DEF Clock, Pressing, Off, fetchVars
<1>9. CASE Pull
  <2>1. turn' \in BOOLEAN
    <3>1. turn' = (cause # "none") \/ turn' = turn
      BY <1>9 DEF Pull, Guard
    <3> QED
      BY <3>1
  <2>2. idle' \in Off..Idle /\ waited' \in Nat
    BY <1>0, <1>9 DEF Pull, Guard
  <2> QED
    BY <2>1, <2>2, <1>9 DEF Pull, fetchVars
<1>10. CASE Activate
  <2>1. turn' \in BOOLEAN /\ idle' \in Off..Idle /\ waited' \in Nat
    BY <1>0, <1>10 DEF Activate, Guard
  <2> QED
    BY <2>1, <1>10 DEF Activate, fetchVars
<1>11. CASE Reload
  BY <1>11 DEF Reload, timerVars
<1>12. CASE Heartbeat
  BY <1>0, <1>12 DEF Heartbeat, Renewed, fetchVars
<1>13. CASE StopFrames
  BY <1>0, <1>13 DEF StopFrames, fetchVars
<1>14. CASE \E what \in {"chunk", "eof", "failed"} : Produce(what)
  BY <1>14 DEF Produce, fetchVars, timerVars
<1>15. CASE Fetch
  BY <1>0, <1>15 DEF Fetch
<1>16. ASSUME NEW f \in 1..MaxFetch, Admitted(f) PROVE ReadTypeOK'
  BY <1>16 DEF Admitted, Renewed, Off
<1>17. ASSUME NEW f \in 1..MaxFetch, Passed(f) PROVE ReadTypeOK'
  BY <1>17 DEF Passed, timerVars
<1> QED
  BY <1>1, <1>4, <1>5, <1>6, <1>7, <1>8, <1>9, <1>10, <1>11, <1>12, <1>13, <1>14, <1>15, <1>16, <1>17
  DEF ReadNext, Runtime

\* The steps that neither move a read nor touch its deadlines.
LEMMA AsideStep ==
  ASSUME ReadInvariant,
         UNCHANGED readVars \/ Reload \/ Fetch \/ StopFrames
           \/ (\E what \in {"chunk", "eof", "failed"} : Produce(what))
           \/ (\E f \in 1..MaxFetch : Passed(f))
  PROVE  (Running /\ Cancelled /\ Window /\ TimeoutIsFinal)'
<1>1. UNCHANGED <<stage, outcome, watched, cause, turn, idle, phase, budget, waited>>
  BY DEF readVars, Reload, Fetch, StopFrames, Produce, Passed, fetchVars, timerVars
<1>2. awaited' # {} => watched
  BY DEF readVars, Reload, Fetch, StopFrames, Produce, Passed, fetchVars, timerVars, ReadInvariant, Running
<1> QED
  BY <1>1, <1>2 DEF ReadInvariant, Running, TimersOnlyWhileReading, Cancelled, Window, TimeoutIsFinal, Guarded

\* A read ends, and with it the preflight and both deadlines.
LEMMA EndStep ==
  ASSUME ReadInvariant, Deliver \/ Expire \/ GiveUp \/ Return
  PROVE  (Running /\ Cancelled /\ Window /\ TimeoutIsFinal)'
<1>1. CASE stage' = "paused"
  <2>1. HandOver /\ cause \notin Own
    BY <1>1 DEF Deliver, Expire, GiveUp, Return, Close
  <2> QED
    BY <1>1, <2>1 DEF HandOver, EndPreflight, fetchVars, ReadInvariant, Running, TimersOnlyWhileReading, Cancelled,
       Window, TimeoutIsFinal, Guarded
<1>2. CASE stage' # "paused"
  <2>1. PICK how : Close(how) /\ (cause \in Own => how = "timeout")
    BY <1>2 DEF Deliver, Expire, GiveUp, Return, HandOver, ReadInvariant, TimeoutIsFinal, Guarded
  <2> QED
    BY <2>1 DEF Close, EndPreflight, fetchVars, ReadInvariant, Running, TimersOnlyWhileReading, Cancelled,
       Window, TimeoutIsFinal, Guarded
<1> QED
  BY <1>1, <1>2

\* A guarded read begins, with a whole idle interval or one turn.
LEMMA BeginStep ==
  ASSUME ReadInvariant, Pull \/ Activate
  PROVE  (Running /\ Cancelled /\ Window /\ TimeoutIsFinal)'
<1> USE PreflightAssumption DEF ReadInvariant, ReadTypeOK, Running, TimersOnlyWhileReading, Cancelled, Window,
    TimeoutIsFinal, Guarded, Guard, HostIdleTimeout, Off, Own
<1>1. CASE Pull
  BY <1>1 DEF Pull, fetchVars
<1>2. CASE Activate
  BY <1>2 DEF Activate, fetchVars
<1> QED
  BY <1>1, <1>2

\* A signal fires.
LEMMA SignalStep ==
  ASSUME ReadInvariant, CancelRead \/ IdleFires \/ TotalFires
  PROVE  (Running /\ Cancelled /\ Window /\ TimeoutIsFinal)'
<1> USE PreflightAssumption DEF ReadInvariant, ReadTypeOK, Running, TimersOnlyWhileReading, Cancelled, Window,
    TimeoutIsFinal, Guarded, HostIdleTimeout, Off, Own
<1>1. CASE CancelRead
  BY <1>1 DEF CancelRead, timerVars, fetchVars
<1>2. CASE IdleFires
  BY <1>2 DEF IdleFires, Expired, fetchVars
<1>3. CASE TotalFires
  BY <1>3 DEF TotalFires, Expired, fetchVars
<1> QED
  BY <1>1, <1>2, <1>3

\* Time passes only within a guarded read that nothing has ended, so that one of
\* its deadlines is running and not due.
LEMMA ClockStep ==
  ASSUME ReadInvariant, Clock
  PROVE  (Running /\ Cancelled /\ Window /\ TimeoutIsFinal)'
<1> USE PreflightAssumption DEF ReadInvariant, ReadTypeOK, Running, TimersOnlyWhileReading, Cancelled, Window,
    TimeoutIsFinal, Guarded, HostIdleTimeout, Off
<1>1. Guarded /\ cause = "none" /\ idle \in 1..Idle /\ (budget # Off => budget \in 1..Budget)
  BY DEF Clock, Pressing, Own
<1>2. UNCHANGED <<stage, outcome, watched, cause, turn, phase, awaited>> /\ waited' = waited + 1
  BY <1>1 DEF Clock, fetchVars
<1>3. idle' = idle - 1 /\ budget' = IF budget = Off THEN Off ELSE budget - 1
  BY <1>1 DEF Clock
<1> QED
  BY <1>1, <1>2, <1>3

\* An admitted response arms the total deadline, once, when the read has waited
\* for no longer than the idle interval.
LEMMA AdmittedStep ==
  ASSUME ReadInvariant, NEW f \in 1..MaxFetch, Admitted(f)
  PROVE  (Running /\ Cancelled /\ Window /\ TimeoutIsFinal)'
<1> USE PreflightAssumption DEF ReadInvariant, ReadTypeOK, Running, TimersOnlyWhileReading, Cancelled, Window,
    TimeoutIsFinal, Guarded, HostIdleTimeout, Off
<1>1. phase = "ready" /\ cause = "none" /\ stage # "ended"
  BY DEF Admitted, Eligible, MayBegin, SignalAborted
<1>2. Guarded /\ idle \in 0..Idle /\ waited + idle <= Idle
  BY <1>1 DEF Admitted
<1>3. UNCHANGED <<stage, outcome, watched, cause, turn, waited>> /\ awaited' \subseteq awaited
  BY DEF Admitted
<1>4. phase' = "active" /\ budget' = Budget /\ idle' = Idle
  BY <1>1, <1>2 DEF Admitted, Renewed
<1> QED
  BY <1>1, <1>2, <1>3, <1>4

\* A heartbeat renews the idle deadline only.
LEMMA HeartbeatStep ==
  ASSUME ReadInvariant, Heartbeat
  PROVE  (Running /\ Cancelled /\ Window /\ TimeoutIsFinal)'
<1> USE PreflightAssumption DEF ReadInvariant, ReadTypeOK, Running, TimersOnlyWhileReading, Cancelled, Window,
    TimeoutIsFinal, Guarded, HostIdleTimeout, Off
<1>1. UNCHANGED <<stage, outcome, watched, cause, turn, phase, budget, waited, awaited>>
  BY DEF Heartbeat, fetchVars
<1>2. idle' = idle \/ (phase = "active" /\ idle # Off /\ idle' = Idle)
  BY DEF Heartbeat, Renewed
<1> QED
  BY <1>1, <1>2

LEMMA ReadInvariantHolds == ReadSpec => []ReadInvariant
<1>1. ReadInit => ReadInvariant
  <2>0. Off \in Off..Idle /\ Off \in Off..Budget
    BY PreflightAssumption DEF Off
  <2>1. ReadInit => ReadTypeOK
    <3>1. 0 \in 0..MaxFetch /\ 0 \in Nat /\ [f \in 1..MaxFetch |-> NoRoute] \in [1..MaxFetch -> {NoRoute}]
      BY PreflightAssumption
    <3>2. ReadInit => authority \in [1..MaxFetch -> Native \cup {NoRoute, Proxy}]
      BY <3>1 DEF ReadInit
    <3> QED
      BY <2>0, <3>1, <3>2 DEF ReadInit, ReadTypeOK
  <2>2. ReadInit => Running /\ Cancelled /\ Window /\ TimeoutIsFinal
    BY DEF ReadInit, Running, TimersOnlyWhileReading, Cancelled, Window, TimeoutIsFinal, Guarded, Own
  <2> QED
    BY <2>1, <2>2 DEF ReadInvariant
<1>2. ReadInvariant /\ [ReadNext]_readVars => ReadInvariant'
  <2> SUFFICES ASSUME ReadInvariant, [ReadNext]_readVars PROVE ReadInvariant'
    OBVIOUS
  <2>1. ReadTypeOK'
    BY ReadTypeStep DEF ReadInvariant
  <2>2. CASE UNCHANGED readVars \/ Reload \/ Fetch \/ StopFrames
    BY <2>1, <2>2, AsideStep DEF ReadInvariant
  <2>3. CASE \E what \in {"chunk", "eof", "failed"} : Produce(what)
    BY <2>1, <2>3, AsideStep DEF ReadInvariant
  <2>4. ASSUME NEW f \in 1..MaxFetch, Admitted(f) \/ Passed(f) PROVE ReadInvariant'
    BY <2>1, <2>4, AdmittedStep, AsideStep DEF ReadInvariant
  <2>5. CASE Deliver \/ Expire \/ GiveUp \/ Return
    BY <2>1, <2>5, EndStep DEF ReadInvariant
  <2>6. CASE Pull \/ Activate
    BY <2>1, <2>6, BeginStep DEF ReadInvariant
  <2>7. CASE CancelRead \/ IdleFires \/ TotalFires
    BY <2>1, <2>7, SignalStep DEF ReadInvariant
  <2>8. CASE Clock \/ Heartbeat
    BY <2>1, <2>8, ClockStep, HeartbeatStep DEF ReadInvariant
  <2> QED
    BY <2>2, <2>3, <2>4, <2>5, <2>6, <2>7, <2>8 DEF ReadNext, Runtime
<1> QED
  BY <1>1, <1>2, PTL DEF ReadSpec

\* No guarded read waits longer than the Host's own timer would let it, however
\* often it is renewed and fetched again (preflight-activity.ts 134).
THEOREM ReadsFitTheHost == ReadSpec => []WithinHostTimeout
<1>1. ReadInvariant => WithinHostTimeout
  BY DEF ReadInvariant, Window, WithinHostTimeout
<1> QED
  BY <1>1, ReadInvariantHolds, PTL

\* No deadline runs in the consumer's pauses or after the end.
THEOREM PausesAreFree == ReadSpec => []TimersOnlyWhileReading
<1>1. ReadInvariant => TimersOnlyWhileReading
  BY DEF ReadInvariant, Running
<1> QED
  BY <1>1, ReadInvariantHolds, PTL

\* A deadline that has passed is what the consumer hears of.
THEOREM TimeoutReachesConsumer == ReadSpec => []TimeoutIsFinal
<1>1. ReadInvariant => TimeoutIsFinal
  BY DEF ReadInvariant
<1> QED
  BY <1>1, ReadInvariantHolds, PTL

\* Cancelling a read takes nothing from the consumer that was there already.
THEOREM CancellingLosesNothing == ReadSpec => ProducedIsDelivered
<1>1. ReadInvariant /\ [ReadNext]_readVars
        => [stage = "reading" /\ demand \in {"chunk", "eof"} /\ stage' # "reading"
              => stage' = "paused" \/ outcome' = "done" \/ cause \in Own]_readVars
  <2> SUFFICES ASSUME [ReadNext]_readVars, stage = "reading", demand \in {"chunk", "eof"}, stage' # "reading"
               PROVE  stage' = "paused" \/ outcome' = "done" \/ cause \in Own
    BY DEF readVars
  <2>1. Deliver \/ Expire
    BY DEF ReadNext, Runtime, GiveUp, Return, IdleFires, TotalFires, Expired, Clock, Pull, Activate, CancelRead,
       Reload, Produce, Fetch, Heartbeat, StopFrames, Admitted, Passed, readVars
  <2> QED
    BY <2>1 DEF Deliver, Expire, HandOver, Close
<1> QED
  BY <1>1, ReadInvariantHolds, PTL DEF ReadSpec, ProducedIsDelivered

\* Neither a fetch that was overtaken nor a route that was replaced renews a
\* read, and none does when the preflight is over.
THEOREM OnlyTheRouteRenews == ReadSpec => OnlyLatestRouteRenews
<1>1. ReadInvariant /\ [ReadNext]_readVars
        => [Guarded /\ Guarded' /\ idle' > idle
              => budget' # Off /\ frames' = generation /\ StillValid(generation)]_readVars
  <2> SUFFICES ASSUME ReadInvariant, [ReadNext]_readVars, Guarded, Guarded', idle' > idle
               PROVE  budget' # Off /\ frames' = generation /\ StillValid(generation)
    BY DEF readVars
  <2> USE PreflightAssumption DEF Off
  <2>1. idle \in Off..Idle
    BY DEF ReadInvariant, ReadTypeOK
  <2>2. Heartbeat \/ \E f \in 1..MaxFetch : Admitted(f)
    BY <2>1 DEF ReadNext, Runtime, Deliver, HandOver, Close, Expire, GiveUp, Return, IdleFires, TotalFires,
       Clock, Pull, Activate, CancelRead, Reload, Produce, Fetch, StopFrames, Passed, readVars, timerVars, Guarded
  <2>3. CASE Heartbeat
    <3>1. phase = "active" /\ cause = "none"
      BY <2>1, <2>3 DEF Heartbeat, Renewed
    <3> QED
      BY <2>3, <3>1 DEF Heartbeat, Live, ReadInvariant, Running
  <2>4. CASE \E f \in 1..MaxFetch : Admitted(f)
    BY <2>4 DEF Admitted, Eligible
  <2> QED
    BY <2>2, <2>3, <2>4
<1> QED
  BY <1>1, ReadInvariantHolds, PTL DEF ReadSpec, OnlyLatestRouteRenews
====
