---- MODULE BackendGovernor ----
(***************************************************************************)
(* The runtime request governor of src/src/backend-request.ts: at most     *)
(* MaxConcurrent HTTP attempts hold a slot, the others queue in order;     *)
(* a 429 or 503 with Retry-After cools its lane; a caller's signal, the    *)
(* end of its run scope or the disposal of the plugin aborts an attempt    *)
(* wherever it is.                                                         *)
(*                                                                         *)
(* JavaScript runs one synchronous stretch at a time.  The stretches that  *)
(* contain loops over other attempts, the delivery of an abort and drain,  *)
(* are split into steps that exclude everything else (Busy).  Every await  *)
(* is a point where other attempts run.                                    *)
(***************************************************************************)
EXTENDS Naturals, Sequences, FiniteSets

CONSTANTS Attempt,        \* HTTP attempts: calls of a wrapped fetch
          Lane, LaneOf,   \* the lane each attempt belongs to
          Scope, ScopeOf, \* attempts of one scope are aborted by one signal
          MaxConcurrent,  \* OPENAI_CODEX_BACKEND_MAX_CONCURRENT_REQUESTS
          MaxDelay        \* bound of the model: the longest Retry-After

ASSUME GovernorAssumption == /\ IsFiniteSet(Attempt)
                             /\ LaneOf \in [Attempt -> Lane]
                             /\ ScopeOf \in [Attempt -> Scope]
                             /\ MaxConcurrent \in Nat \ {0}
                             /\ MaxDelay \in Nat

VARIABLES pc,        \* where each attempt is, see Stage
          active,    \* slots taken
          waiters,   \* attempts queued for a slot, oldest first
          cooldown,  \* per lane: time left until its deadline
          aborted,   \* scopes whose signal has fired
          disposed,  \* the lifecycle signal has fired
          firing,    \* attempts whose abort listeners are still to run
          draining,  \* a release is handing out slots
          asked      \* history, per lane: time left of each wait its responses asked for

lanes == <<cooldown, asked>>
vars == <<pc, active, waiters, lanes, aborted, disposed, firing, draining>>
signals == <<aborted, disposed, firing>>

Waiting == {"cooling", "asking", "queued"}
Holding == {"granted", "admitted", "hooks", "sent", "responded", "body", "cancelling"}
Stage == {"new", "done"} \cup Waiting \cup Holding

Dead(a) == disposed \/ ScopeOf[a] \in aborted
Cooling(a) == cooldown[LaneOf[a]] > 0
Busy == draining \/ firing # {}

Init == /\ pc = [a \in Attempt |-> "new"]
        /\ active = 0
        /\ waiters = <<>>
        /\ cooldown = [l \in Lane |-> 0]
        /\ aborted = {}
        /\ disposed = FALSE
        /\ firing = {}
        /\ draining = FALSE
        /\ asked = [l \in Lane |-> {}]

Move(a, from, to) == pc[a] = from /\ pc' = [pc EXCEPT ![a] = to]

\* The attempt ends, or waits, without ever having held a slot.
Stay == UNCHANGED <<active, waiters, draining>>

\* Mutant: the freed slot is not offered to the queue.
ReleaseQuietly == /\ active' = active - 1
                  /\ UNCHANGED <<waiters, draining>>

\* release(): the slot is free again, and drain runs at once.
Release == /\ active' = active - 1
           /\ draining' = TRUE
           /\ UNCHANGED waiters

-----------------------------------------------------------------------------
\* Mutant: drain serves the newest waiter.
GrantNewest == /\ draining /\ ~disposed /\ active < MaxConcurrent /\ waiters # <<>>
               /\ waiters' = SubSeq(waiters, 1, Len(waiters) - 1)
               /\ IF Dead(waiters[Len(waiters)])
                  THEN pc' = [pc EXCEPT ![waiters[Len(waiters)]] = "done"] /\ UNCHANGED active
                  ELSE /\ pc' = [pc EXCEPT ![waiters[Len(waiters)]] = "granted"]
                       /\ active' = active + 1
               /\ UNCHANGED <<lanes, signals, draining>>

\* drain(), one turn of its loop: a waiter whose signal has fired but whose
\* listener has not run yet is rejected, any other one gets a slot.
MayGrant == ~disposed /\ active < MaxConcurrent /\ waiters # <<>>

Grant == /\ draining /\ MayGrant
         /\ waiters' = Tail(waiters)
         /\ IF Dead(Head(waiters))
            THEN pc' = [pc EXCEPT ![Head(waiters)] = "done"] /\ UNCHANGED active
            ELSE pc' = [pc EXCEPT ![Head(waiters)] = "granted"] /\ active' = active + 1
         /\ UNCHANGED <<lanes, signals, draining>>

Drained == /\ draining /\ ~MayGrant
           /\ draining' = FALSE
           /\ UNCHANGED <<pc, active, waiters, lanes, signals>>

-----------------------------------------------------------------------------
\* Signals.  A signal first marks every attempt of its scope, then runs their
\* listeners one after the other, in the order in which they were added, which
\* nothing here relies on.
Listening == {a \in Attempt : pc[a] \notin {"new", "done"}}

Abort(s) == /\ ~Busy /\ s \notin aborted
            /\ aborted' = aborted \cup {s}
            /\ firing' = {a \in Listening : ScopeOf[a] = s /\ ~Dead(a)}
            /\ UNCHANGED <<pc, active, waiters, lanes, disposed, draining>>

Dispose == /\ ~Busy /\ ~disposed
           /\ disposed' = TRUE
           /\ firing' = {a \in Listening : ~Dead(a)}
           /\ UNCHANGED <<pc, active, waiters, lanes, aborted, draining>>

\* splice(i, 1)
Splice(s, i) == [j \in 1..(Len(s) - 1) |-> IF j < i THEN s[j] ELSE s[j + 1]]

\* The listeners of one attempt: of its cooldown timer, of its place in the
\* queue, or of its response body.  Elsewhere the next check finds it dead.
Fire(a) == /\ ~draining /\ a \in firing
           /\ firing' = firing \ {a}
           /\ \/ /\ Move(a, "cooling", "done")
                 /\ Stay
              \/ /\ Move(a, "queued", "done")
                 /\ \E i \in 1..Len(waiters) : waiters[i] = a /\ waiters' = Splice(waiters, i)
                 /\ UNCHANGED <<active, draining>>
              \/ /\ Move(a, "body", "done") \/ Move(a, "cancelling", "done")
                 /\ Release
              \/ /\ pc[a] \notin {"cooling", "queued", "body", "cancelling"}
                 /\ UNCHANGED pc /\ Stay
           /\ UNCHANGED <<lanes, aborted, disposed>>

-----------------------------------------------------------------------------
\* admit()
Call(a) == /\ ~Busy /\ Move(a, "new", "cooling")
           /\ Stay /\ UNCHANGED <<lanes, signals>>

\* beforeRequest: the deadline has passed, as read after any sleep.
CooledDown(a) == /\ ~Busy
                 /\ \/ Dead(a) /\ Move(a, "cooling", "done")
                    \/ ~Dead(a) /\ ~Cooling(a) /\ Move(a, "cooling", "asking")
                 /\ Stay /\ UNCHANGED <<lanes, signals>>

\* acquire: rejected, served at once, or queued.
Acquire(a) ==
  /\ ~Busy
  /\ \/ /\ Dead(a)
        /\ Move(a, "asking", "done") /\ Stay
     \/ /\ ~Dead(a) /\ active < MaxConcurrent
        /\ Move(a, "asking", "granted")
        /\ active' = active + 1 /\ UNCHANGED <<waiters, draining>>
     \/ /\ ~Dead(a) /\ active >= MaxConcurrent
        /\ Move(a, "asking", "queued")
        /\ waiters' = Append(waiters, a) /\ UNCHANGED <<active, draining>>
  /\ UNCHANGED <<lanes, signals>>

\* Mutant: an aborted attempt that just got its slot goes without releasing it.
AdmitLeaky(a) == /\ ~Busy
                 /\ \/ Dead(a) /\ Move(a, "granted", "done") /\ Stay
                    \/ ~Dead(a) /\ Cooling(a) /\ Move(a, "granted", "cooling") /\ Release
                    \/ ~Dead(a) /\ ~Cooling(a) /\ Move(a, "granted", "admitted") /\ Stay
                 /\ UNCHANGED <<lanes, signals>>

\* The continuation of acquire: the preceding response may have aborted the
\* scope or cooled the lane while the attempt was queued.
Admit(a) == /\ ~Busy
            /\ \/ Dead(a) /\ Move(a, "granted", "done") /\ Release
               \/ ~Dead(a) /\ Cooling(a) /\ Move(a, "granted", "cooling") /\ Release
               \/ ~Dead(a) /\ ~Cooling(a) /\ Move(a, "granted", "admitted") /\ Stay
            /\ UNCHANGED <<lanes, signals>>

\* The continuation of admit in wrapFetch, which looks at the lane once more,
\* and the start of fetchAttempt, which looks at the signal.
Recheck(a) == /\ ~Busy
              /\ \/ Cooling(a) /\ Move(a, "admitted", "cooling") /\ Release
                 \/ ~Cooling(a) /\ Dead(a) /\ Move(a, "admitted", "done") /\ Release
                 \/ ~Cooling(a) /\ ~Dead(a) /\ Move(a, "admitted", "hooks") /\ Stay
              /\ UNCHANGED <<lanes, signals>>

-----------------------------------------------------------------------------
\* fetchAttempt: beforeAttempt and beforeAuxiliaryAttempt may take long, and fail.
Send(a) == /\ ~Busy
           /\ \/ ~Dead(a) /\ Move(a, "hooks", "sent") /\ Stay
              \/ Move(a, "hooks", "done") /\ Release
           /\ UNCHANGED <<lanes, signals>>

\* Mutant: the last Retry-After replaces an earlier one.
LastWins(l, delay) == IF delay > 0 THEN delay ELSE cooldown[l]

\* recordResponse: a delay is the Retry-After of a 429 or 503, 0 is anything else.
Later(l, delay) == IF delay > cooldown[l] THEN delay ELSE cooldown[l]

\* The network answers; an attempt that was aborted meanwhile records nothing.
Respond(a, delay) ==
  /\ ~Busy
  /\ \/ /\ ~Dead(a)
        /\ Move(a, "sent", "responded") /\ Stay
        /\ cooldown' = [cooldown EXCEPT ![LaneOf[a]] = Later(LaneOf[a], delay)]
        /\ asked' = [asked EXCEPT ![LaneOf[a]] = @ \cup ({delay} \ {0})]
     \/ /\ Dead(a)
        /\ Move(a, "sent", "done") /\ Release
        /\ UNCHANGED lanes
  /\ UNCHANGED signals

\* The network, or the signal that fetch was given, fails the attempt.
FetchFails(a) == /\ ~Busy /\ Move(a, "sent", "done") /\ Release
                 /\ UNCHANGED <<lanes, signals>>

\* Mutant: the body is wrapped without looking at the signal again.
WrapBlindly(a) == /\ ~Busy
                  /\ Move(a, "responded", "body") /\ Stay
                  /\ UNCHANGED <<lanes, signals>>

\* onResponse returned, and the body is handed to the caller with its slot; or
\* there is no body; or the hook failed or the signal fired.
Wrap(a) == /\ ~Busy
           /\ \/ ~Dead(a) /\ Move(a, "responded", "body") /\ Stay
              \/ Move(a, "responded", "done") /\ Release
           /\ UNCHANGED <<lanes, signals>>

\* The body ends or breaks; or its cancellation, once asked for, completes.
Finish(a) == /\ ~Busy
             /\ Move(a, "body", "done") \/ Move(a, "cancelling", "done")
             /\ Release
             /\ UNCHANGED <<lanes, signals>>

\* The consumer cancels: the slot stays taken until the source is closed.
Cancel(a) == /\ ~Busy /\ Move(a, "body", "cancelling")
             /\ Stay /\ UNCHANGED <<lanes, signals>>

Tick == /\ ~Busy /\ \E l \in Lane : cooldown[l] > 0
        /\ cooldown' = [l \in Lane |-> IF cooldown[l] > 0 THEN cooldown[l] - 1 ELSE 0]
        /\ asked' = [l \in Lane |-> {n - 1 : n \in asked[l]} \ {0}]
        /\ UNCHANGED <<pc, active, waiters, signals, draining>>

-----------------------------------------------------------------------------
\* What each attempt does by itself, or gets from the network, in the end.
Advance(a) == \/ CooledDown(a) \/ Acquire(a) \/ Admit(a) \/ Recheck(a) \/ Send(a)
              \/ (\E d \in 0..MaxDelay : Respond(a, d)) \/ FetchFails(a)
              \/ Wrap(a) \/ Finish(a)

Step(a) == Call(a) \/ Advance(a) \/ Cancel(a) \/ Fire(a)

Next == \/ Grant \/ Drained \/ Dispose \/ Tick
        \/ \E s \in Scope : Abort(s)
        \/ \E a \in Attempt : Step(a)

Spec == Init /\ [][Next]_vars

\* Timers fire, continuations run, and the network or a deadline ends every
\* fetch and every body: something goes on while anything can.
Proceed == Grant \/ Drained \/ Tick \/ \E a \in Attempt : Advance(a) \/ Fire(a)

Fairness == WF_vars(Proceed)

FairSpec == Spec /\ Fairness

-----------------------------------------------------------------------------
TypeOK == /\ pc \in [Attempt -> Stage]
          /\ active \in 0..MaxConcurrent
          /\ waiters \in Seq(Attempt)
          /\ cooldown \in [Lane -> 0..MaxDelay]
          /\ aborted \subseteq Scope /\ disposed \in BOOLEAN
          /\ firing \subseteq Attempt /\ draining \in BOOLEAN
          /\ asked \in [Lane -> SUBSET (1..MaxDelay)]

\* The counter is exact on every path out of a slot, normal or not: it never
\* leaks a slot nor gives one back twice, and never exceeds the limit.
Holders == {a \in Attempt : pc[a] \in Holding}
SlotsAccounted == active = Cardinality(Holders) /\ active <= MaxConcurrent

\* The queue holds exactly the attempts that wait for a slot, each once.
Members(s) == {s[i] : i \in 1..Len(s)}
Distinct(s) == \A i, j \in 1..Len(s) : s[i] = s[j] => i = j
QueueExact == Members(waiters) = {a \in Attempt : pc[a] = "queued"} /\ Distinct(waiters)

\* Nobody waits for a slot while one is free, except within a release.
NoIdleSlot == ~draining /\ ~disposed /\ waiters # <<>> => active = MaxConcurrent

\* An attempt whose signal has fired keeps no place in the queue and no slot
\* for an unread body, whichever of the two came first.
DeadHoldNothing ==
  \A a \in Attempt : Dead(a) /\ a \notin firing => pc[a] \notin {"queued", "body", "cancelling"}

\* No attempt gets a slot while an older live one is queued for it.
Ahead(a, b) == IF pc[b] = "queued"
               THEN \E i, j \in 1..Len(waiters) : i < j /\ waiters[i] = a /\ waiters[j] = b
               ELSE a \in Members(waiters)
NoOvertaking ==
  [][\A a, b \in Attempt :
       pc[b] \in {"asking", "queued"} /\ pc'[b] = "granted" /\ Ahead(a, b) => Dead(a)]_vars

\* Every Retry-After is waited out: no attempt reaches its hooks before the time
\* that any response of its lane asked for is over, whichever responses of the lane
\* came after that one, with shorter waits, and wherever the attempt was then.
RetryAfterHonoured ==
  [][\A a \in Attempt : pc[a] # "hooks" /\ pc'[a] = "hooks" => asked[LaneOf[a]] = {}]_vars

\* Every attempt settles: it is not forgotten in the queue, in its cooldown or
\* with its slot.
EveryAttemptSettles == <>[](\A a \in Attempt : pc[a] \in {"new", "done"})
====
