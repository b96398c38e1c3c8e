---- MODULE Preflight ----
(***************************************************************************)
(* One iterator of OpenAICodexPreflightActivity.stream, with the watchdog  *)
(* of its reads (src/src/preflight-activity.ts, preflight-watchdog.ts).    *)
(*                                                                         *)
(* A read of the stream ends with what the provider delivers, with the     *)
(* caller's cancellation, or when nothing was heard for Idle.  A proxy     *)
(* that is trusted and says that it is compressing may renew that wait,    *)
(* until Budget has passed since it first said so.  Who may renew it is    *)
(* asked again at every frame: a newer fetch, or another native route than *)
(* the one there was when the fetch was sent, takes the right away.        *)
(*                                                                         *)
(* Time is discrete.  It passes only when no timer is due and no settled   *)
(* promise has a continuation to run (Pressing).                           *)
(***************************************************************************)
EXTENDS Integers

CONSTANTS Native,         \* states of the native fetch chain
          Trusted,        \* those of the configured origin
          NoRoute, Proxy, \* no native chain is installed; the acquired, trusted proxy
          Idle,           \* OPENAI_CODEX_STREAM_IDLE_TIMEOUT_MS
          Budget,         \* maxDurationMs
          MaxFetch        \* bound of the model: fetches of one iterator

ASSUME PreflightAssumption == /\ Trusted \subseteq Native
                              /\ NoRoute \notin Native /\ Proxy \notin Native \cup {NoRoute}
                              /\ Idle \in Nat \ {0} /\ Budget \in Nat \ {0}
                              /\ MaxFetch \in Nat

VARIABLES stage,      \* of the generator: new, reading, paused at a yield, ended
          outcome,    \* how it ended
          demand,     \* the promise of the current read
          watched,    \* the watchdog exists: the provider callback was reached
          caller,     \* options.signal has fired
          cause,      \* why the watchdog's signal has fired
          turn,       \* a setImmediate will give up the read
          idle,       \* time left to the idle deadline, or Off
          phase,      \* of the preflight: ready, active, closed
          budget,     \* time left to the total deadline, or Off
          generation, \* fetches sent
          authority,  \* per fetch: the route it was sent by
          awaited,    \* fetches without a response
          frames,     \* the fetch whose response is observed, 0 if none
          native,     \* the state of the native fetch chain
          waited      \* history: how long the guarded read has been waiting

readVars == <<stage, outcome, demand, watched, caller, cause, turn, idle, phase, budget,
              generation, authority, awaited, frames, native, waited>>
fetchVars == <<generation, authority, awaited, native>>
timerVars == <<idle, phase, budget, frames>>

Off == -1
Own == {"idle", "total"}
Guarded == stage = "reading" /\ watched

\* The signal given to the provider: the caller's, or the controller that
\* relays the watchdog's and is aborted when the iterator ends.
SignalAborted == caller \/ cause # "none" \/ stage = "ended"

ReadInit == /\ stage = "new" /\ outcome = "none" /\ demand = "none"
            /\ watched = FALSE /\ caller = FALSE /\ cause = "none" /\ turn = FALSE
            /\ idle = Off /\ phase = "ready" /\ budget = Off
            /\ generation = 0 /\ authority = [f \in 1..MaxFetch |-> NoRoute]
            /\ awaited = {} /\ frames = 0
            /\ native \in Native \cup {NoRoute}
            /\ waited = 0

-----------------------------------------------------------------------------
\* Mutant: a signal that has fired before the read begins is not noticed.
GuardUnaware(why) == /\ turn' = FALSE
                     /\ idle' = IF why = "none" THEN Idle ELSE Off
                     /\ waited' = 0

\* next(): a read that finds its signal aborted gets one turn of the event
\* loop, any other one the idle timer.
Guard(why) == /\ turn' = (why # "none")
              /\ idle' = IF why = "none" THEN Idle ELSE Off
              /\ waited' = 0

\* The consumer asks for the next chunk.
Pull == /\ stage \in {"new", "paused"}
        /\ stage' = "reading" /\ demand' = "pending"
        /\ IF watched THEN Guard(cause) ELSE UNCHANGED <<turn, idle, waited>>
        /\ UNCHANGED <<outcome, watched, caller, cause, phase, budget, frames, fetchVars>>

\* activate(): the Host has prepared the request.  The read under way becomes a
\* guarded one; between two reads, the guarded one has its result at once.
Activate == /\ stage \in {"reading", "paused"} /\ ~watched
            /\ watched' = TRUE
            /\ cause' = IF caller THEN "caller" ELSE "none"
            /\ IF stage = "reading"
               THEN Guard(cause') /\ UNCHANGED phase
               ELSE phase' = "closed" /\ UNCHANGED <<turn, idle, waited>>
            /\ UNCHANGED <<stage, outcome, demand, caller, budget, frames, fetchVars>>

\* The provider, or the Host before it, settles the read.
Produce(what) == /\ stage = "reading" /\ demand = "pending"
                 /\ demand' = what
                 /\ UNCHANGED <<stage, outcome, watched, caller, cause, turn, timerVars, fetchVars, waited>>

-----------------------------------------------------------------------------
\* preflight.end()
EndPreflight == phase' = "closed" /\ budget' = Off

\* The finally of the generator.
Close(how) == /\ stage' = "ended" /\ outcome' = how
              /\ turn' = FALSE /\ idle' = Off /\ frames' = 0
              /\ EndPreflight
              /\ UNCHANGED <<demand, watched, caller, cause, fetchVars, waited>>

\* The class of an error that is not a timeout of the watchdog.
Failure == IF watched /\ caller THEN "aborted" ELSE "failed"

HandOver == /\ stage' = "paused" /\ turn' = FALSE /\ idle' = Off
            /\ IF watched THEN EndPreflight ELSE UNCHANGED <<phase, budget>>
            /\ UNCHANGED <<outcome, demand, watched, caller, cause, frames, fetchVars, waited>>

\* Mutant: a result that is there is delivered whatever happened meanwhile.
DeliverAnyway == /\ stage = "reading"
                 /\ \/ demand = "chunk" /\ HandOver
                    \/ demand = "eof" /\ Close("done")
                    \/ demand = "failed" /\ Close(Failure)

\* The read has its result, and no own timeout came before it was looked at.
Deliver == /\ stage = "reading" /\ cause \notin Own
           /\ \/ demand = "chunk" /\ HandOver
              \/ demand = "eof" /\ Close("done")
              \/ demand = "failed" /\ Close(Failure)

\* An own timeout is thrown, whatever else has happened.
Expire == Guarded /\ cause \in Own /\ Close("timeout")

\* The setImmediate of a cancelled read that is still not settled.
GiveUp == Guarded /\ turn /\ cause \notin Own /\ demand = "pending" /\ Close("aborted")

\* The consumer stops between two chunks, or before the first.
Return == stage \in {"new", "paused"} /\ Close("returned")

-----------------------------------------------------------------------------
\* The caller's signal.
CancelRead == /\ ~caller /\ caller' = TRUE
              /\ IF watched /\ cause = "none" /\ stage # "ended"
                 THEN cause' = "caller" /\ turn' = (stage = "reading")
                 ELSE UNCHANGED <<cause, turn>>
              /\ UNCHANGED <<stage, outcome, demand, watched, timerVars, fetchVars, waited>>

\* A deadline aborts the watchdog's signal, unless that has fired already.
Expired(why) == /\ cause' = IF cause = "none" THEN why ELSE cause
                /\ UNCHANGED <<stage, outcome, demand, watched, caller, turn, phase, frames, fetchVars, waited>>

IdleFires == idle = 0 /\ idle' = Off /\ UNCHANGED budget /\ Expired("idle")

TotalFires == budget = 0 /\ budget' = Off /\ UNCHANGED idle /\ Expired("total")

Pressing == \/ idle = 0 \/ budget = 0
            \/ stage = "reading" /\ (demand # "pending" \/ turn \/ cause \in Own)

Clock == /\ ~Pressing /\ (idle # Off \/ budget # Off)
         /\ idle' = IF idle = Off THEN Off ELSE idle - 1
         /\ budget' = IF budget = Off THEN Off ELSE budget - 1
         /\ waited' = IF Guarded THEN waited + 1 ELSE waited
         /\ UNCHANGED <<stage, outcome, demand, watched, caller, cause, turn, phase, frames, fetchVars>>

-----------------------------------------------------------------------------
\* Another native chain is installed, the same again, or none.
Reload == \E n \in Native \cup {NoRoute} :
            /\ n # native /\ native' = n
            /\ UNCHANGED <<stage, outcome, demand, watched, caller, cause, turn, timerVars,
                           generation, authority, awaited, waited>>

\* The route of a fetch may still renew.
StillValid(f) == authority[f] = Proxy \/ (authority[f] # NoRoute /\ authority[f] = native)

\* The wrapped fetch: over the acquired proxy, or by whatever is installed.
\* The provider may retry, and may do so after it was abandoned.
Fetch == /\ watched /\ generation < MaxFetch
         /\ generation' = generation + 1
         /\ frames' = 0
         /\ \E route \in {Proxy, native} :
              authority' = [authority EXCEPT ![generation + 1] = route]
         /\ awaited' = awaited \cup {generation + 1}
         /\ UNCHANGED <<stage, outcome, demand, watched, caller, cause, turn, idle, phase, budget,
                        native, waited>>

\* pulse(): only a read that is waiting has anything to renew.
Renewed == IF phase' = "active" /\ cause = "none" /\ idle # Off THEN Idle ELSE idle

\* Mutant: every eligible response starts a budget.
MayRestart == phase # "closed" /\ cause = "none"

\* begin() accepts.
MayBegin == phase = "ready" /\ cause = "none"

\* A response that may renew: of the latest fetch, by a trusted route that is
\* still the one there is, with the headers.
Eligible(f) == /\ f = generation /\ ~SignalAborted
               /\ authority[f] \in Trusted \cup {Proxy} /\ StillValid(f)
               /\ MayBegin

Admitted(f) == /\ f \in awaited /\ Eligible(f)
               /\ awaited' = awaited \ {f}
               /\ phase' = "active" /\ budget' = Budget /\ frames' = f
               /\ idle' = Renewed
               /\ UNCHANGED <<stage, outcome, demand, watched, caller, cause, turn,
                              generation, authority, native, waited>>

\* Any other response, or none, or one without the headers.
Passed(f) == /\ f \in awaited
             /\ awaited' = awaited \ {f}
             /\ UNCHANGED <<stage, outcome, demand, watched, caller, cause, turn, timerVars,
                            generation, authority, native, waited>>

\* live(), asked at every byte.
Live == ~SignalAborted /\ frames = generation /\ StillValid(frames)

\* A complete frame with exactly the heartbeat is read.
Heartbeat == /\ frames # 0 /\ Live
             /\ UNCHANGED <<phase, budget, frames>>
             /\ idle' = Renewed
             /\ UNCHANGED <<stage, outcome, demand, watched, caller, cause, turn, fetchVars, waited>>

\* Data, too long a frame, the end of the body, or a byte that comes when the
\* response is not the live one any more.
StopFrames == /\ frames # 0 /\ frames' = 0
              /\ UNCHANGED <<stage, outcome, demand, watched, caller, cause, turn, idle, phase, budget,
                             fetchVars, waited>>

-----------------------------------------------------------------------------
\* What the runtime does by itself.
Runtime == Deliver \/ Expire \/ GiveUp \/ IdleFires \/ TotalFires \/ Clock

ReadNext == \/ Runtime
            \/ Pull \/ Activate \/ Return \/ CancelRead \/ Reload
            \/ \E what \in {"chunk", "eof", "failed"} : Produce(what)
            \/ Fetch \/ Heartbeat \/ StopFrames
            \/ \E f \in 1..MaxFetch : Admitted(f) \/ Passed(f)

ReadSpec == ReadInit /\ [][ReadNext]_readVars

\* Timers fire, time passes and settled promises continue; nobody else need do
\* anything.
FairReadSpec == ReadSpec /\ WF_readVars(Runtime)

-----------------------------------------------------------------------------
ReadTypeOK == /\ stage \in {"new", "reading", "paused", "ended"}
              /\ outcome \in {"none", "done", "failed", "aborted", "timeout", "returned"}
              /\ demand \in {"none", "pending", "chunk", "eof", "failed"}
              /\ watched \in BOOLEAN /\ caller \in BOOLEAN /\ turn \in BOOLEAN
              /\ cause \in {"none", "caller", "idle", "total"}
              /\ idle \in Off..Idle /\ budget \in Off..Budget
              /\ phase \in {"ready", "active", "closed"}
              /\ generation \in 0..MaxFetch /\ frames \in 0..MaxFetch
              /\ authority \in [1..MaxFetch -> Native \cup {NoRoute, Proxy}]
              /\ awaited \subseteq 1..MaxFetch
              /\ native \in Native \cup {NoRoute}
              /\ waited \in Nat

\* However often the proxy says that it is still compressing, and however often
\* the provider fetches again, no read that is guarded waits longer than the
\* interval that the Host is given for its own timer (hostIdleTimeoutMs).
HostIdleTimeout == Idle + Budget
WithinHostTimeout == Guarded => waited <= HostIdleTimeout

\* Deadlines run only while a read waits: the consumer's pauses do not count, and
\* nothing is left behind, whenever a response arrives.
TimersOnlyWhileReading == idle # Off \/ budget # Off => Guarded

\* A deadline that has passed reaches the consumer as a timeout, and as nothing
\* else, whatever the caller and the provider do about it.
TimeoutIsFinal == cause \in Own => Guarded \/ (stage = "ended" /\ outcome = "timeout")

\* What the Host had produced when the caller cancelled is delivered: a read is
\* given up only if its result is not there.
ProducedIsDelivered ==
  [][stage = "reading" /\ demand \in {"chunk", "eof"} /\ stage' # "reading"
       => stage' = "paused" \/ outcome' = "done" \/ cause \in Own]_readVars

\* Only the latest fetch renews a read, over the proxy or over the native route
\* there was when it was sent, and only while the total deadline is running.
OnlyLatestRouteRenews ==
  [][Guarded /\ Guarded' /\ idle' > idle
       => budget' # Off /\ frames' = generation /\ StillValid(generation)]_readVars

\* Every guarded read ends.
ReadsEnd == Guarded ~> ~Guarded
====
