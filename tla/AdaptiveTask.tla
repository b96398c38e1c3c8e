----------------------------- MODULE AdaptiveTask -----------------------------
(***************************************************************************)
(* The automatic task of one session: its document on disk                 *)
(* (adaptive-task-store.ts), the runtimes that own it one after the other  *)
(* (adaptive-task-runtime.ts) and the queue of the user's commands         *)
(* (adaptive-task-control-runtime.ts).  A plugin reload disposes a runtime *)
(* and starts the next one while the calls of the old one are still under  *)
(* way; a crash takes everything but the document and the host's journal.  *)
(*                                                                         *)
(* Every update of the document is one step: the store holds the file's    *)
(* lock from the read to the rename.  What is decided from an earlier read *)
(* is a step of its own.  Owners, the session's identity and the catalog   *)
(* of models never change here, and the first command finds a fresh        *)
(* session.                                                                *)
(***************************************************************************)
EXTENDS Naturals, Sequences, SequencesExt

CONSTANTS
    MaxOperations,  \* bound: operations the user issues
    Routes,         \* the model and effort pairs the grant allows
    FirstRoute,     \* ADAPTIVE_TASK_START
    LastRuntime,    \* bound: runtimes are numbered in the order they start
    Limit,          \* maximumRequests
    RingSize,       \* receipts the document keeps, 64 in the code
    MaxRevision,    \* bound: no route is chosen beyond this revision
    MaxPicks        \* bound: model selections the user makes in the host

ASSUME TaskAssumption ==
    /\ MaxOperations \in Nat
    /\ FirstRoute \in Routes
    /\ LastRuntime \in Nat \ {0}
    /\ Limit \in Nat \ {0}
    /\ RingSize \in Nat \ {0}
    /\ MaxRevision \in Nat
    /\ MaxPicks \in Nat

Operations == 1 .. MaxOperations
Runtimes == 1 .. LastRuntime

VARIABLES
    doc,            \* the task document
    phase,          \* [Runtimes -> {"unborn", "live", "disposed", "dead"}]
    tool,           \* tools: whether the runtime has the change tool registered
    ctl,            \* lifetimes: the agent's abort controller
    cmd,            \* the command a runtime is executing
    maint,          \* the runtime that holds the host's idle maintenance, or 0
    turn,           \* the session's turn and the request it is making
    aux,            \* an auxiliary request has been counted and not left
    picks,          \* selectionSeq of the host's journal
    userStopped,    \* the last turn of the journal was ended by the user
    issued,         \* the content of every operation the user has issued
    applied,        \* how often an operation has changed the document
    given,          \* the operations that have activated the grant
    sent,           \* requests of the task that have left
    revoked         \* a stop or a manual takeover has been answered

docVars == <<doc, applied, given>>
hostVars == <<picks, userStopped>>
runVars == <<phase, tool, ctl>>
vars == <<doc, phase, tool, ctl, cmd, maint, turn, aux, picks, userStopped,
          issued, applied, given, sent, revoked>>

Modes == {"off", "auto", "manual", "stopped", "interrupted", "limit"}
Commands == {"start", "resume", "stop", "manual"}
Gives(action) == action \in {"start", "resume"}

\* "off" stands for the missing document, which a client sees as revision 0.
NoDoc == [mode |-> "off", runtime |-> 0, revision |-> 0, route |-> FirstRoute,
          reserved |-> 0, selection |-> 0, receipts |-> <<>>]
NoCmd == [pc |-> "none", op |-> 0, auto |-> FALSE]
NoTurn == [pc |-> "none", by |-> 0, route |-> FirstRoute, revision |-> 0, cut |-> "no"]

\* The turn's request holds the abort signal of its runtime's controller.
Attached == {"stream", "reserved"}

Init ==
    /\ doc = NoDoc
    /\ phase = [r \in Runtimes |-> IF r = 1 THEN "live" ELSE "unborn"]
    /\ tool = [r \in Runtimes |-> FALSE]
    /\ ctl = [r \in Runtimes |-> "none"]
    /\ cmd = [r \in Runtimes |-> NoCmd]
    /\ maint = 0
    /\ turn = NoTurn
    /\ aux = FALSE
    /\ picks = 0
    /\ userStopped = FALSE
    /\ issued = [op \in Operations |-> <<>>]
    /\ applied = [op \in Operations |-> 0]
    /\ given = {}
    /\ sent = 0
    /\ revoked = FALSE

-----------------------------------------------------------------------------
(* withdraw: the tool goes, and the controller aborts what is attached.    *)

CutOff(r, t) ==
    IF t.by = r /\ t.pc \in Attached /\ t.cut = "no" THEN [t EXCEPT !.cut = "withdrawn"] ELSE t

Withdrawn(r) ==
    /\ tool' = [tool EXCEPT ![r] = FALSE]
    /\ ctl' = [ctl EXCEPT ![r] = IF @ = "none" THEN "none" ELSE "aborted"]

\* agent.cancel({ kind: 'user' })
Cancelled(t) == IF t.pc = "none" THEN t ELSE [t EXCEPT !.cut = "user"]

(* load: the document as the runtime finds it.  A user's stop of the       *)
(* session and another epoch end the grant before anything is decided.     *)

StoppedByUser == doc.mode = "auto" /\ userStopped

Loaded(r) ==
    IF StoppedByUser THEN [doc EXCEPT !.mode = "stopped", !.revision = @ + 1]
    ELSE IF doc.mode = "auto" /\ doc.runtime # r
         THEN [doc EXCEPT !.mode = "interrupted", !.revision = @ + 1]
    ELSE doc

Load(r) ==
    /\ doc' = Loaded(r)
    /\ IF StoppedByUser THEN Withdrawn(r) ELSE UNCHANGED <<tool, ctl>>

LoadAlone(r) ==
    /\ Load(r)
    /\ turn' = IF StoppedByUser THEN CutOff(r, turn) ELSE turn

\* A client reads the state of the task.  The read may outlive its runtime.
Poll(r) ==
    /\ phase[r] \in {"live", "disposed"}
    /\ LoadAlone(r)
    /\ UNCHANGED <<phase, cmd, maint, aux, hostVars, issued, applied, given, sent, revoked>>

-----------------------------------------------------------------------------
(* Commands.  The control runtime executes those of a session one by one.  *)

\* The user issues an operation against the revision a page shows, which
\* offers to start where there is no task yet, or repeats one whose answer was
\* lost.  Fresh identifiers are taken in their order.
Issue(r, op, action) ==
    /\ phase[r] = "live"
    /\ cmd[r] = NoCmd
    /\ IF issued[op] = <<>>
       THEN /\ (action = "start") <=> (doc.mode = "off")
            /\ \A other \in 1 .. op - 1 : issued[other] # <<>>
            /\ issued' = [issued EXCEPT ![op] = <<action, doc.revision>>]
       ELSE /\ issued[op][1] = action
            /\ issued' = issued
    /\ cmd' = [cmd EXCEPT ![r] = [pc |-> "observe", op |-> op, auto |-> FALSE]]
    /\ UNCHANGED <<doc, runVars, maint, turn, aux, hostVars, applied, given, sent, revoked>>

Recorded(op) == op \in ToSet(doc.receipts)

Action(r) == issued[cmd[r].op][1]
Expected(r) == issued[cmd[r].op][2]

Answer(r) == cmd' = [cmd EXCEPT ![r] = NoCmd]
Move(r, pc) == cmd' = [cmd EXCEPT ![r].pc = pc]

\* command, up to the maintenance: load, and the receipt of an earlier call.
Observe(r) ==
    /\ cmd[r].pc = "observe"
    /\ LoadAlone(r)
    /\ IF cmd[r].op \in ToSet(Loaded(r).receipts) THEN Answer(r) ELSE Move(r, "apply")
    /\ UNCHANGED <<phase, maint, aux, hostVars, issued, applied, given, sent, revoked>>

\* start and resume run inside the host's idle maintenance, or not at all.
Maintained(r) == Gives(Action(r)) => turn.pc = "none" /\ maint = 0

Receipts(op) ==
    LET all == Append(doc.receipts, op) IN IF Len(all) > RingSize THEN Tail(all) ELSE all

\* The document the first update of a command writes.
Effect(r) ==
    LET kept == [doc EXCEPT !.revision = @ + 1, !.receipts = Receipts(cmd[r].op)] IN
    IF Gives(Action(r))
    THEN [kept EXCEPT !.mode = "interrupted", !.runtime = r, !.selection = picks]
    ELSE [kept EXCEPT !.mode = IF Action(r) = "stop" THEN "stopped" ELSE "manual"]

\* Mutant: the revision the user saw is not compared.
ApplicableAnyRevision(r) ==
    /\ ~Recorded(cmd[r].op)
    /\ (Action(r) = "start") <=> (doc.mode = "off")
    /\ Action(r) = "resume" =>
        turn.pc = "none" /\ doc.mode = "interrupted" /\ doc.reserved < Limit

Applicable(r) ==
    /\ ~Recorded(cmd[r].op)
    /\ doc.revision = Expected(r)
    /\ (Action(r) = "start") <=> (doc.mode = "off")
    /\ Action(r) = "resume" =>
        turn.pc = "none" /\ doc.mode = "interrupted" /\ doc.reserved < Limit

Apply(r) ==
    /\ cmd[r].pc = "apply"
    /\ Maintained(r)
    /\ Applicable(r)
    /\ doc' = Effect(r)
    /\ applied' = [applied EXCEPT ![cmd[r].op] = @ + 1]
    /\ IF Gives(Action(r)) THEN maint' = r /\ Move(r, "activate")
                           ELSE maint' = maint /\ Move(r, "finish")
    /\ UNCHANGED <<runVars, turn, aux, hostVars, issued, given, sent, revoked>>

\* A receipt written since the load: the command goes on without an effect.
ApplyAgain(r) ==
    /\ cmd[r].pc = "apply"
    /\ Maintained(r)
    /\ Recorded(cmd[r].op)
    /\ IF Gives(Action(r)) THEN maint' = r /\ Move(r, "activate")
                           ELSE maint' = maint /\ Move(r, "finish")
    /\ UNCHANGED <<docVars, runVars, turn, aux, hostVars, issued, sent, revoked>>

\* The update refuses the command, or the host is busy or has no such model.
Refuse(r) ==
    /\ cmd[r].pc = "apply"
    /\ \/ ~Applicable(r) /\ ~Recorded(cmd[r].op)
       \/ ~Maintained(r)
       \/ Gives(Action(r))
    /\ Answer(r)
    /\ UNCHANGED <<docVars, runVars, maint, turn, aux, hostVars, issued, sent, revoked>>

\* After the journal was flushed, the second update puts the grant in force.
Activatable(r) ==
    /\ phase[r] = "live"
    /\ doc.mode = "interrupted"
    /\ doc.runtime = r
    /\ doc.revision = Expected(r) + 1

Activate(r) ==
    /\ cmd[r].pc = "activate"
    /\ Activatable(r)
    /\ doc' = [doc EXCEPT !.mode = "auto"]
    /\ given' = given \union {cmd[r].op}
    /\ maint' = 0
    /\ Move(r, "finish")
    /\ UNCHANGED <<runVars, turn, aux, hostVars, issued, applied, sent, revoked>>

\* The flush or the second update fails: the document stays as it is.
ActivateFails(r) ==
    /\ cmd[r].pc = "activate"
    /\ maint' = 0
    /\ Answer(r)
    /\ UNCHANGED <<docVars, runVars, turn, aux, hostVars, issued, sent, revoked>>

\* The load that decides whether the tool is installed or withdrawn.
Finish(r) ==
    /\ cmd[r].pc = "finish"
    /\ LoadAlone(r)
    /\ cmd' = [cmd EXCEPT ![r].pc = "settle", ![r].auto = (Loaded(r).mode = "auto")]
    /\ UNCHANGED <<phase, maint, aux, hostVars, issued, applied, given, sent, revoked>>

Installed(r) ==
    IF phase[r] = "live" /\ ~tool[r]
    THEN /\ tool' = [tool EXCEPT ![r] = TRUE]
         /\ ctl' = [ctl EXCEPT ![r] = "live"]
    ELSE UNCHANGED <<tool, ctl>>

Settle(r) ==
    /\ cmd[r].pc = "settle"
    /\ IF cmd[r].auto
       THEN Installed(r) /\ UNCHANGED <<turn, revoked>>
       ELSE /\ Withdrawn(r)
            /\ turn' = IF Gives(Action(r)) THEN CutOff(r, turn) ELSE Cancelled(turn)
            /\ revoked' = (revoked \/ ~Gives(Action(r)))
    /\ Answer(r)
    /\ UNCHANGED <<docVars, phase, maint, aux, hostVars, issued, sent>>

-----------------------------------------------------------------------------
(* The requests of a turn.                                                 *)

Step(r, pc) == turn.pc = pc /\ turn.by = r
Go(pc) == turn' = [turn EXCEPT !.pc = pc]
Over == [NoTurn EXCEPT !.pc = "over", !.cut = turn.cut]

BeginTurn(r) ==
    /\ phase[r] = "live"
    /\ turn.pc = "none"
    /\ maint = 0
    /\ doc.mode # "off"
    /\ turn' = [NoTurn EXCEPT !.pc = "hook", !.by = r]
    /\ UNCHANGED <<docVars, runVars, cmd, maint, aux, hostVars, issued, sent, revoked>>

\* The request hook, up to its first decision.  Under manual control the
\* request is an ordinary one and leaves the model.
Hook(r) ==
    /\ Step(r, "hook")
    /\ Load(r)
    /\ turn' = IF Loaded(r).mode # "auto" \/ turn.cut # "no" THEN Over
               ELSE [turn EXCEPT !.route = doc.route,
                        !.pc = IF picks # doc.selection THEN "yield" ELSE "install"]
    /\ UNCHANGED <<phase, cmd, maint, aux, hostVars, issued, applied, given, sent, revoked>>

\* The user has chosen a model since: the task yields to that choice.
Yield(r) ==
    /\ Step(r, "yield")
    /\ doc' = [doc EXCEPT !.mode = "manual", !.revision = @ + 1]
    /\ Withdrawn(r)
    /\ turn' = Over
    /\ UNCHANGED <<phase, cmd, maint, aux, hostVars, issued, applied, given, sent, revoked>>

\* The catalog has been asked.  The tool is installed for the task the hook
\* had read, whatever has become of it, and the request takes its route.
Install(r) ==
    /\ Step(r, "install")
    /\ Installed(r)
    /\ Go("ready")
    /\ UNCHANGED <<docVars, phase, cmd, maint, aux, hostVars, issued, sent, revoked>>

\* stream: the task is loaded again and has to be the one the hook saw.
Stream(r) ==
    /\ turn.pc = "ready"
    /\ phase[r] = "live"
    /\ Load(r)
    /\ turn' = IF Loaded(r).mode # "auto" \/ turn.route # doc.route THEN Over
               ELSE [turn EXCEPT !.pc = "attach", !.by = r, !.revision = doc.revision]
    /\ UNCHANGED <<phase, cmd, maint, aux, hostVars, issued, applied, given, sent, revoked>>

\* The request takes the signal of the controller in place by then.
Attach(r) ==
    /\ Step(r, "attach")
    /\ IF turn.cut = "no" /\ phase[r] = "live" /\ ctl[r] # "aborted"
       THEN Go("stream") /\ ctl' = [ctl EXCEPT ![r] = "live"]
       ELSE turn' = Over /\ UNCHANGED ctl
    /\ UNCHANGED <<docVars, phase, tool, cmd, maint, aux, hostVars, issued, sent, revoked>>

\* reserve: the checks that every attempt repeats under the lock.
Authorized(r) ==
    /\ phase[r] = "live"
    /\ doc.mode = "auto"
    /\ doc.runtime = r
    /\ picks = doc.selection

Current == turn.route = doc.route /\ turn.revision = doc.revision

\* Mutant: the limit is compared off by one.
ReservePastLimit(r) ==
    /\ Step(r, "stream")
    /\ turn.cut = "no"
    /\ Authorized(r)
    /\ Current
    /\ doc.reserved <= Limit
    /\ doc' = [doc EXCEPT !.reserved = @ + 1]
    /\ Go("reserved")
    /\ UNCHANGED <<runVars, cmd, maint, aux, hostVars, issued, applied, given, sent, revoked>>

Reserve(r) ==
    /\ Step(r, "stream")
    /\ turn.cut = "no"
    /\ Authorized(r)
    /\ Current
    /\ doc.reserved < Limit
    /\ doc' = [doc EXCEPT !.reserved = @ + 1]
    /\ Go("reserved")
    /\ UNCHANGED <<runVars, cmd, maint, aux, hostVars, issued, applied, given, sent, revoked>>

ReserveRefused(r) ==
    /\ Step(r, "stream")
    /\ turn.cut # "no" \/ ~Authorized(r) \/ ~Current
    /\ turn' = Over
    /\ UNCHANGED <<docVars, runVars, cmd, maint, aux, hostVars, issued, sent, revoked>>

\* The limit is reached: the task leaves automatic control.
Exhausted(r) ==
    /\ Authorized(r)
    /\ doc.reserved >= Limit
    /\ doc' = [doc EXCEPT !.mode = "limit", !.revision = @ + 1]
    /\ Withdrawn(r)

ReserveExhausted(r) ==
    /\ Step(r, "stream")
    /\ turn.cut = "no"
    /\ Current
    /\ Exhausted(r)
    /\ turn' = Over
    /\ UNCHANGED <<phase, cmd, maint, aux, hostVars, issued, applied, given, sent, revoked>>

\* Mutant: the signal is not looked at after the reservation.
DispatchBlind(r) ==
    /\ Step(r, "reserved")
    /\ sent' = sent + 1
    /\ Go("stream")
    /\ UNCHANGED <<docVars, runVars, cmd, maint, aux, hostVars, issued, revoked>>

\* Mutant: a request that was cut off between its charge and its departure
\* is neither sent nor failed.
DispatchForgotten(r) ==
    /\ Step(r, "reserved")
    /\ turn.cut = "withdrawn"
    /\ turn' = Over
    /\ UNCHANGED <<docVars, runVars, cmd, maint, aux, hostVars, issued, sent, revoked>>

\* The signal is looked at once more, then the request leaves.
Dispatch(r) ==
    /\ Step(r, "reserved")
    /\ turn.cut = "no"
    /\ sent' = sent + 1
    /\ Go("stream")
    /\ UNCHANGED <<docVars, runVars, cmd, maint, aux, hostVars, issued, revoked>>

DispatchRefused(r) ==
    /\ Step(r, "reserved")
    /\ turn.cut # "no"
    /\ turn' = Over
    /\ UNCHANGED <<docVars, runVars, cmd, maint, aux, hostVars, issued, sent, revoked>>

\* The answer calls the model's tool: a route for the next request.
CallTool(r) ==
    /\ Step(r, "stream")
    /\ turn.cut = "no"
    /\ tool[r]
    /\ Go("tool")
    /\ UNCHANGED <<docVars, runVars, cmd, maint, aux, hostVars, issued, sent, revoked>>

ChangeRoute(r, route) ==
    /\ Step(r, "tool")
    /\ turn.cut # "user"
    /\ Authorized(r)
    /\ doc.reserved < Limit
    /\ doc.revision < MaxRevision
    /\ route # doc.route
    /\ doc' = [doc EXCEPT !.route = route, !.revision = @ + 1]
    /\ Go("stream")
    /\ UNCHANGED <<runVars, cmd, maint, aux, hostVars, issued, applied, given, sent, revoked>>

\* The answer is complete, the call of the tool refused or without an effect:
\* the turn goes on with its next request, at the runtime that lives by then.
NextRequest(r) ==
    /\ turn.pc \in {"stream", "tool"}
    /\ turn.cut = "no"
    /\ phase[r] = "live"
    /\ turn' = [NoTurn EXCEPT !.pc = "hook", !.by = r]
    /\ UNCHANGED <<docVars, runVars, cmd, maint, aux, hostVars, issued, sent, revoked>>

\* Mutant: the runtime does not listen to the agent's status.
EndTurnUnheard(r) ==
    /\ phase[r] = "live"
    /\ turn.pc \in {"ready", "stream", "tool", "over"}
    /\ turn' = NoTurn
    /\ userStopped' = (turn.cut = "user")
    /\ UNCHANGED <<docVars, runVars, cmd, maint, aux, picks, issued, sent, revoked>>

\* The turn ends and is recorded in the journal.  If it was the user who
\* ended it, the live runtime withdraws when the agent becomes idle.
EndTurn(r) ==
    /\ phase[r] = "live"
    /\ turn.pc \in {"ready", "stream", "tool", "over"}
    /\ turn' = NoTurn
    /\ userStopped' = (turn.cut = "user")
    /\ IF turn.cut = "user" THEN Withdrawn(r) ELSE UNCHANGED <<tool, ctl>>
    /\ UNCHANGED <<docVars, phase, cmd, maint, aux, picks, issued, sent, revoked>>

\* The session's own stop button.
StopButton ==
    /\ turn.pc # "none"
    /\ turn' = Cancelled(turn)
    /\ UNCHANGED <<docVars, runVars, cmd, maint, aux, hostVars, issued, sent, revoked>>

\* The user picks another model in the host.
PickModel ==
    /\ picks < MaxPicks
    /\ picks' = picks + 1
    /\ UNCHANGED <<docVars, runVars, cmd, maint, turn, aux, userStopped, issued, sent, revoked>>

-----------------------------------------------------------------------------
(* Auxiliary requests of the session: search, images, titles.              *)

AuxReserve(r) ==
    /\ phase[r] = "live"
    /\ ~aux
    /\ ~StoppedByUser
    /\ Authorized(r)
    /\ doc.reserved < Limit
    /\ doc' = [doc EXCEPT !.reserved = @ + 1]
    /\ aux' = TRUE
    /\ UNCHANGED <<runVars, cmd, maint, turn, hostVars, issued, applied, given, sent, revoked>>

AuxExhausted(r) ==
    /\ phase[r] = "live"
    /\ ~aux
    /\ ~StoppedByUser
    /\ Exhausted(r)
    /\ turn' = CutOff(r, turn)
    /\ UNCHANGED <<phase, cmd, maint, aux, hostVars, issued, applied, given, sent, revoked>>

\* It leaves, or its own caller has given up.
AuxDispatch ==
    /\ aux
    /\ aux' = FALSE
    /\ sent' = sent + 1
    /\ UNCHANGED <<docVars, runVars, cmd, maint, turn, hostVars, issued, revoked>>

AuxAbandon ==
    /\ aux
    /\ aux' = FALSE
    /\ UNCHANGED <<docVars, runVars, cmd, maint, turn, hostVars, issued, sent, revoked>>

-----------------------------------------------------------------------------
(* Reload and crash.                                                       *)

\* dispose, and the next runtime of the same process.
Reload(r) ==
    /\ phase[r] = "live"
    /\ r + 1 \in Runtimes
    /\ phase' = [phase EXCEPT ![r] = "disposed", ![r + 1] = "live"]
    /\ tool' = [tool EXCEPT ![r] = FALSE]
    /\ ctl' = [ctl EXCEPT ![r] = "none"]
    /\ turn' = CutOff(r, turn)
    /\ UNCHANGED <<docVars, cmd, maint, aux, hostVars, issued, sent, revoked>>

\* The process dies.  The document, the journal and what was sent remain.
Crash(r) ==
    /\ phase[r] = "live"
    /\ r + 1 \in Runtimes
    /\ phase' = [q \in Runtimes |-> IF q = r + 1 THEN "live" ELSE IF q <= r THEN "dead" ELSE "unborn"]
    /\ tool' = [q \in Runtimes |-> FALSE]
    /\ ctl' = [q \in Runtimes |-> "none"]
    /\ cmd' = [q \in Runtimes |-> NoCmd]
    /\ maint' = 0
    /\ turn' = NoTurn
    /\ aux' = FALSE
    /\ UNCHANGED <<docVars, hostVars, issued, sent, revoked>>

-----------------------------------------------------------------------------
CommandStep(r) ==
    \/ Observe(r) \/ Apply(r) \/ ApplyAgain(r) \/ Refuse(r)
    \/ Activate(r) \/ ActivateFails(r) \/ Finish(r) \/ Settle(r)

RequestStep(r) ==
    \/ Hook(r) \/ Yield(r) \/ Install(r) \/ Stream(r) \/ Attach(r)
    \/ Reserve(r) \/ ReserveRefused(r) \/ ReserveExhausted(r)
    \/ Dispatch(r) \/ DispatchRefused(r)

Next ==
    \/ \E r \in Runtimes :
        \/ Poll(r)
        \/ \E op \in Operations, action \in Commands : Issue(r, op, action)
        \/ CommandStep(r)
        \/ BeginTurn(r) \/ RequestStep(r) \/ CallTool(r) \/ NextRequest(r) \/ EndTurn(r)
        \/ \E route \in Routes : ChangeRoute(r, route)
        \/ AuxReserve(r) \/ AuxExhausted(r)
        \/ Reload(r) \/ Crash(r)
    \/ StopButton \/ PickModel
    \/ AuxDispatch \/ AuxAbandon

\* What the turn does next without waiting for the model or the user: its
\* calls go on, a call of the tool returns, and a turn ends that was cut off
\* or has nothing left to do.
TurnStep ==
    \E r \in Runtimes :
        \/ RequestStep(r)
        \/ turn.pc = "tool" /\ NextRequest(r)
        \/ (turn.cut # "no" \/ turn.pc = "over") /\ EndTurn(r)

Fairness == WF_vars(TurnStep)

Spec == Init /\ [][Next]_vars /\ Fairness

-----------------------------------------------------------------------------
(* Properties                                                              *)

Documents ==
    [mode : Modes, runtime : Runtimes \union {0}, revision : Nat, route : Routes,
     reserved : 0 .. Limit, selection : Nat, receipts : Seq(Operations)]

Executions ==
    {NoCmd} \union
    [pc : {"observe", "apply", "activate", "finish", "settle"}, op : Operations, auto : BOOLEAN]

Requests ==
    [pc : {"none", "hook", "yield", "install", "ready", "attach", "stream", "reserved", "tool", "over"},
     by : Runtimes \union {0}, route : Routes, revision : Nat, cut : {"no", "withdrawn", "user"}]

\* The type invariant: the count stays within the grant and the receipts
\* within the ring, as the parser of the document demands.
TypeOK ==
    /\ doc \in Documents
    /\ Len(doc.receipts) <= RingSize
    /\ phase \in [Runtimes -> {"unborn", "live", "disposed", "dead"}]
    /\ tool \in [Runtimes -> BOOLEAN]
    /\ ctl \in [Runtimes -> {"none", "live", "aborted"}]
    /\ cmd \in [Runtimes -> Executions]
    /\ maint \in Runtimes \union {0}
    /\ turn \in Requests
    /\ aux \in BOOLEAN
    /\ picks \in Nat
    /\ userStopped \in BOOLEAN
    /\ issued \in [Operations -> {<<>>} \union (Commands \X Nat)]
    /\ applied \in [Operations -> Nat]
    /\ given \subseteq Operations
    /\ sent \in Nat
    /\ revoked \in BOOLEAN

\* A command whose answer was lost is repeated with its identifier.  It takes
\* effect at most once, even when its receipt has left the bounded ring and
\* another runtime executes the repetition.
AppliedOnce == \A op \in Operations : applied[op] <= 1

\* The user's stop and manual takeover are the last word: neither a running
\* activation, a late hook nor another command brings automatic control back.
RevocationFinal ==
    [][doc.mode \in {"stopped", "manual"} => doc'.mode \in {"stopped", "manual"}]_vars

\* Once a stop or a takeover has been answered, the task's turn sends nothing
\* more, nothing more is counted, and the model changes no route.
NothingAfterRevocation ==
    [][revoked => /\ doc'.reserved = doc.reserved
                  /\ doc'.route = doc.route
                  /\ sent' # sent => aux /\ ~aux']_vars

\* A takeover leaves the model without the change tool once the turn it
\* interrupted is over, although the request hook may install it late.
ToolGone == revoked /\ turn.pc = "none" => \A r \in Runtimes : ~tool[r]

\* A turn does not outlive its grant: whatever ends automatic control, the
\* turn under way comes to its end.
TurnEnds == doc.mode # "auto" /\ turn.pc # "none" ~> turn.pc = "none"

Grant == INSTANCE TaskGrant WITH counted <- doc.reserved, sent <- sent,
                                 granted <- (doc.mode = "auto"), spent <- given

\* The task implements the promise made to the user.
ImplementsGrant == Grant!Spec
=============================================================================
