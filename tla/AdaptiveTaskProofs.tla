-------------------------- MODULE AdaptiveTaskProofs --------------------------
(***************************************************************************)
(* Theorems about AdaptiveTask: any number of operations, runtimes, routes *)
(* and requests, any limit and any size of the receipt ring.               *)
(***************************************************************************)
EXTENDS AdaptiveTask, TLAPS

\* TypeOK in two parts: the document, and everything else.
DocTypes == doc \in Documents /\ Len(doc.receipts) <= RingSize

RunTypes ==
    /\ phase \in [Runtimes -> {"unborn", "live", "disposed", "dead"}]
    /\ tool \in [Runtimes -> BOOLEAN]
    /\ ctl \in [Runtimes -> {"none", "live", "aborted"}]
    /\ turn \in Requests

CallTypes ==
    /\ cmd \in [Runtimes -> Executions]
    /\ maint \in Runtimes \union {0}
    /\ aux \in BOOLEAN
    /\ picks \in Nat
    /\ userStopped \in BOOLEAN
    /\ issued \in [Operations -> {<<>>} \union (Commands \X Nat)]
    /\ applied \in [Operations -> Nat]
    /\ given \subseteq Operations
    /\ sent \in Nat
    /\ revoked \in BOOLEAN

LEMMA TypeParts ==
  /\ TypeOK <=> DocTypes /\ RunTypes /\ CallTypes
  /\ TypeOK' <=> DocTypes' /\ RunTypes' /\ CallTypes'
BY DEF TypeOK, DocTypes, RunTypes, CallTypes

\* A command that is under way carries an operation the user has issued.
Known == \A r \in Runtimes : cmd[r] # NoCmd => issued[cmd[r].op] # <<>>

-----------------------------------------------------------------------------
(* What a step may do to the document.                                     *)

Conclusive == {"stopped", "manual"}

Same == UNCHANGED docVars

\* Automatic control ends, or the user's own choice of a model is noted.
Ends ==
    /\ \E m \in Modes \ {"off", "auto"} :
        /\ doc.mode = "auto" \/ m = "manual"
        /\ doc' = [doc EXCEPT !.mode = m, !.revision = @ + 1]
    /\ UNCHANGED <<applied, given>>

\* A request is charged.
Charges ==
    /\ doc.mode = "auto" /\ doc.reserved < Limit
    /\ doc' = [doc EXCEPT !.reserved = @ + 1]
    /\ UNCHANGED <<applied, given>>

\* The model's choice of a route.
Reroutes ==
    /\ doc.mode = "auto"
    /\ \E route \in Routes : doc' = [doc EXCEPT !.route = route, !.revision = @ + 1]
    /\ UNCHANGED <<applied, given>>

LEMMA LoadEnds ==
  ASSUME NEW r \in Runtimes, Load(r), UNCHANGED <<applied, given>>
  PROVE  Same \/ Ends
<1>1. CASE doc' = doc
  BY <1>1 DEF Same, docVars
<1>2. CASE doc' # doc
  <2>1. doc.mode = "auto"
    BY <1>2 DEF Load, Loaded, StoppedByUser
  <2>2. \E m \in {"stopped", "interrupted"} : doc' = [doc EXCEPT !.mode = m, !.revision = @ + 1]
    BY <1>2 DEF Load, Loaded
  <2>3. {"stopped", "interrupted"} \subseteq Modes \ {"off", "auto"}
    BY DEF Modes
  <2> QED BY <2>1, <2>2, <2>3 DEF Ends
<1> QED BY <1>1, <1>2

\* Every step does one of six things to the document.
LEMMA DocumentSteps ==
  ASSUME [Next]_vars
  PROVE  \/ Same \/ Ends \/ Charges \/ Reroutes
         \/ \E r \in Runtimes : Apply(r) \/ Activate(r)
<1>1. ASSUME NEW r \in Runtimes, Poll(r) PROVE Same \/ Ends
  BY <1>1, LoadEnds DEF Poll, LoadAlone
<1>2. ASSUME NEW r \in Runtimes, NEW op \in Operations, NEW action \in Commands, Issue(r, op, action)
      PROVE  Same
  BY <1>2 DEF Issue, Same, docVars
<1>3. ASSUME NEW r \in Runtimes, CommandStep(r) PROVE Same \/ Ends \/ Apply(r) \/ Activate(r)
  <2>1. CASE Observe(r)
    BY <2>1, LoadEnds DEF Observe, LoadAlone
  <2>2. CASE Finish(r)
    BY <2>2, LoadEnds DEF Finish, LoadAlone
  <2>3. CASE ApplyAgain(r) \/ Refuse(r) \/ ActivateFails(r) \/ Settle(r)
    BY <2>3 DEF ApplyAgain, Refuse, ActivateFails, Settle, Same, docVars
  <2> QED BY <1>3, <2>1, <2>2, <2>3 DEF CommandStep
<1>4. ASSUME NEW r \in Runtimes, RequestStep(r) PROVE Same \/ Ends \/ Charges
  <2>1. CASE Hook(r)
    BY <2>1, LoadEnds DEF Hook
  <2>2. CASE Stream(r)
    BY <2>2, LoadEnds DEF Stream
  <2>3. CASE Yield(r)
    BY <2>3 DEF Yield, Ends, Modes
  <2>4. CASE Reserve(r)
    BY <2>4 DEF Reserve, Authorized, Charges
  <2>5. CASE ReserveExhausted(r)
    BY <2>5 DEF ReserveExhausted, Exhausted, Authorized, Ends, Modes
  <2>6. CASE Install(r) \/ Attach(r) \/ ReserveRefused(r) \/ Dispatch(r) \/ DispatchRefused(r)
    BY <2>6 DEF Install, Attach, ReserveRefused, Dispatch, DispatchRefused, Same, docVars
  <2> QED BY <1>4, <2>1, <2>2, <2>3, <2>4, <2>5, <2>6 DEF RequestStep
<1>5. ASSUME NEW r \in Runtimes, NEW route \in Routes, ChangeRoute(r, route) PROVE Reroutes
  BY <1>5 DEF ChangeRoute, Authorized, Reroutes
<1>6. ASSUME NEW r \in Runtimes, AuxReserve(r) PROVE Charges
  BY <1>6 DEF AuxReserve, Authorized, Charges
<1>7. ASSUME NEW r \in Runtimes, AuxExhausted(r) PROVE Ends
  BY <1>7 DEF AuxExhausted, Exhausted, Authorized, Ends, Modes
<1>8. ASSUME NEW r \in Runtimes,
             BeginTurn(r) \/ CallTool(r) \/ NextRequest(r) \/ EndTurn(r) \/ Reload(r) \/ Crash(r)
      PROVE  Same
  BY <1>8 DEF BeginTurn, CallTool, NextRequest, EndTurn, Reload, Crash, Same, docVars
<1>9. CASE StopButton \/ PickModel \/ AuxDispatch \/ AuxAbandon
  BY <1>9 DEF StopButton, PickModel, AuxDispatch, AuxAbandon, Same, docVars
<1>10. CASE UNCHANGED vars
  BY <1>10 DEF vars, Same, docVars
<1>11. CASE Next
  BY <1>11, <1>1, <1>2, <1>3, <1>4, <1>5, <1>6, <1>7, <1>8, <1>9 DEF Next
<1> QED BY <1>10, <1>11

-----------------------------------------------------------------------------
(* Types.                                                                  *)

LEMMA CommandTypes ==
  ASSUME CallTypes, NEW r \in Runtimes, cmd[r] # NoCmd
  PROVE  cmd[r].op \in Operations /\ cmd[r].auto \in BOOLEAN
BY DEF CallTypes, Executions

LEMMA UnderWay ==
  ASSUME NEW r \in Runtimes, cmd[r].pc \in {"observe", "apply", "activate", "finish", "settle"}
  PROVE  cmd[r] # NoCmd
BY DEF NoCmd

LEMMA RingKept ==
  ASSUME DocTypes, NEW op \in Operations
  PROVE  Receipts(op) \in Seq(Operations) /\ Len(Receipts(op)) <= RingSize
<1> DEFINE all == Append(doc.receipts, op)
<1>1. /\ doc.receipts \in Seq(Operations) /\ Len(doc.receipts) <= RingSize
      /\ RingSize \in Nat \ {0}
  BY TaskAssumption DEF DocTypes, Documents
<1>2. all \in Seq(Operations) /\ Len(all) = Len(doc.receipts) + 1 /\ all # <<>>
  BY <1>1
<1>3. Tail(all) \in Seq(Operations) /\ Len(Tail(all)) = Len(all) - 1
  BY <1>2
<1> QED BY <1>1, <1>2, <1>3 DEF Receipts

LEMMA DocumentTyped ==
  ASSUME TypeOK, [Next]_vars
  PROVE  DocTypes'
<1> USE TaskAssumption
<1>1. DocTypes /\ CallTypes
  BY TypeParts
<1> DEFINE next == doc.revision + 1
<1>0. next \in Nat
  BY <1>1 DEF DocTypes, Documents
<1> HIDE DEF next
<1>2. CASE Same
  BY <1>1, <1>2 DEF Same, docVars, DocTypes, Documents
<1>3. CASE Ends
  <2>1. PICK m \in Modes : doc' = [doc EXCEPT !.mode = m, !.revision = next]
    BY <1>3 DEF Ends, next
  <2>2. doc' \in Documents /\ doc'.receipts = doc.receipts
    BY <1>1, <1>0, <2>1 DEF DocTypes, Documents
  <2> QED BY <1>1, <2>2 DEF DocTypes
<1>4. CASE Charges
  BY <1>1, <1>4 DEF Charges, DocTypes, Documents
<1>5. CASE Reroutes
  <2>1. PICK route \in Routes : doc' = [doc EXCEPT !.route = route, !.revision = next]
    BY <1>5 DEF Reroutes, next
  <2>2. doc' \in Documents /\ doc'.receipts = doc.receipts
    BY <1>1, <1>0, <2>1 DEF DocTypes, Documents
  <2> QED BY <1>1, <2>2 DEF DocTypes
<1>6. ASSUME NEW r \in Runtimes, Apply(r) PROVE DocTypes'
  <2>1. cmd[r].op \in Operations
    BY <1>1, <1>6, UnderWay, CommandTypes DEF Apply
  <2>2. Receipts(cmd[r].op) \in Seq(Operations) /\ Len(Receipts(cmd[r].op)) <= RingSize
    BY <1>1, <2>1, RingKept
  <2>3. doc' = Effect(r) /\ picks \in Nat
    BY <1>1, <1>6 DEF Apply, CallTypes
  <2> DEFINE kept == [doc EXCEPT !.revision = next, !.receipts = Receipts(cmd[r].op)]
  <2>4. kept \in Documents /\ kept.receipts = Receipts(cmd[r].op)
    BY <1>1, <1>0, <2>2 DEF DocTypes, Documents
  <2>5. \/ doc' = [kept EXCEPT !.mode = "interrupted", !.runtime = r, !.selection = picks]
        \/ doc' = [kept EXCEPT !.mode = "stopped"]
        \/ doc' = [kept EXCEPT !.mode = "manual"]
    BY <2>3 DEF Effect, next
  <2> HIDE DEF kept
  <2>6. doc' \in Documents /\ doc'.receipts = kept.receipts
    BY <2>3, <2>4, <2>5 DEF Documents, Modes
  <2> QED BY <2>2, <2>4, <2>6 DEF DocTypes
<1>7. ASSUME NEW r \in Runtimes, Activate(r) PROVE DocTypes'
  BY <1>1, <1>7 DEF Activate, DocTypes, Documents, Modes
<1> QED BY <1>2, <1>3, <1>4, <1>5, <1>6, <1>7, DocumentSteps

LEMMA WithdrawnTyped ==
  ASSUME RunTypes, NEW r \in Runtimes, Withdrawn(r)
  PROVE  tool' \in [Runtimes -> BOOLEAN] /\ ctl' \in [Runtimes -> {"none", "live", "aborted"}]
BY DEF RunTypes, Withdrawn

LEMMA InstalledTyped ==
  ASSUME RunTypes, NEW r \in Runtimes, Installed(r)
  PROVE  tool' \in [Runtimes -> BOOLEAN] /\ ctl' \in [Runtimes -> {"none", "live", "aborted"}]
BY DEF RunTypes, Installed

LEMMA LoadTyped ==
  ASSUME RunTypes, NEW r \in Runtimes, Load(r)
  PROVE  tool' \in [Runtimes -> BOOLEAN] /\ ctl' \in [Runtimes -> {"none", "live", "aborted"}]
BY WithdrawnTyped DEF Load, RunTypes

LEMMA TurnsTyped ==
  ASSUME RunTypes
  PROVE  /\ NoTurn \in Requests /\ Over \in Requests /\ Cancelled(turn) \in Requests
         /\ \A r \in Runtimes : CutOff(r, turn) \in Requests
         /\ \A r \in Runtimes : [NoTurn EXCEPT !.pc = "hook", !.by = r] \in Requests
<1> USE TaskAssumption
<1>1. turn \in Requests
  BY DEF RunTypes
<1>2. NoTurn \in Requests
  BY DEF NoTurn, Requests
<1>3. Over \in Requests
  BY <1>1, <1>2 DEF Over, Requests
<1>4. Cancelled(turn) \in Requests
  BY <1>1 DEF Cancelled, Requests
<1>5. \A r \in Runtimes : CutOff(r, turn) \in Requests
  BY <1>1 DEF CutOff, Requests
<1>6. \A r \in Runtimes : [NoTurn EXCEPT !.pc = "hook", !.by = r] \in Requests
  BY <1>2 DEF Requests
<1> QED BY <1>2, <1>3, <1>4, <1>5, <1>6

LEMMA RunsTyped ==
  ASSUME TypeOK, [Next]_vars
  PROVE  RunTypes'
<1>1. DocTypes /\ RunTypes /\ CallTypes
  BY TypeParts
<1>2. turn \in Requests /\ doc.route \in Routes /\ doc.revision \in Nat
  BY <1>1 DEF RunTypes, DocTypes, Documents
<1>3. ASSUME NEW r \in Runtimes, LoadAlone(r), UNCHANGED phase PROVE RunTypes'
  <2>1. turn' \in Requests
    BY <1>1, <1>3, TurnsTyped DEF LoadAlone, RunTypes
  <2> QED BY <1>1, <1>3, <2>1, LoadTyped DEF LoadAlone, RunTypes
<1>4. ASSUME NEW r \in Runtimes, Poll(r) PROVE RunTypes'
  BY <1>3, <1>4 DEF Poll
<1>5. ASSUME NEW r \in Runtimes, CommandStep(r) PROVE RunTypes'
  <2>1. CASE Observe(r)
    BY <1>3, <2>1 DEF Observe
  <2>2. CASE Finish(r)
    BY <1>3, <2>2 DEF Finish
  <2>3. CASE Settle(r)
    <3>1. CASE cmd[r].auto
      BY <1>1, <2>3, <3>1, InstalledTyped DEF Settle, RunTypes
    <3>2. CASE ~cmd[r].auto
      <4>1. turn' \in Requests
        BY <1>1, <2>3, <3>2, TurnsTyped DEF Settle
      <4> QED BY <1>1, <2>3, <3>2, <4>1, WithdrawnTyped DEF Settle, RunTypes
    <3> QED BY <3>1, <3>2
  <2>4. CASE Apply(r) \/ ApplyAgain(r) \/ Refuse(r) \/ Activate(r) \/ ActivateFails(r)
    BY <1>1, <2>4 DEF Apply, ApplyAgain, Refuse, Activate, ActivateFails, RunTypes, runVars
  <2> QED BY <1>5, <2>1, <2>2, <2>3, <2>4 DEF CommandStep
<1>6. ASSUME NEW r \in Runtimes, RequestStep(r) PROVE RunTypes'
  <2>1. CASE Hook(r)
    <3>1. turn' \in Requests
      BY <1>1, <1>2, <2>1, TurnsTyped DEF Hook, Requests
    <3> QED BY <1>1, <2>1, <3>1, LoadTyped DEF Hook, RunTypes
  <2>2. CASE Stream(r)
    <3>1. turn' \in Requests
      BY <1>1, <1>2, <2>2, TurnsTyped DEF Stream, Requests
    <3> QED BY <1>1, <2>2, <3>1, LoadTyped DEF Stream, RunTypes
  <2>3. CASE Yield(r)
    BY <1>1, <2>3, TurnsTyped, WithdrawnTyped DEF Yield, RunTypes
  <2>4. CASE Install(r)
    <3>1. turn' \in Requests
      BY <1>2, <2>4 DEF Install, Go, Requests
    <3> QED BY <1>1, <2>4, <3>1, InstalledTyped DEF Install, RunTypes
  <2>5. CASE Attach(r)
    <3>1. turn' \in Requests
      <4>1. Over \in Requests /\ [turn EXCEPT !.pc = "stream"] \in Requests
        BY <1>1, <1>2, TurnsTyped DEF Requests
      <4> QED BY <2>5, <4>1 DEF Attach, Go
    <3> QED BY <1>1, <2>5, <3>1 DEF Attach, RunTypes
  <2>6. CASE Reserve(r) \/ Dispatch(r)
    <3>1. turn' \in Requests
      BY <1>2, <2>6 DEF Reserve, Dispatch, Go, Requests
    <3> QED BY <1>1, <2>6, <3>1 DEF Reserve, Dispatch, RunTypes, runVars
  <2>7. CASE ReserveRefused(r) \/ DispatchRefused(r)
    BY <1>1, <2>7, TurnsTyped DEF ReserveRefused, DispatchRefused, RunTypes, runVars
  <2>8. CASE ReserveExhausted(r)
    BY <1>1, <2>8, TurnsTyped, WithdrawnTyped DEF ReserveExhausted, Exhausted, RunTypes
  <2> QED BY <1>6, <2>1, <2>2, <2>3, <2>4, <2>5, <2>6, <2>7, <2>8 DEF RequestStep
<1>7. ASSUME NEW r \in Runtimes, BeginTurn(r) \/ NextRequest(r) PROVE RunTypes'
  BY <1>1, <1>7, TurnsTyped DEF BeginTurn, NextRequest, RunTypes, runVars
<1>8. ASSUME NEW r \in Runtimes, CallTool(r) PROVE RunTypes'
  BY <1>1, <1>2, <1>8 DEF CallTool, Go, Requests, RunTypes, runVars
<1>9. ASSUME NEW r \in Runtimes, NEW route \in Routes, ChangeRoute(r, route) PROVE RunTypes'
  BY <1>1, <1>2, <1>9 DEF ChangeRoute, Go, Requests, RunTypes, runVars
<1>10. ASSUME NEW r \in Runtimes, EndTurn(r) PROVE RunTypes'
  BY <1>1, <1>10, TurnsTyped, WithdrawnTyped DEF EndTurn, RunTypes
<1>11. ASSUME NEW r \in Runtimes, AuxExhausted(r) PROVE RunTypes'
  BY <1>1, <1>11, TurnsTyped, WithdrawnTyped DEF AuxExhausted, Exhausted, RunTypes
<1>12. ASSUME NEW r \in Runtimes, Reload(r) PROVE RunTypes'
  <2>1. turn' \in Requests
    BY <1>1, <1>12, TurnsTyped DEF Reload
  <2>2. phase' \in [Runtimes -> {"unborn", "live", "disposed", "dead"}]
    BY <1>1, <1>12 DEF Reload, RunTypes
  <2> QED BY <1>1, <1>12, <2>1, <2>2 DEF Reload, RunTypes
<1>13. ASSUME NEW r \in Runtimes, Crash(r) PROVE RunTypes'
  BY <1>1, <1>13, TurnsTyped DEF Crash, RunTypes
<1>14. CASE StopButton
  BY <1>1, <1>14, TurnsTyped DEF StopButton, RunTypes, runVars
<1>15. ASSUME UNCHANGED <<phase, tool, ctl, turn>> PROVE RunTypes'
  BY <1>1, <1>15 DEF RunTypes
<1>16. ASSUME NEW r \in Runtimes, NEW op \in Operations, NEW action \in Commands, Issue(r, op, action)
       PROVE  RunTypes'
  BY <1>15, <1>16 DEF Issue, runVars
<1>17. ASSUME NEW r \in Runtimes, AuxReserve(r) PROVE RunTypes'
  BY <1>15, <1>17 DEF AuxReserve, runVars
<1>18. CASE PickModel \/ AuxDispatch \/ AuxAbandon
  BY <1>15, <1>18 DEF PickModel, AuxDispatch, AuxAbandon, runVars
<1>19. CASE UNCHANGED vars
  BY <1>15, <1>19 DEF vars
<1>20. CASE Next
  BY <1>20, <1>4, <1>5, <1>6, <1>7, <1>8, <1>9, <1>10, <1>11, <1>12, <1>13, <1>14, <1>16, <1>17, <1>18
  DEF Next
<1> QED BY <1>19, <1>20

LEMMA CommandsTyped ==
  ASSUME CallTypes, NEW r \in Runtimes, cmd[r] # NoCmd
  PROVE  /\ [cmd EXCEPT ![r] = NoCmd] \in [Runtimes -> Executions]
         /\ \A pc \in {"apply", "activate", "finish", "settle"} :
               [cmd EXCEPT ![r].pc = pc] \in [Runtimes -> Executions]
         /\ \A auto \in BOOLEAN :
               [cmd EXCEPT ![r].pc = "settle", ![r].auto = auto] \in [Runtimes -> Executions]
<1>1. cmd \in [Runtimes -> Executions] /\ NoCmd \in Executions
  BY DEF CallTypes, Executions
<1>2. cmd[r] \in [pc : {"observe", "apply", "activate", "finish", "settle"},
                  op : Operations, auto : BOOLEAN]
  BY <1>1 DEF Executions
<1>3. \A pc \in {"apply", "activate", "finish", "settle"} : [cmd[r] EXCEPT !.pc = pc] \in Executions
  BY <1>2 DEF Executions
<1>4. \A auto \in BOOLEAN : [cmd[r] EXCEPT !.pc = "settle", !.auto = auto] \in Executions
  BY <1>2 DEF Executions
<1> QED BY <1>1, <1>3, <1>4

LEMMA CallsTyped ==
  ASSUME TypeOK, [Next]_vars
  PROVE  CallTypes'
<1>1. DocTypes /\ RunTypes /\ CallTypes
  BY TypeParts
<1> DEFINE others == <<aux, picks, userStopped, issued, sent>>
<1>2. ASSUME NEW r \in Runtimes, CommandStep(r) PROVE CallTypes'
  <2>1. cmd[r] # NoCmd
    BY <1>2, UnderWay DEF CommandStep, Observe, Apply, ApplyAgain, Refuse, Activate, ActivateFails, Finish, Settle
  <2>2. cmd[r].op \in Operations
    BY <1>1, <2>1, CommandTypes
  <2>3. cmd' \in [Runtimes -> Executions]
    <3>1. CASE Observe(r)
      BY <1>1, <2>1, <3>1, CommandsTyped DEF Observe, Move, Answer
    <3>2. CASE Apply(r) \/ ApplyAgain(r)
      BY <1>1, <2>1, <3>2, CommandsTyped DEF Apply, ApplyAgain, Move
    <3>3. CASE Refuse(r) \/ ActivateFails(r) \/ Settle(r)
      BY <1>1, <2>1, <3>3, CommandsTyped DEF Refuse, ActivateFails, Settle, Answer
    <3>4. CASE Activate(r)
      BY <1>1, <2>1, <3>4, CommandsTyped DEF Activate, Move
    <3>5. CASE Finish(r)
      BY <1>1, <2>1, <3>5, CommandsTyped DEF Finish
    <3> QED BY <1>2, <3>1, <3>2, <3>3, <3>4, <3>5 DEF CommandStep
  <2>4. maint' \in Runtimes \union {0}
    BY <1>1, <1>2
    DEF CommandStep, Observe, Apply, ApplyAgain, Refuse, Activate, ActivateFails, Finish, Settle, CallTypes
  <2>5. applied' \in [Operations -> Nat] /\ given' \subseteq Operations
    BY <1>1, <1>2, <2>2
    DEF CommandStep, Observe, Apply, ApplyAgain, Refuse, Activate, ActivateFails, Finish, Settle, CallTypes, docVars
  <2>6. revoked' \in BOOLEAN
    BY <1>1, <1>2
    DEF CommandStep, Observe, Apply, ApplyAgain, Refuse, Activate, ActivateFails, Finish, Settle, CallTypes
  <2>7. UNCHANGED others
    BY <1>2
    DEF CommandStep, Observe, Apply, ApplyAgain, Refuse, Activate, ActivateFails, Finish, Settle, hostVars
  <2> QED BY <1>1, <2>3, <2>4, <2>5, <2>6, <2>7 DEF CallTypes
<1>3. ASSUME NEW r \in Runtimes, NEW op \in Operations, NEW action \in Commands, Issue(r, op, action)
      PROVE  CallTypes'
  <2>1. cmd' \in [Runtimes -> Executions]
    BY <1>1, <1>3 DEF Issue, CallTypes, Executions
  <2>2. issued' \in [Operations -> {<<>>} \union (Commands \X Nat)]
    <3>1. doc.revision \in Nat
      BY <1>1 DEF DocTypes, Documents
    <3> QED BY <1>1, <1>3, <3>1 DEF Issue, CallTypes
  <2> QED BY <1>1, <1>3, <2>1, <2>2 DEF Issue, CallTypes, hostVars
<1>4. ASSUME NEW r \in Runtimes, RequestStep(r) PROVE CallTypes'
  <2>1. UNCHANGED <<cmd, maint, aux, picks, userStopped, issued, applied, given, revoked>>
    BY <1>4
    DEF RequestStep, Hook, Yield, Install, Stream, Attach, Reserve, ReserveRefused, ReserveExhausted,
        Dispatch, DispatchRefused, hostVars, docVars
  <2>2. sent' \in Nat
    BY <1>1, <1>4
    DEF RequestStep, Hook, Yield, Install, Stream, Attach, Reserve, ReserveRefused, ReserveExhausted,
        Dispatch, DispatchRefused, CallTypes
  <2> QED BY <1>1, <2>1, <2>2 DEF CallTypes
<1>5. ASSUME NEW r \in Runtimes, Poll(r) \/ BeginTurn(r) \/ CallTool(r) \/ NextRequest(r) \/ AuxExhausted(r)
             \/ Reload(r)
      PROVE  CallTypes'
  BY <1>1, <1>5
  DEF Poll, BeginTurn, CallTool, NextRequest, AuxExhausted, Reload, CallTypes, hostVars, docVars
<1>6. ASSUME NEW r \in Runtimes, NEW route \in Routes, ChangeRoute(r, route) PROVE CallTypes'
  BY <1>1, <1>6 DEF ChangeRoute, CallTypes, hostVars
<1>7. ASSUME NEW r \in Runtimes, EndTurn(r) PROVE CallTypes'
  BY <1>1, <1>7 DEF EndTurn, CallTypes, docVars
<1>8. ASSUME NEW r \in Runtimes, AuxReserve(r) PROVE CallTypes'
  BY <1>1, <1>8 DEF AuxReserve, CallTypes, hostVars
<1>9. ASSUME NEW r \in Runtimes, Crash(r) PROVE CallTypes'
  BY <1>1, <1>9 DEF Crash, CallTypes, Executions, hostVars, docVars
<1>10. CASE StopButton \/ AuxDispatch \/ AuxAbandon
  <2>1. UNCHANGED <<cmd, maint, picks, userStopped, issued, applied, given, revoked>>
    BY <1>10 DEF StopButton, AuxDispatch, AuxAbandon, hostVars, docVars
  <2>2. sent' \in Nat
    BY <1>1, <1>10 DEF StopButton, AuxDispatch, AuxAbandon, CallTypes
  <2>3. aux' \in BOOLEAN
    BY <1>1, <1>10 DEF StopButton, AuxDispatch, AuxAbandon, CallTypes
  <2> QED BY <1>1, <2>1, <2>2, <2>3 DEF CallTypes
<1>11. CASE PickModel
  BY <1>1, <1>11 DEF PickModel, CallTypes, docVars
<1>12. CASE UNCHANGED vars
  BY <1>1, <1>12 DEF vars, CallTypes
<1>13. CASE Next
  BY <1>13, <1>2, <1>3, <1>4, <1>5, <1>6, <1>7, <1>8, <1>9, <1>10, <1>11 DEF Next
<1> QED BY <1>12, <1>13

LEMMA InitTyped == Init => TypeOK
<1> SUFFICES ASSUME Init PROVE TypeOK
  OBVIOUS
<1> USE TaskAssumption
<1>1. DocTypes
  BY DEF Init, DocTypes, Documents, NoDoc, Modes
<1>2. RunTypes
  BY DEF Init, RunTypes, NoTurn, Requests
<1>3. CallTypes
  BY DEF Init, CallTypes, Executions, Runtimes
<1> QED BY <1>1, <1>2, <1>3, TypeParts

\* Every variable keeps its type, the charge its limit and the ring its size.
THEOREM TypeCorrect == Spec => []TypeOK
<1>1. TypeOK /\ [Next]_vars => TypeOK'
  BY DocumentTyped, RunsTyped, CallsTyped, TypeParts
<1> QED BY InitTyped, <1>1, PTL DEF Spec

-----------------------------------------------------------------------------
(* Operations.                                                             *)

\* An operation that took effect had seen an earlier revision.
Effected ==
    \A op \in Operations :
        /\ applied[op] <= 1
        /\ applied[op] # 0 => issued[op] # <<>> /\ issued[op][2] < doc.revision

\* An operation that gave the grant was the last to change the document, and
\* the grant is still in force, or the document has gone on since.
Spent ==
    \A op \in given :
        /\ issued[op] # <<>>
        /\ doc.revision >= issued[op][2] + 1
        /\ doc.revision = issued[op][2] + 1 => doc.mode = "auto"

\* Only a page issues operations.
LEMMA IssueSteps ==
  ASSUME [Next]_vars
  PROVE  \/ issued' = issued
         \/ \E r \in Runtimes, op \in Operations, action \in Commands : Issue(r, op, action)
<1>1. ASSUME NEW r \in Runtimes, CommandStep(r) PROVE issued' = issued
  BY <1>1 DEF CommandStep, Observe, Apply, ApplyAgain, Refuse, Activate, ActivateFails, Finish, Settle
<1>2. ASSUME NEW r \in Runtimes, RequestStep(r) PROVE issued' = issued
  BY <1>2
  DEF RequestStep, Hook, Yield, Install, Stream, Attach, Reserve, ReserveRefused, ReserveExhausted,
      Dispatch, DispatchRefused
<1>3. ASSUME NEW r \in Runtimes,
             Poll(r) \/ BeginTurn(r) \/ CallTool(r) \/ NextRequest(r) \/ EndTurn(r)
               \/ AuxReserve(r) \/ AuxExhausted(r) \/ Reload(r) \/ Crash(r)
      PROVE  issued' = issued
  BY <1>3 DEF Poll, BeginTurn, CallTool, NextRequest, EndTurn, AuxReserve, AuxExhausted, Reload, Crash
<1>4. ASSUME NEW r \in Runtimes, NEW route \in Routes, ChangeRoute(r, route) PROVE issued' = issued
  BY <1>4 DEF ChangeRoute
<1>5. CASE StopButton \/ PickModel \/ AuxDispatch \/ AuxAbandon \/ UNCHANGED vars
  BY <1>5 DEF StopButton, PickModel, AuxDispatch, AuxAbandon, vars
<1> QED BY <1>1, <1>2, <1>3, <1>4, <1>5 DEF Next

LEMMA IssuedFixed ==
  ASSUME TypeOK, [Next]_vars
  PROVE  \A op \in Operations : issued[op] # <<>> => issued'[op] = issued[op]
<1>1. ASSUME NEW r \in Runtimes, NEW op \in Operations, NEW action \in Commands, Issue(r, op, action)
      PROVE  \A other \in Operations : issued[other] # <<>> => issued'[other] = issued[other]
  BY <1>1 DEF Issue, TypeOK
<1> QED BY <1>1, IssueSteps

\* A call is a new one, or it goes on with its operation.
LEMMA CallsContinue ==
  ASSUME TypeOK, [Next]_vars, NEW q \in Runtimes, cmd'[q] # NoCmd
  PROVE  \/ cmd[q] # NoCmd /\ cmd'[q].op = cmd[q].op
         \/ cmd'[q].op \in Operations /\ issued'[cmd'[q].op] # <<>> /\ cmd'[q].pc = "observe"
<1>1. cmd \in [Runtimes -> Executions] /\ issued \in [Operations -> {<<>>} \union (Commands \X Nat)]
  BY DEF TypeOK
<1>2. ASSUME NEW r \in Runtimes, CommandStep(r) PROVE cmd[q] # NoCmd /\ cmd'[q].op = cmd[q].op
  <2>1. cmd[r] # NoCmd
    BY <1>2, UnderWay DEF CommandStep, Observe, Apply, ApplyAgain, Refuse, Activate, ActivateFails, Finish, Settle
  <2>2. cmd[r] \in [pc : {"observe", "apply", "activate", "finish", "settle"},
                    op : Operations, auto : BOOLEAN]
    BY <1>1, <2>1 DEF Executions
  <2>3. Answer(r) \/ Move(r, "apply") \/ Move(r, "activate") \/ Move(r, "finish")
        \/ cmd' = [cmd EXCEPT ![r].pc = "settle", ![r].auto = (Loaded(r).mode = "auto")]
    BY <1>2 DEF CommandStep, Observe, Apply, ApplyAgain, Refuse, Activate, ActivateFails, Finish, Settle
  <2>4. CASE q # r
    BY <1>1, <2>3, <2>4 DEF Answer, Move
  <2>5. CASE q = r
    BY <1>1, <2>1, <2>2, <2>3, <2>5 DEF Answer, Move
  <2> QED BY <2>4, <2>5
<1>3. ASSUME NEW r \in Runtimes, NEW op \in Operations, NEW action \in Commands, Issue(r, op, action)
      PROVE  \/ cmd[q] # NoCmd /\ cmd'[q].op = cmd[q].op
             \/ cmd'[q].op \in Operations /\ issued'[cmd'[q].op] # <<>> /\ cmd'[q].pc = "observe"
  <2>1. issued'[op] # <<>>
    <3>1. CASE issued[op] = <<>>
      <4>1. issued'[op] = <<action, doc.revision>>
        BY <1>1, <1>3, <3>1 DEF Issue
      <4> QED BY <4>1
    <3>2. CASE issued[op] # <<>>
      BY <1>3, <3>2 DEF Issue
    <3> QED BY <3>1, <3>2
  <2>2. cmd' = [cmd EXCEPT ![r] = [pc |-> "observe", op |-> op, auto |-> FALSE]]
    BY <1>3 DEF Issue
  <2> QED BY <1>1, <2>1, <2>2
<1>4. ASSUME cmd' = cmd PROVE cmd[q] # NoCmd /\ cmd'[q].op = cmd[q].op
  BY <1>4
<1>5. ASSUME NEW r \in Runtimes, RequestStep(r) PROVE cmd' = cmd
  BY <1>5
  DEF RequestStep, Hook, Yield, Install, Stream, Attach, Reserve, ReserveRefused, ReserveExhausted,
      Dispatch, DispatchRefused
<1>6. ASSUME NEW r \in Runtimes,
             Poll(r) \/ BeginTurn(r) \/ CallTool(r) \/ NextRequest(r) \/ EndTurn(r)
               \/ AuxReserve(r) \/ AuxExhausted(r) \/ Reload(r)
      PROVE  cmd' = cmd
  BY <1>6 DEF Poll, BeginTurn, CallTool, NextRequest, EndTurn, AuxReserve, AuxExhausted, Reload
<1>7. ASSUME NEW r \in Runtimes, NEW route \in Routes, ChangeRoute(r, route) PROVE cmd' = cmd
  BY <1>7 DEF ChangeRoute
<1>8. ASSUME NEW r \in Runtimes, Crash(r) PROVE FALSE
  BY <1>8 DEF Crash
<1>9. CASE StopButton \/ PickModel \/ AuxDispatch \/ AuxAbandon \/ UNCHANGED vars
  BY <1>4, <1>9 DEF StopButton, PickModel, AuxDispatch, AuxAbandon, vars
<1> QED BY <1>2, <1>3, <1>4, <1>5, <1>6, <1>7, <1>8, <1>9 DEF Next

LEMMA KnownKept ==
  ASSUME TypeOK, Known, [Next]_vars
  PROVE  Known'
<1> SUFFICES ASSUME NEW q \in Runtimes, cmd'[q] # NoCmd PROVE issued'[cmd'[q].op] # <<>>
  BY DEF Known
<1>1. CASE cmd[q] # NoCmd /\ cmd'[q].op = cmd[q].op
  <2>1. issued[cmd[q].op] # <<>> /\ cmd[q].op \in Operations
    BY <1>1, TypeParts, CommandTypes DEF Known
  <2> QED BY <1>1, <2>1, IssuedFixed
<1> QED BY <1>1, CallsContinue

\* What a command under way carries.
LEMMA Carried ==
  ASSUME TypeOK, Known, NEW r \in Runtimes, cmd[r] # NoCmd
  PROVE  cmd[r].op \in Operations /\ Action(r) \in Commands /\ Expected(r) \in Nat
<1>1. cmd[r].op \in Operations /\ issued[cmd[r].op] # <<>>
  BY TypeParts, CommandTypes DEF Known
<1>2. issued[cmd[r].op] \in Commands \X Nat
  BY <1>1 DEF TypeOK
<1> QED BY <1>1, <1>2 DEF Action, Expected

LEMMA RevisionGrows ==
  ASSUME TypeOK, [Next]_vars
  PROVE  /\ doc.revision \in Nat /\ doc'.revision \in Nat
         /\ doc'.revision >= doc.revision
         /\ doc'.revision = doc.revision /\ doc.mode = "auto" => doc'.mode = "auto"
<1>1. doc \in Documents
  BY DEF TypeOK
<1>2. CASE Same
  BY <1>1, <1>2 DEF Same, docVars, Documents
<1>3. CASE Ends
  <2>1. PICK m \in Modes : doc' = [doc EXCEPT !.mode = m, !.revision = @ + 1]
    BY <1>3 DEF Ends
  <2>2. doc'.revision = doc.revision + 1
    BY <1>1, <2>1 DEF Documents
  <2> QED BY <1>1, <2>2 DEF Documents
<1>4. CASE Charges
  BY <1>1, <1>4 DEF Charges, Documents
<1>5. CASE Reroutes
  <2>1. PICK route \in Routes : doc' = [doc EXCEPT !.route = route, !.revision = @ + 1]
    BY <1>5 DEF Reroutes
  <2>2. doc'.revision = doc.revision + 1
    BY <1>1, <2>1 DEF Documents
  <2> QED BY <1>1, <2>2 DEF Documents
<1>6. ASSUME NEW r \in Runtimes, Apply(r) PROVE doc'.revision = doc.revision + 1
  BY <1>1, <1>6 DEF Apply, Effect, Documents
<1>7. ASSUME NEW r \in Runtimes, Activate(r) PROVE doc'.revision = doc.revision /\ doc'.mode = "auto"
  BY <1>1, <1>7 DEF Activate, Documents
<1>8. doc.revision \in Nat
  BY <1>1 DEF Documents
<1> QED BY <1>2, <1>3, <1>4, <1>5, <1>6, <1>7, <1>8, DocumentSteps

LEMMA EffectedKept ==
  ASSUME TypeOK, Known, Effected, [Next]_vars
  PROVE  Effected'
<1> SUFFICES ASSUME NEW op \in Operations
             PROVE  /\ applied'[op] <= 1
                    /\ applied'[op] # 0 => issued'[op] # <<>> /\ issued'[op][2] < doc'.revision
  BY DEF Effected
<1>1. issued[op] \in {<<>>} \union (Commands \X Nat) /\ applied[op] \in Nat
  BY DEF TypeOK
<1>2. /\ doc.revision \in Nat /\ doc'.revision \in Nat /\ doc'.revision >= doc.revision
      /\ issued[op] # <<>> => issued'[op] = issued[op]
  BY RevisionGrows, IssuedFixed
<1>3. ASSUME applied'[op] = applied[op]
      PROVE  /\ applied'[op] <= 1
             /\ applied'[op] # 0 => issued'[op] # <<>> /\ issued'[op][2] < doc'.revision
  BY <1>1, <1>2, <1>3 DEF Effected
<1>4. ASSUME NEW r \in Runtimes, Apply(r), cmd[r].op = op
      PROVE  /\ applied'[op] <= 1
             /\ applied'[op] # 0 => issued'[op] # <<>> /\ issued'[op][2] < doc'.revision
  <2>1. cmd[r] # NoCmd /\ Expected(r) = issued[op][2] /\ doc.revision = Expected(r)
    BY <1>4, UnderWay DEF Apply, Applicable, Expected
  <2>2. issued[op] # <<>> /\ issued[op][2] \in Nat
    BY <1>1, <1>4, <2>1, Carried DEF Known
  <2>3. applied[op] = 0
    BY <1>1, <2>1, <2>2 DEF Effected
  <2>4. applied' = [applied EXCEPT ![op] = @ + 1] /\ applied \in [Operations -> Nat]
    BY <1>4 DEF Apply, TypeOK
  <2>5. doc'.revision = doc.revision + 1
    BY <1>4 DEF Apply, Effect, TypeOK, Documents
  <2> QED BY <1>2, <2>1, <2>2, <2>3, <2>4, <2>5
<1>5. ASSUME NEW r \in Runtimes, Apply(r), cmd[r].op # op PROVE applied'[op] = applied[op]
  BY <1>5 DEF Apply, TypeOK
<1>6. ASSUME NEW r \in Runtimes, Activate(r) PROVE applied'[op] = applied[op]
  BY <1>6 DEF Activate
<1>7. CASE Same \/ Ends \/ Charges \/ Reroutes
  BY <1>3, <1>7 DEF Same, docVars, Ends, Charges, Reroutes
<1> QED BY <1>3, <1>4, <1>5, <1>6, <1>7, DocumentSteps

LEMMA SpentKept ==
  ASSUME TypeOK, Known, Spent, [Next]_vars
  PROVE  Spent'
<1> SUFFICES ASSUME NEW op \in given'
             PROVE  /\ issued'[op] # <<>>
                    /\ doc'.revision >= issued'[op][2] + 1
                    /\ doc'.revision = issued'[op][2] + 1 => doc'.mode = "auto"
  BY DEF Spent
<1>1. given \subseteq Operations
  BY DEF TypeOK
<1>2. CASE op \in given
  <2>1. op \in Operations /\ issued[op] \in {<<>>} \union (Commands \X Nat)
    BY <1>1, <1>2 DEF TypeOK
  <2>2. /\ issued[op] # <<>> /\ issued'[op] = issued[op] /\ issued[op][2] \in Nat
        /\ doc.revision >= issued[op][2] + 1
        /\ doc.revision = issued[op][2] + 1 => doc.mode = "auto"
    BY <1>2, <2>1, IssuedFixed DEF Spent
  <2> QED BY <2>2, RevisionGrows
<1>3. ASSUME NEW r \in Runtimes, Activate(r), op = cmd[r].op
      PROVE  /\ issued'[op] # <<>>
             /\ doc'.revision >= issued'[op][2] + 1
             /\ doc'.revision = issued'[op][2] + 1 => doc'.mode = "auto"
  <2>1. cmd[r] # NoCmd /\ issued[op] # <<>>
    BY <1>3, UnderWay DEF Activate, Known
  <2>2. doc.revision = issued[op][2] + 1 /\ issued' = issued
    BY <1>3 DEF Activate, Activatable, Expected
  <2>3. doc'.revision = doc.revision /\ doc'.mode = "auto" /\ doc.revision \in Nat
    BY <1>3 DEF Activate, TypeOK, Documents
  <2> QED BY <2>1, <2>2, <2>3
<1>4. op \in given \/ \E r \in Runtimes : Activate(r) /\ op = cmd[r].op
  BY DocumentSteps DEF Same, docVars, Ends, Charges, Reroutes, Apply, Activate
<1> QED BY <1>2, <1>3, <1>4

\* An operation takes effect once, whatever has become of its receipt.
THEOREM OperationsOnce == Spec => []AppliedOnce
<1>1. Init => Known /\ Effected
  BY DEF Init, Known, Effected
<1>2. TypeOK /\ Known /\ Effected /\ [Next]_vars => Known' /\ Effected'
  BY KnownKept, EffectedKept
<1>3. Effected => AppliedOnce
  BY DEF Effected, AppliedOnce
<1> QED BY <1>1, <1>2, <1>3, TypeCorrect, PTL DEF Spec

-----------------------------------------------------------------------------
(* The promise made to the user.                                           *)

\* What has left, and what is about to leave, has been charged.
Charged ==
    sent + (IF turn.pc = "reserved" THEN 1 ELSE 0) + (IF aux THEN 1 ELSE 0) <= doc.reserved

\* A step that neither charges nor sends.
Quiet ==
    /\ sent' = sent
    /\ aux' => aux
    /\ turn'.pc = "reserved" => turn.pc = "reserved"
    /\ doc'.reserved = doc.reserved

LEMMA CutKeepsStage ==
  ASSUME TypeOK
  PROVE  /\ \A r \in Runtimes : CutOff(r, turn).pc = turn.pc
         /\ Cancelled(turn).pc = turn.pc
         /\ NoTurn.pc = "none" /\ Over.pc = "over"
BY DEF TypeOK, Requests, CutOff, Cancelled, NoTurn, Over

LEMMA StaysCharged ==
  ASSUME TypeOK
  PROVE  Same \/ Ends \/ Reroutes \/ (\E r \in Runtimes : Apply(r) \/ Activate(r))
           => doc'.reserved = doc.reserved
<1>1. doc \in Documents
  BY DEF TypeOK
<1>2. CASE Same
  BY <1>2 DEF Same, docVars
<1>3. CASE Ends
  BY <1>1, <1>3 DEF Ends, Documents
<1>4. CASE Reroutes
  BY <1>1, <1>4 DEF Reroutes, Documents
<1>5. ASSUME NEW r \in Runtimes, Apply(r) PROVE doc'.reserved = doc.reserved
  BY <1>1, <1>5 DEF Apply, Effect, Documents
<1>6. ASSUME NEW r \in Runtimes, Activate(r) PROVE doc'.reserved = doc.reserved
  BY <1>1, <1>6 DEF Activate, Documents
<1> QED BY <1>2, <1>3, <1>4, <1>5, <1>6

LEMMA LoadQuiet ==
  ASSUME TypeOK, NEW r \in Runtimes, Load(r)
  PROVE  doc'.reserved = doc.reserved
BY DEF TypeOK, Documents, Load, Loaded

LEMMA ChargeSteps ==
  ASSUME TypeOK, [Next]_vars
  PROVE  \/ Quiet \/ AuxDispatch
         \/ \E r \in Runtimes : Reserve(r) \/ AuxReserve(r) \/ Dispatch(r)
<1>1. turn \in Requests /\ doc \in Documents
  BY DEF TypeOK
<1>2. ASSUME NEW r \in Runtimes, LoadAlone(r), UNCHANGED <<aux, sent>> PROVE Quiet
  BY <1>2, LoadQuiet, CutKeepsStage DEF LoadAlone, Quiet
<1>3. ASSUME NEW r \in Runtimes, CommandStep(r) PROVE Quiet
  <2>1. CASE Observe(r) \/ Finish(r)
    BY <1>2, <2>1 DEF Observe, Finish
  <2>2. CASE Settle(r)
    BY <2>2, CutKeepsStage DEF Settle, docVars, Quiet
  <2>3. CASE Apply(r) \/ Activate(r)
    BY <2>3, StaysCharged DEF Apply, Activate, Quiet
  <2>4. CASE ApplyAgain(r) \/ Refuse(r) \/ ActivateFails(r)
    BY <2>4 DEF ApplyAgain, Refuse, ActivateFails, docVars, Quiet
  <2> QED BY <1>3, <2>1, <2>2, <2>3, <2>4 DEF CommandStep
<1>4. ASSUME NEW r \in Runtimes, RequestStep(r), ~Reserve(r), ~Dispatch(r) PROVE Quiet
  <2>1. CASE Hook(r)
    BY <1>1, <2>1, LoadQuiet, CutKeepsStage DEF Hook, Quiet, Requests
  <2>2. CASE Stream(r)
    BY <1>1, <2>2, LoadQuiet, CutKeepsStage DEF Stream, Quiet, Requests
  <2>3. CASE Yield(r)
    BY <1>1, <2>3, CutKeepsStage DEF Yield, Quiet, Documents
  <2>4. CASE Install(r) \/ Attach(r)
    BY <1>1, <2>4, CutKeepsStage DEF Install, Attach, Go, Quiet, Requests, docVars
  <2>5. CASE ReserveRefused(r) \/ DispatchRefused(r)
    BY <2>5, CutKeepsStage DEF ReserveRefused, DispatchRefused, Quiet, docVars
  <2>6. CASE ReserveExhausted(r)
    BY <1>1, <2>6, CutKeepsStage DEF ReserveExhausted, Exhausted, Quiet, Documents
  <2> QED BY <1>4, <2>1, <2>2, <2>3, <2>4, <2>5, <2>6 DEF RequestStep
<1>5. ASSUME NEW r \in Runtimes, BeginTurn(r) \/ CallTool(r) \/ NextRequest(r) \/ EndTurn(r) PROVE Quiet
  <2>1. turn'.pc # "reserved"
    <3>1. CASE BeginTurn(r) \/ NextRequest(r)
      BY <3>1 DEF BeginTurn, NextRequest, NoTurn
    <3>2. CASE CallTool(r)
      BY <1>1, <3>2 DEF CallTool, Go, Requests
    <3>3. CASE EndTurn(r)
      BY <3>3, CutKeepsStage DEF EndTurn
    <3> QED BY <1>5, <3>1, <3>2, <3>3
  <2>2. UNCHANGED <<sent, aux, doc>>
    BY <1>5 DEF BeginTurn, CallTool, NextRequest, EndTurn, docVars
  <2> QED BY <2>1, <2>2 DEF Quiet
<1>6. ASSUME NEW r \in Runtimes, NEW route \in Routes, ChangeRoute(r, route) PROVE Quiet
  BY <1>1, <1>6 DEF ChangeRoute, Go, Quiet, Requests, Documents
<1>7. ASSUME NEW r \in Runtimes, Reload(r) \/ Crash(r) PROVE Quiet
  BY <1>7, CutKeepsStage DEF Reload, Crash, Quiet, docVars
<1>8. ASSUME NEW r \in Runtimes, AuxExhausted(r) PROVE Quiet
  BY <1>1, <1>8, CutKeepsStage DEF AuxExhausted, Exhausted, Quiet, Documents
<1>9. ASSUME NEW r \in Runtimes, Poll(r) PROVE Quiet
  BY <1>2, <1>9 DEF Poll
<1>10. ASSUME NEW r \in Runtimes, NEW op \in Operations, NEW action \in Commands, Issue(r, op, action)
       PROVE  Quiet
  BY <1>10 DEF Issue, Quiet
<1>11. CASE StopButton \/ PickModel \/ AuxAbandon \/ UNCHANGED vars
  BY <1>11, CutKeepsStage DEF StopButton, PickModel, AuxAbandon, vars, Quiet, docVars
<1> QED BY <1>3, <1>4, <1>5, <1>6, <1>7, <1>8, <1>9, <1>10, <1>11 DEF Next

LEMMA ChargedKept ==
  ASSUME TypeOK, Charged, [Next]_vars
  PROVE  Charged'
<1>1. /\ turn \in Requests /\ doc \in Documents /\ aux \in BOOLEAN
      /\ sent \in Nat /\ doc.reserved \in Nat
  BY TaskAssumption DEF TypeOK, Documents
<1>2. CASE Quiet
  BY <1>1, <1>2 DEF Quiet, Charged
<1>3. ASSUME NEW r \in Runtimes, Reserve(r) PROVE Charged'
  <2>1. turn.pc = "stream" /\ sent' = sent /\ aux' = aux /\ doc'.reserved = doc.reserved + 1
    BY <1>1, <1>3 DEF Reserve, Step, Documents
  <2> QED BY <1>1, <2>1 DEF Charged
<1>4. ASSUME NEW r \in Runtimes, AuxReserve(r) PROVE Charged'
  <2>1. ~aux /\ sent' = sent /\ turn' = turn /\ doc'.reserved = doc.reserved + 1
    BY <1>1, <1>4 DEF AuxReserve, Documents
  <2> QED BY <1>1, <2>1 DEF Charged
<1>5. ASSUME NEW r \in Runtimes, Dispatch(r) PROVE Charged'
  <2>1. turn.pc = "reserved" /\ turn'.pc = "stream" /\ sent' = sent + 1 /\ aux' = aux /\ doc' = doc
    BY <1>1, <1>5 DEF Dispatch, Step, Go, Requests, docVars
  <2> QED BY <1>1, <2>1 DEF Charged
<1>6. CASE AuxDispatch
  <2>1. aux /\ ~aux' /\ turn' = turn /\ sent' = sent + 1 /\ doc' = doc
    BY <1>6 DEF AuxDispatch, docVars
  <2> QED BY <1>1, <2>1 DEF Charged
<1> QED BY <1>2, <1>3, <1>4, <1>5, <1>6, ChargeSteps

LEMMA SameSends ==
  ASSUME TypeOK, Charged, [Next]_vars
  PROVE  \/ sent' = sent
         \/ Same /\ sent' = sent + 1 /\ sent < doc.reserved
<1>1. /\ turn \in Requests /\ aux \in BOOLEAN
      /\ sent \in Nat /\ doc.reserved \in Nat
  BY TaskAssumption DEF TypeOK, Documents
<1>2. ASSUME NEW r \in Runtimes, Reserve(r) \/ AuxReserve(r) PROVE sent' = sent
  BY <1>2 DEF Reserve, AuxReserve
<1>3. ASSUME NEW r \in Runtimes, Dispatch(r) PROVE Same /\ sent' = sent + 1 /\ sent < doc.reserved
  <2>1. turn.pc = "reserved"
    BY <1>3 DEF Dispatch, Step
  <2> QED BY <1>1, <1>3, <2>1 DEF Dispatch, Charged, Same, docVars
<1>4. CASE AuxDispatch
  <2>1. sent < doc.reserved
    BY <1>1, <1>4 DEF AuxDispatch, Charged
  <2> QED BY <1>4, <2>1 DEF AuxDispatch, Same, docVars
<1> QED BY <1>2, <1>3, <1>4, ChargeSteps DEF Quiet

\* The task implements TaskGrant: the initial states are initial states, and
\* every step is a step of the promise or changes nothing it speaks of.
LEMMA GrantStarts == Init => Grant!Init
BY DEF Init, NoDoc, Grant!Init

LEMMA GrantSteps ==
  ASSUME TypeOK, Known, Spent, Charged, [Next]_vars
  PROVE  [Grant!Next]_(Grant!vars)
<1>1. doc \in Documents /\ doc.reserved \in Nat
  BY TaskAssumption DEF TypeOK, Documents
<1>2. ASSUME Same PROVE [Grant!Next]_(Grant!vars)
  BY <1>2, SameSends DEF Same, docVars, Grant!Next, Grant!Send, Grant!vars
<1>3. ASSUME sent' = sent, Ends PROVE [Grant!Next]_(Grant!vars)
  <2>1. /\ given' = given /\ doc'.reserved = doc.reserved
        /\ doc'.mode # "auto"
    BY <1>1, <1>3, StaysCharged DEF Ends, Documents
  <2> QED BY <1>3, <2>1 DEF Grant!Next, Grant!Withdraw, Grant!vars
<1>4. ASSUME sent' = sent, Charges PROVE [Grant!Next]_(Grant!vars)
  <2>1. /\ given' = given /\ doc'.reserved = doc.reserved + 1 /\ doc.reserved < Limit
        /\ doc.mode = "auto" /\ doc'.mode = "auto"
    BY <1>1, <1>4 DEF Charges, Documents
  <2> QED BY <1>4, <2>1 DEF Grant!Next, Grant!Count
<1>5. ASSUME sent' = sent, Reroutes PROVE [Grant!Next]_(Grant!vars)
  <2>1. given' = given /\ doc'.reserved = doc.reserved /\ doc'.mode = doc.mode
    BY <1>1, <1>5, StaysCharged DEF Reroutes, Documents
  <2> QED BY <1>5, <2>1 DEF Grant!vars
<1>6. ASSUME NEW r \in Runtimes, sent' = sent, Apply(r) PROVE [Grant!Next]_(Grant!vars)
  <2>1. given' = given /\ doc'.reserved = doc.reserved
    BY <1>6, StaysCharged DEF Apply
  <2>2. doc'.mode # "auto"
    BY <1>1, <1>6 DEF Apply, Effect, Documents
  <2> QED BY <1>6, <2>1, <2>2 DEF Grant!Next, Grant!Withdraw, Grant!vars
<1>7. ASSUME NEW r \in Runtimes, sent' = sent, Activate(r) PROVE [Grant!Next]_(Grant!vars)
  <2>1. cmd[r] # NoCmd /\ cmd[r].op \in Operations
    BY <1>7, UnderWay, Carried DEF Activate
  <2>2. doc.mode = "interrupted" /\ doc.revision = issued[cmd[r].op][2] + 1
    BY <1>7 DEF Activate, Activatable, Expected
  <2>3. cmd[r].op \notin given
    BY <2>2 DEF Spent
  <2>4. doc'.reserved = doc.reserved /\ doc'.mode = "auto" /\ given' = given \union {cmd[r].op}
    BY <1>1, <1>7, StaysCharged DEF Activate, Documents
  <2> QED BY <1>7, <2>1, <2>2, <2>3, <2>4 DEF Grant!Next, Grant!Give
<1>8. CASE sent' # sent
  BY <1>2, <1>8, SameSends
<1> QED BY <1>2, <1>3, <1>4, <1>5, <1>6, <1>7, <1>8, DocumentSteps

\* Every request is charged before it leaves, never past the limit, only under
\* the grant; and an operation gives the grant at most once.
THEOREM TaskImplementsGrant == Spec => ImplementsGrant
<1>1. Init => Known /\ Spent /\ Charged
  BY DEF Init, Known, Spent, Charged, NoTurn, NoDoc
<1>2. TypeOK /\ Known /\ Spent /\ Charged /\ [Next]_vars => Known' /\ Spent' /\ Charged'
  BY KnownKept, SpentKept, ChargedKept
<1>3. TypeOK /\ Known /\ Spent /\ Charged /\ [Next]_vars => [Grant!Next]_(Grant!vars)
  BY GrantSteps
<1> QED BY <1>1, <1>2, <1>3, GrantStarts, TypeCorrect, PTL DEF Spec, ImplementsGrant, Grant!Spec

-----------------------------------------------------------------------------
(* Revocation.                                                             *)

Revokes(op) == issued[op] # <<>> /\ issued[op][1] \in {"stop", "manual"}

\* A revocation that took effect is in force for good: its receipt, and its
\* call on the way to the answer, find the task stopped or under manual control.
Settled ==
    /\ \A op \in ToSet(doc.receipts) : issued[op] # <<>>
    /\ \A op \in ToSet(doc.receipts) : Revokes(op) => doc.mode \in Conclusive
    /\ \A r \in Runtimes : cmd[r].pc = "activate" => Gives(Action(r))
    /\ \A r \in Runtimes :
          cmd[r].pc \in {"finish", "settle"} /\ Revokes(cmd[r].op) => doc.mode \in Conclusive
    /\ revoked => doc.mode \in Conclusive

LEMMA LastStays ==
  ASSUME TypeOK, Known, [Next]_vars, doc.mode \in Conclusive
  PROVE  doc'.mode \in Conclusive
<1>1. doc \in Documents /\ doc.mode \in {"stopped", "manual"}
  BY DEF TypeOK, Conclusive
<1>2. CASE Same
  BY <1>1, <1>2 DEF Same, docVars, Conclusive
<1>3. CASE Ends
  BY <1>1, <1>3 DEF Ends, Documents, Conclusive
<1>4. CASE Charges \/ Reroutes
  BY <1>1, <1>4 DEF Charges, Reroutes
<1>5. ASSUME NEW r \in Runtimes, Apply(r) PROVE doc'.mode \in Conclusive
  <2>1. Action(r) # "start" /\ Action(r) # "resume"
    BY <1>1, <1>5 DEF Apply, Applicable
  <2> QED BY <1>1, <1>5, <2>1 DEF Apply, Effect, Gives, Documents, Conclusive
<1>6. ASSUME NEW r \in Runtimes, Activate(r) PROVE FALSE
  BY <1>1, <1>6 DEF Activate, Activatable
<1> QED BY <1>2, <1>3, <1>4, <1>5, <1>6, DocumentSteps

\* Stop and manual takeover are the last word on the task.
THEOREM RevocationIsFinal == Spec => RevocationFinal
<1>1. Init => Known
  BY DEF Init, Known
<1>2. TypeOK /\ Known /\ [Next]_vars => Known'
  BY KnownKept
<1>3. TypeOK /\ Known /\ [Next]_vars =>
        [doc.mode \in {"stopped", "manual"} => doc'.mode \in {"stopped", "manual"}]_vars
  BY LastStays DEF Conclusive
<1> QED BY <1>1, <1>2, <1>3, TypeCorrect, PTL DEF Spec, RevocationFinal

LEMMA RingElements ==
  ASSUME DocTypes, NEW op \in Operations
  PROVE  ToSet(Receipts(op)) \subseteq ToSet(doc.receipts) \union {op}
<1> DEFINE all == Append(doc.receipts, op)
<1>1. doc.receipts \in Seq(Operations)
  BY DEF DocTypes, Documents
<1>2. all \in Seq(Operations) /\ Len(all) = Len(doc.receipts) + 1 /\ all # <<>>
  BY <1>1
<1>3. \A i \in 1 .. Len(all) : all[i] \in ToSet(doc.receipts) \union {op}
  BY <1>1 DEF ToSet
<1>4. \A i \in 1 .. Len(Tail(all)) : i + 1 \in 1 .. Len(all) /\ Tail(all)[i] = all[i + 1]
  BY <1>2
<1>5. Tail(all) \in Seq(Operations)
  BY <1>2
<1> HIDE DEF all
<1>6. ToSet(all) \subseteq ToSet(doc.receipts) \union {op}
  BY <1>2, <1>3 DEF ToSet
<1>7. ToSet(Tail(all)) \subseteq ToSet(doc.receipts) \union {op}
  BY <1>3, <1>4, <1>5 DEF ToSet
<1>8. Receipts(op) = all \/ Receipts(op) = Tail(all)
  BY DEF Receipts, all
<1> QED BY <1>6, <1>7, <1>8

LEMMA ReceiptsGrow ==
  ASSUME TypeOK, [Next]_vars
  PROVE  \/ ToSet(doc'.receipts) = ToSet(doc.receipts)
         \/ \E r \in Runtimes :
              Apply(r) /\ ToSet(doc'.receipts) \subseteq ToSet(doc.receipts) \union {cmd[r].op}
<1>1. doc \in Documents
  BY DEF TypeOK
<1>2. CASE Same
  BY <1>2 DEF Same, docVars
<1>3. CASE Ends
  BY <1>1, <1>3 DEF Ends, Documents
<1>4. CASE Charges
  BY <1>1, <1>4 DEF Charges, Documents
<1>5. CASE Reroutes
  BY <1>1, <1>5 DEF Reroutes, Documents
<1>6. ASSUME NEW r \in Runtimes, Apply(r)
      PROVE  ToSet(doc'.receipts) \subseteq ToSet(doc.receipts) \union {cmd[r].op}
  <2>1. cmd[r].op \in Operations /\ DocTypes
    BY <1>6, UnderWay, CommandTypes, TypeParts DEF Apply
  <2>2. doc'.receipts = Receipts(cmd[r].op)
    BY <1>1, <1>6 DEF Apply, Effect, Documents
  <2> QED BY <2>1, <2>2, RingElements
<1>7. ASSUME NEW r \in Runtimes, Activate(r) PROVE doc'.receipts = doc.receipts
  BY <1>1, <1>7 DEF Activate, Documents
<1> QED BY <1>2, <1>3, <1>4, <1>5, <1>6, <1>7, DocumentSteps

\* A revocation ends the task when it is applied.
LEMMA ApplyRevokes ==
  ASSUME TypeOK, NEW r \in Runtimes, Apply(r), Action(r) \in {"stop", "manual"}
  PROVE  doc'.mode \in Conclusive
BY DEF TypeOK, Documents, Apply, Effect, Gives, Conclusive

\* A call makes a step of its own, or it stays as it is, begins or is lost.
LEMMA CallSteps ==
  ASSUME TypeOK, [Next]_vars, NEW q \in Runtimes
  PROVE  \/ cmd'[q] = cmd[q] \/ CommandStep(q) \/ cmd'[q] = NoCmd
         \/ cmd'[q].pc = "observe" /\ cmd[q] = NoCmd /\ phase[q] = "live" /\ phase' = phase
<1>1. cmd \in [Runtimes -> Executions]
  BY DEF TypeOK
<1>2. ASSUME NEW r \in Runtimes, CommandStep(r), q # r PROVE cmd'[q] = cmd[q]
  BY <1>1, <1>2
  DEF CommandStep, Observe, Apply, ApplyAgain, Refuse, Activate, ActivateFails, Finish, Settle, Answer, Move
<1>3. ASSUME NEW r \in Runtimes, NEW op \in Operations, NEW action \in Commands, Issue(r, op, action)
      PROVE  \/ cmd'[q] = cmd[q]
             \/ cmd'[q].pc = "observe" /\ cmd[q] = NoCmd /\ phase[q] = "live" /\ phase' = phase
  <2>1. cmd' = [cmd EXCEPT ![r] = [pc |-> "observe", op |-> op, auto |-> FALSE]]
    BY <1>3 DEF Issue
  <2>2. CASE q # r
    BY <1>1, <2>1, <2>2
  <2>3. CASE q = r
    BY <1>1, <1>3, <2>1, <2>3 DEF Issue, runVars
  <2> QED BY <2>2, <2>3
<1>4. ASSUME NEW r \in Runtimes, RequestStep(r) PROVE cmd' = cmd
  BY <1>4
  DEF RequestStep, Hook, Yield, Install, Stream, Attach, Reserve, ReserveRefused, ReserveExhausted,
      Dispatch, DispatchRefused
<1>5. ASSUME NEW r \in Runtimes,
             Poll(r) \/ BeginTurn(r) \/ CallTool(r) \/ NextRequest(r) \/ EndTurn(r)
               \/ AuxReserve(r) \/ AuxExhausted(r) \/ Reload(r)
      PROVE  cmd' = cmd
  BY <1>5 DEF Poll, BeginTurn, CallTool, NextRequest, EndTurn, AuxReserve, AuxExhausted, Reload
<1>6. ASSUME NEW r \in Runtimes, NEW route \in Routes, ChangeRoute(r, route) PROVE cmd' = cmd
  BY <1>6 DEF ChangeRoute
<1>7. ASSUME NEW r \in Runtimes, Crash(r) PROVE cmd'[q] = NoCmd
  BY <1>7 DEF Crash
<1>8. CASE StopButton \/ PickModel \/ AuxDispatch \/ AuxAbandon \/ UNCHANGED vars
  BY <1>8 DEF StopButton, PickModel, AuxDispatch, AuxAbandon, vars
<1> QED BY <1>2, <1>3, <1>4, <1>5, <1>6, <1>7, <1>8 DEF Next

\* Where a call stood before it comes to the activation or to its last load.
LEMMA CallsFinish ==
  ASSUME TypeOK, [Next]_vars, NEW q \in Runtimes, cmd'[q].pc \in {"activate", "finish", "settle"}
  PROVE  /\ cmd'[q].op = cmd[q].op
         /\ \/ cmd[q].pc = cmd'[q].pc
            \/ cmd[q].pc = "finish" /\ cmd'[q].pc = "settle"
            \/ Activate(q) /\ cmd'[q].pc = "finish"
            \/ (Apply(q) \/ ApplyAgain(q)) /\ cmd'[q].pc = (IF Gives(Action(q)) THEN "activate" ELSE "finish")
<1>1. cmd \in [Runtimes -> Executions] /\ cmd[q] \in Executions
  BY DEF TypeOK
<1>2. NoCmd.pc = "none"
  BY DEF NoCmd
<1>3. CASE CommandStep(q)
  <2>1. cmd[q] # NoCmd
    BY <1>3, UnderWay DEF CommandStep, Observe, Apply, ApplyAgain, Refuse, Activate, ActivateFails, Finish, Settle
  <2>2. cmd[q] \in [pc : {"observe", "apply", "activate", "finish", "settle"},
                    op : Operations, auto : BOOLEAN]
    BY <1>1, <2>1 DEF Executions
  <2>3. CASE Observe(q)
    BY <1>1, <1>2, <2>2, <2>3 DEF Observe, Answer, Move
  <2>4. CASE Refuse(q) \/ ActivateFails(q) \/ Settle(q)
    BY <1>1, <1>2, <2>4 DEF Refuse, ActivateFails, Settle, Answer
  <2>5. CASE Apply(q) \/ ApplyAgain(q)
    <3>1. CASE Gives(Action(q))
      BY <1>1, <2>2, <2>5, <3>1 DEF Apply, ApplyAgain, Move
    <3>2. CASE ~Gives(Action(q))
      BY <1>1, <2>2, <2>5, <3>2 DEF Apply, ApplyAgain, Move
    <3> QED BY <3>1, <3>2
  <2>6. CASE Activate(q)
    BY <1>1, <2>2, <2>6 DEF Activate, Move
  <2>7. CASE Finish(q)
    BY <1>1, <2>2, <2>7 DEF Finish
  <2> QED BY <1>3, <2>3, <2>4, <2>5, <2>6, <2>7 DEF CommandStep
<1>4. cmd'[q] = cmd[q] \/ CommandStep(q) \/ cmd'[q].pc \in {"none", "observe"}
  BY <1>2, CallSteps
<1> QED BY <1>3, <1>4

LEMMA RevocationStarts ==
  ASSUME TypeOK, [Next]_vars, revoked', ~revoked
  PROVE  \E r \in Runtimes : Settle(r) /\ ~Gives(Action(r)) /\ turn' = Cancelled(turn)
<1>1. ASSUME NEW r \in Runtimes, CommandStep(r)
      PROVE  Settle(r) /\ ~Gives(Action(r)) /\ turn' = Cancelled(turn)
  BY <1>1 DEF CommandStep, Observe, Apply, ApplyAgain, Refuse, Activate, ActivateFails, Finish, Settle
<1>2. ASSUME NEW r \in Runtimes, RequestStep(r) PROVE FALSE
  BY <1>2
  DEF RequestStep, Hook, Yield, Install, Stream, Attach, Reserve, ReserveRefused, ReserveExhausted,
      Dispatch, DispatchRefused
<1>3. ASSUME NEW r \in Runtimes,
             Poll(r) \/ BeginTurn(r) \/ CallTool(r) \/ NextRequest(r) \/ EndTurn(r)
               \/ AuxReserve(r) \/ AuxExhausted(r) \/ Reload(r) \/ Crash(r)
      PROVE  FALSE
  BY <1>3 DEF Poll, BeginTurn, CallTool, NextRequest, EndTurn, AuxReserve, AuxExhausted, Reload, Crash
<1>4. ASSUME NEW r \in Runtimes, NEW route \in Routes, ChangeRoute(r, route) PROVE FALSE
  BY <1>4 DEF ChangeRoute
<1>5. ASSUME NEW r \in Runtimes, NEW op \in Operations, NEW action \in Commands, Issue(r, op, action)
      PROVE  FALSE
  BY <1>5 DEF Issue
<1>6. ~(StopButton \/ PickModel \/ AuxDispatch \/ AuxAbandon \/ UNCHANGED vars)
  BY DEF StopButton, PickModel, AuxDispatch, AuxAbandon, vars
<1> QED BY <1>1, <1>2, <1>3, <1>4, <1>5, <1>6 DEF Next

LEMMA SettledKept ==
  ASSUME TypeOK, Known, Settled, [Next]_vars
  PROVE  Settled'
<1>1. \A op \in ToSet(doc.receipts) : op \in Operations
  <2>1. doc.receipts \in Seq(Operations)
    BY DEF TypeOK, Documents
  <2> QED BY <2>1 DEF ToSet
<1>2. ASSUME NEW op \in Operations, issued[op] # <<>>
      PROVE  issued'[op] # <<>> /\ issued'[op] = issued[op] /\ (Revokes(op)' => Revokes(op))
  BY <1>2, IssuedFixed DEF Revokes
<1>3. ASSUME NEW r \in Runtimes, cmd[r] # NoCmd
      PROVE  /\ cmd[r].op \in Operations /\ issued[cmd[r].op] # <<>>
             /\ Revokes(cmd[r].op) <=> Action(r) \in {"stop", "manual"}
             /\ Revokes(cmd[r].op) <=> ~Gives(Action(r))
  BY <1>3, Carried DEF Known, Revokes, Action, Gives, Commands
<1>4. ASSUME NEW op \in ToSet(doc'.receipts)
      PROVE  issued'[op] # <<>> /\ (Revokes(op)' => doc'.mode \in Conclusive)
  <2>1. CASE op \in ToSet(doc.receipts)
    BY <1>1, <1>2, <2>1, LastStays DEF Settled
  <2>2. CASE op \notin ToSet(doc.receipts)
    <3>1. PICK r \in Runtimes : Apply(r) /\ op = cmd[r].op
      BY <2>2, ReceiptsGrow
    <3>2. cmd[r] # NoCmd
      BY <3>1, UnderWay DEF Apply
    <3>3. Revokes(op) => doc'.mode \in Conclusive
      BY <1>3, <3>1, <3>2, ApplyRevokes
    <3> QED BY <1>2, <1>3, <3>1, <3>2, <3>3
  <2> QED BY <2>1, <2>2
<1>5. ASSUME NEW q \in Runtimes, cmd'[q].pc \in {"activate", "finish", "settle"}
      PROVE  /\ cmd[q] # NoCmd /\ cmd'[q].op = cmd[q].op
             /\ Action(q)' = Action(q) /\ (Revokes(cmd[q].op)' => Revokes(cmd[q].op))
  <2>1. cmd[q] # NoCmd /\ cmd'[q].op = cmd[q].op
    BY <1>5, CallsFinish, UnderWay DEF Apply, ApplyAgain, Activate
  <2> QED BY <1>2, <1>3, <2>1 DEF Action
<1>6. ASSUME NEW q \in Runtimes, cmd'[q].pc = "activate"
      PROVE  Gives(Action(q)')
  BY <1>5, <1>6, CallsFinish DEF Settled
<1>7. ASSUME NEW q \in Runtimes, cmd'[q].pc \in {"finish", "settle"}, Revokes(cmd[q].op)
      PROVE  doc'.mode \in Conclusive
  <2>1. CASE cmd[q].pc \in {"finish", "settle"}
    BY <1>7, <2>1, LastStays DEF Settled
  <2>2. CASE Apply(q)
    BY <1>3, <1>5, <1>7, <2>2, ApplyRevokes
  <2>3. CASE ApplyAgain(q)
    BY <1>7, <2>3, LastStays DEF ApplyAgain, Recorded, Settled
  <2>4. CASE Activate(q)
    BY <1>3, <1>5, <1>7, <2>4 DEF Activate, Settled
  <2> QED BY <1>7, <2>1, <2>2, <2>3, <2>4, CallsFinish
<1>8. ASSUME NEW q \in Runtimes, cmd'[q].pc \in {"finish", "settle"}, Revokes(cmd[q].op)'
      PROVE  doc'.mode \in Conclusive
  BY <1>5, <1>7, <1>8
<1>9. revoked' => doc'.mode \in Conclusive
  <2>1. ASSUME NEW r \in Runtimes, Settle(r), ~Gives(Action(r)) PROVE doc'.mode \in Conclusive
    <3>1. cmd[r].pc = "settle" /\ Revokes(cmd[r].op)
      BY <1>3, <2>1, UnderWay DEF Settle
    <3> QED BY <3>1, LastStays DEF Settled
  <2> QED BY <2>1, RevocationStarts, LastStays DEF Settled
<1> QED BY <1>4, <1>6, <1>8, <1>9 DEF Settled

\* Until it is cut off, a turn that finds its grant revoked does not get past
\* the hook.
Silenced == revoked /\ turn.cut = "no" => turn.pc \in {"none", "hook", "over"}

\* A turn gets past the hook only under the grant.
LEMMA TurnsPassHook ==
  ASSUME TypeOK, [Next]_vars, turn'.cut = "no", turn'.pc \notin {"none", "hook", "over"}
  PROVE  /\ turn.cut = "no"
         /\ \/ turn.pc \notin {"none", "hook", "over"}
            \/ \E r \in Runtimes : Hook(r) /\ doc.mode = "auto"
<1>1. turn \in Requests /\ NoTurn.pc = "none" /\ NoTurn.cut = "no" /\ Over.pc = "over" /\ Over.cut = turn.cut
  BY DEF TypeOK, Requests, NoTurn, Over
<1> DEFINE kept(t) == t.pc = turn.pc /\ (t.cut = "no" => turn.cut = "no")
<1>2. ASSUME NEW r \in Runtimes PROVE kept(CutOff(r, turn))
  BY <1>1 DEF CutOff, Requests
<1>3. kept(Cancelled(turn)) /\ kept(turn)
  BY <1>1 DEF Cancelled, Requests
<1>4. ASSUME NEW r \in Runtimes, CommandStep(r) PROVE kept(turn')
  BY <1>2, <1>3, <1>4
  DEF CommandStep, Observe, Apply, ApplyAgain, Refuse, Activate, ActivateFails, Finish, Settle, LoadAlone
<1>5. ASSUME NEW r \in Runtimes, Poll(r) \/ AuxReserve(r) \/ AuxExhausted(r) \/ Reload(r) PROVE kept(turn')
  BY <1>2, <1>3, <1>5 DEF Poll, LoadAlone, AuxReserve, AuxExhausted, Reload
<1>6. ASSUME NEW r \in Runtimes, NEW op \in Operations, NEW action \in Commands, Issue(r, op, action)
      PROVE  kept(turn')
  BY <1>3, <1>6 DEF Issue
<1>7. CASE StopButton \/ PickModel \/ AuxDispatch \/ AuxAbandon \/ UNCHANGED vars
  BY <1>3, <1>7 DEF StopButton, PickModel, AuxDispatch, AuxAbandon, vars
<1> HIDE DEF kept
<1>8. kept(turn') => turn.cut = "no" /\ turn.pc \notin {"none", "hook", "over"}
  BY DEF kept
<1>9. ASSUME NEW r \in Runtimes, RequestStep(r), ~Hook(r)
      PROVE  turn.cut = "no" /\ turn.pc \notin {"none", "hook", "over"}
  BY <1>1, <1>9
  DEF RequestStep, Yield, Install, Stream, Attach, Reserve, ReserveRefused, ReserveExhausted,
      Dispatch, DispatchRefused, Step, Go, Requests
<1>10. ASSUME NEW r \in Runtimes, Hook(r) PROVE turn.cut = "no" /\ doc.mode = "auto"
  <2>1. Loaded(r).mode = "auto" /\ turn.cut = "no"
    BY <1>1, <1>10 DEF Hook
  <2> QED BY <2>1 DEF Loaded, StoppedByUser, TypeOK, Documents
<1>11. ASSUME NEW r \in Runtimes, BeginTurn(r) \/ NextRequest(r) \/ EndTurn(r) \/ Crash(r) PROVE FALSE
  BY <1>1, <1>11 DEF BeginTurn, NextRequest, EndTurn, Crash, NoTurn
<1>12. ASSUME NEW r \in Runtimes, CallTool(r) PROVE turn.cut = "no" /\ turn.pc \notin {"none", "hook", "over"}
  BY <1>1, <1>12 DEF CallTool, Step
<1>13. ASSUME NEW r \in Runtimes, NEW route \in Routes, ChangeRoute(r, route)
       PROVE  turn.cut = "no" /\ turn.pc \notin {"none", "hook", "over"}
  BY <1>1, <1>13 DEF ChangeRoute, Step, Go, Requests
<1> QED BY <1>4, <1>5, <1>6, <1>7, <1>8, <1>9, <1>10, <1>11, <1>12, <1>13 DEF Next

LEMMA SilencedKept ==
  ASSUME TypeOK, Settled, Silenced, [Next]_vars
  PROVE  Silenced'
<1> SUFFICES ASSUME revoked', turn'.cut = "no", turn'.pc \notin {"none", "hook", "over"} PROVE FALSE
  BY DEF Silenced
<1>1. CASE revoked
  BY <1>1, TurnsPassHook DEF Settled, Silenced, Conclusive
<1>2. CASE ~revoked
  <2>1. turn' = Cancelled(turn) /\ turn \in Requests
    BY <1>2, RevocationStarts DEF TypeOK
  <2> QED BY <2>1 DEF Cancelled, Requests
<1> QED BY <1>1, <1>2

\* After the answer to a stop or a takeover the turn sends nothing more,
\* nothing is charged, and the route stays.
LEMMA RevokedQuiet ==
  ASSUME TypeOK, Known, Settled, Silenced, [Next]_vars, revoked
  PROVE  /\ doc'.reserved = doc.reserved
         /\ doc'.route = doc.route
         /\ sent' # sent => aux /\ ~aux'
<1>1. doc \in Documents /\ doc.mode \notin {"auto", "interrupted"}
  BY DEF TypeOK, Settled, Conclusive
<1>2. ASSUME NEW r \in Runtimes PROVE ~Dispatch(r) /\ ~Reserve(r) /\ ~AuxReserve(r)
  BY <1>1 DEF Dispatch, Silenced, Step, Reserve, AuxReserve, Authorized
<1>3. ASSUME NEW r \in Runtimes PROVE ~Activate(r)
  BY <1>1 DEF Activate, Activatable
<1>4. CASE AuxDispatch
  BY <1>4 DEF AuxDispatch, docVars
<1>5. CASE Quiet
  <2>1. doc'.reserved = doc.reserved /\ sent' = sent
    BY <1>5 DEF Quiet
  <2>2. doc'.route = doc.route
    <3>1. CASE Same
      BY <3>1 DEF Same, docVars
    <3>2. CASE Ends
      BY <1>1, <3>2 DEF Ends, Documents
    <3>3. ASSUME NEW r \in Runtimes, Apply(r) PROVE doc'.route = doc.route
      BY <1>1, <3>3 DEF Apply, Effect, Documents
    <3> QED BY <1>1, <1>3, <3>1, <3>2, <3>3, DocumentSteps DEF Charges, Reroutes
  <2> QED BY <2>1, <2>2
<1> QED BY <1>2, <1>4, <1>5, ChargeSteps

\* A stop or a takeover that has been answered holds: the task sends nothing.
THEOREM SilenceAfterRevocation == Spec => NothingAfterRevocation
<1>1. Init => Known /\ Settled /\ Silenced
  <2> SUFFICES ASSUME Init PROVE Known /\ Settled /\ Silenced
    OBVIOUS
  <2>1. ToSet(doc.receipts) = {}
    BY DEF Init, NoDoc, ToSet
  <2> QED BY <2>1 DEF Init, Known, Settled, Silenced, NoCmd, NoTurn
<1>2. TypeOK /\ Known /\ Settled /\ Silenced /\ [Next]_vars => Known' /\ Settled' /\ Silenced'
  BY KnownKept, SettledKept, SilencedKept
<1>3. TypeOK /\ Known /\ Settled /\ Silenced /\ [Next]_vars
        => [revoked => /\ doc'.reserved = doc.reserved
                       /\ doc'.route = doc.route
                       /\ sent' # sent => aux /\ ~aux']_vars
  BY RevokedQuiet
<1> QED BY <1>1, <1>2, <1>3, TypeCorrect, PTL DEF Spec, NothingAfterRevocation

-----------------------------------------------------------------------------
(* The change tool after a takeover.                                       *)

\* One runtime lives; earlier ones are gone, later ones have not begun.
Succession ==
    /\ \A q, r \in Runtimes : phase[q] = "live" =>
          /\ q < r => phase[r] = "unborn"
          /\ r < q => phase[r] \notin {"live", "unborn"}
    /\ doc.runtime # 0 => phase[doc.runtime] # "unborn"
    /\ \A r \in Runtimes : cmd[r] # NoCmd => phase[r] # "unborn"

\* Nobody was shown a revision that is still to come.
Seen == \A op \in Operations : issued[op] # <<>> => issued[op][2] <= doc.revision

\* The living runtime to which the document belongs.
Owner(q) == phase[q] = "live" /\ doc.runtime = q

\* Once the document belongs to the living runtime, the commands that former
\* runtimes left behind come too late, and none of them answers a revocation.
Bypassed ==
    \A q, r \in Runtimes : Owner(q) /\ phase[r] # "live" /\ cmd[r] # NoCmd =>
        /\ Expected(r) < doc.revision
        /\ Revokes(cmd[r].op) => ~Recorded(cmd[r].op) /\ cmd[r].pc \notin {"finish", "settle"}

\* Only the owner has the tool, or is about to install it.
Holders ==
    \A q \in Runtimes :
        /\ tool[q] => Owner(q)
        /\ phase[q] = "live" /\ cmd[q].pc = "settle" /\ cmd[q].auto => Owner(q)
        /\ Step(q, "install") => phase[q] # "unborn" /\ (phase[q] = "live" => Owner(q))

\* After the answer to a revocation, a tool is one that the interrupted turn
\* installed late; it is withdrawn when that turn ends.
Leaving ==
    revoked =>
        /\ \A q \in Runtimes : tool[q] => turn.pc # "none" /\ turn.cut = "user"
        /\ turn.pc \notin {"none", "hook", "over"} => turn.cut = "user"
        /\ \A q \in Runtimes : phase[q] = "live" /\ cmd[q].pc = "settle" => ~cmd[q].auto

\* Runtimes change only by a reload and a crash.
LEMMA PhaseSteps ==
  ASSUME [Next]_vars
  PROVE  phase' = phase \/ \E r \in Runtimes : Reload(r) \/ Crash(r)
<1>1. ASSUME NEW r \in Runtimes, CommandStep(r) PROVE phase' = phase
  BY <1>1
  DEF CommandStep, Observe, Apply, ApplyAgain, Refuse, Activate, ActivateFails, Finish, Settle, runVars
<1>2. ASSUME NEW r \in Runtimes, RequestStep(r) PROVE phase' = phase
  BY <1>2
  DEF RequestStep, Hook, Yield, Install, Stream, Attach, Reserve, ReserveRefused, ReserveExhausted,
      Dispatch, DispatchRefused, runVars
<1>3. ASSUME NEW r \in Runtimes,
             Poll(r) \/ BeginTurn(r) \/ CallTool(r) \/ NextRequest(r) \/ EndTurn(r)
               \/ AuxReserve(r) \/ AuxExhausted(r)
      PROVE  phase' = phase
  BY <1>3 DEF Poll, BeginTurn, CallTool, NextRequest, EndTurn, AuxReserve, AuxExhausted, runVars
<1>4. ASSUME NEW r \in Runtimes, NEW route \in Routes, ChangeRoute(r, route) PROVE phase' = phase
  BY <1>4 DEF ChangeRoute, runVars
<1>5. ASSUME NEW r \in Runtimes, NEW op \in Operations, NEW action \in Commands, Issue(r, op, action)
      PROVE  phase' = phase
  BY <1>5 DEF Issue, runVars
<1>6. CASE StopButton \/ PickModel \/ AuxDispatch \/ AuxAbandon \/ UNCHANGED vars
  BY <1>6 DEF StopButton, PickModel, AuxDispatch, AuxAbandon, runVars, vars
<1> QED BY <1>1, <1>2, <1>3, <1>4, <1>5, <1>6 DEF Next

\* The owner of the document changes only when a grant is asked for.
LEMMA OwnerSteps ==
  ASSUME TypeOK, [Next]_vars
  PROVE  \/ doc'.runtime = doc.runtime
         \/ \E r \in Runtimes : Apply(r) /\ Gives(Action(r)) /\ doc'.runtime = r
<1>1. doc \in Documents
  BY DEF TypeOK
<1>2. ASSUME NEW r \in Runtimes, Apply(r)
      PROVE  doc'.runtime = doc.runtime \/ (Gives(Action(r)) /\ doc'.runtime = r)
  <2>1. CASE Gives(Action(r))
    BY <1>1, <1>2, <2>1 DEF Apply, Effect, Documents
  <2>2. CASE ~Gives(Action(r))
    BY <1>1, <1>2, <2>2 DEF Apply, Effect, Documents
  <2> QED BY <2>1, <2>2
<1>3. CASE Same \/ Charges
  BY <1>1, <1>3 DEF Same, docVars, Charges, Documents
<1>4. CASE Ends
  BY <1>1, <1>4 DEF Ends, Documents
<1>5. CASE Reroutes
  BY <1>1, <1>5 DEF Reroutes, Documents
<1>6. ASSUME NEW r \in Runtimes, Activate(r) PROVE doc'.runtime = doc.runtime
  BY <1>1, <1>6 DEF Activate, Documents
<1> QED BY <1>2, <1>3, <1>4, <1>5, <1>6, DocumentSteps

\* Commands begin at the living runtime.
LEMMA CallsBegin ==
  ASSUME TypeOK, [Next]_vars, NEW q \in Runtimes, cmd[q] = NoCmd, cmd'[q] # NoCmd
  PROVE  phase[q] = "live" /\ phase' = phase
<1>1. ~CommandStep(q)
  BY UnderWay
  DEF CommandStep, Observe, Apply, ApplyAgain, Refuse, Activate, ActivateFails, Finish, Settle
<1> QED BY <1>1, CallSteps

LEMMA SuccessionKept ==
  ASSUME TypeOK, Succession, [Next]_vars
  PROVE  Succession'
<1>1. /\ phase \in [Runtimes -> {"unborn", "live", "disposed", "dead"}]
      /\ doc.runtime \in Runtimes \union {0}
  BY DEF TypeOK, Documents
<1>2. \A r \in Runtimes : r \in Nat
  BY TaskAssumption DEF Runtimes
<1>3. ASSUME NEW r \in Runtimes, Reload(r) \/ Crash(r), NEW q \in Runtimes
      PROVE  /\ phase'[q] = IF q = r + 1 THEN "live" ELSE IF q <= r THEN phase'[q] ELSE "unborn"
             /\ q <= r => phase'[q] \in {"disposed", "dead"}
  <2>1. phase[r] = "live" /\ r + 1 \in Runtimes
    BY <1>3 DEF Reload, Crash
  <2>2. q < r => phase[q] \in {"disposed", "dead"}
    BY <1>1, <2>1 DEF Succession
  <2>3. q > r => phase[q] = "unborn"
    BY <1>1, <1>2, <2>1 DEF Succession
  <2>4. CASE Reload(r)
    BY <1>1, <1>2, <2>1, <2>2, <2>3, <2>4 DEF Reload
  <2>5. CASE Crash(r)
    BY <1>1, <1>2, <2>1, <2>5 DEF Crash
  <2> QED BY <1>3, <2>4, <2>5
<1>4. \A q \in Runtimes : phase'[q] = "unborn" => phase[q] = "unborn"
  <2>1. ASSUME NEW r \in Runtimes, Reload(r) \/ Crash(r), NEW q \in Runtimes, phase'[q] = "unborn"
        PROVE  phase[q] = "unborn"
    <3>1. phase[r] = "live"
      BY <2>1 DEF Reload, Crash
    <3>2. ~(q <= r)
      BY <1>3, <2>1
    <3>3. r < q
      BY <1>2, <3>2
    <3> QED BY <3>1, <3>3 DEF Succession
  <2> QED BY <2>1, PhaseSteps
<1>5. ASSUME NEW q \in Runtimes, NEW r \in Runtimes, phase'[q] = "live"
      PROVE  /\ q < r => phase'[r] = "unborn"
             /\ r < q => phase'[r] \notin {"live", "unborn"}
  <2>1. CASE phase' = phase
    BY <1>5, <2>1 DEF Succession
  <2>2. ASSUME NEW p \in Runtimes, Reload(p) \/ Crash(p)
        PROVE  /\ q < r => phase'[r] = "unborn"
               /\ r < q => phase'[r] \notin {"live", "unborn"}
    <3>1. q = p + 1
      BY <1>2, <1>3, <1>5, <2>2
    <3>2. q < r => phase'[r] = "unborn"
      BY <1>2, <1>3, <2>2, <3>1
    <3>3. r < q => phase'[r] \in {"disposed", "dead"}
      BY <1>2, <1>3, <2>2, <3>1
    <3> QED BY <3>2, <3>3
  <2> QED BY <2>1, <2>2, PhaseSteps
<1>6. ASSUME NEW r \in Runtimes, cmd'[r] # NoCmd PROVE phase'[r] # "unborn"
  <2>1. phase[r] # "unborn"
    <3>1. CASE cmd[r] = NoCmd
      BY <1>6, <3>1, CallsBegin
    <3>2. CASE cmd[r] # NoCmd
      BY <3>2 DEF Succession
    <3> QED BY <3>1, <3>2
  <2> QED BY <1>4, <2>1
<1>7. doc'.runtime # 0 => phase'[doc'.runtime] # "unborn"
  <2>1. CASE doc'.runtime = doc.runtime
    BY <1>1, <1>4, <2>1 DEF Succession
  <2>2. ASSUME NEW r \in Runtimes, Apply(r), doc'.runtime = r PROVE phase'[r] # "unborn"
    BY <1>4, <2>2, UnderWay DEF Apply, Succession
  <2> QED BY <2>1, <2>2, OwnerSteps
<1> QED BY <1>5, <1>6, <1>7 DEF Succession

LEMMA SeenKept ==
  ASSUME TypeOK, Seen, [Next]_vars
  PROVE  Seen'
<1> SUFFICES ASSUME NEW op \in Operations, issued'[op] # <<>> PROVE issued'[op][2] <= doc'.revision
  BY DEF Seen
<1>1. /\ doc.revision \in Nat /\ doc'.revision \in Nat /\ doc'.revision >= doc.revision
      /\ issued \in [Operations -> {<<>>} \union (Commands \X Nat)]
  BY RevisionGrows DEF TypeOK
<1>2. CASE issued[op] # <<>>
  <2>1. issued'[op] = issued[op] /\ issued[op] \in Commands \X Nat
    BY <1>1, <1>2, IssuedFixed
  <2>2. issued[op][2] \in Nat /\ issued[op][2] <= doc.revision
    BY <1>2, <2>1 DEF Seen
  <2> QED BY <1>1, <2>1, <2>2
<1>3. CASE issued[op] = <<>>
  <2>1. PICK r \in Runtimes, other \in Operations, action \in Commands : Issue(r, other, action)
    BY <1>3, IssueSteps
  <2>2. issued'[op] = <<action, doc.revision>> /\ doc' = doc
    BY <1>1, <1>3, <2>1 DEF Issue
  <2> QED BY <1>1, <2>2
<1> QED BY <1>2, <1>3

\* No call starts over.
LEMMA CallsMoveOn ==
  ASSUME TypeOK, NEW r \in Runtimes, CommandStep(r)
  PROVE  cmd'[r].pc # "observe"
<1>1. cmd \in [Runtimes -> Executions] /\ NoCmd.pc = "none"
  BY DEF TypeOK, NoCmd
<1>2. cmd[r] # NoCmd
  BY UnderWay DEF CommandStep, Observe, Apply, ApplyAgain, Refuse, Activate, ActivateFails, Finish, Settle
<1>3. cmd[r] \in [pc : {"observe", "apply", "activate", "finish", "settle"},
                  op : Operations, auto : BOOLEAN]
  BY <1>1, <1>2 DEF Executions
<1>4. \/ Answer(r) \/ Move(r, "apply") \/ Move(r, "activate") \/ Move(r, "finish")
      \/ cmd' = [cmd EXCEPT ![r].pc = "settle", ![r].auto = (Loaded(r).mode = "auto")]
  BY DEF CommandStep, Observe, Apply, ApplyAgain, Refuse, Activate, ActivateFails, Finish, Settle
<1> QED BY <1>1, <1>3, <1>4 DEF Answer, Move

\* Commands of former runtimes cannot take the document from its living owner.
LEMMA OwnerApplies ==
  ASSUME TypeOK, Known, Succession, Bypassed,
         NEW q \in Runtimes, Owner(q), NEW r \in Runtimes, Apply(r)
  PROVE  r = q
<1>1. cmd[r] # NoCmd /\ doc.revision = Expected(r) /\ doc.revision \in Nat
  BY UnderWay DEF Apply, Applicable, TypeOK, Documents
<1>2. phase[r] = "live"
  BY <1>1 DEF Bypassed
<1>3. r \in Nat /\ q \in Nat
  BY TaskAssumption DEF Runtimes
<1> QED BY <1>2, <1>3 DEF Owner, Succession

LEMMA OwnerStays ==
  ASSUME TypeOK, Known, Succession, Bypassed, [Next]_vars,
         NEW q \in Runtimes, Owner(q), phase'[q] = "live"
  PROVE  Owner(q)'
<1>1. doc'.runtime = q
  BY OwnerSteps, OwnerApplies DEF Owner
<1> QED BY <1>1 DEF Owner

\* An owner was it before the step, or asks for the grant now.
LEMMA OwnerBefore ==
  ASSUME TypeOK, Succession, [Next]_vars, NEW q \in Runtimes, Owner(q)'
  PROVE  /\ phase' = phase
         /\ Owner(q) \/ (Apply(q) /\ Gives(Action(q)))
<1>1. Succession'
  BY SuccessionKept
<1>2. /\ phase \in [Runtimes -> {"unborn", "live", "disposed", "dead"}]
      /\ doc.runtime \in Runtimes \union {0} /\ q \in Nat /\ q # 0
  BY TaskAssumption DEF TypeOK, Documents, Runtimes
<1>3. ASSUME NEW r \in Runtimes, Reload(r) \/ Crash(r) PROVE FALSE
  <2>1. doc' = doc /\ phase[r] = "live" /\ r + 1 \in Runtimes /\ r \in Nat
    BY <1>3, TaskAssumption DEF Reload, Crash, docVars, Runtimes
  <2>2. doc.runtime = q /\ phase'[q] = "live"
    BY <2>1 DEF Owner
  <2>3. phase[q] # "unborn"
    BY <1>2, <2>2 DEF Succession
  <2>4. ~(r < q)
    BY <2>1, <2>3 DEF Succession
  <2>5. phase'[r + 1] = "live"
    <3>1. CASE Reload(r)
      BY <1>2, <2>1, <3>1 DEF Reload
    <3>2. CASE Crash(r)
      BY <2>1, <3>2 DEF Crash
    <3> QED BY <1>3, <3>1, <3>2
  <2>6. q < r + 1
    BY <1>2, <2>1, <2>4
  <2> QED BY <1>1, <2>1, <2>2, <2>5, <2>6 DEF Succession
<1>4. phase' = phase
  BY <1>3, PhaseSteps
<1>5. CASE doc'.runtime = doc.runtime
  BY <1>4, <1>5 DEF Owner
<1>6. ASSUME NEW r \in Runtimes, Apply(r), Gives(Action(r)), doc'.runtime = r
      PROVE  Apply(q) /\ Gives(Action(q))
  BY <1>6 DEF Owner
<1> QED BY <1>4, <1>5, <1>6, OwnerSteps

LEMMA BypassedKept ==
  ASSUME TypeOK, Known, Settled, Succession, Seen, Bypassed, [Next]_vars
  PROVE  Bypassed'
<1> SUFFICES ASSUME NEW q \in Runtimes, NEW r \in Runtimes,
                    Owner(q)', phase'[r] # "live", cmd'[r] # NoCmd
             PROVE  /\ Expected(r)' < doc'.revision
                    /\ Revokes(cmd[r].op)' => ~Recorded(cmd[r].op)' /\ cmd'[r].pc \notin {"finish", "settle"}
  BY DEF Bypassed
<1>1. phase' = phase /\ (Owner(q) \/ (Apply(q) /\ Gives(Action(q))))
  BY OwnerBefore
<1>2. cmd[r] # NoCmd /\ phase[r] # "live"
  BY <1>1, CallsBegin
<1>3. cmd'[r].op = cmd[r].op
  <2>1. CASE CommandStep(r)
    <3>1. cmd'[r].pc # "observe"
      BY <1>2, <2>1, CallsMoveOn
    <3> QED BY <3>1, CallsContinue
  <2> QED BY <1>2, <2>1, CallSteps
<1>4. /\ cmd[r].op \in Operations /\ issued[cmd[r].op] # <<>>
      /\ issued'[cmd[r].op] = issued[cmd[r].op]
      /\ Expected(r)' = Expected(r) /\ Action(r)' = Action(r) /\ Expected(r) \in Nat
      /\ Revokes(cmd[r].op)' <=> Revokes(cmd[r].op)
  <2>1. cmd[r].op \in Operations /\ issued[cmd[r].op] # <<>> /\ Expected(r) \in Nat
    BY <1>2, Carried DEF Known
  <2>2. issued'[cmd[r].op] = issued[cmd[r].op]
    BY <2>1, IssuedFixed
  <2> QED BY <1>3, <2>1, <2>2 DEF Expected, Action, Revokes
<1>5. /\ doc.revision \in Nat /\ doc'.revision \in Nat /\ doc'.revision >= doc.revision
      /\ r \in Nat /\ q \in Nat
  BY RevisionGrows, TaskAssumption DEF Runtimes
<1>6. CASE Owner(q)
  <2>1. /\ Expected(r) < doc.revision
        /\ Revokes(cmd[r].op) => ~Recorded(cmd[r].op) /\ cmd[r].pc \notin {"finish", "settle"}
    BY <1>2, <1>6 DEF Bypassed
  <2>2. Expected(r)' < doc'.revision
    BY <1>4, <1>5, <2>1
  <2>3. ASSUME Revokes(cmd[r].op) PROVE ~Recorded(cmd[r].op)'
    <3>1. ASSUME NEW p \in Runtimes, Apply(p), cmd[p].op = cmd[r].op PROVE FALSE
      <4>1. doc.revision = Expected(r)
        BY <3>1 DEF Apply, Applicable, Expected
      <4> QED BY <1>5, <2>1, <4>1
    <3>2. cmd[r].op \notin ToSet(doc'.receipts)
      BY <2>1, <2>3, <3>1, ReceiptsGrow DEF Recorded
    <3> QED BY <1>3, <3>2 DEF Recorded
  <2>4. ASSUME Revokes(cmd[r].op), cmd'[r].pc \in {"finish", "settle"} PROVE FALSE
    <3>1. ~Activate(r)
      BY <1>2 DEF Activate, Activatable
    <3>2. ~Apply(r)
      BY <1>2, <1>6, OwnerApplies DEF Owner
    <3>3. ~ApplyAgain(r)
      BY <2>1, <2>4 DEF ApplyAgain
    <3> QED BY <2>1, <2>4, <3>1, <3>2, <3>3, CallsFinish
  <2> QED BY <1>4, <2>2, <2>3, <2>4
<1>7. CASE Apply(q) /\ Gives(Action(q))
  <2>1. doc.mode \notin Conclusive
    BY <1>7 DEF Apply, Applicable, Gives, Conclusive
  <2>2. phase[q] = "live" /\ r # q
    BY <1>1, <1>2 DEF Owner
  <2>3. doc'.revision = doc.revision + 1
    BY <1>7 DEF Apply, Effect, TypeOK, Documents
  <2>4. Expected(r) <= doc.revision
    BY <1>4 DEF Seen, Expected
  <2>5. Expected(r)' < doc'.revision
    BY <1>4, <1>5, <2>3, <2>4
  <2>6. cmd'[r] = cmd[r]
    <3>1. cmd \in [Runtimes -> Executions]
      BY DEF TypeOK
    <3> QED BY <1>7, <2>2, <3>1 DEF Apply, Move
  <2>7. ASSUME Revokes(cmd[r].op) PROVE ~Recorded(cmd[r].op)'
    <3>1. cmd[r].op \notin ToSet(doc.receipts)
      BY <2>1, <2>7 DEF Settled
    <3>2. ASSUME NEW p \in Runtimes, Apply(p), cmd[p].op = cmd[r].op PROVE FALSE
      <4>1. Action(p) = Action(r)
        BY <3>2 DEF Action
      <4>2. p # q
        BY <1>7, <2>7, <4>1 DEF Revokes, Action, Gives
      <4>3. applied[cmd[p].op] \in Nat /\ applied' = [applied EXCEPT ![cmd[p].op] = @ + 1]
        BY <1>4, <3>2 DEF Apply, TypeOK
      <4>4. applied' = [applied EXCEPT ![cmd[q].op] = @ + 1] /\ cmd[q].op # cmd[p].op
        BY <1>7, <2>7, <3>2 DEF Apply, Revokes, Action, Gives
      <4> QED BY <1>4, <3>2, <4>3, <4>4 DEF TypeOK
    <3>3. cmd[r].op \notin ToSet(doc'.receipts)
      BY <3>1, <3>2, ReceiptsGrow
    <3> QED BY <1>3, <3>3 DEF Recorded
  <2>8. ASSUME Revokes(cmd[r].op), cmd'[r].pc \in {"finish", "settle"} PROVE FALSE
    BY <2>1, <2>6, <2>8 DEF Settled
  <2> QED BY <1>4, <2>5, <2>7, <2>8
<1> QED BY <1>1, <1>6, <1>7

\* The tool comes with a finished command or with the hook of a request.
LEMMA ToolSteps ==
  ASSUME TypeOK, [Next]_vars, NEW q \in Runtimes, tool'[q], ~tool[q]
  PROVE  /\ phase[q] = "live" /\ phase' = phase
         /\ (Settle(q) /\ cmd[q].auto) \/ Install(q)
<1>1. tool \in [Runtimes -> BOOLEAN]
  BY DEF TypeOK
<1>2. ASSUME NEW r \in Runtimes, Load(r) PROVE FALSE
  BY <1>1, <1>2 DEF Load, Withdrawn
<1>3. ASSUME NEW r \in Runtimes, Withdrawn(r) PROVE FALSE
  BY <1>1, <1>3 DEF Withdrawn
<1>4. ASSUME NEW r \in Runtimes, Installed(r) PROVE q = r /\ phase[q] = "live"
  BY <1>1, <1>4 DEF Installed
<1>5. ASSUME NEW r \in Runtimes, CommandStep(r)
      PROVE  phase[q] = "live" /\ phase' = phase /\ Settle(q) /\ cmd[q].auto
  <2>1. CASE Observe(r) \/ Finish(r)
    BY <1>2, <2>1 DEF Observe, Finish, LoadAlone
  <2>2. CASE Apply(r) \/ ApplyAgain(r) \/ Refuse(r) \/ Activate(r) \/ ActivateFails(r)
    BY <2>2 DEF Apply, ApplyAgain, Refuse, Activate, ActivateFails, runVars
  <2>3. CASE Settle(r)
    BY <1>3, <1>4, <2>3 DEF Settle
  <2> QED BY <1>5, <2>1, <2>2, <2>3 DEF CommandStep
<1>6. ASSUME NEW r \in Runtimes, RequestStep(r)
      PROVE  phase[q] = "live" /\ phase' = phase /\ Install(q)
  <2>1. CASE Hook(r) \/ Stream(r)
    BY <1>2, <2>1 DEF Hook, Stream
  <2>2. CASE Yield(r) \/ ReserveExhausted(r)
    BY <1>3, <2>2 DEF Yield, ReserveExhausted, Exhausted
  <2>3. CASE Attach(r) \/ Reserve(r) \/ ReserveRefused(r) \/ Dispatch(r) \/ DispatchRefused(r)
    BY <2>3 DEF Attach, Reserve, ReserveRefused, Dispatch, DispatchRefused, runVars
  <2>4. CASE Install(r)
    BY <1>4, <2>4 DEF Install
  <2> QED BY <1>6, <2>1, <2>2, <2>3, <2>4 DEF RequestStep
<1>7. ASSUME NEW r \in Runtimes, Poll(r) \/ EndTurn(r) \/ AuxExhausted(r) PROVE FALSE
  BY <1>2, <1>3, <1>7 DEF Poll, LoadAlone, EndTurn, AuxExhausted, Exhausted
<1>8. ASSUME NEW r \in Runtimes,
             BeginTurn(r) \/ CallTool(r) \/ NextRequest(r) \/ AuxReserve(r) \/ Reload(r) \/ Crash(r)
      PROVE  FALSE
  BY <1>1, <1>8 DEF BeginTurn, CallTool, NextRequest, AuxReserve, Reload, Crash, runVars
<1>9. ASSUME NEW r \in Runtimes, NEW route \in Routes, ChangeRoute(r, route) PROVE FALSE
  BY <1>9 DEF ChangeRoute, runVars
<1>10. ASSUME NEW r \in Runtimes, NEW op \in Operations, NEW action \in Commands, Issue(r, op, action)
       PROVE  FALSE
  BY <1>10 DEF Issue, runVars
<1>11. ~(StopButton \/ PickModel \/ AuxDispatch \/ AuxAbandon \/ UNCHANGED vars)
  BY DEF StopButton, PickModel, AuxDispatch, AuxAbandon, runVars, vars
<1> QED BY <1>5, <1>6, <1>7, <1>8, <1>9, <1>10, <1>11 DEF Next

\* A load that finds the grant in force finds it the runtime's own.
LEMMA LoadsOwn ==
  ASSUME TypeOK, NEW r \in Runtimes, Loaded(r).mode = "auto"
  PROVE  doc.mode = "auto" /\ doc.runtime = r /\ Loaded(r) = doc
BY DEF Loaded, StoppedByUser, TypeOK, Documents

\* A turn gets past the hook only under the grant, and a user's cut holds.
LEMMA TurnsGoOn ==
  ASSUME TypeOK, [Next]_vars, turn'.pc \notin {"none", "hook", "over"}
  PROVE  \/ /\ turn.pc \notin {"none", "hook", "over"}
            /\ turn.cut = "user" => turn'.cut = "user"
            /\ turn'.pc = "install" => turn.pc = "install" /\ turn'.by = turn.by
         \/ \E r \in Runtimes : /\ Hook(r) /\ doc.mode = "auto" /\ doc.runtime = r /\ doc' = doc
                                /\ turn'.by = r /\ phase' = phase
<1>1. turn \in Requests /\ NoTurn.pc = "none" /\ NoTurn.cut = "no" /\ Over.pc = "over" /\ Over.cut = turn.cut
  BY DEF TypeOK, Requests, NoTurn, Over
<1> DEFINE kept(t) == t.pc = turn.pc /\ t.by = turn.by /\ (turn.cut = "user" => t.cut = "user")
<1> DEFINE on == /\ turn.pc \notin {"none", "hook", "over"}
                 /\ turn.cut = "user" => turn'.cut = "user"
                 /\ turn'.pc = "install" => turn.pc = "install" /\ turn'.by = turn.by
<1>2. ASSUME NEW r \in Runtimes PROVE kept(CutOff(r, turn))
  BY <1>1 DEF CutOff, Requests
<1>3. kept(Cancelled(turn)) /\ kept(turn)
  BY <1>1 DEF Cancelled, Requests
<1>4. ASSUME NEW r \in Runtimes, CommandStep(r) PROVE kept(turn')
  BY <1>2, <1>3, <1>4
  DEF CommandStep, Observe, Apply, ApplyAgain, Refuse, Activate, ActivateFails, Finish, Settle, LoadAlone
<1>5. ASSUME NEW r \in Runtimes, Poll(r) \/ AuxReserve(r) \/ AuxExhausted(r) \/ Reload(r) PROVE kept(turn')
  BY <1>2, <1>3, <1>5 DEF Poll, LoadAlone, AuxReserve, AuxExhausted, Reload
<1>6. ASSUME NEW r \in Runtimes, NEW op \in Operations, NEW action \in Commands, Issue(r, op, action)
      PROVE  kept(turn')
  BY <1>3, <1>6 DEF Issue
<1>7. CASE StopButton \/ PickModel \/ AuxDispatch \/ AuxAbandon \/ UNCHANGED vars
  BY <1>3, <1>7 DEF StopButton, PickModel, AuxDispatch, AuxAbandon, vars
<1>8. kept(turn') => on
  OBVIOUS
<1> HIDE DEF kept
<1>9. ASSUME NEW r \in Runtimes, RequestStep(r), ~Hook(r) PROVE on
  BY <1>1, <1>9
  DEF RequestStep, Yield, Install, Stream, Attach, Reserve, ReserveRefused, ReserveExhausted,
      Dispatch, DispatchRefused, Step, Go, Requests
<1>10. ASSUME NEW r \in Runtimes, Hook(r)
       PROVE  doc.mode = "auto" /\ doc.runtime = r /\ doc' = doc /\ turn'.by = r /\ phase' = phase
  <2>1. Loaded(r).mode = "auto" /\ turn.by = r /\ doc' = Loaded(r) /\ phase' = phase
    BY <1>1, <1>10 DEF Hook, Step, Load
  <2>2. turn' = [turn EXCEPT !.route = doc.route,
                     !.pc = IF picks # doc.selection THEN "yield" ELSE "install"]
    BY <1>1, <1>10 DEF Hook
  <2> QED BY <1>1, <2>1, <2>2, LoadsOwn DEF Requests
<1>11. ASSUME NEW r \in Runtimes, BeginTurn(r) \/ NextRequest(r) \/ EndTurn(r) \/ Crash(r) PROVE FALSE
  BY <1>1, <1>11 DEF BeginTurn, NextRequest, EndTurn, Crash, NoTurn
<1>12. ASSUME NEW r \in Runtimes, CallTool(r) PROVE on
  BY <1>1, <1>12 DEF CallTool, Step, Go, Requests
<1>13. ASSUME NEW r \in Runtimes, NEW route \in Routes, ChangeRoute(r, route) PROVE on
  BY <1>1, <1>13 DEF ChangeRoute, Step, Go, Requests
<1> QED BY <1>4, <1>5, <1>6, <1>7, <1>8, <1>9, <1>10, <1>11, <1>12, <1>13 DEF Next

\* A turn the user has cut off stays so until it ends.
LEMMA CutHolds ==
  ASSUME TypeOK, [Next]_vars, turn.pc # "none", turn.cut = "user"
  PROVE  \/ turn'.pc # "none" /\ turn'.cut = "user"
         \/ \E r \in Runtimes : EndTurn(r) \/ Crash(r)
<1>1. turn \in Requests /\ Over.pc = "over" /\ Over.cut = turn.cut
  BY DEF TypeOK, Requests, NoTurn, Over
<1> DEFINE holds(t) == t.pc # "none" /\ t.cut = "user"
<1>2. ASSUME NEW r \in Runtimes PROVE holds(CutOff(r, turn))
  BY <1>1 DEF CutOff, Requests
<1>3. holds(Cancelled(turn)) /\ holds(turn)
  BY <1>1 DEF Cancelled, Requests
<1>4. ASSUME NEW r \in Runtimes, CommandStep(r) PROVE holds(turn')
  BY <1>2, <1>3, <1>4
  DEF CommandStep, Observe, Apply, ApplyAgain, Refuse, Activate, ActivateFails, Finish, Settle, LoadAlone
<1>5. ASSUME NEW r \in Runtimes, Poll(r) \/ AuxReserve(r) \/ AuxExhausted(r) \/ Reload(r) PROVE holds(turn')
  BY <1>2, <1>3, <1>5 DEF Poll, LoadAlone, AuxReserve, AuxExhausted, Reload
<1>6. ASSUME NEW r \in Runtimes, NEW op \in Operations, NEW action \in Commands, Issue(r, op, action)
      PROVE  holds(turn')
  BY <1>3, <1>6 DEF Issue
<1>7. CASE StopButton \/ PickModel \/ AuxDispatch \/ AuxAbandon \/ UNCHANGED vars
  BY <1>3, <1>7 DEF StopButton, PickModel, AuxDispatch, AuxAbandon, vars
<1>8. ASSUME NEW r \in Runtimes, RequestStep(r) PROVE holds(turn')
  BY <1>1, <1>8
  DEF RequestStep, Hook, Yield, Install, Stream, Attach, Reserve, ReserveRefused, ReserveExhausted,
      Dispatch, DispatchRefused, Step, Go, Requests
<1>9. ASSUME NEW r \in Runtimes, BeginTurn(r) \/ NextRequest(r) \/ CallTool(r) PROVE FALSE
  BY <1>9 DEF BeginTurn, NextRequest, CallTool
<1>10. ASSUME NEW r \in Runtimes, NEW route \in Routes, ChangeRoute(r, route) PROVE FALSE
  BY <1>10 DEF ChangeRoute
<1> QED BY <1>4, <1>5, <1>6, <1>7, <1>8, <1>9, <1>10 DEF Next

\* A runtime that lives after a step lived before it, or begins with it.
LEMMA LiveBefore ==
  ASSUME TypeOK, Succession, [Next]_vars, NEW q \in Runtimes
  PROVE  /\ phase'[q] = "live" => phase[q] \in {"live", "unborn"}
         /\ phase'[q] = "unborn" => phase[q] = "unborn"
<1>1. CASE phase' = phase
  BY <1>1
<1>2. ASSUME NEW r \in Runtimes, Reload(r)
      PROVE  /\ phase'[q] = "live" => phase[q] \in {"live", "unborn"}
             /\ phase'[q] = "unborn" => phase[q] = "unborn"
  <2>1. /\ phase[r] = "live" /\ r \in Nat /\ r + 1 \in Runtimes
        /\ phase \in [Runtimes -> {"unborn", "live", "disposed", "dead"}]
    BY <1>2, TaskAssumption DEF Reload, Runtimes, TypeOK
  <2>2. phase[r + 1] = "unborn"
    BY <2>1 DEF Succession
  <2>3. q = r \/ q = r + 1 \/ phase'[q] = phase[q]
    BY <1>2, <2>1 DEF Reload
  <2>4. phase'[r] = "disposed" /\ phase'[r + 1] = "live"
    BY <1>2, <2>1 DEF Reload
  <2> QED BY <2>2, <2>3, <2>4
<1>3. ASSUME NEW r \in Runtimes, Crash(r)
      PROVE  /\ phase'[q] = "live" => phase[q] \in {"live", "unborn"}
             /\ phase'[q] = "unborn" => phase[q] = "unborn"
  <2>1. phase[r] = "live" /\ r \in Nat /\ r + 1 \in Runtimes /\ q \in Nat
    BY <1>3, TaskAssumption DEF Crash, Runtimes
  <2>2. phase'[q] = IF q = r + 1 THEN "live" ELSE IF q <= r THEN "dead" ELSE "unborn"
    BY <1>3 DEF Crash
  <2>3. r < q => phase[q] = "unborn"
    BY <2>1 DEF Succession
  <2> QED BY <2>1, <2>2, <2>3
<1> QED BY <1>1, <1>2, <1>3, PhaseSteps

LEMMA HoldersKept ==
  ASSUME TypeOK, Known, Succession, Bypassed, Holders, [Next]_vars
  PROVE  Holders'
<1>1. phase \in [Runtimes -> {"unborn", "live", "disposed", "dead"}] /\ tool \in [Runtimes -> BOOLEAN]
  BY DEF TypeOK
<1>2. ASSUME NEW q \in Runtimes, tool'[q] PROVE Owner(q)'
  <2>1. CASE tool[q]
    <3>1. Owner(q)
      BY <2>1 DEF Holders
    <3>2. ASSUME NEW r \in Runtimes, Reload(r) \/ Crash(r) PROVE FALSE
      <4>1. phase[r] = "live" /\ r \in Nat /\ q \in Nat
        BY <3>2, TaskAssumption DEF Reload, Crash, Runtimes
      <4>2. r = q
        BY <3>1, <4>1 DEF Owner, Succession
      <4> QED BY <1>1, <1>2, <3>2, <4>2 DEF Reload, Crash
    <3>3. phase'[q] = "live"
      BY <3>1, <3>2, PhaseSteps DEF Owner
    <3> QED BY <3>1, <3>3, OwnerStays
  <2>2. CASE ~tool[q]
    <3>1. phase[q] = "live" /\ phase' = phase /\ ((Settle(q) /\ cmd[q].auto) \/ Install(q))
      BY <1>2, <2>2, ToolSteps
    <3>2. Owner(q)
      BY <3>1 DEF Holders, Settle, Install
    <3> QED BY <3>1, <3>2, OwnerStays
  <2> QED BY <2>1, <2>2
<1>3. ASSUME NEW q \in Runtimes, phase'[q] = "live", cmd'[q].pc = "settle", cmd'[q].auto PROVE Owner(q)'
  <2>1. cmd[q] # NoCmd
    BY <1>3, CallsFinish, UnderWay DEF Apply, ApplyAgain, Activate
  <2>2. phase[q] = "live"
    BY <1>3, <2>1, LiveBefore DEF Succession
  <2>3. CASE CommandStep(q)
    <3>1. cmd \in [Runtimes -> Executions]
      BY DEF TypeOK
    <3>2. cmd[q] \in [pc : {"observe", "apply", "activate", "finish", "settle"},
                      op : Operations, auto : BOOLEAN]
      BY <2>1, <3>1 DEF Executions
    <3>3. Finish(q)
      <4>1. \/ Answer(q) \/ Move(q, "apply") \/ Move(q, "activate") \/ Move(q, "finish") \/ Finish(q)
        BY <2>3 DEF CommandStep, Observe, Apply, ApplyAgain, Refuse, Activate, ActivateFails, Settle
      <4> QED BY <1>3, <3>1, <3>2, <4>1 DEF Answer, Move, NoCmd
    <3>4. cmd'[q].auto = (Loaded(q).mode = "auto") /\ doc' = Loaded(q) /\ phase' = phase
      BY <3>1, <3>2, <3>3 DEF Finish, LoadAlone, Load
    <3>5. Loaded(q).mode = "auto"
      BY <1>3, <3>4
    <3> QED BY <2>2, <3>4, <3>5, LoadsOwn DEF Owner
  <2>4. CASE cmd'[q] = cmd[q]
    BY <1>3, <2>2, <2>4, OwnerStays DEF Holders
  <2> QED BY <1>3, <2>1, <2>3, <2>4, CallSteps DEF NoCmd
<1>4. ASSUME NEW q \in Runtimes, Step(q, "install")'
      PROVE  phase'[q] # "unborn" /\ (phase'[q] = "live" => Owner(q)')
  <2>1. turn'.pc = "install" /\ turn'.by = q
    BY <1>4 DEF Step
  <2>2. CASE turn.pc = "install" /\ turn'.by = turn.by
    BY <2>1, <2>2, LiveBefore, OwnerStays DEF Holders, Step
  <2>3. ASSUME NEW r \in Runtimes, doc.runtime = r, doc' = doc, turn'.by = r, phase' = phase
        PROVE  phase'[q] # "unborn" /\ (phase'[q] = "live" => Owner(q)')
    <3>1. r = q /\ r # 0
      BY <2>1, <2>3, TaskAssumption DEF Runtimes
    <3> QED BY <2>3, <3>1 DEF Succession, Owner
  <2> QED BY <2>1, <2>2, <2>3, TurnsGoOn
<1> QED BY <1>2, <1>3, <1>4 DEF Holders

LEMMA LeavingKept ==
  ASSUME TypeOK, Known, Settled, Succession, Bypassed, Holders, Leaving, [Next]_vars
  PROVE  Leaving'
<1>1. phase \in [Runtimes -> {"unborn", "live", "disposed", "dead"}] /\ tool \in [Runtimes -> BOOLEAN]
  BY DEF TypeOK
<1>2. \A r \in Runtimes : r \in Nat
  BY TaskAssumption DEF Runtimes
<1>3. CASE revoked
  <2>1. doc.mode # "auto"
    BY <1>3 DEF Settled, Conclusive
  <2>2. turn'.pc \notin {"none", "hook", "over"} => turn'.cut = "user"
    BY <1>3, <2>1, TurnsGoOn DEF Leaving
  <2>3. ASSUME NEW q \in Runtimes, tool'[q] PROVE turn'.pc # "none" /\ turn'.cut = "user"
    <3>1. CASE tool[q]
      <4>1. Owner(q) /\ turn.pc # "none" /\ turn.cut = "user"
        BY <1>3, <3>1 DEF Holders, Leaving
      <4>2. ASSUME NEW r \in Runtimes, EndTurn(r) \/ Crash(r) PROVE FALSE
        <5>1. phase[r] = "live" /\ phase[q] = "live"
          BY <4>1, <4>2 DEF EndTurn, Crash, Owner
        <5>2. r = q
          BY <1>2, <5>1 DEF Succession
        <5> QED BY <1>1, <2>3, <4>1, <4>2, <5>2 DEF EndTurn, Crash, Withdrawn
      <4> QED BY <4>1, <4>2, CutHolds
    <3>2. CASE ~tool[q]
      <4>1. Install(q)
        BY <1>3, <2>3, <3>2, ToolSteps DEF Leaving, Settle
      <4>2. turn' = [turn EXCEPT !.pc = "ready"] /\ turn.pc = "install" /\ turn \in Requests
        BY <4>1 DEF Install, Go, Step, TypeOK
      <4> QED BY <1>3, <4>2 DEF Leaving, Requests
    <3> QED BY <3>1, <3>2
  <2>4. ASSUME NEW q \in Runtimes, phase'[q] = "live", cmd'[q].pc = "settle", cmd'[q].auto PROVE FALSE
    <3>1. cmd[q] # NoCmd
      BY <2>4, CallsFinish, UnderWay DEF Apply, ApplyAgain, Activate
    <3>2. phase[q] = "live"
      BY <2>4, <3>1, LiveBefore DEF Succession
    <3>3. cmd'[q] # cmd[q]
      BY <1>3, <2>4, <3>2 DEF Leaving
    <3>4. CommandStep(q)
      BY <2>4, <3>1, <3>3, CallSteps DEF NoCmd
    <3>5. Finish(q)
      <4>1. cmd \in [Runtimes -> Executions]
        BY DEF TypeOK
      <4>2. cmd[q] \in [pc : {"observe", "apply", "activate", "finish", "settle"},
                        op : Operations, auto : BOOLEAN]
        BY <3>1, <4>1 DEF Executions
      <4>3. \/ Answer(q) \/ Move(q, "apply") \/ Move(q, "activate") \/ Move(q, "finish") \/ Finish(q)
        BY <3>4 DEF CommandStep, Observe, Apply, ApplyAgain, Refuse, Activate, ActivateFails, Settle
      <4> QED BY <2>4, <4>1, <4>2, <4>3 DEF Answer, Move, NoCmd
    <3>6. cmd'[q].auto = (Loaded(q).mode = "auto")
      <4>1. cmd \in [Runtimes -> Executions] /\ cmd[q] \in Executions
        BY DEF TypeOK
      <4> QED BY <3>5, <4>1 DEF Finish, Executions, NoCmd
    <3> QED BY <2>1, <2>4, <3>6, LoadsOwn
  <2> QED BY <2>2, <2>3, <2>4 DEF Leaving
<1>4. CASE ~revoked /\ revoked'
  <2>1. PICK r \in Runtimes : Settle(r) /\ ~Gives(Action(r)) /\ turn' = Cancelled(turn)
    BY <1>4, RevocationStarts
  <2>2. Withdrawn(r) /\ Answer(r) /\ phase' = phase /\ cmd[r].pc = "settle"
    BY <1>4, <2>1 DEF Settle
  <2>3. cmd[r] # NoCmd /\ cmd \in [Runtimes -> Executions]
    BY <2>2, UnderWay DEF TypeOK
  <2>4. Revokes(cmd[r].op)
    BY <2>1, <2>3, Carried DEF Known, Revokes, Action, Gives, Commands
  <2>5. ASSUME NEW q \in Runtimes, Owner(q) PROVE q = r
    BY <1>2, <2>2, <2>3, <2>4, <2>5 DEF Bypassed, Owner, Succession
  <2>6. ASSUME NEW q \in Runtimes, tool'[q] PROVE FALSE
    <3>1. q # r /\ tool[q]
      BY <1>1, <2>2, <2>6 DEF Withdrawn
    <3> QED BY <2>5, <3>1 DEF Holders
  <2>7. turn'.pc # "none" => turn'.cut = "user"
    BY <2>1 DEF Cancelled, TypeOK, Requests
  <2>8. ASSUME NEW q \in Runtimes, phase'[q] = "live", cmd'[q].pc = "settle", cmd'[q].auto PROVE FALSE
    <3>1. cmd' = [cmd EXCEPT ![r] = NoCmd]
      BY <2>2 DEF Answer
    <3>2. q # r
      BY <2>3, <2>8, <3>1 DEF NoCmd
    <3>3. cmd'[q] = cmd[q]
      BY <2>3, <3>1, <3>2
    <3> QED BY <2>2, <2>5, <2>8, <3>2, <3>3 DEF Holders
  <2> QED BY <2>6, <2>7, <2>8 DEF Leaving
<1> QED BY <1>3, <1>4 DEF Leaving

\* A takeover leaves the model without the change tool: what the interrupted
\* turn's hook installs late is gone by the end of that turn, and neither a
\* command that an earlier runtime left behind nor a finished activation
\* brings the tool back.
THEOREM NoToolAfterTakeover == Spec => []ToolGone
<1> DEFINE Inv == Known /\ Settled /\ Succession /\ Seen /\ Bypassed /\ Holders /\ Leaving
<1>1. Init => Inv
  <2> SUFFICES ASSUME Init PROVE Inv
    OBVIOUS
  <2>1. ToSet(doc.receipts) = {}
    BY DEF Init, NoDoc, ToSet
  <2>2. Known /\ Settled
    BY <2>1 DEF Init, Known, Settled, NoCmd, NoTurn
  <2>3. Succession
    BY TaskAssumption DEF Init, NoDoc, Succession, Runtimes
  <2>4. Seen /\ Bypassed /\ Holders /\ Leaving
    BY DEF Init, Seen, Bypassed, Holders, Leaving, NoTurn, NoCmd, Step
  <2> QED BY <2>2, <2>3, <2>4
<1>2. TypeOK /\ Inv /\ [Next]_vars => Inv'
  BY KnownKept, SettledKept, SuccessionKept, SeenKept, BypassedKept, HoldersKept, LeavingKept
<1>3. Inv => ToolGone
  BY DEF Leaving, ToolGone
<1> QED BY <1>1, <1>2, <1>3, TypeCorrect, PTL DEF Spec
=============================================================================
