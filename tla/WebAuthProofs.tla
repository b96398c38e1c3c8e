---- MODULE WebAuthProofs ----
(***************************************************************************)
(* Theorems about WebAuth, for any number of concurrent requests.          *)
(***************************************************************************)
EXTENDS WebAuth, TLAPS

\* The prompt is open only while the login waits for the browser, and a pasted
\* callback, once accepted, has closed it for the rest of the login.
PromptSpent == /\ prompt = "open" => op = "browser" /\ cause = "none"
               /\ accepted # 0 => prompt = "closed"

\* A transition rejects who waits for the URL, and keeps others from joining.
NobodyWaits == \A c \in Caller : pc[c] # "waiting"
NoWaiter == transition # NoCaller => NobodyWaits

\* Disposal: there is one dispose request, and once it has been answered there is
\* nothing left, and nothing starts again.
OneDisposal == /\ disposed <=> \E c \in Caller : kind[c] = "dispose"
               /\ \A c \in Caller : pc[c] = "waiting" => kind[c] # "dispose"
Gone == \A c \in Caller : kind[c] = "dispose" /\ pc[c] = "idle" => op = "none" /\ NobodyWaits

WInv == TypeOK /\ TransitionAlone /\ NoLoginDuringTransition /\ PromptSpent
        /\ NoWaiter /\ OneDisposal /\ Gone

LEMMA InitWInv == Init => WInv
<1> SUFFICES ASSUME Init PROVE WInv
  OBVIOUS
<1>1. TypeOK
  <2>1. pc \in [Caller -> {"idle", "looping", "waiting"} \cup InTransition]
    BY DEF Init
  <2>2. kind \in [Caller -> Kind]
    BY DEF Init, Kind
  <2> QED BY <2>1, <2>2 DEF Init, TypeOK, Operation
<1>2. TransitionAlone /\ NoLoginDuringTransition /\ PromptSpent /\ NoWaiter /\ OneDisposal /\ Gone
  BY WebAuthAssumption DEF Init, TransitionAlone, NoLoginDuringTransition, PromptSpent, NoWaiter,
                           NobodyWaits, OneDisposal, Gone, InTransition
<1> QED BY <1>1, <1>2 DEF WInv

\* What the login itself, the timers and a pasted callback do to the callers: they
\* answer all that wait, or none; and the login does not come to life by itself.
LEMMA LoginSteps ==
  ASSUME TypeOK,
         Provider \/ Submit \/ ChallengeExpires \/ AuthorizationExpires
           \/ \E t \in Timers : StrayExpires(t)
  PROVE  /\ pc' = pc \/ pc' = Answered
         /\ op = "none" => op' = "none"
         /\ UNCHANGED <<transition, disposed, kind>>
BY DEF Provider, Announce, Prompt, Submit, Code, Commit, Succeed, Fail, Settle, CleanUp,
       ChallengeExpires, AuthorizationExpires, StrayExpires

\* Types: those of the callers, and those of everything else.
CallerTypes == /\ pc \in [Caller -> {"idle", "looping", "waiting"} \cup InTransition]
               /\ kind \in [Caller -> Kind]
OtherTypes == /\ op \in Operation
              /\ cause \in {"none", "caller", "url", "deadline", "stray"}
              /\ challenge \in BOOLEAN /\ challengeTimer \in BOOLEAN
              /\ authorizationTimer \in BOOLEAN /\ stray \subseteq Timers
              /\ prompt \in {"none", "open", "closed"} /\ accepted \in Nat
              /\ state \in {"out", "signing", "in", "error"} /\ stored \in BOOLEAN
              /\ transition \in Caller \cup {NoCaller} /\ disposed \in BOOLEAN

LEMMA CallerTypesKept == CallerTypes /\ Next => CallerTypes'
<1> SUFFICES ASSUME CallerTypes, Next PROVE CallerTypes'
  OBVIOUS
<1> DEFINE Pc == {"idle", "looping", "waiting"} \cup InTransition
<1>1. /\ pc \in [Caller -> Pc] /\ kind \in [Caller -> Kind]
      /\ \A s \in {"idle", "looping", "waiting", "closing", "acting", "reading"} : s \in Pc
  BY DEF CallerTypes, InTransition
<1>2. CallerTypes' <=> pc' \in [Caller -> Pc] /\ kind' \in [Caller -> Kind]
  BY DEF CallerTypes
<1> HIDE DEF Pc
<1>3. Answered \in [Caller -> Pc]
  BY <1>1 DEF Answered
<1>4. CASE Provider \/ Submit \/ ChallengeExpires \/ AuthorizationExpires
             \/ \E t \in Timers : StrayExpires(t)
  BY <1>1, <1>2, <1>3, <1>4
     DEF Provider, Announce, Prompt, Submit, Code, Commit, Succeed, Fail, Settle,
         ChallengeExpires, AuthorizationExpires, StrayExpires
<1>5. ASSUME NEW c \in Caller, NEW k \in Kind, Call(c, k) PROVE CallerTypes'
  BY <1>1, <1>2, <1>5 DEF Call
<1>6. ASSUME NEW c \in Caller, Proceed(c) PROVE CallerTypes'
  BY <1>1, <1>2, <1>3, <1>6 DEF Proceed, Start, StartThrows, Join, TurnAway, Begin
<1>7. ASSUME NEW c \in Caller, Transition(c) PROVE CallerTypes'
  BY <1>1, <1>2, <1>7 DEF Transition, Close, Act, Report, End
<1> QED BY <1>4, <1>5, <1>6, <1>7 DEF Next

\* The fields of a login that a step leaves alone.
LEMMA LoginFixed ==
  ASSUME login' = login
  PROVE  UNCHANGED <<op, cause, challenge, challengeTimer, authorizationTimer, prompt, accepted>>
BY DEF login

LEMMA OtherTypesKept == OtherTypes /\ Next => OtherTypes'
<1> SUFFICES ASSUME OtherTypes, Next PROVE OtherTypes'
  OBVIOUS
<1> USE DEF OtherTypes, Timers
<1>1. CASE Announce
  <2>1. op' \in Operation
    BY <1>1 DEF Announce, Operation
  <2>2. cause' \in {cause, "url"} /\ challenge' \in BOOLEAN /\ challengeTimer' \in BOOLEAN
        /\ prompt' \in {prompt, "closed"}
    BY <1>1 DEF Announce, CancelSignIn
  <2>3. UNCHANGED <<authorizationTimer, accepted, stray, state, stored, transition, disposed>>
    BY <1>1 DEF Announce
  <2> QED BY <2>1, <2>2, <2>3
<1>2. CASE Prompt
  BY <1>2 DEF Prompt
<1>3. CASE Submit
  BY <1>3 DEF Submit
<1>4. CASE Code \/ Commit \/ Fail
  <2>1. op' \in Operation
    BY <1>4 DEF Code, Commit, Fail, Operation
  <2>2. stored' \in BOOLEAN
    BY <1>4 DEF Code, Commit, Fail
  <2>3. prompt' \in {prompt, "closed"} /\ challengeTimer' \in BOOLEAN
    BY <1>4 DEF Code, Commit, Fail
  <2>4. UNCHANGED <<cause, challenge, authorizationTimer, accepted, stray, state, transition, disposed>>
    BY <1>4 DEF Code, Commit, Fail
  <2> QED BY <2>1, <2>2, <2>3, <2>4
<1>5. CASE Succeed
  <2>1. CASE challenge
    <3>1. op' = "succeeding" /\ prompt' = "closed"
          /\ UNCHANGED <<cause, challenge, challengeTimer, authorizationTimer, accepted, state>>
          /\ UNCHANGED <<stray, stored, transition, disposed>>
      BY <1>5, <2>1 DEF Succeed
    <3> QED BY <3>1 DEF Operation
  <2>2. CASE ~challenge
    <3>1. /\ CleanUp /\ state' = "error" /\ UNCHANGED <<stray, stored, transition, disposed>>
      BY <1>5, <2>2 DEF Succeed
    <3> QED BY <3>1 DEF CleanUp, Operation
  <2> QED BY <2>1, <2>2
<1>6. CASE Settle
  <2>1. state' \in {"out", "signing", "in", "error"}
    BY <1>6 DEF Settle, Outcome
  <2>2. op' \in Operation
    BY <1>6 DEF Settle, CleanUp, Operation
  <2>3. /\ cause' = "none" /\ challenge' = FALSE /\ challengeTimer' = FALSE
        /\ authorizationTimer' = FALSE /\ prompt' = "none" /\ accepted' = 0
        /\ UNCHANGED <<stray, stored, transition, disposed>>
    BY <1>6 DEF Settle, CleanUp
  <2> QED BY <2>1, <2>2, <2>3
<1>7. CASE ChallengeExpires \/ AuthorizationExpires \/ \E t \in Timers : StrayExpires(t)
  <2>1. /\ cause' \in {cause, "deadline", "stray"} /\ challengeTimer' = FALSE
        /\ prompt' \in {prompt, "closed"} /\ authorizationTimer' \in BOOLEAN
    BY <1>7 DEF ChallengeExpires, AuthorizationExpires, StrayExpires, CancelSignIn
  <2>2. stray' \subseteq Timers
    BY <1>7 DEF ChallengeExpires, AuthorizationExpires, StrayExpires
  <2>3. UNCHANGED <<op, challenge, accepted, state, stored, transition, disposed>>
    BY <1>7 DEF ChallengeExpires, AuthorizationExpires, StrayExpires
  <2> QED BY <2>1, <2>2, <2>3
<1>8. ASSUME NEW c \in Caller, NEW k \in Kind, Call(c, k) PROVE OtherTypes'
  <2>1. login' = login /\ UNCHANGED <<stray, state, stored, transition>> /\ disposed' \in BOOLEAN
    BY <1>8 DEF Call
  <2> QED BY <2>1, LoginFixed
<1>9. ASSUME NEW c \in Caller, Start(c) \/ StartThrows(c) PROVE OtherTypes'
  <2>1. op' \in Operation
    BY <1>9 DEF Start, StartThrows, Operation
  <2>2. stray' \subseteq Timers
    BY <1>9 DEF Start, StartThrows, Arm
  <2>3. /\ cause' = "none" /\ challenge' = FALSE /\ challengeTimer' = TRUE
        /\ authorizationTimer' = TRUE /\ prompt' = "none" /\ accepted' = 0 /\ state' = "signing"
        /\ UNCHANGED <<stored, transition, disposed>>
    BY <1>9 DEF Start, StartThrows, Arm
  <2> QED BY <2>1, <2>2, <2>3
<1>10. ASSUME NEW c \in Caller, Join(c) \/ TurnAway(c) \/ Begin(c) PROVE OtherTypes'
  <2>1. CASE Join(c) \/ TurnAway(c)
    <3>1. login' = login /\ UNCHANGED <<stray, state, stored, transition, disposed>>
      BY <2>1 DEF Join, TurnAway
    <3> QED BY <3>1, LoginFixed
  <2>2. CASE Begin(c)
    <3>1. /\ transition' = c /\ cause' \in {cause, "caller"} /\ challengeTimer' = FALSE
          /\ prompt' \in {prompt, "closed"}
      BY <2>2 DEF Begin, CancelSignIn
    <3>2. UNCHANGED <<op, challenge, authorizationTimer, accepted, stray, state, stored, disposed>>
      BY <2>2 DEF Begin
    <3> QED BY <3>1, <3>2
  <2> QED BY <1>10, <2>1, <2>2
<1>11. ASSUME NEW c \in Caller, Close(c) PROVE OtherTypes'
  <2>1. /\ challenge' = FALSE /\ transition' \in {transition, NoCaller}
        /\ UNCHANGED <<op, cause, challengeTimer, authorizationTimer, prompt, accepted>>
        /\ UNCHANGED <<stray, state, stored, disposed>>
    BY <1>11 DEF Close, End
  <2> QED BY <2>1
<1>12. ASSUME NEW c \in Caller, Act(c) PROVE OtherTypes'
  <2>1. login' = login /\ UNCHANGED <<stray, disposed>>
    BY <1>12 DEF Act
  <2>2. transition' \in Caller \cup {NoCaller} /\ stored' \in BOOLEAN
    BY <1>12 DEF Act, End
  <2>3. state' \in {state, "out"}
    BY <1>12 DEF Act
  <2> QED BY <2>1, <2>2, <2>3, LoginFixed
<1>13. ASSUME NEW c \in Caller, Report(c) PROVE OtherTypes'
  <2>1. login' = login /\ UNCHANGED <<stray, stored, disposed>>
    BY <1>13 DEF Report
  <2>2. transition' \in Caller \cup {NoCaller}
    BY <1>13 DEF Report, End
  <2>3. state' \in {state, "in", "out"}
    BY <1>13 DEF Report, Outcome
  <2> QED BY <2>1, <2>2, <2>3, LoginFixed
<1> QED BY <1>1, <1>2, <1>3, <1>4, <1>5, <1>6, <1>7, <1>8, <1>9, <1>10, <1>11, <1>12, <1>13
        DEF Next, Provider, Proceed, Transition

LEMMA TypeKept == TypeOK /\ Next => TypeOK'
<1>1. TypeOK <=> CallerTypes /\ OtherTypes
  BY DEF TypeOK, CallerTypes, OtherTypes
<1>2. TypeOK' <=> CallerTypes' /\ OtherTypes'
  BY DEF TypeOK, CallerTypes, OtherTypes
<1> QED BY <1>1, <1>2, CallerTypesKept, OtherTypesKept

LEMMA PromptKept == TypeOK /\ PromptSpent /\ Next => PromptSpent'
<1> SUFFICES ASSUME TypeOK, PromptSpent, Next PROVE PromptSpent'
  OBVIOUS
<1> USE DEF PromptSpent, login
<1>1. CASE Provider \/ Submit
  BY <1>1 DEF Provider, Announce, CancelSignIn, Prompt, Submit, MaySubmit, Code, Commit, Succeed,
              Fail, Settle, CleanUp
<1>2. CASE ChallengeExpires \/ AuthorizationExpires \/ \E t \in Timers : StrayExpires(t)
  BY <1>2 DEF ChallengeExpires, AuthorizationExpires, StrayExpires, CancelSignIn
<1>3. ASSUME NEW c \in Caller, (\E k \in Kind : Call(c, k)) \/ Proceed(c) \/ Transition(c)
      PROVE  PromptSpent'
  BY <1>3 DEF Call, Proceed, Start, StartThrows, Join, TurnAway, Begin, Arm, CancelSignIn,
              Transition, Close, Act, Report
<1> QED BY <1>1, <1>2, <1>3 DEF Next

\* The callers' part of the invariant, one step per kind of action.
Callers == TransitionAlone /\ NoLoginDuringTransition /\ NoWaiter /\ OneDisposal /\ Gone

LEMMA CallersKept == WInv /\ Next => Callers'
<1> SUFFICES ASSUME WInv, Next PROVE Callers'
  OBVIOUS
<1> USE WebAuthAssumption DEF WInv, Callers, TransitionAlone, NoLoginDuringTransition, NoWaiter,
        NobodyWaits, OneDisposal, Gone, InTransition, login
<1>1. CASE Provider \/ Submit \/ ChallengeExpires \/ AuthorizationExpires
             \/ \E t \in Timers : StrayExpires(t)
  <2>1. /\ pc' = pc \/ pc' = Answered
        /\ op = "none" => op' = "none"
        /\ UNCHANGED <<transition, disposed, kind>>
    BY <1>1, LoginSteps
  <2>2. \A c \in Caller : \/ pc'[c] = pc[c]
                          \/ pc[c] = "waiting" /\ pc'[c] = "idle"
    BY <2>1 DEF Answered
  <2> QED BY <2>1, <2>2
<1>2. ASSUME NEW c \in Caller, NEW k \in Kind, Call(c, k) PROVE Callers'
  BY <1>2 DEF Call, TypeOK
<1>3. ASSUME NEW c \in Caller, Start(c) \/ StartThrows(c) \/ Join(c) \/ TurnAway(c) PROVE Callers'
  BY <1>3 DEF Start, StartThrows, Join, TurnAway, Go, TypeOK
<1>4. ASSUME NEW c \in Caller, Begin(c) PROVE Callers'
  BY <1>4 DEF Begin, Go, Answered, TypeOK
<1>5. ASSUME NEW c \in Caller, Transition(c) PROVE Callers'
  BY <1>5 DEF Transition, Close, Act, Report, End, TypeOK
<1> QED BY <1>1, <1>2, <1>3, <1>4, <1>5 DEF Next, Proceed

\* The invariant is inductive.
THEOREM Invariance == Spec => []WInv
<1>1. WInv /\ [Next]_vars => WInv'
  <2>1. WInv /\ Next => WInv'
    BY TypeKept, PromptKept, CallersKept DEF WInv, Callers
  <2>2. WInv /\ UNCHANGED vars => WInv'
    BY DEF WInv, vars, login, TypeOK, TransitionAlone, NoLoginDuringTransition, PromptSpent,
           NoWaiter, NobodyWaits, OneDisposal, Gone
  <2> QED BY <2>1, <2>2
<1> QED BY <1>1, InitWInv, PTL DEF Spec

\* The variables of the login keep their types.
THEOREM TypeCorrect == Spec => []TypeOK
<1>1. WInv => TypeOK
  BY DEF WInv
<1> QED BY <1>1, Invariance, PTL

\* Transitions exclude each other, however many requests loop for their turn.
THEOREM OneTransition == Spec => []TransitionAlone
<1>1. WInv => TransitionAlone
  BY DEF WInv
<1> QED BY <1>1, Invariance, PTL

\* A sign-out, a switch or a removal never overlaps a login that could commit.
THEOREM LoginsStayOut == Spec => []NoLoginDuringTransition
<1>1. WInv => NoLoginDuringTransition
  BY DEF WInv
<1> QED BY <1>1, Invariance, PTL

\* A disposed plugin has no login and no waiting request, and gets none.
THEOREM DisposalIsFinal == Spec => []DisposedForGood
<1>1. WInv => DisposedForGood
  BY DEF WInv, OneDisposal, Gone, NobodyWaits, DisposedForGood, DisposeReturned
<1> QED BY <1>1, Invariance, PTL

\* A login takes one pasted callback, while it waits for the browser, or none.
THEOREM OneCallback == Spec => AcceptedOnce
<1> DEFINE InTime == accepted' > accepted => accepted = 0 /\ op = "browser" /\ cause = "none"
<1>1. WInv /\ [Next]_vars => [InTime]_vars
  <2> SUFFICES ASSUME WInv, Next, accepted' > accepted
               PROVE  accepted = 0 /\ op = "browser" /\ cause = "none"
    OBVIOUS
  <2>1. accepted \in Nat
    BY DEF WInv, TypeOK
  <2>2. accepted' # accepted /\ accepted' # 0
    BY <2>1
  \* Any other step leaves the count alone, or starts it again.
  <2>3. Submit
    <3>1. CASE Provider \/ ChallengeExpires \/ AuthorizationExpires \/ \E t \in Timers : StrayExpires(t)
      BY <2>2, <3>1 DEF Provider, Announce, Prompt, Code, Commit, Succeed, Fail, Settle, CleanUp,
                        ChallengeExpires, AuthorizationExpires, StrayExpires
    <3>2. CASE \E c \in Caller : (\E k \in Kind : Call(c, k)) \/ Proceed(c) \/ Transition(c)
      BY <2>2, <3>2, LoginFixed
         DEF Call, Proceed, Start, StartThrows, Join, TurnAway, Begin, Arm, Transition, Close, Act, Report
    <3> QED BY <3>1, <3>2 DEF Next
  <2> QED BY <2>3 DEF Submit, MaySubmit, WInv, PromptSpent
<1> QED BY <1>1, Invariance, PTL DEF Spec, AcceptedOnce
====
