---- MODULE WebAuth ----
(***************************************************************************)
(* OpenAICodexWebAuth of src/src/auth-routes.ts: the one owner of browser  *)
(* login in a process.  Requests to sign in start a login or join it, and  *)
(* wait for its authorization URL.  Requests to cancel, to sign out or to  *)
(* change the stored accounts, and the disposal of the plugin, cancel the  *)
(* login, wait until it is over, and then act: each is a "transition", one *)
(* at a time.  Two timers cancel a login by themselves.                    *)
(*                                                                         *)
(* A request is one of the Callers; it goes idle when it is answered,      *)
(* whether with a result or an error, and may then be another request.     *)
(* What the provider's login does is external: it announces a URL, asks    *)
(* for a pasted callback, gets a code, commits a credential, or fails.     *)
(***************************************************************************)
EXTENDS Naturals, FiniteSets

CONSTANTS Caller, NoCaller

ASSUME WebAuthAssumption == NoCaller \notin Caller

VARIABLES op,                 \* the login operation, see Operation
          cause,              \* what aborted its signal, "none" while nothing has
          challenge,          \* it has announced its URL
          challengeTimer,     \* the timer for the URL is armed
          authorizationTimer, \* the timer for the whole login is armed
          stray,              \* armed timers of starts that threw, no longer referenced
          prompt,             \* the manual prompt: not yet there, open, or closed for good
          accepted,           \* history: pasted callbacks this login accepted
          state,              \* the last outcome shown to the user
          stored,             \* some account is stored
          transition,         \* the caller whose transition runs
          disposed,
          pc, kind            \* of each caller

login == <<op, cause, challenge, challengeTimer, authorizationTimer, prompt, accepted>>
vars == <<login, stray, state, stored, transition, disposed, pc, kind>>

\* Announcing its URL, waiting for the browser, exchanging the code, and after
\* the provider is through: reading the status that ends it.
Operation == {"none", "starting", "browser", "exchanging", "committed", "succeeding", "failing"}
Kind == {"signIn", "cancel", "logout", "mutate", "dispose"}
InTransition == {"closing", "acting", "reading"}
Timers == {"challenge", "authorization"}

Init == /\ op = "none" /\ cause = "none" /\ challenge = FALSE
        /\ challengeTimer = FALSE /\ authorizationTimer = FALSE /\ stray = {}
        /\ prompt = "none" /\ accepted = 0
        /\ state = "out" /\ stored \in BOOLEAN
        /\ transition = NoCaller /\ disposed = FALSE
        /\ pc = [c \in Caller |-> "idle"] /\ kind = [c \in Caller |-> "signIn"]

\* challengeWaiters: the callers that wait; all of them are answered at once.
Answered == [c \in Caller |-> IF pc[c] = "waiting" THEN "idle" ELSE pc[c]]

\* cancelSignIn: the waiters are rejected, the URL timer stops, the login's signal
\* fires, and with it the listener of the manual prompt.
CancelSignIn(why) ==
  /\ challengeTimer' = FALSE
  /\ cause' = IF op # "none" /\ cause = "none" THEN why ELSE cause
  /\ prompt' = IF prompt = "open" THEN "closed" ELSE prompt

-----------------------------------------------------------------------------
\* The login operation.

\* onEvent: the URL is announced, once; nobody hears it after an abort.
Announce ==
  /\ op = "starting" /\ op' = "browser"
  /\ \/ /\ cause = "none"
        /\ challenge' = TRUE /\ challengeTimer' = FALSE /\ pc' = Answered
        /\ UNCHANGED <<cause, prompt>>
     \/ /\ cause = "none"                      \* not a URL, or not a safe one
        /\ CancelSignIn("url") /\ pc' = Answered /\ UNCHANGED challenge
     \/ /\ cause # "none"
        /\ UNCHANGED <<cause, challenge, challengeTimer, prompt, pc>>
  /\ UNCHANGED <<authorizationTimer, accepted, stray, state, stored, transition, disposed, kind>>

\* waitForManualPrompt; a rejected prompt changes nothing.
Prompt == /\ op = "browser" /\ cause = "none" /\ prompt = "none"
          /\ prompt' = "open"
          /\ UNCHANGED <<op, cause, challenge, challengeTimer, authorizationTimer, accepted>>
          /\ UNCHANGED <<stray, state, stored, transition, disposed, pc, kind>>

MaySubmit == /\ ~disposed /\ transition = NoCaller
             /\ op # "none" /\ cause = "none"
             /\ prompt = "open" /\ challenge

\* submitCallback answers 200.
Submit == /\ MaySubmit
          /\ prompt' = "closed" /\ accepted' = accepted + 1
          /\ UNCHANGED <<op, cause, challenge, challengeTimer, authorizationTimer>>
          /\ UNCHANGED <<stray, state, stored, transition, disposed, pc, kind>>

\* Mutant: the prompt listens to the login's signal only, not to the provider's.
CodeKeepsPrompt == /\ op = "browser" /\ cause = "none" /\ op' = "exchanging"
                   /\ UNCHANGED <<cause, challenge, challengeTimer, authorizationTimer, prompt, accepted>>
                   /\ UNCHANGED <<stray, state, stored, transition, disposed, pc, kind>>

\* A code arrived, by the browser or pasted; the provider withdraws its prompt.
Code == /\ op = "browser" /\ cause = "none"
        /\ op' = "exchanging" /\ prompt' = "closed"
        /\ UNCHANGED <<cause, challenge, challengeTimer, authorizationTimer, accepted>>
        /\ UNCHANGED <<stray, state, stored, transition, disposed, pc, kind>>

\* The store looks at the signal right before it takes the credential; a provider
\* may come to this without having announced a URL.
Commit == /\ op \in {"starting", "exchanging"} /\ cause = "none"
          /\ op' = "committed" /\ stored' = TRUE
          /\ UNCHANGED <<cause, challenge, challengeTimer, authorizationTimer, prompt, accepted>>
          /\ UNCHANGED <<stray, state, transition, disposed, pc, kind>>

\* finally: the operation is over, and what belongs to it is reset.
CleanUp == /\ op' = "none" /\ cause' = "none" /\ challenge' = FALSE
           /\ challengeTimer' = FALSE /\ authorizationTimer' = FALSE
           /\ prompt' = "none" /\ accepted' = 0

\* Mutant: a login that ends without a URL forgets who waits for it.
SucceedSilently ==
  /\ op = "committed"
  /\ \/ /\ challenge /\ op' = "succeeding" /\ prompt' = "closed"
        /\ UNCHANGED <<cause, challenge, challengeTimer, authorizationTimer, accepted, state>>
     \/ /\ ~challenge
        /\ CleanUp /\ state' = "error"
  /\ UNCHANGED <<stray, stored, transition, disposed, pc, kind>>

\* The handler of a login that succeeded.
Succeed ==
  /\ op = "committed"
  /\ \/ /\ challenge /\ op' = "succeeding" /\ prompt' = "closed"
        /\ UNCHANGED <<cause, challenge, challengeTimer, authorizationTimer, accepted, state, pc>>
     \/ /\ ~challenge
        /\ CleanUp /\ state' = "error" /\ pc' = Answered
  /\ UNCHANGED <<stray, stored, transition, disposed, kind>>

\* The handler of a login that failed, or was cancelled.
Fail == /\ op \in {"starting", "browser", "exchanging"}
        /\ op' = "failing" /\ prompt' = "closed"
        /\ challengeTimer' = FALSE /\ pc' = Answered
        /\ UNCHANGED <<cause, challenge, authorizationTimer, accepted>>
        /\ UNCHANGED <<stray, state, stored, transition, disposed, kind>>

Outcome == IF stored THEN "in" ELSE "out"

\* The status that ends the login is there; reading it may fail.
Settle == /\ \/ op = "succeeding" /\ state' \in {Outcome, state}
             \/ op = "failing" /\ state' \in {IF stored THEN "in" ELSE "error", "error"}
          /\ CleanUp
          /\ UNCHANGED <<stray, stored, transition, disposed, pc, kind>>

-----------------------------------------------------------------------------
\* Timers.
ChallengeExpires ==
  /\ challengeTimer /\ CancelSignIn("deadline") /\ pc' = Answered
  /\ UNCHANGED <<op, challenge, authorizationTimer, accepted>>
  /\ UNCHANGED <<stray, state, stored, transition, disposed, kind>>

AuthorizationExpires ==
  /\ authorizationTimer /\ authorizationTimer' = FALSE
  /\ CancelSignIn("deadline") /\ pc' = Answered
  /\ UNCHANGED <<op, challenge, accepted>>
  /\ UNCHANGED <<stray, state, stored, transition, disposed, kind>>

\* A timer that a throwing start left behind cancels whichever login there is.
StrayExpires(t) ==
  /\ t \in stray /\ stray' = stray \ {t}
  /\ CancelSignIn("stray") /\ pc' = Answered
  /\ UNCHANGED <<op, challenge, authorizationTimer, accepted>>
  /\ UNCHANGED <<state, stored, transition, disposed, kind>>

-----------------------------------------------------------------------------
\* Requests.  Each first waits, in a loop, until no transition runs.  They keep
\* coming after the disposal; the Host disposes once, and asks for nothing else.
Call(c, k) == /\ pc[c] = "idle" /\ kind[c] # "dispose" /\ (k = "dispose" => ~disposed)
              /\ pc' = [pc EXCEPT ![c] = "looping"] /\ kind' = [kind EXCEPT ![c] = k]
              /\ disposed' = (disposed \/ k = "dispose")
              /\ UNCHANGED <<login, stray, state, stored, transition>>

Go(c, k) == pc[c] = "looping" /\ kind[c] \in k /\ transition = NoCaller

\* start(): the timers of an earlier start that threw lose their only reference.
Arm == /\ challengeTimer' = TRUE /\ authorizationTimer' = TRUE
       /\ stray' = stray \cup {t \in Timers : \/ t = "challenge" /\ challengeTimer
                                              \/ t = "authorization" /\ authorizationTimer}
       /\ cause' = "none" /\ challenge' = FALSE /\ prompt' = "none" /\ accepted' = 0
       /\ state' = "signing"

\* Mutant: signIn looks at disposed before it waits, not after.
StartLate(c) == /\ Go(c, {"signIn"}) /\ op = "none"
                /\ Arm /\ op' = "starting"
                /\ pc' = [pc EXCEPT ![c] = "waiting"]
                /\ UNCHANGED <<stored, transition, disposed, kind>>

Start(c) == /\ Go(c, {"signIn"}) /\ ~disposed /\ op = "none"
            /\ Arm /\ op' = "starting"
            /\ pc' = [pc EXCEPT ![c] = "waiting"]
            /\ UNCHANGED <<stored, transition, disposed, kind>>

\* The proxy manager is shutting down: run throws before there is an operation.
StartThrows(c) == /\ Go(c, {"signIn"}) /\ ~disposed /\ op = "none"
                  /\ Arm /\ UNCHANGED op
                  /\ pc' = [pc EXCEPT ![c] = "idle"]
                  /\ UNCHANGED <<stored, transition, disposed, kind>>

\* A login exists: its URL, or a place among those that wait for it.
Join(c) == /\ Go(c, {"signIn"}) /\ ~disposed /\ op # "none"
           /\ pc' = [pc EXCEPT ![c] = IF challenge THEN "idle" ELSE "waiting"]
           /\ UNCHANGED <<login, stray, state, stored, transition, disposed, kind>>

\* signIn and mutateStoredAccount throw after disposal.
TurnAway(c) == /\ Go(c, {"signIn", "mutate"}) /\ disposed
               /\ pc' = [pc EXCEPT ![c] = "idle"]
               /\ UNCHANGED <<login, stray, state, stored, transition, disposed, kind>>

\* Mutant: the transition does not wait for the one that runs.
BeginAtOnce(c) == /\ pc[c] = "looping"
                  /\ kind[c] \in {"cancel", "logout", "dispose"} \/ (kind[c] = "mutate" /\ ~disposed)
                  /\ transition' = c
                  /\ CancelSignIn("caller")
                  /\ pc' = [Answered EXCEPT ![c] = "closing"]
                  /\ UNCHANGED <<op, challenge, authorizationTimer, accepted>>
                  /\ UNCHANGED <<stray, state, stored, disposed, kind>>

\* finishLogin and mutateStoredAccount cancel the login and start to wait for it.
Begin(c) == /\ Go(c, {"cancel", "logout", "dispose"}) \/ (Go(c, {"mutate"}) /\ ~disposed)
            /\ transition' = c
            /\ CancelSignIn("caller")
            /\ pc' = [Answered EXCEPT ![c] = "closing"]
            /\ UNCHANGED <<op, challenge, authorizationTimer, accepted>>
            /\ UNCHANGED <<stray, state, stored, disposed, kind>>

\* Mutant: a transition that fails stays.
EndOnlyWell(c, well) == /\ transition' = IF well THEN NoCaller ELSE transition
                        /\ pc' = [d \in Caller |-> IF d = c \/ (~well /\ pc[d] = "looping")
                                                   THEN "idle" ELSE pc[d]]

\* The transition settles.  Who waits for it shares its failure.
End(c, well) == /\ transition' = NoCaller
                /\ pc' = [d \in Caller |-> IF d = c \/ (~well /\ pc[d] = "looping")
                                           THEN "idle" ELSE pc[d]]

\* Mutant: the login is cancelled but not awaited.
CloseEarly(c) == /\ pc[c] = "closing"
                 /\ challenge' = FALSE
                 /\ \/ /\ kind[c] = "dispose" /\ End(c, TRUE)
                    \/ /\ kind[c] # "dispose" /\ UNCHANGED transition
                       /\ pc' = [pc EXCEPT ![c] = IF kind[c] = "cancel" THEN "reading" ELSE "acting"]
                 /\ UNCHANGED <<op, cause, challengeTimer, authorizationTimer, prompt, accepted>>
                 /\ UNCHANGED <<stray, state, stored, disposed, kind>>

\* The login is over.
Close(c) == /\ pc[c] = "closing" /\ op = "none"
            /\ challenge' = FALSE
            /\ \/ /\ kind[c] = "dispose" /\ End(c, TRUE)
               \/ /\ kind[c] # "dispose" /\ UNCHANGED transition
                  /\ pc' = [pc EXCEPT ![c] = IF kind[c] = "cancel" THEN "reading" ELSE "acting"]
            /\ UNCHANGED <<op, cause, challengeTimer, authorizationTimer, prompt, accepted>>
            /\ UNCHANGED <<stray, state, stored, disposed, kind>>

\* The credential store deletes the accounts, selects one, removes one, or fails.
Act(c) == /\ pc[c] = "acting"
          /\ \/ /\ kind[c] = "logout" /\ stored' = FALSE /\ state' = "out"
                /\ End(c, TRUE)
             \/ /\ kind[c] = "mutate" /\ stored /\ stored' \in BOOLEAN
                /\ pc' = [pc EXCEPT ![c] = "reading"] /\ UNCHANGED <<transition, state>>
             \/ /\ End(c, FALSE) /\ UNCHANGED <<stored, state>>
          /\ UNCHANGED <<login, stray, disposed, kind>>

\* The status that answers the request, or the failure to read it.
Report(c) == /\ pc[c] = "reading"
             /\ \/ state' = Outcome /\ End(c, TRUE)
                \/ UNCHANGED state /\ End(c, FALSE)
             /\ UNCHANGED <<login, stray, stored, disposed, kind>>

-----------------------------------------------------------------------------
Provider == Announce \/ Prompt \/ Code \/ Commit \/ Succeed \/ Fail \/ Settle
Proceed(c) == Start(c) \/ StartThrows(c) \/ Join(c) \/ TurnAway(c) \/ Begin(c)
Transition(c) == Close(c) \/ Act(c) \/ Report(c)

Next == \/ Provider \/ Submit
        \/ ChallengeExpires \/ AuthorizationExpires \/ \E t \in Timers : StrayExpires(t)
        \/ \E c \in Caller : \/ \E k \in Kind : Call(c, k)
                             \/ Proceed(c) \/ Transition(c)

Spec == Init /\ [][Next]_vars

\* An aborted or abandoned login ends, status reads and store operations return,
\* timers fire.  Callers resume in the order in which they began to wait.
Fairness == /\ WF_vars(Fail) /\ WF_vars(Succeed) /\ WF_vars(Settle)
            /\ WF_vars(ChallengeExpires) /\ WF_vars(AuthorizationExpires)
            /\ \A c \in Caller : SF_vars(Proceed(c)) /\ WF_vars(Transition(c))

FairSpec == Spec /\ Fairness

-----------------------------------------------------------------------------
TypeOK == /\ op \in Operation
          /\ cause \in {"none", "caller", "url", "deadline", "stray"}
          /\ challenge \in BOOLEAN /\ challengeTimer \in BOOLEAN
          /\ authorizationTimer \in BOOLEAN /\ stray \subseteq Timers
          /\ prompt \in {"none", "open", "closed"} /\ accepted \in Nat
          /\ state \in {"out", "signing", "in", "error"} /\ stored \in BOOLEAN
          /\ transition \in Caller \cup {NoCaller} /\ disposed \in BOOLEAN
          /\ pc \in [Caller -> {"idle", "looping", "waiting"} \cup InTransition]
          /\ kind \in [Caller -> Kind]

\* At most one request is between cancelling the login and its answer.
TransitionAlone == \A c \in Caller : pc[c] \in InTransition <=> transition = c

\* While accounts are deleted, switched or reported no login is alive: none can
\* commit its credential after a sign-out, or into the middle of a removal.
NoLoginDuringTransition == \A c \in Caller : pc[c] \in {"acting", "reading"} => op = "none"

\* Once dispose has returned, with or without an error, no login is alive, nobody
\* waits for one, and no request that was waiting starts one.
DisposeReturned == disposed /\ \A c \in Caller : kind[c] = "dispose" => pc[c] = "idle"
DisposedForGood == DisposeReturned => op = "none" /\ \A c \in Caller : pc[c] # "waiting"

\* "Accept exactly once": a pasted callback is accepted only while the login still
\* waits for the browser.  No login takes a second one, none takes one after the
\* provider's own server took the code, and none after anything cancelled it.
AcceptedOnce == [][accepted' > accepted => accepted = 0 /\ op = "browser" /\ cause = "none"]_vars

\* Transitions end, and requests that wait for them go on, whatever fails.
RequestsProceed == \A c \in Caller : pc[c] \in {"looping"} \cup InTransition
                                       ~> pc[c] \in {"idle", "waiting"}

\* A request for the URL is answered as long as the URL's timer runs.
TimedWaitsEnd == \A c \in Caller : pc[c] = "waiting" /\ challengeTimer ~> pc[c] = "idle"

\* What the comment on OPENAI_CODEX_AUTH_URL_TIMEOUT_MS promises: no request waits
\* for the URL for ever.
EveryWaitEnds == \A c \in Caller : pc[c] = "waiting" ~> pc[c] = "idle"

\* What the documentation of oauthTimeoutMs promises: a login is cancelled by its
\* own deadlines, not by those of an earlier attempt.
OwnDeadline == cause # "stray"
====
