---- MODULE ConversationSpeed ----
(***************************************************************************)
(* ConversationSpeedRegistry of src/src/conversation-speed.ts, on top of   *)
(* FastModeRegistry of fast-mode.ts: which of Standard, Fast and Ultrafast *)
(* each conversation asks for.  Ultrafast is a paid choice.  It is bound   *)
(* to a scope: the place (the account epoch and the conversation's model   *)
(* selection), the account and the model.  Browser clients read and change *)
(* the choice with a generation and a revision; a start-up preference is   *)
(* resolved asynchronously; requests capture the choice when their stream  *)
(* starts and confirm it, with the account they really use, before they    *)
(* are dispatched.                                                         *)
(*                                                                         *)
(* Identifiers are numbers here, random in the code.  The three maps of    *)
(* the code keep their insertion order: controls, starts and fast.         *)
(***************************************************************************)
EXTENDS Naturals, Sequences, SequencesExt

CONSTANTS Session, Account, NoAccount,
          Client, Request,  \* browser handlers and model requests
          SessionOf,        \* the session each of them is for
          Limit,            \* OPENAI_CODEX_FAST_MODE_MAX_SESSIONS
          Starting,         \* the sessions that have not started yet
          MaxMoves, MaxGeneration, MaxRevision  \* bounds of the model

ASSUME SpeedAssumption == /\ NoAccount \notin Account
                          /\ SessionOf \in [Client \cup Request -> Session]
                          /\ Limit \in Nat \ {0}
                          /\ Starting \subseteq Session
                          /\ {MaxMoves, MaxGeneration, MaxRevision} \subseteq Nat

VARIABLES epoch,        \* accountEpoch
          live,         \* sessions the Host exposes
          selection,    \* of each session: how often its model was selected
          control,      \* of each session: its Control, or NoControl
          controls,     \* the sessions with a control, least recently read first
          startup,      \* of each session: its pending start-up preference
          starts,       \* the sessions with one, oldest first
          seed,         \* of each session: how far seedUltrafastDefault is
          fast,         \* the sessions with Fast Mode, least recently used first
          generations,  \* generations given out
          active,       \* the store's active account
          moves,        \* bound: account changes and selections so far
          commands,     \* accounts that route handlers are about to make active
          handler,      \* of each client: the handler that runs, if any
          page,         \* of each client: the generation and revision it last saw
          request,      \* of each request: its progress and what it captured
          paid,         \* history: whether the last decision on a session was Ultrafast
          owed,         \* history: the same for what a request captured
          fresh         \* history: no decision was taken since the client's page

registry == <<epoch, control, controls, startup, starts, fast, generations>>
host == <<live, selection, moves>>
accounts == <<active, commands>>
history == <<paid, owed, fresh>>
speedVars == <<registry, host, accounts, seed, handler, page, request, history>>

Model == {"sol", "other"}
Mode == {"standard", "fast", "ultrafast"}
Supports(m) == m = "sol"

NoPlace == <<0, 0>>
Scope(p, a, m) == [place |-> p, account |-> a, model |-> m]
NoScope == Scope(NoPlace, NoAccount, "other")
NoControl == [gen |-> 0, rev |-> 0, mode |-> "standard", expired |-> FALSE, scope |-> NoScope]
NoStartup == [stage |-> "none", place |-> NoPlace, account |-> NoAccount]
NoHandler == [stage |-> "idle", place |-> NoPlace, account |-> NoAccount]
NoCapture == [mode |-> "standard", gen |-> 0, scope |-> NoScope, expired |-> FALSE]
NoRequest == [stage |-> "idle", model |-> "other", captured |-> NoCapture, account |-> NoAccount]
NoSeed == [stage |-> "no", account |-> NoAccount]

SpeedInit ==
  /\ epoch = 0 /\ live = Session /\ selection = [s \in Session |-> 1]
  /\ control = [s \in Session |-> NoControl] /\ controls = <<>>
  /\ startup = [s \in Session |-> NoStartup] /\ starts = <<>>
  /\ seed = [s \in Session |-> [NoSeed EXCEPT !.stage = IF s \in Starting THEN "no" ELSE "over"]]
  /\ fast = <<>> /\ generations = 0
  /\ active \in Account \cup {NoAccount} /\ commands = {} /\ moves = 0
  /\ handler = [c \in Client |-> NoHandler]
  /\ page = [c \in Client |-> [gen |-> 0, rev |-> 0]]
  /\ request = [r \in Request |-> NoRequest]
  /\ paid = [s \in Session |-> FALSE] /\ owed = [r \in Request |-> FALSE]
  /\ fresh = [c \in Client |-> FALSE]

-----------------------------------------------------------------------------
\* Bound: how often accounts, selections and session objects change in all.
CanMove == moves < MaxMoves
Move == CanMove /\ moves' = moves + 1

\* Bounded maps.
Room(q) == IF Len(q) >= Limit THEN Tail(q) ELSE q
Recent(q, s) == Append(Room(RemoveFirst(q, s)), s)
Touch(q, s) == IF Contains(q, s) THEN Append(RemoveFirst(q, s), s) ELSE q

\* Mutant: an account command does not change where a choice was made.
PlaceOfSelection(s) == <<0, IF s \in live THEN selection[s] ELSE 0>>

\* workspaceFor: 0 stands for "selection-unavailable".
Place(s) == <<epoch, IF s \in live THEN selection[s] ELSE 0>>

\* History: a decision on session s other than to choose Ultrafast.
Decide(s) == /\ paid' = [paid EXCEPT ![s] = FALSE]
             /\ fresh' = [c \in Client |-> fresh[c] /\ SessionOf[c] # s]

\* History: what was chosen in the sessions S does not count any more.
Outdate(S) == /\ paid' = [s \in Session |-> paid[s] /\ s \notin S]
              /\ owed' = [r \in Request |-> owed[r] /\ SessionOf[r] \notin S]
Withdraw(S) == /\ Outdate(S)
               /\ fresh' = [c \in Client |-> fresh[c] /\ SessionOf[c] \notin S]

DropControl(s) == /\ control' = [control EXCEPT ![s] = NoControl]
                  /\ controls' = RemoveFirst(controls, s)
DropStartup(s) == /\ startup' = [startup EXCEPT ![s] = NoStartup]
                  /\ starts' = RemoveFirst(starts, s)

-----------------------------------------------------------------------------
\* A route handler for login, logout, activation or removal: the registry is
\* told first, the store changes later, if at all.
Command(a) == /\ Move /\ epoch' = epoch + 1
              /\ control' = [s \in Session |-> NoControl] /\ controls' = <<>>
              /\ startup' = [s \in Session |-> NoStartup] /\ starts' = <<>>
              /\ a \notin commands /\ commands' = commands \cup {a}
              /\ Withdraw(Session)
              /\ UNCHANGED <<fast, generations, live, selection, active, seed, handler, page, request>>

CommandDone(a) == /\ a \in commands /\ commands' = commands \ {a}
                  /\ active' \in {a, active}
                  /\ UNCHANGED <<registry, host, seed, handler, page, request, history>>

\* Another process that shares the store makes another account active.
Elsewhere(a) == /\ a # active /\ active' = a
                /\ Move
                /\ UNCHANGED <<registry, commands, live, selection, seed, handler, page, request, history>>

\* The Host selects a model for a session, perhaps the same one again.
SelectModel(s) ==
  /\ s \in live /\ Move
  /\ selection' = [selection EXCEPT ![s] = @ + 1]
  /\ DropControl(s) /\ DropStartup(s) /\ Withdraw({s})
  /\ UNCHANGED <<epoch, fast, generations, live, accounts, seed, handler, page, request>>

\* The Host drops a session, and resumes it as another object with the same id.
Close(s) == /\ s \in live /\ CanMove /\ live' = live \ {s}
            /\ Outdate({s})
            /\ UNCHANGED <<registry, selection, moves, accounts, seed, handler, page, request, fresh>>

Resume(s) == /\ s \notin live /\ live' = live \cup {s}
             /\ Move /\ selection' = [selection EXCEPT ![s] = @ + 1]
             /\ Outdate({s})
             /\ UNCHANGED <<registry, accounts, seed, handler, page, request, fresh>>

\* set(): the boolean Fast Mode command of older clients and of saved defaults.
LegacySet(s, on) == /\ fast' = IF on THEN Recent(fast, s) ELSE RemoveFirst(fast, s)
                    /\ DropControl(s) /\ DropStartup(s)
                    /\ Decide(s) /\ UNCHANGED owed
                    /\ UNCHANGED <<epoch, generations, host, accounts, seed, handler, page, request>>

\* The boolean read of older clients; it cannot represent a paid choice.
LegacyGet(s) == /\ control[s].mode # "ultrafast" /\ startup[s] = NoStartup
                /\ fast' = Touch(fast, s)
                /\ UNCHANGED <<epoch, control, controls, startup, starts, generations>>
                /\ UNCHANGED <<host, accounts, seed, handler, page, request, history>>

-----------------------------------------------------------------------------
\* readSpeed.  The start-up preference is applied by the first read that may.
Due(s) == startup[s].stage = "ready" /\ startup[s].account # NoAccount
Applies(s, sc) == /\ Due(s) /\ Supports(sc.model)
                  /\ startup[s].place = sc.place /\ sc.place = Place(s)
                  /\ startup[s].account = sc.account

Ordinary(s) == IF Contains(fast, s) THEN "fast" ELSE "standard"
Kept(s, sc) == control[s] # NoControl /\ ~control[s].expired /\ control[s].scope = sc
Found(s, sc) ==
  IF Kept(s, sc) THEN [control[s] EXCEPT !.mode = IF @ = "ultrafast" THEN @ ELSE Ordinary(s)]
  ELSE [gen |-> generations + 1, rev |-> 0, mode |-> Ordinary(s), expired |-> FALSE, scope |-> sc]

\* The preference applies, but the session has gone: the read throws after all.
ReadThrows(s, sc) == Applies(s, sc) /\ s \notin live

ReadSpeed(s, sc) ==
  LET chosen == Applies(s, sc) /\ s \in live
      c == IF chosen THEN [Found(s, sc) EXCEPT !.mode = "ultrafast", !.rev = @ + 1] ELSE Found(s, sc)
  IN /\ c.gen <= MaxGeneration /\ c.rev <= MaxRevision
     /\ generations' = IF c.gen > generations THEN c.gen ELSE generations
     /\ controls' = Recent(controls, s)
     /\ control' = [x \in Session |-> IF x = s THEN c
                                      ELSE IF Contains(controls', x) THEN control[x] ELSE NoControl]
     /\ IF Due(s) THEN DropStartup(s) ELSE UNCHANGED <<startup, starts>>
     /\ fast' = IF chosen THEN RemoveFirst(fast, s) ELSE Touch(fast, s)
     /\ UNCHANGED epoch

\* The handlers of the speed route: where the session is is looked up before the
\* accounts are read, and the registry is called after.  The model and the mode a
\* request asks for matter to that call alone, so they are chosen there; its
\* generation and revision are those of the client's page.
Ask(c) == /\ handler[c].stage = "idle"
          /\ handler' = [handler EXCEPT ![c].stage = "placed", ![c].place = Place(SessionOf[c])]
          /\ UNCHANGED <<registry, host, accounts, seed, page, request, history>>

ReadAccount(c) == /\ handler[c].stage = "placed"
                  /\ handler' = [handler EXCEPT ![c].stage = "scoped", ![c].account = active]
                  /\ UNCHANGED <<registry, host, accounts, seed, page, request, history>>

Asked(c, m) == Scope(handler[c].place, handler[c].account, m)
Shown(c, s) == [page EXCEPT ![c] = [gen |-> control'[s].gen, rev |-> control'[s].rev]]

AnswerRead(c, m) ==
  LET s == SessionOf[c]
      sc == Asked(c, m)
  IN /\ handler[c].stage = "scoped"
     /\ ReadSpeed(s, sc)
     /\ IF ReadThrows(s, sc) THEN UNCHANGED <<page, fresh>>
        ELSE page' = Shown(c, s) /\ fresh' = [fresh EXCEPT ![c] = TRUE]
     /\ handler' = [handler EXCEPT ![c] = NoHandler]
     /\ UNCHANGED <<host, accounts, seed, request, paid, owed>>

\* Mutant: the revision is not compared.
CurrentGeneration(c, m) == LET k == control[SessionOf[c]] IN
  k # NoControl /\ k.scope = Asked(c, m) /\ k.gen = page[c].gen

\* selectSpeed: what the client saw is what there is.
Current(c, m) == LET k == control[SessionOf[c]] IN
  k # NoControl /\ k.scope = Asked(c, m) /\ k.gen = page[c].gen /\ k.rev = page[c].rev

Eligible(c, m) == /\ Supports(m) /\ handler[c].account # NoAccount
                  /\ SessionOf[c] \in live /\ handler[c].place = Place(SessionOf[c])

Selects(c, mode, m) == /\ handler[c].stage = "scoped" /\ page[c].gen # 0
                       /\ Current(c, m) /\ (mode = "ultrafast" => Eligible(c, m))

\* selectSpeed throws; nothing changes.
Refuse(c) == /\ handler[c].stage = "scoped" /\ page[c].gen # 0
             /\ ~\A m \in Model, mode \in Mode : Selects(c, mode, m)
             /\ handler' = [handler EXCEPT ![c] = NoHandler]
             /\ UNCHANGED <<registry, host, accounts, seed, page, request, history>>

\* Mutant: Ultrafast leaves the session's Fast Mode on.
NextFastKept(s, mode) == IF mode = "fast" THEN Recent(fast, s) ELSE fast
NextFast(s, mode) == IF mode = "fast" THEN Recent(fast, s) ELSE RemoveFirst(fast, s)

Select(c, mode, m) ==
  LET s == SessionOf[c] IN
  /\ Selects(c, mode, m) /\ control[s].rev < MaxRevision
  /\ control' = [control EXCEPT ![s].mode = mode, ![s].rev = @ + 1]
  /\ fast' = NextFast(s, mode)
  /\ DropStartup(s)
  /\ page' = Shown(c, s)
  /\ paid' = [paid EXCEPT ![s] = mode = "ultrafast"]
  /\ fresh' = [d \in Client |-> d = c \/ (fresh[d] /\ SessionOf[d] # s)]
  /\ handler' = [handler EXCEPT ![c] = NoHandler]
  /\ UNCHANGED <<epoch, controls, generations, host, accounts, seed, request, owed>>

-----------------------------------------------------------------------------
\* seedUltrafastDefault, once for each session that starts.
Seed(s) ==
  /\ seed[s].stage = "no"
  /\ IF control[s] # NoControl \/ Contains(fast, s)
     THEN /\ seed' = [seed EXCEPT ![s].stage = "over"]
          /\ fast' = IF control[s] = NoControl THEN Touch(fast, s) ELSE fast
          /\ UNCHANGED <<startup, starts, paid>>
     ELSE /\ seed' = [seed EXCEPT ![s].stage = "reading"]
          /\ starts' = Recent(starts, s)
          /\ startup' = [x \in Session |->
               IF x = s THEN [stage |-> "reading", place |-> Place(s), account |-> NoAccount]
               ELSE IF Contains(starts', x) THEN startup[x] ELSE NoStartup]
          /\ paid' = [paid EXCEPT ![s] = TRUE]
          /\ UNCHANGED fast
  /\ UNCHANGED <<epoch, control, controls, generations, host, accounts, handler, page, request, owed, fresh>>

SeedRead(s) == /\ seed[s].stage = "reading"
               /\ seed' = [seed EXCEPT ![s] = [stage |-> "read", account |-> active]]
               /\ UNCHANGED <<registry, host, accounts, handler, page, request, history>>

SeedEnds(s) == /\ seed' = [seed EXCEPT ![s] = [stage |-> "over", account |-> NoAccount]]
               /\ UNCHANGED <<epoch, control, controls, fast, generations>>
               /\ UNCHANGED <<host, accounts, handler, page, request, history>>

\* The preference is complete, unless it was retired meanwhile.
Seeded(s) == /\ seed[s].stage = "read"
             /\ IF startup[s].stage = "reading" /\ startup[s].place = Place(s)
                THEN startup' = [startup EXCEPT ![s].stage = "ready", ![s].account = seed[s].account]
                ELSE UNCHANGED startup
             /\ UNCHANGED starts
             /\ SeedEnds(s)

\* The accounts cannot be read, or the start is cancelled.
SeedFails(s) == /\ seed[s].stage \in {"reading", "read"}
                /\ DropStartup(s)
                /\ SeedEnds(s)

-----------------------------------------------------------------------------
\* A request: admitted by the agent, captured as its stream starts, confirmed
\* whenever the provider is called.
Stage(r, stage) == [request EXCEPT ![r].stage = stage]

\* applyStartupDefault.  A missing sign-in refuses the request, and the next one.
Admit(r, m) ==
  LET s == SessionOf[r]
      st == startup[s]
      fits == st.place = Place(s) /\ Supports(m)
  IN /\ request[r].stage = "idle"
     /\ \/ /\ st.stage # "ready"
           /\ request' = [request EXCEPT ![r].stage = "admitted", ![r].model = m]
           /\ UNCHANGED registry
        \/ /\ st.stage = "ready" /\ ~fits
           /\ request' = [request EXCEPT ![r].stage = "admitted", ![r].model = m]
           /\ DropStartup(s)
           /\ UNCHANGED <<epoch, control, controls, fast, generations>>
        \/ /\ st.stage = "ready" /\ fits /\ st.account # NoAccount
           /\ ReadSpeed(s, Scope(st.place, st.account, m))
           /\ request' = IF s \in live THEN [request EXCEPT ![r].stage = "admitted", ![r].model = m]
                         ELSE request
     /\ UNCHANGED <<host, accounts, seed, handler, page, history>>

\* captureSpeed; an auxiliary request does not inherit a paid choice.
Captured(s) == IF Contains(fast, s) THEN [NoCapture EXCEPT !.mode = "fast"]
               ELSE IF control[s].mode = "ultrafast"
               THEN [mode |-> "ultrafast", gen |-> control[s].gen, scope |-> control[s].scope,
                     expired |-> control[s].expired]
               ELSE NoCapture

Capture(r) ==
  LET s == SessionOf[r] IN
  /\ request[r].stage = "admitted"
  /\ request' \in {[request EXCEPT ![r].stage = "captured", ![r].captured = x] :
                     x \in {Captured(s)} \cup (IF Captured(s).mode = "ultrafast" THEN {NoCapture} ELSE {})}
  /\ fast' = Touch(fast, s)
  /\ owed' = [owed EXCEPT ![r] = paid[s]]
  /\ UNCHANGED <<epoch, control, controls, startup, starts, generations>>
  /\ UNCHANGED <<host, accounts, seed, handler, page, paid, fresh>>

\* resolveApiKey: the account that this request really uses; it throws without.
Resolve(r) == /\ request[r].stage = "captured" /\ active # NoAccount
              /\ request' = [Stage(r, "resolved") EXCEPT ![r].account = active]
              /\ UNCHANGED <<registry, host, accounts, seed, handler, page, history>>

\* confirmCapturedSpeed.
Confirmed(r) ==
  LET x == request[r].captured IN
  /\ ~x.expired /\ Supports(request[r].model)
  /\ x.scope = Scope(Place(SessionOf[r]), request[r].account, request[r].model)

\* The request is sent; the Host may retry it within the same stream.
Dispatch(r) ==
  /\ request[r].stage = "resolved"
  /\ request[r].captured.mode = "ultrafast" => Confirmed(r)
  /\ request' = [Stage(r, "captured") EXCEPT ![r].account = NoAccount]
  /\ fast' = Touch(fast, SessionOf[r])
  /\ UNCHANGED <<epoch, control, controls, startup, starts, generations>>
  /\ UNCHANGED <<host, accounts, seed, handler, page, history>>

\* ULTRAFAST_SELECTION_EXPIRED: for this request and for the choice it captured.
Expire(r) ==
  LET s == SessionOf[r]
      same == control[s] # NoControl /\ control[s].gen = request[r].captured.gen /\ ~control[s].expired
  IN /\ request[r].stage = "resolved"
     /\ request[r].captured.mode = "ultrafast" /\ ~Confirmed(r)
     /\ request' = [Stage(r, "captured") EXCEPT ![r].captured.expired = TRUE, ![r].account = NoAccount]
     /\ IF same THEN /\ control[s].rev < MaxRevision
                     /\ control' = [control EXCEPT ![s].expired = TRUE, ![s].rev = @ + 1]
                ELSE UNCHANGED control
     /\ fast' = Touch(fast, s)
     /\ UNCHANGED <<epoch, controls, startup, starts, generations>>
     /\ UNCHANGED <<host, accounts, seed, handler, page, history>>

Finish(r) == /\ request[r].stage # "idle"
             /\ request' = [request EXCEPT ![r] = NoRequest]
             /\ owed' = [owed EXCEPT ![r] = FALSE]
             /\ UNCHANGED <<registry, host, accounts, seed, handler, page, paid, fresh>>

-----------------------------------------------------------------------------
AccountStep == \E a \in Account \cup {NoAccount} : Command(a) \/ CommandDone(a) \/ Elsewhere(a)
HostStep == \E s \in Session : \/ SelectModel(s) \/ Close(s) \/ Resume(s) \/ LegacyGet(s)
                               \/ Seed(s) \/ SeedRead(s) \/ Seeded(s) \/ SeedFails(s)
                               \/ \E on \in BOOLEAN : LegacySet(s, on)
ClientStep == \E c \in Client : \/ Ask(c) \/ ReadAccount(c) \/ Refuse(c)
                                \/ \E m \in Model : \/ AnswerRead(c, m)
                                                    \/ \E mode \in Mode : Select(c, mode, m)
RequestStep == \E r \in Request : \/ \E m \in Model : Admit(r, m)
                                  \/ Capture(r) \/ Resolve(r) \/ Dispatch(r) \/ Expire(r)
                                  \/ Finish(r)

SpeedNext == AccountStep \/ HostStep \/ ClientStep \/ RequestStep

SpeedSpec == SpeedInit /\ [][SpeedNext]_speedVars

-----------------------------------------------------------------------------
\* The types, and that no map outgrows its limit or disagrees with its order.
PlaceType == (0..MaxMoves) \X (0..MaxMoves + 1)
ScopeType == [place : PlaceType, account : Account \cup {NoAccount}, model : Model]
Ordered(q) == q \in Seq(Session) /\ IsInjective(q) /\ Len(q) <= Limit
SpeedTypeOK ==
  /\ moves \in 0..MaxMoves /\ epoch \in 0..MaxMoves /\ live \subseteq Session
  /\ selection \in [Session -> 1..MaxMoves + 1]
  /\ control \in [Session -> [gen : 0..generations, rev : 0..MaxRevision, mode : Mode,
                              expired : BOOLEAN, scope : ScopeType]]
  /\ startup \in [Session -> [stage : {"none", "reading", "ready"}, place : PlaceType,
                              account : Account \cup {NoAccount}]]
  /\ Ordered(controls) /\ Ordered(starts) /\ Ordered(fast)
  /\ \A s \in Session : Contains(controls, s) <=> control[s] # NoControl
  /\ \A s \in Session : Contains(starts, s) <=> startup[s] # NoStartup
  /\ seed \in [Session -> [stage : {"no", "reading", "read", "over"}, account : Account \cup {NoAccount}]]
  /\ generations \in 0..MaxGeneration
  /\ active \in Account \cup {NoAccount} /\ commands \subseteq Account \cup {NoAccount}
  /\ handler \in [Client -> [stage : {"idle", "placed", "scoped"}, place : PlaceType,
                         account : Account \cup {NoAccount}]]
  /\ page \in [Client -> [gen : 0..generations, rev : 0..MaxRevision]]
  /\ request \in [Request -> [stage : {"idle", "admitted", "captured", "resolved"}, model : Model,
                              captured : [mode : Mode, gen : 0..generations, scope : ScopeType,
                                          expired : BOOLEAN],
                              account : Account \cup {NoAccount}]]
  /\ paid \in [Session -> BOOLEAN] /\ owed \in [Request -> BOOLEAN]
  /\ fresh \in [Client -> BOOLEAN]

Paying(r) == /\ request[r].stage = "resolved" /\ request'[r].stage = "captured"
             /\ request[r].captured.mode = "ultrafast" /\ ~request'[r].captured.expired

\* A request is only dispatched as Ultrafast if, when it captured its mode, that
\* was the last decision on its conversation, and since then there was no account
\* command and no model selection, there and back again included, and the Host
\* still has the same conversation; and it goes to a supported model.
PaidOnlyAsChosen ==
  [][\A r \in Request : Paying(r) => owed[r] /\ Supports(request[r].model)]_speedVars

\* A client's selection only takes effect on the state the client was shown: no
\* decision of another client, of the Host or of a command is overwritten unseen.
\* (A read whose answer applies a start-up preference is not a selection.)
Chooses(c) == LET s == SessionOf[c] IN
  /\ handler[c].stage = "scoped" /\ handler'[c].stage = "idle" /\ ~Due(s)
  /\ control'[s].gen = control[s].gen /\ control'[s].rev > control[s].rev
NoLostUpdate == [][\A c \in Client : Chooses(c) => fresh[c]]_speedVars

\* The modes exclude each other: a conversation for which Ultrafast is selected or
\* pending is not also in Fast Mode, which would win when a request captures.
ModesExclusive ==
  \A s \in Session : Contains(fast, s) => control[s].mode # "ultrafast" /\ startup[s] = NoStartup
====
