# A TLA+ development of dsh-codex-connect

The repository connects a Host application ("DSH") to OpenAI Codex: a server plugin that signs in with a
ChatGPT account, keeps the accounts of several users on disk, forwards model and search requests to the
Codex backend, watches quotas and lets the user choose speeds; a browser client; a launcher and command-line
tools. All of it is single-threaded JavaScript around asynchronous calls, several processes of which share one
credential file. This directory holds modules that model its concurrent core, configurations that check them
with TLC, and theorems about them checked by TLAPS. Paths below are relative to `src/src/` of the repository
unless they say otherwise.

## 1. Inventory

| Component | State | Operations | Hard behaviour | Correct means |
|---|---|---|---|---|
| credential store (`store.ts`, `auth.ts`) | one document on disk, a rollback copy of a version-1 document, a lock file | login (`modify`), refresh of a captured account, `activate`, `removeAccount`, `delete` | several processes; a network exchange under the lock; crashes between two file operations; refresh tokens that work once | every operation is atomic; the stored token can be spent; no removed credential stays on disk |
| backend request governor (`backend-request.ts`) | slot counter, queue, cooldown per lane, abort scopes | `run`, wrapped `fetch`, `dispose` | aborts delivered in the middle of a release; conditions that change across each `await`; bodies nobody reads | the counter is exact, the queue is exact and fair, every wait a response asked for is waited out, every attempt settles |
| browser sign-in (`auth-routes.ts`, class `OpenAICodexWebAuth`) | login operation, waiters, timers, prompt, transition, disposed flag | `signIn`, `submitCallback`, `signOut`, `cancel`, `activateAccount`, `removeAccount`, `dispose` | requests that wait for each other in loops; timers racing the provider; a login that commits while it is cancelled | one transition at a time and none beside a login; requests are answered; disposal is final |
| quota state (`quota-state.ts`) | a bounded cache of observations with abort signals | `readSnapshot`, `invalidate`, `dispose` | shared requests, eviction, late answers, invalidation during a read | what may still be used is current; one request per key; disposal revokes everything |
| conversation speed (`conversation-speed.ts`, `fast-mode*.ts`, `speed-*.ts`) | per conversation: the mode, its scope (account, epoch, model), a revision; captured requests | commands, model selections, captures of requests, dispatch | the account changes and changes back between capture and dispatch; two browser tabs | a paid mode is used only where and as it was chosen |
| provider proxy (`provider-proxy.ts`, `undici-runtime.ts`) | leases, a process-wide dispatcher with owners, a shutdown promise | `run`, `acquire`, `release`, `shutdown` | a shutdown that gives up after one second; late releases | the dispatcher is restored; nothing runs on a closed proxy |
| adaptive task (`adaptive-task-runtime.ts`, `-store.ts`, `-control-runtime.ts`) | a document per session: mode, revision, route, count, receipts; per runtime: the change tool and an abort controller | `command`, `state`, the request hook, `stream`, `reserve`, `reserveAuxiliary`, the change tool, `dispose` | crashes around the write that counts a request; retried commands; takeovers between two phases; the calls of a runtime that was replaced | a request is counted before it leaves, a command applied once, a stopped task sends nothing |
| task delegation (`adaptive-task-delegation*.ts`) | a ledger of attempts with leases | claim, run, settle, recover | crashes between ledger and Host | one attempt at a time, no evidence lost |
| plugin lifecycle (`index.ts`) | per capability: a tail of reconciliations, the current fiber and its registration; `stopped` | settings update, reconciliation, fiber callbacks and cleanups, disposal | settings that change while a fiber is being disposed; services that go; activations and disposals that fail; a stop in between | one fiber at a time, the last settings win, nothing is left after the end |
| preflight (`preflight-watchdog.ts`, `preflight-activity.ts`, `native-preflight.ts`) | per iterator: the read, two timers, the fetches with their routes | `stream`, `activate`, `wrap`, the watchdog's `next`, `begin`, `pulse`, `end` | deadlines, cancellation, the result, heartbeats and second fetches race | a read ends in time and with the outcome that is due; only a valid route renews it |
| search route (`search-route-override.ts`) | the Host's route and the one put in its place | take, notice, give back | the Host or a plugin changes it in between, there and back again included | whoever chose last is obeyed |
| client account store (`client/account-store.ts`, `client/request-json.ts`) | the snapshot, listeners, a timer, one poll, one mutation, a window | `subscribe`, `refresh`, `signIn`, `submitCallback`, `cancel`, `signOut`, `activate`, `remove`, `dispose` | answers out of order, requests whose outcome is unknown, other browsers | an old answer never replaces a newer one; the page comes to show the server's state |
| client update store (`client/update-store.ts`) | the last answer, one request | check, install, dispose | the same deadline | one request at a time |
| adapter, transport, compaction, images, updates, metrics, migration, settings, models, command line | little or none | conversions, protocol adaptation, file inspection | their partial failures | see `PROJECT.json` |

**Interactions.** The adapter authenticates each model request from the credential store (which captures the
account and may refresh its token under the store's lock), captures the speed that applies, and sends it
within a scope of the governor, over a lease of the proxy manager; where the operator has trusted a proxy to say that it is
compressing, the preflight guards the stream that the Host reads. The browser's routes call
`OpenAICodexWebAuth`, which runs the provider's login over the proxy manager and changes the store; after each
change it invalidates the quota state (`auth-routes.ts` 241, 263, 304). The quota state authenticates through
the store and asks the backend through the governor. The plugin builds and disposes all of them; a settings
change invalidates the quota state and replaces proxies (`index.ts` 672-689). The adaptive task hooks into the
Host's requests, wraps the adapter's stream, and is asked by the governor before every attempt (`beforeAttempt`,
`backend-request.ts` 234). The client account store talks to the browser's routes. The launcher and other Host
processes meet these components only through the credential files.

`PROJECT.json` lists every component, modelled or not, and every hazard found so far at the line where it
bites, with the properties that would catch it or the module planned for it.

## 2. Modules

| Module | Role |
|---|---|
| `AccountBook` | what the credential store promises: a book of accounts whose operations are atomic |
| `CredentialStore` | the store: lock, documents, file operations, crashes, the provider's tokens |
| `CredentialStoreProofs` | its theorems, among them that it implements `AccountBook` |
| `BackendGovernor` | the request governor |
| `Preflight` | one stream's reads under the idle and the total deadline |
| `RequestProofs` | the theorems of the two modules above, both about what bounds one model request |
| `WebAuth`, `WebAuthProofs` | the browser sign-in and its theorems |
| `QuotaState` | the quota cache |
| `ConversationSpeed` | the modes of conversations: choices, start-up preferences, requests |
| `QuotaAndSpeedProofs` | the theorems of the two modules above, which share the lemmas about bounded maps kept in order of use |
| `ProviderProxy`, `ProviderProxyProofs` | the proxy managers with the dispatchers they share, and their theorems |
| `TaskGrant` | what a task grant promises its user |
| `AdaptiveTask`, `AdaptiveTaskProofs` | the automatic task of a session, and its theorems, among them that it implements `TaskGrant` |
| `AccountStore`, `AccountStoreProofs` | the browser page's account state and its theorems |
| `SearchRoute` | the Host's search route under the plugin's override |
| `PluginLifecycle`, `PluginLifecycleProofs` | the optional capabilities, composed with `SearchRoute`, and the plugin's end; their theorems |
| `MC*` | small instances for TLC; the `.cfg` files choose what is checked. `MCRequests` holds `BackendGovernor` and `Preflight`, which share nothing: the first state says which of the two moves, so that one run explores the one and the other, and for the governor whether a fourth attempt or longer waits take part |

Definitions with a comment `Mutant:` right before the definition they vary are plausible bugs of
that definition. No specification uses them; each is there to show that a property notices it.

### CredentialStore

A `Proc` is one caller with one operation in flight, in whichever process it lives: callers share only the
files, so two callers of one process and two processes are the same thing here. `main` and `backup` are the
two files; a document is a version, a selection and the refresh token of each account (0 where there is
none). The code writes documents with a rename, so a write is one step, but every step between two file
operations is separate and `Crash` may fall between any of them. The lock is the `withFileLock` of an
external package, modelled from its use: `Acquire` includes the read that every mutator does first; a caller
may time out; a dead caller's lock file is `Stale` until somebody removes it.

`Capture` and `Start` stand for what happens before the lock (`authenticate`, the snapshot of an account);
`Refuse` for the early returns and throws after the read; `Rotate` for `fn` returning a new credential,
including the provider's exchange, `RotateLost` for an exchange whose answer never arrives, `Decline` for an
`fn` that yields nothing. `Compose` builds the document of a login or a selection; `WriteBackup`, `Mismatch`
and `Commit` are `writeDocument`; `DropBackup` and `CommitRemoval` are `removeAccount`; `DeleteMain` and
`DeleteBackup` are `delete`. Access tokens, expiry times and the order of the credentials are abstracted: a
fresh access token is one of the reasons of `Decline`. `issued` and `spent` are the provider's side; `mislaid`
(whose newest token was lost) and `leftover` (a logout died halfway) are history variables. `Document` is what `parseDocument`
accepts, the account limit included; `Refused` is every refusal, that of a login beyond the limit included.

`AccountBook` has the selection, the tokens, and the logins that are under way: an account with the token the provider
has given it. `Logins` reads them off the callers that log in. A new selection together with a new token needs such a login
and uses it up, so the refinement fails for a refresh that selects its account as well as for a credential that enters twice.

Bounds: `MaxToken` limits the tokens the provider issues. With four tokens there is room for the version-1
document's token, its predecessor, and two exchanges or logins racing each other.

### BackendGovernor

An attempt is one call of a wrapped `fetch`. Its stages follow the awaits: cooling (`beforeRequest`), asking
(`acquire` before the queue), queued, granted (the promise is resolved, its continuation has not run),
admitted (`admit` returned), hooks (the caller's hooks run with the slot), sent, responded (headers arrived,
the body not wrapped), body, cancelling. Code that runs in one synchronous stretch is one action, except that
`drain`'s loop and the delivery of an abort to many listeners are split into steps that exclude everything
else (`Busy`): the interleaving of a release inside a delivery is what they are for. `Abort(s)` is the signal
of a `run` scope, whether by its caller, its deadline or its end; `Dispose` the plugin's. `Tick` is time:
cooldowns are counted down, their length is chosen by the response. `asked` is history: for each wait that a response of
the lane asked for, what is left of it. The code keeps only the latest end (`recordResponse` 217); `RetryAfterHonoured` says that this
is enough for all of them.

Abstracted: headers, identities, credentials in the hooks, the arithmetic of Retry-After (a delay up to
`MaxDelay`). The order in which listeners of one signal run is left open, which allows more than the code does.

### Preflight

One iterator of `stream`. `stage` is the generator's, `demand` the promise of the current read, `watched` says that
`activate` has made the watchdog; from then on reads are guarded (`Guard` is the beginning of the watchdog's `next`). `cause` is
the reason of the watchdog's signal, which is set once; `turn` the `setImmediate` of a cancelled read. `Deliver`,
`Expire` and `GiveUp` are the three ways a read ends, with the `finally` of `next`, and `Close` the `finally` of the generator. A fetch
records the route by which it is sent (`authority`): the acquired proxy, or the native chain installed at that moment, which
`Reload` may replace, also by a former one; `Admitted` is an eligible response, `Passed` any other. `frames` is the one
response whose heartbeats are read. `waited` is history.

A read that is activated between two reads has its result at once and closes the preflight for good, as `scope.demand` is
still the former, settled promise. Time is discrete and passes only when no timer is due and no settled promise or immediate is to be
served (`Pressing`); a process that is blocked would be late, with the Host's own timer as well. The timer of the idle watchdog
belongs to an external package and is modelled from its use: armed by `next`, renewed by `pulse`, cleared when the read ends.

Abstracted: the bytes of frames (a heartbeat is one step; what stops the recognition is `StopFrames`), the passing on of
the response's body, a fetch over another proxy (it is not wrapped), the validation of the configuration. Bound: `MaxFetch`.

### WebAuth

`op` is the login operation with its stage, `cause` what aborted it, the other variables are fields of the
class (`challenge`, the two timers, the prompt, `state`, `transition`, `disposed`); `stored` is the credential
store as far as the class sees it. A `Caller` is a request. `looping` is the `while` loop on the transition
promise; `waiting` is a place in `challengeWaiters`; `closing`, `acting` and `reading` are the stages of a
transition. `stray` holds timers that a `start` which threw left armed, see section 5. The provider's login is
external: `Announce`, `Prompt`, `Code`, `Commit`, and it may fail at any time before it commits. Requests keep coming after the
disposal, when sign-ins and mutations are turned away (`TurnAway`) and `cancel` and `logout` still run; only the caller that disposed, the
Host, asks for nothing more.

Abstracted: URLs and their validation (an unsafe one is a choice of `Announce`), the words of errors, the
routes with their origin checks. The store's operations inside a transition are one step that may fail; the
store in detail is `CredentialStore`. When a login succeeds `stored` stays true until a transition changes it.

### QuotaState

A `Reader` is one read (it goes on when its caller gives up); its stages are resolving credentials, joined to
another's request, fetching, and resuming after a request it had joined. `Read`, `Join`, `Reuse`, `Enter`
(a key that was not cached, evicting the oldest idle entry), `Refresh` (a cached one whose time is up),
`NoRoom`, `Answer` and `AnswerLate` (the answer of a request that belongs to an earlier configuration) follow
`readInternal`. `Change` is a settings change or an account change that calls `invalidate`. Observations are numbered
by the request that produced them; `revoked` holds those whose signal has fired. How long something is kept is
left open (`ExpireEntry` may come or not).

### ConversationSpeed

`control`, `startup` and `fast` are the three bounded maps of the registry; `controls`, `starts` and `fast` keep
their order. A `Place` is what the code calls the workspace: the account epoch and the conversation's model
selection (0 when the Host has no such conversation). A `Scope` adds the account and the model. A handler of the
speed route reads the place, awaits the accounts (`Ask`, `ReadAccount`) and then calls the registry with that
scope (`AnswerRead`, `Select`, `Refuse`); `page` is what its tab last saw. `Seed`, `SeedRead` and `Seeded` are
`seedUltrafastDefault` around its await. A request is admitted (`applyStartupDefault`), captures its mode when its
stream starts, resolves its account, and is confirmed when it is dispatched; the Host may retry it in the same
stream. `Command` is what the account routes do first, `CommandDone` what the store does later; `SelectModel`,
`Close` and `Resume` are the Host's. `paid`, `owed` and `fresh` are history.

Identifiers are counted (`generations`, `rev`); two models stand for the supported and the others. The bounds
are `MaxMoves` (account commands, account changes by other processes, selections and new session objects
together, counted by `moves`), `MaxGeneration` and `MaxRevision`.

### ProviderProxy

A `Lease` is one operation or stream from `acquire` to its `release`. `at` is what each of the three
process-wide entry points of HTTP (undici's dispatcher, its older slot, `fetch`) is; `ours`, `beneath` and
`owners` are the module's globals; `phase` is a manager's shutdown: draining (`waitForIdle`), drained
(before `closeAgents`), destroying (its wait for the pools). `EnsureInstalled` and `RemoveOwner` are the
functions of those names, parts of `Acquire`, `Release` and `CloseAgents`. `PutOver` and `TakeOff` are the
Host or another plugin, which changes an entry point and later puts back what it found; it may put back a wrapper
of ours that no longer counts. Setting undici's dispatcher also sets its older slot, which is why `ToWrap`
renews two wrappers at once. `theirs` and `meddled` are history.

Abstracted: a manager's pools for several proxies are one, as they are made and destroyed together;
addresses, credentials of proxies and the probe; the load-time preservation of `undici-runtime.ts`.

### TaskGrant and AdaptiveTask

`doc` is the task document of one session. The store holds the file's lock from the read to the rename and the
flush of the directory, so each `update` is one step; what is decided from an earlier read is a step of its own.
Runtimes are numbered: a plugin reload disposes one (`Reload`) and starts the next while the calls of the old one
go on, a crash (`Crash`) leaves only the document, the Host's journal (`picks`, `userStopped`) and what was sent.
`Loaded` is `load`: it turns a document that the user has stopped, or that another runtime has left, before
anybody looks at it.

A command runs through `Observe` (the load and the receipt of an earlier call), `Apply`, `ApplyAgain` or `Refuse`
(the first update), `Activate` or `ActivateFails` (the flush of the journal and the second update, inside the
Host's idle maintenance `maint`), `Finish` and `Settle` (the load that decides about the tool, and what follows).
The control runtime executes one command of a session at a time per runtime; `Issue` repeats operations whose
answers were lost as well. A request runs through `Hook` with `Yield` or `Install`, `Stream`, `Attach`,
`Reserve` with its refusals, and `Dispatch`; an attempt may be repeated and the model may call the change tool
(`ChangeRoute`). `turn.cut` says which signal has aborted the turn. `Aux*` are requests beside the turn.
`applied`, `given`, `sent` and `revoked` are history.

`TaskGrant` has four variables: counted, sent, granted, and the operations spent on giving it. `AdaptiveTask`
implements it under the mapping that reads them off the document and the history variables.

Abstracted: owners and identities (checked on every path, never changed), the catalog of models (it may refuse an
activation; a route it lacks is one that is never chosen), the portable form of histories, the version-2 document
of the delegation. A hook may install the tool after a takeover was answered; `ToolGone` shows that this does not
outlast the turn. A document that was resumed in a session whose last recorded turn the user had stopped is turned
to "stopped" by the command's own last load: `load` asks the journal, not the command.

Bounds: `MaxOperations`, `LastRuntime`, `MaxRevision` (no route is chosen beyond it) and `MaxPicks`; `RingSize` is
1 instead of 64, so that a receipt is lost after one more command; the constraint `Focus` leaves out combinations
that the module says at its definition.

### AccountStore

The server's state is a record with the number of its last change, so that "newer" has a meaning. `poll` is the
request that `controller` belongs to, `mut` the mutation under way, `tails` the mutations whose refresh was aborted
and whose `finally` is still to come; `popup` and `blank` are the window a sign-in opens before its request, as the
browser demands. Each request has a step at which the server looks or acts (`ServePoll`, `Serve`,
`ServeMutationRead`), and one at which its answer arrives, if it does: `Fails` and `MutationFails` may fall before
or after the server acted, and `ServerChanges` is what others do, an abandoned request included.

A page that shows signed-out, reauth-required or an untrusted origin does not poll, by design, and may stay behind
another browser; `Converges` claims nothing for those. The link and the feedback shown with a pending login are
left out: no decision rests on them.

Bounds: `MaxListeners`, `MaxOps`, `MaxChanges`, `MaxFaults`.

### SearchRoute and PluginLifecycle

`SearchRoute` holds both kinds of Host runtimes: `legacy` is the one with a field that anybody writes, the other
reads a reference in its configuration object, over which the plugin lays a facade. `chosen` is the others' last
choice, and `newer` tells whether it came after the activation (history). In the legacy runtime somebody's choice of
our own provider cannot be told from ours, and giving the route back then restores what was found before
(`Indistinguishable`; the sentence at line 85 does not hold in that case, which is harmless: the provider is gone).

`PluginLifecycle` extends it with the capabilities. A fiber is what `ctx.inject` makes: pending until its services
are there, active, failed until its rejection is delivered, closing until its cleanups have run. A reconciliation
is one step to its first await (`Reconcile`), and one after it (`Continue`), with the settings it had read. The
disposer is a step per await: `Stop`, `QuotaDisposed`, `Collect`, `FibersDisposed`, `ProxyDisposed`. It waits for all
tails where the code waits for those at that time; a reconciliation added later returns at once, as `stopped` is set.
What an update does to the quota state and to the proxies is `Change` in `QuotaState` and `Shutdown` in
`ProviderProxy`.

Left out: a Host that refuses the restoration of its configuration, and another plugin's wrapper that passes reads
on to our facade. Bound: `MaxEvents` limits updates, other parties' moves and failures together.

## 3. Checks

| Run | Instance | Distinct states | What it shows |
|---|---|---|---|
| `credential_store` | 2 callers, 3 accounts of which 2 fit, 4 tokens | 925 thousand | live tokens, the rollback copy, `ImplementsBook` |
| `credential_store_sign_out` | the same | violated | section 5, first finding |
| `requests` | 4 attempts, 2 lanes, 2 scopes, 2 slots; or 3 attempts of one lane with waits up to 2; or one stream with deadlines of 2 and 3, 2 fetches, 2 native routes of which 1 is trusted; fairness | 353 thousand | counter, queue, waits, aborts; every attempt settles. Reads fit the Host's timer, and end, as a timeout when it was one |
| `web_auth` | 2 requests, fairness | 78 thousand | exclusion of transitions and logins, disposal, one callback; transitions and waits end |
| `web_auth_late_waiter`, `web_auth_stray_timer` | the same | violated | section 5, second and third finding |
| `quota_state` | 3 reads, 3 keys, room for 2, 3 requests | 276 thousand | what is handed out is current, shared, and revoked in the end |
| `conversation_speed` | 3 tabs, 2 conversations, room for 1, 1 request, symmetry of the tabs | 334 thousand | paid modes only as chosen, no lost update, modes exclusive |
| `provider_proxy` | 2 managers, 2 operations, 3 installations, 1 foreign wrapper, fairness | 113 thousand | operations stay on their proxy, others on theirs; owners leave; shutdowns end |
| `adaptive_task` | 3 operations, 2 runtimes, 2 routes, limit 1, 1 receipt, 1 model selection, fairness | 490 thousand | `ImplementsGrant`; commands once; a revocation is silent, the tool goes; turns end |
| `account_store` | 2 accounts, 2 views, 2 mutations, 1 change by others, 2 faults, fairness | 829 thousand | the status of the account shown, nothing older shown, the page converges |
| `plugin_lifecycle` | search with 2 setups and an image tool, 2 other routes, 3 events, fairness | 937 thousand | one fiber each, the last choice and the last settings win, nothing is left |

Each run checks the properties whose violation takes several steps. The invariants they rest on (the types, the lock
discipline of the store, the exact queue of the governor, ...), and some of their consequences (`RevocationFinal`, `NoOverlap`,
`TimersOnlyWhileReading`, `ProducedIsDelivered`, `OnlyLatestRouteRenews`), are not checked again here: section 4 establishes
them for all values of the constants.

**Why the bounds are enough to be interesting.** Two store callers suffice for any lost update; three
accounts with a limit of two make the limit bite and give a removal a choice of replacement. Four attempts for
two slots give a queue of two with both lanes and both scopes in it, so that an abort takes a waiter from the
middle while a release hands out a slot; the model lane then cools for one unit, and the plugin is disposed
only while no scope is aborted. Three attempts of one lane with waits of up to two let a response ask for less
than what is left of an earlier wait while a third attempt is about to be sent, and meet aborts and the disposal
together. Two fetches are one whose response is observed and one that takes its right away; deadlines of two and
three let the shorter be renewed within the longer, and both be due at once. Two requests of any kind, each of which starts anew when it has its answer,
are a login and its waiter, a login and a transition, or two rival transitions; the theorems cover the rest.
Three readers with room for two force evictions while requests are under way, and a late answer beside a newer
request. Two managers make one the last owner while the other shuts down; three installations let a wrapper be
renewed after a foreign one came and went. One receipt and three operations let a command be repeated after its receipt
has gone; a limit of one is reached by the first request and met by the second; two runtimes are the one that is
replaced and its successor. One change by others beside two mutations is enough for a poll to be overtaken. Three
events are a change of the settings, another one while the former fiber is closing, and one disturbance: a failure,
another party's choice, or a service that goes. In `conversation_speed` one move is enough to go away and back, because a
command may leave the same account active and a selection may choose the same model; the constraint `Focus` leaves
out executions in which a tab, the start-up preference and the request all take part at once, or a second
conversation besides one of the latter two. Symmetry is declared only where the members are interchangeable, and never in a run that checks
liveness.

**Deadlock.** It is checked for the store and for conversations, whose callers and tabs start again for ever. The governor stops
when all attempts are done, a stream when it has ended, the sign-in, the quota state, the proxy managers, the account store and the plugin when they
have been disposed, a task when its commands are used up: these really end, so their configurations say
`CHECK_DEADLOCK FALSE`; that nobody is stuck is said by the liveness properties and by `NoIdleSlot`.

**Fairness.** Governor: `Advance` is weakly fair because continuations of settled promises run, the network or
the run's deadline ends each fetch and each body (the `finally` of `run`, 292-296, aborts its scope), and
timers fire; `Fire`, `Grant` and `Drained` are the rest of a synchronous stretch. Neither the caller's calls nor
its aborts are fair. Preflight: `Runtime` is weakly fair, as time passes, timers fire and settled promises continue; the
provider, the proxy, the caller and the consumer are not. Sign-in: an aborted or abandoned provider login ends, status reads and store operations return
(with an error, if need be), and timers fire: weak fairness. `Proceed` is strongly fair, because requests that
await the same transition promise resume in the order in which they began to wait, so that none is overtaken
for ever, although new transitions make each of them wait again. New requests, the user's browser and the pasted
callback are not fair. Proxies: `GiveUp`, `CloseAgents` and `Closed` are weakly fair, since two timers of a second bound
the two waits; operations need not end, and a shutdown must end without them. Task: `TurnStep` is weakly fair, the calls
of a request and the end of a turn that was cut off or has nothing left to do; neither the model, the user nor the
commands are. Account store: `Proceed` is weakly fair, as `requestBody` (`client/request-json.ts` 17) ends every request by its
deadline and timers fire; views, users, other browsers and faults are not. Plugin: `Proceed` is weakly fair, as settled
promises continue and fibers whose services are there start; settings, services, others and the stop are not.

## 4. Proofs

All theorems hold for every value of the constants that the named assumptions allow: `StoreAssumption`
(finitely many accounts, the markers are not callers), `GovernorAssumption` (finitely many attempts, each with a
lane and a scope, at least one slot), `PreflightAssumption` (positive deadlines, the markers are no native routes), `WebAuthAssumption` (`NoCaller` is not a caller), `ProxyAssumption`
(finitely many operations, the marker is neither a manager nor a wrapper), `QuotaAssumption` (the marker is neither a
reader nor a key, room for at least one), `TaskAssumption` (the first route is allowed; limits and bounds are
positive or natural numbers), `StoreAssumption` of `AccountStore` (`None` is no account; bounds are natural numbers),
`SpeedAssumption` (`NoAccount` is no account, every tab and request has a session, room for at least one; bounds are
natural numbers), and `RouteAssumption` with `LifecycleAssumption` (our provider is nobody else's; the marker is neither a setup nor a waiting
reconciliation).

*CredentialStore.* `TypeOK` needs no help except that a document to be written is well-formed when it is
composed; the rest rests on `Discipline`: only the holder of the lock is past waiting, what it read is still
what the file says, and what it is about to write is the outcome of its operation on that document.
`TypeOK /\ Discipline` is inductive. From it follow `RollbackAlwaysKept`, `RefreshIsLocal`, `RollbackForgets` and
`StoreImplementsBook`: the initial document is an initial book; `Commit`, `CommitRemoval` and `DeleteMain` are
the book's operation; the beginning of a login and its end without a commit are `Arrive` and `Leave`; every other step leaves
the book alone. A document keeps within the limit because `Commit` composes it after `Refused`; a migration, a refresh and a removal
add no account. `NoExchangedTokenStored` needs more: tokens
held by callers are unspent, not stored, and differ from each other (`TokensDistinct`); with it,
`StoredTokensLive` is inductive. The refinement uses it too: as logins carry different tokens, a commit takes
exactly its own login from the book's.

*BackendGovernor.* The inductive invariant joins the types and four invariants: the counter is the number of holders
(`SlotsAccounted`), the queue is the set of queued attempts without repetition (`QueueExact`), nobody queues
beside a free slot (`NoIdleSlot`), the dead hold nothing (`DeadHoldNothing`). The counter is exact only because a queued
attempt is granted once, which needs the queue; the queue is served only because the counter is exact. A further part, `NoneForgotten`,
says that a lane's cooldown covers whatever is left of each wait its responses asked for: `recordResponse` keeps the later of
two ends, and time takes from both alike. The two action properties follow: a newcomer gets a slot only if one is free, and then nobody live
queues (`NoOvertaking`); who reaches the hooks sees no cooldown, so no wait is left (`RetryAfterHonoured`).

*Preflight.* `ReadInvariant` says which deadline runs when (`Running`): the idle one while a guarded read can be heard of, the
total one while the preflight is active, which it is only within a guarded read, since the first result closes it. `Window` adds
up: before the preflight the time waited and the time left make up the idle interval, so that the preflight begins within it;
from then on the time waited and what is left of the budget stay within `HostIdleTimeout`. With `Cancelled`
(a cancelled read has its turn) time passes only while a deadline is running, and `WithinHostTimeout` follows. `TimeoutIsFinal` is
inductive with them: no deadline runs outside a read, and none of the other endings is taken once it has passed.

*WebAuth.* The inductive invariant joins `TransitionAlone` and `NoLoginDuringTransition` with facts about the
prompt (`PromptSpent`: it is open only while the login waits for the browser and nothing has cancelled it, and an accepted callback
closes it), about the waiters once a transition runs, and about disposal: there is one disposing request, and once it has
returned nothing is left. `AcceptedOnce` and `DisposedForGood` follow.

*ProviderProxy.* `PInv` joins the type invariant, which counts each manager's operations, the three safety
properties and `TogetherInstalled`: there are wrappers exactly while there are owners. Each wrapper lies over
exactly what the others last put at its entry point, so taking it off or renewing it loses nothing of theirs. Because the
count is exact, either the last `Release` or `CloseAgents` sees zero and removes the owner, and neither does so
while an operation runs.

*QuotaState.* The inductive invariant says what is cached where (`OnlyCached`, `Placed`: without repetition, within the
capacity), which request is under way for which key (`Requested`, `Underway`: a pending key
names a read of the present configuration that fetches it), and what a holder may still use (`Handed`). `RequestsShared` and
`ObservationsCurrent` need each other: an observation is revoked when its entry is refreshed or evicted, and an entry
with a request under way is not evicted.

*AdaptiveTask.* `TypeOK` is inductive by itself, the count within the limit included. `OperationsOnce` does not
rest on the receipts, which are lost when the ring turns: it rests on the revision. What an operation expects is at most
the revision it was issued at, and every effect raises the revision (`Known`, `Effected`). `TaskImplementsGrant`: an operation
spent has been applied (`Spent`), what was sent or is about to be has been counted (`Charged`); then every
step is a step of the grant or leaves it alone. `RevocationIsFinal` is a property of the document's updates alone;
`SilenceAfterRevocation` needs that the answer to a stop finds the turn cut off and the document out of automatic
control (`Settled`, `Silenced`).

`NoToolAfterTakeover` needs to know who can have the tool. `Holders`: only the living runtime to which the document belongs
has it or is about to install it (`Succession`: runtimes live one after the other). `Bypassed`: the commands that former runtimes
left behind expect a revision that has passed (`Seen`), so none of them brings the tool back. `Leaving`: after the answer to a
takeover, a tool is one that the interrupted turn's hook installed late, and that turn is cut off and removes it as it ends.

*AccountStore.* `Busy` (the snapshot is busy exactly while there is a mutation), `Alone` (a poll has a view to serve and no
mutation beside it), `Dead` (a disposed store has neither), `Waiting` and `Numbered` (the mutations that wait are
former ones), and that nothing known is newer than the server, or older than the snapshot while it may be
shown. `NewsOnly` follows because mutations abort the poll under way.

*ConversationSpeed.* `SpeedInvariant` has nine parts. `SpeedTypeOK` ties each map to its order; `Bounded` counts epochs and
selections by the moves; `Marked` says that what is in a map has a generation or a stage of its own. `Places`: whatever is bound
to a place, be it a control, a preference, a handler or a captured request, is bound to one the session was at, now or before; so
an account command or a selection leads away from all of them (`PlaceMoves`), there and back again included. `Located`: a paid
choice was made where there was a session, so that it does not count for one that was closed. `Paid`: a paid choice
or a preference that holds where the session is was its last decision; `Owed`: the same for what a request
captured. `PaidOnlyAsChosen` follows from `Owed` and the confirmation that `Dispatch` makes. `Shows`: no page of the control's
generation is ahead of it, and one that shows its revision has seen every decision; generations are never used twice, which is why
a new control cannot be taken for the one a page shows. `NoLostUpdate` follows, since `selectSpeed` compares both numbers. `Paid` and
`ModesExclusive` are inductive only with the types: what `Room` evicts from one map must leave the others consistent.

*PluginLifecycle.* Fibers are numbered, and a free number always exists (the pigeonhole principle of the library).
`FibersGood`: at most one fiber of a capability is pending, active or closing, and it is the current one or the one that a
reconciliation waits for; `Waiting`, `Placed` and `Ending` follow it through the awaits and the plugin's end. `RouteInv` ties
the route to the search capability's active fiber, for both kinds of runtimes.

Model-checked only: liveness (`EveryAttemptSettles`, `ReadsEnd`, `RequestsProceed`, `TimedWaitsEnd`, `ShutdownEnds`, `TurnEnds`,
`Converges`, `Settles`), which is out of the prover's reach. Every safety property of a passing run is a theorem.

## 5. Findings

1. **A logout that dies halfway keeps a credential** (`store.ts` 450). `delete` removes the document first and
   the rollback copy second. A crash in between leaves the copy beside a store that reads as signed out, and
   only another logout, a removal or a matching migration ever looks at it. `docs/design.md` 25 says "Removing
   any account or signing out deletes the rollback copy so removed credentials do not persist there".
   `removeAccount` uses the opposite order, and `NothingForgotten` shows that it is the safe one.
2. **A late waiter waits for ever** (`auth-routes.ts` 170). When a login fails its waiters are rejected and the
   timer for its URL is stopped, but the operation exists until its final status has been read. A sign-in that
   arrives in between joins the operation and is never answered. Line 48 calls the timeout the "Maximum time a
   browser request waits for the provider's authorization URL."
3. **Timers of a start that threw cancel a later login** (`auth-routes.ts` 302). `start` arms both timers, then
   calls the proxy manager, which throws while it is shutting down. The next `start` overwrites the references; the
   old timers cancel its login before its own deadline. The window is a proxy that is switched off and on again
   within the shutdown. `docs/reference.md` 16 says "Pending authorization expires after 10 minutes by default".

Seen while modelling, and not contradicted by any document: a rollback copy that differs from the version-1
document makes every refresh spend its token and then fail to save the new one (`mislaid` is the exception in
`StoredTokensLive`); a request that waits for a transition fails when that transition fails (`End`); a sign-in
that joins a login which has announced its URL and has since been aborted gets that URL (`Join`).

## 6. Plan

In this order; the most valuable behaviour first.

1. `ProviderProxy` composed with `WebAuth`, whose `StartThrows` is the manager's refusal during a shutdown.
2. `Delegation` over its ledger (`adaptive-task-delegation*.ts`), once the product entry point constructs it, with the
   version-2 commands of the control runtime; the client update store.
3. Pure algorithms against reference definitions: the retry delays of `backend-request-policy.ts`, the ordering
   of quota windows, the bounded image store.

### Not modelled

Rendering, wording, parsing of provider answers, tables of models, package inspection, one-shot
command-line tools: they keep no state that two actors share.
The repository's `lib/` holds the bundles that its build makes from `src/`: they are the same code, and models refer to
`src/`. The adapter, the transport and native compaction convert protocols and histories; their use of the governor, the
store and the speed registry is modelled there. The images, the updates and the diagnostics are file inspection around
one call each.
