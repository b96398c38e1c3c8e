---- MODULE ProviderProxy ----
(***************************************************************************)
(* The proxy managers of src/src/provider-proxy.ts.  Each plugin instance  *)
(* has one manager; its operations run under a lease on the manager's      *)
(* pool.  All managers of the process share a wrapper, installed over the  *)
(* three process-wide entry points of HTTP (undici's dispatcher, its older *)
(* slot and fetch), that sends an operation's traffic to its pool and any  *)
(* other traffic to whatever the wrapper was put over.                     *)
(*                                                                         *)
(* The Host and other plugins put things of their own over the same entry  *)
(* points, and take them off again, at any time.  A manager's pools for    *)
(* several proxies are one pool here, as they live and die together.       *)
(***************************************************************************)
EXTENDS Naturals, FiniteSets

CONSTANTS Manager, Lease, None,
          MaxInstalls, MaxForeign  \* bounds of the model: wrappers of either side

\* Things at an entry point are told apart by who made them and when.  The
\* legacy slot shows a bridge to whatever was last made undici's dispatcher.
Host == <<"host", 0>>
Ours(n) == <<"ours", n>>
Foreign(n) == <<"foreign", n>>
Bridge(v) == <<"bridge", v[1], v[2]>>

ASSUME ProxyAssumption == /\ None \notin Manager
                          /\ IsFiniteSet(Lease)
                          /\ MaxInstalls \in Nat /\ MaxForeign \in Nat
                          /\ \A n \in 1..MaxInstalls : None # Ours(n)

Slot == {"dispatcher", "legacy", "fetch"}

VARIABLES at,       \* what each entry point is
          ours,     \* installedDispatcher, installedLegacy, installedFetch
          beneath,  \* previousDispatcher, previousLegacy, previousFetch
          installs, \* wrappers made so far
          owners,   \* activeOwners
          saved,    \* what another party found at an entry point and keeps
          foreign,  \* things other parties made so far
          theirs,   \* history: what each entry point would be without us
          meddled,  \* history: entry points others changed since the last lease
          active,   \* per manager: activeOperations
          pooled,   \* per manager: it has a pool
          phase,    \* per manager: how far its shutdown is
          disposed, \* per manager
          lease     \* per lease: the manager whose operation holds it, or None

globals == <<at, ours, beneath, installs, owners, saved, foreign, theirs, meddled>>
managers == <<active, pooled, phase, disposed, lease>>
vars == <<globals, managers>>

Init == /\ at = [g \in Slot |-> Host] /\ theirs = at
        /\ ours = [g \in Slot |-> None] /\ beneath = [g \in Slot |-> None]
        /\ installs = 0 /\ owners = {}
        /\ saved = [g \in Slot |-> None] /\ foreign = 0 /\ meddled = {}
        /\ active = [m \in Manager |-> 0]
        /\ pooled = [m \in Manager |-> FALSE]
        /\ phase = [m \in Manager |-> "open"]
        /\ disposed = [m \in Manager |-> FALSE]
        /\ lease = [l \in Lease |-> None]

-----------------------------------------------------------------------------
\* The entry points that ensureInstalled has to wrap (again).  A new dispatcher
\* changes the legacy slot, too, which then gets a new wrapper.
Uncovered == {g \in Slot : ours[g] = None \/ at[g] # ours[g]}
ToWrap == Uncovered \cup (IF "dispatcher" \in Uncovered THEN {"legacy"} ELSE {})

\* Mutant: the wrapper of the legacy slot is put over the former one.
UnderneathTop(g) == at[g]

\* A wrapper that is renewed goes over what the former one was put over.
Underneath(g) == IF ours[g] # None /\ at[g] = ours[g] THEN beneath[g] ELSE at[g]

\* ensureInstalled.
EnsureInstalled(m) ==
  /\ ToWrap # {} => installs < MaxInstalls
  /\ installs' = IF ToWrap = {} THEN installs ELSE installs + 1
  /\ ours' = [g \in Slot |-> IF g \in ToWrap THEN Ours(installs + 1) ELSE ours[g]]
  /\ beneath' = [g \in Slot |-> IF g \in ToWrap THEN Underneath(g) ELSE beneath[g]]
  /\ at' = ours'
  /\ owners' = owners \cup {m}
  /\ meddled' = {}
  /\ UNCHANGED <<saved, foreign, theirs>>

\* removeOwner: the last owner takes the wrappers off that are on top.
RemoveOwner(m) ==
  /\ owners' = owners \ {m}
  /\ IF owners' = {}
     THEN /\ at' = [g \in Slot |-> Underneath(g)]
          /\ ours' = [g \in Slot |-> None] /\ beneath' = [g \in Slot |-> None]
     ELSE UNCHANGED <<at, ours, beneath>>
  /\ UNCHANGED <<installs, saved, foreign, theirs, meddled>>

\* Another party puts something over an entry point; undici mirrors a new
\* dispatcher in the legacy slot.
Meddle(g, v, back) ==
  /\ at' = [at EXCEPT ![g] = v,
                      !["legacy"] = IF g = "dispatcher" THEN Bridge(v) ELSE IF g = "legacy" THEN v ELSE @]
  /\ theirs' = [theirs EXCEPT ![g] = back,
                      !["legacy"] = IF g = "dispatcher" THEN Bridge(v) ELSE IF g = "legacy" THEN back ELSE @]
  /\ meddled' = meddled \cup {g} \cup (IF g = "dispatcher" THEN {"legacy"} ELSE {})
  /\ UNCHANGED <<ours, beneath, installs, owners, managers>>

PutOver(g) == /\ saved[g] = None /\ foreign < MaxForeign
              /\ foreign' = foreign + 1
              /\ saved' = [saved EXCEPT ![g] = at[g]]
              /\ Meddle(g, Foreign(foreign + 1), Foreign(foreign + 1))

\* It puts back what it found, which may be a wrapper of ours, present or past.
TakeOff(g) == /\ saved[g] # None
              /\ saved' = [saved EXCEPT ![g] = None]
              /\ Meddle(g, saved[g], IF saved[g] = ours[g] THEN beneath[g] ELSE saved[g])
              /\ UNCHANGED foreign

-----------------------------------------------------------------------------
\* acquire, for an operation or a stream that runs until release is called.
Acquire(m, l) ==
  /\ lease[l] = None /\ ~disposed[m] /\ phase[m] = "open"
  /\ EnsureInstalled(m)
  /\ active' = [active EXCEPT ![m] = @ + 1]
  /\ pooled' = [pooled EXCEPT ![m] = TRUE]
  /\ lease' = [lease EXCEPT ![l] = m]
  /\ UNCHANGED <<phase, disposed>>

\* Mutant: a late release does not look whether it was the last.
ReleaseQuietly(l) ==
  LET m == lease[l]
  IN /\ m # None
     /\ lease' = [lease EXCEPT ![l] = None]
     /\ active' = [active EXCEPT ![m] = @ - 1]
     /\ phase' = [phase EXCEPT ![m] = IF active[m] = 1 /\ @ = "draining" THEN "drained" ELSE @]
     /\ UNCHANGED <<globals, pooled, disposed>>

\* release: the last one wakes a shutdown, or ends what a shutdown left behind.
Release(l) ==
  LET m == lease[l]
  IN /\ m # None
     /\ lease' = [lease EXCEPT ![l] = None]
     /\ active' = [active EXCEPT ![m] = @ - 1]
     /\ phase' = [phase EXCEPT ![m] = IF active[m] = 1 /\ @ = "draining" THEN "drained" ELSE @]
     /\ IF active[m] = 1 /\ ~pooled[m] THEN RemoveOwner(m) ELSE UNCHANGED globals
     /\ UNCHANGED <<pooled, disposed>>

\* dispose and deactivate; a shutdown under way is shared.
Shutdown(m) ==
  /\ ~disposed[m]
  /\ disposed' \in {disposed, [disposed EXCEPT ![m] = TRUE]}
  /\ phase' = [phase EXCEPT ![m] = IF @ # "open" THEN @
                                   ELSE IF active[m] = 0 THEN "drained" ELSE "draining"]
  /\ disposed' # disposed \/ phase' # phase
  /\ UNCHANGED <<globals, active, pooled, lease>>

\* Mutant: nothing bounds the wait for the operations.
GiveUpNever(m) == FALSE /\ UNCHANGED vars

\* waitForIdle: one second is over.
GiveUp(m) == /\ phase[m] = "draining"
             /\ phase' = [phase EXCEPT ![m] = "drained"]
             /\ UNCHANGED <<globals, active, pooled, disposed, lease>>

\* Mutant: the wrappers go although operations are still running.
CloseAgentsWithOwner(m) ==
  /\ phase[m] = "drained"
  /\ RemoveOwner(m)
  /\ pooled' = [pooled EXCEPT ![m] = FALSE]
  /\ phase' = [phase EXCEPT ![m] = "destroying"]
  /\ UNCHANGED <<active, disposed, lease>>

\* closeAgents, up to its wait for the pools to be gone.
CloseAgents(m) ==
  /\ phase[m] = "drained"
  /\ IF active[m] = 0 THEN RemoveOwner(m) ELSE UNCHANGED globals
  /\ pooled' = [pooled EXCEPT ![m] = FALSE]
  /\ phase' = [phase EXCEPT ![m] = "destroying"]
  /\ UNCHANGED <<active, disposed, lease>>

\* The pools are gone, or another second is: the shutdown has ended.
Closed(m) == /\ phase[m] = "destroying"
             /\ phase' = [phase EXCEPT ![m] = "open"]
             /\ UNCHANGED <<globals, active, pooled, disposed, lease>>

-----------------------------------------------------------------------------
Next == \/ \E g \in Slot : PutOver(g) \/ TakeOff(g)
        \/ \E l \in Lease : Release(l) \/ \E m \in Manager : Acquire(m, l)
        \/ \E m \in Manager : Shutdown(m) \/ GiveUp(m) \/ CloseAgents(m) \/ Closed(m)

Spec == Init /\ [][Next]_vars

\* Timers fire and continuations run.  Operations may never end.
Fairness == \A m \in Manager : WF_vars(GiveUp(m)) /\ WF_vars(CloseAgents(m)) /\ WF_vars(Closed(m))

FairSpec == Spec /\ Fairness

-----------------------------------------------------------------------------
LeasesOf(m) == {l \in Lease : lease[l] = m}

\* The types, and that every operation counts once.
TypeOK == /\ DOMAIN at = Slot /\ DOMAIN beneath = Slot
          /\ DOMAIN saved = Slot /\ DOMAIN theirs = Slot
          /\ ours \in [Slot -> {None} \cup {Ours(n) : n \in 1..MaxInstalls}]
          /\ installs \in 0..MaxInstalls /\ foreign \in 0..MaxForeign
          /\ owners \subseteq Manager /\ meddled \subseteq Slot
          /\ active \in [Manager -> Nat] /\ pooled \in [Manager -> BOOLEAN]
          /\ phase \in [Manager -> {"open", "draining", "drained", "destroying"}]
          /\ disposed \in [Manager -> BOOLEAN]
          /\ lease \in [Lease -> Manager \cup {None}]
          /\ \A m \in Manager : active[m] = Cardinality(LeasesOf(m))

\* "They cannot bypass their destroyed proxy": as long as an operation runs, even
\* after its pool was destroyed, its manager keeps the wrappers at every entry
\* point that no other party has changed since.
NeverDirect == \A l \in Lease : lease[l] # None =>
  /\ lease[l] \in owners
  /\ \A g \in Slot \ meddled : ours[g] # None /\ at[g] = ours[g]

\* "Unrelated traffic still uses the host dispatcher": each entry point is what the
\* others last made it, or our wrapper over exactly that; and once the last manager
\* is gone, it is what they made it.
HostServed == \A g \in Slot :
  IF owners # {} /\ at[g] = ours[g] THEN beneath[g] = theirs[g] ELSE at[g] = theirs[g]

\* Nobody stays an owner for nothing: a manager without operations and without
\* a pool has left, in whatever order its operations and its shutdown ended.
OwnersLeave == \A m \in owners : active[m] > 0 \/ pooled[m]

\* A shutdown ends although operations may not.
ShutdownEnds == \A m \in Manager : phase[m] # "open" ~> phase[m] = "open"
====
