---- MODULE ProviderProxyProofs ----
(***************************************************************************)
(* Theorems about ProviderProxy: any number of managers and operations,    *)
(* and any number of things other parties put over the entry points.       *)
(***************************************************************************)
EXTENDS ProviderProxy, FiniteSetTheorems, TLAPS

\* Our wrappers come and go together, with the owners.
TogetherInstalled == \A g \in Slot : ours[g] # None <=> owners # {}

\* The part of TypeOK about the entry points, and the part about the managers.
GlobalTypes == /\ DOMAIN at = Slot /\ DOMAIN beneath = Slot
               /\ DOMAIN saved = Slot /\ DOMAIN theirs = Slot
               /\ ours \in [Slot -> {None} \cup {Ours(n) : n \in 1..MaxInstalls}]
               /\ installs \in 0..MaxInstalls /\ foreign \in 0..MaxForeign
               /\ owners \subseteq Manager /\ meddled \subseteq Slot
ManagerTypes == /\ active \in [Manager -> Nat] /\ pooled \in [Manager -> BOOLEAN]
                /\ phase \in [Manager -> {"open", "draining", "drained", "destroying"}]
                /\ disposed \in [Manager -> BOOLEAN]
                /\ lease \in [Lease -> Manager \cup {None}]
                /\ \A m \in Manager : active[m] = Cardinality(LeasesOf(m))

LEMMA TypeParts == (TypeOK <=> GlobalTypes /\ ManagerTypes) /\ (TypeOK' <=> GlobalTypes' /\ ManagerTypes')
BY DEF TypeOK, GlobalTypes, ManagerTypes

PInv == TypeOK /\ NeverDirect /\ HostServed /\ OwnersLeave /\ TogetherInstalled

-----------------------------------------------------------------------------
\* Counting operations.

LEMMA LeasesFinite == \A m \in Manager : IsFiniteSet(LeasesOf(m))
BY FS_Subset, ProxyAssumption DEF LeasesOf

LEMMA NoOperation ==
  ASSUME TypeOK, NEW m \in Manager, active[m] = 0
  PROVE  \A l \in Lease : lease[l] # m
<1>1. IsFiniteSet(LeasesOf(m)) /\ Cardinality(LeasesOf(m)) = 0
  BY LeasesFinite DEF TypeOK
<1>2. LeasesOf(m) = {}
  BY <1>1, FS_EmptySet
<1> QED BY <1>2 DEF LeasesOf

\* A lease that is taken adds one to its manager's count and nothing elsewhere.
LEMMA CountTaken ==
  ASSUME TypeOK, NEW m \in Manager, NEW l \in Lease, lease[l] = None,
         lease' = [lease EXCEPT ![l] = m], active' = [active EXCEPT ![m] = @ + 1]
  PROVE  /\ active' \in [Manager -> Nat] /\ lease' \in [Lease -> Manager \cup {None}]
         /\ \A n \in Manager : active'[n] = Cardinality(LeasesOf(n)')
<1>1. /\ active \in [Manager -> Nat] /\ lease \in [Lease -> Manager \cup {None}]
      /\ \A n \in Manager : active[n] = Cardinality(LeasesOf(n))
  BY DEF TypeOK
<1>2. l \notin LeasesOf(m) /\ LeasesOf(m)' = LeasesOf(m) \cup {l}
  BY <1>1, ProxyAssumption DEF LeasesOf
<1>3. \A n \in Manager \ {m} : LeasesOf(n)' = LeasesOf(n)
  BY <1>1, ProxyAssumption DEF LeasesOf
<1>4. Cardinality(LeasesOf(m)') = Cardinality(LeasesOf(m)) + 1
  BY <1>2, LeasesFinite, FS_AddElement
<1> QED BY <1>1, <1>3, <1>4

\* A lease that is given back takes one off, and there is one to take off.
LEMMA CountGiven ==
  ASSUME TypeOK, NEW l \in Lease, lease[l] # None,
         lease' = [lease EXCEPT ![l] = None], active' = [active EXCEPT ![lease[l]] = @ - 1]
  PROVE  /\ lease[l] \in Manager /\ active[lease[l]] > 0
         /\ active' \in [Manager -> Nat] /\ lease' \in [Lease -> Manager \cup {None}]
         /\ \A n \in Manager : active'[n] = Cardinality(LeasesOf(n)')
<1> DEFINE m == lease[l]
<1>1. /\ active \in [Manager -> Nat] /\ lease \in [Lease -> Manager \cup {None}]
      /\ \A n \in Manager : active[n] = Cardinality(LeasesOf(n))
  BY DEF TypeOK
<1>2. m \in Manager
  BY <1>1
<1>3. l \in LeasesOf(m) /\ (LeasesOf(m) \ {l}) = {k \in Lease : lease'[k] = m}
  BY <1>1, <1>2, ProxyAssumption DEF LeasesOf
<1>4. \A n \in Manager \ {m} : LeasesOf(n)' = LeasesOf(n)
  BY <1>1, ProxyAssumption DEF LeasesOf
<1>5. /\ Cardinality(LeasesOf(m)) \in Nat /\ Cardinality(LeasesOf(m)) > 0
      /\ Cardinality(LeasesOf(m) \ {l}) = Cardinality(LeasesOf(m)) - 1
  <2>1. IsFiniteSet(LeasesOf(m))
    BY <1>2, LeasesFinite
  <2>2. Cardinality(LeasesOf(m)) \in Nat /\ Cardinality(LeasesOf(m)) # 0
    BY <2>1, <1>3, FS_CardinalityType, FS_EmptySet
  <2>3. Cardinality(LeasesOf(m) \ {l}) = Cardinality(LeasesOf(m)) - 1
    BY <2>1, <1>3, FS_RemoveElement
  <2> QED BY <2>2, <2>3
<1>6. active'[m] = Cardinality({k \in Lease : lease'[k] = m}) /\ active[m] > 0
  BY <1>1, <1>2, <1>3, <1>5
<1>7. \A n \in Manager \ {m} : active'[n] = Cardinality(LeasesOf(n)')
  BY <1>1, <1>2, <1>4
<1>8. \A n \in Manager : active'[n] = Cardinality({k \in Lease : lease'[k] = n})
  BY <1>6, <1>7 DEF LeasesOf
<1>9. active' \in [Manager -> Nat]
  BY <1>1, <1>2, <1>6
<1>10. lease' \in [Lease -> Manager \cup {None}]
  BY <1>1
<1> QED BY <1>2, <1>6, <1>8, <1>9, <1>10 DEF LeasesOf

-----------------------------------------------------------------------------
\* What the two operations on the wrappers do.

LEMMA Installs ==
  ASSUME PInv, NEW m \in Manager, EnsureInstalled(m)
  PROVE  /\ \A g \in Slot : at'[g] = ours'[g] /\ ours'[g] # None /\ beneath'[g] = theirs'[g]
         /\ owners' = owners \cup {m} /\ meddled' = {}
         /\ installs' \in 0..MaxInstalls
<1>1. TypeOK /\ HostServed /\ TogetherInstalled /\ installs \in 0..MaxInstalls
  BY DEF PInv, TypeOK
<1>2. ToWrap # {} => installs + 1 \in 1..MaxInstalls
  BY <1>1, ProxyAssumption DEF EnsureInstalled
<1>3. ASSUME NEW g \in Slot
      PROVE  at'[g] = ours'[g] /\ ours'[g] # None /\ beneath'[g] = theirs'[g]
  <2>1. /\ ours'[g] = IF g \in ToWrap THEN Ours(installs + 1) ELSE ours[g]
        /\ beneath'[g] = IF g \in ToWrap THEN Underneath(g) ELSE beneath[g]
        /\ at'[g] = ours'[g] /\ theirs' = theirs
    BY DEF EnsureInstalled
  <2>2. CASE g \in ToWrap
    <3>1. ours'[g] # None
      BY <2>1, <2>2, <1>2, ProxyAssumption
    <3>2. Underneath(g) = theirs[g]
      BY <1>1 DEF Underneath, HostServed, TogetherInstalled
    <3> QED BY <2>1, <2>2, <3>1, <3>2
  <2>3. CASE g \notin ToWrap
    <3>1. ours[g] # None /\ at[g] = ours[g]
      BY <2>3 DEF ToWrap, Uncovered
    <3>2. beneath[g] = theirs[g]
      BY <1>1, <3>1 DEF HostServed, TogetherInstalled
    <3> QED BY <2>1, <2>3, <3>1, <3>2
  <2> QED BY <2>2, <2>3
<1> QED BY <1>1, <1>2, <1>3, ProxyAssumption DEF EnsureInstalled

LEMMA Removes ==
  ASSUME PInv, NEW m \in Manager, RemoveOwner(m)
  PROVE  /\ owners' = owners \ {m}
         /\ owners' = {} => \A g \in Slot : at'[g] = theirs[g] /\ ours'[g] = None
         /\ owners' # {} => UNCHANGED <<at, ours, beneath>>
         /\ UNCHANGED <<theirs, meddled>>
<1>1. HostServed /\ TogetherInstalled
  BY DEF PInv
<1>2. \A g \in Slot : Underneath(g) = theirs[g]
  BY <1>1 DEF Underneath, HostServed, TogetherInstalled
<1> QED BY <1>2 DEF RemoveOwner

LEMMA WrapperTypes ==
  ASSUME PInv, NEW m \in Manager, EnsureInstalled(m) \/ RemoveOwner(m) \/ UNCHANGED globals
  PROVE  GlobalTypes'
<1>1. GlobalTypes
  BY TypeParts DEF PInv
<1>2. CASE EnsureInstalled(m)
  <2>1. installs' \in 0..MaxInstalls /\ (ToWrap # {} => installs + 1 \in 1..MaxInstalls)
    BY <1>1, <1>2, ProxyAssumption DEF EnsureInstalled, GlobalTypes
  <2>2. ours' \in [Slot -> {None} \cup {Ours(n) : n \in 1..MaxInstalls}]
    BY <1>1, <1>2, <2>1 DEF EnsureInstalled, GlobalTypes
  <2>3. DOMAIN at' = Slot /\ DOMAIN beneath' = Slot
    BY <1>2 DEF EnsureInstalled
  <2>4. owners' \subseteq Manager /\ meddled' = {} /\ UNCHANGED <<saved, foreign, theirs>>
    BY <1>1, <1>2 DEF EnsureInstalled, GlobalTypes
  <2> QED BY <1>1, <2>1, <2>2, <2>3, <2>4 DEF GlobalTypes
<1>3. CASE RemoveOwner(m)
  <2>1. DOMAIN at' = Slot /\ DOMAIN beneath' = Slot
    BY <1>1, <1>3 DEF RemoveOwner, GlobalTypes
  <2>2. ours' \in [Slot -> {None} \cup {Ours(n) : n \in 1..MaxInstalls}]
    BY <1>1, <1>3 DEF RemoveOwner, GlobalTypes
  <2>3. owners' \subseteq Manager /\ UNCHANGED <<installs, saved, foreign, theirs, meddled>>
    BY <1>1, <1>3 DEF RemoveOwner, GlobalTypes
  <2> QED BY <1>1, <2>1, <2>2, <2>3 DEF GlobalTypes
<1>4. CASE UNCHANGED globals
  BY <1>1, <1>4 DEF globals, GlobalTypes
<1> QED BY <1>2, <1>3, <1>4

-----------------------------------------------------------------------------
\* The invariant is kept by each action.

LEMMA AcquireKeeps ==
  ASSUME PInv, NEW m \in Manager, NEW l \in Lease, Acquire(m, l)
  PROVE  PInv'
<1>1. TypeOK /\ GlobalTypes /\ ManagerTypes
  BY TypeParts DEF PInv
<1>2. EnsureInstalled(m)
  BY DEF Acquire
<1>3. /\ \A g \in Slot : at'[g] = ours'[g] /\ ours'[g] # None /\ beneath'[g] = theirs'[g]
      /\ owners' = owners \cup {m} /\ meddled' = {}
  BY <1>2, Installs
<1>4. TypeOK'
  <2>1. /\ lease[l] = None /\ lease' = [lease EXCEPT ![l] = m]
        /\ active' = [active EXCEPT ![m] = @ + 1]
    BY DEF Acquire
  <2>2. /\ active' \in [Manager -> Nat] /\ lease' \in [Lease -> Manager \cup {None}]
        /\ \A n \in Manager : active'[n] = Cardinality(LeasesOf(n)')
    BY <1>1, <2>1, CountTaken
  <2>3. pooled' \in [Manager -> BOOLEAN] /\ UNCHANGED <<phase, disposed>>
    BY <1>1 DEF Acquire, ManagerTypes
  <2>4. ManagerTypes'
    BY <1>1, <2>2, <2>3 DEF ManagerTypes
  <2> QED BY <1>2, <2>4, WrapperTypes, TypeParts
<1>5. NeverDirect'
  <2>1. \A k \in Lease : lease'[k] # None => lease'[k] \in owners'
    BY <1>1, <1>3 DEF Acquire, ManagerTypes, PInv, NeverDirect
  <2> QED BY <1>3, <2>1 DEF NeverDirect
<1>6. HostServed' /\ TogetherInstalled'
  BY <1>3 DEF HostServed, TogetherInstalled
<1>7. OwnersLeave'
  <2>1. \A n \in owners : active[n] > 0 \/ pooled[n]
    BY DEF PInv, OwnersLeave
  <2>2. pooled'[m] /\ \A n \in Manager \ {m} : active'[n] = active[n] /\ pooled'[n] = pooled[n]
    BY <1>1 DEF Acquire, ManagerTypes
  <2> QED BY <1>1, <1>3, <2>1, <2>2 DEF OwnersLeave, GlobalTypes
<1> QED BY <1>4, <1>5, <1>6, <1>7 DEF PInv

\* A manager that leaves with nothing running takes nothing from the others.
LEMMA LeavingKeeps ==
  ASSUME PInv, NEW m \in Manager, \A l \in Lease : lease'[l] \in {lease[l], None},
         \/ RemoveOwner(m) /\ \A l \in Lease : lease'[l] # m
         \/ UNCHANGED globals
  PROVE  NeverDirect' /\ HostServed' /\ TogetherInstalled'
<1>1. NeverDirect /\ HostServed /\ TogetherInstalled
  BY DEF PInv
<1>2. CASE UNCHANGED globals
  <2>1. UNCHANGED <<at, ours, beneath, owners, theirs, meddled>>
    BY <1>2 DEF globals
  <2>2. NeverDirect'
    BY <1>1, <2>1 DEF NeverDirect
  <2>3. HostServed' /\ TogetherInstalled'
    BY <1>1, <2>1 DEF HostServed, TogetherInstalled
  <2> QED BY <2>2, <2>3
<1>3. CASE RemoveOwner(m) /\ \A l \in Lease : lease'[l] # m
  <2>1. /\ owners' = owners \ {m} /\ theirs' = theirs /\ meddled' = meddled
        /\ owners' = {} => \A g \in Slot : at'[g] = theirs[g] /\ ours'[g] = None
        /\ owners' # {} => UNCHANGED <<at, ours, beneath>>
    BY <1>3, Removes
  <2>2. \A l \in Lease : lease'[l] # None => lease[l] # None /\ lease'[l] \in owners'
    BY <1>1, <1>3, <2>1 DEF NeverDirect
  <2>3. NeverDirect'
    BY <1>1, <2>1, <2>2 DEF NeverDirect
  <2>4. HostServed' /\ TogetherInstalled'
    <3>1. CASE owners' = {}
      BY <2>1, <3>1 DEF HostServed, TogetherInstalled
    <3>2. CASE owners' # {}
      BY <1>1, <2>1, <3>2 DEF HostServed, TogetherInstalled
    <3> QED BY <3>1, <3>2
  <2> QED BY <2>3, <2>4
<1> QED BY <1>2, <1>3

LEMMA ReleaseKeeps ==
  ASSUME PInv, NEW l \in Lease, Release(l)
  PROVE  PInv'
<1> DEFINE m == lease[l]
<1>1. TypeOK /\ GlobalTypes /\ ManagerTypes /\ OwnersLeave
  BY TypeParts DEF PInv
<1>2. /\ lease[l] # None /\ lease' = [lease EXCEPT ![l] = None]
      /\ active' = [active EXCEPT ![lease[l]] = @ - 1]
      /\ UNCHANGED <<pooled, disposed>>
  BY DEF Release
<1>3. /\ m \in Manager /\ active[m] > 0
      /\ active' \in [Manager -> Nat] /\ lease' \in [Lease -> Manager \cup {None}]
      /\ \A n \in Manager : active'[n] = Cardinality(LeasesOf(n)')
  BY <1>1, <1>2, CountGiven
<1>4. IF active[m] = 1 /\ ~pooled[m] THEN RemoveOwner(m) ELSE UNCHANGED globals
  BY DEF Release
<1>5. phase' \in [Manager -> {"open", "draining", "drained", "destroying"}]
  BY <1>1, <1>3 DEF Release, ManagerTypes
<1>6. ManagerTypes'
  BY <1>1, <1>2, <1>3, <1>5 DEF ManagerTypes
<1>7. TypeOK'
  BY <1>3, <1>4, <1>6, WrapperTypes, TypeParts
<1>8. active[m] = 1 => \A k \in Lease : lease'[k] # m
  <2> SUFFICES ASSUME active[m] = 1 PROVE \A k \in Lease : lease'[k] # m
    OBVIOUS
  <2>1. active'[m] = 0
    BY <1>1, <1>2, <1>3 DEF ManagerTypes
  <2>2. IsFiniteSet(LeasesOf(m)') /\ Cardinality({k \in Lease : lease'[k] = m}) = 0
    BY <1>3, <2>1, FS_Subset, ProxyAssumption DEF LeasesOf
  <2>3. IsFiniteSet({k \in Lease : lease'[k] = m})
    BY FS_Subset, ProxyAssumption
  <2>4. {k \in Lease : lease'[k] = m} = {}
    BY <2>2, <2>3, FS_EmptySet
  <2> QED BY <2>4
<1>9. \A k \in Lease : lease'[k] \in {lease[k], None}
  BY <1>1, <1>2 DEF ManagerTypes
<1>10. NeverDirect' /\ HostServed' /\ TogetherInstalled'
  BY <1>3, <1>4, <1>8, <1>9, LeavingKeeps
<1>11. OwnersLeave'
  <2>1. \A n \in Manager \ {m} : active'[n] = active[n]
    BY <1>1, <1>2 DEF ManagerTypes
  <2>2. active'[m] > 0 \/ pooled[m] \/ m \notin owners'
    <3>1. CASE active[m] = 1 /\ ~pooled[m]
      BY <1>3, <1>4, <3>1 DEF RemoveOwner
    <3>2. CASE active[m] # 1 \/ pooled[m]
      BY <1>1, <1>2, <1>3, <3>2 DEF ManagerTypes
    <3> QED BY <3>1, <3>2
  <2>3. owners' \subseteq owners /\ owners \subseteq Manager
    BY <1>1, <1>4 DEF RemoveOwner, globals, GlobalTypes
  <2> QED BY <1>1, <1>2, <2>1, <2>2, <2>3 DEF OwnersLeave
<1> QED BY <1>7, <1>10, <1>11 DEF PInv

LEMMA CloseKeeps ==
  ASSUME PInv, NEW m \in Manager, CloseAgents(m)
  PROVE  PInv'
<1>1. TypeOK /\ GlobalTypes /\ ManagerTypes /\ OwnersLeave
  BY TypeParts DEF PInv
<1>2. /\ IF active[m] = 0 THEN RemoveOwner(m) ELSE UNCHANGED globals
      /\ pooled' = [pooled EXCEPT ![m] = FALSE] /\ UNCHANGED <<active, disposed, lease>>
      /\ phase' = [phase EXCEPT ![m] = "destroying"]
  BY DEF CloseAgents
<1>3. TypeOK'
  <2>1. LeasesOf(m)' = LeasesOf(m) /\ \A n \in Manager : LeasesOf(n)' = LeasesOf(n)
    BY <1>2 DEF LeasesOf
  <2>2. ManagerTypes'
    BY <1>1, <1>2, <2>1 DEF ManagerTypes
  <2> QED BY <1>2, <2>2, WrapperTypes, TypeParts
<1>4. active[m] = 0 => \A l \in Lease : lease'[l] # m
  BY <1>1, <1>2, NoOperation
<1>5. NeverDirect' /\ HostServed' /\ TogetherInstalled'
  BY <1>2, <1>4, LeavingKeeps
<1>6. OwnersLeave'
  <2>1. active[m] > 0 \/ m \notin owners'
    BY <1>1, <1>2 DEF RemoveOwner, ManagerTypes
  <2>2. owners' \subseteq owners /\ owners \subseteq Manager
    BY <1>1, <1>2 DEF RemoveOwner, globals, GlobalTypes
  <2> QED BY <1>1, <1>2, <2>1, <2>2 DEF OwnersLeave, ManagerTypes
<1> QED BY <1>3, <1>5, <1>6 DEF PInv

LEMMA QuietKeeps ==
  ASSUME PInv, NEW m \in Manager, Shutdown(m) \/ GiveUp(m) \/ Closed(m)
  PROVE  PInv'
<1>1. TypeOK /\ GlobalTypes /\ ManagerTypes /\ OwnersLeave
  BY TypeParts DEF PInv
<1>2. UNCHANGED <<globals, active, pooled, lease>>
  BY DEF Shutdown, GiveUp, Closed
<1>3. phase' \in [Manager -> {"open", "draining", "drained", "destroying"}]
  BY <1>1 DEF Shutdown, GiveUp, Closed, ManagerTypes
<1>4. disposed' \in [Manager -> BOOLEAN]
  BY <1>1 DEF Shutdown, GiveUp, Closed, ManagerTypes
<1>5. \A n \in Manager : LeasesOf(n)' = LeasesOf(n)
  BY <1>2 DEF LeasesOf
<1>6. ManagerTypes'
  BY <1>1, <1>2, <1>3, <1>4, <1>5 DEF ManagerTypes
<1>7. TypeOK'
  BY <1>2, <1>6, WrapperTypes, TypeParts
<1>8. NeverDirect' /\ HostServed' /\ TogetherInstalled'
  BY <1>2, LeavingKeeps
<1>9. OwnersLeave'
  BY <1>1, <1>2 DEF OwnersLeave, globals
<1> QED BY <1>7, <1>8, <1>9 DEF PInv

\* What another party puts at an entry point is its own, or what we had put there.
LEMMA MeddleOnce ==
  ASSUME PInv, NEW g \in Slot, NEW v, NEW back, Meddle(g, v, back),
         \/ v = back /\ (v # ours[g] \/ ours[g] = None)
         \/ v = ours[g] /\ v # None /\ back = beneath[g]
  PROVE  /\ NeverDirect' /\ HostServed' /\ OwnersLeave' /\ TogetherInstalled'
         /\ DOMAIN at' = Slot /\ DOMAIN theirs' = Slot /\ meddled' \subseteq Slot
         /\ UNCHANGED <<ours, beneath, installs, owners, managers>>
<1>1. GlobalTypes /\ NeverDirect /\ HostServed /\ OwnersLeave /\ TogetherInstalled
  BY TypeParts DEF PInv
<1>2. /\ meddled' = meddled \cup {g} \cup (IF g = "dispatcher" THEN {"legacy"} ELSE {})
      /\ UNCHANGED <<ours, beneath, installs, owners, managers>>
  BY DEF Meddle
<1>3. \A h \in Slot \ meddled' : at'[h] = at[h] /\ theirs'[h] = theirs[h]
  BY <1>1, <1>2 DEF Meddle, GlobalTypes, Slot
<1>4. at'[g] = v /\ theirs'[g] = back
  BY <1>1 DEF Meddle, GlobalTypes, Slot
<1>5. g = "dispatcher" => at'["legacy"] = Bridge(v) /\ theirs'["legacy"] = Bridge(v)
  BY <1>1 DEF Meddle, GlobalTypes, Slot
<1>6. \A h \in Slot : h # g /\ ~(g = "dispatcher" /\ h = "legacy") => at'[h] = at[h] /\ theirs'[h] = theirs[h]
  BY <1>1 DEF Meddle, GlobalTypes, Slot
<1>7. NeverDirect'
  BY <1>1, <1>2, <1>3 DEF NeverDirect, managers
<1>8. HostServed'
  <2> SUFFICES ASSUME NEW h \in Slot
               PROVE  IF owners' # {} /\ at'[h] = ours'[h] THEN beneath'[h] = theirs'[h] ELSE at'[h] = theirs'[h]
    BY DEF HostServed
  <2>1. CASE h = g
    BY <1>1, <1>2, <1>4, <2>1 DEF TogetherInstalled
  <2>2. CASE g = "dispatcher" /\ h = "legacy"
    <3>1. ours[h] # None => Bridge(v) # ours[h]
      BY <1>1 DEF GlobalTypes, Ours, Bridge
    <3> QED BY <1>1, <1>2, <1>5, <2>2, <3>1 DEF TogetherInstalled
  <2>3. CASE h # g /\ ~(g = "dispatcher" /\ h = "legacy")
    BY <1>1, <1>2, <1>6, <2>3 DEF HostServed
  <2> QED BY <2>1, <2>2, <2>3
<1>9. OwnersLeave' /\ TogetherInstalled'
  BY <1>1, <1>2 DEF OwnersLeave, TogetherInstalled, managers
<1>10. DOMAIN at' = Slot /\ DOMAIN theirs' = Slot /\ meddled' \subseteq Slot
  BY <1>1, <1>2 DEF Meddle, GlobalTypes, Slot
<1> QED BY <1>2, <1>7, <1>8, <1>9, <1>10

LEMMA MeddleKeeps ==
  ASSUME PInv, NEW g \in Slot, PutOver(g) \/ TakeOff(g)
  PROVE  PInv'
<1>1. GlobalTypes /\ ManagerTypes
  BY TypeParts DEF PInv
<1>2. /\ NeverDirect' /\ HostServed' /\ OwnersLeave' /\ TogetherInstalled'
      /\ DOMAIN at' = Slot /\ DOMAIN theirs' = Slot /\ meddled' \subseteq Slot
      /\ UNCHANGED <<ours, beneath, installs, owners, managers>>
  <2>1. CASE PutOver(g)
    <3>1. Meddle(g, Foreign(foreign + 1), Foreign(foreign + 1))
      BY <2>1 DEF PutOver
    <3>2. Foreign(foreign + 1) # ours[g] \/ ours[g] = None
      BY <1>1 DEF GlobalTypes, Ours, Foreign
    <3> QED BY <3>1, <3>2, MeddleOnce
  <2>2. CASE TakeOff(g) /\ saved[g] = ours[g]
    <3>1. Meddle(g, ours[g], beneath[g]) /\ ours[g] # None
      BY <2>2 DEF TakeOff
    <3> QED BY <3>1, MeddleOnce
  <2>3. CASE TakeOff(g) /\ saved[g] # ours[g]
    <3>1. Meddle(g, saved[g], saved[g]) /\ saved[g] # ours[g]
      BY <2>3 DEF TakeOff
    <3> QED BY <3>1, MeddleOnce
  <2> QED BY <2>1, <2>2, <2>3
<1>3. DOMAIN saved' = Slot /\ foreign' \in 0..MaxForeign
  BY <1>1, ProxyAssumption DEF PutOver, TakeOff, GlobalTypes
<1>4. GlobalTypes'
  BY <1>1, <1>2, <1>3 DEF GlobalTypes
<1>5. ManagerTypes'
  <2>1. \A m \in Manager : LeasesOf(m)' = LeasesOf(m)
    BY <1>2 DEF LeasesOf, managers
  <2> QED BY <1>1, <1>2, <2>1 DEF ManagerTypes, managers
<1> QED BY <1>2, <1>4, <1>5, TypeParts DEF PInv

-----------------------------------------------------------------------------
LEMMA InitPInv == Init => PInv
<1> SUFFICES ASSUME Init PROVE PInv
  OBVIOUS
<1>1. GlobalTypes
  BY ProxyAssumption DEF Init, GlobalTypes
<1>2. ManagerTypes
  <2>1. \A m \in Manager : LeasesOf(m) = {}
    BY ProxyAssumption DEF Init, LeasesOf
  <2>2. \A m \in Manager : Cardinality(LeasesOf(m)) = 0
    BY <2>1, FS_EmptySet
  <2> QED BY <2>2 DEF Init, ManagerTypes
<1>3. NeverDirect /\ HostServed /\ OwnersLeave /\ TogetherInstalled
  BY DEF Init, NeverDirect, HostServed, OwnersLeave, TogetherInstalled
<1> QED BY <1>1, <1>2, <1>3, TypeParts DEF PInv

\* The invariant of the managers and their wrappers is inductive.
THEOREM Invariance == Spec => []PInv
<1>1. PInv /\ [Next]_vars => PInv'
  <2> SUFFICES ASSUME PInv, [Next]_vars PROVE PInv'
    OBVIOUS
  <2>1. CASE \E g \in Slot : PutOver(g) \/ TakeOff(g)
    BY <2>1, MeddleKeeps
  <2>2. CASE \E l \in Lease : Release(l) \/ \E m \in Manager : Acquire(m, l)
    BY <2>2, ReleaseKeeps, AcquireKeeps
  <2>3. CASE \E m \in Manager : Shutdown(m) \/ GiveUp(m) \/ CloseAgents(m) \/ Closed(m)
    BY <2>3, QuietKeeps, CloseKeeps
  <2>4. CASE UNCHANGED vars
    <3>1. \A m \in Manager : LeasesOf(m)' = LeasesOf(m)
      BY <2>4 DEF vars, managers, LeasesOf
    <3>2. GlobalTypes' /\ ManagerTypes'
      BY <2>4, <3>1, TypeParts DEF vars, globals, managers, GlobalTypes, ManagerTypes, PInv
    <3>3. NeverDirect' /\ HostServed' /\ OwnersLeave' /\ TogetherInstalled'
      BY <2>4 DEF vars, globals, managers, PInv, NeverDirect, HostServed, OwnersLeave, TogetherInstalled
    <3> QED BY <3>2, <3>3, TypeParts DEF PInv
  <2> QED BY <2>1, <2>2, <2>3, <2>4 DEF Next
<1> QED BY <1>1, InitPInv, PTL DEF Spec

\* Operations are counted exactly, and everything keeps its type.
THEOREM TypeCorrect == Spec => []TypeOK
<1>1. PInv => TypeOK
  BY DEF PInv
<1> QED BY <1>1, Invariance, PTL

\* No operation, however late, finds our wrapper taken away by us.
THEOREM OperationsStayInScope == Spec => []NeverDirect
<1>1. PInv => NeverDirect
  BY DEF PInv
<1> QED BY <1>1, Invariance, PTL

\* Traffic of others takes the way the others last gave it.
THEOREM HostIsServed == Spec => []HostServed
<1>1. PInv => HostServed
  BY DEF PInv
<1> QED BY <1>1, Invariance, PTL

\* A manager with neither operation nor pool has given up its ownership.
THEOREM NoIdleOwner == Spec => []OwnersLeave
<1>1. PInv => OwnersLeave
  BY DEF PInv
<1> QED BY <1>1, Invariance, PTL
====
