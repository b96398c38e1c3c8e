---- MODULE QuotaAndSpeedProofs ----
(***************************************************************************)
(* Theorems about QuotaState (any number of reads and keys, any capacity)  *)
(* and about ConversationSpeed (any number of sessions, clients, requests  *)
(* and accounts, any limit).  Both programs keep maps of bounded size in   *)
(* the order of their use, and both proofs rest on the lemmas about such   *)
(* sequences: Appended, Joined and Removed.  The two specifications share  *)
(* nothing else; each theorem is about the one it names.                   *)
(***************************************************************************)
EXTENDS QuotaState, ConversationSpeed, TLAPS

(***************************************************************************)
(* QuotaState.                                                             *)
(***************************************************************************)

\* The types in two parts: the cache, and the rest.
CacheTypes == cache \in Seq(Key) /\ IsInjective(cache) /\ Len(cache) <= Capacity

Entries == [kept : {"nothing", "snapshot", "error", "rejection"}, due : BOOLEAN, request : 0..MaxFetch]

StoreTypes ==
  /\ entry \in [Key -> Entries]
  /\ pending \in [Key -> Reader \cup {None}]
  /\ fetches \in 0..MaxFetch /\ revoked \subseteq 1..fetches /\ stale \subseteq Reader
  /\ disposed \in {"no", "asked", "done"}

ReaderTypes ==
  /\ pc \in [Reader -> {"idle", "auth", "joined", "fetching", "resuming"}]
  /\ key \in [Reader -> Key \cup {None}] /\ with \in [Reader -> Reader \cup {None}]
  /\ got \in [Reader -> 0..fetches] /\ held \in [Reader -> 0..fetches]

LEMMA TypeParts == CacheTypes /\ StoreTypes /\ ReaderTypes => TypeOK
BY DEF CacheTypes, StoreTypes, ReaderTypes, Entries, TypeOK

\* Only what is in the cache has an entry, and a request under way.
OnlyCached == \A k \in Key \ ToSet(cache) : entry[k] = Empty /\ pending[k] = None

\* Requests have been sent, one for each key, and are not revoked while an entry
\* names them.
Requested ==
  /\ \A k \in Key : entry[k].request \in 0..fetches /\ entry[k].request \notin revoked
  /\ \A k, j \in Key : entry[k].request = entry[j].request => k = j \/ entry[k].request = 0

\* The request under way for a key is that of a read of the present configuration.
Underway ==
  \A k \in Key : \A r \in Reader :
    pending[k] = r => /\ pc[r] = "fetching" /\ key[r] = k /\ r \notin stale
                      /\ got[r] = entry[k].request /\ got[r] # 0

\* Where a read of the present configuration is.
Placed ==
  \A r \in Reader :
    /\ pc[r] # "idle" => key[r] \in Key
    /\ pc[r] = "fetching" /\ r \notin stale => pending[key[r]] = r
    /\ pc[r] = "joined" => with[r] # None
    /\ pc[r] = "joined" /\ r \notin stale => pending[key[r]] = with[r]

\* o is what the cache would hand out for some key.
Present(o) == \E k \in ToSet(cache) : /\ entry[k].request = o /\ entry[k].kept = "snapshot"
                                      /\ pending[k] = None
Fine(o) == o \in revoked \cup {0} \/ Present(o)

Handed == \A r \in Reader : /\ Fine(held[r])
                            /\ pc[r] = "resuming" => Fine(got[r])

Over ==
  /\ disposed # "no" => \A r \in Reader : /\ held[r] \in revoked \cup {0}
                                          /\ pc[r] # "idle" => r \in stale
  /\ disposed = "done" => Active = {}

IInv == /\ CacheTypes /\ StoreTypes /\ ReaderTypes
        /\ OnlyCached /\ Requested /\ Underway /\ Placed /\ Handed /\ Over

-----------------------------------------------------------------------------
\* Sequences without repetitions.

LEMMA Appended ==
  ASSUME NEW S, NEW s \in Seq(S), IsInjective(s), NEW k \in S, k \notin ToSet(s)
  PROVE  /\ Append(s, k) \in Seq(S) /\ IsInjective(Append(s, k))
         /\ Len(Append(s, k)) = Len(s) + 1
         /\ ToSet(Append(s, k)) = ToSet(s) \cup {k}
<1> DEFINE t == Append(s, k)
<1>1. /\ t \in Seq(S) /\ Len(t) = Len(s) + 1 /\ DOMAIN t = 1..(Len(s) + 1)
      /\ DOMAIN s = 1..Len(s) /\ Len(s) \in Nat
  OBVIOUS
<1>2. /\ \A i \in 1..Len(s) : t[i] = s[i]
      /\ t[Len(s) + 1] = k
  OBVIOUS
<1> HIDE DEF t
<1>3. \A i \in 1..Len(s) : s[i] # k
  BY <1>1 DEF ToSet
<1>4. IsInjective(t)
  BY <1>1, <1>2, <1>3 DEF IsInjective
<1>5. ToSet(t) = ToSet(s) \cup {k}
  BY <1>1, <1>2 DEF ToSet
<1> QED BY <1>1, <1>4, <1>5 DEF t

LEMMA Joined ==
  ASSUME NEW S, NEW a \in Seq(S), NEW b \in Seq(S)
  PROVE  /\ a \o b \in Seq(S) /\ Len(a \o b) = Len(a) + Len(b)
         /\ \A j \in 1..(Len(a) + Len(b)) : (a \o b)[j] = IF j <= Len(a) THEN a[j] ELSE b[j - Len(a)]
OBVIOUS

LEMMA Removed ==
  ASSUME NEW S, NEW s \in Seq(S), IsInjective(s), NEW i \in 1..Len(s)
  PROVE  /\ RemoveAt(s, i) \in Seq(S) /\ IsInjective(RemoveAt(s, i))
         /\ Len(RemoveAt(s, i)) = Len(s) - 1
         /\ ToSet(RemoveAt(s, i)) = ToSet(s) \ {s[i]}
<1> DEFINE t == RemoveAt(s, i)
<1>1. /\ t \in Seq(S) /\ Len(t) = Len(s) - 1
      /\ \A j \in 1..(Len(s) - 1) : t[j] = IF j < i THEN s[j] ELSE s[j + 1]
  <2> DEFINE a == SubSeq(s, 1, i - 1)
             b == SubSeq(s, i + 1, Len(s))
  <2>1. /\ a \in Seq(S) /\ Len(a) = i - 1
        /\ \A j \in 1..(i - 1) : a[j] = s[j]
    OBVIOUS
  <2>2. /\ b \in Seq(S) /\ Len(b) = Len(s) - i
        /\ \A j \in 1..(Len(s) - i) : b[j] = s[j + i]
    OBVIOUS
  <2>3. t = a \o b /\ Len(s) \in Nat
    BY DEF RemoveAt
  <2>0. \A j \in 1..(Len(a) + Len(b)) : (a \o b)[j] = IF j <= Len(a) THEN a[j] ELSE b[j - Len(a)]
    BY <2>1, <2>2, Joined
  <2> HIDE DEF a, b, t
  <2>4. t \in Seq(S) /\ Len(t) = Len(s) - 1
    <3>1. a \o b \in Seq(S) /\ Len(a \o b) = Len(a) + Len(b)
      BY <2>1, <2>2, Joined
    <3>2. (i - 1) + (Len(s) - i) = Len(s) - 1
      BY <2>3
    <3> QED BY <2>1, <2>2, <2>3, <3>1, <3>2
  <2>5. ASSUME NEW j \in 1..(Len(s) - 1)
        PROVE  t[j] = IF j < i THEN s[j] ELSE s[j + 1]
    <3>1. CASE j < i
      BY <2>1, <2>2, <2>3, <3>1
    <3>2. CASE ~(j < i)
      <4>0. /\ j \in 1..(Len(a) + Len(b)) /\ ~(j <= Len(a)) /\ j - Len(a) = j - (i - 1)
            /\ j - (i - 1) \in 1..(Len(s) - i)
        BY <2>1, <2>2, <2>3, <3>2
      <4>1. t[j] = b[j - (i - 1)] /\ j - (i - 1) \in 1..(Len(s) - i)
        BY <2>0, <2>3, <4>0
      <4>2. b[j - (i - 1)] = s[(j - (i - 1)) + i]
        BY <2>2, <4>1
      <4> QED BY <2>3, <3>2, <4>1, <4>2
    <3> QED BY <3>1, <3>2
  <2> QED BY <2>4, <2>5
<1>2. Len(s) \in Nat /\ DOMAIN s = 1..Len(s) /\ DOMAIN t = 1..(Len(s) - 1)
  BY <1>1
<1> HIDE DEF t
<1>3. IsInjective(t)
  <2>1. SUFFICES ASSUME NEW j \in 1..(Len(s) - 1), NEW m \in 1..(Len(s) - 1), t[j] = t[m]
                 PROVE  j = m
    BY <1>2 DEF IsInjective
  <2> DEFINE from(n) == IF n < i THEN n ELSE n + 1
  <2>2. t[j] = s[from(j)] /\ t[m] = s[from(m)] /\ from(j) \in 1..Len(s) /\ from(m) \in 1..Len(s)
    BY <1>1, <1>2
  <2>3. \A p, q \in 1..Len(s) : s[p] = s[q] => p = q
    BY <1>2 DEF IsInjective
  <2> HIDE DEF from
  <2>4. from(j) = from(m)
    BY <2>1, <2>2, <2>3
  <2> QED BY <1>2, <2>4 DEF from
<1>4. ToSet(t) = ToSet(s) \ {s[i]}
  <2>1. ASSUME NEW x \in ToSet(t) PROVE x \in ToSet(s) /\ x # s[i]
    <3>1. PICK j \in 1..(Len(s) - 1) : x = t[j]
      BY <1>2, <2>1 DEF ToSet
    <3>2. CASE j < i
      BY <1>1, <1>2, <3>1, <3>2 DEF ToSet, IsInjective
    <3>3. CASE ~(j < i)
      <4>1. x = s[j + 1] /\ j + 1 \in 1..Len(s) /\ j + 1 # i
        BY <1>1, <1>2, <3>1, <3>3
      <4> QED BY <1>2, <4>1 DEF ToSet, IsInjective
    <3> QED BY <3>2, <3>3
  <2>2. ASSUME NEW x \in ToSet(s), x # s[i] PROVE x \in ToSet(t)
    <3>1. PICK j \in 1..Len(s) : x = s[j] /\ j # i
      BY <1>2, <2>2 DEF ToSet
    <3>2. CASE j < i
      <4>1. t[j] = x /\ j \in DOMAIN t
        BY <1>1, <1>2, <3>1, <3>2
      <4> QED BY <4>1 DEF ToSet
    <3>3. CASE ~(j < i)
      <4>1. t[j - 1] = x /\ j - 1 \in DOMAIN t
        BY <1>1, <1>2, <3>1, <3>3
      <4> QED BY <4>1 DEF ToSet
    <3> QED BY <3>2, <3>3
  <2> QED BY <2>1, <2>2
<1> QED BY <1>1, <1>3, <1>4 DEF t

-----------------------------------------------------------------------------
\* What the operations share.

LEMMA InitInv == Init => IInv
<1> SUFFICES ASSUME Init PROVE IInv
  OBVIOUS
<1> USE QuotaAssumption
<1>1. CacheTypes
  BY DEF Init, CacheTypes, IsInjective
<1>2. StoreTypes
  BY DEF Init, StoreTypes, Entries, Empty
<1>3. ReaderTypes
  BY DEF Init, ReaderTypes, Failed
<1>4. OnlyCached
  BY DEF Init, OnlyCached
<1>5. Requested
  BY DEF Init, Requested, Empty
<1>6. Underway /\ Placed
  BY DEF Init, Underway, Placed
<1>7. Handed /\ Over
  BY DEF Init, Handed, Fine, Over
<1> QED BY <1>1, <1>2, <1>3, <1>4, <1>5, <1>6, <1>7 DEF IInv

\* Reads are told apart from no read, keys from no key.
LEMMA Names == /\ \A r \in Reader : r # None
               /\ \A k \in Key : k # None
               /\ Failed = 0
BY QuotaAssumption DEF Failed

\* Nothing but the place of a read changes that has no request under way.
LEMMA ReturnKeeps ==
  ASSUME IInv, NEW r \in Reader, pc[r] \in {"auth", "resuming"},
         NEW o \in 0..fetches, Fine(o), disposed # "no" => o \in revoked \cup {0},
         Return(r, o), UNCHANGED <<cache, entry, pending, fetches, revoked, stale, disposed>>
  PROVE  IInv'
<1>1. /\ pc' = [pc EXCEPT ![r] = "idle"] /\ key' = [key EXCEPT ![r] = None]
      /\ with' = [with EXCEPT ![r] = None] /\ got' = [got EXCEPT ![r] = 0]
      /\ held' = [held EXCEPT ![r] = IF o = 0 THEN @ ELSE o]
  BY Names DEF Return
<1>2. CacheTypes' /\ StoreTypes'
  BY DEF IInv, CacheTypes, StoreTypes
<1>3. ReaderTypes'
  BY <1>1 DEF IInv, ReaderTypes, StoreTypes
<1>4. OnlyCached' /\ Requested'
  BY DEF IInv, OnlyCached, Requested
<1>5. \A k \in Key : pending[k] # r
  BY DEF IInv, Underway
<1>6. Underway'
  BY <1>1, <1>5 DEF IInv, Underway, ReaderTypes
<1>7. Placed'
  BY <1>1 DEF IInv, Placed, ReaderTypes
<1>8. \A p \in 0..fetches : Fine(p)' <=> Fine(p)
  BY DEF Fine, Present
<1>9. Handed'
  <2>1. ASSUME NEW q \in Reader
        PROVE  Fine(held'[q]) /\ (pc'[q] = "resuming" => Fine(got'[q]))
    <3>1. CASE q = r
      BY <1>1, <3>1 DEF IInv, Handed, ReaderTypes
    <3>2. CASE q # r
      BY <1>1, <3>2 DEF IInv, Handed, ReaderTypes
    <3> QED BY <3>1, <3>2
  <2> QED BY <2>1 DEF Handed, Fine, Present
<1>10. Over'
  <2>1. disposed # "done"
    BY DEF IInv, Over, Active
  <2> QED BY <1>1, <2>1 DEF IInv, Over, ReaderTypes
<1> QED BY <1>2, <1>3, <1>4, <1>6, <1>7, <1>9, <1>10 DEF IInv

\* After an invalidation the cache is empty, all that was handed out is revoked,
\* and the reads under way belong to the past.  A read may begin with it.
LEMMA InvalidateKeeps ==
  ASSUME IInv, Invalidate, fetches' = fetches, ReaderTypes', Over',
         held' = held, got' = got,
         \A r \in Reader : pc'[r] # "idle" =>
           /\ key'[r] \in Key
           /\ (pc'[r] = pc[r] /\ with'[r] = with[r]) \/ pc'[r] = "auth",
         disposed' \in {"no", "asked", "done"}
  PROVE  IInv'
<1>1. /\ revoked' = 1..fetches /\ stale' = Active
      /\ cache' = <<>> /\ entry' = [k \in Key |-> Empty]
      /\ pending' = [k \in Key |-> None]
  BY DEF Invalidate
<1>2. CacheTypes'
  BY <1>1, QuotaAssumption DEF CacheTypes, IsInjective
<1>3. StoreTypes'
  BY <1>1, QuotaAssumption DEF IInv, StoreTypes, Active, Entries, Empty
<1>4. OnlyCached'
  BY <1>1 DEF OnlyCached
<1>5. Requested'
  BY <1>1, QuotaAssumption DEF IInv, StoreTypes, Requested, Empty
<1>6. Underway'
  BY <1>1, Names DEF Underway
<1>7. Placed'
  BY <1>1 DEF IInv, Placed, Active
<1>8. Handed'
  BY <1>1 DEF IInv, ReaderTypes, StoreTypes, Handed, Fine
<1> QED BY <1>2, <1>3, <1>4, <1>5, <1>6, <1>7, <1>8 DEF IInv

\* A request is sent for a key without one; the keys of L make room for it.
LEMMA SendKeeps ==
  ASSUME IInv, NEW r \in Reader, Resolved(r), pending[key[r]] = None,
         NEW c \in Seq(Key), IsInjective(c), Len(c) <= Capacity,
         NEW L \in SUBSET Key, key[r] \notin L, \A k \in L : pending[k] = None,
         ToSet(c) = (ToSet(cache) \ L) \cup {key[r]},
         NEW e \in [Key -> Entries],
         \A k \in Key : e[k] = IF k \in L THEN Empty ELSE entry[k],
         NEW freed, freed = UNION {Sent(entry[k]) : k \in L},
         Send(r, c, e, freed)
  PROVE  IInv'
<1> DEFINE me == key[r]
<1>1. /\ pc[r] = "auth" /\ r \notin stale /\ me \in Key /\ fetches \in Nat
      /\ fetches + 1 \in 0..MaxFetch
  BY QuotaAssumption DEF Resolved, IInv, Placed, Send, StoreTypes
<1>2. /\ fetches' = fetches + 1 /\ revoked' = revoked \cup freed \cup Sent(e[me])
      /\ entry' = [e EXCEPT ![me].request = fetches + 1]
      /\ pending' = [pending EXCEPT ![me] = r]
      /\ pc' = [pc EXCEPT ![r] = "fetching"] /\ got' = [got EXCEPT ![r] = fetches + 1]
      /\ cache' = c /\ UNCHANGED <<stale, key, with, held, disposed>>
  BY DEF Send
<1>3. \A k \in Key : /\ entry'[k].request = IF k = me THEN fetches + 1 ELSE IF k \in L THEN 0 ELSE entry[k].request
                     /\ k # me => entry'[k] = IF k \in L THEN Empty ELSE entry[k]
                     /\ entry'[k] \in Entries
  <2>1. SUFFICES ASSUME NEW k \in Key
                 PROVE  /\ entry'[k].request = IF k = me THEN fetches + 1 ELSE IF k \in L THEN 0 ELSE entry[k].request
                        /\ k # me => entry'[k] = IF k \in L THEN Empty ELSE entry[k]
                        /\ entry'[k] \in Entries
    OBVIOUS
  <2>2. e[k] \in Entries /\ e[k] = IF k \in L THEN Empty ELSE entry[k]
    OBVIOUS
  <2>3. CASE k = me
    <3>1. entry'[k] = [e[k] EXCEPT !.request = fetches + 1]
      BY <1>2, <2>3
    <3> QED BY <1>1, <2>2, <2>3, <3>1 DEF Entries
  <2>4. CASE k # me
    <3>1. entry'[k] = e[k]
      BY <1>2, <2>4
    <3>2. Empty.request = 0
      BY DEF Empty
    <3> QED BY <2>2, <2>4, <3>1, <3>2
  <2> QED BY <2>3, <2>4
<1>4. \A n : n \in freed \cup Sent(e[me]) <=> n # 0 /\ \E k \in L \cup {me} : n = entry[k].request
  BY <1>1 DEF Sent
<1>5. \A n \in revoked' : n \in revoked \/ (n # 0 /\ \E k \in L \cup {me} : n = entry[k].request)
  BY <1>2, <1>4
<1>6. CacheTypes'
  BY <1>2 DEF CacheTypes
<1>7. StoreTypes'
  <2>1. revoked' \subseteq 1..(fetches + 1)
    <3>1. SUFFICES ASSUME NEW n \in revoked' PROVE n \in 1..(fetches + 1)
      OBVIOUS
    <3>2. CASE n \in revoked
      BY <1>1, <3>2 DEF IInv, StoreTypes
    <3>3. CASE n # 0 /\ \E k \in L \cup {me} : n = entry[k].request
      <4>1. \A k \in Key : entry[k].request \in 0..fetches
        BY DEF IInv, Requested
      <4> QED BY <1>1, <3>3, <4>1
    <3> QED BY <1>5, <3>2, <3>3
  <2>2. entry' \in [Key -> Entries]
    BY <1>1, <1>2, <1>3
  <2>3. pending' \in [Key -> Reader \cup {None}] /\ stale' \subseteq Reader /\ disposed' \in {"no", "asked", "done"}
    BY <1>2 DEF IInv, StoreTypes
  <2> QED BY <1>1, <1>2, <2>1, <2>2, <2>3 DEF StoreTypes
<1>8. ReaderTypes'
  BY <1>1, <1>2 DEF IInv, ReaderTypes
<1>9. OnlyCached'
  <2>1. SUFFICES ASSUME NEW k \in Key, k \notin ToSet(c)
                 PROVE  entry'[k] = Empty /\ pending'[k] = None
    BY <1>2 DEF OnlyCached
  <2>2. k # me /\ (k \in L \/ k \notin ToSet(cache))
    <3>1. k \notin (ToSet(cache) \ L) \cup {me}
      BY <2>1
    <3> QED BY <3>1
  <2> QED BY <1>1, <1>2, <1>3, <2>2 DEF IInv, OnlyCached, StoreTypes
<1>10. Requested'
  <2>1. ASSUME NEW k \in Key PROVE entry'[k].request \in 0..(fetches + 1) /\ entry'[k].request \notin revoked'
    <3>1. entry[k].request \in 0..fetches /\ entry[k].request \notin revoked /\ fetches + 1 \notin revoked /\ 0 \notin revoked
      BY <1>1 DEF IInv, Requested, StoreTypes
    <3>2. \A j \in L \cup {me} : entry[j].request # fetches + 1
      BY <1>1 DEF IInv, Requested
    <3>3. k \notin L \cup {me} => \A j \in L \cup {me} : entry[j].request = entry[k].request => entry[k].request = 0
      BY <1>1 DEF IInv, Requested
    <3> QED BY <1>1, <1>3, <1>5, <3>1, <3>2, <3>3
  <2>2. ASSUME NEW k \in Key, NEW j \in Key, entry'[k].request = entry'[j].request
        PROVE  k = j \/ entry'[k].request = 0
    <3>1. entry[k].request \in 0..fetches /\ entry[j].request \in 0..fetches
      BY DEF IInv, Requested
    <3>2. entry[k].request = entry[j].request => k = j \/ entry[k].request = 0
      BY DEF IInv, Requested
    <3>3. entry'[k].request = IF k = me THEN fetches + 1 ELSE IF k \in L THEN 0 ELSE entry[k].request
      BY <1>3
    <3>4. entry'[j].request = IF j = me THEN fetches + 1 ELSE IF j \in L THEN 0 ELSE entry[j].request
      BY <1>3
    <3> DEFINE nk == entry'[k].request
               nj == entry'[j].request
               ok == entry[k].request
               oj == entry[j].request
    <3>a. /\ k = me => nk = fetches + 1
          /\ k # me => nk = ok \/ nk = 0
          /\ j = me => nj = fetches + 1
          /\ j # me => nj = oj \/ nj = 0
          /\ ok \in 0..fetches /\ oj \in 0..fetches /\ nk = nj /\ fetches \in Nat
      BY <1>1, <2>2, <3>1, <3>3, <3>4
    <3> HIDE DEF nk, nj, ok, oj, me
    <3>5. CASE k = me /\ j # me
      BY <3>a, <3>5
    <3>6. CASE k # me /\ j = me
      BY <3>a, <3>6
    <3> USE DEF nk, nj, ok, oj
    <3>7. CASE k # me /\ j # me
      <4>1. CASE k \in L
        BY <3>3, <3>7, <4>1
      <4>2. CASE j \in L
        BY <2>2, <3>4, <3>7, <4>2
      <4>3. CASE k \notin L /\ j \notin L
        BY <2>2, <3>2, <3>3, <3>4, <3>7, <4>3
      <4> QED BY <4>1, <4>2, <4>3
    <3> QED BY <3>5, <3>6, <3>7
  <2> QED BY <1>2, <2>1, <2>2 DEF Requested
<1>11. Underway'
  <2>1. SUFFICES ASSUME NEW k \in Key, NEW q \in Reader, pending'[k] = q
                 PROVE  /\ pc'[q] = "fetching" /\ key[q] = k /\ q \notin stale
                        /\ got'[q] = entry'[k].request /\ got'[q] # 0
    BY <1>2 DEF Underway
  <2>2. CASE k = me
    <3>1. q = r
      BY <1>1, <1>2, <2>1, <2>2 DEF IInv, StoreTypes
    <3> QED BY <1>1, <1>2, <1>3, <2>2, <3>1 DEF IInv, ReaderTypes
  <2>3. CASE k # me
    <3>1. pending[k] = q
      BY <1>1, <1>2, <2>1, <2>3 DEF IInv, StoreTypes
    <3>2. pc[q] = "fetching" /\ key[q] = k /\ q \notin stale /\ got[q] = entry[k].request /\ got[q] # 0
      BY <3>1 DEF IInv, Underway
    <3>3. k \notin L /\ q # r
      BY <1>1, <3>1, <3>2, Names
    <3> QED BY <1>1, <1>2, <1>3, <2>3, <3>2, <3>3 DEF IInv, ReaderTypes
  <2> QED BY <2>2, <2>3
<1>12. Placed'
  <2>1. SUFFICES ASSUME NEW q \in Reader
                 PROVE  /\ pc'[q] # "idle" => key[q] \in Key
                        /\ pc'[q] = "fetching" /\ q \notin stale => pending'[key[q]] = q
                        /\ pc'[q] = "joined" => with[q] # None
                        /\ pc'[q] = "joined" /\ q \notin stale => pending'[key[q]] = with[q]
    BY <1>2 DEF Placed
  <2>2. CASE q = r
    BY <1>1, <1>2, <2>2 DEF IInv, ReaderTypes, StoreTypes
  <2>3. CASE q # r
    <3>1. pc'[q] = pc[q]
      BY <1>2, <2>3 DEF IInv, ReaderTypes
    <3>2. /\ pc[q] # "idle" => key[q] \in Key
          /\ pc[q] = "fetching" /\ q \notin stale => pending[key[q]] = q
          /\ pc[q] = "joined" => with[q] # None
          /\ pc[q] = "joined" /\ q \notin stale => pending[key[q]] = with[q]
      BY DEF IInv, Placed
    <3>3. pc[q] = "fetching" /\ q \notin stale => key[q] # me
      BY <3>2, Names
    <3>4. pc[q] = "joined" /\ q \notin stale => key[q] # me
      BY <3>2
    <3> QED BY <1>2, <3>1, <3>2, <3>3, <3>4 DEF IInv, StoreTypes
  <2> QED BY <2>2, <2>3
<1>13. \A o \in 0..fetches : Fine(o) => Fine(o)'
  <2>1. SUFFICES ASSUME NEW o \in 0..fetches, Fine(o), o \notin revoked' \cup {0}
                 PROVE  Present(o)'
    BY DEF Fine
  <2>2. PICK k \in ToSet(cache) : entry[k].request = o /\ entry[k].kept = "snapshot" /\ pending[k] = None
    BY <1>2, <2>1 DEF Fine, Present
  <2>3. k \notin L \cup {me}
    BY <1>2, <1>4, <2>1, <2>2
  <2>4. k \in Key
    BY <2>2 DEF ToSet, IInv, CacheTypes
  <2>5. k \in ToSet(cache') /\ entry'[k] = entry[k] /\ pending'[k] = None
    BY <1>1, <1>2, <1>3, <2>2, <2>3, <2>4 DEF IInv, StoreTypes
  <2> QED BY <2>2, <2>5 DEF Present
<1>14. Handed'
  <2>1. ASSUME NEW q \in Reader
        PROVE  Fine(held[q])' /\ (pc'[q] = "resuming" => Fine(got[q])')
    <3>1. held[q] \in 0..fetches /\ Fine(held[q]) /\ held'[q] = held[q]
      BY <1>2 DEF IInv, Handed, ReaderTypes
    <3>2. pc'[q] = "resuming" => pc[q] = "resuming" /\ got'[q] = got[q] /\ got[q] \in 0..fetches /\ Fine(got[q])
      BY <1>1, <1>2 DEF IInv, Handed, ReaderTypes
    <3>3. Fine(held[q])'
      BY <1>13, <3>1 DEF Fine, Present
    <3>4. pc'[q] = "resuming" => Fine(got[q])'
      BY <1>13, <3>2 DEF Fine, Present
    <3> QED BY <3>3, <3>4
  <2> QED BY <2>1 DEF Handed
<1>15. Over'
  <2>1. disposed = "no"
    BY <1>1 DEF IInv, Over
  <2> QED BY <1>2, <2>1 DEF Over
<1> QED BY <1>6, <1>7, <1>8, <1>9, <1>10, <1>11, <1>12, <1>14, <1>15 DEF IInv

\* A request ends: it is under way no longer, its reader returns, and those that
\* joined it have what it yielded.
LEMMA WakeKeeps ==
  ASSUME IInv, NEW r \in Reader, pc[r] = "fetching", NEW o \in 0..fetches, Wake(r, o), Fine(o)',
         disposed # "no" => o = 0,
         UNCHANGED <<cache, fetches, revoked, stale, disposed>>,
         StoreTypes', OnlyCached',
         \A k \in Key : /\ pending'[k] = IF pending[k] = r THEN None ELSE pending[k]
                        /\ entry'[k].request = entry[k].request,
         \A p \in 0..fetches : Fine(p) => Fine(p)'
  PROVE  IInv'
<1>1. \A q \in Reader :
        /\ pc'[q] = IF q = r THEN "idle"
                    ELSE IF pc[q] = "joined" /\ with[q] = r THEN "resuming" ELSE pc[q]
        /\ got'[q] = IF q = r THEN 0 ELSE IF pc[q] = "joined" /\ with[q] = r THEN o ELSE got[q]
        /\ held'[q] = IF q = r /\ o # 0 THEN o ELSE held[q]
        /\ key'[q] = IF q = r THEN None ELSE key[q]
  BY Names DEF Wake, IInv, ReaderTypes
<1>2. with' = with
  BY DEF Wake
<1>3. CacheTypes'
  BY DEF IInv, CacheTypes
<1>4. ReaderTypes'
  <2> DEFINE joined == {q \in Reader : pc[q] = "joined" /\ with[q] = r}
  <2>1. pc' = [q \in Reader |-> IF q = r THEN "idle" ELSE IF q \in joined THEN "resuming" ELSE pc[q]]
    BY DEF Wake
  <2>2. got' = [q \in Reader |-> IF q = r THEN 0 ELSE IF q \in joined THEN o ELSE got[q]]
    BY Names DEF Wake
  <2>3. 0 \in 0..fetches
    BY QuotaAssumption DEF IInv, StoreTypes
  <2>4. pc' \in [Reader -> {"idle", "auth", "joined", "fetching", "resuming"}]
    BY <2>1 DEF IInv, ReaderTypes
  <2>5. got' \in [Reader -> 0..fetches]
    BY <2>2, <2>3 DEF IInv, ReaderTypes
  <2>6. key' \in [Reader -> Key \cup {None}] /\ held' \in [Reader -> 0..fetches]
    BY DEF Wake, IInv, ReaderTypes
  <2> QED BY <1>2, <2>4, <2>5, <2>6 DEF IInv, ReaderTypes
<1>5. Requested'
  BY DEF IInv, Requested
<1>6. Underway'
  <2>1. SUFFICES ASSUME NEW k \in Key, NEW q \in Reader, pending'[k] = q
                 PROVE  /\ pc'[q] = "fetching" /\ key'[q] = k /\ q \notin stale
                        /\ got'[q] = entry'[k].request /\ got'[q] # 0
    BY DEF Underway
  <2>2. pending[k] = q /\ q # r
    BY <2>1, Names
  <2> QED BY <1>1, <2>2 DEF IInv, Underway
<1>7. Placed'
  <2>1. SUFFICES ASSUME NEW q \in Reader
                 PROVE  /\ pc'[q] # "idle" => key'[q] \in Key
                        /\ pc'[q] = "fetching" /\ q \notin stale => pending'[key'[q]] = q
                        /\ pc'[q] = "joined" => with[q] # None
                        /\ pc'[q] = "joined" /\ q \notin stale => pending'[key'[q]] = with[q]
    BY <1>2 DEF Placed
  <2>2. /\ pc[q] # "idle" => key[q] \in Key
        /\ pc[q] = "fetching" /\ q \notin stale => pending[key[q]] = q
        /\ pc[q] = "joined" => with[q] # None
        /\ pc[q] = "joined" /\ q \notin stale => pending[key[q]] = with[q]
    BY DEF IInv, Placed
  <2>3. CASE q = r
    BY <1>1, <2>3
  <2>4. CASE q # r
    BY <1>1, <2>2, <2>4
  <2> QED BY <2>3, <2>4
<1>8. Handed'
  <2>1. ASSUME NEW q \in Reader
        PROVE  Fine(held[q])' /\ (pc'[q] = "resuming" => Fine(got[q])')
    <3>1. /\ held[q] \in 0..fetches /\ Fine(held[q])
          /\ pc[q] = "resuming" => got[q] \in 0..fetches /\ Fine(got[q])
      BY DEF IInv, Handed, ReaderTypes
    <3>2. held'[q] \in {o, held[q]}
      BY <1>1
    <3>3. pc'[q] = "resuming" => got'[q] = o \/ (pc[q] = "resuming" /\ got'[q] = got[q])
      BY <1>1
    <3>4. Fine(held[q])'
      BY <3>1, <3>2 DEF Fine, Present
    <3>5. pc'[q] = "resuming" => Fine(got[q])'
      BY <3>1, <3>3 DEF Fine, Present
    <3> QED BY <3>4, <3>5
  <2> QED BY <2>1 DEF Handed
<1>9. Over'
  <2>1. disposed # "done"
    BY DEF IInv, Over, Active
  <2>2. ASSUME disposed # "no", NEW q \in Reader
        PROVE  held'[q] \in revoked \cup {0} /\ (pc'[q] # "idle" => q \in stale)
    BY <1>1, <2>2 DEF IInv, Over
  <2> QED BY <2>1, <2>2 DEF Over
<1> QED BY <1>3, <1>4, <1>5, <1>6, <1>7, <1>8, <1>9 DEF IInv

-----------------------------------------------------------------------------
\* One lemma for each operation.

LEMMA ChangeStep ==
  ASSUME IInv, Change PROVE IInv'
<1>1. Invalidate /\ fetches' = fetches /\ UNCHANGED read /\ disposed' = "no"
  BY DEF Change
<1>2. ReaderTypes'
  BY <1>1 DEF read, IInv, ReaderTypes
<1>3. Over'
  BY <1>1 DEF Over
<1>4. \A r \in Reader : pc'[r] # "idle" => key'[r] \in Key /\ pc'[r] = pc[r] /\ with'[r] = with[r]
  BY <1>1 DEF read, IInv, Placed
<1> QED BY <1>1, <1>2, <1>3, <1>4, InvalidateKeeps DEF read

LEMMA ReadStep ==
  ASSUME IInv, NEW r \in Reader, NEW k \in Key, Read(r, k) PROVE IInv'
<1>1. /\ disposed = "no" /\ pc[r] = "idle"
      /\ pc' = [pc EXCEPT ![r] = "auth"] /\ key' = [key EXCEPT ![r] = k]
      /\ UNCHANGED <<fetches, with, got, held, disposed>>
  BY DEF Read
<1>2. ReaderTypes'
  BY <1>1 DEF IInv, ReaderTypes
<1>3. Over'
  BY <1>1 DEF Over
<1>4. CASE Invalidate
  <2>1. \A q \in Reader : pc'[q] # "idle" =>
          /\ key'[q] \in Key
          /\ (pc'[q] = pc[q] /\ with'[q] = with[q]) \/ pc'[q] = "auth"
    BY <1>1 DEF IInv, Placed, ReaderTypes
  <2>2. /\ fetches' = fetches /\ held' = held /\ got' = got
        /\ disposed' \in {"no", "asked", "done"}
    BY <1>1
  <2>3. Invalidate
    BY <1>4
  <2> QED BY <1>2, <1>3, <2>1, <2>2, <2>3, InvalidateKeeps
<1>5. CASE stale' = stale \ {r} /\ UNCHANGED <<cache, entry, pending, revoked>>
  <2>1. CacheTypes' /\ StoreTypes' /\ OnlyCached' /\ Requested'
    BY <1>1, <1>5 DEF IInv, CacheTypes, StoreTypes, OnlyCached, Requested
  <2>2. Underway'
    BY <1>1, <1>5 DEF IInv, Underway, ReaderTypes
  <2>3. Placed'
    <3>1. SUFFICES ASSUME NEW q \in Reader
                   PROVE  /\ pc'[q] # "idle" => key'[q] \in Key
                          /\ pc'[q] = "fetching" /\ q \notin stale' => pending'[key'[q]] = q
                          /\ pc'[q] = "joined" => with'[q] # None
                          /\ pc'[q] = "joined" /\ q \notin stale' => pending'[key'[q]] = with'[q]
      BY DEF Placed
    <3>2. CASE q = r
      BY <1>1, <3>2 DEF IInv, ReaderTypes
    <3>3. CASE q # r
      BY <1>1, <1>5, <3>3 DEF IInv, ReaderTypes, Placed
    <3> QED BY <3>2, <3>3
  <2>4. Handed'
    <3>1. \A q \in Reader : held'[q] = held[q] /\ got'[q] = got[q] /\ (pc'[q] = "resuming" => pc[q] = "resuming")
      BY <1>1 DEF IInv, ReaderTypes
    <3> QED BY <1>5, <3>1 DEF IInv, Handed, Fine, Present
  <2> QED BY <1>2, <1>3, <2>1, <2>2, <2>3, <2>4 DEF IInv
<1> QED BY <1>4, <1>5 DEF Read

LEMMA DisposeStep ==
  ASSUME IInv, Dispose PROVE IInv'
<1>1. Invalidate /\ fetches' = fetches /\ UNCHANGED read /\ disposed' = "asked"
  BY DEF Dispose
<1>2. ReaderTypes'
  BY <1>1 DEF read, IInv, ReaderTypes
<1>3. Over'
  <2>1. \A r \in Reader : held'[r] \in 0..fetches /\ fetches \in Nat
    BY <1>1, QuotaAssumption DEF read, IInv, ReaderTypes, StoreTypes
  <2>2. \A r \in Reader : held'[r] \in revoked' \cup {0}
    BY <1>1, <2>1 DEF Invalidate
  <2>3. \A r \in Reader : pc'[r] # "idle" => r \in stale'
    BY <1>1 DEF read, Invalidate, Active
  <2> QED BY <1>1, <2>2, <2>3 DEF Over
<1>4. \A r \in Reader : pc'[r] # "idle" => key'[r] \in Key /\ pc'[r] = pc[r] /\ with'[r] = with[r]
  BY <1>1 DEF read, IInv, Placed
<1> QED BY <1>1, <1>2, <1>3, <1>4, InvalidateKeeps DEF read

LEMMA DisposedStep ==
  ASSUME IInv, Disposed PROVE IInv'
<1>1. /\ disposed = "asked" /\ Active = {} /\ disposed' = "done"
      /\ UNCHANGED <<cache, entry, pending, fetches, revoked, stale, pc, key, with, got, held>>
  BY DEF Disposed, read
<1>2. CacheTypes' /\ StoreTypes' /\ ReaderTypes'
  BY <1>1 DEF IInv, CacheTypes, StoreTypes, ReaderTypes
<1>3. OnlyCached' /\ Requested' /\ Underway' /\ Placed'
  BY <1>1 DEF IInv, OnlyCached, Requested, Underway, Placed
<1>4. Handed'
  BY <1>1 DEF IInv, Handed, Fine, Present
<1>5. Over'
  BY <1>1 DEF IInv, Over, Active
<1> QED BY <1>2, <1>3, <1>4, <1>5 DEF IInv

LEMMA AuthFailsStep ==
  ASSUME IInv, NEW r \in Reader, AuthFails(r) PROVE IInv'
<1>1. 0 \in 0..fetches
  BY QuotaAssumption DEF IInv, StoreTypes
<1> QED BY <1>1, ReturnKeeps, Names DEF AuthFails, Fine

\* A read of the present configuration: the plugin has not been disposed.
LEMMA StillOpen ==
  ASSUME IInv, NEW r \in Reader, pc[r] # "idle", r \notin stale PROVE disposed = "no"
BY DEF IInv, Over

LEMMA ReuseStep ==
  ASSUME IInv, NEW r \in Reader, Reuse(r) PROVE IInv'
<1> DEFINE k == key[r]
           o == IF entry[k].kept = "snapshot" THEN entry[k].request ELSE 0
<1>1. /\ pc[r] = "auth" /\ r \notin stale /\ pending[k] = None /\ ~entry[k].due /\ Return(r, o)
      /\ UNCHANGED <<cache, entry, pending, fetches, revoked, stale, disposed>>
  BY Names DEF Reuse, Resolved
<1>2. k \in Key
  BY <1>1 DEF IInv, Placed
<1>3. k \in ToSet(cache)
  BY <1>1, <1>2 DEF IInv, OnlyCached, Empty
<1>4. o \in 0..fetches
  BY <1>2, QuotaAssumption DEF IInv, Requested, StoreTypes
<1>5. Fine(o)
  BY <1>1, <1>3 DEF Fine, Present
<1>6. disposed = "no"
  BY <1>1, StillOpen
<1> HIDE DEF o, k
<1> QED BY <1>1, <1>4, <1>5, <1>6, ReturnKeeps

LEMMA NoRoomStep ==
  ASSUME IInv, NEW r \in Reader, NoRoom(r) PROVE IInv'
<1>1. 0 \in 0..fetches
  BY QuotaAssumption DEF IInv, StoreTypes
<1> QED BY <1>1, ReturnKeeps, Names DEF NoRoom, Resolved, Fine

LEMMA ResumeStep ==
  ASSUME IInv, NEW r \in Reader, ResumeRead(r) PROVE IInv'
<1> DEFINE o == IF r \in stale THEN 0 ELSE got[r]
<1>1. /\ pc[r] = "resuming" /\ Return(r, o)
      /\ UNCHANGED <<cache, entry, pending, fetches, revoked, stale, disposed>>
  BY Names DEF ResumeRead
<1>2. o \in 0..fetches
  BY QuotaAssumption DEF IInv, StoreTypes, ReaderTypes
<1>3. Fine(o)
  BY <1>1 DEF IInv, Handed, Fine
<1>4. disposed # "no" => o = 0
  BY <1>1, StillOpen
<1> HIDE DEF o
<1> QED BY <1>1, <1>2, <1>3, <1>4, ReturnKeeps

LEMMA JoinStep ==
  ASSUME IInv, NEW r \in Reader, Join(r) PROVE IInv'
<1>1. /\ pc[r] = "auth" /\ r \notin stale /\ pending[key[r]] # None
      /\ pc' = [pc EXCEPT ![r] = "joined"] /\ with' = [with EXCEPT ![r] = pending[key[r]]]
      /\ UNCHANGED <<cache, entry, pending, fetches, revoked, stale, key, got, held, disposed>>
  BY DEF Join, Resolved
<1>2. CacheTypes' /\ StoreTypes' /\ OnlyCached' /\ Requested'
  BY <1>1 DEF IInv, CacheTypes, StoreTypes, OnlyCached, Requested
<1>3. ReaderTypes'
  <2>1. key[r] \in Key
    BY <1>1 DEF IInv, Placed
  <2>2. pending[key[r]] \in Reader \cup {None}
    BY <2>1 DEF IInv, StoreTypes
  <2> QED BY <1>1, <2>2 DEF IInv, ReaderTypes
<1>4. Underway'
  BY <1>1 DEF IInv, Underway, ReaderTypes
<1>5. Placed'
  BY <1>1 DEF IInv, Placed, ReaderTypes
<1>6. Handed'
  <2>1. \A q \in Reader : pc'[q] = "resuming" => pc[q] = "resuming"
    BY <1>1 DEF IInv, ReaderTypes
  <2> QED BY <1>1, <2>1 DEF IInv, Handed, Fine, Present
<1>7. Over'
  <2>1. disposed = "no"
    BY <1>1, StillOpen
  <2> QED BY <1>1, <2>1 DEF Over
<1> QED BY <1>2, <1>3, <1>4, <1>5, <1>6, <1>7 DEF IInv

LEMMA ExpireStep ==
  ASSUME IInv, NEW k \in Key, ExpireEntry(k) PROVE IInv'
<1>1. /\ Contains(cache, k) /\ entry' = [entry EXCEPT ![k].due = TRUE]
      /\ UNCHANGED <<cache, pending, fetches, revoked, stale, pc, key, with, got, held, disposed>>
  BY DEF ExpireEntry, read
<1>2. k \in ToSet(cache)
  BY <1>1 DEF Contains, ToSet
<1>3. \A j \in Key : /\ entry'[j] \in Entries
                     /\ entry'[j].request = entry[j].request /\ entry'[j].kept = entry[j].kept
                     /\ j # k => entry'[j] = entry[j]
  BY <1>1 DEF IInv, StoreTypes, Entries
<1>4. CacheTypes' /\ ReaderTypes'
  BY <1>1 DEF IInv, CacheTypes, ReaderTypes
<1>5. StoreTypes'
  <2>1. entry' \in [Key -> Entries]
    BY <1>1, <1>3 DEF IInv, StoreTypes
  <2> QED BY <1>1, <2>1 DEF IInv, StoreTypes
<1>6. OnlyCached'
  BY <1>1, <1>2, <1>3 DEF IInv, OnlyCached
<1>7. Requested' /\ Underway' /\ Placed'
  BY <1>1, <1>3 DEF IInv, Requested, Underway, Placed
<1>8. Handed'
  <2>1. \A p : Fine(p)' <=> Fine(p)
    <3>1. ToSet(cache) \subseteq Key
      BY DEF ToSet, IInv, CacheTypes
    <3> QED BY <1>1, <1>3, <3>1 DEF Fine, Present
  <2> QED BY <1>1, <2>1 DEF IInv, Handed, Fine, Present
<1>9. Over'
  BY <1>1 DEF IInv, Over, Active
<1> QED BY <1>4, <1>5, <1>6, <1>7, <1>8, <1>9 DEF IInv

LEMMA RefreshStep ==
  ASSUME IInv, NEW r \in Reader, Refresh(r) PROVE IInv'
<1>1. /\ Resolved(r) /\ pending[key[r]] = None /\ Contains(cache, key[r])
      /\ Send(r, cache, entry, {})
  BY DEF Refresh
<1>2. key[r] \in ToSet(cache)
  BY <1>1 DEF Contains, ToSet
<1>3. /\ cache \in Seq(Key) /\ IsInjective(cache) /\ Len(cache) <= Capacity
      /\ entry \in [Key -> Entries]
  BY DEF IInv, CacheTypes, StoreTypes
<1>4. {} = UNION {Sent(entry[k]) : k \in {}} /\ ToSet(cache) = (ToSet(cache) \ {}) \cup {key[r]}
  BY <1>2
<1> QED BY <1>1, <1>3, <1>4, SendKeeps

LEMMA EnterStep ==
  ASSUME IInv, NEW r \in Reader, Enter(r) PROVE IInv'
<1>1. Resolved(r) /\ ~Contains(cache, key[r])
  BY DEF Enter
<1>2. key[r] \in Key
  BY <1>1 DEF Resolved, IInv, Placed
<1>3. key[r] \notin ToSet(cache)
  BY <1>1 DEF Contains, ToSet
<1>4. pending[key[r]] = None
  BY <1>2, <1>3 DEF IInv, OnlyCached
<1>5. /\ cache \in Seq(Key) /\ IsInjective(cache) /\ Len(cache) <= Capacity
      /\ entry \in [Key -> Entries] /\ Len(cache) \in Nat
  BY DEF IInv, CacheTypes, StoreTypes
<1>6. CASE Len(cache) < Capacity /\ Send(r, Append(cache, key[r]), entry, {})
  <2>1. /\ Append(cache, key[r]) \in Seq(Key) /\ IsInjective(Append(cache, key[r]))
        /\ Len(Append(cache, key[r])) = Len(cache) + 1
        /\ ToSet(Append(cache, key[r])) = ToSet(cache) \cup {key[r]}
    BY <1>2, <1>3, <1>5, Appended
  <2>2. Len(Append(cache, key[r])) <= Capacity
    BY <1>5, <1>6, <2>1, QuotaAssumption
  <2>3. {} = UNION {Sent(entry[k]) : k \in {}}
        /\ ToSet(Append(cache, key[r])) = (ToSet(cache) \ {}) \cup {key[r]}
    BY <2>1
  <2> QED BY <1>1, <1>4, <1>5, <1>6, <2>1, <2>2, <2>3, SendKeeps
<1>7. ASSUME NEW i \in Victims,
             Send(r, Append(RemoveAt(cache, i), key[r]),
                  [entry EXCEPT ![cache[i]] = Empty], Sent(entry[cache[i]]))
      PROVE  IInv'
  <2> DEFINE victim == cache[i]
             left == RemoveAt(cache, i)
             c == Append(left, key[r])
             e == [entry EXCEPT ![victim] = Empty]
  <2>1. i \in 1..Len(cache) /\ pending[victim] = None
    BY DEF Victims, Idle
  <2>2. victim \in ToSet(cache) /\ victim \in Key
    BY <1>5, <2>1 DEF ToSet
  <2>3. /\ left \in Seq(Key) /\ IsInjective(left) /\ Len(left) = Len(cache) - 1
        /\ ToSet(left) = ToSet(cache) \ {victim}
    BY <1>5, <2>1, Removed
  <2> HIDE DEF left
  <2>4. /\ c \in Seq(Key) /\ IsInjective(c) /\ Len(c) = Len(left) + 1
        /\ ToSet(c) = ToSet(left) \cup {key[r]}
    BY <1>2, <1>3, <2>3, Appended
  <2>5. Len(c) <= Capacity
    BY <1>5, <2>3, <2>4, QuotaAssumption
  <2>6. e \in [Key -> Entries] /\ \A k \in Key : e[k] = IF k \in {victim} THEN Empty ELSE entry[k]
    BY <1>5, <2>2, QuotaAssumption DEF Entries, Empty
  <2>7. Sent(entry[victim]) = UNION {Sent(entry[k]) : k \in {victim}}
    OBVIOUS
  <2>8. key[r] \notin {victim} /\ \A k \in {victim} : pending[k] = None
    BY <1>3, <2>1, <2>2
  <2>9. {victim} \in SUBSET Key /\ ToSet(c) = (ToSet(cache) \ {victim}) \cup {key[r]}
    BY <2>2, <2>3, <2>4
  <2>10. Send(r, c, e, Sent(entry[victim]))
    BY <1>7 DEF left
  <2> HIDE DEF c, e, victim
  <2> QED BY <1>1, <1>4, <2>4, <2>5, <2>6, <2>7, <2>8, <2>9, <2>10, SendKeeps
<1> QED BY <1>6, <1>7 DEF Enter

LEMMA AnswerStep ==
  ASSUME IInv, NEW r \in Reader, Answer(r) PROVE IInv'
<1> DEFINE k == key[r]
<1>1. /\ pc[r] = "fetching" /\ r \notin stale
      /\ pending' = [pending EXCEPT ![k] = None]
      /\ UNCHANGED <<cache, fetches, revoked, stale, disposed>>
  BY DEF Answer
<1>2. k \in Key /\ pending[k] = r
  BY <1>1 DEF IInv, Placed
<1>3. got[r] = entry[k].request /\ k \in ToSet(cache)
  BY <1>2, Names DEF IInv, Underway, OnlyCached
<1>4. PICK what \in {"snapshot", "error", "rejection"}, o \in {got[r], 0} :
        entry' = Keep(k, what) /\ Wake(r, o) /\ (what = "snapshot" \/ o = 0)
  BY Names DEF Answer
<1>5. \A j \in Key : /\ entry'[j] \in Entries /\ entry'[j].request = entry[j].request
                     /\ j # k => entry'[j] = entry[j]
                     /\ j = k => entry'[j].kept = what
  <2>1. entry' = [entry EXCEPT ![k] = [entry[k] EXCEPT !.kept = what, !.due = FALSE]]
    BY <1>4 DEF Keep
  <2> QED BY <1>2, <2>1 DEF IInv, StoreTypes, Entries
<1>6. \A j \in Key : /\ pending'[j] = IF pending[j] = r THEN None ELSE pending[j]
                     /\ pending'[j] = None => j = k \/ pending[j] = None
                     /\ j # k => pending[j] # r
  <2>1. \A j \in Key : j # k => pending[j] # r
    BY DEF IInv, Underway
  <2> QED BY <1>1, <1>2, <2>1 DEF IInv, StoreTypes
<1>7. StoreTypes'
  <2>1. entry' \in [Key -> Entries]
    <3>1. entry' = [entry EXCEPT ![k] = [entry[k] EXCEPT !.kept = what, !.due = FALSE]]
      BY <1>4 DEF Keep
    <3>2. entry'[k] \in Entries
      BY <1>2, <1>5
    <3>3. entry'[k] = [entry[k] EXCEPT !.kept = what, !.due = FALSE]
      BY <1>2, <3>1 DEF IInv, StoreTypes
    <3> QED BY <1>2, <3>1, <3>2, <3>3 DEF IInv, StoreTypes
  <2> QED BY <1>1, <2>1 DEF IInv, StoreTypes
<1>8. OnlyCached'
  BY <1>1, <1>3, <1>5, <1>6 DEF IInv, OnlyCached
<1>9. \A p \in 0..fetches : Fine(p) => Fine(p)'
  <2>1. SUFFICES ASSUME NEW p \in 0..fetches, NEW j \in ToSet(cache),
                        entry[j].request = p, entry[j].kept = "snapshot", pending[j] = None
                 PROVE  Present(p)'
    BY <1>1 DEF Fine, Present
  <2>2. j \in Key /\ j # k
    BY <1>2, <2>1, Names DEF ToSet, IInv, CacheTypes
  <2> QED BY <1>1, <1>5, <1>6, <2>1, <2>2 DEF Present, IInv, StoreTypes
<1>10. o \in 0..fetches /\ Fine(o)'
  <2>1. CASE o = 0
    BY <2>1, QuotaAssumption DEF Fine, IInv, StoreTypes
  <2>2. CASE o # 0
    <3>1. o = got[r] /\ what = "snapshot" /\ pending'[k] = None
      BY <1>2, <1>4, <1>6, <2>2
    <3> QED BY <1>1, <1>2, <1>3, <1>5, <3>1 DEF Fine, Present, IInv, ReaderTypes
  <2> QED BY <2>1, <2>2
<1>11. disposed = "no"
  BY <1>1, StillOpen
<1>12. \A j \in Key : /\ pending'[j] = IF pending[j] = r THEN None ELSE pending[j]
                      /\ entry'[j].request = entry[j].request
  BY <1>5, <1>6
<1>13. o \in 0..fetches /\ Fine(o)' /\ Wake(r, o) /\ pc[r] = "fetching" /\ (disposed # "no" => o = 0)
  BY <1>1, <1>4, <1>10, <1>11
<1>14. UNCHANGED <<cache, fetches, revoked, stale, disposed>>
  BY <1>1
<1> HIDE DEF k
<1> QED BY <1>7, <1>8, <1>9, <1>12, <1>13, <1>14, WakeKeeps

LEMMA AnswerLateStep ==
  ASSUME IInv, NEW r \in Reader, AnswerLate(r) PROVE IInv'
<1>1. /\ pc[r] = "fetching" /\ r \in stale /\ Wake(r, 0)
      /\ UNCHANGED <<cache, entry, pending, fetches, revoked, stale, disposed>>
  BY Names DEF AnswerLate
<1>2. \A k \in Key : pending[k] # r
  BY <1>1 DEF IInv, Underway
<1>3. StoreTypes' /\ OnlyCached'
  BY <1>1 DEF IInv, StoreTypes, OnlyCached
<1>4. \A p \in 0..fetches : Fine(p) => Fine(p)'
  BY <1>1 DEF Fine, Present
<1>5. 0 \in 0..fetches /\ Fine(0)'
  BY QuotaAssumption DEF Fine, IInv, StoreTypes
<1> QED BY <1>1, <1>2, <1>3, <1>4, <1>5, WakeKeeps

-----------------------------------------------------------------------------
\* Theorems.

LEMMA StepInv == IInv /\ [Next]_vars => IInv'
<1> SUFFICES ASSUME IInv, [Next]_vars PROVE IInv'
  OBVIOUS
<1>1. CASE Change
  BY <1>1, ChangeStep
<1>2. CASE Dispose
  BY <1>2, DisposeStep
<1>3. CASE Disposed
  BY <1>3, DisposedStep
<1>4. ASSUME NEW k \in Key, ExpireEntry(k) PROVE IInv'
  BY <1>4, ExpireStep
<1>5. ASSUME NEW r \in Reader, Work(r) PROVE IInv'
  BY <1>5, AuthFailsStep, JoinStep, ReuseStep, NoRoomStep, RefreshStep, EnterStep, AnswerStep,
     AnswerLateStep, ResumeStep DEF Work
<1>6. ASSUME NEW r \in Reader, NEW k \in Key, Read(r, k) PROVE IInv'
  BY <1>6, ReadStep
<1>7. CASE UNCHANGED vars
  <2>1. UNCHANGED <<cache, entry, pending, fetches, revoked, stale, pc, key, with, got, held, disposed>>
    BY <1>7 DEF vars, read
  <2>2. CacheTypes' /\ StoreTypes' /\ ReaderTypes' /\ OnlyCached' /\ Requested'
    BY <2>1 DEF IInv, CacheTypes, StoreTypes, ReaderTypes, OnlyCached, Requested
  <2>3. Underway' /\ Placed' /\ Handed' /\ Over'
    BY <2>1 DEF IInv, Underway, Placed, Handed, Fine, Present, Over, Active
  <2> QED BY <2>2, <2>3 DEF IInv
<1> QED BY <1>1, <1>2, <1>3, <1>4, <1>5, <1>6, <1>7 DEF Next

\* What holds between the cache, the requests and the reads, always.
THEOREM Invariance == Spec => []IInv
BY InitInv, StepInv, PTL DEF Spec

\* The types, and that the cache stays within its capacity.
THEOREM TypeCorrect == Spec => []TypeOK
<1>1. IInv => TypeOK
  BY TypeParts DEF IInv
<1> QED BY <1>1, Invariance, PTL

\* An observation that may still be used is the present one of its key.
THEOREM HeldIsCurrent == Spec => []ObservationsCurrent
<1>1. IInv => ObservationsCurrent
  BY DEF IInv, Handed, Fine, Present, ObservationsCurrent
<1> QED BY <1>1, Invariance, PTL

\* No late answer, refresh or eviction leaves a revoked observation in the cache.
THEOREM KeptIsUsable == Spec => []KeepsUsable
<1>1. ASSUME IInv PROVE KeepsUsable
  <2>1. ToSet(cache) \subseteq Key
    BY <1>1 DEF ToSet, IInv, CacheTypes
  <2> QED BY <1>1, <2>1 DEF IInv, Requested, KeepsUsable
<1> QED BY <1>1, Invariance, PTL

\* Reads of one configuration share the request of their key.
THEOREM OneRequestEach == Spec => []RequestsShared
<1>1. ASSUME IInv PROVE RequestsShared
  <2>1. \A k \in Key : pending[k] # None => Contains(cache, k)
    BY <1>1 DEF IInv, OnlyCached, Contains, ToSet
  <2> QED BY <1>1, <2>1 DEF IInv, Placed, RequestsShared
<1> QED BY <1>1, Invariance, PTL

\* Disposal waits for every read, and nothing handed out may be used after it.
THEOREM DisposalIsFinal == Spec => []DisposedForGood
<1>1. IInv => DisposedForGood
  BY DEF IInv, Over, DisposedForGood
<1> QED BY <1>1, Invariance, PTL

-----------------------------------------------------------------------------
(***************************************************************************)
(* ConversationSpeed: its bounded maps.                                    *)
(***************************************************************************)

LEMMA RemovedFirst ==
  ASSUME NEW q, Ordered(q), NEW s \in Session
  PROVE  /\ Ordered(RemoveFirst(q, s)) /\ (Contains(q, s) => Len(RemoveFirst(q, s)) < Len(q))
         /\ \A x : Contains(RemoveFirst(q, s), x) <=> Contains(q, x) /\ x # s
<1>1. q \in Seq(Session) /\ IsInjective(q) /\ Len(q) <= Limit /\ Len(q) \in Nat /\ DOMAIN q = 1..Len(q)
  BY DEF Ordered
<1>2. CASE ~Contains(q, s)
  <2>1. RemoveFirst(q, s) = q
    BY <1>2 DEF RemoveFirst, Contains
  <2> QED BY <1>1, <1>2, <2>1
<1>3. CASE Contains(q, s)
  <2>1. PICK i \in 1..Len(q) : q[i] = s
    BY <1>3 DEF Contains
  <2>2. {j \in 1..Len(q) : q[j] = s} = {i}
    BY <1>1, <2>1 DEF IsInjective
  <2>3. Min({i}) = i
    BY DEF Min
  <2>4. SelectInSeq(q, LAMBDA v : v = s) = i
    BY <2>2, <2>3 DEF SelectInSeq
  <2>5. RemoveFirst(q, s) = RemoveAt(q, i)
    BY <2>1, <2>4 DEF RemoveFirst
  <2> DEFINE t == RemoveAt(q, i)
  <2>6. t \in Seq(Session) /\ IsInjective(t) /\ Len(t) = Len(q) - 1 /\ ToSet(t) = ToSet(q) \ {s}
    BY <1>1, <2>1, Removed
  <2> HIDE DEF t
  <2>7. DOMAIN t = 1..Len(t) /\ Len(t) \in Nat
    BY <2>6
  <2>8. \A x : Contains(t, x) <=> Contains(q, x) /\ x # s
    BY <1>1, <2>6, <2>7 DEF Contains, ToSet
  <2>9. Len(t) <= Limit
    BY <1>1, <2>6, <2>7, SpeedAssumption
  <2> QED BY <1>1, <2>5, <2>6, <2>7, <2>8, <2>9 DEF Ordered, t
<1> QED BY <1>2, <1>3

LEMMA RoomMade ==
  ASSUME NEW q, Ordered(q)
  PROVE  /\ Room(q) \in Seq(Session) /\ IsInjective(Room(q)) /\ Len(Room(q)) < Limit
         /\ \A x : Contains(Room(q), x) => Contains(q, x)
<1>1. /\ q \in Seq(Session) /\ IsInjective(q) /\ Len(q) <= Limit /\ Len(q) \in Nat
      /\ DOMAIN q = 1..Len(q) /\ Limit \in Nat \ {0}
  BY SpeedAssumption DEF Ordered
<1>2. CASE Len(q) < Limit
  BY <1>1, <1>2 DEF Room
<1>3. CASE Len(q) = Limit
  <2> DEFINE t == Tail(q)
  <2>1. q # <<>>
    BY <1>1, <1>3
  <2>2. /\ t \in Seq(Session) /\ Len(t) = Len(q) - 1
        /\ \A j \in 1..Len(t) : t[j] = q[j + 1]
    BY <1>1, <2>1
  <2>3. Room(q) = t
    BY <1>1, <1>3 DEF Room
  <2> HIDE DEF t
  <2>4. DOMAIN t = 1..Len(t) /\ Len(t) \in Nat /\ \A j \in 1..Len(t) : j + 1 \in 1..Len(q)
    BY <1>1, <2>2
  <2>5. IsInjective(t)
    <3> SUFFICES ASSUME NEW i \in 1..Len(t), NEW j \in 1..Len(t), t[i] = t[j] PROVE i = j
      BY <2>4 DEF IsInjective
    <3>1. q[i + 1] = q[j + 1] /\ i + 1 \in DOMAIN q /\ j + 1 \in DOMAIN q
      BY <1>1, <2>2, <2>4
    <3>2. i + 1 = j + 1
      BY <1>1, <3>1 DEF IsInjective
    <3> QED BY <2>4, <3>2
  <2>6. \A x : Contains(t, x) => Contains(q, x)
    BY <1>1, <2>2, <2>4 DEF Contains
  <2> QED BY <1>1, <1>3, <2>2, <2>3, <2>5, <2>6
<1>4. Len(q) < Limit \/ Len(q) = Limit
  <2>1. Len(q) \in Nat /\ Limit \in Nat /\ Len(q) <= Limit
    BY <1>1
  <2> QED BY <2>1
<1> QED BY <1>2, <1>3, <1>4

LEMMA RecentLast ==
  ASSUME NEW q, Ordered(q), NEW s \in Session
  PROVE  /\ Ordered(Recent(q, s)) /\ Contains(Recent(q, s), s)
         /\ \A x : Contains(Recent(q, s), x) => x = s \/ Contains(q, x)
<1> DEFINE a == RemoveFirst(q, s)
           b == Room(a)
<1>1. Ordered(a) /\ \A x : Contains(a, x) <=> Contains(q, x) /\ x # s
  BY RemovedFirst
<1> HIDE DEF a
<1>2. /\ b \in Seq(Session) /\ IsInjective(b) /\ Len(b) < Limit
      /\ \A x : Contains(b, x) => Contains(a, x)
  BY <1>1, RoomMade
<1>3. Recent(q, s) = Append(b, s)
  BY DEF Recent, a, b
<1> HIDE DEF b
<1>0. Len(b) \in Nat /\ DOMAIN b = 1..Len(b)
  BY <1>2
<1>4. Len(b) \in Nat /\ DOMAIN b = 1..Len(b) /\ s \notin ToSet(b)
  BY <1>0, <1>1, <1>2 DEF ToSet, Contains
<1> DEFINE t == Append(b, s)
<1>5. t \in Seq(Session) /\ IsInjective(t) /\ Len(t) = Len(b) + 1 /\ ToSet(t) = ToSet(b) \cup {s}
  BY <1>2, <1>4, Appended
<1> HIDE DEF t
<1>6. DOMAIN t = 1..Len(t) /\ Len(t) <= Limit
  BY <1>2, <1>4, <1>5, SpeedAssumption
<1>7. \A x : Contains(t, x) <=> x = s \/ Contains(b, x)
  BY <1>4, <1>5, <1>6 DEF Contains, ToSet
<1> QED BY <1>1, <1>2, <1>3, <1>5, <1>6, <1>7 DEF Ordered, t

LEMMA Touched ==
  ASSUME NEW q, Ordered(q), NEW s \in Session
  PROVE  Ordered(Touch(q, s)) /\ \A x : Contains(Touch(q, s), x) <=> Contains(q, x)
<1>1. CASE ~Contains(q, s)
  BY <1>1 DEF Touch
<1>2. CASE Contains(q, s)
  <2> DEFINE b == RemoveFirst(q, s)
             t == Append(b, s)
  <2>1. Ordered(b) /\ Len(b) < Len(q) /\ \A x : Contains(b, x) <=> Contains(q, x) /\ x # s
    BY <1>2, RemovedFirst
  <2>2. Touch(q, s) = t
    BY <1>2 DEF Touch
  <2> HIDE DEF b
  <2>4. b \in Seq(Session) /\ IsInjective(b) /\ Len(b) \in Nat /\ DOMAIN b = 1..Len(b) /\ s \notin ToSet(b)
    BY <2>1 DEF Ordered, ToSet, Contains
  <2>5. t \in Seq(Session) /\ IsInjective(t) /\ Len(t) = Len(b) + 1 /\ ToSet(t) = ToSet(b) \cup {s}
    BY <2>4, Appended
  <2> HIDE DEF t
  <2>6. DOMAIN t = 1..Len(t) /\ Len(t) <= Limit /\ Len(q) \in Nat
    BY <2>1, <2>4, <2>5, SpeedAssumption DEF Ordered
  <2>7. \A x : Contains(t, x) <=> x = s \/ Contains(b, x)
    BY <2>4, <2>5, <2>6 DEF Contains, ToSet
  <2> QED BY <1>2, <2>1, <2>2, <2>5, <2>6, <2>7 DEF Ordered
<1> QED BY <1>1, <1>2

-----------------------------------------------------------------------------
\* Types of ConversationSpeed.

Accounts == Account \cup {NoAccount}
Controls(n) == [gen : 0..n, rev : 0..MaxRevision, mode : Mode, expired : BOOLEAN, scope : ScopeType]
Startups == [stage : {"none", "reading", "ready"}, place : PlaceType, account : Accounts]
Captures(n) == [mode : Mode, gen : 0..n, scope : ScopeType, expired : BOOLEAN]
Streams(n) == [stage : {"idle", "admitted", "captured", "resolved"}, model : Model,
               captured : Captures(n), account : Accounts]

\* SpeedTypeOK in three parts: the maps of the registry, the rest of the
\* registry's callers, and what requests hold.
MapTypes ==
  /\ epoch \in 0..MaxMoves /\ generations \in 0..MaxGeneration
  /\ control \in [Session -> Controls(generations)]
  /\ startup \in [Session -> Startups]
  /\ Ordered(controls) /\ Ordered(starts) /\ Ordered(fast)
  /\ \A s \in Session : Contains(controls, s) <=> control[s] # NoControl
  /\ \A s \in Session : Contains(starts, s) <=> startup[s] # NoStartup

CallerTypes ==
  /\ moves \in 0..MaxMoves /\ live \subseteq Session
  /\ selection \in [Session -> 1..MaxMoves + 1]
  /\ seed \in [Session -> [stage : {"no", "reading", "read", "over"}, account : Accounts]]
  /\ active \in Accounts /\ commands \subseteq Accounts
  /\ handler \in [Client -> [stage : {"idle", "placed", "scoped"}, place : PlaceType, account : Accounts]]
  /\ page \in [Client -> [gen : 0..generations, rev : 0..MaxRevision]]
  /\ paid \in [Session -> BOOLEAN] /\ fresh \in [Client -> BOOLEAN]

StreamTypes ==
  /\ request \in [Request -> Streams(generations)]
  /\ owed \in [Request -> BOOLEAN]

LEMMA SpeedTypeParts ==
  /\ SpeedTypeOK <=> MapTypes /\ CallerTypes /\ StreamTypes
  /\ SpeedTypeOK' <=> MapTypes' /\ CallerTypes' /\ StreamTypes'
BY DEF SpeedTypeOK, MapTypes, CallerTypes, StreamTypes, Controls, Startups, Captures, Streams, Accounts

LEMMA Bounds == /\ MaxMoves \in Nat /\ MaxGeneration \in Nat /\ MaxRevision \in Nat
                /\ \A c \in Client : SessionOf[c] \in Session
                /\ \A r \in Request : SessionOf[r] \in Session
BY SpeedAssumption

LEMMA NothingTyped ==
  ASSUME NEW n \in Nat
  PROVE  /\ NoPlace \in PlaceType /\ NoScope \in ScopeType
         /\ NoControl \in Controls(n) /\ NoStartup \in Startups
         /\ NoCapture \in Captures(n) /\ NoRequest \in Streams(n)
         /\ NoHandler \in [stage : {"idle", "placed", "scoped"}, place : PlaceType, account : Accounts]
<1>1. NoPlace \in PlaceType
  BY Bounds DEF NoPlace, PlaceType
<1>2. NoScope \in ScopeType /\ NoAccount \in Accounts
  BY <1>1 DEF NoScope, Scope, ScopeType, Model, Accounts
<1>3. NoControl \in Controls(n)
  BY <1>2, Bounds DEF NoControl, Controls, Mode
<1>4. NoCapture \in Captures(n)
  BY <1>2 DEF NoCapture, Captures, Mode
<1>5. NoRequest \in Streams(n)
  BY <1>2, <1>4 DEF NoRequest, Streams, Model
<1> QED BY <1>1, <1>2, <1>3, <1>4, <1>5 DEF NoStartup, Startups, NoHandler

\* Values of one generation are values of a later one.
LEMMA TypesGrow ==
  ASSUME NEW m \in Nat, NEW n \in Nat, m <= n
  PROVE  Controls(m) \subseteq Controls(n) /\ Captures(m) \subseteq Captures(n) /\ Streams(m) \subseteq Streams(n)
<1>1. 0..m \subseteq 0..n
  OBVIOUS
<1>2. Controls(m) \subseteq Controls(n) /\ Captures(m) \subseteq Captures(n)
  BY <1>1 DEF Controls, Captures
<1> QED BY <1>2 DEF Streams

LEMMA ControlDropped ==
  ASSUME MapTypes, NEW s \in Session, DropControl(s)
  PROVE  /\ control' \in [Session -> Controls(generations)] /\ control'[s] = NoControl
         /\ \A x \in Session : control'[x] \in {control[x], NoControl}
         /\ Ordered(controls')
         /\ \A x \in Session : Contains(controls', x) <=> control'[x] # NoControl
<1>1. NoControl \in Controls(generations) /\ control \in [Session -> Controls(generations)]
  BY NothingTyped, Bounds DEF MapTypes
<1>2. control' = [control EXCEPT ![s] = NoControl] /\ controls' = RemoveFirst(controls, s)
  BY DEF DropControl
<1>3. Ordered(controls') /\ \A x : Contains(controls', x) <=> Contains(controls, x) /\ x # s
  BY <1>2, RemovedFirst DEF MapTypes
<1> QED BY <1>1, <1>2, <1>3 DEF MapTypes

LEMMA StartupDropped ==
  ASSUME MapTypes, NEW s \in Session, DropStartup(s)
  PROVE  /\ startup' \in [Session -> Startups] /\ startup'[s] = NoStartup
         /\ \A x \in Session : startup'[x] \in {startup[x], NoStartup}
         /\ Ordered(starts')
         /\ \A x \in Session : Contains(starts', x) <=> startup'[x] # NoStartup
<1>1. NoStartup \in Startups /\ startup \in [Session -> Startups]
  BY NothingTyped, Bounds DEF MapTypes
<1>2. startup' = [startup EXCEPT ![s] = NoStartup] /\ starts' = RemoveFirst(starts, s)
  BY DEF DropStartup
<1>3. Ordered(starts') /\ \A x : Contains(starts', x) <=> Contains(starts, x) /\ x # s
  BY <1>2, RemovedFirst DEF MapTypes
<1> QED BY <1>1, <1>2, <1>3 DEF MapTypes

\* Every control and every pending preference has an identity of its own.
Marked == \A s \in Session : /\ control[s] # NoControl => control[s].gen # 0
                             /\ startup[s] # NoStartup => startup[s].stage # "none"

\* What a read of a conversation's mode leaves there.
LEMMA ModeRead ==
  ASSUME MapTypes, Marked, NEW s \in Session, NEW sc \in ScopeType, ReadSpeed(s, sc)
  PROVE  /\ control'[s] \in Controls(generations') /\ control'[s] # NoControl
         /\ control'[s].gen # 0 /\ control'[s].scope = sc
         /\ generations' \in generations..MaxGeneration
         /\ \/ /\ control[s] # NoControl /\ control[s].scope = sc
               /\ control'[s].gen = control[s].gen
               /\ control'[s].mode = "ultrafast" /\ control[s].mode # "ultrafast"
                    => Applies(s, sc) /\ s \in live
               /\ \/ control'[s].rev = control[s].rev
                  \/ control'[s].rev = control[s].rev + 1 /\ Applies(s, sc) /\ s \in live
            \/ /\ control'[s].gen = generations + 1
               /\ control'[s].mode = "ultrafast" => Applies(s, sc) /\ s \in live
<1> DEFINE chosen == Applies(s, sc) /\ s \in live
           c == IF chosen THEN [Found(s, sc) EXCEPT !.mode = "ultrafast", !.rev = @ + 1] ELSE Found(s, sc)
<1>1. /\ generations \in Nat /\ control \in [Session -> Controls(generations)]
      /\ generations \in 0..MaxGeneration
  BY Bounds DEF MapTypes
<1>2. /\ c.gen <= MaxGeneration /\ c.rev <= MaxRevision
      /\ generations' = IF c.gen > generations THEN c.gen ELSE generations
      /\ control'[s] = c
  BY DEF ReadSpeed
<1>3. Ordinary(s) \in {"fast", "standard"}
  BY DEF Ordinary
<1>4. CASE Kept(s, sc)
  <2>1. /\ control[s] # NoControl /\ control[s].scope = sc /\ control[s].expired = FALSE
        /\ control[s] \in Controls(generations) /\ control[s].gen # 0
    BY <1>1, <1>4 DEF Kept, Marked, Controls
  <2> DEFINE f == Found(s, sc)
  <2>2. f = [control[s] EXCEPT !.mode = IF @ = "ultrafast" THEN @ ELSE Ordinary(s)]
    BY <1>4 DEF Found
  <2>3. /\ f \in [gen : 0..generations, rev : 0..MaxRevision, mode : Mode, expired : BOOLEAN, scope : ScopeType]
        /\ f.gen = control[s].gen /\ f.rev = control[s].rev /\ f.scope = sc
        /\ f.mode = "ultrafast" => control[s].mode = "ultrafast"
    BY <1>3, <2>1, <2>2 DEF Controls, Mode
  <2> HIDE DEF f
  <2>4. CASE chosen
    <3> DEFINE next == f.rev + 1
    <3>1. c = [f EXCEPT !.mode = "ultrafast", !.rev = next] /\ next \in Nat
      BY <2>3, <2>4, Bounds DEF f
    <3> HIDE DEF c, chosen, next
    <3>5. c = [gen |-> f.gen, rev |-> next, mode |-> "ultrafast", expired |-> f.expired, scope |-> f.scope]
      BY <2>3, <3>1
    <3>6. next \in 0..MaxRevision
      BY <1>2, <3>1, <3>5, Bounds
    <3>2. /\ c.gen = f.gen /\ c.rev = f.rev + 1 /\ c.scope = sc /\ c.mode = "ultrafast"
          /\ c \in [gen : 0..generations, rev : 0..MaxRevision, mode : Mode, expired : BOOLEAN, scope : ScopeType]
      BY <2>3, <3>5, <3>6 DEF Mode, next
    <3>3. generations' = generations
      BY <1>1, <1>2, <3>2
    <3>4. control'[s] # NoControl
      BY <1>2, <2>1, <2>3, <3>2 DEF NoControl
    <3> QED BY <1>1, <1>2, <2>1, <2>3, <2>4, <3>2, <3>3, <3>4, Bounds DEF Controls, chosen
  <2>5. CASE ~chosen
    <3>1. c = f
      BY <2>5 DEF f
    <3> HIDE DEF c, chosen
    <3>3. generations' = generations
      BY <1>1, <1>2, <2>3, <3>1
    <3>4. control'[s] # NoControl
      BY <1>2, <2>1, <2>3, <3>1 DEF NoControl
    <3> QED BY <1>1, <1>2, <2>1, <2>3, <3>1, <3>3, <3>4, Bounds DEF Controls
  <2> QED BY <2>4, <2>5
<1>5. CASE ~Kept(s, sc)
  <2> DEFINE f == Found(s, sc)
  <2>2. f = [gen |-> generations + 1, rev |-> 0, mode |-> Ordinary(s), expired |-> FALSE, scope |-> sc]
    BY <1>5 DEF Found
  <2>3. /\ f.gen = generations + 1 /\ f.rev = 0 /\ f.scope = sc /\ f.mode \in {"fast", "standard"}
        /\ f \in [gen : Nat, rev : Nat, mode : Mode, expired : BOOLEAN, scope : ScopeType]
    BY <1>1, <1>3, <2>2 DEF Mode
  <2> HIDE DEF f
  <2>4. /\ c.gen = generations + 1 /\ c.scope = sc
        /\ c \in [gen : Nat, rev : Nat, mode : Mode, expired : BOOLEAN, scope : ScopeType]
        /\ c.mode = "ultrafast" => chosen
    <3>1. CASE chosen
      <4> DEFINE next == f.rev + 1
      <4>1. c = [f EXCEPT !.mode = "ultrafast", !.rev = next] /\ next \in Nat
        BY <2>3, <3>1 DEF f
      <4> HIDE DEF c, chosen, next
      <4>2. c = [gen |-> f.gen, rev |-> next, mode |-> "ultrafast", expired |-> f.expired, scope |-> f.scope]
        BY <2>3, <4>1
      <4> QED BY <2>3, <3>1, <4>1, <4>2 DEF Mode
    <3>2. CASE ~chosen
      <4>1. c = f
        BY <3>2 DEF f
      <4> HIDE DEF c, chosen
      <4> QED BY <2>3, <4>1
    <3> QED BY <3>1, <3>2
  <2> HIDE DEF c
  <2>5. generations' = generations + 1 /\ generations + 1 <= MaxGeneration
    BY <1>1, <1>2, <2>4
  <2>6. c \in Controls(generations') /\ c.gen # 0
    BY <1>1, <1>2, <2>4, <2>5, Bounds DEF Controls
  <2>7. c # NoControl
    BY <2>6 DEF NoControl
  <2> QED BY <1>1, <1>2, <2>4, <2>5, <2>6, <2>7, Bounds
<1> QED BY <1>4, <1>5

\* What it leaves everywhere.
LEMMA MapsRead ==
  ASSUME MapTypes, Marked, NEW s \in Session, NEW sc \in ScopeType, ReadSpeed(s, sc)
  PROVE  /\ MapTypes' /\ Marked'
         /\ \A x \in Session \ {s} : control'[x] \in {control[x], NoControl}
         /\ \A x \in Session : startup'[x] \in {startup[x], NoStartup}
         /\ \A x : Contains(fast', x) => Contains(fast, x)
         /\ Applies(s, sc) /\ s \in live => ~Contains(fast', s)
<1>1. /\ generations \in Nat /\ generations' \in Nat /\ generations <= generations'
      /\ generations' \in 0..MaxGeneration /\ epoch' = epoch
  <2>1. generations' \in generations..MaxGeneration
    BY ModeRead
  <2>2. generations \in 0..MaxGeneration /\ epoch' = epoch
    BY DEF MapTypes, ReadSpeed
  <2> QED BY <2>1, <2>2, Bounds
<1>2. Ordered(controls') /\ Contains(controls', s) /\ \A x : Contains(controls', x) => x = s \/ Contains(controls, x)
  BY RecentLast DEF MapTypes, ReadSpeed
<1>3. \A x \in Session \ {s} : control'[x] = IF Contains(controls', x) THEN control[x] ELSE NoControl
  BY DEF ReadSpeed
<1>4. /\ DOMAIN control' = Session /\ control' = [x \in Session |-> control'[x]]
      /\ control'[s] \in Controls(generations') /\ control'[s] # NoControl /\ control'[s].gen # 0
  BY ModeRead DEF ReadSpeed
<1>5. \A x \in Session : control[x] \in Controls(generations') /\ NoControl \in Controls(generations')
  BY <1>1, TypesGrow, NothingTyped DEF MapTypes
<1>6. control' \in [Session -> Controls(generations')]
  BY <1>3, <1>4, <1>5
<1>7. \A x \in Session : Contains(controls', x) <=> control'[x] # NoControl
  BY <1>2, <1>3, <1>4 DEF MapTypes
<1>8. /\ startup' \in [Session -> Startups] /\ Ordered(starts')
      /\ \A x \in Session : startup'[x] \in {startup[x], NoStartup}
      /\ \A x \in Session : Contains(starts', x) <=> startup'[x] # NoStartup
  <2>1. CASE Due(s)
    BY <2>1, StartupDropped DEF ReadSpeed
  <2>2. CASE ~Due(s)
    BY <2>2 DEF ReadSpeed, MapTypes
  <2> QED BY <2>1, <2>2
<1>9. /\ Ordered(fast') /\ \A x : Contains(fast', x) => Contains(fast, x)
      /\ Applies(s, sc) /\ s \in live => ~Contains(fast', s)
  BY RemovedFirst, Touched DEF ReadSpeed, MapTypes
<1>10. MapTypes'
  BY <1>1, <1>2, <1>6, <1>7, <1>8, <1>9 DEF MapTypes
<1>11. Marked'
  BY <1>3, <1>4, <1>8 DEF Marked
<1> QED BY <1>3, <1>8, <1>9, <1>10, <1>11

\* A place of a session, as a handler and a preference note it.
LEMMA PlaceTyped ==
  ASSUME MapTypes, CallerTypes, NEW s \in Session
  PROVE  Place(s) \in PlaceType
BY Bounds DEF MapTypes, CallerTypes, Place, PlaceType

\* Where the registry is read: at the place a handler has found, or at that of
\* the pending preference.
ReadAt(s, sc) ==
  /\ sc \in ScopeType
  /\ ReadSpeed(s, sc)
  /\ \/ \E c \in Client : SessionOf[c] = s /\ sc.place = handler[c].place
     \/ startup[s] # NoStartup /\ sc.place = startup[s].place
  /\ UNCHANGED <<live, selection, moves, paid, owed>>

LEMMA HandlerReads ==
  ASSUME SpeedTypeOK, NEW c \in Client, NEW m \in Model, AnswerRead(c, m)
  PROVE  ReadAt(SessionOf[c], Asked(c, m))
<1>1. handler[c] \in [stage : {"idle", "placed", "scoped"}, place : PlaceType, account : Accounts]
  BY SpeedTypeParts DEF CallerTypes
<1>2. Asked(c, m) \in ScopeType /\ Asked(c, m).place = handler[c].place
  BY <1>1 DEF Asked, Scope, ScopeType, Accounts
<1> QED BY <1>2 DEF ReadAt, AnswerRead, host

\* What a request does as the agent admits it.
LEMMA AdmitSteps ==
  ASSUME SpeedTypeOK, NEW r \in Request, NEW m \in Model, Admit(r, m)
  PROVE  /\ \/ UNCHANGED registry
            \/ DropStartup(SessionOf[r]) /\ UNCHANGED <<epoch, control, controls, fast, generations>>
            \/ \E sc \in ScopeType : ReadAt(SessionOf[r], sc)
         /\ UNCHANGED <<host, accounts, seed, handler, page, history>>
         /\ request' \in {request, [request EXCEPT ![r].stage = "admitted", ![r].model = m]}
<1> DEFINE s == SessionOf[r]
           sc == Scope(startup[s].place, startup[s].account, m)
<1>1. s \in Session
  BY Bounds
<1>2. startup[s] \in Startups
  BY <1>1, SpeedTypeParts DEF MapTypes
<1>3. sc \in ScopeType /\ sc.place = startup[s].place
  BY <1>2 DEF Scope, ScopeType, Startups, Accounts
<1>4. CASE ReadSpeed(s, sc) /\ startup[s].stage = "ready"
  <2>1. startup[s] # NoStartup
    BY <1>4 DEF NoStartup
  <2>2. ReadAt(s, sc)
    BY <1>3, <1>4, <2>1 DEF ReadAt, Admit, host, history
  <2> HIDE DEF sc
  <2> QED BY <1>3, <2>2 DEF Admit
<1>5. \/ ReadSpeed(s, sc) /\ startup[s].stage = "ready"
      \/ UNCHANGED registry
      \/ DropStartup(s) /\ UNCHANGED <<epoch, control, controls, fast, generations>>
  BY DEF Admit
<1>6. /\ UNCHANGED <<host, accounts, seed, handler, page, history>>
      /\ request' \in {request, [request EXCEPT ![r].stage = "admitted", ![r].model = m]}
  BY DEF Admit
<1> QED BY <1>4, <1>5, <1>6

-----------------------------------------------------------------------------
\* What a step may do to the registry.

Touches == \E s \in Session : /\ fast' = Touch(fast, s)
                              /\ UNCHANGED <<epoch, control, controls, startup, starts, generations>>
Retires == \E s \in Session : /\ DropStartup(s)
                              /\ UNCHANGED <<epoch, control, controls, fast, generations>>
Seeds == \E s \in Session : Seed(s) \/ Seeded(s)
Sets == \E s \in Session, on \in BOOLEAN : LegacySet(s, on)
Chosen == \E c \in Client, m \in Model, mode \in Mode : Select(c, mode, m)
Reads == \E s \in Session, sc \in ScopeType : ReadAt(s, sc)

LEMMA RegistrySteps ==
  ASSUME SpeedTypeOK, [SpeedNext]_speedVars
  PROVE  \/ UNCHANGED registry \/ Touches \/ Retires
         \/ \E a \in Accounts : Command(a)
         \/ \E s \in Session : SelectModel(s)
         \/ \E r \in Request : Expire(r)
         \/ Seeds \/ Sets \/ Chosen \/ Reads
<1>1. ASSUME NEW a \in Accounts, CommandDone(a) \/ Elsewhere(a) PROVE UNCHANGED registry
  BY <1>1 DEF CommandDone, Elsewhere
<1>2. ASSUME NEW s \in Session, Close(s) \/ Resume(s) \/ SeedRead(s) PROVE UNCHANGED registry
  BY <1>2 DEF Close, Resume, SeedRead
<1>3. ASSUME NEW s \in Session, LegacyGet(s) PROVE Touches
  BY <1>3 DEF LegacyGet, Touches
<1>4. ASSUME NEW s \in Session, SeedFails(s) PROVE Retires
  BY <1>4 DEF SeedFails, SeedEnds, Retires
<1>5. ASSUME NEW c \in Client, Ask(c) \/ ReadAccount(c) \/ Refuse(c) PROVE UNCHANGED registry
  BY <1>5 DEF Ask, ReadAccount, Refuse
<1>6. ASSUME NEW c \in Client, NEW m \in Model, AnswerRead(c, m) PROVE Reads
  BY <1>6, HandlerReads, Bounds DEF Reads, ReadAt
<1>7. ASSUME NEW r \in Request, NEW m \in Model, Admit(r, m)
      PROVE  UNCHANGED registry \/ Retires \/ Reads
  BY <1>7, AdmitSteps, Bounds DEF Reads, Retires
<1>8. ASSUME NEW r \in Request, Capture(r) \/ Dispatch(r) PROVE Touches
  BY <1>8, Bounds DEF Capture, Dispatch, Touches
<1>9. ASSUME NEW r \in Request, Resolve(r) \/ Finish(r) PROVE UNCHANGED registry
  BY <1>9 DEF Resolve, Finish
<1>10. CASE UNCHANGED speedVars
  BY <1>10 DEF speedVars
<1>11. CASE AccountStep
  BY <1>1, <1>11 DEF AccountStep, Accounts
<1>12. CASE HostStep
  BY <1>2, <1>3, <1>4, <1>12 DEF HostStep, Seeds, Sets
<1>13. CASE ClientStep
  BY <1>5, <1>6, <1>13 DEF ClientStep, Chosen
<1>14. CASE RequestStep
  BY <1>7, <1>8, <1>9, <1>14 DEF RequestStep
<1> QED BY <1>10, <1>11, <1>12, <1>13, <1>14 DEF SpeedNext

LEMMA ControlChanged ==
  ASSUME NEW n, NEW k \in Controls(n), NEW mode, NEW rev, NEW e
  PROVE  /\ e = [k EXCEPT !.mode = mode, !.rev = rev] =>
              e = [gen |-> k.gen, rev |-> rev, mode |-> mode, expired |-> k.expired, scope |-> k.scope]
         /\ e = [k EXCEPT !.expired = TRUE, !.rev = rev] =>
              e = [gen |-> k.gen, rev |-> rev, mode |-> k.mode, expired |-> TRUE, scope |-> k.scope]
<1>1. ASSUME e = [k EXCEPT !.mode = mode, !.rev = rev]
      PROVE  e = [gen |-> k.gen, rev |-> rev, mode |-> mode, expired |-> k.expired, scope |-> k.scope]
  BY <1>1 DEF Controls
<1>2. ASSUME e = [k EXCEPT !.expired = TRUE, !.rev = rev]
      PROVE  e = [gen |-> k.gen, rev |-> rev, mode |-> k.mode, expired |-> TRUE, scope |-> k.scope]
  BY <1>2 DEF Controls
<1> QED BY <1>1, <1>2

\* The choice a client makes.
LEMMA ChoiceMade ==
  ASSUME SpeedTypeOK, NEW c \in Client, NEW mode \in Mode, NEW m \in Model, Select(c, mode, m)
  PROVE  LET s == SessionOf[c] IN
         /\ s \in Session /\ control[s] # NoControl
         /\ control[s].scope.place = handler[c].place
         /\ control[s].gen = page[c].gen /\ control[s].rev = page[c].rev /\ page[c].gen # 0
         /\ control' = [control EXCEPT ![s] = [gen |-> control[s].gen, rev |-> control[s].rev + 1,
              mode |-> mode, expired |-> control[s].expired, scope |-> control[s].scope]]
         /\ control[s].rev + 1 \in 1..MaxRevision /\ control'[s] # NoControl
<1> DEFINE s == SessionOf[c]
           next == control[s].rev + 1
<1>1. s \in Session /\ control \in [Session -> Controls(generations)] /\ control[s] \in Controls(generations)
  BY Bounds, SpeedTypeParts DEF MapTypes
<1>2. next \in 1..MaxRevision
  BY <1>1, Bounds DEF Select, Controls
<1> DEFINE e == [control[s] EXCEPT !.mode = mode, !.rev = next]
<1>3. control' = [control EXCEPT ![s] = e]
  BY <1>1 DEF Select
<1> HIDE DEF next
<1>4. e = [gen |-> control[s].gen, rev |-> next, mode |-> mode,
           expired |-> control[s].expired, scope |-> control[s].scope]
  <2>1. e = [control[s] EXCEPT !.mode = mode, !.rev = next]
    OBVIOUS
  <2> HIDE DEF e
  <2> QED BY <1>1, <2>1, ControlChanged
<1> HIDE DEF e
<1>5. control' = [control EXCEPT ![s] = [gen |-> control[s].gen, rev |-> next, mode |-> mode,
                                         expired |-> control[s].expired, scope |-> control[s].scope]]
  BY <1>1, <1>3, <1>4
<1>6. control'[s].rev # 0
  BY <1>1, <1>2, <1>5
<1>7. /\ control[s] # NoControl /\ control[s].scope.place = handler[c].place
      /\ control[s].gen = page[c].gen /\ control[s].rev = page[c].rev /\ page[c].gen # 0
  BY DEF Select, Selects, Current, Asked, Scope
<1> QED BY <1>1, <1>2, <1>5, <1>6, <1>7 DEF next, NoControl

\* The choice a request finds expired.
LEMMA ChoiceExpired ==
  ASSUME SpeedTypeOK, NEW r \in Request, Expire(r)
  PROVE  LET s == SessionOf[r] IN
         /\ s \in Session
         /\ \/ control' = control
            \/ /\ control[s] # NoControl
               /\ control' = [control EXCEPT ![s] = [gen |-> control[s].gen, rev |-> control[s].rev + 1,
                    mode |-> control[s].mode, expired |-> TRUE, scope |-> control[s].scope]]
               /\ control[s].rev + 1 \in 1..MaxRevision /\ control'[s] # NoControl
<1> DEFINE s == SessionOf[r]
           next == control[s].rev + 1
<1>1. s \in Session /\ control \in [Session -> Controls(generations)] /\ control[s] \in Controls(generations)
  BY Bounds, SpeedTypeParts DEF MapTypes
<1>2. CASE control' # control
  <2>1. control[s] # NoControl /\ control[s].rev < MaxRevision
    BY <1>2 DEF Expire
  <2>2. next \in 1..MaxRevision
    BY <1>1, <2>1, Bounds DEF Controls
  <2> DEFINE e == [control[s] EXCEPT !.expired = TRUE, !.rev = next]
  <2>3. control' = [control EXCEPT ![s] = e]
    BY <1>1, <1>2 DEF Expire
  <2> HIDE DEF next
  <2>4. e = [gen |-> control[s].gen, rev |-> next, mode |-> control[s].mode,
             expired |-> TRUE, scope |-> control[s].scope]
    <3>1. e = [control[s] EXCEPT !.expired = TRUE, !.rev = next]
      OBVIOUS
    <3> HIDE DEF e
    <3> QED BY <1>1, <3>1, ControlChanged
  <2> HIDE DEF e
  <2>5. control' = [control EXCEPT ![s] = [gen |-> control[s].gen, rev |-> next, mode |-> control[s].mode,
                                           expired |-> TRUE, scope |-> control[s].scope]]
    BY <1>1, <2>3, <2>4
  <2>6. control'[s].rev # 0
    BY <1>1, <2>2, <2>5
  <2> QED BY <1>1, <2>1, <2>2, <2>5, <2>6 DEF next, NoControl
<1> QED BY <1>1, <1>2

LEMMA ChoiceElsewhere ==
  ASSUME SpeedTypeOK, NEW c \in Client, NEW mode \in Mode, NEW m \in Model, Select(c, mode, m)
  PROVE  /\ control'[SessionOf[c]].mode = mode
         /\ \A x \in Session : /\ control'[x].scope = control[x].scope
                               /\ x # SessionOf[c] => control'[x] = control[x]
<1> DEFINE s == SessionOf[c]
           e == [gen |-> control[s].gen, rev |-> control[s].rev + 1, mode |-> mode,
                 expired |-> control[s].expired, scope |-> control[s].scope]
<1>1. s \in Session /\ control' = [control EXCEPT ![s] = e] /\ DOMAIN control = Session
  BY ChoiceMade, SpeedTypeParts DEF MapTypes
<1>2. e.mode = mode /\ e.scope = control[s].scope
  OBVIOUS
<1> HIDE DEF e
<1> QED BY <1>1, <1>2

LEMMA ExpiryElsewhere ==
  ASSUME SpeedTypeOK, NEW r \in Request, Expire(r)
  PROVE  \A x \in Session : control'[x].scope = control[x].scope /\ control'[x].mode = control[x].mode
<1> DEFINE s == SessionOf[r]
           e == [gen |-> control[s].gen, rev |-> control[s].rev + 1, mode |-> control[s].mode,
                 expired |-> TRUE, scope |-> control[s].scope]
<1>1. /\ s \in Session /\ DOMAIN control = Session
      /\ control' = control \/ control' = [control EXCEPT ![s] = e]
  BY ChoiceExpired, SpeedTypeParts DEF MapTypes
<1>2. e.mode = control[s].mode /\ e.scope = control[s].scope
  OBVIOUS
<1> HIDE DEF e
<1> QED BY <1>1, <1>2

\* Epochs and selections are counted by the bound.
Bounded == epoch <= moves /\ \A s \in Session : selection[s] <= moves + 1

LEMMA AllDropped ==
  ASSUME MapTypes, NEW a \in Accounts, Command(a), Bounded, CallerTypes
  PROVE  MapTypes' /\ Marked'
<1>1. epoch' \in 0..MaxMoves /\ generations' = generations
  BY Bounds DEF Command, Move, CanMove, Bounded, MapTypes, CallerTypes
<1>2. /\ control' = [s \in Session |-> NoControl] /\ controls' = <<>>
      /\ startup' = [s \in Session |-> NoStartup] /\ starts' = <<>> /\ fast' = fast
  BY DEF Command
<1>3. NoControl \in Controls(generations) /\ NoStartup \in Startups /\ generations \in 0..MaxGeneration
  BY NothingTyped, Bounds DEF MapTypes
<1>4. Ordered(<<>>) /\ \A x : ~Contains(<<>>, x)
  BY SpeedAssumption DEF Ordered, IsInjective, Contains
<1>5. MapTypes'
  BY <1>1, <1>2, <1>3, <1>4 DEF MapTypes
<1>6. Marked'
  BY <1>2 DEF Marked
<1> QED BY <1>5, <1>6

\* The control of one session changes, but does not come or go.
LEMMA OneChanged ==
  ASSUME MapTypes, Marked, NEW s \in Session, control[s] # NoControl,
         NEW k, k \in Controls(generations), k # NoControl, k.gen # 0,
         control' = [control EXCEPT ![s] = k], UNCHANGED <<controls, generations>>
  PROVE  /\ control' \in [Session -> Controls(generations)]
         /\ \A x \in Session : Contains(controls', x) <=> control'[x] # NoControl
         /\ \A x \in Session : control'[x] # NoControl => control'[x].gen # 0
BY DEF MapTypes, Marked

LEMMA SeedsKept ==
  ASSUME MapTypes, CallerTypes, Marked, NEW s \in Session, Seed(s) \/ Seeded(s)
  PROVE  MapTypes' /\ Marked'
<1>0. startup \in [Session -> Startups] /\ NoStartup \in Startups
  BY NothingTyped, Bounds DEF MapTypes
<1>1. CASE Seeded(s)
  <2>1. UNCHANGED <<epoch, control, controls, fast, generations, starts>>
    BY <1>1 DEF Seeded, SeedEnds
  <2>2. /\ startup' \in [Session -> Startups]
        /\ \A x \in Session : startup'[x] # NoStartup <=> startup[x] # NoStartup
        /\ \A x \in Session : startup'[x] # NoStartup => startup'[x].stage # "none"
    <3>1. CASE startup' = startup
      BY <1>0, <3>1 DEF Marked
    <3>2. CASE startup[s].stage = "reading" /\ startup' = [startup EXCEPT ![s].stage = "ready", ![s].account = seed[s].account]
      <4>1. seed[s].account \in Accounts /\ startup[s] \in Startups /\ startup[s] # NoStartup
        BY <1>0, <3>2 DEF CallerTypes, NoStartup
      <4> DEFINE e == [startup[s] EXCEPT !.stage = "ready", !.account = seed[s].account]
      <4>2. startup' = [startup EXCEPT ![s] = e]
        BY <1>0, <3>2
      <4>3. e \in Startups /\ e.stage = "ready"
        BY <4>1 DEF Startups
      <4> HIDE DEF e
      <4>4. e # NoStartup
        BY <4>3 DEF NoStartup
      <4> QED BY <1>0, <4>1, <4>2, <4>3, <4>4 DEF Marked
    <3> QED BY <1>1, <3>1, <3>2 DEF Seeded
  <2> QED BY <2>1, <2>2 DEF MapTypes, Marked
<1>2. CASE Seed(s) /\ (control[s] # NoControl \/ Contains(fast, s))
  <2>1. /\ UNCHANGED <<epoch, control, controls, startup, starts, generations>>
        /\ fast' = fast \/ fast' = Touch(fast, s)
    BY <1>2 DEF Seed
  <2>2. Ordered(fast')
    BY <2>1, Touched DEF MapTypes
  <2> QED BY <2>1, <2>2 DEF MapTypes, Marked
<1>3. CASE Seed(s) /\ ~(control[s] # NoControl \/ Contains(fast, s))
  <2> DEFINE e == [stage |-> "reading", place |-> Place(s), account |-> NoAccount]
  <2>1. /\ UNCHANGED <<epoch, control, controls, fast, generations>>
        /\ starts' = Recent(starts, s)
        /\ startup' = [x \in Session |->
             IF x = s THEN e ELSE IF Contains(starts', x) THEN startup[x] ELSE NoStartup]
    BY <1>3 DEF Seed
  <2>2. e \in Startups /\ e # NoStartup /\ e.stage # "none"
    BY PlaceTyped DEF Startups, Accounts, NoStartup
  <2> HIDE DEF e
  <2>3. Ordered(starts') /\ Contains(starts', s) /\ \A x : Contains(starts', x) => x = s \/ Contains(starts, x)
    BY <2>1, RecentLast DEF MapTypes
  <2>4. startup' \in [Session -> Startups]
    BY <1>0, <2>1, <2>2
  <2>5. \A x \in Session : /\ Contains(starts', x) <=> startup'[x] # NoStartup
                           /\ startup'[x] # NoStartup => startup'[x].stage # "none"
    BY <2>1, <2>2, <2>3 DEF MapTypes, Marked
  <2> QED BY <2>1, <2>3, <2>4, <2>5 DEF MapTypes, Marked
<1> QED BY <1>1, <1>2, <1>3

LEMMA MapsTyped ==
  ASSUME SpeedTypeOK, Marked, Bounded, [SpeedNext]_speedVars
  PROVE  MapTypes' /\ Marked'
<1>1. MapTypes /\ CallerTypes
  BY SpeedTypeParts
<1>2. CASE UNCHANGED registry
  BY <1>1, <1>2 DEF registry, MapTypes, Marked
<1>3. CASE Touches
  BY <1>1, <1>3, Touched DEF Touches, MapTypes, Marked
<1>4. CASE Retires
  <2>1. PICK s \in Session : DropStartup(s) /\ UNCHANGED <<epoch, control, controls, fast, generations>>
    BY <1>4 DEF Retires
  <2>2. /\ startup' \in [Session -> Startups] /\ Ordered(starts')
        /\ \A x \in Session : startup'[x] \in {startup[x], NoStartup}
        /\ \A x \in Session : Contains(starts', x) <=> startup'[x] # NoStartup
    BY <1>1, <2>1, StartupDropped
  <2> QED BY <1>1, <2>1, <2>2 DEF MapTypes, Marked
<1>5. ASSUME NEW s \in Session, DropControl(s), DropStartup(s), UNCHANGED <<epoch, generations>>, Ordered(fast')
      PROVE  MapTypes' /\ Marked'
  <2>1. /\ startup' \in [Session -> Startups] /\ Ordered(starts')
        /\ \A x \in Session : startup'[x] \in {startup[x], NoStartup}
        /\ \A x \in Session : Contains(starts', x) <=> startup'[x] # NoStartup
    BY <1>1, <1>5, StartupDropped
  <2>2. /\ control' \in [Session -> Controls(generations)] /\ Ordered(controls')
        /\ \A x \in Session : control'[x] \in {control[x], NoControl}
        /\ \A x \in Session : Contains(controls', x) <=> control'[x] # NoControl
    BY <1>1, <1>5, ControlDropped
  <2> QED BY <1>1, <1>5, <2>1, <2>2 DEF MapTypes, Marked
<1>6. ASSUME NEW s \in Session, SelectModel(s) PROVE MapTypes' /\ Marked'
  BY <1>1, <1>5, <1>6 DEF SelectModel, MapTypes
<1>7. CASE Sets
  <2>1. PICK s \in Session, on \in BOOLEAN : LegacySet(s, on)
    BY <1>7 DEF Sets
  <2>2. Ordered(fast')
    BY <1>1, <2>1, RecentLast, RemovedFirst DEF LegacySet, MapTypes
  <2> QED BY <1>5, <2>1, <2>2 DEF LegacySet
<1>8. ASSUME NEW r \in Request, Expire(r) PROVE MapTypes' /\ Marked'
  <2> DEFINE s == SessionOf[r]
  <2>1. /\ UNCHANGED <<epoch, controls, startup, starts, generations>> /\ fast' = Touch(fast, s)
        /\ s \in Session
    BY <1>8, Bounds DEF Expire
  <2>2. /\ control' \in [Session -> Controls(generations)]
        /\ \A x \in Session : Contains(controls', x) <=> control'[x] # NoControl
        /\ \A x \in Session : control'[x] # NoControl => control'[x].gen # 0
    <3>1. CASE control' = control
      BY <1>1, <2>1, <3>1 DEF MapTypes, Marked
    <3>2. CASE control' # control
      <4> DEFINE e == [gen |-> control[s].gen, rev |-> control[s].rev + 1,
                       mode |-> control[s].mode, expired |-> TRUE, scope |-> control[s].scope]
      <4>1. control[s] # NoControl /\ control' = [control EXCEPT ![s] = e] /\ control[s].rev + 1 \in 1..MaxRevision
            /\ control'[s] # NoControl
        BY <1>8, <3>2, ChoiceExpired
      <4>2. control[s] \in Controls(generations) /\ control[s].gen # 0
        BY <1>1, <2>1, <4>1 DEF MapTypes, Marked
      <4>3. e \in Controls(generations) /\ e.gen # 0
        BY <4>1, <4>2, Bounds DEF Controls
      <4> HIDE DEF e
      <4>4. e # NoControl
        BY <1>1, <2>1, <4>1 DEF MapTypes
      <4> QED BY <1>1, <2>1, <4>1, <4>3, <4>4, OneChanged
    <3> QED BY <3>1, <3>2
  <2>3. Ordered(fast')
    BY <1>1, <2>1, Touched DEF MapTypes
  <2> QED BY <1>1, <2>1, <2>2, <2>3 DEF MapTypes, Marked
<1>9. ASSUME NEW c \in Client, NEW m \in Model, NEW mode \in Mode, Select(c, mode, m) PROVE MapTypes' /\ Marked'
  <2> DEFINE s == SessionOf[c]
             e == [gen |-> control[s].gen, rev |-> control[s].rev + 1,
                   mode |-> mode, expired |-> control[s].expired, scope |-> control[s].scope]
  <2>1. /\ UNCHANGED <<epoch, controls, generations>> /\ fast' = NextFast(s, mode) /\ DropStartup(s)
        /\ s \in Session
    BY <1>9, Bounds DEF Select
  <2>2. /\ control[s] # NoControl /\ control' = [control EXCEPT ![s] = e]
        /\ control[s].rev + 1 \in 1..MaxRevision /\ control'[s] # NoControl
    BY <1>9, ChoiceMade
  <2>3. control[s] \in Controls(generations) /\ control[s].gen # 0
    BY <1>1, <2>1, <2>2 DEF MapTypes, Marked
  <2>4. e \in Controls(generations) /\ e.gen # 0
    BY <2>2, <2>3, Bounds DEF Controls
  <2> HIDE DEF e
  <2>5. e # NoControl
    BY <1>1, <2>1, <2>2 DEF MapTypes
  <2>6. /\ control' \in [Session -> Controls(generations)]
        /\ \A x \in Session : Contains(controls', x) <=> control'[x] # NoControl
        /\ \A x \in Session : control'[x] # NoControl => control'[x].gen # 0
    BY <1>1, <2>1, <2>2, <2>4, <2>5, OneChanged
  <2>7. /\ startup' \in [Session -> Startups] /\ Ordered(starts')
        /\ \A x \in Session : startup'[x] \in {startup[x], NoStartup}
        /\ \A x \in Session : Contains(starts', x) <=> startup'[x] # NoStartup
    BY <1>1, <2>1, StartupDropped
  <2>8. Ordered(fast')
    BY <1>1, <2>1, RecentLast, RemovedFirst DEF NextFast, MapTypes
  <2> QED BY <1>1, <2>1, <2>6, <2>7, <2>8 DEF MapTypes, Marked
<1>10. CASE Reads
  BY <1>1, <1>10, MapsRead DEF Reads, ReadAt
<1>11. CASE Seeds
  BY <1>1, <1>11, SeedsKept DEF Seeds
<1>12. CASE Chosen
  BY <1>9, <1>12 DEF Chosen
<1> QED BY <1>1, <1>2, <1>3, <1>4, <1>6, <1>7, <1>8, <1>10, <1>11, <1>12, RegistrySteps, AllDropped

-----------------------------------------------------------------------------
\* What a step may do to the Host, the accounts and the registry's callers.

LEMMA HostSteps ==
  ASSUME SpeedTypeOK, [SpeedNext]_speedVars
  PROVE  \/ UNCHANGED <<epoch, host, accounts>>
         \/ \E a \in Accounts : Command(a) \/ CommandDone(a) \/ Elsewhere(a)
         \/ \E s \in Session : SelectModel(s) \/ Close(s) \/ Resume(s)
<1>1. ASSUME NEW s \in Session, LegacyGet(s) \/ (\E on \in BOOLEAN : LegacySet(s, on))
      PROVE  UNCHANGED <<epoch, host, accounts>>
  BY <1>1 DEF LegacyGet, LegacySet
<1>2. ASSUME NEW s \in Session, Seed(s) \/ SeedRead(s) \/ Seeded(s) \/ SeedFails(s)
      PROVE  UNCHANGED <<epoch, host, accounts>>
  BY <1>2 DEF Seed, SeedRead, Seeded, SeedFails, SeedEnds, registry
<1>3. ASSUME NEW c \in Client, Ask(c) \/ ReadAccount(c) \/ Refuse(c) PROVE UNCHANGED <<epoch, host, accounts>>
  BY <1>3 DEF Ask, ReadAccount, Refuse, registry
<1>4. ASSUME NEW c \in Client, NEW m \in Model, AnswerRead(c, m) \/ \E mode \in Mode : Select(c, mode, m)
      PROVE  UNCHANGED <<epoch, host, accounts>>
  BY <1>4 DEF AnswerRead, ReadSpeed, Select
<1>5. ASSUME NEW r \in Request, NEW m \in Model, Admit(r, m) PROVE UNCHANGED <<epoch, host, accounts>>
  BY <1>5 DEF Admit, ReadSpeed, registry
<1>6. ASSUME NEW r \in Request, Capture(r) \/ Resolve(r) \/ Dispatch(r) \/ Expire(r) \/ Finish(r)
      PROVE  UNCHANGED <<epoch, host, accounts>>
  BY <1>6 DEF Capture, Resolve, Dispatch, Expire, Finish, registry
<1>7. CASE UNCHANGED speedVars
  BY <1>7 DEF speedVars, registry
<1>8. CASE AccountStep
  BY <1>8 DEF AccountStep, Accounts
<1>9. CASE HostStep
  BY <1>1, <1>2, <1>9 DEF HostStep
<1>10. CASE ClientStep
  BY <1>3, <1>4, <1>10 DEF ClientStep
<1>11. CASE RequestStep
  BY <1>5, <1>6, <1>11 DEF RequestStep
<1> QED BY <1>7, <1>8, <1>9, <1>10, <1>11 DEF SpeedNext

LEMMA HostTyped ==
  ASSUME SpeedTypeOK, Bounded, [SpeedNext]_speedVars
  PROVE  /\ moves' \in 0..MaxMoves /\ live' \subseteq Session
         /\ selection' \in [Session -> 1..MaxMoves + 1]
         /\ active' \in Accounts /\ commands' \subseteq Accounts /\ Bounded'
<1>1. /\ moves \in 0..MaxMoves /\ live \subseteq Session /\ selection \in [Session -> 1..MaxMoves + 1]
      /\ active \in Accounts /\ commands \subseteq Accounts /\ epoch \in 0..MaxMoves
      /\ epoch <= moves /\ \A s \in Session : selection[s] <= moves + 1
  BY SpeedTypeParts DEF MapTypes, CallerTypes, Bounded
<1>2. CASE UNCHANGED <<epoch, host, accounts>>
  BY <1>1, <1>2 DEF host, accounts, Bounded
<1>3. ASSUME NEW a \in Accounts, Command(a) PROVE moves' = moves + 1 /\ moves' \in 0..MaxMoves /\ Bounded'
  BY <1>1, <1>3, Bounds DEF Command, Move, CanMove, Bounded
<1>4. ASSUME NEW a \in Accounts, Elsewhere(a) PROVE moves' = moves + 1 /\ moves' \in 0..MaxMoves /\ Bounded'
  BY <1>1, <1>4, Bounds DEF Elsewhere, Move, CanMove, Bounded, registry
<1>5. ASSUME NEW a \in Accounts, CommandDone(a) PROVE UNCHANGED <<epoch, host>> /\ Bounded'
  BY <1>1, <1>5 DEF CommandDone, registry, host, Bounded
<1>6. ASSUME NEW a \in Accounts, Command(a) \/ CommandDone(a) \/ Elsewhere(a)
      PROVE  active' \in Accounts /\ commands' \subseteq Accounts
  BY <1>1, <1>6 DEF Command, CommandDone, Elsewhere
<1>7. ASSUME NEW a \in Accounts, Command(a) \/ CommandDone(a) \/ Elsewhere(a)
      PROVE  UNCHANGED <<live, selection>>
  BY <1>7 DEF Command, CommandDone, Elsewhere, host
<1>8. ASSUME NEW s \in Session, SelectModel(s) \/ Resume(s)
      PROVE  /\ moves' \in 0..MaxMoves /\ selection' \in [Session -> 1..MaxMoves + 1] /\ Bounded'
             /\ live' \subseteq Session /\ UNCHANGED accounts
  <2>1. /\ moves < MaxMoves /\ moves' = moves + 1 /\ epoch' = epoch /\ live' \in {live, live \cup {s}}
        /\ selection' = [selection EXCEPT ![s] = selection[s] + 1] /\ UNCHANGED accounts
    BY <1>8 DEF SelectModel, Resume, Move, CanMove, registry
  <2>2. \A x \in Session : selection'[x] \in 1..MaxMoves + 1 /\ selection'[x] <= moves' + 1
    BY <1>1, <2>1, Bounds
  <2> QED BY <1>1, <2>1, <2>2, Bounds DEF Bounded
<1>9. ASSUME NEW s \in Session, Close(s)
      PROVE  UNCHANGED <<epoch, selection, moves, accounts>> /\ live' \subseteq Session /\ Bounded'
  BY <1>1, <1>9 DEF Close, registry, Bounded
<1>10. CASE \E a \in Accounts : Command(a) \/ CommandDone(a) \/ Elsewhere(a)
  BY <1>1, <1>3, <1>4, <1>5, <1>6, <1>7, <1>10 DEF host
<1>11. CASE \E s \in Session : SelectModel(s) \/ Close(s) \/ Resume(s)
  BY <1>1, <1>8, <1>9, <1>11 DEF accounts
<1> QED BY <1>2, <1>10, <1>11, HostSteps

\* A generation that was given out stays given out.
LEMMA GenerationsGrow ==
  ASSUME SpeedTypeOK, Marked, [SpeedNext]_speedVars
  PROVE  generations' \in generations..MaxGeneration
<1>1. generations \in 0..MaxGeneration /\ MapTypes
  BY SpeedTypeParts DEF MapTypes
<1>2. generations' = generations \/ Reads
  BY RegistrySteps DEF registry, Touches, Retires, Command, SelectModel, Expire, Seeds, Seed, Seeded, SeedEnds,
                       Sets, LegacySet, Chosen, Select
<1>3. CASE Reads
  BY <1>1, <1>3, ModeRead DEF Reads, ReadAt
<1> QED BY <1>1, <1>2, <1>3, Bounds

LEMMA SeedTyped ==
  ASSUME SpeedTypeOK, [SpeedNext]_speedVars
  PROVE  seed' \in [Session -> [stage : {"no", "reading", "read", "over"}, account : Accounts]]
<1> DEFINE T == [stage : {"no", "reading", "read", "over"}, account : Accounts]
<1>1. seed \in [Session -> T] /\ active \in Accounts /\ NoAccount \in Accounts
  BY SpeedTypeParts DEF CallerTypes, Accounts
<1>2. ASSUME NEW s \in Session, Seed(s) PROVE seed' \in [Session -> T]
  BY <1>1, <1>2 DEF Seed
<1>3. ASSUME NEW s \in Session, SeedRead(s) \/ SeedEnds(s) PROVE seed' \in [Session -> T]
  BY <1>1, <1>3 DEF SeedRead, SeedEnds
<1>4. CASE AccountStep
  BY <1>1, <1>4 DEF AccountStep, Command, CommandDone, Elsewhere
<1>5. CASE HostStep
  <2>1. ASSUME NEW s \in Session, SelectModel(s) \/ Close(s) \/ Resume(s) \/ LegacyGet(s)
                                  \/ (\E on \in BOOLEAN : LegacySet(s, on))
        PROVE  seed' = seed
    BY <2>1 DEF SelectModel, Close, Resume, LegacyGet, LegacySet
  <2> QED BY <1>1, <1>2, <1>3, <1>5, <2>1 DEF HostStep, Seeded, SeedFails
<1>6. CASE ClientStep
  BY <1>1, <1>6 DEF ClientStep, Ask, ReadAccount, Refuse, AnswerRead, Select
<1>7. CASE RequestStep
  BY <1>1, <1>7 DEF RequestStep, Admit, Capture, Resolve, Dispatch, Expire, Finish
<1>8. CASE UNCHANGED speedVars
  BY <1>1, <1>8 DEF speedVars
<1> QED BY <1>4, <1>5, <1>6, <1>7, <1>8 DEF SpeedNext

\* What a step does to the handler and the page of a client.
LEMMA ClientSteps ==
  ASSUME SpeedTypeOK, [SpeedNext]_speedVars
  PROVE  /\ \/ handler' = handler
            \/ \E c \in Client : \/ Ask(c) \/ ReadAccount(c)
                                 \/ handler' = [handler EXCEPT ![c] = NoHandler]
         /\ \/ UNCHANGED <<page, fresh>>
            \/ \E a \in Accounts : Command(a)
            \/ \E s \in Session : SelectModel(s)
            \/ Sets \/ Chosen
            \/ \E c \in Client, m \in Model : /\ AnswerRead(c, m) /\ page' = Shown(c, SessionOf[c])
                                              /\ fresh' = [fresh EXCEPT ![c] = TRUE]
<1>1. CASE AccountStep
  <2>1. PICK a \in Accounts : Command(a) \/ CommandDone(a) \/ Elsewhere(a)
    BY <1>1 DEF AccountStep, Accounts
  <2> QED BY <2>1 DEF Command, CommandDone, Elsewhere, history
<1>2. CASE HostStep
  <2>1. PICK s \in Session : \/ SelectModel(s) \/ Close(s) \/ Resume(s) \/ LegacyGet(s)
                             \/ Seed(s) \/ SeedRead(s) \/ Seeded(s) \/ SeedFails(s)
                             \/ \E on \in BOOLEAN : LegacySet(s, on)
    BY <1>2 DEF HostStep
  <2>2. handler' = handler
    BY <2>1 DEF SelectModel, Close, Resume, LegacyGet, LegacySet, Seed, SeedRead, Seeded, SeedFails, SeedEnds
  <2>3. UNCHANGED <<page, fresh>> \/ SelectModel(s) \/ \E on \in BOOLEAN : LegacySet(s, on)
    BY <2>1 DEF Close, Resume, LegacyGet, Seed, SeedRead, Seeded, SeedFails, SeedEnds, history
  <2> QED BY <2>2, <2>3 DEF Sets
<1>3. CASE ClientStep
  <2>1. ASSUME NEW c \in Client, Ask(c) \/ ReadAccount(c) \/ Refuse(c)
        PROVE  /\ Ask(c) \/ ReadAccount(c) \/ handler' = [handler EXCEPT ![c] = NoHandler]
               /\ UNCHANGED <<page, fresh>>
    BY <2>1 DEF Ask, ReadAccount, Refuse, history
  <2>2. ASSUME NEW c \in Client, NEW m \in Model, AnswerRead(c, m)
        PROVE  /\ handler' = [handler EXCEPT ![c] = NoHandler]
               /\ UNCHANGED <<page, fresh>> \/ (page' = Shown(c, SessionOf[c]) /\ fresh' = [fresh EXCEPT ![c] = TRUE])
    BY <2>2 DEF AnswerRead
  <2>3. ASSUME NEW c \in Client, NEW m \in Model, NEW mode \in Mode, Select(c, mode, m)
        PROVE  handler' = [handler EXCEPT ![c] = NoHandler] /\ Chosen
    BY <2>3 DEF Select, Chosen
  <2> QED BY <1>3, <2>1, <2>2, <2>3 DEF ClientStep
<1>4. CASE RequestStep
  BY <1>4 DEF RequestStep, Admit, Capture, Resolve, Dispatch, Expire, Finish, history
<1>5. CASE UNCHANGED speedVars
  BY <1>5 DEF speedVars, history
<1> QED BY <1>1, <1>2, <1>3, <1>4, <1>5 DEF SpeedNext

LEMMA ClientsTyped ==
  ASSUME SpeedTypeOK, Marked, MapTypes', [SpeedNext]_speedVars
  PROVE  /\ handler' \in [Client -> [stage : {"idle", "placed", "scoped"}, place : PlaceType, account : Accounts]]
         /\ page' \in [Client -> [gen : 0..generations', rev : 0..MaxRevision]]
         /\ fresh' \in [Client -> BOOLEAN]
<1> DEFINE H == [stage : {"idle", "placed", "scoped"}, place : PlaceType, account : Accounts]
<1>1. /\ handler \in [Client -> H] /\ page \in [Client -> [gen : 0..generations, rev : 0..MaxRevision]]
      /\ fresh \in [Client -> BOOLEAN] /\ active \in Accounts /\ NoHandler \in H
  BY SpeedTypeParts, NothingTyped, Bounds DEF CallerTypes
<1>2. ASSUME NEW c \in Client, Ask(c) PROVE handler' \in [Client -> H]
  <2>1. Place(SessionOf[c]) \in PlaceType
    BY SpeedTypeParts, PlaceTyped, Bounds
  <2> DEFINE e == [handler[c] EXCEPT !.stage = "placed", !.place = Place(SessionOf[c])]
  <2>2. handler' = [handler EXCEPT ![c] = e]
    BY <1>1, <1>2 DEF Ask
  <2>3. e \in H
    BY <1>1, <2>1
  <2> HIDE DEF e
  <2> QED BY <1>1, <2>2, <2>3
<1>3. ASSUME NEW c \in Client, ReadAccount(c) PROVE handler' \in [Client -> H]
  <2> DEFINE e == [handler[c] EXCEPT !.stage = "scoped", !.account = active]
  <2>2. handler' = [handler EXCEPT ![c] = e]
    BY <1>1, <1>3 DEF ReadAccount
  <2>3. e \in H
    BY <1>1
  <2> HIDE DEF e
  <2> QED BY <1>1, <2>2, <2>3
<1>4. handler' \in [Client -> H]
  BY <1>1, <1>2, <1>3, ClientSteps
<1> DEFINE P == [gen : 0..generations', rev : 0..MaxRevision]
<1>5. page \in [Client -> P]
  <2>1. generations \in Nat /\ generations' \in Nat /\ generations <= generations'
    BY GenerationsGrow, SpeedTypeParts, Bounds DEF MapTypes
  <2>2. 0..generations \subseteq 0..generations'
    BY <2>1
  <2> QED BY <1>1, <2>2
<1>6. ASSUME NEW c \in Client, page' = Shown(c, SessionOf[c]) PROVE page' \in [Client -> P]
  <2>1. control'[SessionOf[c]] \in Controls(generations')
    BY Bounds DEF MapTypes
  <2> QED BY <1>5, <1>6, <2>1 DEF Shown, Controls
<1>7. page' \in [Client -> P]
  <2>1. page' = page \/ \E c \in Client : page' = Shown(c, SessionOf[c])
    BY ClientSteps DEF Command, SelectModel, Sets, LegacySet, Chosen, Select
  <2> QED BY <1>5, <1>6, <2>1
<1>8. fresh' \in [Client -> BOOLEAN]
  <2>1. CASE Chosen
    <3>1. PICK c \in Client, s \in Session : fresh' = [d \in Client |-> d = c \/ (fresh[d] /\ SessionOf[d] # s)]
      BY <2>1, Bounds DEF Chosen, Select
    <3> QED BY <1>1, <3>1
  <2>2. CASE Sets
    <3>1. PICK s \in Session : fresh' = [c \in Client |-> fresh[c] /\ SessionOf[c] # s]
      BY <2>2 DEF Sets, LegacySet, Decide
    <3> QED BY <1>1, <3>1
  <2>3. CASE (\E a \in Accounts : Command(a)) \/ (\E s \in Session : SelectModel(s))
    <3>1. PICK S : fresh' = [c \in Client |-> fresh[c] /\ SessionOf[c] \notin S]
      BY <2>3 DEF Command, SelectModel, Withdraw
    <3> QED BY <1>1, <3>1
  <2>4. CASE \E c \in Client : fresh' = [fresh EXCEPT ![c] = TRUE]
    BY <1>1, <2>4
  <2> QED BY <1>1, <2>1, <2>2, <2>3, <2>4, ClientSteps
<1> QED BY <1>4, <1>7, <1>8

\* What a step does to the requests.
LEMMA StreamSteps ==
  ASSUME SpeedTypeOK, [SpeedNext]_speedVars
  PROVE  /\ \/ request' = request
            \/ \E r \in Request, m \in Model : request' = [request EXCEPT ![r].stage = "admitted", ![r].model = m]
            \/ \E r \in Request : \/ Capture(r) \/ Resolve(r) \/ Dispatch(r) \/ Expire(r)
                                  \/ request' = [request EXCEPT ![r] = NoRequest]
         /\ \/ owed' = owed
            \/ \E a \in Accounts : Command(a)
            \/ \E s \in Session : SelectModel(s) \/ Close(s) \/ Resume(s)
            \/ \E r \in Request : Capture(r) \/ Finish(r)
<1>1. CASE AccountStep
  <2>1. PICK a \in Accounts : Command(a) \/ CommandDone(a) \/ Elsewhere(a)
    BY <1>1 DEF AccountStep, Accounts
  <2> QED BY <2>1 DEF Command, CommandDone, Elsewhere, history
<1>2. CASE HostStep
  <2>1. PICK s \in Session : \/ SelectModel(s) \/ Close(s) \/ Resume(s) \/ LegacyGet(s)
                             \/ Seed(s) \/ SeedRead(s) \/ Seeded(s) \/ SeedFails(s)
                             \/ \E on \in BOOLEAN : LegacySet(s, on)
    BY <1>2 DEF HostStep
  <2>2. request' = request
    BY <2>1 DEF SelectModel, Close, Resume, LegacyGet, LegacySet, Seed, SeedRead, Seeded, SeedFails, SeedEnds
  <2>3. owed' = owed \/ SelectModel(s) \/ Close(s) \/ Resume(s)
    BY <2>1 DEF LegacyGet, LegacySet, Seed, SeedRead, Seeded, SeedFails, SeedEnds, history
  <2> QED BY <2>2, <2>3
<1>3. CASE ClientStep
  BY <1>3 DEF ClientStep, Ask, ReadAccount, Refuse, AnswerRead, Select, history
<1>4. CASE RequestStep
  <2>1. ASSUME NEW r \in Request, NEW m \in Model, Admit(r, m)
        PROVE  /\ request' \in {request, [request EXCEPT ![r].stage = "admitted", ![r].model = m]}
               /\ owed' = owed
    BY <2>1, AdmitSteps DEF history
  <2>2. ASSUME NEW r \in Request, Resolve(r) \/ Dispatch(r) \/ Expire(r) PROVE owed' = owed
    BY <2>2 DEF Resolve, Dispatch, Expire, history
  <2>3. ASSUME NEW r \in Request, Finish(r) PROVE request' = [request EXCEPT ![r] = NoRequest]
    BY <2>3 DEF Finish
  <2> QED BY <1>4, <2>1, <2>2, <2>3 DEF RequestStep
<1>5. CASE UNCHANGED speedVars
  BY <1>5 DEF speedVars, history
<1> QED BY <1>1, <1>2, <1>3, <1>4, <1>5 DEF SpeedNext

LEMMA CaptureTyped ==
  ASSUME MapTypes, NEW s \in Session
  PROVE  /\ Captured(s) \in Captures(generations)
         /\ Captured(s).mode = "ultrafast" => /\ control[s].mode = "ultrafast"
                                              /\ Captured(s).scope = control[s].scope
<1>1. control[s] \in Controls(generations) /\ NoCapture \in Captures(generations)
  BY NothingTyped, Bounds DEF MapTypes
<1>2. CASE Contains(fast, s)
  <2> DEFINE x == [NoCapture EXCEPT !.mode = "fast"]
  <2>1. Captured(s) = x
    BY <1>2 DEF Captured
  <2>2. x \in Captures(generations) /\ x.mode = "fast"
    BY <1>1 DEF Captures, Mode
  <2> HIDE DEF x
  <2> QED BY <2>1, <2>2
<1>3. CASE ~Contains(fast, s) /\ control[s].mode = "ultrafast"
  <2>1. Captured(s) = [mode |-> "ultrafast", gen |-> control[s].gen, scope |-> control[s].scope,
                       expired |-> control[s].expired]
    BY <1>3 DEF Captured
  <2> QED BY <1>1, <1>3, <2>1 DEF Controls, Captures
<1>4. CASE ~Contains(fast, s) /\ control[s].mode # "ultrafast"
  <2>1. Captured(s) = NoCapture
    BY <1>4 DEF Captured
  <2> QED BY <1>1, <2>1 DEF NoCapture
<1> QED BY <1>2, <1>3, <1>4

\* What a request holds after a step: as before, nothing, what it captures now,
\* or the same as expired.
LEMMA StreamKept ==
  ASSUME SpeedTypeOK, [SpeedNext]_speedVars, NEW r \in Request
  PROVE  /\ request' \in [Request -> Streams(generations)]
         /\ \/ request'[r].captured \in {request[r].captured, NoCapture}
            \/ Capture(r) /\ request'[r].captured = Captured(SessionOf[r])
            \/ /\ request'[r].captured.expired
               /\ request'[r].captured.mode = request[r].captured.mode
               /\ request'[r].captured.scope = request[r].captured.scope
<1>1. /\ request \in [Request -> Streams(generations)] /\ MapTypes /\ active \in Accounts
      /\ generations \in Nat
  BY SpeedTypeParts, Bounds DEF StreamTypes, CallerTypes, MapTypes
<1>2. NoRequest \in Streams(generations) /\ NoCapture \in Captures(generations) /\ NoAccount \in Accounts
  BY <1>1, NothingTyped DEF Accounts
<1>3. ASSUME NEW q \in Request, NEW e, e \in Streams(generations), request' = [request EXCEPT ![q] = e],
             \/ e.captured \in {request[q].captured, NoCapture}
             \/ Capture(q) /\ e.captured = Captured(SessionOf[q])
             \/ /\ e.captured.expired /\ e.captured.mode = request[q].captured.mode
                /\ e.captured.scope = request[q].captured.scope
      PROVE  /\ request' \in [Request -> Streams(generations)]
             /\ \/ request'[r].captured \in {request[r].captured, NoCapture}
                \/ Capture(r) /\ request'[r].captured = Captured(SessionOf[r])
                \/ /\ request'[r].captured.expired
                   /\ request'[r].captured.mode = request[r].captured.mode
                   /\ request'[r].captured.scope = request[r].captured.scope
  BY <1>1, <1>3
<1>4. ASSUME NEW q \in Request, NEW m \in Model,
             request' = [request EXCEPT ![q].stage = "admitted", ![q].model = m]
      PROVE  \E e \in Streams(generations) : /\ request' = [request EXCEPT ![q] = e]
                                             /\ e.captured = request[q].captured
  <2> DEFINE e == [request[q] EXCEPT !.stage = "admitted", !.model = m]
  <2>1. request' = [request EXCEPT ![q] = e]
    BY <1>1, <1>4
  <2>2. e \in Streams(generations) /\ e.captured = request[q].captured
    BY <1>1 DEF Streams
  <2> HIDE DEF e
  <2> QED BY <2>1, <2>2
<1>5. ASSUME NEW q \in Request, Capture(q)
      PROVE  \E e \in Streams(generations) : /\ request' = [request EXCEPT ![q] = e]
                                             /\ e.captured \in {NoCapture, Captured(SessionOf[q])}
  <2>1. PICK x \in {NoCapture, Captured(SessionOf[q])} :
          request' = [request EXCEPT ![q].stage = "captured", ![q].captured = x]
    BY <1>5 DEF Capture
  <2>2. x \in Captures(generations)
    BY <1>1, <1>2, <2>1, CaptureTyped, Bounds
  <2> DEFINE e == [request[q] EXCEPT !.stage = "captured", !.captured = x]
  <2>3. request' = [request EXCEPT ![q] = e]
    BY <1>1, <2>1
  <2>4. e \in Streams(generations) /\ e.captured = x
    BY <1>1, <2>2 DEF Streams
  <2> HIDE DEF e
  <2> QED BY <2>1, <2>3, <2>4
<1>6. ASSUME NEW q \in Request, Resolve(q) \/ Dispatch(q)
      PROVE  \E e \in Streams(generations) : /\ request' = [request EXCEPT ![q] = e]
                                             /\ e.captured = request[q].captured
  <2>1. PICK stage \in {"resolved", "captured"}, a \in Accounts :
          request' = [Stage(q, stage) EXCEPT ![q].account = a]
    BY <1>1, <1>2, <1>6 DEF Resolve, Dispatch
  <2> DEFINE e == [request[q] EXCEPT !.stage = stage, !.account = a]
  <2>2. request' = [request EXCEPT ![q] = e]
    BY <1>1, <2>1 DEF Stage
  <2>3. e \in Streams(generations) /\ e.captured = request[q].captured
    BY <1>1 DEF Streams
  <2> HIDE DEF e
  <2> QED BY <2>2, <2>3
<1>7. ASSUME NEW q \in Request, Expire(q)
      PROVE  \E e \in Streams(generations) :
               /\ request' = [request EXCEPT ![q] = e]
               /\ e.captured.expired /\ e.captured.mode = request[q].captured.mode
               /\ e.captured.scope = request[q].captured.scope
  <2> DEFINE x == [request[q].captured EXCEPT !.expired = TRUE]
             e == [request[q] EXCEPT !.stage = "captured", !.captured = x, !.account = NoAccount]
  <2>1. request' = [request EXCEPT ![q] = e]
    BY <1>1, <1>7 DEF Expire, Stage
  <2>2. /\ x \in Captures(generations) /\ x.expired /\ x.mode = request[q].captured.mode
        /\ x.scope = request[q].captured.scope
    BY <1>1 DEF Streams, Captures
  <2> HIDE DEF x
  <2>3. e \in Streams(generations) /\ e.captured = x
    BY <1>1, <1>2, <2>2 DEF Streams
  <2> HIDE DEF e
  <2> QED BY <2>1, <2>2, <2>3
<1>8. ASSUME NEW q \in Request, request' = [request EXCEPT ![q] = NoRequest]
      PROVE  \E e \in Streams(generations) : /\ request' = [request EXCEPT ![q] = e]
                                             /\ e.captured = NoCapture
  BY <1>2, <1>8 DEF NoRequest
<1>9. CASE request' = request
  BY <1>1, <1>9
<1>10. ASSUME NEW q \in Request, NEW m \in Model,
              request' = [request EXCEPT ![q].stage = "admitted", ![q].model = m]
       PROVE  /\ request' \in [Request -> Streams(generations)]
              /\ request'[r].captured \in {request[r].captured, NoCapture}
  BY <1>1, <1>4, <1>10
<1>11. ASSUME NEW q \in Request, Capture(q) \/ Resolve(q) \/ Dispatch(q) \/ Expire(q)
                                 \/ request' = [request EXCEPT ![q] = NoRequest]
       PROVE  /\ request' \in [Request -> Streams(generations)]
              /\ \/ request'[r].captured \in {request[r].captured, NoCapture}
                 \/ Capture(r) /\ request'[r].captured = Captured(SessionOf[r])
                 \/ /\ request'[r].captured.expired
                    /\ request'[r].captured.mode = request[r].captured.mode
                    /\ request'[r].captured.scope = request[r].captured.scope
  <2>1. CASE Capture(q)
    BY <1>3, <1>5, <2>1
  <2>2. CASE Resolve(q) \/ Dispatch(q)
    BY <1>3, <1>6, <2>2
  <2>3. CASE Expire(q)
    BY <1>3, <1>7, <2>3
  <2>4. CASE request' = [request EXCEPT ![q] = NoRequest]
    BY <1>3, <1>8, <2>4
  <2> QED BY <1>11, <2>1, <2>2, <2>3, <2>4
<1> QED BY <1>9, <1>10, <1>11, StreamSteps

LEMMA StreamsTyped ==
  ASSUME SpeedTypeOK, Marked, [SpeedNext]_speedVars
  PROVE  StreamTypes'
<1>1. request' \in [Request -> Streams(generations')]
  <2>1. CASE Request = {}
    <3>1. request = [r \in Request |-> NoRequest]
      BY <2>1, SpeedTypeParts DEF StreamTypes
    <3>2. request' = request
      BY <2>1, <3>1, StreamSteps
    <3> QED BY <2>1, <3>1, <3>2
  <2>2. CASE Request # {}
    <3>1. request' \in [Request -> Streams(generations)]
      BY <2>2, StreamKept
    <3>2. generations \in Nat /\ generations' \in Nat /\ generations <= generations'
      BY GenerationsGrow, SpeedTypeParts, Bounds DEF MapTypes
    <3>3. Streams(generations) \subseteq Streams(generations')
      BY <3>2, TypesGrow
    <3> QED BY <3>1, <3>3
  <2> QED BY <2>1, <2>2
<1>2. owed' \in [Request -> BOOLEAN]
  <2>0. owed \in [Request -> BOOLEAN] /\ paid \in [Session -> BOOLEAN]
    BY SpeedTypeParts DEF StreamTypes, CallerTypes
  <2>1. CASE (\E a \in Accounts : Command(a)) \/ (\E s \in Session : SelectModel(s) \/ Close(s) \/ Resume(s))
    <3>1. PICK S : owed' = [r \in Request |-> owed[r] /\ SessionOf[r] \notin S]
      BY <2>1 DEF Command, SelectModel, Close, Resume, Withdraw, Outdate
    <3> QED BY <2>0, <3>1
  <2>2. CASE \E r \in Request : Capture(r) \/ Finish(r)
    <3>1. PICK r \in Request, b \in BOOLEAN : owed' = [owed EXCEPT ![r] = b]
      BY <2>0, <2>2, Bounds DEF Capture, Finish
    <3> QED BY <2>0, <3>1
  <2> QED BY <2>0, <2>1, <2>2, StreamSteps
<1> QED BY <1>1, <1>2 DEF StreamTypes

\* What a step does to the decisions.
LEMMA DecisionSteps ==
  ASSUME SpeedTypeOK, [SpeedNext]_speedVars
  PROVE  \/ UNCHANGED <<epoch, live, selection, paid>>
         \/ \E a \in Accounts : Command(a)
         \/ \E s \in Session : SelectModel(s) \/ Close(s) \/ Resume(s) \/ Seed(s)
         \/ Sets \/ Chosen
<1>1. paid' = paid \/ (\E a \in Accounts : Command(a))
      \/ (\E s \in Session : SelectModel(s) \/ Close(s) \/ Resume(s) \/ Seed(s)) \/ Sets \/ Chosen
  <2>1. CASE AccountStep
    <3>1. PICK a \in Accounts : Command(a) \/ CommandDone(a) \/ Elsewhere(a)
      BY <2>1 DEF AccountStep, Accounts
    <3> QED BY <3>1 DEF CommandDone, Elsewhere, history
  <2>2. CASE HostStep
    <3>1. PICK s \in Session : \/ SelectModel(s) \/ Close(s) \/ Resume(s) \/ LegacyGet(s)
                               \/ Seed(s) \/ SeedRead(s) \/ Seeded(s) \/ SeedFails(s)
                               \/ \E on \in BOOLEAN : LegacySet(s, on)
      BY <2>2 DEF HostStep
    <3> QED BY <3>1 DEF LegacyGet, SeedRead, Seeded, SeedFails, SeedEnds, Sets, history
  <2>3. CASE ClientStep
    BY <2>3 DEF ClientStep, Ask, ReadAccount, Refuse, AnswerRead, Chosen, history
  <2>4. CASE RequestStep
    BY <2>4 DEF RequestStep, Admit, Capture, Resolve, Dispatch, Expire, Finish, history
  <2>5. CASE UNCHANGED speedVars
    BY <2>5 DEF speedVars, history
  <2> QED BY <2>1, <2>2, <2>3, <2>4, <2>5 DEF SpeedNext
<1>2. \/ UNCHANGED <<epoch, live, selection>> \/ (\E a \in Accounts : Command(a))
      \/ (\E s \in Session : SelectModel(s) \/ Close(s) \/ Resume(s))
  <2>1. ASSUME NEW a \in Accounts, CommandDone(a) \/ Elsewhere(a) PROVE UNCHANGED <<epoch, live, selection>>
    BY <2>1 DEF CommandDone, Elsewhere, registry, host
  <2> QED BY <2>1, HostSteps DEF host
<1> QED BY <1>1, <1>2

LEMMA DecisionsTyped ==
  ASSUME SpeedTypeOK, [SpeedNext]_speedVars
  PROVE  paid' \in [Session -> BOOLEAN]
<1>0. paid \in [Session -> BOOLEAN]
  BY SpeedTypeParts DEF CallerTypes
<1>1. CASE (\E a \in Accounts : Command(a)) \/ (\E s \in Session : SelectModel(s) \/ Close(s) \/ Resume(s))
  <2>1. PICK S : paid' = [s \in Session |-> paid[s] /\ s \notin S]
    BY <1>1 DEF Command, SelectModel, Close, Resume, Withdraw, Outdate
  <2> QED BY <1>0, <2>1
<1>2. CASE (\E s \in Session : Seed(s)) \/ Sets \/ Chosen
  <2>1. PICK s \in Session, b \in BOOLEAN : paid' = [paid EXCEPT ![s] = b] \/ paid' = paid
    BY <1>0, <1>2, Bounds DEF Seed, Sets, LegacySet, Decide, Chosen, Select
  <2> QED BY <1>0, <2>1
<1> QED BY <1>0, <1>1, <1>2, DecisionSteps

LEMMA SpeedTyped ==
  ASSUME SpeedTypeOK, Marked, Bounded, [SpeedNext]_speedVars
  PROVE  SpeedTypeOK' /\ Marked' /\ Bounded'
<1>1. MapTypes' /\ Marked'
  BY MapsTyped
<1>2. CallerTypes' /\ Bounded'
  BY <1>1, HostTyped, SeedTyped, ClientsTyped, DecisionsTyped DEF CallerTypes
<1>3. StreamTypes'
  BY StreamsTyped
<1> QED BY <1>1, <1>2, <1>3, SpeedTypeParts

-----------------------------------------------------------------------------
\* The modes exclude each other.

LEMMA ModesKept ==
  ASSUME SpeedTypeOK, Marked, ModesExclusive, [SpeedNext]_speedVars
  PROVE  ModesExclusive'
<1>1. MapTypes
  BY SpeedTypeParts
<1>2. CASE UNCHANGED registry
  BY <1>2 DEF registry, ModesExclusive
<1>3. CASE Touches
  BY <1>1, <1>3, Touched DEF Touches, MapTypes, ModesExclusive
<1>4. CASE Retires
  <2>1. PICK s \in Session : DropStartup(s) /\ UNCHANGED <<epoch, control, controls, fast, generations>>
    BY <1>4 DEF Retires
  <2>2. \A x \in Session : startup'[x] \in {startup[x], NoStartup}
    BY <1>1, <2>1, StartupDropped
  <2> QED BY <2>1, <2>2 DEF ModesExclusive
<1>5. ASSUME NEW a \in Accounts, Command(a) PROVE ModesExclusive'
  BY <1>5 DEF Command, ModesExclusive, NoControl
<1>6. ASSUME NEW s \in Session, DropControl(s), DropStartup(s),
             \A x : Contains(fast', x) => x = s \/ Contains(fast, x)
      PROVE  ModesExclusive'
  <2>1. /\ \A x \in Session : startup'[x] \in {startup[x], NoStartup}
        /\ \A x \in Session : control'[x] \in {control[x], NoControl}
        /\ control'[s] = NoControl /\ startup'[s] = NoStartup
    BY <1>1, <1>6, StartupDropped, ControlDropped
  <2> QED BY <1>6, <2>1 DEF ModesExclusive, NoControl
<1>7. ASSUME NEW s \in Session, SelectModel(s) PROVE ModesExclusive'
  BY <1>6, <1>7 DEF SelectModel
<1>8. CASE Sets
  <2>1. PICK s \in Session, on \in BOOLEAN : LegacySet(s, on)
    BY <1>8 DEF Sets
  <2>2. \A x : Contains(fast', x) => x = s \/ Contains(fast, x)
    BY <1>1, <2>1, RecentLast, RemovedFirst DEF LegacySet, MapTypes
  <2> QED BY <1>6, <2>1, <2>2 DEF LegacySet
<1>9. ASSUME NEW r \in Request, Expire(r) PROVE ModesExclusive'
  <2> DEFINE s == SessionOf[r]
  <2>1. fast' = Touch(fast, s) /\ startup' = startup /\ s \in Session
    BY <1>9, Bounds DEF Expire
  <2>2. \A x \in Session : control'[x].mode = control[x].mode
    BY <1>9, ExpiryElsewhere
  <2>3. \A x : Contains(fast', x) <=> Contains(fast, x)
    BY <1>1, <2>1, Touched DEF MapTypes
  <2> QED BY <2>1, <2>2, <2>3 DEF ModesExclusive
<1>10. ASSUME NEW c \in Client, NEW m \in Model, NEW mode \in Mode, Select(c, mode, m) PROVE ModesExclusive'
  <2> DEFINE s == SessionOf[c]
  <2>1. fast' = NextFast(s, mode) /\ DropStartup(s) /\ s \in Session
    BY <1>10, Bounds DEF Select
  <2>2. /\ control'[s].mode = mode
        /\ \A x \in Session \ {s} : control'[x] = control[x]
    BY <1>10, ChoiceElsewhere
  <2>3. /\ \A x \in Session : startup'[x] \in {startup[x], NoStartup}
        /\ startup'[s] = NoStartup
    BY <1>1, <2>1, StartupDropped
  <2>4. /\ \A x : Contains(fast', x) => x = s \/ Contains(fast, x)
        /\ Contains(fast', s) => mode = "fast"
    BY <1>1, <2>1, RecentLast, RemovedFirst DEF NextFast, MapTypes
  <2> QED BY <2>2, <2>3, <2>4 DEF ModesExclusive
<1>11. CASE Seeds
  <2>1. PICK s \in Session : Seed(s) \/ Seeded(s)
    BY <1>11 DEF Seeds
  <2>2. control' = control
    BY <2>1 DEF Seed, Seeded, SeedEnds
  <2>3. CASE Seeded(s)
    <3>1. fast' = fast /\ \A x \in Session : startup[x] = NoStartup => startup'[x] = NoStartup
      BY <1>1, <2>3 DEF Seeded, SeedEnds, MapTypes, NoStartup
    <3> QED BY <2>2, <3>1 DEF ModesExclusive
  <2>4. CASE Seed(s) /\ (control[s] # NoControl \/ Contains(fast, s))
    <3>1. startup' = startup /\ (fast' = fast \/ fast' = Touch(fast, s))
      BY <2>4 DEF Seed
    <3>2. \A x : Contains(fast', x) <=> Contains(fast, x)
      BY <1>1, <3>1, Touched DEF MapTypes
    <3> QED BY <2>2, <3>1, <3>2 DEF ModesExclusive
  <2>5. CASE Seed(s) /\ ~(control[s] # NoControl \/ Contains(fast, s))
    <3>1. fast' = fast /\ ~Contains(fast, s) /\ \A x \in Session \ {s} : startup'[x] \in {startup[x], NoStartup}
      BY <2>5 DEF Seed
    <3> QED BY <2>2, <3>1 DEF ModesExclusive
  <2> QED BY <2>1, <2>3, <2>4, <2>5
<1>12. ASSUME NEW s \in Session, NEW sc \in ScopeType, ReadAt(s, sc) PROVE ModesExclusive'
  <2>0. ReadSpeed(s, sc)
    BY <1>12 DEF ReadAt
  <2>1. /\ \A x \in Session \ {s} : control'[x] \in {control[x], NoControl}
        /\ \A x \in Session : startup'[x] \in {startup[x], NoStartup}
        /\ \A x : Contains(fast', x) => Contains(fast, x)
    BY <1>1, <2>0, MapsRead
  <2>2. /\ control'[s].mode = "ultrafast" => control[s].mode = "ultrafast" \/ Applies(s, sc)
    BY <1>1, <2>0, ModeRead
  <2>3. Applies(s, sc) => startup[s] # NoStartup
    BY DEF Applies, Due, NoStartup
  <2> QED BY <2>1, <2>2, <2>3 DEF ModesExclusive, NoControl
<1> QED BY <1>2, <1>3, <1>4, <1>5, <1>7, <1>8, <1>9, <1>10, <1>11, <1>12, RegistrySteps DEF Chosen, Reads

-----------------------------------------------------------------------------
\* Where choices were made.

\* A place that the session was at, now or before.
Past(p, s) == p[1] <= epoch /\ p[2] <= selection[s]

\* Everything that is bound to a place was bound to one the session was at.
RegistryPlaces == \A s \in Session : Past(control[s].scope.place, s) /\ Past(startup[s].place, s)
CallerPlaces == /\ \A c \in Client : Past(handler[c].place, SessionOf[c])
                /\ \A r \in Request : Past(request[r].captured.scope.place, SessionOf[r])
Places == RegistryPlaces /\ CallerPlaces

\* A paid choice was made where there was a session.
Located == /\ \A s \in Session : control[s].mode = "ultrafast" => control[s].scope.place[2] >= 1
           /\ \A r \in Request : request[r].captured.mode = "ultrafast" => request[r].captured.scope.place[2] >= 1

LEMMA PlacesOfTypes ==
  ASSUME SpeedTypeOK
  PROVE  /\ epoch \in Nat /\ \A s \in Session : selection[s] \in Nat /\ selection[s] >= 1
         /\ \A s \in Session : control[s].scope.place \in Nat \X Nat /\ startup[s].place \in Nat \X Nat
         /\ \A c \in Client : handler[c].place \in Nat \X Nat
         /\ \A r \in Request : request[r].captured.scope.place \in Nat \X Nat
         /\ \A s \in Session : Place(s) \in Nat \X Nat
<1>1. MapTypes /\ CallerTypes /\ StreamTypes
  BY SpeedTypeParts
<1>2. PlaceType \subseteq Nat \X Nat
  BY Bounds DEF PlaceType
<1>3. epoch \in Nat /\ \A s \in Session : selection[s] \in Nat /\ selection[s] >= 1
  BY <1>1, Bounds DEF MapTypes, CallerTypes
<1>4. \A s \in Session : control[s].scope.place \in PlaceType /\ startup[s].place \in PlaceType
  BY <1>1 DEF MapTypes, Controls, Startups, ScopeType
<1>5. \A c \in Client : handler[c].place \in PlaceType
  BY <1>1 DEF CallerTypes
<1>6. \A r \in Request : request[r].captured.scope.place \in PlaceType
  BY <1>1 DEF StreamTypes, Streams, Captures, ScopeType
<1> QED BY <1>1, <1>2, <1>3, <1>4, <1>5, <1>6, PlaceTyped

\* Accounts and selections only move on.
LEMMA Onward ==
  ASSUME SpeedTypeOK, [SpeedNext]_speedVars, NEW s \in Session
  PROVE  /\ epoch' \in Nat /\ epoch' >= epoch
         /\ selection'[s] \in Nat /\ selection'[s] >= selection[s]
<1>1. epoch \in Nat /\ selection \in [Session -> Nat]
  BY SpeedTypeParts, Bounds DEF MapTypes, CallerTypes
<1>2. CASE UNCHANGED <<epoch, host, accounts>>
  BY <1>1, <1>2 DEF host
<1>3. ASSUME NEW a \in Accounts, Command(a) PROVE epoch' = epoch + 1 /\ selection' = selection
  BY <1>3 DEF Command
<1>4. ASSUME NEW a \in Accounts, CommandDone(a) \/ Elsewhere(a) PROVE epoch' = epoch /\ selection' = selection
  BY <1>4 DEF CommandDone, Elsewhere, registry, host
<1>5. ASSUME NEW x \in Session, SelectModel(x) \/ Resume(x)
      PROVE  epoch' = epoch /\ selection' = [selection EXCEPT ![x] = selection[x] + 1]
  BY <1>5 DEF SelectModel, Resume, registry
<1>6. ASSUME NEW x \in Session, Close(x) PROVE epoch' = epoch /\ selection' = selection
  BY <1>6 DEF Close, registry
<1> QED BY <1>1, <1>2, <1>3, <1>4, <1>5, <1>6, HostSteps

\* A place that was past, the place of the session and no place are past after.
LEMMA StaysPast ==
  ASSUME SpeedTypeOK, [SpeedNext]_speedVars, NEW s \in Session, NEW p \in Nat \X Nat,
         Past(p, s) \/ p = Place(s) \/ p = NoPlace
  PROVE  Past(p, s)'
<1>1. /\ epoch \in Nat /\ epoch' \in Nat /\ epoch' >= epoch
      /\ selection[s] \in Nat /\ selection'[s] \in Nat /\ selection'[s] >= selection[s]
  BY Onward, PlacesOfTypes
<1>2. p[1] \in Nat /\ p[2] \in Nat
  OBVIOUS
<1>3. p[1] <= epoch /\ p[2] <= selection[s]
  <2>1. CASE p = Place(s)
    BY <1>1, <2>1 DEF Place
  <2>2. CASE p = NoPlace
    BY <1>1, <2>2 DEF NoPlace
  <2> QED BY <2>1, <2>2 DEF Past
<1> QED BY <1>1, <1>2, <1>3 DEF Past

\* The scope of a control after a step: the one before, none, or where a handler
\* or the session's preference was.
LEMMA ControlPlaces ==
  ASSUME SpeedTypeOK, Marked, [SpeedNext]_speedVars, NEW s \in Session
  PROVE  /\ \/ control'[s].scope.place \in {control[s].scope.place, NoPlace}
            \/ \E c \in Client : SessionOf[c] = s /\ control'[s].scope.place = handler[c].place
            \/ control'[s].scope.place = startup[s].place
         /\ startup'[s].place \in {startup[s].place, Place(s), NoPlace}
<1>1. MapTypes /\ NoControl.scope.place = NoPlace /\ NoStartup.place = NoPlace
  BY SpeedTypeParts DEF NoControl, NoScope, Scope, NoStartup
<1>2. CASE UNCHANGED registry
  BY <1>2 DEF registry
<1>3. CASE Touches
  BY <1>3 DEF Touches
<1>4. CASE Retires
  <2>1. PICK x \in Session : DropStartup(x) /\ UNCHANGED control
    BY <1>4 DEF Retires
  <2> QED BY <1>1, <2>1, StartupDropped
<1>5. ASSUME NEW a \in Accounts, Command(a) PROVE control'[s] = NoControl /\ startup'[s] = NoStartup
  BY <1>5 DEF Command
<1>6. ASSUME NEW x \in Session, DropControl(x), DropStartup(x)
      PROVE  control'[s] \in {control[s], NoControl} /\ startup'[s] \in {startup[s], NoStartup}
  BY <1>1, <1>6, StartupDropped, ControlDropped
<1>7. ASSUME NEW x \in Session, SelectModel(x)
      PROVE  control'[s] \in {control[s], NoControl} /\ startup'[s] \in {startup[s], NoStartup}
  BY <1>6, <1>7 DEF SelectModel
<1>8. CASE Sets
  BY <1>1, <1>6, <1>8 DEF Sets, LegacySet
<1>9. ASSUME NEW r \in Request, Expire(r)
      PROVE  control'[s].scope = control[s].scope /\ startup' = startup
  <2>1. control'[s].scope = control[s].scope
    BY <1>9, ExpiryElsewhere
  <2> QED BY <1>9, <2>1 DEF Expire
<1>10. ASSUME NEW c \in Client, NEW m \in Model, NEW mode \in Mode, Select(c, mode, m)
       PROVE  control'[s].scope = control[s].scope /\ startup'[s] \in {startup[s], NoStartup}
  <2>1. control'[s].scope = control[s].scope
    BY <1>10, ChoiceElsewhere
  <2>2. DropStartup(SessionOf[c]) /\ SessionOf[c] \in Session
    BY <1>10, Bounds DEF Select
  <2> QED BY <1>1, <2>1, <2>2, StartupDropped
<1>11. ASSUME NEW x \in Session, Seed(x) \/ Seeded(x)
       PROVE  control' = control /\ startup'[s].place \in {startup[s].place, Place(s), NoPlace}
  <2>1. control' = control
    BY <1>11 DEF Seed, Seeded, SeedEnds
  <2>2. CASE Seeded(x)
    <3>1. startup[x] \in Startups /\ startup \in [Session -> Startups]
      BY <1>1 DEF MapTypes
    <3>2. startup'[s].place = startup[s].place
      BY <2>2, <3>1 DEF Seeded, Startups
    <3> QED BY <2>1, <3>2
  <2>3. CASE Seed(x)
    BY <1>1, <2>1, <2>3 DEF Seed
  <2> QED BY <1>11, <2>2, <2>3
<1>12. ASSUME NEW x \in Session, NEW sc \in ScopeType, ReadAt(x, sc)
       PROVE  /\ \/ control'[s] \in {control[s], NoControl}
                 \/ \E c \in Client : SessionOf[c] = s /\ control'[s].scope.place = handler[c].place
                 \/ control'[s].scope.place = startup[s].place
              /\ startup'[s] \in {startup[s], NoStartup}
  <2>1. ReadSpeed(x, sc)
    BY <1>12 DEF ReadAt
  <2>2. /\ s # x => control'[s] \in {control[s], NoControl}
        /\ startup'[s] \in {startup[s], NoStartup}
    BY <1>1, <2>1, MapsRead
  <2>3. s = x => control'[s].scope = sc
    BY <1>1, <2>1, ModeRead
  <2> QED BY <1>12, <2>2, <2>3 DEF ReadAt
<1>13. CASE Seeds
  BY <1>11, <1>13 DEF Seeds
<1>14. CASE Chosen
  BY <1>1, <1>10, <1>14 DEF Chosen
<1>15. CASE Reads
  BY <1>1, <1>12, <1>15 DEF Reads
<1> QED BY <1>1, <1>2, <1>3, <1>4, <1>5, <1>7, <1>8, <1>9, <1>13, <1>14, <1>15, RegistrySteps

LEMMA PlacesKept ==
  ASSUME SpeedTypeOK, Marked, SpeedTypeOK', Places, [SpeedNext]_speedVars
  PROVE  Places'
<1>1. /\ \A s \in Session : control[s].scope.place \in Nat \X Nat /\ startup[s].place \in Nat \X Nat
      /\ \A c \in Client : handler[c].place \in Nat \X Nat
      /\ \A r \in Request : request[r].captured.scope.place \in Nat \X Nat
      /\ \A s \in Session : Place(s) \in Nat \X Nat
      /\ NoPlace \in Nat \X Nat
  BY PlacesOfTypes DEF NoPlace
<1>2. ASSUME NEW s \in Session PROVE Past(control[s].scope.place, s)' /\ Past(startup[s].place, s)'
  <2> DEFINE p == control'[s].scope.place
             q == startup'[s].place
  <2>1. p \in Nat \X Nat /\ (Past(p, s) \/ p = NoPlace)
    BY <1>1, ControlPlaces DEF Places, RegistryPlaces, CallerPlaces
  <2>2. q \in Nat \X Nat /\ (Past(q, s) \/ q = Place(s) \/ q = NoPlace)
    BY <1>1, ControlPlaces DEF Places, RegistryPlaces
  <2>3. \A x \in Nat \X Nat : (Past(x, s) \/ x = Place(s) \/ x = NoPlace) => x[1] <= epoch' /\ x[2] <= selection'[s]
    BY StaysPast DEF Past
  <2> HIDE DEF p, q
  <2>4. p[1] <= epoch' /\ p[2] <= selection'[s] /\ q[1] <= epoch' /\ q[2] <= selection'[s]
    BY <2>1, <2>2, <2>3
  <2> QED BY <2>4 DEF Past, p, q
<1>3. ASSUME NEW c \in Client PROVE Past(handler[c].place, SessionOf[c])'
  <2> DEFINE s == SessionOf[c]
             p == handler'[c].place
  <2>1. p \in {handler[c].place, Place(s), NoPlace} /\ s \in Session
    <3>1. handler \in [Client -> [stage : {"idle", "placed", "scoped"}, place : PlaceType, account : Accounts]]
      BY SpeedTypeParts DEF CallerTypes
    <3>2. NoHandler.place = NoPlace
      BY DEF NoHandler
    <3>3. ASSUME NEW x \in Client, Ask(x) PROVE p \in {handler[c].place, Place(s)}
      BY <3>1, <3>3 DEF Ask
    <3>4. ASSUME NEW x \in Client, ReadAccount(x) PROVE p = handler[c].place
      BY <3>1, <3>4 DEF ReadAccount
    <3>5. ASSUME NEW x \in Client, handler' = [handler EXCEPT ![x] = NoHandler] PROVE p \in {handler[c].place, NoPlace}
      BY <3>1, <3>2, <3>5
    <3> QED BY <3>3, <3>4, <3>5, ClientSteps, Bounds
  <2>2. \A x \in Nat \X Nat : (Past(x, s) \/ x = Place(s) \/ x = NoPlace) => x[1] <= epoch' /\ x[2] <= selection'[s]
    BY <2>1, StaysPast DEF Past
  <2>3. p[1] <= epoch' /\ p[2] <= selection'[s]
    BY <1>1, <2>1, <2>2 DEF Places, CallerPlaces
  <2> QED BY <2>3 DEF Past
<1>4. ASSUME NEW r \in Request PROVE Past(request[r].captured.scope.place, SessionOf[r])'
  <2> DEFINE s == SessionOf[r]
             p == request'[r].captured.scope.place
  <2>1. NoCapture.scope.place = NoPlace /\ s \in Session
    BY Bounds DEF NoCapture, NoScope, Scope
  <2>2. p \in {request[r].captured.scope.place, NoPlace, control[s].scope.place}
    <3>1. Captured(s).scope.place \in {NoPlace, control[s].scope.place}
      BY <2>1 DEF Captured, NoCapture, NoScope, Scope
    <3> QED BY <2>1, <3>1, StreamKept
  <2>3. \A x \in Nat \X Nat : (Past(x, s) \/ x = Place(s) \/ x = NoPlace) => x[1] <= epoch' /\ x[2] <= selection'[s]
    BY <2>1, StaysPast DEF Past
  <2>4. p[1] <= epoch' /\ p[2] <= selection'[s]
    BY <1>1, <2>1, <2>2, <2>3 DEF Places, RegistryPlaces, CallerPlaces
  <2> QED BY <2>4 DEF Past
<1> QED BY <1>2, <1>3, <1>4 DEF Places, RegistryPlaces, CallerPlaces

\* Where a choice that is Ultrafast after a step comes from.
LEMMA UltrafastSteps ==
  ASSUME SpeedTypeOK, Marked, [SpeedNext]_speedVars, NEW s \in Session, control'[s].mode = "ultrafast"
  PROVE  \/ control[s].mode = "ultrafast" /\ control'[s].scope = control[s].scope
         \/ \E c \in Client, m \in Model : /\ Select(c, "ultrafast", m) /\ s = SessionOf[c]
                                           /\ control'[s].scope.place = Place(s) /\ s \in live
         \/ \E sc \in ScopeType : /\ ReadAt(s, sc) /\ Applies(s, sc) /\ s \in live
                                  /\ control'[s].scope.place = Place(s)
<1>1. MapTypes /\ NoControl.mode # "ultrafast"
  BY SpeedTypeParts DEF NoControl
<1>2. CASE control' = control
  BY <1>2
<1>3. ASSUME NEW a \in Accounts, Command(a) PROVE control'[s] = NoControl
  BY <1>3 DEF Command
<1>4. ASSUME NEW x \in Session, DropControl(x) PROVE control'[s] \in {control[s], NoControl}
  BY <1>1, <1>4, ControlDropped
<1>5. ASSUME NEW r \in Request, Expire(r)
      PROVE  control'[s].scope = control[s].scope /\ control'[s].mode = control[s].mode
  BY <1>5, ExpiryElsewhere
<1>6. CASE Chosen
  <2>1. PICK c \in Client, m \in Model, mode \in Mode : Select(c, mode, m)
    BY <1>6 DEF Chosen
  <2>2. CASE s # SessionOf[c]
    BY <2>1, <2>2, ChoiceElsewhere
  <2>3. CASE s = SessionOf[c]
    <3>1. mode = "ultrafast"
      BY <2>1, <2>3, ChoiceElsewhere
    <3>2. s \in live /\ handler[c].place = Place(s)
      BY <2>1, <2>3, <3>1 DEF Select, Selects, Eligible
    <3>3. control[s].scope.place = handler[c].place
      BY <2>1, <2>3, ChoiceMade
    <3>4. control'[s].scope = control[s].scope
      BY <2>1, ChoiceElsewhere
    <3> QED BY <2>1, <2>3, <3>1, <3>2, <3>3, <3>4
  <2> QED BY <2>2, <2>3
<1>7. CASE Reads
  <2>1. PICK x \in Session, sc \in ScopeType : ReadAt(x, sc) /\ ReadSpeed(x, sc)
    BY <1>7 DEF Reads, ReadAt
  <2>2. CASE s # x
    <3>1. control'[s] \in {control[s], NoControl}
      BY <1>1, <2>1, <2>2, MapsRead
    <3> QED BY <1>1, <3>1
  <2>3. CASE s = x
    <3>1. /\ control'[s].scope = sc
          /\ \/ control[s].mode = "ultrafast" /\ control[s].scope = sc
             \/ Applies(s, sc) /\ s \in live
      BY <1>1, <2>1, <2>3, ModeRead
    <3>2. Applies(s, sc) => sc.place = Place(s)
      BY DEF Applies
    <3> QED BY <2>1, <2>3, <3>1, <3>2
  <2> QED BY <2>2, <2>3
<1>8. \/ control' = control \/ (\E a \in Accounts : Command(a)) \/ (\E x \in Session : DropControl(x))
      \/ (\E r \in Request : Expire(r)) \/ Chosen \/ Reads
  BY RegistrySteps DEF registry, Touches, Retires, SelectModel, Seeds, Seed, Seeded, SeedEnds, Sets, LegacySet
<1> QED BY <1>1, <1>2, <1>3, <1>4, <1>5, <1>6, <1>7, <1>8

LEMMA LocatedKept ==
  ASSUME SpeedTypeOK, Marked, Located, [SpeedNext]_speedVars
  PROVE  Located'
<1>1. ASSUME NEW s \in Session, control'[s].mode = "ultrafast" PROVE control'[s].scope.place[2] >= 1
  <2>1. s \in live => Place(s)[2] >= 1
    BY PlacesOfTypes DEF Place
  <2>2. \/ control[s].mode = "ultrafast" /\ control'[s].scope = control[s].scope
        \/ control'[s].scope.place = Place(s) /\ s \in live
    BY <1>1, UltrafastSteps
  <2> QED BY <2>1, <2>2 DEF Located
<1>2. ASSUME NEW r \in Request, request'[r].captured.mode = "ultrafast"
      PROVE  request'[r].captured.scope.place[2] >= 1
  <2>1. NoCapture.mode # "ultrafast" /\ SessionOf[r] \in Session /\ MapTypes
    BY Bounds, SpeedTypeParts DEF NoCapture
  <2>2. \/ request'[r].captured = request[r].captured
        \/ request'[r].captured = Captured(SessionOf[r])
        \/ /\ request'[r].captured.mode = request[r].captured.mode
           /\ request'[r].captured.scope = request[r].captured.scope
    BY <1>2, <2>1, StreamKept
  <2>3. Captured(SessionOf[r]).mode = "ultrafast" =>
          /\ control[SessionOf[r]].mode = "ultrafast"
          /\ Captured(SessionOf[r]).scope = control[SessionOf[r]].scope
    BY <2>1, CaptureTyped
  <2> QED BY <1>2, <2>1, <2>2, <2>3 DEF Located
<1> QED BY <1>1, <1>2 DEF Located

-----------------------------------------------------------------------------
\* What is paid for was chosen.

\* An Ultrafast choice that holds where the session is, and a preference for it,
\* are the last decision on the session.
Paid == \A s \in live :
  /\ control[s].mode = "ultrafast" /\ control[s].scope.place = Place(s) => paid[s]
  /\ startup[s] # NoStartup /\ startup[s].place = Place(s) => paid[s]

\* A request that holds a choice that still counts was told so when it captured.
Owed == \A r \in Request : LET x == request[r].captured IN
  x.mode = "ultrafast" /\ ~x.expired /\ x.scope.place = Place(SessionOf[r]) => owed[r]

\* How a step may move a session: away from every place it was at, or not at all.
LEMMA PlaceMoves ==
  ASSUME SpeedTypeOK, [SpeedNext]_speedVars, NEW s \in Session
  PROVE  \/ Place(s)' = Place(s) /\ (s \in live' <=> s \in live)
         \/ (\E a \in Accounts : Command(a)) /\ Place(s)'[1] = epoch + 1
         \/ (SelectModel(s) \/ Resume(s)) /\ Place(s)'[2] = selection[s] + 1
         \/ Close(s) /\ Place(s)'[2] = 0 /\ s \notin live'
<1>1. selection \in [Session -> Nat] /\ epoch \in Nat
  BY SpeedTypeParts, Bounds DEF MapTypes, CallerTypes
<1>2. CASE UNCHANGED <<epoch, live, selection>>
  BY <1>2 DEF Place
<1>3. ASSUME NEW a \in Accounts, Command(a) PROVE Place(s)'[1] = epoch + 1
  BY <1>3 DEF Command, Place
<1>4. ASSUME NEW x \in Session, SelectModel(x) \/ Resume(x) \/ Close(x)
      PROVE  \/ Place(s)' = Place(s) /\ (s \in live' <=> s \in live)
             \/ (SelectModel(s) \/ Resume(s)) /\ Place(s)'[2] = selection[s] + 1
             \/ Close(s) /\ Place(s)'[2] = 0 /\ s \notin live'
  <2>1. CASE x # s
    <3>1. epoch' = epoch /\ selection'[s] = selection[s] /\ (s \in live' <=> s \in live)
      BY <1>1, <1>4, <2>1 DEF SelectModel, Resume, Close, registry
    <3> QED BY <3>1 DEF Place
  <2>2. CASE x = s
    <3>1. CASE SelectModel(s)
      BY <1>1, <3>1 DEF SelectModel, Place
    <3>2. CASE Resume(s)
      BY <1>1, <3>2 DEF Resume, Place
    <3>3. CASE Close(s)
      BY <1>1, <3>3 DEF Close, Place
    <3> QED BY <1>4, <2>2, <3>1, <3>2, <3>3
  <2> QED BY <2>1, <2>2
<1>5. ASSUME NEW a \in Accounts, CommandDone(a) \/ Elsewhere(a) PROVE UNCHANGED <<epoch, live, selection>>
  BY <1>5 DEF CommandDone, Elsewhere, registry, host
<1> QED BY <1>2, <1>3, <1>4, <1>5, HostSteps DEF host

\* The last decision on a session stands, or a step takes another one there.
LEMMA DecisionStands ==
  ASSUME SpeedTypeOK, [SpeedNext]_speedVars, NEW s \in Session
  PROVE  \/ paid'[s] = paid[s] \/ paid'[s]
         \/ \E a \in Accounts : Command(a)
         \/ SelectModel(s) \/ Close(s) \/ Resume(s)
         \/ \E on \in BOOLEAN : LegacySet(s, on)
         \/ \E c \in Client, m \in Model, mode \in Mode \ {"ultrafast"} : Select(c, mode, m) /\ s = SessionOf[c]
<1>1. paid \in [Session -> BOOLEAN]
  BY SpeedTypeParts DEF CallerTypes
<1>2. ASSUME NEW x \in Session, SelectModel(x) \/ Close(x) \/ Resume(x) \/ Seed(x)
      PROVE  paid'[s] = paid[s] \/ paid'[s] \/ (x = s /\ ~Seed(x))
  BY <1>1, <1>2 DEF SelectModel, Close, Resume, Seed, Withdraw, Outdate
<1>3. ASSUME NEW x \in Session, NEW on \in BOOLEAN, LegacySet(x, on)
      PROVE  paid'[s] = paid[s] \/ x = s
  BY <1>1, <1>3 DEF LegacySet, Decide
<1>4. ASSUME NEW c \in Client, NEW m \in Model, NEW mode \in Mode, Select(c, mode, m)
      PROVE  paid'[s] = paid[s] \/ paid'[s] \/ (s = SessionOf[c] /\ mode # "ultrafast")
  BY <1>1, <1>4 DEF Select
<1> QED BY <1>2, <1>3, <1>4, DecisionSteps DEF Sets, Chosen

LEMMA PaidKept ==
  ASSUME SpeedTypeOK, Marked, Places, Paid, [SpeedNext]_speedVars
  PROVE  Paid'
<1> SUFFICES ASSUME NEW s \in live'
             PROVE  /\ control'[s].mode = "ultrafast" /\ control'[s].scope.place = Place(s)' => paid'[s]
                    /\ startup'[s] # NoStartup /\ startup'[s].place = Place(s)' => paid'[s]
  BY DEF Paid
<1>1. s \in Session /\ MapTypes
  BY SpeedTypeParts, HostSteps DEF host, Command, CommandDone, Elsewhere, SelectModel, Close, Resume, CallerTypes
<1>2. NoControl.mode # "ultrafast"
  BY DEF NoControl
<1>3. CASE \E a \in Accounts : Command(a)
  BY <1>1, <1>2, <1>3 DEF Command
<1>4. CASE SelectModel(s) \/ \E on \in BOOLEAN : LegacySet(s, on)
  <2>1. DropControl(s) /\ DropStartup(s)
    BY <1>4 DEF SelectModel, LegacySet
  <2> QED BY <1>1, <1>2, <2>1, ControlDropped, StartupDropped
<1>5. CASE Close(s)
  BY <1>5 DEF Close
<1>6. CASE Resume(s)
  <2>1. control'[s] = control[s] /\ startup'[s] = startup[s] /\ Place(s)' = <<epoch, selection[s] + 1>>
    BY <1>1, <1>6, SpeedTypeParts DEF Resume, registry, Place, CallerTypes
  <2>2. Past(control[s].scope.place, s) /\ Past(startup[s].place, s)
    BY <1>1 DEF Places, RegistryPlaces
  <2>3. selection[s] \in Nat /\ control[s].scope.place \in Nat \X Nat /\ startup[s].place \in Nat \X Nat
    BY <1>1, PlacesOfTypes
  <2> QED BY <2>1, <2>2, <2>3 DEF Past
<1>7. ASSUME NEW c \in Client, NEW m \in Model, NEW mode \in Mode \ {"ultrafast"}, Select(c, mode, m), s = SessionOf[c]
      PROVE  control'[s].mode # "ultrafast" /\ startup'[s] = NoStartup
  <2>1. DropStartup(s)
    BY <1>7 DEF Select
  <2> QED BY <1>1, <1>7, <2>1, ChoiceElsewhere, StartupDropped
<1>8. CASE /\ s \in live /\ Place(s)' = Place(s) /\ (paid[s] => paid'[s])
  <2>1. ASSUME control'[s].mode = "ultrafast", control'[s].scope.place = Place(s)' PROVE paid'[s]
    <3>1. CASE control[s].mode = "ultrafast" /\ control'[s].scope = control[s].scope
      BY <1>8, <2>1, <3>1 DEF Paid
    <3>2. ASSUME NEW c \in Client, NEW m \in Model, Select(c, "ultrafast", m), s = SessionOf[c] PROVE paid'[s]
      BY <1>1, <3>2, SpeedTypeParts DEF Select, CallerTypes
    <3>3. ASSUME NEW sc \in ScopeType, Applies(s, sc) PROVE paid'[s]
      <4>1. startup[s] # NoStartup /\ startup[s].place = Place(s)
        BY <3>3 DEF Applies, Due, NoStartup
      <4> QED BY <1>8, <4>1 DEF Paid
    <3> QED BY <1>1, <2>1, <3>1, <3>2, <3>3, UltrafastSteps
  <2>2. ASSUME startup'[s] # NoStartup, startup'[s].place = Place(s)' PROVE paid'[s]
    <3>1. CASE startup[s] # NoStartup /\ startup'[s].place = startup[s].place
      BY <1>8, <2>2, <3>1 DEF Paid
    <3>2. CASE Seed(s) /\ startup'[s] # startup[s]
      BY <1>1, <3>2, SpeedTypeParts DEF Seed, CallerTypes
    <3>3. (startup[s] # NoStartup /\ startup'[s].place = startup[s].place) \/ (Seed(s) /\ startup'[s] # startup[s])
      <4>1. CASE startup'[s] = startup[s]
        BY <2>2, <4>1
      <4>2. ASSUME NEW x \in Session, Seed(x), startup'[s] # startup[s] PROVE x = s
        BY <1>1, <2>2, <4>2 DEF Seed
      <4>3. ASSUME NEW x \in Session, Seeded(x)
            PROVE  startup'[s].place = startup[s].place /\ (startup[s] = NoStartup => startup'[s] = startup[s])
        BY <1>1, <4>3 DEF Seeded, MapTypes, Startups, NoStartup
      <4>4. ASSUME NEW x \in Session, DropStartup(x) PROVE startup'[s] \in {startup[s], NoStartup}
        BY <1>1, <4>4, StartupDropped
      <4>5. ASSUME NEW x \in Session, NEW sc \in ScopeType, ReadAt(x, sc) PROVE startup'[s] \in {startup[s], NoStartup}
        BY <1>1, <4>5, MapsRead DEF ReadAt
      <4>6. \/ startup' = startup \/ Seeds \/ Reads \/ (\E x \in Session : DropStartup(x))
            \/ startup'[s] = NoStartup
        BY <1>1, RegistrySteps, Bounds DEF registry, Touches, Retires, Command, SelectModel, Expire, Sets, LegacySet, Chosen, Select
      <4> QED BY <2>2, <4>1, <4>2, <4>3, <4>4, <4>5, <4>6 DEF Seeds, Reads
    <3> QED BY <3>1, <3>2, <3>3
  <2> QED BY <2>1, <2>2
<1>9. CASE paid'[s]
  BY <1>9
<1>10. ~(\E a \in Accounts : Command(a)) /\ ~SelectModel(s) /\ ~Close(s) /\ ~Resume(s)
       => s \in live /\ Place(s)' = Place(s)
  BY <1>1, PlaceMoves
<1> QED BY <1>1, <1>3, <1>4, <1>5, <1>6, <1>7, <1>8, <1>9, <1>10, DecisionStands

LEMMA OwedKept ==
  ASSUME SpeedTypeOK, Places, Located, Paid, Owed, [SpeedNext]_speedVars
  PROVE  Owed'
<1> SUFFICES ASSUME NEW r \in Request, request'[r].captured.mode = "ultrafast", ~request'[r].captured.expired,
                    request'[r].captured.scope.place = Place(SessionOf[r])'
             PROVE  owed'[r]
  BY DEF Owed
<1> DEFINE s == SessionOf[r]
           p == request[r].captured.scope.place
<1>1. /\ s \in Session /\ MapTypes /\ owed \in [Request -> BOOLEAN]
      /\ p \in Nat \X Nat /\ selection[s] \in Nat /\ epoch \in Nat
  BY SpeedTypeParts, Bounds, PlacesOfTypes DEF StreamTypes
<1>2. NoCapture.mode # "ultrafast"
  BY DEF NoCapture
<1>3. CASE Capture(r) /\ request'[r].captured = Captured(s)
  <2>1. control[s].mode = "ultrafast" /\ control[s].scope.place = Place(s)'
    BY <1>1, <1>3, CaptureTyped
  <2>2. Place(s)' = Place(s) /\ owed'[r] = paid[s]
    BY <1>1, <1>3 DEF Capture, Place, host
  <2>3. Place(s)[2] >= 1
    BY <1>1, <2>1, <2>2 DEF Located
  <2>4. s \in live
    BY <2>3 DEF Place
  <2> QED BY <2>1, <2>2, <2>4 DEF Paid
<1>4. CASE request'[r].captured = request[r].captured
  <2>1. request[r].captured.mode = "ultrafast" /\ ~request[r].captured.expired /\ p = Place(s)'
    BY <1>4
  <2>2. p[1] <= epoch /\ p[2] <= selection[s] /\ p[2] >= 1
    BY <1>1, <2>1 DEF Places, CallerPlaces, Past, Located
  <2>3. Place(s)' = Place(s) /\ ~(\E a \in Accounts : Command(a)) /\ ~SelectModel(s) /\ ~Resume(s) /\ ~Close(s)
    <3>1. p[1] # epoch + 1 /\ p[2] # selection[s] + 1 /\ p[2] # 0
      BY <1>1, <2>2
    <3>2. ~((\E a \in Accounts : Command(a)) /\ Place(s)'[1] # epoch + 1)
      BY DEF Command, Place
    <3>3. (SelectModel(s) \/ Resume(s)) => Place(s)'[2] = selection[s] + 1
      BY <1>1, SpeedTypeParts DEF SelectModel, Resume, Place, CallerTypes
    <3>4. Close(s) => Place(s)'[2] = 0
      BY DEF Close, Place
    <3> QED BY <1>1, <2>1, <3>1, <3>2, <3>3, <3>4, PlaceMoves
  <2>4. owed[r]
    BY <2>1, <2>3 DEF Owed
  <2>5. CASE owed' = owed
    BY <2>4, <2>5
  <2>6. ASSUME NEW x \in Session, SelectModel(x) \/ Close(x) \/ Resume(x) PROVE owed'[r]
    BY <2>3, <2>4, <2>6 DEF SelectModel, Close, Resume, Withdraw, Outdate
  <2>7. ASSUME NEW q \in Request, Capture(q) \/ Finish(q) PROVE owed'[r]
    <3>1. CASE q # r
      BY <1>1, <2>4, <2>7, <3>1 DEF Capture, Finish
    <3>2. CASE q = r /\ Finish(r)
      BY <1>1, <1>2, <3>2, SpeedTypeParts DEF Finish, NoRequest, StreamTypes
    <3>3. CASE q = r /\ Capture(r)
      <4>1. request'[r].captured \in {Captured(s), NoCapture}
        BY <1>1, <3>3, SpeedTypeParts DEF Capture, StreamTypes, Streams
      <4> QED BY <1>2, <1>3, <3>3, <4>1
    <3> QED BY <2>7, <3>1, <3>2, <3>3
  <2> QED BY <2>3, <2>5, <2>6, <2>7, StreamSteps
<1> QED BY <1>2, <1>3, <1>4, StreamKept

\* A request that pays is dispatched with a choice that still counts.
LEMMA OnlyDispatchPays ==
  ASSUME SpeedTypeOK, [SpeedNext]_speedVars, NEW r \in Request, Paying(r)
  PROVE  Dispatch(r)
<1>1. request \in [Request -> Streams(generations)]
  BY SpeedTypeParts DEF StreamTypes
<1>2. request[r].stage = "resolved" /\ request'[r].stage = "captured" /\ ~request'[r].captured.expired
  BY DEF Paying
<1>3. ASSUME NEW q \in Request, request'[r].stage # request[r].stage,
             Capture(q) \/ Resolve(q) \/ Dispatch(q) \/ Expire(q)
      PROVE  q = r
  BY <1>1, <1>3 DEF Capture, Resolve, Dispatch, Expire, Stage
<1>4. ~Capture(r) /\ ~Resolve(r)
  BY <1>2 DEF Capture, Resolve
<1>5. ~Expire(r)
  <2>1. SUFFICES ASSUME Expire(r) PROVE FALSE
    OBVIOUS
  <2>2. request'[r].captured.expired = TRUE
    BY <1>1, <2>1 DEF Expire, Stage, Streams, Captures
  <2> QED BY <1>2, <2>2
<1>6. ASSUME NEW q \in Request, request' = [request EXCEPT ![q] = NoRequest] PROVE FALSE
  BY <1>1, <1>2, <1>6 DEF NoRequest
<1>7. ASSUME NEW q \in Request, NEW m \in Model, request' = [request EXCEPT ![q].stage = "admitted", ![q].model = m]
      PROVE  FALSE
  BY <1>1, <1>2, <1>7 DEF Streams
<1> QED BY <1>2, <1>3, <1>4, <1>5, <1>6, <1>7, StreamSteps

LEMMA PayingOwed ==
  ASSUME SpeedTypeOK, Owed, [SpeedNext]_speedVars, NEW r \in Request, Paying(r)
  PROVE  owed[r] /\ Supports(request[r].model)
<1>1. Dispatch(r) /\ request[r].captured.mode = "ultrafast"
  BY OnlyDispatchPays DEF Paying
<1>2. Confirmed(r)
  BY <1>1 DEF Dispatch
<1>3. /\ ~request[r].captured.expired /\ Supports(request[r].model)
      /\ request[r].captured.scope.place = Place(SessionOf[r])
  BY <1>2 DEF Confirmed, Scope
<1> QED BY <1>1, <1>3 DEF Owed

-----------------------------------------------------------------------------
\* What clients have seen.

\* A page that shows the session's control shows no later revision than it has,
\* and if it is that revision then no decision was taken since.
Shows == \A c \in Client : LET k == control[SessionOf[c]] IN
  k # NoControl /\ page[c].gen = k.gen => page[c].rev <= k.rev /\ (page[c].rev = k.rev => fresh[c])

\* How a step changes the control of a session, unless it drops it.
LEMMA RevisionSteps ==
  ASSUME SpeedTypeOK, Marked, [SpeedNext]_speedVars, NEW s \in Session, control'[s] # NoControl
  PROVE  \/ /\ control[s] # NoControl /\ control'[s].gen = control[s].gen
            /\ control'[s].rev \in {control[s].rev, control[s].rev + 1}
         \/ control'[s].gen = generations + 1
<1>1. MapTypes
  BY SpeedTypeParts
<1>2. CASE control' = control
  BY <1>2
<1>3. ASSUME NEW a \in Accounts, Command(a) PROVE FALSE
  BY <1>3 DEF Command
<1>4. ASSUME NEW x \in Session, DropControl(x) PROVE control'[s] = control[s]
  BY <1>1, <1>4, ControlDropped
<1>5. ASSUME NEW q \in Session, NEW k, control' = [control EXCEPT ![q] = k], control[q] # NoControl,
             k.gen = control[q].gen, k.rev = control[q].rev + 1
      PROVE  /\ control[s] # NoControl /\ control'[s].gen = control[s].gen
             /\ control'[s].rev \in {control[s].rev, control[s].rev + 1}
  BY <1>1, <1>5 DEF MapTypes
<1>6. ASSUME NEW r \in Request, Expire(r), control' # control
      PROVE  /\ control[s] # NoControl /\ control'[s].gen = control[s].gen
             /\ control'[s].rev \in {control[s].rev, control[s].rev + 1}
  <2> DEFINE q == SessionOf[r]
             k == [gen |-> control[q].gen, rev |-> control[q].rev + 1, mode |-> control[q].mode,
                   expired |-> TRUE, scope |-> control[q].scope]
  <2>1. q \in Session /\ control' = [control EXCEPT ![q] = k] /\ control[q] # NoControl
    BY <1>6, ChoiceExpired
  <2>2. k.gen = control[q].gen /\ k.rev = control[q].rev + 1
    OBVIOUS
  <2> HIDE DEF q, k
  <2> QED BY <1>5, <2>1, <2>2
<1>7. ASSUME NEW c \in Client, NEW m \in Model, NEW mode \in Mode, Select(c, mode, m)
      PROVE  /\ control[s] # NoControl /\ control'[s].gen = control[s].gen
             /\ control'[s].rev \in {control[s].rev, control[s].rev + 1}
  <2> DEFINE q == SessionOf[c]
             k == [gen |-> control[q].gen, rev |-> control[q].rev + 1, mode |-> mode,
                   expired |-> control[q].expired, scope |-> control[q].scope]
  <2>1. q \in Session /\ control' = [control EXCEPT ![q] = k] /\ control[q] # NoControl
    BY <1>7, ChoiceMade
  <2>2. k.gen = control[q].gen /\ k.rev = control[q].rev + 1
    OBVIOUS
  <2> HIDE DEF q, k
  <2> QED BY <1>5, <2>1, <2>2
<1>8. ASSUME NEW x \in Session, NEW sc \in ScopeType, ReadAt(x, sc)
      PROVE  \/ /\ control[s] # NoControl /\ control'[s].gen = control[s].gen
                /\ control'[s].rev \in {control[s].rev, control[s].rev + 1}
             \/ control'[s].gen = generations + 1
  <2>1. ReadSpeed(x, sc)
    BY <1>8 DEF ReadAt
  <2>2. CASE s # x
    <3>1. control'[s] = control[s]
      BY <1>1, <2>1, <2>2, MapsRead
    <3> QED BY <3>1
  <2>3. CASE s = x
    BY <1>1, <2>1, <2>3, ModeRead
  <2> QED BY <2>2, <2>3
<1>9. \/ control' = control \/ (\E a \in Accounts : Command(a)) \/ (\E x \in Session : DropControl(x))
      \/ (\E r \in Request : Expire(r)) \/ Chosen \/ Reads
  BY RegistrySteps DEF registry, Touches, Retires, SelectModel, Seeds, Seed, Seeded, SeedEnds, Sets, LegacySet
<1> QED BY <1>1, <1>2, <1>3, <1>4, <1>6, <1>7, <1>8, <1>9 DEF Chosen, Reads

LEMMA ShowsKept ==
  ASSUME SpeedTypeOK, Marked, SpeedTypeOK', Shows, [SpeedNext]_speedVars
  PROVE  Shows'
<1> SUFFICES ASSUME NEW c \in Client, control'[SessionOf[c]] # NoControl,
                    page'[c].gen = control'[SessionOf[c]].gen
             PROVE  /\ page'[c].rev <= control'[SessionOf[c]].rev
                    /\ page'[c].rev = control'[SessionOf[c]].rev => fresh'[c]
  BY DEF Shows
<1> DEFINE s == SessionOf[c]
<1>1. /\ s \in Session /\ MapTypes /\ page \in [Client -> [gen : 0..generations, rev : 0..MaxRevision]]
      /\ fresh \in [Client -> BOOLEAN] /\ generations \in Nat
      /\ control[s].rev \in Nat /\ control'[s].rev \in Nat /\ page[c].rev \in Nat /\ page[c].gen <= generations
  <2>1. /\ s \in Session /\ MapTypes /\ page \in [Client -> [gen : 0..generations, rev : 0..MaxRevision]]
        /\ fresh \in [Client -> BOOLEAN] /\ generations \in Nat
    BY SpeedTypeParts, Bounds DEF CallerTypes, MapTypes
  <2>2. control[s] \in Controls(generations) /\ control'[s] \in Controls(generations')
    BY <2>1, SpeedTypeParts DEF MapTypes
  <2> QED BY <2>1, <2>2, Bounds DEF Controls
<1>2. CASE page'[c] = page[c] /\ fresh'[c] = fresh[c]
  <2>1. control'[s].gen # generations + 1
    BY <1>1, <1>2
  <2>2. /\ control[s] # NoControl /\ control'[s].gen = control[s].gen
        /\ control'[s].rev \in {control[s].rev, control[s].rev + 1}
    BY <1>1, <2>1, RevisionSteps
  <2>3. page[c].rev <= control[s].rev /\ (page[c].rev = control[s].rev => fresh[c])
    BY <1>2, <2>2 DEF Shows
  <2> QED BY <1>1, <1>2, <2>2, <2>3
<1>3. ASSUME NEW d \in Client, page' = Shown(d, SessionOf[d]), fresh'[d], d = c
      PROVE  page'[c].rev = control'[s].rev /\ fresh'[c]
  BY <1>1, <1>3 DEF Shown
<1>4. CASE \E d \in Client, m \in Model : /\ AnswerRead(d, m) /\ page' = Shown(d, SessionOf[d])
                                          /\ fresh' = [fresh EXCEPT ![d] = TRUE]
  <2>1. PICK d \in Client : page' = Shown(d, SessionOf[d]) /\ fresh' = [fresh EXCEPT ![d] = TRUE]
    BY <1>4
  <2>2. CASE d = c
    BY <1>1, <1>3, <2>1, <2>2
  <2>3. CASE d # c
    BY <1>1, <1>2, <2>1, <2>3 DEF Shown
  <2> QED BY <2>2, <2>3
<1>5. CASE (\E a \in Accounts : Command(a)) \/ DropControl(s)
  BY <1>1, <1>5, ControlDropped DEF Command
<1>6. ASSUME NEW x \in Session, x # s, SelectModel(x) \/ \E on \in BOOLEAN : LegacySet(x, on)
      PROVE  page'[c] = page[c] /\ fresh'[c] = fresh[c]
  BY <1>1, <1>6 DEF SelectModel, LegacySet, Withdraw, Decide
<1>7. CASE Chosen
  <2>1. PICK d \in Client, m \in Model, mode \in Mode : Select(d, mode, m)
    BY <1>7 DEF Chosen
  <2>2. /\ page' = Shown(d, SessionOf[d])
        /\ fresh' = [b \in Client |-> b = d \/ (fresh[b] /\ SessionOf[b] # SessionOf[d])]
    BY <2>1 DEF Select
  <2>3. CASE d = c
    <3>1. fresh'[c] = TRUE
      BY <2>2, <2>3
    <3>2. page'[c].rev = control'[s].rev
      BY <1>1, <2>2, <2>3 DEF Shown
    <3> QED BY <1>1, <3>1, <3>2
  <2>4. CASE SessionOf[d] # s
    BY <1>1, <1>2, <2>2, <2>4 DEF Shown
  <2>5. CASE d # c /\ SessionOf[d] = s
    <3>1. page'[c] = page[c]
      BY <1>1, <2>2, <2>5 DEF Shown
    <3> DEFINE k == [gen |-> control[s].gen, rev |-> control[s].rev + 1, mode |-> mode,
                     expired |-> control[s].expired, scope |-> control[s].scope]
    <3>2. control[s] # NoControl /\ control' = [control EXCEPT ![s] = k]
      BY <2>1, <2>5, ChoiceMade
    <3>3. k.gen = control[s].gen /\ k.rev = control[s].rev + 1
      OBVIOUS
    <3> HIDE DEF k
    <3>4. control'[s].gen = control[s].gen /\ control'[s].rev = control[s].rev + 1
      BY <1>1, <3>2, <3>3 DEF MapTypes
    <3>5. page[c].rev <= control[s].rev
      BY <3>1, <3>2, <3>4 DEF Shows
    <3> QED BY <1>1, <3>1, <3>4, <3>5
  <2> QED BY <2>3, <2>4, <2>5
<1>8. ASSUME NEW x \in Session, SelectModel(x) \/ \E on \in BOOLEAN : LegacySet(x, on)
      PROVE  DropControl(s) \/ (page'[c] = page[c] /\ fresh'[c] = fresh[c])
  BY <1>6, <1>8 DEF SelectModel, LegacySet
<1>9. CASE UNCHANGED <<page, fresh>>
  BY <1>2, <1>9
<1> QED BY <1>2, <1>4, <1>5, <1>7, <1>8, <1>9, ClientSteps DEF Sets

\* The handler of a client runs for that client alone.
LEMMA HandlerEnds ==
  ASSUME SpeedTypeOK, [SpeedNext]_speedVars, NEW c \in Client,
         handler[c].stage = "scoped", handler'[c].stage = "idle"
  PROVE  (\E m \in Model : AnswerRead(c, m) \/ \E mode \in Mode : Select(c, mode, m)) \/ Refuse(c)
<1>1. DOMAIN handler = Client
  BY SpeedTypeParts DEF CallerTypes
<1>2. CASE AccountStep
  BY <1>2 DEF AccountStep, Command, CommandDone, Elsewhere
<1>3. CASE HostStep
  BY <1>3 DEF HostStep, SelectModel, Close, Resume, LegacyGet, LegacySet, Seed, SeedRead, Seeded, SeedFails, SeedEnds
<1>4. CASE ClientStep
  <2>1. PICK d \in Client : \/ Ask(d) \/ ReadAccount(d) \/ Refuse(d)
                            \/ \E m \in Model : AnswerRead(d, m) \/ \E mode \in Mode : Select(d, mode, m)
    BY <1>4 DEF ClientStep
  <2>2. CASE d = c
    <3>1. ~Ask(c) /\ ~ReadAccount(c)
      BY DEF Ask, ReadAccount
    <3> QED BY <2>1, <2>2, <3>1
  <2>3. CASE d # c
    <3>1. handler'[c] = handler[c]
      BY <1>1, <2>1, <2>3 DEF Ask, ReadAccount, Refuse, AnswerRead, Select
    <3> QED BY <3>1
  <2> QED BY <2>2, <2>3
<1>5. CASE RequestStep
  BY <1>5 DEF RequestStep, Admit, Capture, Resolve, Dispatch, Expire, Finish
<1>6. CASE UNCHANGED speedVars
  BY <1>6 DEF speedVars
<1> QED BY <1>2, <1>3, <1>4, <1>5, <1>6 DEF SpeedNext

LEMMA ChoosesFresh ==
  ASSUME SpeedTypeOK, Marked, Shows, [SpeedNext]_speedVars, NEW c \in Client, Chooses(c)
  PROVE  fresh[c]
<1> DEFINE s == SessionOf[c]
<1>1. /\ s \in Session /\ MapTypes /\ handler[c].stage = "scoped" /\ handler'[c].stage = "idle" /\ ~Due(s)
      /\ control'[s].gen = control[s].gen /\ control'[s].rev > control[s].rev
  BY SpeedTypeParts, Bounds DEF Chooses
<1>2. control[s] \in Controls(generations) /\ generations \in Nat
  BY <1>1, Bounds DEF MapTypes
<1>3. control[s].rev \in Nat /\ control[s].gen <= generations
  BY <1>2, Bounds DEF Controls
<1>4. CASE Refuse(c)
  <2>1. control' = control
    BY <1>4 DEF Refuse, registry
  <2> QED BY <1>1, <1>3, <2>1
<1>5. ASSUME NEW m \in Model, AnswerRead(c, m) PROVE FALSE
  <2>1. ReadAt(s, Asked(c, m)) /\ ReadSpeed(s, Asked(c, m)) /\ Asked(c, m) \in ScopeType
    BY <1>5, HandlerReads DEF ReadAt
  <2>2. ~Applies(s, Asked(c, m))
    BY <1>1 DEF Applies
  <2>3. control'[s].gen = generations + 1 \/ control'[s].rev = control[s].rev
    BY <1>1, <2>1, <2>2, ModeRead
  <2> QED BY <1>1, <1>2, <1>3, <2>3
<1>6. ASSUME NEW m \in Model, NEW mode \in Mode, Select(c, mode, m) PROVE fresh[c]
  <2>1. control[s] # NoControl /\ control[s].gen = page[c].gen /\ control[s].rev = page[c].rev
    BY <1>6, ChoiceMade
  <2> QED BY <2>1 DEF Shows
<1> QED BY <1>1, <1>4, <1>5, <1>6, HandlerEnds

-----------------------------------------------------------------------------
\* The inductive invariant of ConversationSpeed.
SpeedInvariant == /\ SpeedTypeOK /\ Marked /\ Bounded /\ ModesExclusive
                  /\ Places /\ Located /\ Paid /\ Owed /\ Shows

LEMMA SpeedStarts == SpeedInit => SpeedInvariant
<1> SUFFICES ASSUME SpeedInit PROVE SpeedInvariant
  OBVIOUS
<1>1. Ordered(<<>>) /\ \A x : ~Contains(<<>>, x)
  BY SpeedAssumption DEF Ordered, IsInjective, Contains
<1>2. MapTypes
  BY <1>1, NothingTyped, Bounds DEF SpeedInit, MapTypes
<1>3. CallerTypes
  <2>1. seed \in [Session -> [stage : {"no", "reading", "read", "over"}, account : Accounts]]
    BY DEF SpeedInit, NoSeed, Accounts
  <2>2. selection \in [Session -> 1..MaxMoves + 1] /\ moves \in 0..MaxMoves
    BY Bounds DEF SpeedInit
  <2>3. page \in [Client -> [gen : 0..generations, rev : 0..MaxRevision]]
    BY Bounds DEF SpeedInit
  <2>4. handler \in [Client -> [stage : {"idle", "placed", "scoped"}, place : PlaceType, account : Accounts]]
    BY NothingTyped, Bounds DEF SpeedInit
  <2> QED BY <2>1, <2>2, <2>3, <2>4 DEF SpeedInit, CallerTypes, Accounts
<1>4. StreamTypes
  <2>1. generations \in Nat
    BY DEF SpeedInit
  <2>2. NoRequest \in Streams(generations)
    BY <2>1, NothingTyped
  <2> QED BY <2>2 DEF SpeedInit, StreamTypes
<1>5. SpeedTypeOK
  BY <1>2, <1>3, <1>4, SpeedTypeParts
<1>6. Marked /\ Bounded /\ ModesExclusive
  BY <1>1 DEF SpeedInit, Marked, Bounded, ModesExclusive
<1>7. /\ NoControl.mode # "ultrafast" /\ NoControl.scope.place = <<0, 0>> /\ NoStartup.place = <<0, 0>>
      /\ NoCapture.mode # "ultrafast" /\ NoCapture.scope.place = <<0, 0>> /\ NoHandler.place = <<0, 0>>
      /\ NoRequest.captured = NoCapture
  BY DEF NoControl, NoStartup, NoCapture, NoHandler, NoRequest, NoScope, Scope, NoPlace
<1>8. Places
  BY <1>7, Bounds DEF SpeedInit, Places, RegistryPlaces, CallerPlaces, Past
<1>9. Located /\ Owed
  BY <1>7 DEF SpeedInit, Located, Owed
<1>10. Paid /\ Shows
  BY <1>7, Bounds DEF SpeedInit, Paid, Shows
<1> QED BY <1>5, <1>6, <1>8, <1>9, <1>10 DEF SpeedInvariant

LEMMA SpeedSteps == SpeedInvariant /\ [SpeedNext]_speedVars => SpeedInvariant'
<1> SUFFICES ASSUME SpeedInvariant, [SpeedNext]_speedVars PROVE SpeedInvariant'
  OBVIOUS
<1>1. SpeedTypeOK' /\ Marked' /\ Bounded'
  BY SpeedTyped DEF SpeedInvariant
<1>2. ModesExclusive'
  BY ModesKept DEF SpeedInvariant
<1>3. Places' /\ Located'
  BY <1>1, PlacesKept, LocatedKept DEF SpeedInvariant
<1>4. Paid' /\ Owed'
  BY PaidKept, OwedKept DEF SpeedInvariant
<1>5. Shows'
  BY <1>1, ShowsKept DEF SpeedInvariant
<1> QED BY <1>1, <1>2, <1>3, <1>4, <1>5 DEF SpeedInvariant

LEMMA SpeedInvariantHolds == SpeedSpec => []SpeedInvariant
BY SpeedStarts, SpeedSteps, PTL DEF SpeedSpec

\* The values of the registry and of its callers stay within their types, and no
\* bounded map outgrows OPENAI_CODEX_FAST_MODE_MAX_SESSIONS or disagrees with its
\* order of use, whatever reads, selections, seeds and commands interleave.
THEOREM SpeedTypeCorrect == SpeedSpec => []SpeedTypeOK
<1>1. SpeedInvariant => SpeedTypeOK
  BY DEF SpeedInvariant
<1> QED BY <1>1, SpeedInvariantHolds, PTL

\* A conversation for which Ultrafast is selected or pending is never in Fast Mode,
\* which captureSpeed would prefer.
THEOREM ModesExcludeEachOther == SpeedSpec => []ModesExclusive
<1>1. SpeedInvariant => ModesExclusive
  BY DEF SpeedInvariant
<1> QED BY <1>1, SpeedInvariantHolds, PTL

\* confirmCapturedSpeed lets a request go out as Ultrafast only if that was the last
\* decision when it captured its mode, with no account command, model selection or
\* other session object since, and the model supports it.
THEOREM OnlyChosenIsPaid == SpeedSpec => PaidOnlyAsChosen
<1>1. SpeedInvariant /\ [SpeedNext]_speedVars
      => [\A r \in Request : Paying(r) => owed[r] /\ Supports(request[r].model)]_speedVars
  BY PayingOwed DEF SpeedInvariant
<1> QED BY <1>1, SpeedInvariantHolds, PTL DEF SpeedSpec, PaidOnlyAsChosen

\* selectSpeed compares the generation and the revision of the client's page: a
\* selection that takes effect is made on the state that client saw, with no
\* decision of anyone else in between.
THEOREM NoUpdateLost == SpeedSpec => NoLostUpdate
<1>1. SpeedInvariant /\ [SpeedNext]_speedVars
      => [\A c \in Client : Chooses(c) => fresh[c]]_speedVars
  BY ChoosesFresh DEF SpeedInvariant
<1> QED BY <1>1, SpeedInvariantHolds, PTL DEF SpeedSpec, NoLostUpdate
====
