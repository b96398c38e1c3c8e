---- MODULE QuotaState ----
(***************************************************************************)
(* OpenAICodexQuotaState of src/src/quota-state.ts: the quota cache of one *)
(* plugin instance, keyed by account and access token.  Concurrent reads   *)
(* of a key share one request; a result or a failure is kept for a while;  *)
(* every observation handed out carries a signal that is aborted when the  *)
(* observation is superseded, evicted or belongs to an old configuration.  *)
(*                                                                         *)
(* A read that its caller gives up goes on, as it may be shared: a Reader  *)
(* is the read itself.  How long a result is kept is not modelled, only    *)
(* that its time passes, or never does.                                    *)
(***************************************************************************)
EXTENDS Naturals, Sequences, SequencesExt

CONSTANTS Reader, Key, None,
          Capacity,   \* 16 in the code
          MaxFetch    \* bound of the model: requests sent

ASSUME QuotaAssumption == /\ None \notin Reader \cup Key
                          /\ Capacity \in Nat \ {0} /\ MaxFetch \in Nat

VARIABLES cache,    \* the keys with an entry, oldest first
          entry,    \* of each key: what is kept, whether its time is up, its last request
          pending,  \* of each key: the reader whose request is under way
          fetches,  \* requests sent so far; they number the observations
          revoked,  \* observations whose signal has been aborted
          stale,    \* reads that began before the last invalidation
          pc, key,  \* of each reader: where it is, and its key
          with,     \* of each reader that joined: whose request it waits for
          got,      \* of each reader: the request it sent, or what its wait yielded
          held,     \* of each reader: the last observation it returned, or 0
          disposed  \* "no", "asked", "done"

read == <<pc, key, with, got, held>>
vars == <<cache, entry, pending, fetches, revoked, stale, read, disposed>>

Failed == 0
Empty == [kept |-> "nothing", due |-> TRUE, request |-> 0]
Sent(e) == {e.request} \ {0}
Active == {r \in Reader : pc[r] # "idle"}

Init == /\ cache = <<>> /\ entry = [k \in Key |-> Empty]
        /\ pending = [k \in Key |-> None]
        /\ fetches = 0 /\ revoked = {} /\ stale = {}
        /\ pc = [r \in Reader |-> "idle"] /\ key = [r \in Reader |-> None]
        /\ with = [r \in Reader |-> None]
        /\ got = [r \in Reader |-> Failed] /\ held = [r \in Reader |-> 0]
        /\ disposed = "no"

\* Mutant: the observations of the old configuration stay usable.
InvalidateCache == /\ UNCHANGED revoked
                   /\ stale' = Active
                   /\ cache' = <<>> /\ entry' = [k \in Key |-> Empty]
                   /\ pending' = [k \in Key |-> None]

\* invalidate(): the epoch's signal is part of every observation's.
Invalidate == /\ revoked' = 1..fetches
              /\ stale' = Active
              /\ cache' = <<>> /\ entry' = [k \in Key |-> Empty]
              /\ pending' = [k \in Key |-> None]

\* A login, a change of the accounts, or another proxy at the next read.
Change == /\ disposed = "no" /\ Invalidate
          /\ UNCHANGED <<fetches, read, disposed>>

\* read(): another proxy than the last read's is another configuration.  To
\* resolve the credential comes first.
Read(r, k) == /\ disposed = "no" /\ pc[r] = "idle"
              /\ pc' = [pc EXCEPT ![r] = "auth"] /\ key' = [key EXCEPT ![r] = k]
              /\ \/ stale' = stale \ {r} /\ UNCHANGED <<cache, entry, pending, revoked>>
                 \/ Invalidate
              /\ UNCHANGED <<fetches, with, got, held, disposed>>

\* A read returns an observation, or fails.
Return(r, o) == /\ pc' = [pc EXCEPT ![r] = "idle"]
                /\ held' = [held EXCEPT ![r] = IF o = Failed THEN @ ELSE o]
                /\ key' = [key EXCEPT ![r] = None]
                /\ with' = [with EXCEPT ![r] = None] /\ got' = [got EXCEPT ![r] = Failed]

AuthFails(r) == /\ pc[r] = "auth" /\ Return(r, Failed)
                /\ UNCHANGED <<cache, entry, pending, fetches, revoked, stale, disposed>>

Resolved(r) == pc[r] = "auth" /\ r \notin stale

\* The request for this key is under way, or its time has not passed yet.
Join(r) == /\ Resolved(r) /\ pending[key[r]] # None
           /\ pc' = [pc EXCEPT ![r] = "joined"]
           /\ with' = [with EXCEPT ![r] = pending[key[r]]]
           /\ UNCHANGED <<cache, entry, pending, fetches, revoked, stale, key, got, held, disposed>>

Reuse(r) == LET e == entry[key[r]] IN
            /\ Resolved(r) /\ pending[key[r]] = None
            /\ ~e.due
            /\ Return(r, IF e.kept = "snapshot" THEN e.request ELSE Failed)
            /\ UNCHANGED <<cache, entry, pending, fetches, revoked, stale, disposed>>

Idle == {i \in 1..Len(cache) : pending[cache[i]] = None}

\* Mutant: the oldest entry makes room, whatever it is doing.
VictimsOldest == {i \in 1..Len(cache) : i = 1}

\* The entry that makes room: the oldest one without a request under way.
Victims == {i \in Idle : \A j \in Idle : i <= j}

NoRoom(r) == /\ Resolved(r) /\ ~Contains(cache, key[r]) /\ Len(cache) >= Capacity /\ Victims = {}
             /\ Return(r, Failed)
             /\ UNCHANGED <<cache, entry, pending, fetches, revoked, stale, disposed>>

\* Mutant: a refresh leaves the observation it replaces usable.
SendKeeping(r, c, e, freed) ==
  /\ fetches < MaxFetch /\ fetches' = fetches + 1
  /\ revoked' = revoked \cup freed
  /\ entry' = [e EXCEPT ![key[r]].request = fetches']
  /\ pending' = [pending EXCEPT ![key[r]] = r]
  /\ pc' = [pc EXCEPT ![r] = "fetching"] /\ got' = [got EXCEPT ![r] = fetches']
  /\ cache' = c
  /\ UNCHANGED <<stale, key, with, held, disposed>>

\* The observation the key had is revoked as its refresh begins, whatever comes of it.
Send(r, c, e, freed) ==
  /\ fetches < MaxFetch /\ fetches' = fetches + 1
  /\ revoked' = revoked \cup freed \cup Sent(e[key[r]])
  /\ entry' = [e EXCEPT ![key[r]].request = fetches']
  /\ pending' = [pending EXCEPT ![key[r]] = r]
  /\ pc' = [pc EXCEPT ![r] = "fetching"] /\ got' = [got EXCEPT ![r] = fetches']
  /\ cache' = c
  /\ UNCHANGED <<stale, key, with, held, disposed>>

Refresh(r) == /\ Resolved(r) /\ pending[key[r]] = None /\ entry[key[r]].due
              /\ Contains(cache, key[r])
              /\ Send(r, cache, entry, {})

\* Without an entry: a new one, in the place of the victim if the cache is full.
Enter(r) == /\ Resolved(r) /\ ~Contains(cache, key[r])
            /\ \/ /\ Len(cache) < Capacity
                  /\ Send(r, Append(cache, key[r]), entry, {})
               \/ /\ Len(cache) >= Capacity
                  /\ \E i \in Victims :
                       Send(r, Append(RemoveAt(cache, i), key[r]),
                            [entry EXCEPT ![cache[i]] = Empty], Sent(entry[cache[i]]))

\* The request ends: its reader returns, and those that joined it resume later.
Wake(r, o) ==
  LET joined == {q \in Reader : pc[q] = "joined" /\ with[q] = r} IN
  /\ pc' = [q \in Reader |-> IF q = r THEN "idle" ELSE IF q \in joined THEN "resuming" ELSE pc[q]]
  /\ got' = [q \in Reader |-> IF q = r THEN Failed ELSE IF q \in joined THEN o ELSE got[q]]
  /\ held' = [held EXCEPT ![r] = IF o = Failed THEN @ ELSE o]
  /\ key' = [key EXCEPT ![r] = None]
  /\ UNCHANGED with

Keep(k, what) == [entry EXCEPT ![k] = [@ EXCEPT !.kept = what, !.due = FALSE]]

Answer(r) == LET k == key[r] IN
  /\ pc[r] = "fetching" /\ r \notin stale
  /\ pending' = [pending EXCEPT ![k] = None]
  /\ \/ entry' = Keep(k, "snapshot") /\ Wake(r, got[r])
     \/ \E failure \in {"error", "rejection"} : entry' = Keep(k, failure) /\ Wake(r, Failed)
  /\ UNCHANGED <<cache, fetches, revoked, stale, disposed>>

\* The entry of a request sent before the last invalidation is in no cache any more.
AnswerLate(r) == /\ pc[r] = "fetching" /\ r \in stale
                 /\ Wake(r, Failed)
                 /\ UNCHANGED <<cache, entry, pending, fetches, revoked, stale, disposed>>

\* A read that joined checks its own configuration once more.
ResumeRead(r) == /\ pc[r] = "resuming"
                 /\ Return(r, IF r \in stale THEN Failed ELSE got[r])
                 /\ UNCHANGED <<cache, entry, pending, fetches, revoked, stale, disposed>>

\* refreshAt passes; after a rejection it never does.
ExpireEntry(k) == /\ Contains(cache, k) /\ pending[k] = None
                  /\ entry[k].kept \in {"snapshot", "error"} /\ ~entry[k].due
                  /\ entry' = [entry EXCEPT ![k].due = TRUE]
                  /\ UNCHANGED <<cache, pending, fetches, revoked, stale, read, disposed>>

\* dispose(): every read that began is awaited.
Dispose == /\ disposed = "no" /\ disposed' = "asked" /\ Invalidate
           /\ UNCHANGED <<fetches, read>>

Disposed == /\ disposed = "asked" /\ Active = {} /\ disposed' = "done"
            /\ UNCHANGED <<cache, entry, pending, fetches, revoked, stale, read>>

Work(r) == AuthFails(r) \/ Join(r) \/ Reuse(r) \/ NoRoom(r) \/ Refresh(r) \/ Enter(r)
           \/ Answer(r) \/ AnswerLate(r) \/ ResumeRead(r)

Next == \/ Change \/ Dispose \/ Disposed
        \/ \E k \in Key : ExpireEntry(k)
        \/ \E r \in Reader : Work(r) \/ \E k \in Key : Read(r, k)

Spec == Init /\ [][Next]_vars

(***************************************************************************)
(* Properties.                                                             *)
(***************************************************************************)

\* The types, and that the cache stays within its capacity.
TypeOK ==
  /\ cache \in Seq(Key) /\ IsInjective(cache) /\ Len(cache) <= Capacity
  /\ entry \in [Key -> [kept : {"nothing", "snapshot", "error", "rejection"}, due : BOOLEAN,
                        request : 0..MaxFetch]]
  /\ pending \in [Key -> Reader \cup {None}]
  /\ fetches \in 0..MaxFetch /\ revoked \subseteq 1..fetches /\ stale \subseteq Reader
  /\ pc \in [Reader -> {"idle", "auth", "joined", "fetching", "resuming"}]
  /\ key \in [Reader -> Key \cup {None}] /\ with \in [Reader -> Reader \cup {None}]
  /\ got \in [Reader -> 0..fetches] /\ held \in [Reader -> 0..fetches]
  /\ disposed \in {"no", "asked", "done"}

\* An observation someone still holds and may use is the present one of its key:
\* it has not been evicted, and no refresh has begun since.
ObservationsCurrent == \A r \in Reader : held[r] \notin revoked \cup {0} =>
  \E k \in ToSet(cache) : /\ entry[k].request = held[r] /\ entry[k].kept = "snapshot"
                          /\ pending[k] = None

\* What the cache would hand out is usable: no revoked observation is kept, not
\* even by an answer that arrives after its configuration has gone.
KeepsUsable == \A k \in ToSet(cache) :
  (entry[k].kept = "snapshot" /\ pending[k] = None) => entry[k].request \notin revoked

\* Reads of a configuration share requests: one per key, by the reader the
\* cached entry names, and making room never loses an entry with one under way.
RequestsShared ==
  /\ \A k \in Key : pending[k] # None => Contains(cache, k)
  /\ \A r \in Reader : (pc[r] = "fetching" /\ r \notin stale) => pending[key[r]] = r
  /\ \A r \in Reader : (pc[r] = "joined" /\ r \notin stale) => pending[key[r]] = with[r]

\* Once dispose() has returned, no read is under way and nothing that was ever
\* handed out may be used.
DisposedForGood == disposed = "done" => /\ Active = {}
                                        /\ \A r \in Reader : held[r] \in revoked \cup {0}
====
