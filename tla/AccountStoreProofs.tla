-------------------------- MODULE AccountStoreProofs --------------------------
(***************************************************************************)
(* Theorems about AccountStore: any set of accounts, any number of views,  *)
(* mutations, changes by others and failures.                              *)
(***************************************************************************)
EXTENDS AccountStore, TLAPS

\* TypeOK in two parts.
ViewTypes ==
    /\ server \in ServerStates
    /\ faults \in 0 .. MaxFaults
    /\ view \in Views

StoreTypes ==
    /\ listeners \in 0 .. MaxListeners
    /\ timer \in BOOLEAN
    /\ poll \in [pc : {"none", "sent", "served"}, got : ServerStates \union {None}, tail : 0 .. MaxOps]
    /\ tails \subseteq 1 .. MaxOps
    /\ mut \in [pc : {"none", "sent", "done", "read", "answered"}, kind : Kinds \union {"none"},
                got : ServerStates \union {None}]
    /\ ops \in 0 .. MaxOps
    /\ popup \in 0 .. MaxOps
    /\ blank \subseteq 1 .. MaxOps
    /\ disposed \in BOOLEAN

LEMMA TypeParts ==
  /\ TypeOK <=> ViewTypes /\ StoreTypes
  /\ TypeOK' <=> ViewTypes' /\ StoreTypes'
BY DEF TypeOK, ViewTypes, StoreTypes

\* A mutation is under way exactly while the snapshot is busy.
Busy ==
    /\ mut.pc = "none" => mut = NoMut
    /\ ~disposed => (view.busy <=> mut # NoMut)

\* A poll runs only in a store that is not disposed and that somebody looks at.
Alone == poll # NoPoll => listeners > 0 /\ ~view.busy /\ mut = NoMut /\ ~disposed

Dead == disposed => view = Loading /\ listeners = 0 /\ ~timer /\ popup = 0

\* A mutation that waits for a poll is over, so none waits while one is under way.
Waiting ==
    /\ \A n \in tails \union {poll.tail} : n <= ops
    /\ mut # NoMut => ops > 0 /\ ops \notin tails

\* Every answer that may still be shown is as new as what is shown.
Numbered ==
    /\ view.seq <= server.seq
    /\ poll.pc = "served" =>
         poll.got \in ServerStates /\ view.seq <= poll.got.seq /\ poll.got.seq <= server.seq
    /\ mut.pc = "answered" \/ (mut.pc = "done" /\ mut.kind = "signOut") =>
         mut.got \in ServerStates /\ (~disposed => view.seq <= mut.got.seq) /\ mut.got.seq <= server.seq

Control == Busy /\ Alone /\ Dead /\ Waiting /\ WindowHeld

IInv == ViewTypes /\ StoreTypes /\ Control /\ Numbered /\ OwnStatus

-----------------------------------------------------------------------------
(* What the operations share.                                              *)

LEMMA StateFacts ==
  ASSUME NEW s \in ServerStates
  PROVE  /\ s.status \in {"signed-out", "signing-in", "error"} \union Kept
         /\ s.active \in Accounts \union {None}
         /\ s.seq \in 0 .. MaxChanges + MaxOps /\ s.seq \in Nat
BY StoreAssumption DEF ServerStates

\* What a poll shows is a snapshot of the answer's number, of its own account.
LEMMA ShownFacts ==
  ASSUME ViewTypes, OwnStatus, NEW s \in ServerStates
  PROVE  /\ Shown(s) \in Views /\ ~Shown(s).busy /\ Shown(s).seq = s.seq
         /\ Shown(s).status \in Kept => Shown(s).owner = Shown(s).active
<1>1. PICK t : t = Stable(s)
  OBVIOUS
<1>2. /\ t.status \in {"loading", "signed-out", "signing-in"} \union Kept \union Failures
      /\ t.owner \in Accounts \union {None}
      /\ t.status \in Kept => t.owner = s.active
  BY <1>1, StateFacts DEF Stable, ViewTypes, OwnStatus, Views, Failures
<1>3. Shown(s) = [Loading EXCEPT !.status = t.status, !.owner = t.owner, !.active = s.active,
        !.op = IF s.status = "signing-in" THEN "waiting" ELSE "idle", !.seq = s.seq]
  BY <1>1 DEF Shown
<1> QED BY <1>2, <1>3, StateFacts DEF Loading, Views

LEMMA FailedFacts ==
  ASSUME ViewTypes, NEW f \in Failures
  PROVE  /\ Failed(f) \in Views /\ ~Failed(f).busy /\ Failed(f).seq = view.seq
         /\ Failed(f).status \notin Kept
BY DEF ViewTypes, Failed, Views, Failures, Kept

\* A snapshot that may be shown next: not busy, of its own account, not older.
Showable(v) ==
    /\ v \in Views /\ ~v.busy
    /\ v.status \in Kept => v.owner = v.active
    /\ ~disposed => view.seq <= v.seq /\ v.seq <= server.seq

\* The finally clauses of a poll.
LEMMA SettledKeeps ==
  ASSUME StoreAssumption, IInv, NEW v, Showable(v), poll # NoPoll, Settled(v),
         UNCHANGED <<server, listeners, tails, mut, ops, blank, disposed>>,
         faults' \in 0 .. MaxFaults
  PROVE  IInv'
<1>1. view' = v /\ poll' = NoPoll /\ timer' = Scheduled(v)
  BY DEF Settled
<1>2. popup' \in {0, popup}
  BY DEF Settled, LetGo
<1>3. ViewTypes'
  BY <1>1 DEF IInv, ViewTypes, Showable
<1>4. StoreTypes'
  <2>1. NoPoll \in [pc : {"none", "sent", "served"}, got : ServerStates \union {None}, tail : 0 .. MaxOps]
    BY DEF NoPoll, StoreAssumption
  <2>2. timer' \in BOOLEAN
    BY <1>1 DEF Scheduled
  <2>3. popup' \in 0 .. MaxOps
    BY <1>2 DEF IInv, StoreTypes, StoreAssumption
  <2> QED BY <1>1, <2>1, <2>2, <2>3 DEF IInv, StoreTypes
<1>5. mut = NoMut /\ ~disposed /\ ~view.busy /\ ops \in Nat
  BY DEF IInv, Control, Alone, StoreTypes, StoreAssumption
<1>6. Busy' /\ Alone' /\ Dead'
  BY <1>1, <1>5 DEF Busy, Alone, Dead, Showable
<1>7. Waiting'
  BY <1>1, <1>5 DEF IInv, Control, Waiting, NoPoll
<1>8. blank' = {}
  BY <1>5 DEF IInv, Control, WindowHeld, NoMut
<1>9. WindowHeld'
  BY <1>8 DEF WindowHeld
<1>10. Numbered'
  BY <1>1, <1>5 DEF IInv, Numbered, Showable, NoPoll, NoMut
<1>11. OwnStatus'
  BY <1>1 DEF OwnStatus, Showable
<1> QED BY <1>3, <1>4, <1>6, <1>7, <1>9, <1>10, <1>11 DEF IInv, Control

\* The end of a mutation.
LEMMA SettleKeeps ==
  ASSUME StoreAssumption, IInv, NEW v, Showable(v), mut.pc # "none", NEW b \in BOOLEAN, Settle(v, b),
         disposed => ~b,
         UNCHANGED <<server, listeners, ops, disposed>>,
         faults' \in 0 .. MaxFaults
  PROVE  IInv'
<1>1. mut' = NoMut /\ view' = (IF disposed THEN view ELSE v) /\ blank' = blank \ {ops}
  BY DEF Settle, Publish
<1>2. mut # NoMut /\ ops \in Nat /\ ops > 0 /\ ops \in 0 .. MaxOps
  BY DEF IInv, Control, Waiting, StoreTypes, NoMut, StoreAssumption
<1>3. poll = NoPoll
  BY <1>2 DEF IInv, Control, Alone
<1>4. \/ /\ b /\ Refreshable(v, listeners)
         /\ poll' = [pc |-> "sent", got |-> None, tail |-> ops] /\ tails' = tails
         /\ timer' = timer /\ popup' = popup
      \/ /\ poll' = poll /\ tails' = tails
         /\ timer' = Scheduled(v) /\ popup' \in {0, popup}
  BY DEF Settle, Begin, LetGo
<1>5. ViewTypes'
  BY <1>1 DEF IInv, ViewTypes, Showable
<1>6. StoreTypes'
  <2>1. poll' \in [pc : {"none", "sent", "served"}, got : ServerStates \union {None}, tail : 0 .. MaxOps]
    BY <1>2, <1>4 DEF IInv, StoreTypes
  <2>2. timer' \in BOOLEAN
    BY <1>4 DEF Scheduled, IInv, StoreTypes
  <2>3. popup' \in 0 .. MaxOps
    BY <1>4 DEF IInv, StoreTypes, StoreAssumption
  <2>4. mut' \in [pc : {"none", "sent", "done", "read", "answered"}, kind : Kinds \union {"none"},
                got : ServerStates \union {None}]
    BY <1>1 DEF NoMut
  <2> QED BY <1>1, <1>4, <2>1, <2>2, <2>3, <2>4 DEF IInv, StoreTypes
<1>7. blank' = {}
  BY <1>1 DEF IInv, Control, WindowHeld
<1>8. WindowHeld'
  BY <1>7 DEF WindowHeld
<1>9. Busy'
  BY <1>1 DEF Busy, Showable
<1>10. Alone'
  BY <1>1, <1>3, <1>4 DEF Alone, Refreshable
<1>11. Dead'
  BY <1>1, <1>4 DEF IInv, Control, Dead, Scheduled
<1>12. Waiting'
  BY <1>1, <1>2, <1>4 DEF IInv, Control, Waiting
<1>13. view'.seq <= server'.seq
  BY <1>1 DEF IInv, Numbered, Showable
<1>14. Numbered'
  BY <1>1, <1>3, <1>4, <1>13 DEF Numbered, NoPoll, NoMut
<1>15. OwnStatus'
  BY <1>1 DEF IInv, OwnStatus, Showable
<1> QED BY <1>5, <1>6, <1>8, <1>9, <1>10, <1>11, <1>12, <1>14, <1>15 DEF IInv, Control

\* What a failed mutation may show.
LEMMA ComplaintsFacts ==
  ASSUME IInv, NEW v \in Complaints
  PROVE  Showable(v)
<1>1. view \in Views /\ view.seq <= server.seq /\ view.seq \in Nat
  BY StoreAssumption DEF IInv, ViewTypes, Numbered, Views
<1>2. CASE \E f \in Failures : v = Failed(f)
  BY <1>1, <1>2, FailedFacts DEF Showable, IInv
<1>3. CASE v = [view EXCEPT !.busy = FALSE]
  <2>1. /\ v.status = view.status /\ v.owner = view.owner /\ v.active = view.active
        /\ v.seq = view.seq /\ ~v.busy
    BY <1>1, <1>3 DEF Views
  <2>2. v \in Views
    BY <1>1, <1>3 DEF Views
  <2> QED BY <1>1, <2>1, <2>2 DEF Showable, IInv, OwnStatus
<1>4. CASE v = [view EXCEPT !.busy = FALSE, !.op = "idle", !.error = TRUE]
  <2>1. /\ v.status = view.status /\ v.owner = view.owner /\ v.active = view.active
        /\ v.seq = view.seq /\ ~v.busy
    BY <1>1, <1>4 DEF Views
  <2>2. v \in Views
    BY <1>1, <1>4 DEF Views
  <2> QED BY <1>1, <2>1, <2>2 DEF Showable, IInv, OwnStatus
<1> QED BY <1>2, <1>3, <1>4 DEF Complaints

-----------------------------------------------------------------------------
(* The inductive invariant.                                                *)

LEMMA InitInv == Init => IInv
<1> SUFFICES ASSUME Init PROVE IInv
  OBVIOUS
<1> USE StoreAssumption
<1>1. ViewTypes
  BY StateFacts DEF Init, ViewTypes, Loading, Views
<1>2. StoreTypes
  <2>1. NoPoll \in [pc : {"none", "sent", "served"}, got : ServerStates \union {None}, tail : 0 .. MaxOps]
    BY DEF NoPoll
  <2>2. NoMut \in [pc : {"none", "sent", "done", "read", "answered"}, kind : Kinds \union {"none"},
                   got : ServerStates \union {None}]
    BY DEF NoMut
  <2>3. 0 \in 0 .. MaxOps /\ 0 \in 0 .. MaxListeners
    OBVIOUS
  <2> QED BY <2>1, <2>2, <2>3 DEF Init, StoreTypes
<1>3. Busy /\ Alone /\ Dead /\ WindowHeld
  BY DEF Init, Busy, Alone, Dead, WindowHeld, Loading
<1>6. Waiting
  <2>1. tails = {} /\ poll.tail = 0 /\ ops = 0 /\ mut = NoMut
    BY DEF Init, NoPoll
  <2> QED BY <2>1 DEF Waiting
<1>4. Numbered
  BY StateFacts DEF Init, Numbered, NoPoll, NoMut, Loading
<1>5. OwnStatus
  BY DEF Init, OwnStatus, Loading
<1> QED BY <1>1, <1>2, <1>3, <1>4, <1>6, <1>5 DEF IInv, Control

\* What begins a poll keeps the invariant.
LEMMA BeginKeeps ==
  ASSUME StoreAssumption, IInv,
         Refreshable(view, listeners'), Begin(0),
         listeners' \in 0 .. MaxListeners, timer' \in BOOLEAN,
         UNCHANGED <<server, faults, view, mut, ops, popup, blank, disposed>>
  PROVE  IInv'
<1>1. poll' = [pc |-> "sent", got |-> None, tail |-> 0] /\ tails' = tails
  BY DEF Begin
<1>2. ~disposed /\ ~view.busy /\ poll = NoPoll /\ listeners' > 0
  BY DEF Refreshable
<1>3. mut = NoMut
  BY <1>2 DEF IInv, Control, Busy
<1>4. ViewTypes' /\ OwnStatus'
  BY DEF IInv, ViewTypes, OwnStatus
<1>5. StoreTypes'
  BY <1>1 DEF IInv, StoreTypes
<1>6. Busy' /\ Alone' /\ Dead' /\ WindowHeld'
  BY <1>1, <1>2, <1>3 DEF IInv, Control, Busy, Alone, Dead, WindowHeld
<1>7. Waiting'
  BY <1>1, <1>3 DEF IInv, Control, Waiting, StoreTypes
<1>8. Numbered'
  BY <1>1, <1>3 DEF IInv, Numbered, NoMut
<1> QED BY <1>4, <1>5, <1>6, <1>7, <1>8 DEF IInv, Control

\* What stopPolling leaves behind.
LEMMA StopPollingFacts ==
  ASSUME StoreAssumption, IInv, StopPolling
  PROVE  /\ timer' = FALSE /\ poll' = NoPoll /\ poll'.pc = "none"
         /\ poll' \in [pc : {"none", "sent", "served"}, got : ServerStates \union {None}, tail : 0 .. MaxOps]
         /\ tails' \subseteq 1 .. MaxOps
         /\ \A n \in tails' \union {poll'.tail} : n <= ops
         /\ mut # NoMut => tails' = tails
<1>1. timer' = FALSE /\ poll' = NoPoll /\ poll'.tail = 0 /\ poll'.pc = "none"
  BY DEF StopPolling, NoPoll
<1>2. poll' \in [pc : {"none", "sent", "served"}, got : ServerStates \union {None}, tail : 0 .. MaxOps]
  BY DEF StopPolling, NoPoll, StoreAssumption
<1>3. poll.tail \in 0 .. MaxOps /\ ops \in 0 .. MaxOps /\ tails \subseteq 1 .. MaxOps
  BY DEF IInv, StoreTypes
<1>4. CASE poll.tail = 0
  <2>1. tails' = tails
    BY <1>4 DEF StopPolling
  <2> QED BY <1>1, <1>2, <1>3, <2>1 DEF IInv, Control, Waiting
<1>5. CASE poll.tail # 0
  <2>1. tails' = tails \union {poll.tail}
    BY <1>5 DEF StopPolling
  <2>2. poll.tail \in 1 .. MaxOps
    BY <1>3, <1>5
  <2>3. mut = NoMut
    BY <1>5 DEF IInv, Control, Alone, NoPoll
  <2>4. \A n \in tails' \union {poll'.tail} : n <= ops
    <3>1. \A n \in tails \union {poll.tail} : n <= ops
      BY DEF IInv, Control, Waiting
    <3> QED BY <1>1, <1>3, <2>1, <3>1
  <2>5. tails' \subseteq 1 .. MaxOps
    BY <1>3, <2>1, <2>2
  <2> QED BY <1>1, <1>2, <2>3, <2>4, <2>5
<1> QED BY <1>4, <1>5

\* Views come and go.
LEMMA ViewsKeep ==
  ASSUME StoreAssumption, IInv, Subscribe \/ Unsubscribe \/ TimerFires
  PROVE  IInv'
<1> USE DEF serverVars, windowVars, pollVars
<1>1. CASE Subscribe
  <2>1. listeners' \in 0 .. MaxListeners /\ timer' \in BOOLEAN /\ listeners' = listeners + 1
    BY <1>1 DEF Subscribe, IInv, StoreTypes
  <2>2. CASE listeners = 0 /\ Refreshable(view, 1)
    <3>1. Refreshable(view, listeners')
      BY <2>1, <2>2 DEF Refreshable
    <3>2. Begin(0)
      BY <1>1, <2>2 DEF Subscribe
    <3> QED BY <1>1, <2>1, <3>1, <3>2, BeginKeeps DEF Subscribe
  <2>3. CASE ~(listeners = 0 /\ Refreshable(view, 1))
    <3>1. UNCHANGED <<server, faults, view, timer, poll, tails, mut, ops, popup, blank, disposed>> /\ ~disposed
      BY <1>1, <2>3 DEF Subscribe
    <3>2. ViewTypes' /\ StoreTypes' /\ Numbered' /\ OwnStatus'
      BY <2>1, <3>1 DEF IInv, ViewTypes, StoreTypes, Numbered, OwnStatus
    <3>3. listeners > 0 => listeners' > 0
      BY <2>1 DEF IInv, StoreTypes
    <3>4. Control'
      BY <3>1, <3>3 DEF IInv, Control, Busy, Alone, Dead, Waiting, WindowHeld
    <3> QED BY <3>2, <3>4 DEF IInv
  <2> QED BY <2>2, <2>3
<1>2. CASE Unsubscribe
  <2>1. listeners' \in 0 .. MaxListeners /\ listeners' = listeners - 1 /\ listeners \in Nat
    BY <1>2 DEF Unsubscribe, IInv, StoreTypes
  <2>2. UNCHANGED <<server, faults, view, mut, ops, popup, blank, disposed>>
    BY <1>2 DEF Unsubscribe
  <2>3. ~disposed
    BY <1>2 DEF Unsubscribe, IInv, Control, Dead
  <2>4. ViewTypes' /\ OwnStatus'
    BY <2>2 DEF IInv, ViewTypes, OwnStatus
  <2>5. CASE StopPolling
    <3>1. StoreTypes'
      BY <2>1, <2>2, <2>5, StopPollingFacts DEF IInv, StoreTypes
    <3>2. Busy' /\ Alone' /\ Dead' /\ WindowHeld'
      BY <2>2, <2>3, <2>5, StopPollingFacts DEF IInv, Control, Busy, Alone, Dead, WindowHeld
    <3>3. Waiting'
      BY <2>2, <2>5, StopPollingFacts DEF IInv, Control, Waiting
    <3>4. Numbered'
      BY <2>2, <2>5, StopPollingFacts DEF IInv, Numbered
    <3> QED BY <2>4, <3>1, <3>2, <3>3, <3>4 DEF IInv, Control
  <2>6. CASE UNCHANGED <<timer, poll, tails>> /\ listeners # 1
    <3>1. StoreTypes'
      BY <2>1, <2>2, <2>6 DEF IInv, StoreTypes
    <3>2. Busy' /\ Dead' /\ WindowHeld' /\ Waiting'
      BY <2>2, <2>3, <2>6 DEF IInv, Control, Busy, Dead, WindowHeld, Waiting
    <3>3. Alone'
      BY <2>1, <2>2, <2>6 DEF IInv, Control, Alone
    <3>4. Numbered'
      BY <2>2, <2>6 DEF IInv, Numbered
    <3> QED BY <2>4, <3>1, <3>2, <3>3, <3>4 DEF IInv, Control
  <2> QED BY <1>2, <2>5, <2>6 DEF Unsubscribe
<1>3. CASE TimerFires
  <2>1. /\ timer /\ timer' = FALSE
        /\ UNCHANGED <<server, faults, view, listeners, mut, ops, popup, blank, disposed>>
    BY <1>3 DEF TimerFires
  <2>2. CASE Refreshable(view, listeners)
    <3>1. Refreshable(view, listeners') /\ Begin(0)
      BY <1>3, <2>1, <2>2 DEF TimerFires
    <3>2. listeners' \in 0 .. MaxListeners
      BY <2>1 DEF IInv, StoreTypes
    <3> QED BY <2>1, <3>1, <3>2, BeginKeeps
  <2>3. CASE ~Refreshable(view, listeners)
    <3>1. UNCHANGED <<poll, tails>>
      BY <1>3, <2>3 DEF TimerFires
    <3>2. ViewTypes' /\ StoreTypes' /\ Numbered' /\ OwnStatus'
      BY <2>1, <3>1 DEF IInv, ViewTypes, StoreTypes, Numbered, OwnStatus
    <3>3. Control'
      BY <2>1, <3>1 DEF IInv, Control, Busy, Alone, Dead, Waiting, WindowHeld
    <3> QED BY <3>2, <3>3 DEF IInv
  <2> QED BY <2>2, <2>3
<1> QED BY <1>1, <1>2, <1>3

\* A poll is answered, fails, or ends after it was aborted.
LEMMA PollsKeep ==
  ASSUME StoreAssumption, IInv, ServePoll \/ Answers \/ Fails \/ \E n \in tails : Aborted(n)
  PROVE  IInv'
<1> USE DEF serverVars, windowVars
<1>1. CASE ServePoll
  <2>1. /\ poll.pc = "sent" /\ poll' = [poll EXCEPT !.pc = "served", !.got = server]
        /\ UNCHANGED <<server, faults, view, listeners, timer, tails, mut, ops, popup, blank, disposed>>
    BY <1>1 DEF ServePoll
  <2>2. /\ poll'.pc = "served" /\ poll'.got = server /\ poll'.tail = poll.tail
        /\ poll' \in [pc : {"none", "sent", "served"}, got : ServerStates \union {None}, tail : 0 .. MaxOps]
        /\ server \in ServerStates
    BY <2>1 DEF IInv, StoreTypes, ViewTypes
  <2>3. poll # NoPoll
    BY <2>1 DEF NoPoll
  <2>4. ViewTypes' /\ StoreTypes' /\ OwnStatus'
    BY <2>1, <2>2 DEF IInv, ViewTypes, StoreTypes, OwnStatus
  <2>5. Busy' /\ Alone' /\ Dead' /\ WindowHeld' /\ Waiting'
    BY <2>1, <2>2, <2>3 DEF IInv, Control, Busy, Alone, Dead, WindowHeld, Waiting
  <2>6. server.seq <= server.seq
    BY <2>2, StateFacts
  <2>7. Numbered'
    BY <2>1, <2>2, <2>6 DEF IInv, Numbered
  <2> QED BY <2>4, <2>5, <2>7 DEF IInv, Control
<1>2. CASE Answers
  <2>1. poll.pc = "served" /\ poll # NoPoll
    BY <1>2 DEF Answers, NoPoll
  <2>2. poll.got \in ServerStates /\ view.seq <= poll.got.seq /\ poll.got.seq <= server.seq
    BY <2>1 DEF IInv, Numbered
  <2>3. Showable(Shown(poll.got))
    BY <2>2, ShownFacts DEF Showable, IInv
  <2>4. faults' \in 0 .. MaxFaults
    BY <1>2 DEF Answers, IInv, ViewTypes
  <2> QED BY <1>2, <2>1, <2>3, <2>4, SettledKeeps DEF Answers
<1>3. CASE Fails
  <2>1. poll # NoPoll
    BY <1>3 DEF Fails, NoPoll
  <2>2. PICK f \in Failures : Settled(Failed(f))
    BY <1>3 DEF Fails
  <2>3. view.seq <= server.seq /\ view.seq \in Nat
    BY DEF IInv, Numbered, ViewTypes, Views
  <2>4. Showable(Failed(f))
    BY <2>3, FailedFacts DEF Showable, IInv
  <2>5. faults' \in 0 .. MaxFaults
    BY <1>3 DEF Fails, IInv, ViewTypes
  <2> QED BY <1>3, <2>1, <2>2, <2>4, <2>5, SettledKeeps DEF Fails
<1>4. CASE \E n \in tails : Aborted(n)
  <2>1. PICK n \in tails : Aborted(n)
    BY <1>4
  <2>2. /\ tails' = tails \ {n} /\ timer' = Scheduled(view)
        /\ popup' = IF popup = n THEN 0 ELSE popup
        /\ UNCHANGED <<server, faults, view, listeners, poll, mut, ops, blank, disposed>>
    BY <2>1 DEF Aborted, LetGo
  <2>3. timer' \in BOOLEAN /\ (disposed => ~timer')
    BY <2>2 DEF Scheduled
  <2>4. popup' \in 0 .. MaxOps
    BY <2>2 DEF IInv, StoreTypes
  <2>5. ViewTypes' /\ StoreTypes' /\ OwnStatus' /\ Numbered'
    BY <2>2, <2>3, <2>4 DEF IInv, ViewTypes, StoreTypes, OwnStatus, Numbered
  <2>6. Busy' /\ Alone' /\ Waiting'
    BY <2>2 DEF IInv, Control, Busy, Alone, Waiting
  <2>7. Dead'
    BY <2>2, <2>3 DEF IInv, Control, Dead
  <2>8. WindowHeld'
    <3>1. SUFFICES ASSUME NEW m \in blank
                   PROVE  popup' = m /\ mut.kind = "signIn" /\ m = ops /\ ~disposed
      BY <2>2 DEF WindowHeld
    <3>2. popup = m /\ mut.kind = "signIn" /\ m = ops /\ ~disposed
      BY DEF IInv, Control, WindowHeld
    <3>3. mut # NoMut
      BY <3>2 DEF NoMut
    <3>4. n # ops
      BY <2>1, <3>3 DEF IInv, Control, Waiting
    <3> QED BY <2>2, <3>2, <3>4
  <2> QED BY <2>5, <2>6, <2>7, <2>8 DEF IInv, Control
<1> QED BY <1>1, <1>2, <1>3, <1>4

\* A mutation begins.
LEMMA StartKeeps ==
  ASSUME StoreAssumption, IInv, NEW kind \in Kinds, Start(kind)
  PROVE  IInv'
<1> USE DEF serverVars, windowVars
<1>1. /\ ~disposed /\ ~view.busy /\ ops < MaxOps /\ StopPolling
      /\ view' = Working(kind) /\ mut' = [pc |-> "sent", kind |-> kind, got |-> None] /\ ops' = ops + 1
      /\ UNCHANGED <<server, faults, listeners, disposed>>
  BY DEF Start
<1>2. mut = NoMut /\ blank = {}
  <2>1. mut = NoMut
    BY <1>1 DEF IInv, Control, Busy
  <2> QED BY <2>1 DEF IInv, Control, WindowHeld, NoMut
<1>3. \/ kind = "signIn" /\ popup' = ops + 1 /\ blank' = {ops + 1}
      \/ kind = "signIn" /\ popup' = 0 /\ blank' = {}
      \/ popup' = popup /\ blank' = {}
  BY <1>2 DEF Start
<1>4. ops \in Nat /\ ops + 1 \in 1 .. MaxOps
  BY <1>1 DEF IInv, StoreTypes
<1>5. /\ view' \in Views /\ view'.busy /\ view'.seq = view.seq /\ view'.active = view.active
      /\ view'.owner = view.owner /\ (view'.status \in Kept => view'.status = view.status)
  <2>1. view \in Views /\ "signing-in" \notin Kept
    BY DEF IInv, ViewTypes, Kept
  <2>2. CASE kind = "signIn"
    BY <1>1, <2>1, <2>2 DEF Working, Views
  <2>3. CASE kind = "callback"
    BY <1>1, <2>1, <2>3 DEF Working, Views
  <2>4. CASE kind \notin {"signIn", "callback"}
    BY <1>1, <2>1, <2>4 DEF Working, Views
  <2> QED BY <2>2, <2>3, <2>4
<1>6. ViewTypes'
  BY <1>1, <1>5 DEF IInv, ViewTypes
<1>7. StoreTypes'
  <2>1. mut' \in [pc : {"none", "sent", "done", "read", "answered"}, kind : Kinds \union {"none"},
                got : ServerStates \union {None}]
    BY <1>1
  <2>2. popup' \in 0 .. MaxOps /\ blank' \subseteq 1 .. MaxOps /\ ops' \in 0 .. MaxOps
    BY <1>1, <1>3, <1>4 DEF IInv, StoreTypes
  <2> QED BY <1>1, <2>1, <2>2, StopPollingFacts DEF IInv, StoreTypes
<1>8. mut' # NoMut /\ mut'.pc = "sent" /\ mut'.kind = kind
  BY <1>1 DEF NoMut
<1>9. Busy' /\ Alone' /\ Dead'
  BY <1>1, <1>5, <1>8, StopPollingFacts DEF Busy, Alone, Dead
<1>10. Waiting'
  <2>1. \A n \in tails' \union {poll'.tail} : n <= ops
    BY <1>1, StopPollingFacts
  <2>2. tails' \subseteq 1 .. MaxOps /\ poll'.tail \in 0 .. MaxOps
    BY <1>7 DEF StoreTypes
  <2> QED BY <1>1, <1>4, <2>1, <2>2 DEF Waiting
<1>11. WindowHeld'
  BY <1>1, <1>3, <1>8 DEF WindowHeld
<1>12. Numbered'
  BY <1>1, <1>5, <1>8, StopPollingFacts DEF IInv, Numbered
<1>13. OwnStatus'
  BY <1>5 DEF IInv, OwnStatus
<1> QED BY <1>6, <1>7, <1>9, <1>10, <1>11, <1>12, <1>13 DEF IInv, Control

\* The server moves on: no answer becomes newer than its state.
LEMMA ServerMoves ==
  ASSUME StoreAssumption, IInv, server' \in ServerStates, server' = server \/ server' \in Later
  PROVE  /\ server.seq <= server'.seq /\ server.seq \in Nat /\ server'.seq \in Nat
         /\ view.seq \in Nat /\ view.seq <= server'.seq
<1>1. server.seq \in Nat /\ server'.seq \in Nat /\ view.seq \in Nat /\ view.seq <= server.seq
  BY StateFacts DEF IInv, ViewTypes, Views, Numbered
<1>2. server.seq <= server'.seq
  BY <1>1 DEF Later
<1> QED BY <1>1, <1>2

LEMMA OutcomesLater ==
  ASSUME NEW kind, NEW s \in Outcomes(kind)
  PROVE  s \in Later /\ s \in ServerStates
BY DEF Outcomes, Later

\* What the requests of a mutation find at the server.
LEMMA RequestsKeep ==
  ASSUME StoreAssumption, IInv, Serve \/ ServeMutationRead \/ ServerChanges
  PROVE  IInv'
<1> USE DEF pollVars, windowVars
<1>1. /\ UNCHANGED <<faults, view, listeners, timer, poll, tails, ops, popup, blank, disposed>>
      /\ server' \in ServerStates /\ (server' = server \/ server' \in Later)
  BY OutcomesLater DEF Serve, ServeMutationRead, ServerChanges, serverVars, IInv, ViewTypes, Later
<1>2. ViewTypes' /\ OwnStatus'
  BY <1>1 DEF IInv, ViewTypes, OwnStatus
<1>3. /\ server.seq <= server'.seq /\ server.seq \in Nat /\ server'.seq \in Nat
      /\ view.seq \in Nat /\ view.seq <= server'.seq
  BY <1>1, ServerMoves
<1>4. poll.pc = "served" => poll.got \in ServerStates /\ view.seq <= poll.got.seq /\ poll.got.seq <= server'.seq
  <2>1. poll.pc = "served" => poll.got \in ServerStates /\ view.seq <= poll.got.seq /\ poll.got.seq <= server.seq
    BY DEF IInv, Numbered
  <2>2. poll.got \in ServerStates => poll.got.seq \in Nat
    BY StateFacts
  <2> QED BY <1>3, <2>1, <2>2
<1>5. CASE mut' = mut
  <2>1. Control' /\ StoreTypes'
    BY <1>1, <1>5 DEF IInv, Control, Busy, Alone, Dead, Waiting, WindowHeld, StoreTypes
  <2>2. Numbered'
    <3>1. mut.got \in ServerStates => mut.got.seq \in Nat
      BY StateFacts
    <3> QED BY <1>1, <1>3, <1>4, <1>5, <3>1 DEF IInv, Numbered
  <2> QED BY <1>2, <2>1, <2>2 DEF IInv
<1>6. CASE mut' # mut
  <2>1. mut.pc \in {"sent", "read"}
    BY <1>6 DEF Serve, ServeMutationRead, ServerChanges
  <2>2. /\ mut' = [mut EXCEPT !.pc = mut'.pc, !.got = mut'.got]
        /\ mut'.pc \in {"done", "answered"}
        /\ mut'.got \in ServerStates \union {None}
        /\ mut'.pc = "answered" \/ mut.kind = "signOut" => mut'.got = server'
    BY <1>1, <1>6 DEF Serve, ServeMutationRead, ServerChanges, serverVars, IInv, StoreTypes
  <2>3. mut' \in [pc : {"none", "sent", "done", "read", "answered"}, kind : Kinds \union {"none"},
                got : ServerStates \union {None}]
    BY <2>2 DEF IInv, StoreTypes
  <2>4. mut'.kind = mut.kind
    BY <2>2 DEF IInv, StoreTypes
  <2>5. mut # NoMut /\ mut' # NoMut
    BY <2>1, <2>2 DEF NoMut
  <2>6. StoreTypes'
    BY <1>1, <2>3 DEF IInv, StoreTypes
  <2>7. Busy' /\ Dead' /\ Waiting' /\ WindowHeld'
    BY <1>1, <2>2, <2>4, <2>5 DEF IInv, Control, Busy, Dead, Waiting, WindowHeld
  <2>8. Alone'
    BY <1>1, <2>5 DEF IInv, Control, Alone
  <2>9. Numbered'
    BY <1>1, <1>3, <1>4, <2>2, <2>4 DEF Numbered
  <2> QED BY <1>2, <2>6, <2>7, <2>8, <2>9 DEF IInv, Control
<1> QED BY <1>5, <1>6

\* The answers of a mutation that end it or let it go on, and its failures.
LEMMA EndsKeep ==
  ASSUME StoreAssumption, IInv,
         Done \/ Reread \/ Abandoned \/ (\E b \in BOOLEAN : Refused(b) \/ MutationFails(b))
  PROVE  IInv'
<1> USE DEF serverVars, windowVars
<1>1. view \in Views /\ view.seq \in Nat /\ view.seq <= server.seq /\ faults \in 0 .. MaxFaults
  BY DEF IInv, ViewTypes, Views, Numbered
<1>2. CASE Done
  <2>1. /\ mut.pc = "done" /\ ~disposed
        /\ UNCHANGED <<server, faults, listeners, ops, disposed>>
    BY <1>2 DEF Done
  <2>2. CASE mut.kind = "signIn" \/ mut.kind = "callback"
    <3>1. PICK v : Settle(v, FALSE) /\ v \in {[view EXCEPT !.busy = FALSE, !.op = "waiting"],
                                             [view EXCEPT !.busy = FALSE]}
      BY <1>2, <2>2 DEF Done
    <3>2. /\ v \in Views /\ ~v.busy /\ v.seq = view.seq
          /\ v.status = view.status /\ v.owner = view.owner /\ v.active = view.active
      BY <1>1, <3>1 DEF Views
    <3>3. Showable(v)
      BY <1>1, <3>2 DEF Showable, IInv, OwnStatus
    <3> QED BY <1>1, <2>1, <3>1, <3>3, SettleKeeps
  <2>3. CASE mut.kind = "signOut"
    <3> DEFINE v == [Loading EXCEPT !.status = "signed-out", !.seq = mut.got.seq]
    <3>1. Settle(v, FALSE)
      BY <1>2, <2>3 DEF Done
    <3>2. mut.got \in ServerStates /\ view.seq <= mut.got.seq /\ mut.got.seq <= server.seq
      BY <2>1, <2>3 DEF IInv, Numbered
    <3>3. v \in Views /\ ~v.busy /\ v.seq = mut.got.seq /\ v.owner = v.active
      BY <3>2, StateFacts DEF Loading, Views
    <3>4. Showable(v)
      BY <3>2, <3>3 DEF Showable
    <3> QED BY <1>1, <2>1, <3>1, <3>4, SettleKeeps
  <2>4. CASE mut.kind \notin {"signIn", "callback", "signOut"}
    <3>1. /\ mut' = [mut EXCEPT !.pc = "read"]
          /\ UNCHANGED <<view, timer, poll, tails, popup, blank>>
      BY <1>2, <2>4 DEF Done
    <3>2. /\ mut' \in [pc : {"none", "sent", "done", "read", "answered"}, kind : Kinds \union {"none"},
                got : ServerStates \union {None}]
          /\ mut'.pc = "read" /\ mut'.kind = mut.kind /\ mut # NoMut /\ mut' # NoMut
      BY <2>1, <3>1 DEF IInv, StoreTypes, NoMut
    <3>3. ViewTypes' /\ StoreTypes' /\ OwnStatus'
      BY <2>1, <3>1, <3>2 DEF IInv, ViewTypes, StoreTypes, OwnStatus
    <3>4. Busy' /\ Alone' /\ Dead' /\ Waiting' /\ WindowHeld'
      BY <2>1, <3>1, <3>2 DEF IInv, Control, Busy, Alone, Dead, Waiting, WindowHeld
    <3>5. Numbered'
      BY <2>1, <3>1, <3>2 DEF IInv, Numbered
    <3> QED BY <3>3, <3>4, <3>5 DEF IInv, Control
  <2> QED BY <2>2, <2>3, <2>4
<1>3. CASE Reread
  <2>1. /\ mut.pc = "answered" /\ ~disposed /\ Settle(Read(mut.got), FALSE)
        /\ UNCHANGED <<server, faults, listeners, ops, disposed>>
    BY <1>3 DEF Reread
  <2>2. mut.got \in ServerStates /\ view.seq <= mut.got.seq /\ mut.got.seq <= server.seq
    BY <2>1 DEF IInv, Numbered
  <2>3. /\ Read(mut.got) \in Views /\ ~Read(mut.got).busy /\ Read(mut.got).seq = mut.got.seq
        /\ Read(mut.got).owner = Read(mut.got).active
    BY <2>2, StateFacts DEF Read, Loading, Views, Failures, Kept
  <2>4. Showable(Read(mut.got))
    BY <2>2, <2>3 DEF Showable
  <2> QED BY <1>1, <2>1, <2>4, SettleKeeps
<1>4. CASE Abandoned
  <2>1. PICK v \in Complaints : Settle(v, FALSE)
    BY <1>4 DEF Abandoned
  <2> QED BY <1>1, <1>4, <2>1, ComplaintsFacts, SettleKeeps DEF Abandoned
<1>5. CASE \E b \in BOOLEAN : Refused(b)
  <2>1. PICK b \in BOOLEAN : Refused(b)
    BY <1>5
  <2>2. PICK v \in Complaints : Settle(v, b)
    BY <2>1 DEF Refused
  <2>3. mut.pc # "none" /\ ~disposed /\ UNCHANGED <<server, faults, listeners, ops, disposed>>
    BY <2>1 DEF Refused
  <2> QED BY <1>1, <2>2, <2>3, ComplaintsFacts, SettleKeeps
<1>6. CASE \E b \in BOOLEAN : MutationFails(b)
  <2>1. PICK b \in BOOLEAN : MutationFails(b)
    BY <1>6
  <2>2. PICK v \in Complaints : Settle(v, b /\ mut.kind # "callback")
    BY <2>1 DEF MutationFails
  <2>3. mut.pc # "none" /\ ~disposed /\ UNCHANGED <<server, listeners, ops, disposed>> /\ faults' \in 0 .. MaxFaults
    BY <1>1, <2>1 DEF MutationFails
  <2>4. Showable(v) /\ (b /\ mut.kind # "callback") \in BOOLEAN
    BY ComplaintsFacts
  <2> QED BY <2>2, <2>3, <2>4, SettleKeeps
<1> QED BY <1>2, <1>3, <1>4, <1>5, <1>6

\* The store is disposed.
LEMMA DisposeKeeps ==
  ASSUME StoreAssumption, IInv, Dispose
  PROVE  IInv'
<1> USE DEF serverVars, windowVars
<1>1. /\ ~disposed /\ disposed' = TRUE /\ StopPolling /\ popup' = 0 /\ blank' = blank \ {popup}
      /\ listeners' = 0 /\ view' = Loading /\ UNCHANGED <<server, faults, mut, ops>>
  BY DEF Dispose
<1>2. server.seq \in Nat /\ Loading \in Views /\ Loading.seq = 0 /\ Loading.status = "loading"
  BY StoreAssumption, StateFacts DEF IInv, ViewTypes, Loading, Views
<1>3. ViewTypes'
  BY <1>1, <1>2 DEF IInv, ViewTypes
<1>4. StoreTypes'
  <2>1. 0 \in 0 .. MaxListeners /\ 0 \in 0 .. MaxOps
    BY DEF StoreAssumption
  <2>2. blank' \subseteq 1 .. MaxOps
    BY <1>1 DEF IInv, StoreTypes
  <2> QED BY <1>1, <2>1, <2>2, StopPollingFacts DEF IInv, StoreTypes
<1>5. blank' = {}
  BY <1>1 DEF IInv, Control, WindowHeld
<1>6. Busy' /\ Alone' /\ Dead' /\ WindowHeld'
  BY <1>1, <1>5, StopPollingFacts DEF IInv, Control, Busy, Alone, Dead, WindowHeld
<1>7. Waiting'
  <2>1. \A n \in tails' \union {poll'.tail} : n <= ops
    BY <1>1, StopPollingFacts
  <2>2. mut # NoMut => ops > 0 /\ ops \notin tails'
    BY <1>1, StopPollingFacts DEF IInv, Control, Waiting
  <2>3. ops' = ops /\ mut' = mut
    BY <1>1
  <2> QED BY <2>1, <2>2, <2>3 DEF Waiting
<1>8. Numbered'
  <2>1. view'.seq = 0 /\ server' = server /\ poll'.pc = "none" /\ mut' = mut /\ disposed'
    BY <1>1, <1>2, StopPollingFacts
  <2>2. mut.pc = "answered" \/ (mut.pc = "done" /\ mut.kind = "signOut") =>
          mut.got \in ServerStates /\ mut.got.seq <= server.seq
    BY DEF IInv, Numbered
  <2> QED BY <1>2, <2>1, <2>2 DEF Numbered
<1>9. OwnStatus'
  BY <1>1, <1>2 DEF OwnStatus, Kept
<1> QED BY <1>3, <1>4, <1>6, <1>7, <1>8, <1>9 DEF IInv, Control

THEOREM Invariance == Spec => []IInv
<1>1. IInv /\ UNCHANGED vars => IInv'
  <2> SUFFICES ASSUME IInv, UNCHANGED vars PROVE IInv'
    OBVIOUS
  <2>1. ViewTypes' /\ StoreTypes' /\ Numbered' /\ OwnStatus'
    BY DEF IInv, vars, ViewTypes, StoreTypes, Numbered, OwnStatus
  <2>2. Control'
    BY DEF IInv, vars, Control, Busy, Alone, Dead, Waiting, WindowHeld
  <2> QED BY <2>1, <2>2 DEF IInv
<1>2. IInv /\ Next => IInv'
  BY StoreAssumption, ViewsKeep, PollsKeep, StartKeeps, RequestsKeep, EndsKeep, DisposeKeeps DEF Next, Proceed
<1> QED BY InitInv, <1>1, <1>2, PTL DEF Spec

\* The type invariant.
THEOREM TypeCorrect == Spec => []TypeOK
<1>1. IInv => TypeOK
  BY TypeParts DEF IInv
<1> QED BY Invariance, <1>1, PTL

\* No poll beside a mutation, and none that nobody looks at.
THEOREM PollsAlone == Spec => []NoOverlap
<1>1. IInv => NoOverlap
  BY DEF IInv, Control, Alone, NoOverlap
<1> QED BY Invariance, <1>1, PTL

\* The status shown is that of the account shown.
THEOREM StatusOfItsAccount == Spec => []OwnStatus
<1>1. IInv => OwnStatus
  BY DEF IInv
<1> QED BY Invariance, <1>1, PTL

\* A window that is still blank is held by the store, and so will be closed.
THEOREM WindowsHeld == Spec => []WindowHeld
<1>1. IInv => WindowHeld
  BY DEF IInv, Control
<1> QED BY Invariance, <1>1, PTL

\* What is shown never gets older.
THEOREM NewsOnly == Spec => NeverBack
<1>1. IInv /\ IInv' /\ [Next]_vars => [~disposed' => view'.seq >= view.seq]_vars
  <2> SUFFICES ASSUME IInv, IInv', Next, ~disposed'
               PROVE  view'.seq >= view.seq
    OBVIOUS
  <2> USE DEF serverVars, windowVars, pollVars
  <2>1. view.seq \in Nat /\ view'.seq \in Nat
    BY StoreAssumption DEF IInv, ViewTypes, Views
  <2>2. ~disposed
    BY DEF Next, Proceed, Subscribe, Unsubscribe, TimerFires, ServePoll, Answers, Aborted, Serve, Done,
           ServeMutationRead, Reread, Abandoned, Dispose, Fails, Start, Refused, MutationFails, ServerChanges
  <2>3. CASE view' = view
    BY <2>1, <2>3
  <2>4. CASE Answers
    <3>1. view' = Shown(poll.got) /\ poll.pc = "served"
      BY <2>4 DEF Answers, Settled
    <3> QED BY <2>1, <3>1, ShownFacts DEF IInv, Numbered
  <2>5. CASE Fails
    <3>1. PICK f \in Failures : view' = Failed(f)
      BY <2>5 DEF Fails, Settled
    <3> QED BY <2>1, <3>1, FailedFacts DEF IInv
  <2>6. CASE \E kind \in Kinds : Start(kind)
    <3>1. PICK kind \in Kinds : view' = Working(kind)
      BY <2>6 DEF Start
    <3>2. view'.seq = view.seq
      BY <3>1 DEF Working, IInv, ViewTypes, Views
    <3> QED BY <2>1, <3>2
  <2>7. ASSUME NEW v, NEW b, Settle(v, b), Showable(v)
        PROVE  view'.seq >= view.seq
    <3>1. view' = v
      BY <2>2, <2>7 DEF Settle, Publish
    <3> QED BY <2>1, <2>2, <2>7, <3>1 DEF Showable
  <2>8. CASE Done /\ view' # view
    <3>1. mut.kind \in {"signIn", "callback", "signOut"} /\ mut.pc = "done" /\ view \in Views
      BY <2>8 DEF Done, IInv, ViewTypes
    <3>2. CASE mut.kind = "signIn"
      <4>1. Settle([view EXCEPT !.busy = FALSE, !.op = "waiting"], FALSE)
        BY <2>8, <3>2 DEF Done
      <4>2. view' = [view EXCEPT !.busy = FALSE, !.op = "waiting"]
        BY <2>2, <4>1 DEF Settle, Publish
      <4> QED BY <2>1, <3>1, <4>2 DEF Views
    <3>3. CASE mut.kind = "callback"
      <4>1. Settle([view EXCEPT !.busy = FALSE], FALSE)
        BY <2>8, <3>3 DEF Done
      <4>2. view' = [view EXCEPT !.busy = FALSE]
        BY <2>2, <4>1 DEF Settle, Publish
      <4> QED BY <2>1, <3>1, <4>2 DEF Views
    <3>4. CASE mut.kind = "signOut"
      <4>1. Settle([Loading EXCEPT !.status = "signed-out", !.seq = mut.got.seq], FALSE)
        BY <2>8, <3>4 DEF Done
      <4>2. view' = [Loading EXCEPT !.status = "signed-out", !.seq = mut.got.seq]
        BY <2>2, <4>1 DEF Settle, Publish
      <4>3. view'.seq = mut.got.seq
        BY <4>2 DEF Loading
      <4> QED BY <2>1, <2>2, <3>1, <3>4, <4>3 DEF IInv, Numbered
    <3> QED BY <3>1, <3>2, <3>3, <3>4
  <2>9. CASE Reread
    <3>1. mut.pc = "answered" /\ view' = Read(mut.got)
      BY <2>2, <2>9 DEF Reread, Settle, Publish
    <3> QED BY <2>1, <2>2, <3>1 DEF IInv, Numbered, Read, Loading
  <2>10. CASE \E b \in BOOLEAN : Refused(b) \/ MutationFails(b)
    BY <2>7, <2>10, ComplaintsFacts DEF Refused, MutationFails
  <2>11. CASE Dispose
    BY <2>11 DEF Dispose
  <2>12. CASE Abandoned
    BY <2>2, <2>12 DEF Abandoned
  <2>13. CASE Subscribe \/ Unsubscribe \/ TimerFires \/ ServePoll \/ (\E n \in tails : Aborted(n))
              \/ Serve \/ ServeMutationRead \/ ServerChanges
    BY <2>3, <2>13 DEF Subscribe, Unsubscribe, TimerFires, ServePoll, Aborted, Serve, ServeMutationRead, ServerChanges
  <2> QED BY <2>3, <2>4, <2>5, <2>6, <2>8, <2>9, <2>10, <2>11, <2>12, <2>13 DEF Next, Proceed
<1> QED BY Invariance, <1>1, PTL DEF Spec, NeverBack

\* A disposed store stays as it is.
THEOREM DisposalIsFinal == Spec => DisposedForGood
<1>1. IInv /\ IInv' /\ [Next]_vars =>
        [disposed => /\ UNCHANGED <<view, listeners, disposed>>
                     /\ ~timer' /\ poll' = NoPoll]_vars
  <2> SUFFICES ASSUME IInv, IInv', Next, disposed
               PROVE  UNCHANGED <<view, listeners, disposed>> /\ ~timer' /\ poll' = NoPoll
    OBVIOUS
  <2>1. disposed'
    BY DEF Next, Proceed, Subscribe, Unsubscribe, TimerFires, ServePoll, Answers, Aborted, Serve, Done,
           ServeMutationRead, Reread, Abandoned, Dispose, Fails, Start, Refused, MutationFails, ServerChanges
  <2>2. view' = Loading /\ view = Loading /\ listeners' = 0 /\ listeners = 0 /\ ~timer'
    BY <2>1 DEF IInv, Control, Dead
  <2>3. poll' = NoPoll
    BY <2>1 DEF IInv, Control, Alone
  <2>4. disposed' = disposed
    BY <2>1 DEF Next, Proceed, Subscribe, Unsubscribe, TimerFires, ServePoll, Answers, Aborted, Serve, Done,
           ServeMutationRead, Reread, Abandoned, Dispose, Fails, Start, Refused, MutationFails, ServerChanges
  <2> QED BY <2>2, <2>3, <2>4
<1> QED BY Invariance, <1>1, PTL DEF Spec, DisposedForGood
===============================================================================
