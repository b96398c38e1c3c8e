---- MODULE CredentialStoreProofs ----
(***************************************************************************)
(* Theorems about CredentialStore, for every set of callers and accounts,  *)
(* every account limit and every number of tokens.                         *)
(***************************************************************************)
EXTENDS CredentialStore, FiniteSetTheorems, TLAPS

Inside == {"holding", "writing", "removing", "deleting"}

-----------------------------------------------------------------------------
\* The documents that each kind of write composes are documents.

\* No document holds more accounts than the limit; one that loses accounts, or
\* has none, does not either.
LEMMA WithinLimit ==
  ASSUME NEW d \in Document
  PROVE  /\ IsFiniteSet(Accounts(d)) /\ Cardinality(Accounts(d)) <= Limit
         /\ \A S \in SUBSET Accounts(d) : Cardinality(S) <= Limit
<1>1. IsFiniteSet(Accounts(d))
  BY StoreAssumption, FS_Subset DEF Accounts
<1>2. CASE d = NoDoc
  <2>1. Accounts(d) = {}
    BY <1>2 DEF Accounts, NoDoc
  <2> QED BY <1>1, <2>1, FS_EmptySet, StoreAssumption
<1>3. CASE d # NoDoc
  <2>1. Cardinality(Accounts(d)) <= Limit
    BY <1>3 DEF Document
  <2>2. ASSUME NEW S \in SUBSET Accounts(d) PROVE Cardinality(S) <= Limit
    <3>1. IsFiniteSet(S) /\ Cardinality(S) <= Cardinality(Accounts(d))
      BY <1>1, FS_Subset
    <3>2. Cardinality(S) \in Nat /\ Cardinality(Accounts(d)) \in Nat
      BY <1>1, <3>1, FS_CardinalityType
    <3> QED BY <2>1, <3>1, <3>2, StoreAssumption
  <2> QED BY <1>1, <2>1, <2>2
<1> QED BY <1>2, <1>3

\* A stored account never counts against the limit.
LEMMA StoredFits ==
  ASSUME NEW d \in Document, NEW a \in Accounts(d)
  PROVE  Cardinality(Accounts(d) \cup {a}) <= Limit
<1>1. Accounts(d) \cup {a} = Accounts(d)
  OBVIOUS
<1> QED BY <1>1, WithinLimit

\* Nor does the account of a login that was not refused.
LEMMA LoginFits ==
  ASSUME NEW d \in Document, NEW o, o.kind = "login", ~Refused(o, d)
  PROVE  Cardinality(Accounts(d) \cup {o.acct}) <= Limit
<1>1. ~(Cardinality(Accounts(d) \cup {o.acct}) > Limit)
  BY DEF Refused
<1>2. IsFiniteSet(Accounts(d) \cup {o.acct})
  BY WithinLimit, FS_AddElement
<1> QED BY <1>1, <1>2, FS_CardinalityType, StoreAssumption

\* Replacing or adding one credential keeps a document well formed, whichever
\* stored account ends up selected: what a login and a refresh write.
LEMMA UpsertDocument ==
  ASSUME NEW d \in Document, NEW a \in Account, NEW t \in Token,
         NEW s \in Account, s = a \/ s \in Accounts(d),
         Cardinality(Accounts(d) \cup {a}) <= Limit
  PROVE  /\ V2(s, Upsert(d, a, t)) \in Document
         /\ Accounts(V2(s, Upsert(d, a, t))) = Accounts(d) \cup {a}
<1>1. d.creds \in [Account -> 0..MaxToken]
  BY StoreAssumption DEF Document, NoDoc, NoToken
<1>2. /\ Upsert(d, a, t) \in [Account -> 0..MaxToken]
      /\ Upsert(d, a, t)[a] = t
      /\ \A b \in Account \ {a} : Upsert(d, a, t)[b] = d.creds[b]
  BY <1>1, StoreAssumption DEF Upsert, Token
<1>3. t # NoToken
  BY DEF Token, NoToken
<1>4. Accounts(V2(s, Upsert(d, a, t))) = Accounts(d) \cup {a}
  BY <1>2, <1>3 DEF Accounts, V2
<1>5. V2(s, Upsert(d, a, t)) \in Document
  BY <1>2, <1>4 DEF Document, V2
<1> QED BY <1>4, <1>5

\* Selecting another stored account keeps a document well formed.
LEMMA SelectDocument ==
  ASSUME NEW d \in Document, NEW s \in Accounts(d)
  PROVE  V2(s, d.creds) \in Document
<1>1. d.creds \in [Account -> 0..MaxToken] /\ s \in Account
  BY StoreAssumption DEF Document, NoDoc, NoToken, Accounts
<1>2. Accounts(V2(s, d.creds)) = Accounts(d)
  BY DEF Accounts, V2
<1> QED BY <1>1, <1>2, WithinLimit DEF Document, V2

\* What removeAccount leaves after its checks is a document: in particular the
\* selected account is among the accounts that remain.
LEMMA RemainingDocument ==
  ASSUME NEW d \in Document, NEW o \in Operation,
         o.kind = "remove", ~Refused(o, d)
  PROVE  /\ Remaining(o, d) \in Document
         /\ Accounts(Remaining(o, d)) = Accounts(d) \ {o.acct}
<1>1. /\ d.creds \in [Account -> 0..MaxToken]
      /\ o.acct \in Accounts(d) /\ o.acct \in Account
  BY StoreAssumption DEF Document, NoDoc, NoToken, Refused, Accounts
<1>2. d # NoDoc /\ d.active \in Accounts(d)
  BY <1>1 DEF Document, NoDoc, Accounts
<1>3. /\ Removal(d, o.acct) \in [Account -> 0..MaxToken]
      /\ Removal(d, o.acct)[o.acct] = NoToken
      /\ \A b \in Account \ {o.acct} : Removal(d, o.acct)[b] = d.creds[b]
  BY <1>1, StoreAssumption DEF Removal, NoToken
<1>4. \A s : Accounts(V2(s, Removal(d, o.acct))) = Accounts(d) \ {o.acct}
  BY <1>3 DEF Accounts, V2
<1>5. CASE Accounts(d) = {o.acct}
  <2>1. Remaining(o, d) = NoDoc
    BY <1>5 DEF Remaining
  <2>2. Accounts(NoDoc) = {}
    BY DEF Accounts, NoDoc
  <2> QED BY <2>1, <2>2, <1>5 DEF Document
<1>6. CASE Accounts(d) # {o.acct}
  <2> DEFINE s == IF o.acct = d.active THEN o.repl ELSE d.active
  <2>1. Remaining(o, d) = V2(s, Removal(d, o.acct))
    BY <1>6 DEF Remaining
  <2>2. s \in Accounts(d) \ {o.acct}
    BY <1>2, <1>6 DEF Refused, NeedsReplacement
  <2>3. s \in Account
    BY <2>2 DEF Accounts
  <2>4. Cardinality(Accounts(d) \ {o.acct}) <= Limit
    BY WithinLimit
  <2> HIDE DEF s
  <2> QED BY <2>1, <2>2, <2>3, <2>4, <1>3, <1>4 DEF Document, V2
<1> QED BY <1>5, <1>6

\* The rollback copy of a version-1 document, and the documents of Init.
LEMMA InitialDocuments ==
  ASSUME NEW a \in Account, NEW t \in Token
  PROVE  /\ V1(a, t) \in Document
         /\ V1(a, t).version = 1
         /\ Accounts(V1(a, t)) = {a}
<1>1. /\ V1(a, t).creds \in [Account -> 0..MaxToken]
      /\ V1(a, t).creds[a] = t
      /\ \A b \in Account \ {a} : V1(a, t).creds[b] = NoToken
  BY StoreAssumption DEF V1, NoDoc, NoToken, Token
<1>2. t # NoToken
  BY DEF Token, NoToken
<1>3. Accounts(V1(a, t)) = {a}
  BY <1>1, <1>2 DEF Accounts
<1>4. Cardinality({a}) = 1
  BY FS_Singleton
<1>5. Cardinality(Accounts(V1(a, t))) <= Limit
  BY <1>3, <1>4, StoreAssumption
<1>6. a \in Accounts(V1(a, t)) /\ V1(a, t) = [version |-> 1, active |-> a, creds |-> V1(a, t).creds]
  BY <1>3 DEF V1
<1> QED BY <1>1, <1>3, <1>5, <1>6 DEF Document

-----------------------------------------------------------------------------
\* Type correctness is inductive by itself: each stage passes on a document.

LEMMA InitType == Init => TypeOK
<1> SUFFICES ASSUME Init PROVE TypeOK
  OBVIOUS
<1>1. 1 \in Token /\ 2 \in Token
  BY StoreAssumption DEF Token
<1>2. NoDoc \in Document /\ NoDoc.version = 0
  BY DEF Document, NoDoc
<1>3. main \in Document /\ backup \in Document /\ backup.version # 2
  BY <1>1, <1>2, InitialDocuments DEF Init
<1>4. issued \in 0..MaxToken /\ spent \subseteq Token
  BY StoreAssumption DEF Init, Token
<1>5. NoOp \in Operation
  BY DEF Operation
<1> QED BY <1>2, <1>3, <1>4, <1>5 DEF Init, TypeOK

\* Forgetting a caller keeps the bookkeeping typed.
LEMMA ForgetType ==
  ASSUME TypeOK, NEW p \in Proc, Forget(p)
  PROVE  /\ pc' \in [Proc -> {"idle", "waiting", "holding", "writing", "removing", "deleting"}]
         /\ op' \in [Proc -> Operation]
         /\ base' \in [Proc -> Document] /\ next' \in [Proc -> Document]
BY DEF TypeOK, Forget, Operation, Document

LEMMA NextType == TypeOK /\ [Next]_vars => TypeOK'
<1> SUFFICES ASSUME TypeOK, [Next]_vars PROVE TypeOK'
  OBVIOUS
<1>1. CASE UNCHANGED vars
  BY <1>1 DEF TypeOK, vars, Document, Accounts
<1>2. CASE Reclaim
  BY <1>2 DEF TypeOK, Reclaim, disk, provider, history
<1> SUFFICES ASSUME NEW p \in Proc, Mutate(p) \/ Crash(p) PROVE TypeOK'
  BY <1>1, <1>2 DEF Next
<1> USE DEF disk, provider, history
<1>3. /\ base[p] \in Document /\ next[p] \in Document /\ op[p] \in Operation
      /\ \A d \in Document : d.creds \in [Account -> 0..MaxToken] /\ Accounts(d) \subseteq Account
  <2>1. ASSUME NEW d \in Document
        PROVE  d.creds \in [Account -> 0..MaxToken] /\ Accounts(d) \subseteq Account
    BY StoreAssumption DEF Document, NoDoc, NoToken, Accounts
  <2> QED BY <2>1 DEF TypeOK
<1>4. CASE Capture(p)
  <2>1. main.active \in Account
    BY <1>4 DEF Capture, TypeOK, Document
  <2> QED BY <1>4, <2>1 DEF Capture, Start, TypeOK, Op, Operation
<1>5. CASE \E a \in Account : Login(p, a)
  <2>1. PICK a \in Account : Login(p, a)
    BY <1>5
  <2>2. issued + 1 \in Token /\ issued' \in 0..MaxToken
    BY <2>1, StoreAssumption DEF Login, TypeOK, Token
  <2> QED BY <2>1, <2>2 DEF Login, Start, TypeOK, Op, Operation
<1>6. CASE Request(p)
  BY <1>6 DEF Request, Start, TypeOK, Op, Operation
<1>7. CASE Acquire(p)
  BY <1>7 DEF Acquire, TypeOK
<1>8. CASE TimeOut(p)
  BY <1>8, ForgetType DEF TimeOut, TypeOK
<1>9. CASE Refuse(p) \/ Decline(p)
  BY <1>9, ForgetType DEF Refuse, Decline, Release, TypeOK
<1>10. CASE Rotate(p)
  <2>1. /\ issued + 1 \in Token /\ issued' = issued + 1 /\ issued' \in 0..MaxToken
    BY <1>10, StoreAssumption DEF Rotate, TypeOK, Token
  <2>2. op[p].acct \in Accounts(base[p]) /\ op[p].acct \in Account
    BY <1>10, <1>3 DEF Rotate, Refused
  <2>3. base[p].active \in Accounts(base[p]) /\ base[p].active \in Account
    BY <2>2, <1>3 DEF Document, NoDoc, Accounts
  <2>4. V2(base[p].active, Upsert(base[p], op[p].acct, issued + 1)) \in Document
    BY <2>1, <2>2, <2>3, <1>3, StoredFits, UpsertDocument
  <2>5. base[p].creds[op[p].acct] \in Token
    BY <2>2, <1>3 DEF Accounts, Token, NoToken
  <2>6. next' \in [Proc -> Document]
    BY <2>4, <1>10 DEF Rotate, Refreshed, TypeOK
  <2> QED BY <1>10, <2>1, <2>5, <2>6 DEF Rotate, TypeOK
<1>11. CASE RotateLost(p)
  <2>1. op[p].acct \in Accounts(base[p]) /\ op[p].acct \in Account
    BY <1>11, <1>3 DEF RotateLost, Refused
  <2>2. base[p].creds[op[p].acct] \in Token
    BY <2>1, <1>3 DEF Accounts, Token, NoToken
  <2> QED BY <1>11, <2>1, <2>2, ForgetType DEF RotateLost, Release, TypeOK
<1>12. CASE Compose(p)
  <2>1. CASE op[p].kind = "login"
    <3>1. op[p].acct \in Account /\ op[p].token \in Token
      BY <2>1, <1>3 DEF Operation, NoOp, Op
    <3>2. Cardinality(Accounts(base[p]) \cup {op[p].acct}) <= Limit
      BY <1>3, <1>12, <2>1, LoginFits DEF Compose
    <3>3. V2(op[p].acct, Upsert(base[p], op[p].acct, op[p].token)) \in Document
      BY <3>1, <3>2, <1>3, UpsertDocument
    <3> QED BY <1>12, <2>1, <3>3 DEF Compose, TypeOK
  <2>2. CASE op[p].kind = "activate"
    <3>1. op[p].acct \in Accounts(base[p])
      BY <1>12, <2>2 DEF Compose, Refused
    <3>2. V2(op[p].acct, base[p].creds) \in Document
      BY <3>1, <1>3, SelectDocument
    <3> QED BY <1>12, <2>2, <3>2 DEF Compose, TypeOK
  <2> QED BY <1>12, <2>1, <2>2 DEF Compose
<1>13. CASE WriteBackup(p)
  BY <1>13, <1>3 DEF WriteBackup, Migrating, TypeOK
<1>14. Unsaved(p) \subseteq Account
  BY <1>3 DEF Unsaved, Operation, NoOp, Op
<1>15. CASE Mismatch(p)
  BY <1>15, <1>14, ForgetType DEF Mismatch, Release, TypeOK
<1>16. CASE Commit(p)
  BY <1>16, <1>3, ForgetType DEF Commit, Release, TypeOK
<1>17. CASE DropBackup(p)
  <2>1. Remaining(op[p], base[p]) \in Document
    BY <1>17, <1>3, RemainingDocument DEF DropBackup
  <2>2. NoDoc \in Document /\ NoDoc.version # 2
    BY DEF Document, NoDoc
  <2>3. backup' \in Document /\ backup'.version # 2
    BY <1>17, <2>2 DEF DropBackup
  <2>4. /\ pc' \in [Proc -> {"idle", "waiting", "holding", "writing", "removing", "deleting"}]
        /\ next' \in [Proc -> Document]
    BY <1>17, <2>1 DEF DropBackup, TypeOK
  <2> QED BY <1>17, <2>3, <2>4 DEF DropBackup, TypeOK
<1>18. CASE CommitRemoval(p)
  BY <1>18, <1>3, ForgetType DEF CommitRemoval, Release, TypeOK
<1>19. CASE DeleteMain(p)
  <2>1. NoDoc \in Document
    BY DEF Document
  <2>2. main' \in Document
    BY <1>19, <2>1 DEF DeleteMain
  <2> QED BY <1>19, <2>2 DEF DeleteMain, TypeOK
<1>20. CASE DeleteBackup(p)
  <2>1. NoDoc \in Document /\ NoDoc.version # 2
    BY DEF Document, NoDoc
  <2>2. backup' \in Document /\ backup'.version # 2
    BY <1>20, <2>1 DEF DeleteBackup
  <2> QED BY <1>20, <2>2, ForgetType DEF DeleteBackup, Release, TypeOK
<1>21. CASE Crash(p)
  BY <1>21, <1>14, ForgetType DEF Crash, TypeOK
<1> QED
  BY <1>4, <1>5, <1>6, <1>7, <1>8, <1>9, <1>10, <1>11, <1>12, <1>13, <1>15, <1>16,
     <1>17, <1>18, <1>19, <1>20, <1>21 DEF Mutate

\* Every reachable disk holds documents that parseDocument accepts: well formed,
\* with a stored account selected, and within the account limit.
THEOREM TypeCorrect == Spec => []TypeOK
BY InitType, NextType, PTL DEF Spec

-----------------------------------------------------------------------------
\* Discipline is inductive given types.

\* A caller whose own bookkeeping stays put is disturbed only by a change of
\* hands of the lock, or of the files while it relies on them.
LEMMA Undisturbed ==
  ASSUME NEW q \in Proc, Disciplined(q),
         pc'[q] = pc[q], op'[q] = op[q], base'[q] = base[q], next'[q] = next[q],
         lock' = q <=> lock = q,
         lock = q => main' = main /\ backup' = backup
  PROVE  Disciplined(q)'
BY DEF Disciplined

\* A caller outside the lock relies on nothing.
LEMMA OutsideDisciplined ==
  ASSUME NEW q \in Proc, pc'[q] \in {"idle", "waiting"}, lock' # q
  PROVE  Disciplined(q)'
BY DEF Disciplined

\* The two ways a caller ends: it lets go of the lock, or never had it.
LEMMA ForgetDisciplined ==
  ASSUME TypeOK, Discipline, NEW p \in Proc, Forget(p),
         \/ lock = p /\ lock' \in {Free, Stale}
         \/ lock # p /\ lock' = lock /\ UNCHANGED <<main, backup>>
  PROVE  Discipline'
<1> SUFFICES ASSUME NEW q \in Proc PROVE Disciplined(q)'
  BY DEF Discipline
<1>1. CASE q = p
  <2>1. pc'[q] = "idle" /\ lock' # q
    BY <1>1, StoreAssumption DEF Forget, TypeOK
  <2> QED BY <2>1, OutsideDisciplined
<1>2. CASE q # p
  <2>1. Disciplined(q)
    BY DEF Discipline
  <2>2. pc'[q] = pc[q] /\ op'[q] = op[q] /\ base'[q] = base[q] /\ next'[q] = next[q]
    BY <1>2 DEF Forget, TypeOK
  <2>3. (lock' = q <=> lock = q) /\ (lock = q => main' = main /\ backup' = backup)
    BY <1>2, StoreAssumption
  <2> QED BY <2>1, <2>2, <2>3, Undisturbed
<1> QED BY <1>1, <1>2

\* A caller that advances under the lock, or takes it free, disturbs no other.
LEMMA HolderAdvances ==
  ASSUME TypeOK, Discipline, NEW p \in Proc, lock' = p, lock = p \/ lock = Free,
         \A q \in Proc \ {p} : /\ pc'[q] = pc[q] /\ op'[q] = op[q]
                               /\ base'[q] = base[q] /\ next'[q] = next[q],
         Disciplined(p)'
  PROVE  Discipline'
<1> SUFFICES ASSUME NEW q \in Proc \ {p} PROVE Disciplined(q)'
  BY DEF Discipline
<1>1. Disciplined(q)
  BY DEF Discipline
<1>2. (lock' = q <=> lock = q) /\ (lock = q => main' = main /\ backup' = backup)
  BY StoreAssumption
<1> QED BY <1>1, <1>2, Undisturbed

LEMMA InitDiscipline == Init => Discipline
BY StoreAssumption DEF Init, Discipline, Disciplined

LEMMA NextDiscipline == TypeOK /\ Discipline /\ [Next]_vars => Discipline'
<1> SUFFICES ASSUME TypeOK, Discipline, [Next]_vars PROVE Discipline'
  OBVIOUS
<1>1. CASE UNCHANGED vars
  BY <1>1, Undisturbed DEF vars, Discipline
<1>2. CASE Reclaim
  <2>1. \A q \in Proc : lock' = q <=> lock = q
    BY <1>2, StoreAssumption DEF Reclaim
  <2> QED BY <1>2, <2>1, Undisturbed DEF Reclaim, disk, Discipline
<1> SUFFICES ASSUME NEW p \in Proc, Mutate(p) \/ Crash(p) PROVE Discipline'
  BY <1>1, <1>2 DEF Next
<1> USE DEF disk
<1>3. Disciplined(p)
  BY DEF Discipline
<1>4. ASSUME NEW o, Start(p, o) PROVE Discipline'
  <2> SUFFICES ASSUME NEW q \in Proc PROVE Disciplined(q)'
    BY DEF Discipline
  <2>1. CASE q = p
    BY <1>3, <1>4, <2>1, OutsideDisciplined DEF Start, TypeOK, Disciplined
  <2>2. CASE q # p
    BY <1>4, <2>2, Undisturbed DEF Start, TypeOK, Discipline
  <2> QED BY <2>1, <2>2
<1>5. CASE Capture(p) \/ Request(p) \/ \E a \in Account : Login(p, a)
  BY <1>4, <1>5 DEF Capture, Request, Login
<1>6. CASE Acquire(p)
  <2>1. Disciplined(p)'
    BY <1>6 DEF Acquire, TypeOK, Disciplined
  <2> QED BY <1>6, <2>1, HolderAdvances DEF Acquire, TypeOK
<1>7. CASE TimeOut(p)
  <2>1. lock # p
    BY <1>3, <1>7 DEF TimeOut, Disciplined
  <2> QED BY <1>7, <2>1, ForgetDisciplined DEF TimeOut
<1>8. pc[p] \in {"holding", "writing", "removing", "deleting"} => lock = p
  BY <1>3 DEF Disciplined
<1>9. CASE Release(p) /\ lock = p
  BY <1>9, ForgetDisciplined DEF Release
<1>10. CASE Refuse(p) \/ Decline(p) \/ RotateLost(p) \/ Mismatch(p) \/ Commit(p)
            \/ CommitRemoval(p) \/ DeleteBackup(p)
  BY <1>8, <1>9, <1>10 DEF Refuse, Decline, RotateLost, Mismatch, Commit, CommitRemoval, DeleteBackup
<1>11. CASE Rotate(p)
  <2>1. issued + 1 \in Token
    BY <1>11, StoreAssumption DEF Rotate, TypeOK, Token
  <2>2. Disciplined(p)'
    BY <1>3, <1>11, <2>1 DEF Rotate, TypeOK, Disciplined
  <2> QED BY <1>8, <1>11, <2>2, HolderAdvances DEF Rotate, TypeOK
<1>12. CASE Compose(p)
  <2>1. Disciplined(p)'
    BY <1>3, <1>12 DEF Compose, TypeOK, Disciplined
  <2> QED BY <1>8, <1>12, <2>1, HolderAdvances DEF Compose, TypeOK
<1>13. CASE WriteBackup(p)
  <2>1. Disciplined(p)'
    BY <1>3, <1>13 DEF WriteBackup, Disciplined
  <2> QED BY <1>8, <1>13, <2>1, HolderAdvances DEF WriteBackup
<1>14. CASE DropBackup(p)
  <2>1. Disciplined(p)'
    BY <1>3, <1>14 DEF DropBackup, TypeOK, Disciplined
  <2> QED BY <1>8, <1>14, <2>1, HolderAdvances DEF DropBackup, TypeOK
<1>15. CASE DeleteMain(p)
  <2>1. Disciplined(p)'
    BY <1>3, <1>15 DEF DeleteMain, TypeOK, Disciplined
  <2> QED BY <1>8, <1>15, <2>1, HolderAdvances DEF DeleteMain, TypeOK
<1>16. CASE Crash(p)
  BY <1>16, ForgetDisciplined DEF Crash
<1> QED
  BY <1>5, <1>6, <1>7, <1>10, <1>11, <1>12, <1>13, <1>14, <1>15, <1>16 DEF Mutate

\* Whoever acts on the document holds the lock and has seen its latest state.
THEOREM Disciplines == Spec => []Discipline
<1>1. Init => TypeOK /\ Discipline
  BY InitType, InitDiscipline
<1>2. TypeOK /\ Discipline /\ [Next]_vars => (TypeOK /\ Discipline)'
  BY NextType, NextDiscipline
<1> QED BY <1>1, <1>2, PTL DEF Spec

-----------------------------------------------------------------------------
\* What a step may do to the document follows from the discipline.

\* The document changes in three ways only, each by the holder of the lock.
LEMMA WhoWrites ==
  ASSUME TypeOK, Discipline, [Next]_vars, main' # main
  PROVE  \E p \in Proc : lock = p /\ (Commit(p) \/ CommitRemoval(p) \/ DeleteMain(p))
<1>1. PICK p \in Proc : Commit(p) \/ CommitRemoval(p) \/ DeleteMain(p)
  BY DEF Next, Mutate, vars, disk, Reclaim, Crash, Capture, Request, Login, Start, Acquire,
         TimeOut, Refuse, Decline, Rotate, RotateLost, Compose, WriteBackup, Mismatch,
         DropBackup, DeleteBackup
<1>2. lock = p
  BY <1>1 DEF Discipline, Disciplined, Commit, CommitRemoval, DeleteMain
<1> QED BY <1>1, <1>2

LEMMA RollbackStep ==
  TypeOK /\ Discipline /\ [Next]_vars => (main.version = 1 /\ main'.version = 2 => backup' = main)
<1> SUFFICES ASSUME TypeOK, Discipline, [Next]_vars, main.version = 1, main'.version = 2
             PROVE  backup' = main
  OBVIOUS
<1>1. PICK p \in Proc : lock = p /\ (Commit(p) \/ CommitRemoval(p) \/ DeleteMain(p))
  BY WhoWrites
<1>2. Disciplined(p)
  BY DEF Discipline
<1>3. NoDoc.version = 0
  BY DEF NoDoc
<1>4. CASE Commit(p)
  BY <1>2, <1>4 DEF Disciplined, Commit, MayReplace, Migrating
<1>5. CASE CommitRemoval(p)
  <2>1. base[p] = main /\ main' = Remaining(op[p], main) /\ ~Refused(op[p], main)
        /\ op[p].kind = "remove"
    BY <1>2, <1>5 DEF Disciplined, CommitRemoval
  <2>2. Accounts(main) = {op[p].acct}
    BY <2>1 DEF TypeOK, Document, NoDoc, Refused
  <2> QED BY <2>1, <2>2, <1>3 DEF Remaining
<1>6. CASE DeleteMain(p)
  BY <1>3, <1>6 DEF DeleteMain
<1> QED BY <1>1, <1>4, <1>5, <1>6

\* A migration never destroys the version-1 document without its rollback copy.
THEOREM RollbackAlwaysKept == Spec => RollbackKept
<1>1. Init => TypeOK /\ Discipline
  BY InitType, InitDiscipline
<1>2. TypeOK /\ Discipline /\ [Next]_vars => (TypeOK /\ Discipline)'
  BY NextType, NextDiscipline
<1> QED BY <1>1, <1>2, RollbackStep, PTL DEF Spec, RollbackKept

LEMMA RefreshStep ==
  ASSUME TypeOK, Discipline, [Next]_vars, NEW p \in Proc,
         op[p].kind = "refresh", lock = p, main' # main
  PROVE  LET a == op[p].acct
         IN /\ a \in Accounts(main)
            /\ main'.active = main.active
            /\ \A b \in Account \ {a} : main'.creds[b] = main.creds[b]
<1>1. Commit(p)
  <2>1. PICK q \in Proc : lock = q /\ (Commit(q) \/ CommitRemoval(q) \/ DeleteMain(q))
    BY WhoWrites
  <2>2. Disciplined(p) /\ q = p
    BY <2>1 DEF Discipline
  <2> QED BY <2>1, <2>2 DEF Disciplined, CommitRemoval, DeleteMain
<1>2. base[p] = main /\ main' = next[p] /\ ~Refused(op[p], main)
  BY <1>1 DEF Commit, Discipline, Disciplined
<1>3. PICK t \in Token : next[p] = Refreshed(main, op[p].acct, t)
  BY <1>1, <1>2 DEF Commit, Discipline, Disciplined
<1>4. main.creds \in [Account -> 0..MaxToken]
  BY StoreAssumption DEF TypeOK, Document, NoDoc, NoToken
<1>5. op[p].acct \in Accounts(main)
  BY <1>2 DEF Refused
<1> QED BY <1>2, <1>3, <1>4, <1>5 DEF Refreshed, V2, Upsert

\* A request that refreshes the account it captured never reverts a selection,
\* a login, a removal or another account's refresh made in the meantime.
THEOREM RefreshIsLocal == Spec => RefreshTouchesOnlyCaptured
<1>1. Init => TypeOK /\ Discipline
  BY InitType, InitDiscipline
<1>2. TypeOK /\ Discipline /\ [Next]_vars => (TypeOK /\ Discipline)'
  BY NextType, NextDiscipline
<1> DEFINE Local == \A p \in Proc : (op[p].kind = "refresh" /\ lock = p /\ main' # main)
       => LET a == op[p].acct
          IN /\ a \in Accounts(main)
             /\ main'.active = main.active
             /\ \A b \in Account \ {a} : main'.creds[b] = main.creds[b]
<1>3. TypeOK /\ Discipline /\ [Next]_vars => Local
  BY RefreshStep
<1> QED BY <1>1, <1>2, <1>3, PTL DEF Spec, RefreshTouchesOnlyCaptured

-----------------------------------------------------------------------------
\* The rollback copy outlives no account.

\* A commit of writeDocument keeps every account that was stored.
LEMMA CommitKeepsAccounts ==
  ASSUME TypeOK, Discipline, NEW p \in Proc, Commit(p)
  PROVE  Accounts(main) \subseteq Accounts(main')
<1>1. Disciplined(p) /\ base[p] = main /\ main' = next[p] /\ ~Refused(op[p], main)
  BY DEF Commit, Discipline, Disciplined
<1>2. main \in Document /\ op[p] \in Operation
  BY DEF TypeOK
<1>3. CASE op[p].kind = "refresh"
  <2>1. op[p].acct \in Accounts(main) /\ main.active \in Account
    BY <1>1, <1>2, <1>3 DEF Refused, Document, NoDoc, Accounts
  <2>2. main.active \in Accounts(main) /\ op[p].acct \in Account
    BY <1>2, <2>1 DEF Document, NoDoc, Accounts
  <2>3. PICK t \in Token : next[p] = Refreshed(main, op[p].acct, t)
    BY <1>1, <1>3 DEF Commit, Disciplined
  <2> QED BY <1>1, <1>2, <2>1, <2>2, <2>3, StoredFits, UpsertDocument DEF Refreshed
<1>4. CASE op[p].kind = "login"
  <2>1. op[p].acct \in Account /\ op[p].token \in Token
    BY <1>2, <1>4 DEF Operation, NoOp, Op
  <2>2. next[p] = V2(op[p].acct, Upsert(main, op[p].acct, op[p].token))
    BY <1>1, <1>4 DEF Commit, Disciplined
  <2>3. Cardinality(Accounts(main) \cup {op[p].acct}) <= Limit
    BY <1>1, <1>2, <1>4, LoginFits
  <2>4. Accounts(V2(op[p].acct, Upsert(main, op[p].acct, op[p].token))) = Accounts(main) \cup {op[p].acct}
    BY <1>2, <2>1, <2>3, UpsertDocument
  <2> QED BY <1>1, <2>2, <2>4
<1>5. CASE op[p].kind = "activate"
  BY <1>1, <1>5 DEF Commit, Disciplined, Accounts, V2
<1> QED BY <1>1, <1>3, <1>4, <1>5 DEF Commit, Disciplined

LEMMA InitForgotten == Init => NothingForgotten
BY StoreAssumption, InitialDocuments DEF Init, NothingForgotten, V1, Token

LEMMA NextForgotten ==
  TypeOK /\ Discipline /\ NothingForgotten /\ [Next]_vars => NothingForgotten'
<1> SUFFICES ASSUME TypeOK, Discipline, NothingForgotten, [Next]_vars PROVE NothingForgotten'
  OBVIOUS
<1> USE DEF disk, provider, history
<1>1. CASE UNCHANGED vars
  BY <1>1 DEF vars, NothingForgotten, Accounts
<1>2. CASE Reclaim
  BY <1>2 DEF Reclaim, NothingForgotten, Accounts
<1> SUFFICES ASSUME NEW p \in Proc, Mutate(p) \/ Crash(p) PROVE NothingForgotten'
  BY <1>1, <1>2 DEF Next
<1>3. Disciplined(p)
  BY DEF Discipline
<1>4. \A q \in Proc : pc[q] = "deleting" => lock = q
  BY DEF Discipline, Disciplined
\* Steps that leave the files, and the set of logouts under way, as they are.
<1>5. ASSUME UNCHANGED <<main, backup, leftover>>, pc[p] # "deleting",
             \A q \in Proc \ {p} : pc'[q] = pc[q]
      PROVE  NothingForgotten'
  BY <1>5 DEF NothingForgotten, Accounts
<1>6. CASE Capture(p) \/ Request(p) \/ (\E a \in Account : Login(p, a)) \/ Acquire(p)
           \/ TimeOut(p) \/ Refuse(p) \/ Decline(p) \/ Rotate(p) \/ RotateLost(p)
           \/ Compose(p) \/ Mismatch(p)
  BY <1>5, <1>6 DEF Capture, Request, Login, Start, Acquire, TimeOut, Refuse, Decline, Rotate,
       RotateLost, Compose, Mismatch, Release, Forget, TypeOK
<1>7. CASE WriteBackup(p)
  <2>1. main.version = 1 /\ backup' = main /\ main' = main
    BY <1>3, <1>7 DEF WriteBackup, Migrating, Disciplined
  <2>2. main.active \in Accounts(main)
    BY <2>1 DEF TypeOK, Document, NoDoc
  <2> QED BY <2>1, <2>2 DEF NothingForgotten, Accounts
<1>8. CASE Commit(p)
  <2>1. Accounts(main) \subseteq Accounts(main')
    BY <1>8, CommitKeepsAccounts
  <2>2. \A q \in Proc : pc[q] # "deleting"
    BY <1>3, <1>4, <1>8, StoreAssumption DEF Commit, Disciplined
  <2>3. backup' = backup /\ leftover' = leftover
    BY <1>8 DEF Commit
  <2>4. backup # NoDoc /\ ~leftover => backup.active \in Accounts(main)
    BY <2>2 DEF NothingForgotten
  <2>5. backup' # NoDoc /\ ~leftover' => backup'.active \in Accounts(main')
    BY <2>1, <2>3, <2>4
  <2>6. Accounts(main)' = Accounts(main')
    BY DEF Accounts
  <2> QED BY <2>5, <2>6 DEF NothingForgotten
<1>9. CASE DropBackup(p) \/ CommitRemoval(p) \/ DeleteBackup(p)
  <2>1. backup' = NoDoc
    BY <1>3, <1>9 DEF DropBackup, CommitRemoval, DeleteBackup, Disciplined
  <2> QED BY <2>1 DEF NothingForgotten
<1>10. CASE DeleteMain(p)
  <2>1. pc'[p] = "deleting"
    BY <1>10 DEF DeleteMain, TypeOK
  <2> QED BY <2>1 DEF NothingForgotten
<1>11. CASE Crash(p)
  <2>1. CASE pc[p] = "deleting"
    BY <1>11, <2>1 DEF Crash, NothingForgotten, TypeOK
  <2>2. CASE pc[p] # "deleting"
    BY <1>11, <2>2 DEF Crash, Forget, NothingForgotten, Accounts, TypeOK
  <2> QED BY <2>1, <2>2
<1> QED BY <1>6, <1>7, <1>8, <1>9, <1>10, <1>11 DEF Mutate

\* A removed or signed-out account survives in the rollback copy only if a
\* logout died between its two removals.
THEOREM RollbackForgets == Spec => []NothingForgotten
<1>1. Init => TypeOK /\ Discipline /\ NothingForgotten
  BY InitType, InitDiscipline, InitForgotten
<1>2. TypeOK /\ Discipline /\ NothingForgotten /\ [Next]_vars
        => (TypeOK /\ Discipline /\ NothingForgotten)'
  BY NextType, NextDiscipline, NextForgotten
<1> QED BY <1>1, <1>2, PTL DEF Spec

-----------------------------------------------------------------------------
\* No exchanged token stays on disk.  Tokens are distinct: a token is stored
\* for one account, or pending with one caller, and exchanged after that.

TokenInv == TypeOK /\ Discipline /\ TokensDistinct /\ StoredTokensLive

LEMMA InitTokens == Init => TokensDistinct /\ StoredTokensLive
<1> SUFFICES ASSUME Init PROVE TokensDistinct /\ StoredTokensLive
  OBVIOUS
<1>1. \A p \in Proc : Pending(p) = {} /\ Unsaved(p) = {}
  BY DEF Init, Pending, Unsaved, NoOp, Op
<1>2. CASE main = NoDoc
  BY <1>1, <1>2, StoreAssumption DEF Init, TokensDistinct, StoredTokensLive, NoDoc, NoToken
<1>3. CASE \E a \in Account : main = V1(a, 2)
  <2>1. PICK a \in Account : main = V1(a, 2)
    BY <1>3
  <2>2. main.creds[a] = 2 /\ \A b \in Account \ {a} : main.creds[b] = 0
    BY <2>1 DEF V1, NoDoc, NoToken
  <2>3. issued = 2 /\ spent = {1}
    BY <2>1 DEF Init, V1, NoDoc
  <2> QED BY <1>1, <2>2, <2>3 DEF TokensDistinct, StoredTokensLive, NoToken
<1> QED BY <1>2, <1>3 DEF Init

\* A step of p that shrinks what p has pending, and stores at most that or
\* fewer tokens than before, keeps tokens distinct.
LEMMA TokensKept ==
  ASSUME TypeOK, TokensDistinct, NEW p \in Proc,
         UNCHANGED issued, spent' \subseteq 1..issued,
         Pending(p)' \subseteq Pending(p),
         \A q \in Proc \ {p} : Pending(q)' = Pending(q),
         \A t \in spent' \ spent : \A q \in Proc : t \notin Pending(q)',
         main'.creds \in [Account -> 0..MaxToken],
         \A a \in Account :
            \/ main'.creds[a] \in {NoToken, main.creds[a]}
            \/ main'.creds[a] \in Pending(p) /\ Pending(p)' = {}
               /\ \A b \in Account \ {a} : main'.creds[b] = main.creds[b]
  PROVE  TokensDistinct'
<1>1. main.creds \in [Account -> 0..MaxToken] /\ issued \in Nat
  BY StoreAssumption DEF TypeOK, Document, NoDoc, NoToken
<1>2. \A a \in Account : main'.creds[a] <= issued
  BY <1>1 DEF TokensDistinct, NoToken
<1>3. \A a, b \in Account : a # b /\ main'.creds[a] = main'.creds[b] => main'.creds[a] = NoToken
  BY <1>1 DEF TokensDistinct, NoToken
<1>4. ASSUME NEW q \in Proc, NEW t \in Pending(q)'
      PROVE  /\ t \in 1..issued /\ t \notin spent'
             /\ \A a \in Account : main'.creds[a] # t
             /\ \A r \in Proc \ {q} : t \notin Pending(r)'
  <2>1. t \in Pending(q)
    BY <1>4
  <2>2. /\ t \in 1..issued /\ t \notin spent
        /\ \A a \in Account : main.creds[a] # t
        /\ \A r \in Proc \ {q} : t \notin Pending(r)
    BY <2>1 DEF TokensDistinct
  <2>3. t # NoToken
    BY <2>2 DEF NoToken
  <2>4. \A r \in Proc \ {q} : t \notin Pending(r)'
    BY <2>2
  <2>5. t \notin spent'
    BY <1>4, <2>2
  <2>6. \A a \in Account : main'.creds[a] # t
    BY <1>4, <2>2, <2>3
  <2> QED BY <2>2, <2>4, <2>5, <2>6
<1> QED BY <1>2, <1>3, <1>4 DEF TokensDistinct

LEMMA ForgetPending ==
  ASSUME TypeOK, NEW p \in Proc, Forget(p)
  PROVE  /\ Pending(p)' = {} /\ Unsaved(p)' = {}
         /\ \A q \in Proc \ {p} : Pending(q)' = Pending(q) /\ Unsaved(q)' = Unsaved(q)
BY DEF TypeOK, Forget, Pending, Unsaved, NoOp, Op

\* A step of p that leaves document and provider alone, and that marks as
\* mislaid the account of a token it gives up.
LEMMA QuietStep ==
  ASSUME TokenInv, NEW p \in Proc, UNCHANGED <<main, issued, spent>>,
         Pending(p)' \subseteq Pending(p),
         Unsaved(p) \subseteq mislaid' \cup Unsaved(p)', mislaid \subseteq mislaid',
         \A q \in Proc \ {p} : Pending(q)' = Pending(q) /\ Unsaved(q)' = Unsaved(q)
  PROVE  TokensDistinct' /\ StoredTokensLive'
<1>1. main'.creds \in [Account -> 0..MaxToken]
  BY StoreAssumption DEF TokenInv, TypeOK, Document, NoDoc, NoToken
<1>2. spent' \subseteq 1..issued
  BY DEF TokenInv, TokensDistinct
<1>3. TokensDistinct'
  BY <1>1, <1>2, TokensKept DEF TokenInv
<1>4. StoredTokensLive'
  <2> SUFFICES ASSUME NEW a \in Account, main'.creds[a] \in spent', a \notin mislaid'
               PROVE  \E q \in Proc : a \in Unsaved(q)'
    BY DEF StoredTokensLive
  <2>1. PICK q \in Proc : a \in Unsaved(q)
    BY DEF TokenInv, StoredTokensLive
  <2>2. CASE q = p
    BY <2>1, <2>2
  <2>3. CASE q # p
    BY <2>1, <2>3
  <2> QED BY <2>2, <2>3
<1> QED BY <1>3, <1>4

\* A new login token is above every token there is.
LEMMA LoginTokens ==
  ASSUME TokenInv, NEW p \in Proc, NEW a \in Account, Login(p, a)
  PROVE  TokensDistinct' /\ StoredTokensLive'
<1>1. /\ main' = main /\ spent' = spent /\ mislaid' = mislaid /\ issued' = issued + 1
      /\ issued \in Nat /\ main.creds \in [Account -> 0..MaxToken]
  BY StoreAssumption DEF Login, Start, disk, history, TokenInv, TypeOK, Document, NoDoc, NoToken
<1>2. /\ Pending(p)' = {issued + 1} /\ Unsaved(p)' = {} /\ Unsaved(p) = {}
  BY DEF Login, Start, Op, Pending, Unsaved, TokenInv, TypeOK
<1>3. \A q \in Proc \ {p} : Pending(q)' = Pending(q) /\ Unsaved(q)' = Unsaved(q)
  BY DEF Login, Start, Pending, Unsaved, TokenInv, TypeOK
<1>4. /\ spent \subseteq 1..issued
      /\ \A b \in Account : main.creds[b] <= issued
      /\ \A q \in Proc : Pending(q) \subseteq 1..issued
  BY DEF TokenInv, TokensDistinct
<1>5. ASSUME NEW q \in Proc, NEW t \in Pending(q)'
      PROVE  /\ t \in 1..issued' /\ t \notin spent'
             /\ \A b \in Account : main'.creds[b] # t
             /\ \A r \in Proc \ {q} : t \notin Pending(r)'
  <2>1. CASE q = p
    <3>1. t = issued + 1
      BY <1>2, <1>5, <2>1
    <3>2. \A r \in Proc \ {q} : t \notin Pending(r)'
      BY <1>1, <1>3, <1>4, <2>1, <3>1
    <3> QED BY <1>1, <1>4, <3>1, <3>2
  <2>2. CASE q # p
    <3>1. /\ t \in 1..issued /\ t \notin spent
          /\ \A b \in Account : main.creds[b] # t
          /\ \A r \in Proc \ {q} : t \notin Pending(r)
      BY <1>3, <1>5, <2>2 DEF TokenInv, TokensDistinct
    <3>2. \A r \in Proc \ {q} : t \notin Pending(r)'
      BY <1>1, <1>2, <1>3, <3>1
    <3> QED BY <1>1, <3>1, <3>2
  <2> QED BY <2>1, <2>2
<1>6. /\ spent' \subseteq 1..issued' /\ \A b \in Account : main'.creds[b] <= issued'
      /\ \A b, c \in Account : b # c /\ main'.creds[b] = main'.creds[c] => main'.creds[b] = NoToken
  BY <1>1, <1>4 DEF TokenInv, TokensDistinct
<1>7. StoredTokensLive'
  BY <1>1, <1>2, <1>3 DEF TokenInv, StoredTokensLive
<1> QED BY <1>5, <1>6, <1>7 DEF TokensDistinct

\* An exchange spends the token of the one account it then holds pending.
LEMMA RotateTokens ==
  ASSUME TokenInv, NEW p \in Proc, Rotate(p)
  PROVE  TokensDistinct' /\ StoredTokensLive'
<1> DEFINE a == op[p].acct
           t0 == main.creds[a]
<1>1. /\ main' = main /\ mislaid' = mislaid /\ issued' = issued + 1
      /\ issued \in Nat /\ main.creds \in [Account -> 0..MaxToken] /\ base[p] = main
  BY StoreAssumption DEF Rotate, disk, history, TokenInv, TypeOK, Document, NoDoc, NoToken,
       Discipline, Disciplined
<1>2. a \in Account /\ t0 # NoToken /\ spent' = spent \cup {t0}
  BY <1>1 DEF Rotate, Refused, Accounts
<1>3. Unsaved(p)' = {a} /\ Unsaved(p) = {} /\ Pending(p)' = {issued + 1}
  <2>1. Unsaved(p)' = {a} /\ Unsaved(p) = {}
    BY DEF Rotate, Unsaved, TokenInv, TypeOK
  <2>2. next'[p].creds[a] = issued + 1
    BY <1>1, <1>2 DEF Rotate, Refreshed, V2, Upsert, TokenInv, TypeOK
  <2> QED BY <2>1, <2>2 DEF Rotate, Pending
<1>4. \A q \in Proc \ {p} : Pending(q)' = Pending(q) /\ Unsaved(q)' = Unsaved(q)
  BY DEF Rotate, Pending, Unsaved, TokenInv, TypeOK
<1>5. /\ spent \subseteq 1..issued
      /\ \A b \in Account : main.creds[b] <= issued
      /\ \A q \in Proc : Pending(q) \subseteq 1..issued
  BY DEF TokenInv, TokensDistinct
<1>6. ASSUME NEW q \in Proc, NEW t \in Pending(q)'
      PROVE  /\ t \in 1..issued' /\ t \notin spent'
             /\ \A b \in Account : main'.creds[b] # t
             /\ \A r \in Proc \ {q} : t \notin Pending(r)'
  <2>1. CASE q = p
    <3>1. t = issued + 1
      BY <1>3, <1>6, <2>1
    <3>2. \A r \in Proc \ {q} : t \notin Pending(r)'
      BY <1>1, <1>4, <1>5, <2>1, <3>1
    <3> QED BY <1>1, <1>2, <1>5, <3>1, <3>2
  <2>2. CASE q # p
    <3>1. /\ t \in 1..issued /\ t \notin spent
          /\ \A b \in Account : main.creds[b] # t
          /\ \A r \in Proc \ {q} : t \notin Pending(r)
      BY <1>4, <1>6, <2>2 DEF TokenInv, TokensDistinct
    <3>2. \A r \in Proc \ {q} : t \notin Pending(r)'
      BY <1>1, <1>3, <1>4, <3>1
    <3> QED BY <1>1, <1>2, <3>1, <3>2
  <2> QED BY <2>1, <2>2
<1>7. /\ spent' \subseteq 1..issued' /\ \A b \in Account : main'.creds[b] <= issued'
      /\ \A b, c \in Account : b # c /\ main'.creds[b] = main'.creds[c] => main'.creds[b] = NoToken
  <2>1. t0 \in 1..issued
    BY <1>1, <1>2, <1>5 DEF NoToken
  <2>2. spent' \subseteq 1..issued'
    <3> HIDE DEF a, t0
    <3>1. spent' \subseteq 1..issued
      BY <1>2, <1>5, <2>1
    <3> QED BY <1>1, <3>1
  <2>3. \A b, c \in Account : b # c /\ main.creds[b] = main.creds[c] => main.creds[b] = NoToken
    BY DEF TokenInv, TokensDistinct
  <2> HIDE DEF a, t0
  <2> QED BY <1>1, <1>5, <2>2, <2>3
<1>8. StoredTokensLive'
  <2> SUFFICES ASSUME NEW b \in Account, main'.creds[b] \in spent', b \notin mislaid'
               PROVE  \E q \in Proc : b \in Unsaved(q)'
    BY DEF StoredTokensLive
  <2>1. CASE b = a
    BY <1>3, <2>1
  <2>2. CASE b # a
    <3>1. main.creds[b] # t0
      BY <1>2, <2>2 DEF TokenInv, TokensDistinct
    <3>2. PICK q \in Proc : b \in Unsaved(q)
      BY <1>1, <1>2, <3>1 DEF TokenInv, StoredTokensLive
    <3> QED BY <1>3, <1>4, <3>2
  <2> QED BY <2>1, <2>2
<1> QED BY <1>6, <1>7, <1>8 DEF TokensDistinct

\* An exchange whose answer is lost spends the stored token and says so.
LEMMA RotateLostTokens ==
  ASSUME TokenInv, NEW p \in Proc, RotateLost(p)
  PROVE  TokensDistinct' /\ StoredTokensLive'
<1> DEFINE a == op[p].acct
           t0 == main.creds[a]
<1>1. /\ main' = main /\ mislaid' = mislaid \cup {a} /\ issued' = issued
      /\ issued \in Nat /\ main.creds \in [Account -> 0..MaxToken] /\ base[p] = main
  BY StoreAssumption DEF RotateLost, disk, history, TokenInv, TypeOK, Document, NoDoc, NoToken,
       Discipline, Disciplined
<1>2. a \in Account /\ t0 # NoToken /\ spent' = spent \cup {t0}
  BY <1>1 DEF RotateLost, Refused, Accounts
<1>3. Unsaved(p) = {} /\ Pending(p)' = {} /\ Pending(p) = {}
  <2>1. Forget(p)
    BY DEF RotateLost, Release
  <2> QED BY <2>1, ForgetPending DEF RotateLost, Pending, Unsaved, TokenInv
<1>4. \A q \in Proc \ {p} : Pending(q)' = Pending(q) /\ Unsaved(q)' = Unsaved(q)
  BY ForgetPending DEF RotateLost, Release, TokenInv
<1>5. t0 \in 1..issued /\ spent \subseteq 1..issued
  BY <1>1, <1>2 DEF TokenInv, TokensDistinct, NoToken
<1>6. \A q \in Proc : t0 \notin Pending(q)'
  BY <1>2, <1>3, <1>4 DEF TokenInv, TokensDistinct
<1>7. TokensDistinct'
  <2> HIDE DEF a, t0
  <2>1. spent' \subseteq 1..issued
    BY <1>2, <1>5
  <2> QED BY <1>1, <1>2, <1>3, <1>4, <1>6, <2>1, TokensKept DEF TokenInv
<1>8. StoredTokensLive'
  <2> SUFFICES ASSUME NEW b \in Account, main'.creds[b] \in spent', b \notin mislaid'
               PROVE  \E q \in Proc : b \in Unsaved(q)'
    BY DEF StoredTokensLive
  <2>1. b # a
    BY <1>1
  <2>2. main.creds[b] # t0
    BY <1>2, <2>1 DEF TokenInv, TokensDistinct
  <2>3. PICK q \in Proc : b \in Unsaved(q)
    BY <1>1, <1>2, <2>2 DEF TokenInv, StoredTokensLive
  <2> QED BY <1>3, <1>4, <2>3
<1> QED BY <1>7, <1>8

\* What a commit of writeDocument does to the tokens on disk.
LEMMA CommitTokens ==
  ASSUME TokenInv, NEW p \in Proc, Commit(p)
  PROVE  TokensDistinct' /\ StoredTokensLive'
<1>1. /\ Disciplined(p) /\ base[p] = main /\ main' = next[p] /\ ~Refused(op[p], main)
      /\ issued' = issued /\ spent' = spent /\ lock = p
  BY DEF Commit, TokenInv, Discipline, Disciplined, provider
<1>2. /\ main.creds \in [Account -> 0..MaxToken] /\ main'.creds \in [Account -> 0..MaxToken]
      /\ op[p] \in Operation /\ spent \subseteq 1..issued
  BY <1>1, StoreAssumption DEF TokenInv, TypeOK, Document, NoDoc, NoToken, TokensDistinct
<1>3. /\ Pending(p)' = {} /\ Unsaved(p)' = {}
      /\ \A q \in Proc \ {p} : Pending(q)' = Pending(q) /\ Unsaved(q)' = Unsaved(q)
  BY ForgetPending DEF Commit, Release, TokenInv
<1>4. \A q \in Proc \ {p} : Unsaved(q) = {}
  BY <1>1 DEF TokenInv, Discipline, Disciplined, Unsaved
\* One account takes a pending token, or none does.
<1>5. \/ /\ op[p].acct \in Account /\ main'.creds[op[p].acct] \in Pending(p)
         /\ \A b \in Account \ {op[p].acct} : main'.creds[b] = main.creds[b]
         /\ op[p].kind = "refresh" \/ op[p].kind = "login"
      \/ op[p].kind = "activate" /\ main'.creds = main.creds
  <2>1. CASE op[p].kind = "refresh"
    <3>1. PICK t \in Token : next[p] = Refreshed(main, op[p].acct, t)
      BY <1>1, <2>1 DEF Commit, Disciplined
    <3>2. op[p].acct \in Account /\ op[p].acct \in Unsaved(p)
      BY <1>1, <2>1 DEF Commit, Refused, Accounts, Unsaved
    <3>3. next[p].creds[op[p].acct] \in Pending(p)
      BY <2>1, <3>2 DEF Pending
    <3> QED BY <1>1, <1>2, <2>1, <3>1, <3>2, <3>3 DEF Refreshed, V2, Upsert
  <2>2. CASE op[p].kind = "login"
    <3>1. next[p] = V2(op[p].acct, Upsert(main, op[p].acct, op[p].token))
      BY <1>1, <2>2 DEF Commit, Disciplined
    <3>2. op[p].acct \in Account /\ op[p].token \in Pending(p)
      BY <1>2, <2>2 DEF Operation, NoOp, Op, Pending
    <3> QED BY <1>1, <1>2, <2>2, <3>1, <3>2 DEF V2, Upsert
  <2>3. CASE op[p].kind = "activate"
    BY <1>1, <2>3 DEF Commit, Disciplined, V2
  <2> QED BY <1>1, <2>1, <2>2, <2>3 DEF Commit, Disciplined
<1>6. TokensDistinct'
  BY <1>1, <1>2, <1>3, <1>5, TokensKept DEF TokenInv
<1>7. StoredTokensLive'
  <2> SUFFICES ASSUME NEW b \in Account, main'.creds[b] \in spent PROVE b \in mislaid'
    BY <1>1 DEF StoredTokensLive
  <2>1. main'.creds[b] = main.creds[b] /\ (op[p].kind # "activate" => b # op[p].acct)
    BY <1>5 DEF TokenInv, TokensDistinct
  <2>2. b \notin Unsaved(p)
    BY <1>5, <2>1 DEF Unsaved
  <2>3. b \in mislaid
    BY <1>4, <2>1, <2>2 DEF TokenInv, StoredTokensLive
  <2>4. op[p].kind = "login" => b # op[p].acct
    BY <2>1
  <2> QED BY <2>3, <2>4 DEF Commit
<1> QED BY <1>6, <1>7

\* Removing accounts only takes tokens off the disk.
LEMMA RemovalTokens ==
  ASSUME TokenInv, NEW p \in Proc, CommitRemoval(p) \/ DeleteMain(p)
  PROVE  TokensDistinct' /\ StoredTokensLive'
<1>1. /\ issued' = issued /\ spent' = spent /\ mislaid' = mislaid
      /\ Unsaved(p) = {} /\ Pending(p)' = {}
      /\ \A q \in Proc \ {p} : Pending(q)' = Pending(q) /\ Unsaved(q)' = Unsaved(q)
  <2>1. CASE CommitRemoval(p)
    BY <2>1, ForgetPending DEF CommitRemoval, Release, provider, history, TokenInv, Unsaved
  <2>2. CASE DeleteMain(p)
    BY <2>2 DEF DeleteMain, provider, history, TokenInv, TypeOK, Unsaved, Pending
  <2> QED BY <2>1, <2>2
<1>2. main.creds \in [Account -> 0..MaxToken] /\ spent \subseteq 1..issued
  BY StoreAssumption DEF TokenInv, TypeOK, Document, NoDoc, NoToken, TokensDistinct
<1>3. /\ main'.creds \in [Account -> 0..MaxToken]
      /\ \A a \in Account : main'.creds[a] \in {NoToken, main.creds[a]}
  <2>0. \A a \in Account : NoDoc.creds[a] = NoToken
    BY DEF NoDoc
  <2>1. NoDoc.creds \in [Account -> 0..MaxToken]
    BY StoreAssumption DEF NoDoc, NoToken
  <2>2. CASE CommitRemoval(p)
    <3>1. main' = Remaining(op[p], main)
      BY <2>2 DEF CommitRemoval, TokenInv, Discipline, Disciplined
    <3> QED BY <1>2, <2>0, <2>1, <3>1, StoreAssumption DEF Remaining, Removal, V2, NoToken
  <2>3. CASE DeleteMain(p)
    BY <2>0, <2>1, <2>3 DEF DeleteMain
  <2> QED BY <2>2, <2>3
<1>4. TokensDistinct'
  BY <1>1, <1>2, <1>3, TokensKept DEF TokenInv
<1>5. StoredTokensLive'
  <2> SUFFICES ASSUME NEW a \in Account, main'.creds[a] \in spent, a \notin mislaid
               PROVE  \E q \in Proc : a \in Unsaved(q)'
    BY <1>1 DEF StoredTokensLive
  <2>1. NoToken \notin spent
    BY <1>2 DEF NoToken, TokenInv, TypeOK, Token
  <2>2. main.creds[a] \in spent
    BY <1>3, <2>1
  <2>3. PICK q \in Proc : a \in Unsaved(q)
    BY <2>2 DEF TokenInv, StoredTokensLive
  <2> QED BY <1>1, <2>3
<1> QED BY <1>4, <1>5

LEMMA NextTokens == TokenInv /\ [Next]_vars => TokensDistinct' /\ StoredTokensLive'
<1> SUFFICES ASSUME TokenInv, [Next]_vars PROVE TokensDistinct' /\ StoredTokensLive'
  OBVIOUS
<1> USE DEF disk, provider, history
<1>1. CASE UNCHANGED vars \/ Reclaim
  <2>1. UNCHANGED <<main, issued, spent, mislaid, op, pc, next>>
    BY <1>1 DEF vars, Reclaim
  <2>2. \A q \in Proc : Pending(q)' = Pending(q) /\ Unsaved(q)' = Unsaved(q)
    BY <2>1 DEF Pending, Unsaved
  <2> QED BY <2>1, <2>2 DEF TokenInv, TokensDistinct, StoredTokensLive
<1> SUFFICES ASSUME NEW p \in Proc, Mutate(p) \/ Crash(p)
             PROVE  TokensDistinct' /\ StoredTokensLive'
  BY <1>1 DEF Next
<1>2. CASE Capture(p) \/ Request(p)
  <2>1. ASSUME NEW o, Start(p, o), o.kind # "login", UNCHANGED provider
        PROVE  TokensDistinct' /\ StoredTokensLive'
    <3>1. Unsaved(p) = {} /\ Unsaved(p)' = {} /\ op'[p].kind # "login"
      BY <2>1 DEF Start, Unsaved, TokenInv, TypeOK
    <3>2. Pending(p)' = {} /\ UNCHANGED <<main, issued, spent, mislaid>>
      BY <2>1, <3>1 DEF Start, Pending
    <3>3. ASSUME NEW q \in Proc \ {p}
          PROVE  Pending(q)' = Pending(q) /\ Unsaved(q)' = Unsaved(q)
      <4>1. op'[q] = op[q] /\ pc'[q] = pc[q] /\ next' = next
        BY <2>1 DEF Start, TokenInv, TypeOK
      <4> QED BY <4>1 DEF Unsaved, Pending
    <3> QED BY <3>1, <3>2, <3>3, QuietStep
  <2>2. CASE Capture(p)
    BY <2>1, <2>2 DEF Capture, Op
  <2>3. CASE Request(p)
    <3>1. PICK a \in Account, r \in Account \cup {NoAccount} :
             \/ Start(p, Op("activate", a, NoToken, NoAccount))
             \/ Start(p, Op("remove", a, NoToken, r))
             \/ Start(p, Op("delete", NoAccount, NoToken, NoAccount))
      BY <2>3 DEF Request
    <3> QED BY <2>1, <2>3, <3>1 DEF Request, Op
  <2> QED BY <1>2, <2>2, <2>3
<1>3. CASE Acquire(p) \/ Compose(p) \/ WriteBackup(p) \/ DropBackup(p)
  <2>1. UNCHANGED <<main, issued, spent, mislaid>> /\ Unsaved(p)' = Unsaved(p)
    BY <1>3 DEF Acquire, Compose, WriteBackup, DropBackup, Unsaved, TokenInv, TypeOK
  <2>3. Unsaved(p) = {} \/ next'[p] = next[p]
    BY <1>3 DEF Acquire, Compose, WriteBackup, DropBackup, Unsaved
  <2>4. Pending(p)' = Pending(p)
    <3>1. op' = op
      BY <1>3 DEF Acquire, Compose, WriteBackup, DropBackup
    <3> QED BY <2>1, <2>3, <3>1 DEF Pending
  <2>2. \A q \in Proc \ {p} : Pending(q)' = Pending(q) /\ Unsaved(q)' = Unsaved(q)
    <3>1. op' = op /\ \A q \in Proc \ {p} : pc'[q] = pc[q] /\ next'[q] = next[q]
      BY <1>3 DEF Acquire, Compose, WriteBackup, DropBackup, TokenInv, TypeOK
    <3>2. \A q \in Proc \ {p} : Unsaved(q)' = Unsaved(q)
      BY <3>1 DEF Unsaved
    <3> QED BY <3>1, <3>2 DEF Pending
  <2> QED BY <2>1, <2>2, <2>4, QuietStep
<1>4. CASE TimeOut(p) \/ Refuse(p) \/ Decline(p) \/ Mismatch(p) \/ DeleteBackup(p) \/ Crash(p)
  <2>1. Forget(p) /\ UNCHANGED <<main, issued, spent>>
    BY <1>4 DEF TimeOut, Refuse, Decline, Mismatch, DeleteBackup, Crash, Release
  <2>2. Unsaved(p) \subseteq mislaid' /\ mislaid \subseteq mislaid'
    BY <1>4 DEF TimeOut, Refuse, Decline, Mismatch, DeleteBackup, Crash, Unsaved
  <2> QED BY <2>1, <2>2, ForgetPending, QuietStep DEF TokenInv
<1> QED
  BY <1>2, <1>3, <1>4, LoginTokens, RotateTokens, RotateLostTokens, CommitTokens, RemovalTokens
  DEF Mutate

\* The token on disk is one the provider still accepts, for every account whose
\* latest exchange was not cut short.
THEOREM NoExchangedTokenStored == Spec => []StoredTokensLive
<1>1. Init => TokenInv
  BY InitType, InitDiscipline, InitTokens DEF TokenInv
<1>2. TokenInv /\ [Next]_vars => TokenInv'
  BY NextType, NextDiscipline, NextTokens DEF TokenInv
<1>3. TokenInv => StoredTokensLive
  BY DEF TokenInv
<1> QED BY <1>1, <1>2, <1>3, PTL DEF Spec

-----------------------------------------------------------------------------
\* The store implements the book of accounts.

\* The instance counts accounts the way this module does.
LEMMA SameCount == \A S : Book!Cardinality(S) = Cardinality(S)
BY DEF Book!Cardinality, Cardinality

LEMMA BookInit == Init => Book!Init
<1> SUFFICES ASSUME Init PROVE Book!Init
  OBVIOUS
<1>1. Book!Stored = Accounts(main)
  BY DEF Book!Stored, Accounts
<1>2. Limit >= 1 /\ Limit \in Nat
  BY StoreAssumption
<1>0. Logins = {}
  BY DEF Init, Logins, LoggingIn
<1>3. CASE main = NoDoc
  <2>1. Accounts(main) = {}
    BY <1>3 DEF Accounts, NoDoc
  <2> QED BY <1>0, <1>1, <1>2, <1>3, <2>1, SameCount, FS_EmptySet DEF Book!Init, NoDoc
<1>4. CASE \E a \in Account : main = V1(a, 2)
  <2>1. PICK a \in Account : main = V1(a, 2)
    BY <1>4
  <2>2. 2 \in Token
    BY StoreAssumption DEF Token
  <2>3. Accounts(main) = {a} /\ main \in Document /\ main.active = a
    BY <2>1, <2>2, InitialDocuments DEF V1
  <2>4. main.creds \in [Account -> Token \cup {NoToken}]
    BY <2>1, <2>2, StoreAssumption DEF V1, NoDoc, NoToken
  <2>5. Cardinality({a}) = 1
    BY FS_Singleton
  <2> QED BY <1>0, <1>1, <1>2, <2>3, <2>4, <2>5, SameCount DEF Book!Init
<1> QED BY <1>3, <1>4 DEF Init

\* Only p changes what it does.
Alone(p) == \A q \in Proc \ {p} : pc'[q] = pc[q] /\ op'[q] = op[q]

\* A caller that neither begins nor ends a login leaves the logins as they are.
LEMMA SameLogins ==
  ASSUME NEW p \in Proc, Alone(p),
         \/ p \notin LoggingIn /\ p \notin LoggingIn'
         \/ p \in LoggingIn /\ p \in LoggingIn' /\ op'[p] = op[p]
  PROVE  Logins' = Logins
<1>1. LoggingIn' = LoggingIn
  BY DEF Alone, LoggingIn
<1>2. \A q \in LoggingIn : op'[q] = op[q]
  BY DEF Alone, LoggingIn
<1> QED BY <1>1, <1>2 DEF Logins

\* An operation that ends takes its own login, if it is one, out of the set: no other
\* caller holds the same token.
LEMMA EndOfOperation ==
  ASSUME TokenInv, NEW p \in Proc, Forget(p), pc[p] # "idle"
  PROVE  \/ op[p].kind # "login" /\ Logins' = Logins
         \/ /\ op[p].kind = "login" /\ op[p].acct \in Account /\ op[p].token \in Token
            /\ <<op[p].acct, op[p].token>> \in Logins
            /\ Logins' = Logins \ {<<op[p].acct, op[p].token>>}
<1>1. Alone(p) /\ pc'[p] = "idle"
  BY DEF Forget, TokenInv, TypeOK, Alone
<1>2. p \notin LoggingIn'
  BY <1>1 DEF LoggingIn
<1>3. CASE op[p].kind # "login"
  BY <1>1, <1>2, <1>3, SameLogins DEF LoggingIn
<1>4. CASE op[p].kind = "login"
  <2>1. op[p] \in Operation
    BY DEF TokenInv, TypeOK
  <2>2. op[p].acct \in Account /\ op[p].token \in Token
    BY <1>4, <2>1 DEF Operation, NoOp, Op
  <2>3. LoggingIn' = LoggingIn \ {p} /\ p \in LoggingIn
    BY <1>1, <1>2, <1>4 DEF LoggingIn, Alone
  <2>4. \A q \in LoggingIn \ {p} : op'[q] = op[q] /\ op[q].token # op[p].token
    BY <1>1, <1>4 DEF TokenInv, TokensDistinct, Pending, LoggingIn, Alone
  <2>5. Logins' = {<<op[q].acct, op[q].token>> : q \in LoggingIn \ {p}}
    BY <2>3, <2>4 DEF Logins
  <2> QED BY <1>4, <2>2, <2>3, <2>4, <2>5 DEF Logins
<1> QED BY <1>3, <1>4

\* A login that has its credential is under way.
LEMMA BeginOfLogin ==
  ASSUME TypeOK, NEW p \in Proc, NEW a \in Account, Login(p, a)
  PROVE  Logins' = Logins \cup {<<a, issued + 1>>}
<1>1. /\ Alone(p) /\ pc[p] = "idle" /\ pc'[p] = "waiting"
      /\ op'[p] = Op("login", a, issued + 1, NoAccount)
  BY DEF Login, Start, TypeOK, Alone
<1>2. LoggingIn' = LoggingIn \cup {p} /\ p \notin LoggingIn
  BY <1>1 DEF LoggingIn, Alone, Op
<1>3. \A q \in LoggingIn : op'[q] = op[q]
  BY <1>1, <1>2 DEF LoggingIn, Alone
<1> QED BY <1>1, <1>2, <1>3 DEF Logins, Op

\* Each write of the document is one operation of the book, applied to the
\* book as it is; a login comes and goes; every other step leaves the book alone.
LEMMA BookStep == TokenInv /\ [Next]_vars => [Book!Next]_(Book!vars)
<1> SUFFICES ASSUME TokenInv, [Next]_vars
             PROVE  Book!Next \/ (main' = main /\ Logins' = Logins)
  BY DEF Book!vars
<1>u. CASE UNCHANGED vars
  BY <1>u DEF vars, Logins, LoggingIn
<1>r. CASE Reclaim
  BY <1>r DEF Reclaim, disk, Logins, LoggingIn
<1> SUFFICES ASSUME NEW p \in Proc, Mutate(p) \/ Crash(p)
             PROVE  Book!Next \/ (main' = main /\ Logins' = Logins)
  BY <1>u, <1>r DEF Next
<1> USE DEF disk
<1>2. /\ Disciplined(p) /\ main \in Document /\ op[p] \in Operation
      /\ pc \in [Proc -> {"idle", "waiting", "holding", "writing", "removing", "deleting"}]
      /\ op \in [Proc -> Operation]
  BY DEF TokenInv, Discipline, TypeOK
<1>3. Book!Stored = Accounts(main)
  BY DEF Book!Stored, Accounts
<1>a. ASSUME NEW o, Start(p, o), o.kind # "login" PROVE main' = main /\ Logins' = Logins
  <2>1. Alone(p) /\ pc[p] = "idle" /\ op'[p] = o /\ main' = main
    BY <1>2, <1>a DEF Start, Alone
  <2> QED BY <1>a, <2>1, SameLogins DEF LoggingIn
<1>b. CASE Capture(p) \/ Request(p)
  BY <1>a, <1>b DEF Capture, Request, Op
<1>c. ASSUME NEW a \in Account, Login(p, a) PROVE Book!Next
  <2>1. issued + 1 \in Token /\ UNCHANGED main
    BY <1>c, StoreAssumption DEF Login, Start, TokenInv, TypeOK, Token
  <2>2. Book!Arrive(a, issued + 1)
    BY <1>c, <2>1, BeginOfLogin DEF TokenInv, Book!Arrive
  <2> QED BY <2>1, <2>2 DEF Book!Next
<1>d. CASE Acquire(p) \/ Rotate(p) \/ Compose(p) \/ WriteBackup(p) \/ DropBackup(p)
  <2>1. /\ Alone(p) /\ pc[p] # "idle" /\ pc'[p] # "idle" /\ op' = op /\ main' = main
    BY <1>2, <1>d DEF Acquire, Rotate, Compose, WriteBackup, DropBackup, Alone
  <2> QED BY <2>1, SameLogins DEF LoggingIn
<1>e. CASE TimeOut(p) \/ Refuse(p) \/ Decline(p) \/ RotateLost(p) \/ Mismatch(p)
           \/ DeleteBackup(p) \/ Crash(p)
  <2>1. Forget(p) /\ pc[p] # "idle" /\ main' = main
    BY <1>e DEF TimeOut, Refuse, Decline, RotateLost, Mismatch, DeleteBackup, Crash, Release
  <2>2. CASE op[p].kind # "login"
    BY <2>1, <2>2, EndOfOperation
  <2>3. CASE op[p].kind = "login"
    <3>1. /\ op[p].acct \in Account /\ op[p].token \in Token
          /\ Book!Leave(op[p].acct, op[p].token)
      BY <2>1, <2>3, EndOfOperation DEF Book!Leave
    <3> QED BY <3>1 DEF Book!Next
  <2> QED BY <2>2, <2>3
<1>4. CASE Commit(p)
  <2>0. Forget(p) /\ pc[p] # "idle"
    BY <1>4 DEF Commit, Release
  <2>1. base[p] = main /\ main' = next[p] /\ ~Refused(op[p], main)
    BY <1>2, <1>4 DEF Commit, Disciplined
  <2>2. CASE op[p].kind = "refresh"
    <3>1. PICK t \in Token : next[p] = Refreshed(main, op[p].acct, t)
      BY <1>2, <1>4, <2>1, <2>2 DEF Commit, Disciplined
    <3>2. op[p].acct \in Accounts(main) /\ op[p].acct \in Account
      BY <2>1, <2>2 DEF Refused, Accounts
    <3>3. Logins' = Logins
      BY <2>0, <2>2, EndOfOperation
    <3>4. Book!Rotate(op[p].acct, t)
      BY <1>3, <2>1, <3>1, <3>2, <3>3 DEF Book!Rotate, Refreshed, V2, Upsert
    <3> QED BY <3>2, <3>4 DEF Book!Next
  <2>3. CASE op[p].kind = "login"
    <3>1. next[p] = V2(op[p].acct, Upsert(main, op[p].acct, op[p].token))
      BY <1>2, <1>4, <2>1, <2>3 DEF Commit, Disciplined
    <3>2. op[p].acct \in Account /\ op[p].token \in Token
      BY <1>2, <2>3 DEF Operation, NoOp, Op
    <3>3. Cardinality(Accounts(main) \cup {op[p].acct}) <= Limit
      BY <1>2, <2>1, <2>3, LoginFits
    <3>4. /\ <<op[p].acct, op[p].token>> \in Logins
          /\ Logins' = Logins \ {<<op[p].acct, op[p].token>>}
      BY <2>0, <2>3, EndOfOperation
    <3>5. Book!SignIn(op[p].acct, op[p].token)
      BY <1>3, <2>1, <3>1, <3>3, <3>4, SameCount DEF Book!SignIn, V2, Upsert
    <3> QED BY <3>2, <3>5 DEF Book!Next
  <2>4. CASE op[p].kind = "activate"
    <3>1. next[p] = V2(op[p].acct, main.creds)
      BY <1>2, <1>4, <2>1, <2>4 DEF Commit, Disciplined
    <3>2. op[p].acct \in Accounts(main) /\ op[p].acct \in Account
      BY <2>1, <2>4 DEF Refused, Accounts
    <3>3. Logins' = Logins
      BY <2>0, <2>4, EndOfOperation
    <3>4. Book!Select(op[p].acct)
      BY <1>3, <2>1, <3>1, <3>2, <3>3 DEF Book!Select, V2
    <3> QED BY <3>2, <3>4 DEF Book!Next
  <2> QED BY <1>2, <1>4, <2>2, <2>3, <2>4 DEF Commit, Disciplined
<1>5. CASE CommitRemoval(p)
  <2> DEFINE a == op[p].acct
  <2>0. Forget(p) /\ pc[p] # "idle"
    BY <1>5 DEF CommitRemoval, Release
  <2>1. /\ main' = Remaining(op[p], main) /\ ~Refused(op[p], main) /\ op[p].kind = "remove"
        /\ a \in Accounts(main) /\ a \in Account
    BY <1>2, <1>5 DEF CommitRemoval, Disciplined, Refused, Accounts
  <2>l. Logins' = Logins
    BY <2>0, <2>1, EndOfOperation
  <2>2. main.creds \in [Account -> 0..MaxToken] /\ main.active \in Accounts(main)
        /\ main.active \in Account
    BY <1>2, <2>1, StoreAssumption DEF Document, NoDoc, NoToken, Accounts
  <2>3. CASE Accounts(main) = {a}
    <3>1. main' = NoDoc /\ a = main.active
      BY <2>1, <2>2, <2>3 DEF Remaining
    <3>2. NoDoc.creds = [main.creds EXCEPT ![a] = NoToken]
      BY <2>2, <2>3 DEF NoDoc, Accounts
    <3>3. Book!Drop(a, NoAccount)
      BY <1>3, <2>1, <2>l, <2>3, <3>1, <3>2 DEF Book!Drop, NoDoc
    <3> QED BY <2>1, <3>3 DEF Book!Next
  <2>4. CASE Accounts(main) # {a}
    <3> DEFINE s == IF a = main.active THEN op[p].repl ELSE main.active
    <3>1. main' = V2(s, Removal(main, a))
      BY <2>1, <2>4 DEF Remaining
    <3>2. s \in Accounts(main) \ {a} /\ s \in Account
      BY <2>1, <2>2, <2>4 DEF Refused, NeedsReplacement, Accounts
    <3>3. Book!Drop(a, s)
      BY <1>3, <2>1, <2>l, <2>4, <3>1, <3>2 DEF Book!Drop, V2, Removal
    <3> QED BY <2>1, <3>2, <3>3 DEF Book!Next
  <2> QED BY <2>3, <2>4
<1>6. CASE DeleteMain(p)
  <2>1. /\ main' = NoDoc /\ op' = op /\ Alone(p) /\ op[p].kind = "delete"
    BY <1>2, <1>6 DEF DeleteMain, Alone
  <2>2. Logins' = Logins
    BY <2>1, SameLogins DEF LoggingIn
  <2> QED BY <2>1, <2>2 DEF Book!Next, Book!Clear, NoDoc
<1> QED BY <1>b, <1>c, <1>d, <1>e, <1>4, <1>5, <1>6 DEF Mutate

\* The store, with its lock, its files and its crashes, behaves as one book on
\* which every operation takes effect at once, every login at most once, and of
\* which a refresh changes one token and nothing else.
THEOREM StoreImplementsBook == Spec => ImplementsBook
<1>1. Init => TokenInv
  BY InitType, InitDiscipline, InitTokens DEF TokenInv
<1>2. TokenInv /\ [Next]_vars => TokenInv'
  BY NextType, NextDiscipline, NextTokens DEF TokenInv
<1> QED BY <1>1, <1>2, BookInit, BookStep, PTL DEF Spec, ImplementsBook, Book!Spec
====
