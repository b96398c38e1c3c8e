--------------------------- MODULE CredentialStore ---------------------------
(***************************************************************************)
(* The OAuth credential store of src/src/store.ts: one document on disk    *)
(* (`main`), the rollback copy of a version-1 document (`backup`), and the *)
(* writer lock under which every mutator reads the document, decides and   *)
(* writes.  A Proc is one caller with one operation in flight: an adapter  *)
(* request, a browser route or the launcher, in this operating-system      *)
(* process or in another one, since all of them share only the files.      *)
(*                                                                         *)
(* Documents are atomic (the code writes them with a rename); crashes fall *)
(* between the file operations.  Access tokens, expiry times and the order *)
(* of the credentials array are abstracted away: a stored credential is    *)
(* the refresh token it carries, which the provider accepts only once.     *)
(***************************************************************************)
EXTENDS Naturals, FiniteSets

CONSTANTS Proc, Account,
          NoAccount,    \* no account: nothing selected, no replacement named
          Free, Stale,  \* the lock file is absent / was left by a dead caller
          Limit,        \* OPENAI_CODEX_ACCOUNT_LIMIT
          MaxToken      \* bound of the model: tokens the provider issues

ASSUME StoreAssumption == /\ NoAccount \notin Account
                          /\ IsFiniteSet(Account)
                          /\ Free \notin Proc /\ Stale \notin Proc /\ Free # Stale
                          /\ Limit \in Nat \ {0}
                          /\ MaxToken \in Nat \ {0, 1}

VARIABLES main,     \* the document at `filename`
          backup,   \* the document at `version1BackupFilename`
          lock,     \* the holder of the writer lock, Free or Stale
          pc, op,   \* per caller: its stage, and what it was asked to do
          base,     \* per caller: the document it read under the lock
          next,     \* per caller: the document it is about to write
          issued,   \* the provider has issued tokens 1..issued
          spent,    \* tokens already exchanged for a newer one
          mislaid,  \* history: accounts whose newest token never got stored
          leftover  \* history: a logout died between its two removals

vars == <<main, backup, lock, pc, op, base, next, issued, spent, mislaid, leftover>>
disk == <<main, backup>>
provider == <<issued, spent>>
history == <<mislaid, leftover>>

NoToken == 0
Token == 1..MaxToken

NoDoc == [version |-> 0, active |-> NoAccount, creds |-> [a \in Account |-> NoToken]]
Accounts(d) == {a \in Account : d.creds[a] # NoToken}
V2(a, c) == [version |-> 2, active |-> a, creds |-> c]
V1(a, t) == [version |-> 1, active |-> a, creds |-> [NoDoc.creds EXCEPT ![a] = t]]

\* What parseDocument accepts, and NoDoc for an absent file.
Document == {d \in [version : {1, 2}, active : Account, creds : [Account -> 0..MaxToken]] :
               /\ d.active \in Accounts(d)
               /\ Cardinality(Accounts(d)) <= Limit
               /\ d.version = 1 => Accounts(d) = {d.active}}
            \cup {NoDoc}

NoOp == [kind |-> "none", acct |-> NoAccount, token |-> NoToken, repl |-> NoAccount]
Op(kind, a, t, r) == [kind |-> kind, acct |-> a, token |-> t, repl |-> r]
Operation ==
  {NoOp, Op("delete", NoAccount, NoToken, NoAccount)}
  \cup [kind : {"refresh", "activate"}, acct : Account, token : {NoToken}, repl : {NoAccount}]
  \cup [kind : {"login"}, acct : Account, token : Token, repl : {NoAccount}]
  \cup [kind : {"remove"}, acct : Account, token : {NoToken}, repl : Account \cup {NoAccount}]

-----------------------------------------------------------------------------
\* No document, or the version-1 document of an older release, beside which a
\* rollback copy may already lie: the same document, or an older one.
Init == /\ \/ main = NoDoc /\ backup = NoDoc
           \/ \E a \in Account : /\ main = V1(a, 2)
                                 /\ backup \in {NoDoc, V1(a, 2), V1(a, 1)}
        /\ issued = IF main = NoDoc THEN 0 ELSE 2
        /\ spent = IF main = NoDoc THEN {} ELSE {1}
        /\ lock = Free
        /\ pc = [p \in Proc |-> "idle"]
        /\ op = [p \in Proc |-> NoOp]
        /\ base = [p \in Proc |-> NoDoc]
        /\ next = [p \in Proc |-> NoDoc]
        /\ mislaid = {}
        /\ leftover = FALSE

Start(p, o) == /\ pc[p] = "idle"
               /\ pc' = [pc EXCEPT ![p] = "waiting"]
               /\ op' = [op EXCEPT ![p] = o]
               /\ UNCHANGED <<disk, lock, base, next, history>>

\* A request captures the active account without the lock, finds its access
\* token expired and calls the snapshot's modify.
Capture(p) == /\ main # NoDoc
              /\ Start(p, Op("refresh", main.active, NoToken, NoAccount))
              /\ UNCHANGED provider

\* The provider has answered a login: its fresh credential goes to modify.
Login(p, a) == /\ issued < MaxToken
               /\ issued' = issued + 1
               /\ Start(p, Op("login", a, issued + 1, NoAccount))
               /\ UNCHANGED spent

\* activate, removeAccount and delete, called with whatever the caller last saw.
Request(p) == /\ \E a \in Account, r \in Account \cup {NoAccount} :
                   \/ Start(p, Op("activate", a, NoToken, NoAccount))
                   \/ Start(p, Op("remove", a, NoToken, r))
                   \/ Start(p, Op("delete", NoAccount, NoToken, NoAccount))
              /\ UNCHANGED provider

-----------------------------------------------------------------------------
\* Mutant: nobody waits for the lock.
AcquireBarging(p) == /\ pc[p] = "waiting"
                     /\ lock' = p
                     /\ base' = [base EXCEPT ![p] = main]
                     /\ pc' = [pc EXCEPT ![p] = "holding"]
                     /\ UNCHANGED <<disk, op, next, provider, history>>

\* withFileLock gave p the lock and p read the document.
Acquire(p) == /\ pc[p] = "waiting" /\ lock = Free
              /\ lock' = p
              /\ base' = [base EXCEPT ![p] = main]
              /\ pc' = [pc EXCEPT ![p] = "holding"]
              /\ UNCHANGED <<disk, op, next, provider, history>>

Forget(p) == /\ pc' = [pc EXCEPT ![p] = "idle"]
             /\ op' = [op EXCEPT ![p] = NoOp]
             /\ base' = [base EXCEPT ![p] = NoDoc]
             /\ next' = [next EXCEPT ![p] = NoDoc]

\* The operation returns or throws: withFileLock releases either way.
Release(p) == lock' = Free /\ Forget(p)

\* Twenty seconds passed behind another holder: the operation throws.
TimeOut(p) == /\ pc[p] = "waiting" /\ lock # Free
              /\ Forget(p)
              /\ UNCHANGED <<disk, lock, provider, history>>

Upsert(d, a, t) == [d.creds EXCEPT ![a] = t]

Removal(d, a) == [d.creds EXCEPT ![a] = NoToken]

NeedsReplacement(o, d) == o.acct = d.active /\ Accounts(d) # {o.acct}

\* What a removal leaves: no document once the last account is gone.
Remaining(o, d) ==
  IF Accounts(d) = {o.acct} THEN NoDoc
  ELSE V2(IF o.acct = d.active THEN o.repl ELSE d.active, Removal(d, o.acct))

\* Whether the operation returns undefined or throws after reading d.
Refused(o, d) ==
  \/ o.kind \in {"refresh", "activate", "remove"} /\ o.acct \notin Accounts(d)
  \/ o.kind = "login" /\ Cardinality(Accounts(d) \cup {o.acct}) > Limit
  \/ o.kind = "remove" /\ IF NeedsReplacement(o, d)
                          THEN o.repl \notin Accounts(d) \ {o.acct}
                          ELSE o.repl # NoAccount

Refuse(p) == /\ pc[p] = "holding" /\ Refused(op[p], base[p])
             /\ Release(p)
             /\ UNCHANGED <<disk, provider, history>>

\* The signal fired, the credential is already fresh (another caller refreshed
\* it), or the provider rejected it: fn yields nothing to write.
Decline(p) == /\ pc[p] = "holding" /\ op[p].kind \in {"refresh", "login"}
              /\ Release(p)
              /\ UNCHANGED <<disk, provider, history>>

\* Mutant: a refresh selects the account it refreshed.
RefreshedAndSelected(d, a, t) == V2(a, Upsert(d, a, t))

\* A refresh keeps the selection of the document it read under the lock.
Refreshed(d, a, t) == V2(d.active, Upsert(d, a, t))

\* The provider exchanges the captured account's token as re-read under the lock.
Rotate(p) ==
  LET a == op[p].acct
      t == base[p].creds[a]
  IN /\ pc[p] = "holding" /\ op[p].kind = "refresh" /\ ~Refused(op[p], base[p])
     /\ t \notin spent /\ issued < MaxToken
     /\ issued' = issued + 1
     /\ spent' = spent \cup {t}
     /\ next' = [next EXCEPT ![p] = Refreshed(base[p], a, issued + 1)]
     /\ pc' = [pc EXCEPT ![p] = "writing"]
     /\ UNCHANGED <<disk, lock, op, base, history>>

\* The provider exchanged the token but its answer was lost or unreadable.
RotateLost(p) ==
  /\ pc[p] = "holding" /\ op[p].kind = "refresh" /\ ~Refused(op[p], base[p])
  /\ spent' = spent \cup {base[p].creds[op[p].acct]}
  /\ mislaid' = mislaid \cup {op[p].acct}
  /\ Release(p)
  /\ UNCHANGED <<disk, issued, leftover>>

\* A login upserts and selects its account; activate only selects.
Compose(p) ==
  /\ pc[p] = "holding" /\ ~Refused(op[p], base[p])
  /\ \/ /\ op[p].kind = "login"
        /\ next' = [next EXCEPT ![p] = V2(op[p].acct, Upsert(base[p], op[p].acct, op[p].token))]
     \/ /\ op[p].kind = "activate"
        /\ next' = [next EXCEPT ![p] = V2(op[p].acct, base[p].creds)]
  /\ pc' = [pc EXCEPT ![p] = "writing"]
  /\ UNCHANGED <<disk, lock, op, base, provider, history>>

-----------------------------------------------------------------------------
\* The account whose newest token is lost if p stops before its commit.
Unsaved(p) == IF pc[p] = "writing" /\ op[p].kind = "refresh" THEN {op[p].acct} ELSE {}

Migrating(p) == base[p].version = 1

\* writeDocument: a version-1 document is first copied, or found copied.
WriteBackup(p) == /\ pc[p] = "writing" /\ Migrating(p) /\ backup = NoDoc
                  /\ backup' = base[p]
                  /\ UNCHANGED <<main, lock, pc, op, base, next, provider, history>>

\* A rollback copy of something else: writeDocument throws.
Mismatch(p) == /\ pc[p] = "writing" /\ Migrating(p) /\ backup \notin {NoDoc, base[p]}
               /\ mislaid' = mislaid \cup Unsaved(p)
               /\ Release(p)
               /\ UNCHANGED <<disk, provider, leftover>>

\* Mutant: the document is replaced without looking at the rollback copy.
MayReplaceAlways(p) == TRUE

MayReplace(p) == Migrating(p) => backup = base[p]

Commit(p) == /\ pc[p] = "writing" /\ MayReplace(p)
             /\ main' = next[p]
             /\ mislaid' = IF op[p].kind = "login" THEN mislaid \ {op[p].acct} ELSE mislaid
             /\ Release(p)
             /\ UNCHANGED <<backup, provider, leftover>>

\* removeAccount deletes the rollback copy first, then writes what remains.
DropBackup(p) ==
  /\ pc[p] = "holding" /\ op[p].kind = "remove" /\ ~Refused(op[p], base[p])
  /\ backup' = NoDoc
  /\ leftover' = FALSE
  /\ next' = [next EXCEPT ![p] = Remaining(op[p], base[p])]
  /\ pc' = [pc EXCEPT ![p] = "removing"]
  /\ UNCHANGED <<main, lock, op, base, provider, mislaid>>

CommitRemoval(p) == /\ pc[p] = "removing"
                    /\ main' = next[p]
                    /\ Release(p)
                    /\ UNCHANGED <<backup, provider, history>>

\* Mutant: a logout forgets the rollback copy.
DeleteMainOnly(p) == /\ pc[p] = "holding" /\ op[p].kind = "delete"
                     /\ main' = NoDoc
                     /\ Release(p)
                     /\ UNCHANGED <<backup, provider, history>>

\* delete: the document first, the rollback copy second.
DeleteMain(p) == /\ pc[p] = "holding" /\ op[p].kind = "delete"
                 /\ main' = NoDoc
                 /\ pc' = [pc EXCEPT ![p] = "deleting"]
                 /\ UNCHANGED <<backup, lock, op, base, next, provider, history>>

DeleteBackup(p) == /\ pc[p] = "deleting"
                   /\ backup' = NoDoc
                   /\ leftover' = FALSE
                   /\ Release(p)
                   /\ UNCHANGED <<main, provider, mislaid>>

-----------------------------------------------------------------------------
\* The caller's process dies and is restarted; its lock file stays behind.
Crash(p) == /\ pc[p] # "idle"
            /\ Forget(p)
            /\ lock' = IF lock = p THEN Stale ELSE lock
            /\ mislaid' = mislaid \cup Unsaved(p)
            /\ leftover' = (leftover \/ (pc[p] = "deleting" /\ backup # NoDoc))
            /\ UNCHANGED <<disk, provider>>

\* Someone, the lock library or the user, removes the dead caller's lock file.
Reclaim == /\ lock = Stale
           /\ lock' = Free
           /\ UNCHANGED <<disk, pc, op, base, next, provider, history>>

Mutate(p) == \/ Capture(p) \/ Request(p) \/ (\E a \in Account : Login(p, a))
             \/ Acquire(p) \/ TimeOut(p) \/ Refuse(p) \/ Decline(p)
             \/ Rotate(p) \/ RotateLost(p) \/ Compose(p)
             \/ WriteBackup(p) \/ Mismatch(p) \/ Commit(p)
             \/ DropBackup(p) \/ CommitRemoval(p)
             \/ DeleteMain(p) \/ DeleteBackup(p)

Next == Reclaim \/ \E p \in Proc : Mutate(p) \/ Crash(p)

Spec == Init /\ [][Next]_vars

-----------------------------------------------------------------------------
\* The disk only ever holds documents that parseDocument accepts, and the
\* bookkeeping of each caller fits its stage.
TypeOK == /\ main \in Document /\ backup \in Document
          /\ backup.version # 2
          /\ lock \in Proc \cup {Free, Stale}
          /\ pc \in [Proc -> {"idle", "waiting", "holding", "writing", "removing", "deleting"}]
          /\ op \in [Proc -> Operation]
          /\ base \in [Proc -> Document] /\ next \in [Proc -> Document]
          /\ issued \in 0..MaxToken /\ spent \subseteq Token
          /\ mislaid \subseteq Account /\ leftover \in BOOLEAN

\* What each stage relies on: only the holder of the lock is past "waiting",
\* what it read is still what the file says, and what it is about to write is
\* the outcome of its operation on that document.
Disciplined(p) ==
  /\ pc[p] \in {"holding", "writing", "removing", "deleting"} <=> lock = p
  /\ pc[p] \in {"holding", "writing", "removing"} => base[p] = main
  /\ pc[p] = "writing" =>
       /\ ~Refused(op[p], base[p])
       /\ \/ op[p].kind = "refresh" /\ \E t \in Token :
               next[p] = Refreshed(base[p], op[p].acct, t)
          \/ op[p].kind = "login" /\
               next[p] = V2(op[p].acct, Upsert(base[p], op[p].acct, op[p].token))
          \/ op[p].kind = "activate" /\ next[p] = V2(op[p].acct, base[p].creds)
  /\ pc[p] = "removing" => /\ op[p].kind = "remove" /\ ~Refused(op[p], base[p])
                           /\ next[p] = Remaining(op[p], base[p])
                           /\ backup = NoDoc
  /\ pc[p] = "deleting" => op[p].kind = "delete"

Discipline == \A p \in Proc : Disciplined(p)

\* The tokens p holds and has not stored yet.
Pending(p) == IF op[p].kind = "login" THEN {op[p].token}
              ELSE {next[p].creds[a] : a \in Unsaved(p)}

\* Every pending token is the newest of its login, held by one caller only,
\* and no two accounts share a stored token.
TokensDistinct ==
  /\ spent \subseteq 1..issued
  /\ \A a \in Account : main.creds[a] <= issued
  /\ \A a, b \in Account : a # b /\ main.creds[a] = main.creds[b] => main.creds[a] = NoToken
  /\ \A p \in Proc : \A t \in Pending(p) :
        /\ t \in 1..issued /\ t \notin spent
        /\ \A a \in Account : main.creds[a] # t
        /\ \A q \in Proc \ {p} : t \notin Pending(q)

\* A refresh token the provider has already exchanged is never the one on
\* disk, once the caller that exchanged it is done, unless that caller died,
\* lost the answer or was refused the write.  The lock must span the whole
\* of read, exchange and write for this.
StoredTokensLive ==
  \A a \in Account : main.creds[a] \in spent =>
     a \in mislaid \/ \E p \in Proc : a \in Unsaved(p)

\* The rollback copy never holds the credential of an account that has been
\* removed or signed out, unless a logout died halfway.
NothingForgotten ==
  (backup # NoDoc /\ ~leftover /\ \A p \in Proc : pc[p] # "deleting")
     => backup.active \in Accounts(main)

\* A version-1 document is only ever replaced when its rollback copy exists.
RollbackKept ==
  [][main.version = 1 /\ main'.version = 2 => backup' = main]_vars

\* A captured request's refresh writes the captured account and nothing else:
\* whatever was selected, stored or removed since the capture stays so.
RefreshTouchesOnlyCaptured ==
  [][\A p \in Proc : (op[p].kind = "refresh" /\ lock = p /\ main' # main)
       => LET a == op[p].acct
          IN /\ a \in Accounts(main)
             /\ main'.active = main.active
             /\ \A b \in Account \ {a} : main'.creds[b] = main.creds[b]]_vars

\* The logins under way: those that have their credential and have not returned.
LoggingIn == {p \in Proc : pc[p] # "idle" /\ op[p].kind = "login"}
Logins == {<<op[p].acct, op[p].token>> : p \in LoggingIn}

\* Every operation takes effect at once, on the book as it is at that moment; what
\* a refresh of a captured account writes is never mistaken for a login.
Book == INSTANCE AccountBook WITH active <- main.active, creds <- main.creds, logins <- Logins
ImplementsBook == Book!Spec

\* docs/design.md: signing out deletes the rollback copy.  A logout that dies
\* between its two removals leaves a store that reads as signed out.
SignedOutKeepsNoCredential ==
  main = NoDoc /\ (\A p \in Proc : pc[p] # "deleting") => backup = NoDoc
=============================================================================
