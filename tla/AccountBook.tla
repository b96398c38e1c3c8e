---- MODULE AccountBook -----------------------------
(***************************************************************************)
(* What the credential store promises its callers: one book of at most     *)
(* Limit accounts, each with the refresh token it was last given, and one  *)
(* selected account whenever the book is not empty.  Every operation is a  *)
(* single atomic step here.  A new account, and a new selection with a new *)
(* token, come from a login that is under way and from nothing else: each  *)
(* login enters the book at most once, and a refresh selects nothing.      *)
(* CredentialStore, with its file lock, its two files and its crashes, is  *)
(* shown to implement this module.                                         *)
(***************************************************************************)
EXTENDS Naturals, FiniteSets

CONSTANTS Account,    \* provider account ids
          NoAccount,  \* the selection of an empty book
          Token,      \* refresh tokens a credential may carry
          NoToken,    \* the entry of an account that is not stored
          Limit       \* OPENAI_CODEX_ACCOUNT_LIMIT

VARIABLES active,     \* the selected account
          creds,      \* creds[a]: the token stored for a, or NoToken
          logins      \* the logins under way: <<account, token>>

vars == <<active, creds, logins>>

Stored == {a \in Account : creds[a] # NoToken}

Init == /\ creds \in [Account -> Token \cup {NoToken}]
        /\ Cardinality(Stored) <= Limit
        /\ active \in IF Stored = {} THEN {NoAccount} ELSE Stored
        /\ logins = {}

\* The provider gives a login its credential; a login that is refused or given
\* up leaves no trace.
Arrive(a, t) == logins' = logins \cup {<<a, t>>} /\ UNCHANGED <<active, creds>>
Leave(a, t) == logins' = logins \ {<<a, t>>} /\ UNCHANGED <<active, creds>>

\* A login under way stores the account, new or not, and selects it.
SignIn(a, t) == /\ <<a, t>> \in logins /\ logins' = logins \ {<<a, t>>}
                /\ Cardinality(Stored \cup {a}) <= Limit
                /\ creds' = [creds EXCEPT ![a] = t]
                /\ active' = a

\* A refresh replaces the token of a stored account and selects nothing.
Rotate(a, t) == /\ a \in Stored
                /\ creds' = [creds EXCEPT ![a] = t]
                /\ UNCHANGED <<active, logins>>

Select(a) == /\ a \in Stored
             /\ active' = a
             /\ UNCHANGED <<creds, logins>>

\* Removing the selected account needs a successor among the others, if any.
Drop(a, successor) ==
  /\ a \in Stored
  /\ creds' = [creds EXCEPT ![a] = NoToken]
  /\ active' = successor
  /\ IF a # active           THEN successor = active
     ELSE IF Stored = {a}    THEN successor = NoAccount
                             ELSE successor \in Stored \ {a}
  /\ UNCHANGED logins

Clear == /\ creds' = [a \in Account |-> NoToken]
         /\ active' = NoAccount
         /\ UNCHANGED logins

Next == \/ \E a \in Account, t \in Token :
             Arrive(a, t) \/ Leave(a, t) \/ SignIn(a, t) \/ Rotate(a, t)
        \/ \E a \in Account : Select(a)
        \/ \E a \in Account, s \in Account \cup {NoAccount} : Drop(a, s)
        \/ Clear

Spec == Init /\ [][Next]_vars
=============================================================================
