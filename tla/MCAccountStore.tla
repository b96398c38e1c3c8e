---- MODULE MCAccountStore ----
\* One page, two accounts, two mutations and two faults.
EXTENDS AccountStore
====
