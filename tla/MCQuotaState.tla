---- MODULE MCQuotaState ----
\* Three reads of three accounts, in a cache with room for two.
EXTENDS QuotaState, TLC

CONSTANTS r1, r2, r3, k1, k2, k3

MCReader == {r1, r2, r3}
MCKey == {k1, k2, k3}
Symmetry == Permutations(MCReader) \cup Permutations(MCKey)
====
