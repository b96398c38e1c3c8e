---- MODULE MCCredentialStore ----
\* Two callers, three accounts of which two fit, four tokens.
EXTENDS CredentialStore, TLC

CONSTANTS p1, p2, a1, a2, a3

MCProc == {p1, p2}
MCAccount == {a1, a2, a3}
Symmetry == Permutations(MCProc) \cup Permutations(MCAccount)
=============================================================================
