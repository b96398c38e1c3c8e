---- MODULE MCProviderProxy ----
\* Two plugin instances in one process, two operations, another party that
\* wraps an entry point once, and three installations of our wrappers.
EXTENDS ProviderProxy
CONSTANTS m1, m2, l1, l2
MCManager == {m1, m2}
MCLease == {l1, l2}
====
