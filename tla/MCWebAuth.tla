---- MODULE MCWebAuth ----
\* Two requests at a time, under fairness.
EXTENDS WebAuth

CONSTANTS c1, c2

MCCaller == {c1, c2}
====
