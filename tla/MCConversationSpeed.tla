---- MODULE MCConversationSpeed ----
\* Three browser tabs, two of them on one conversation; a second conversation
\* that competes for room; a request.  One account move or model selection.
EXTENDS ConversationSpeed, TLC
CONSTANTS s1, s2, c1, c2, c3, r1, a1
MCSession == {s1, s2}
MCClient == {c1, c2, c3}
MCRequest == {r1}
MCAccount == {a1}
MCStarting == {s1}
MCSessionOf == (c1 :> s1 @@ c2 :> s1 @@ c3 :> s2 @@ r1 :> s1)

\* All of them at once are too many states.  Explored are: on the first
\* conversation, any two of a tab, the start-up default and the request, or two
\* tabs; on both, a tab each, while nothing else moves.
Quiet(c) == page[c].gen = 0 /\ handler[c].stage = "idle"
OneSession == Quiet(c3) /\ selection[s2] = 1 /\ s2 \in live /\ ~Contains(fast, s2)
NoStream == request[r1].stage = "idle"
NoStart == seed[s1].stage = "no"
Still == epoch = 0 /\ live = Session /\ \A s \in Session : selection[s] = 1
OneTab == Quiet(c1) \/ Quiet(c2)
NoTab == Quiet(c1) /\ Quiet(c2)
Focus == \/ OneSession /\ OneTab /\ (NoTab \/ NoStream \/ NoStart)
         \/ OneSession /\ NoStream /\ NoStart
         \/ OneTab /\ NoStream /\ NoStart /\ Still

\* The tabs of the first conversation are alike.
Symmetry == Permutations({c1, c2})
====
