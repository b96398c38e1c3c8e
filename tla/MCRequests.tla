---- MODULE MCRequests ----
\* What bounds a model request.  Four attempts for two slots: three of the model lane,
\* two of which share a scope, and one of another lane.  Either all four, with a model
\* lane that cools for one unit, and with aborts or the disposal; or only the three of
\* that lane, with both, and with waits of up to two units, which outlast later, shorter
\* ones.  Or one stream with two fetches, by the proxy or by one of two native routes of
\* which one is the configured origin's.  Attempts and streams share nothing; the first
\* state says what moves.
EXTENDS BackendGovernor, Preflight, TLC

CONSTANTS m1, m2, m3, s1, run, other, n1, n2

MCAttempt == {m1, m2, m3, s1}
MCLaneOf == (m1 :> "model" @@ m2 :> "model" @@ m3 :> "model" @@ s1 :> "search")
MCScopeOf == (m1 :> run @@ m2 :> run @@ m3 :> other @@ s1 :> run)
MCNative == {n1, n2}
MCTrusted == {n1}

VARIABLE system
requestVars == <<vars, readVars, system>>

RequestInit == /\ Init /\ ReadInit
               /\ \/ system \in {"attempts", "cooldowns"} /\ native = NoRoute
                  \/ system = "stream"

Attempts == system # "stream" /\ UNCHANGED <<readVars, system>>
\* The two attempts m1 and m2 are interchangeable; m1 is the one that calls first.
Bound == /\ pc'[m2] # "new" => pc'[m1] # "new"
         /\ IF system = "attempts"
            THEN /\ cooldown'["model"] <= 1 /\ cooldown'["search"] = 0
                 /\ disposed' => aborted' = {}
            ELSE pc'[s1] = "new"
Stream == system = "stream" /\ UNCHANGED <<vars, system>>

RequestSpec == /\ RequestInit
               /\ [][(Attempts /\ Next /\ Bound) \/ (Stream /\ ReadNext)]_requestVars
               /\ WF_vars(system # "stream" /\ Proceed)
               /\ WF_readVars(system = "stream" /\ Runtime)
====
