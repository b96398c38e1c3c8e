---- MODULE SearchRoute ----
(***************************************************************************)
(* The search route of src/src/search-route-override.ts.  The Host's web   *)
(* runtime names one search provider; while our provider is active it is   *)
(* put in its place, and what the Host selects meanwhile must win, then    *)
(* and afterwards.                                                         *)
(*                                                                         *)
(* Two runtimes are supported.  The legacy one has a field that anybody    *)
(* writes; the other reads a reference in its configuration object, which  *)
(* the Host alone changes, and over which we lay a facade.                 *)
(***************************************************************************)
EXTENDS Naturals

CONSTANTS Route, Ours   \* what others select (no provider included), our id

ASSUME RouteAssumption == Ours \notin Route

VARIABLES legacy,  \* the runtime has the field searchProviderId
          chosen,  \* the others' last choice: the Host's reference, or history
          field,   \* searchProviderId; elsewhere, and where unused, Ours
          before,  \* what the activation found selected; Ours while there is none
          config,  \* web.config: the Host's object, our facade or another's
          active,  \* our provider was put in place and not given back yet
          mine,    \* selectedByPlugin, of the activation
          newer    \* history: others chose since the activation

routeVars == <<legacy, chosen, field, before, config, active, mine, newer>>

RouteTypeOK == /\ {legacy, active, mine, newer} \subseteq BOOLEAN
               /\ {chosen, field, before} \subseteq Route \cup {Ours}
               /\ config \in {"host", "facade", "foreign"}

Legacy(r) == IF legacy THEN r ELSE Ours

RouteInit == /\ legacy \in BOOLEAN
             /\ chosen \in Route \cup {Ours} /\ field = Legacy(chosen) /\ before = Ours
             /\ config = "host" /\ active = FALSE /\ mine = FALSE /\ newer = FALSE

\* What a search uses.
Selected == IF legacy THEN field
            ELSE IF config = "facade" /\ mine THEN Ours ELSE chosen

\* selectOpenAICodexSearchRoute throws where the runtime's configuration object
\* is not its owner's.
Selectable == legacy \/ config = "host"

Select ==
  /\ active' = TRUE /\ newer' = FALSE
  /\ IF legacy
     THEN before' = field /\ field' = Ours /\ UNCHANGED <<config, mine>>
     ELSE before' = chosen /\ config' = "facade" /\ mine' = TRUE /\ UNCHANGED field
  /\ UNCHANGED <<legacy, chosen>>

\* The operation that selecting returns.
GiveBack ==
  /\ field' = IF legacy /\ field = Ours THEN before ELSE field
  /\ config' = IF config = "facade" THEN "host" ELSE config
  /\ active' = FALSE /\ before' = Ours /\ mine' = FALSE /\ newer' = FALSE
  /\ UNCHANGED <<legacy, chosen>>

\* Mutant: the facade compares with the choice that it was laid over.
NoticedByValue(r) == mine' = (r = before)

\* The listener of loader/volatile-update, which every choice reaches.
Noticed(r) == mine' = FALSE

\* Another party selects r: it writes the field, or commits the reference.
Choose(r) ==
  /\ config # "foreign"
  /\ chosen' = r /\ newer' = active
  /\ IF legacy THEN field' = r /\ UNCHANGED mine
     ELSE UNCHANGED field /\ IF config = "facade" THEN Noticed(r) ELSE UNCHANGED mine
  /\ UNCHANGED <<legacy, before, config, active>>

\* Another party puts a configuration object of its own, that names r.
ReplaceConfig(r) ==
  /\ ~legacy /\ config # "foreign"
  /\ config' = "foreign" /\ chosen' = r /\ newer' = active
  /\ UNCHANGED <<legacy, field, before, active, mine>>

\* The web service comes back as a new runtime, as it is then configured.
NewRuntime(r) ==
  /\ chosen' = r /\ field' = Legacy(r) /\ config' = "host"
  /\ UNCHANGED <<legacy, before, active, mine, newer>>

\* The legacy field cannot tell our own choice from another's of our provider.
Indistinguishable == legacy /\ chosen = Ours
====
