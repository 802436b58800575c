---------------------------- MODULE OtherPlugins ----------------------------
(***************************************************************************)
(* The plugins that requests are passed on to, as the shell hands them out *)
(* by callsign: a plugin that is active gives a counted reference, and the *)
(* caller has to give it back on every way out.                            *)
(***************************************************************************)
EXTENDS Requests, FiniteSets

CONSTANT Plugins   \* callsigns of the other plugins

\* Two that are always there, and counted the same way.
Shell == "Shell"
Controller == "Controller"

ASSUME OtherPluginsAssumption == Shell \notin Plugins /\ Controller \notin Plugins

VARIABLES
  active,   \* the plugins that are activated
  refs      \* how many references each of them has given

otherVars == <<active, refs>>

\* Bound: at most one of the plugins is not there at first.
OthersInit ==
  /\ active \in {S \in SUBSET Plugins : Cardinality(Plugins \ S) <= 1}
  /\ refs = [p \in Plugins \cup {Shell, Controller} |-> 0]

\* The references of the caller grow, or shrink, by these.
Acquire(objects) == refs' = [p \in DOMAIN refs |-> IF p \in objects THEN refs[p] + 1 ELSE refs[p]]

\* Mutant: the reference is given back at an early return and once more behind it.
ReleaseTwice(objects) ==
  refs' = [p \in DOMAIN refs |-> IF p \in objects THEN refs[p] - 2 ELSE refs[p]]

Release(objects) == refs' = [p \in DOMAIN refs |-> IF p \in objects THEN refs[p] - 1 ELSE refs[p]]

\* The controller activates or deactivates a plugin between any two steps.
SwitchPlugin ==
  /\ left["others"] > 0 /\ left' = [left EXCEPT !["others"] = @ - 1]
  /\ \E p \in Plugins : active' = IF p \in active THEN active \ {p} ELSE active \cup {p}
  /\ UNCHANGED <<pc, local, spoiled, refs>>

OthersTypeOK == active \subseteq Plugins /\ \A p \in DOMAIN refs : refs[p] \in Nat

\* When no call is under way every reference has been given back, whichever
\* early return or failure the calls before took.
ReferencesBalanced == AllIdle => \A p \in DOMAIN refs : refs[p] = 0
=============================================================================
