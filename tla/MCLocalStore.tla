---------------------------- MODULE MCLocalStore ----------------------------
(* LocalStore in several scenarios. A behaviour has one, chosen at the      *)
(* start: the contexts that exist, the commands given, how many of them,    *)
(* and what may fail. One run covers them all.                              *)
EXTENDS LocalStore, TLC

CONSTANTS a, b, k, p1, p2, v1, v2, n1, n2

OneState == {a}
TwoStates == {a, b}
OneKnowledge == {k}
OneProc == {p1}
TwoProcs == {p1, p2}
TwoVersions == {v1, v2}
OneName == {n1}
TwoNames == {n1, n2}
AllOps == LockedOps \cup UnlockedOps
Symmetry == Permutations(Procs) \cup Permutations(Versions)

VARIABLE scenario

\* Captures of both kinds and attachments in one context, killed at any point.
Captures ==
  [ops |-> {"capture", "session", "publish", "attach"}, existing |-> {a}, procs |-> 2,
   names |-> {n1}, commands |-> 3, crashes |-> 1, failures |-> 1]

\* Restores of snapshots taken between captures, and collection.
Restores ==
  [ops |-> {"capture", "snapshot", "restore", "collect"}, existing |-> {a}, procs |-> 2,
   names |-> {n1}, commands |-> 4, crashes |-> 1, failures |-> 0]

\* Snapshots that share an object, retention and collection, with errors.
Collections ==
  [ops |-> {"session", "snapshot", "restore", "retain", "collect"}, existing |-> {a}, procs |-> 1,
   names |-> {n1, n2}, commands |-> 5, crashes |-> 0, failures |-> 1]

\* Clones of snapshots, and collection in the cloned context.
Clones ==
  [ops |-> {"session", "snapshot", "clone", "collect"}, existing |-> {a}, procs |-> 2,
   names |-> {n1}, commands |-> 4, crashes |-> 1, failures |-> 1]

\* Knowledge generated, restored and generated again.
Derivations ==
  [ops |-> {"session", "snapshot", "restore", "derive"}, existing |-> {a}, procs |-> 1,
   names |-> {n1}, commands |-> 5, crashes |-> 0, failures |-> 1]

\* Knowledge generated again after it was killed at any point.
Regenerations ==
  [ops |-> {"session", "derive"}, existing |-> {a}, procs |-> 1, names |-> {n1},
   commands |-> 5, crashes |-> 1, failures |-> 0]

Scenarios == {Captures, Restores, Collections, Clones, Derivations, Regenerations}

Within(s) == Cardinality({p \in Procs : pc[p] # "idle"}) <= s.procs

Under(s) ==
  INSTANCE LocalStore WITH Ops <- s.ops, Existing <- s.existing, Names <- s.names,
                           MaxOps <- s.commands, MaxCrashes <- s.crashes,
                           MaxFailures <- s.failures

Begin == \E s \in Scenarios : scenario = s /\ Under(s)!Init

ScenarioSpec ==
  /\ Begin
  /\ [][/\ \E s \in Scenarios : s = scenario /\ Under(s)!Next /\ Within(s)'
        /\ UNCHANGED scenario]_<<vars, scenario>>
=============================================================================
