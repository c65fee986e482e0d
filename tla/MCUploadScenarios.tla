------------------------- MODULE MCUploadScenarios -------------------------
(* ContextUpload in several scenarios. A behaviour has one, chosen at the   *)
(* start: what clients do, what fails, and how much there is of everything. *)
(* One run covers them all.                                                 *)
EXTENDS MCContextUpload, FiniteSets

VARIABLE scenario

\* Uploads, publications and freezes of two revisions, the process restarting.
Freezing ==
  [ops |-> {"issue", "upload", "freeze", "publish"}, faults |-> {"conflict", "reply", "restart"},
   caps |-> OneCap, pods |-> 1, revisions |-> 2, storages |-> 1, history |-> 2]

\* Cut streams, and helper pods that cannot be deleted.
Failing ==
  [ops |-> {"issue", "upload", "publish"}, faults |-> {"stream", "cleanup"},
   caps |-> OneCap, pods |-> 2, revisions |-> 1, storages |-> 1, history |-> 2]

\* The Context is deleted and created again under its name.
Recreating ==
  [ops |-> {"issue", "upload", "freeze", "publish", "export"}, faults |-> {},
   caps |-> OneCap, pods |-> 2, revisions |-> 1, storages |-> 2, history |-> 1]

\* Two capabilities for one storage.
Contending ==
  [ops |-> {"issue", "upload", "freeze", "publish"}, faults |-> {"conflict"},
   caps |-> TwoCaps, pods |-> 2, revisions |-> 1, storages |-> 1, history |-> 1]

Scenarios == {Freezing, Failing, Recreating, Contending}

InPlay == {req[t].rev : t \in Threads} \cup {pvc.history[i].id : i \in 1..Len(pvc.history)}
            \cup UNION {storage[u] : u \in UIDs}

Within(s) ==
  /\ created <= s.storages
  /\ \A c \in Caps \ s.caps : caps[c].state = "unused"
  /\ Cardinality({p \in Pods : pod[p].phase # "none"}) <= s.pods
  /\ Cardinality(InPlay \ {None}) <= s.revisions

Under(s) == INSTANCE ContextUpload WITH Ops <- s.ops, Faults <- s.faults, MaxHistory <- s.history

ScenarioSpec ==
  /\ Init /\ scenario \in Scenarios
  /\ [][/\ \E s \in Scenarios : s = scenario /\ Under(s)!Next /\ Within(s)'
        /\ UNCHANGED scenario]_<<vars, scenario>>
=============================================================================
