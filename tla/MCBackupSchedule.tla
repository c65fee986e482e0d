-------------------------- MODULE MCBackupSchedule --------------------------
(* AgentMachine on a small instance. A part that a behaviour does not have  *)
(* starts in one state.                                                     *)
EXTENDS AgentMachine, TLC

CONSTANTS d1, d2, s1, s2, r1, r2, v1, v2, f1, f2, q1

TwoContexts == {d1, d2}
TwoSessions == {s1, s2}
TwoProcesses == {r1, r2}
TwoContents == {v1, v2}
TwoFiles == {f1, f2}
OneReader == {q1}
Symmetry ==
  UNION {Permutations(S) : S \in {TwoContexts, TwoSessions, TwoProcesses, TwoContents, TwoFiles}}

\* One context has captured both sessions, the other one of them, maybe as a
\* clone; one at most is in the harness. The writes of Codex and Pi are the same
\* code: without hard links, Pi's.
Captured ==
  /\ \E c \in Contexts :
       /\ Native!CapturedIn(c) = Sessions
       /\ \A d \in Contexts \ {c} : Cardinality(Native!CapturedIn(d)) = 1
  /\ \E s \in Sessions : Native!CopiesOf(s) = {}
  /\ harness = "codex" => links

NothingCaptured ==
  /\ \A c \in Contexts : Native!CapturedIn(c) = {}
  /\ \A s \in Sessions : Native!CopiesOf(s) = {}
  /\ harness = "claude"

NoFiles == \A f \in Files : input[f] = None

Start ==
  /\ Parts
  /\ \/ part = "schedule" /\ NothingCaptured /\ NoFiles
     \/ part = "restore" /\ Captured /\ NoFiles /\ failures = 0
     \/ part = "publish" /\ NothingCaptured /\ failures = 0

\* The worker never ends; restores and publications do.
Ended ==
  /\ \/ part = "restore" /\ \A p \in Restorers : at[p] = "idle"
     \/ part = "publish" /\ \A p \in Publishers : pc[p] = "idle"
  /\ UNCHANGED machineVars

PartsSpec == Start /\ [][PartsNext \/ Ended]_machineVars
=============================================================================
