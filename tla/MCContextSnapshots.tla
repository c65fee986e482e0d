------------------------- MODULE MCContextSnapshots -------------------------
(* Instances of ContextSnapshots for TLC.                                   *)
EXTENDS ContextSnapshots, TLC

CONSTANTS t1, t2, s1, s2, s3, c1, r1, r2

OneCollector == {t1}
TwoThreads == {t1, t2}
ThreeNames == {s1, s2, s3}
OneClone == {c1}
TwoRevisions == {r1, r2}
KeepOne == [keepLast |-> 1, maxAge |-> 0]
KeepSecond == [keepLast |-> 0, maxAge |-> 1]
BothRules == {KeepOne, KeepSecond}
RevisionAndNameSymmetry == Permutations(ThreeNames) \cup Permutations(TwoRevisions)

\* TLC checks two kinds of behaviours apart: clones while revisions are
\* uploaded, within one second, and the retention of snapshots by number and age.
Cloning ==
  /\ clock = 0 /\ ids <= 2 /\ source.retention = KeepOne
  /\ \A t \in Threads : ~req[t].protected /\ req[t].policy \in {KeepOne, NoPolicy}
  /\ \A n \in Names : ~snapshots[n].protected
  /\ Cardinality(Existing \cup ({req[t].name : t \in Threads} \ {None})) <= 2

Retaining ==
  /\ source.volume = {} /\ \A c \in Clones : ~clones[c].exists
  /\ \A t \in Threads : req[t].op # "clone"
  /\ \A n \in Names : snapshots[n].status = "creating"

Apart == Cloning \/ Retaining
=============================================================================
