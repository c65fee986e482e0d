-------------------------- MODULE MCContextUpload --------------------------
(* Instances of ContextUpload for TLC.                                      *)
EXTENDS ContextUpload, TLC

CONSTANTS t1, t2, c1, c2, p1, p2, r1, r2

OneThread == {t1}
TwoThreads == {t1, t2}
OneCap == {c1}
TwoCaps == {c1, c2}
OnePod == {p1}
TwoPods == {p1, p2}
OneRevision == {r1}
TwoRevisions == {r1, r2}

FullSymmetry ==
  Permutations(TwoThreads) \cup Permutations(TwoPods) \cup Permutations(TwoRevisions)
=============================================================================
