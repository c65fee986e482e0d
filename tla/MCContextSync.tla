---------------------------- MODULE MCContextSync ----------------------------
(* VolumeWriters on a small instance.                                       *)
EXTENDS VolumeWriters, TLC

CONSTANTS p1, p2, q1, c1, c2, h1, h2, h3

TwoPushers == {p1, p2}
OneReader == {q1}
TwoContents == {c1, c2}
ThreeHelpers == {h1, h2, h3}
Symmetry == Permutations(Pushers) \cup Permutations(Contents) \cup Permutations(Helpers)
=============================================================================
