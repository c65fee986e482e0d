-------------------------- MODULE MCBackupWorker --------------------------
(* Instances of BackupWorker for TLC.                                       *)
EXTENDS BackupWorker

CONSTANTS k1, w1, w2, w3, a, b

OneCommand == {k1}
TwoWorkers == {w1, w2}
ThreeWorkers == {w1, w2, w3}
OneTarget == {a}
TwoTargets == {a, b}
=============================================================================
