--------------------------- MODULE MCContextAccess ---------------------------
(* Instances of ContextAccess for TLC.                                       *)
EXTENDS ContextAccess, TLC

CONSTANTS t1, t2, owner, admin, n1, p1

TwoThreads == {t1, t2}
OnlyOwner == {owner}
OwnerAndAdmin == {owner, admin}
OneName == {n1}
OnePod == {p1}
NoPods == {}
OneGrant == {{"read", "attach", "administer"}}
ThreadSymmetry == Permutations(TwoThreads)

\* TLC checks two kinds of behaviours apart: the owner and the administrator
\* change grants and consumers, or the owner changes consumers of a Context that
\* pods mount and that is deleted and created again.
Pending == {req[t].change : t \in {s \in Threads : req[s].op = "change"}} \cup {log[i] : i \in 1..Len(log)}

Changing ==
  /\ created <= 1 /\ mounts = {} /\ ~pvc.terminating
  /\ \A t \in Threads : req[t].op \notin {"delete", "force"}

Deleting ==
  /\ \A t \in Threads : req[t].actor # admin
  /\ \A change \in Pending :
       /\ admin \notin {change.actor, change.target}
       /\ change.action \in {"consumer.attached", "consumer.detached"}

Apart == Changing \/ Deleting
=============================================================================
