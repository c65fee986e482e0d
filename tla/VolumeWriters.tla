---------------------------- MODULE VolumeWriters ----------------------------
(* The two writers of the volume of a Context: pushes through helper pods,  *)
(* with pulls and queries (ContextSync), and the upload helpers of the      *)
(* service (MaterializeHelper). They use different directories of it, so a  *)
(* behaviour has one of them, chosen at the start.                          *)
EXTENDS ContextSync

CONSTANTS
  Helpers, Calm, MaxKills,  \* MaterializeHelper
  Client                    \* ContextUpload

VARIABLES
  step, bundle, attended, cleaning, files, where, revision, named, followed, verifying,
  kills,
  writer  \* "push" or "helper"

unpacking == <<step, bundle, attended, cleaning, files, where, revision, named, followed,
               verifying, kills>>

Helper == INSTANCE MaterializeHelper WITH Bundles <- Contents

\* No directory is None, and no helper is the client.
ASSUME WriterAssumption ==
  /\ None \notin Helper!Trees \cup Helpers /\ MaxKills \in Nat /\ Calm \in BOOLEAN
  /\ Client \notin Helpers \cup {None}

Parts ==
  /\ Init /\ Helper!Init /\ writer \in {"push", "helper"}
  /\ writer = "helper" => \A p, q \in Pushers : local[p] = local[q]  \* not used then

PartsNext ==
  /\ \/ writer = "push" /\ Next /\ UNCHANGED unpacking
     \/ writer = "helper" /\ Helper!Next /\ UNCHANGED vars
  /\ UNCHANGED writer

WriterSpec == Parts /\ [][PartsNext]_<<vars, unpacking, writer>>

-----------------------------------------------------------------------------
(* What the service knows of a helper and its volume: ContextUpload, where  *)
(* a helper works in one step. One that ends without the whole bundle under *)
(* its digest has done nothing the service asked for. One that is killed    *)
(* when the revision is there had worked: its pod is gone before it answers.*)
WholeName(c) == Helper!Files(c, Helper!Groups)
Whole(h) == revision[h] = WholeName(bundle[h])
Phase(h) ==
  CASE step[h] = "new" -> "running"
    [] step[h] \in {"exit", "done"} /\ Whole(h) -> "done"
    [] step[h] = "failed" \/ (step[h] \in {"exit", "done"} /\ ~Whole(h)) -> "rejected"
    [] OTHER -> "working"
HelperPods ==
  [h \in Helpers |->
     IF step[h] = "killed"
     THEN [phase |-> "none", kind |-> "upload", mount |-> 0, rev |-> None, cap |-> None]
     ELSE [phase |-> Phase(h), kind |-> "upload", mount |-> 1, rev |-> bundle[h], cap |-> h]]
Volume == [u \in {1} |-> {c \in Contents : named[WholeName(c)] # None}]
Wrote(h) == Whole(h) /\ \/ step[h] \in {"exit", "done"}
                        \/ step[h] = "killed" /\ where[h] \in {"none", "revision"}
Written == {<<h, 1>> : h \in {g \in Helpers : Wrote(g)}}

Service == INSTANCE ContextUpload WITH
  pod <- HelperPods, storage <- Volume, touched <- Written,
  pvc <- None, created <- 1, caps <- None, lock <- None, pc <- None, req <- None,
  redeemed <- None, lost <- {}, left <- {},
  Threads <- {}, Caps <- Helpers, Pods <- Helpers, Revisions <- Contents,
  MaxUid <- 1, MaxHistory <- 0, MaxTries <- 1, Ops <- {}, Faults <- {}

\* The request that created the pod sends it a bundle (PodReady).
Sent(h) ==
  /\ HelperPods[h].phase = "running"
  /\ \E c \in Contents : HelperPods' = [HelperPods EXCEPT ![h].phase = "working", ![h].rev = c]
  /\ UNCHANGED <<Volume, Written>>

(* All the file operations of a helper amount to one step of ContextUpload, *)
(* in which the revision appears on the volume and the pod succeeds, or to  *)
(* a rejection that leaves the volume alone, whatever other helpers do to   *)
(* the files meanwhile. A kill is one of a pod that has not worked, or that *)
(* has, and leaves its revision on the volume. A revision is there when its *)
(* name is: what the name holds is MaterializedExact.                       *)
HelpersWorkAtOnce ==
  [][\E h \in Helpers : \/ Sent(h) \/ Service!HelperWorks(h)
                        \/ Service!HelperRejects(h) \/ Service!PodKilled(h)
    ]_<<HelperPods, Volume, Written>>

-----------------------------------------------------------------------------
\* The types of both parts.
VolumeTypeOK == TypeOK /\ Helper!TypeOK

\* What a digest names on the volume is that content (see MaterializeHelper).
MaterializedExact == Helper!MaterializedExact
=============================================================================
