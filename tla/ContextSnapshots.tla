-------------------------- MODULE ContextSnapshots --------------------------
(* VolumeSnapshots of one Context, clones made of them and their garbage    *)
(* collection (internal/kube/context_lifecycle.go and its handlers in       *)
(* internal/api/handler.go). A request advances by one Kubernetes API call  *)
(* at a time; snapshots are found and deleted by name.                      *)
EXTENDS Integers, FiniteSets

CONSTANTS
  Threads,    \* concurrent HTTP requests
  Collectors, \* those that collect garbage; the others snapshot and clone
  Names,      \* snapshot names
  Clones,     \* names of Contexts cloned from the snapshots
  Revisions,  \* revision ids
  None,       \* no revision, no name
  Policies,   \* retention policies clients set
  MaxClock,   \* bound: seconds that pass
  MaxIds,     \* bound: snapshots ever created
  Ops         \* what clients and the CSI driver do in this instance

AllOps == {"snapshot", "clone", "collect", "retention", "publish", "cut"}

ASSUME SnapshotAssumption ==
  /\ Collectors \subseteq Threads
  /\ None \notin Revisions /\ None \notin Names /\ None \notin Clones
  /\ MaxClock \in Nat /\ MaxIds \in Nat
  /\ Policies \subseteq [keepLast : Nat, maxAge : Nat]
  /\ Ops \subseteq AllOps

VARIABLES
  source,    \* the Context: revision, what is materialized on its volume, retention
  snapshots, \* name -> VolumeSnapshot
  clones,    \* name -> PVC with a snapshot as its data source
  clock,     \* in seconds, the resolution of creationTimestamp
  ids,       \* VolumeSnapshots created so far
  pc, req,   \* the threads
  steady     \* history: per collection, the snapshots referenced since it began

vars == <<source, snapshots, clones, clock, ids, pc, req, steady>>
others == <<clock, ids, steady>>

-----------------------------------------------------------------------------
\* No rule is the policy with both limits 0; maxAge "" is 0.
NoPolicy == [keepLast |-> 0, maxAge |-> 0]
NoSnapshot == [id |-> 0, created |-> 0, revision |-> None, protected |-> FALSE,
               status |-> "creating", volume |-> {}]
NoClone == [exists |-> FALSE, snapshot |-> None, revision |-> None, bound |-> FALSE, volume |-> {}]
Blank == [op |-> "none", name |-> None, clone |-> None, protected |-> FALSE, revision |-> None,
          policy |-> NoPolicy, cutoff |-> 0, keep |-> {}, items |-> {}, doomed |-> {}]

OptRevision == Revisions \cup {None}
Snapshots == [id : 0..MaxIds, created : 0..MaxClock, revision : OptRevision, protected : BOOLEAN,
              status : {"creating", "ready", "failed"}, volume : SUBSET Revisions]
ClonePVCs == [exists : BOOLEAN, snapshot : Names \cup {None}, revision : OptRevision,
              bound : BOOLEAN, volume : SUBSET Revisions]
Items == [name : Names, created : 0..MaxClock, revision : OptRevision, protected : BOOLEAN]
PCs == {"idle", "snap_get", "snap_create", "clone_get", "clone_object", "clone_create",
        "gc_policy", "gc_list", "gc_check", "gc_delete"}
AnyPolicy == Policies \cup {NoPolicy}

TypeOK ==
  /\ source.revision \in OptRevision /\ source.volume \subseteq Revisions
  /\ source.retention \in AnyPolicy
  /\ snapshots \in [Names -> Snapshots]
  /\ clones \in [Clones -> ClonePVCs]
  /\ clock \in 0..MaxClock /\ ids \in 0..MaxIds
  /\ pc \in [Threads -> PCs]
  /\ \A t \in Threads :
       /\ req[t].op \in AllOps \cup {"none"} /\ req[t].revision \in OptRevision
       /\ req[t].policy \in AnyPolicy /\ req[t].cutoff \in Int
       /\ req[t].items \subseteq Items /\ req[t].doomed \subseteq Names
  /\ steady \in [Threads -> SUBSET Names]

\* A new Context; its retention may have been set first.
Init ==
  /\ source \in [revision : {None}, volume : {{}}, retention : AnyPolicy]
  /\ snapshots = [n \in Names |-> NoSnapshot]
  /\ clones = [c \in Clones |-> NoClone]
  /\ clock = 0 /\ ids = 0
  /\ pc = [t \in Threads |-> "idle"]
  /\ req = [t \in Threads |-> Blank]
  /\ steady = [t \in Threads |-> {}]

Goto(t, label) == pc' = [pc EXCEPT ![t] = label]
Answer(t) == Goto(t, "idle") /\ req' = [req EXCEPT ![t] = Blank]
Begin(t, label, request) ==
  /\ pc[t] = "idle" /\ request.op \in Ops
  /\ Goto(t, label) /\ req' = [req EXCEPT ![t] = request]

Existing == {n \in Names : snapshots[n].id # 0}

-----------------------------------------------------------------------------
(* The Context and the storage around it.                                   *)
Tick ==
  /\ clock < MaxClock
  /\ clock' = clock + 1
  /\ UNCHANGED <<source, snapshots, clones, ids, pc, req, steady>>

\* An upload puts a revision on the volume before it publishes it.
Materialize(r) ==
  /\ "publish" \in Ops /\ r \notin source.volume
  /\ source' = [source EXCEPT !.volume = @ \cup {r}]
  /\ UNCHANGED <<snapshots, clones, others, pc, req>>

Publish(r) ==
  /\ r \in source.volume /\ source.revision # r
  /\ source' = [source EXCEPT !.revision = r]
  /\ UNCHANGED <<snapshots, clones, others, pc, req>>

SetContextRetention(policy) ==
  /\ "retention" \in Ops /\ source.retention # policy
  /\ source' = [source EXCEPT !.retention = policy]
  /\ UNCHANGED <<snapshots, clones, others, pc, req>>

\* The CSI driver cuts the snapshot some time after the object was created.
SnapshotCut(n) ==
  /\ "cut" \in Ops /\ snapshots[n].id # 0 /\ snapshots[n].status = "creating"
  /\ \/ snapshots' = [snapshots EXCEPT ![n].status = "ready", ![n].volume = source.volume]
     \/ snapshots' = [snapshots EXCEPT ![n].status = "failed"]
  /\ UNCHANGED <<source, clones, others, pc, req>>

\* The provisioner restores the snapshot its data source names.
Provision(c) ==
  /\ clones[c].exists /\ ~clones[c].bound
  /\ snapshots[clones[c].snapshot].id # 0 /\ snapshots[clones[c].snapshot].status = "ready"
  /\ clones' = [clones EXCEPT ![c].bound = TRUE, ![c].volume = snapshots[clones[c].snapshot].volume]
  /\ UNCHANGED <<source, snapshots, others, pc, req>>

-----------------------------------------------------------------------------
(* CreateContextSnapshot.                                                   *)
SnapshotBegin(t, n, protected) ==
  /\ t \notin Collectors /\ ids < MaxIds
  /\ Begin(t, "snap_get", [Blank EXCEPT !.op = "snapshot", !.name = n, !.protected = protected])
  /\ UNCHANGED <<source, snapshots, clones, others>>

SnapshotGet(t) ==
  /\ pc[t] = "snap_get"
  /\ Goto(t, "snap_create")
  /\ req' = [req EXCEPT ![t].revision = source.revision]
  /\ UNCHANGED <<source, snapshots, clones, others>>

SnapshotCreate(t) ==
  /\ pc[t] = "snap_create"
  /\ IF snapshots[req[t].name].id = 0 /\ ids < MaxIds
     THEN /\ ids' = ids + 1
          /\ snapshots' = [snapshots EXCEPT ![req[t].name] =
               [NoSnapshot EXCEPT !.id = ids + 1, !.created = clock,
                  !.revision = req[t].revision, !.protected = req[t].protected]]
     ELSE UNCHANGED <<snapshots, ids>>
  /\ Answer(t)
  /\ UNCHANGED <<source, clones, clock, steady>>

-----------------------------------------------------------------------------
(* CloneContextSnapshot.                                                    *)
CloneBegin(t, n, c) ==
  /\ t \notin Collectors
  /\ Begin(t, "clone_get", [Blank EXCEPT !.op = "clone", !.name = n, !.clone = c])
  /\ UNCHANGED <<source, snapshots, clones, others>>

CloneGet(t) ==
  /\ pc[t] = "clone_get"
  /\ LET snapshot == snapshots[req[t].name]
         ready == snapshot.id # 0 /\ snapshot.status = "ready"
     IN  \/ ready /\ Goto(t, "clone_object") /\ req' = [req EXCEPT ![t].revision = snapshot.revision]
         \/ ~ready /\ Answer(t)
  /\ UNCHANGED <<source, snapshots, clones, others>>

\* The second Get is for the metadata of the volume only.
CloneObject(t) ==
  /\ pc[t] = "clone_object"
  /\ \/ snapshots[req[t].name].id # 0 /\ Goto(t, "clone_create") /\ UNCHANGED req
     \/ snapshots[req[t].name].id = 0 /\ Answer(t)
  /\ UNCHANGED <<source, snapshots, clones, others>>

\* Mutant: the clone is labelled with the revision current in the source.
CloneCurrent(t) ==
  /\ pc[t] = "clone_create"
  /\ clones' = IF clones[req[t].clone].exists THEN clones
               ELSE [clones EXCEPT ![req[t].clone] =
                       [NoClone EXCEPT !.exists = TRUE, !.snapshot = req[t].name,
                                       !.revision = source.revision]]
  /\ Answer(t)
  /\ UNCHANGED <<source, snapshots, others>>

CloneCreate(t) ==
  /\ pc[t] = "clone_create"
  /\ clones' = IF clones[req[t].clone].exists THEN clones
               ELSE [clones EXCEPT ![req[t].clone] =
                       [NoClone EXCEPT !.exists = TRUE, !.snapshot = req[t].name,
                                       !.revision = req[t].revision]]
  /\ Answer(t)
  /\ UNCHANGED <<source, snapshots, others>>

-----------------------------------------------------------------------------
(* GarbageCollectContextSnapshots.                                          *)
ReferencedBy(c, name, revision) ==
  /\ clones[c].exists
  /\ \/ clones[c].snapshot = name
     \/ revision # None /\ clones[c].revision = revision

Referenced(name, revision) == \E c \in Clones : ReferencedBy(c, name, revision)

\* The keepLast newest of the listed snapshots; the sort leaves the order of
\* snapshots of the same second open.
Newest(keep, items, keepLast) ==
  /\ Cardinality(keep) = IF keepLast < Cardinality(items) THEN keepLast ELSE Cardinality(items)
  /\ \A i \in keep, j \in items \ keep : i.created >= j.created

\* Mutant: the listing leaves the revision out.
ItemWithoutRevision(n) ==
  [name |-> n, created |-> snapshots[n].created, protected |-> snapshots[n].protected]

ItemOf(n) == [name |-> n, created |-> snapshots[n].created, revision |-> snapshots[n].revision,
              protected |-> snapshots[n].protected]

CollectBegin(t) ==
  /\ t \in Collectors
  /\ Begin(t, "gc_policy", [Blank EXCEPT !.op = "collect"])
  /\ steady' = [steady EXCEPT ![t] = {n \in Existing : Referenced(n, snapshots[n].revision)}]
  /\ UNCHANGED <<source, snapshots, clones, clock, ids>>

CollectPolicy(t) ==
  /\ pc[t] = "gc_policy"
  /\ Goto(t, "gc_list")
  /\ req' = [req EXCEPT ![t].policy = source.retention]
  /\ UNCHANGED <<source, snapshots, clones, others>>

\* Without a rule nothing is collected.
CollectList(t) ==
  /\ pc[t] = "gc_list"
  /\ LET items == {ItemOf(n) : n \in Existing}
         policy == req[t].policy
     IN  \/ policy = NoPolicy /\ Answer(t)
         \/ /\ policy # NoPolicy
            /\ Goto(t, "gc_check")
            /\ \E keep \in SUBSET items :
                 /\ Newest(keep, items, policy.keepLast)
                 /\ req' = [req EXCEPT ![t].items = items, ![t].keep = keep,
                                       ![t].cutoff = clock - policy.maxAge]
  /\ UNCHANGED <<source, snapshots, clones, others>>

Young(t, item) == req[t].policy.maxAge # 0 /\ item.created >= req[t].cutoff

\* Mutant: references by revision are not looked at.
KeepByName(t, item) ==
  \/ item.protected \/ item \in req[t].keep \/ Young(t, item)
  \/ \E c \in Clones : clones[c].exists /\ clones[c].snapshot = item.name

\* Mutant: protection is not looked at.
KeepUnprotected(t, item) ==
  item \in req[t].keep \/ Young(t, item) \/ Referenced(item.name, item.revision)

\* Mutant: the newest snapshots are not kept.
KeepYoung(t, item) ==
  item.protected \/ Young(t, item) \/ Referenced(item.name, item.revision)

Keep(t, item) ==
  \/ item.protected \/ item \in req[t].keep \/ Young(t, item)
  \/ Referenced(item.name, item.revision)

\* One List of the PVCs for every listed snapshot, the oldest first.
CollectCheck(t) ==
  /\ pc[t] = "gc_check"
  /\ \/ \E item \in req[t].items :
          /\ \A i \in req[t].items : item.created <= i.created
          /\ req' = [req EXCEPT ![t].items = @ \ {item},
                                ![t].doomed = IF Keep(t, item) THEN @ ELSE @ \cup {item.name}]
          /\ UNCHANGED pc
     \/ /\ req[t].items = {}
        /\ Goto(t, "gc_delete") /\ req' = [req EXCEPT ![t].keep = {}, ![t].cutoff = 0]
  /\ UNCHANGED <<source, snapshots, clones, others>>

\* By name, whatever stands there now. A dry run deletes nothing, an error
\* ends the collection early.
CollectDelete(t) ==
  /\ pc[t] = "gc_delete"
  /\ \/ \E n \in req[t].doomed :
          /\ snapshots' = [snapshots EXCEPT ![n] = NoSnapshot]
          /\ req' = [req EXCEPT ![t].doomed = @ \ {n}]
          /\ steady' = [s \in Threads |-> steady[s] \ {n}]
          /\ UNCHANGED pc
     \/ Answer(t) /\ UNCHANGED <<snapshots, steady>>
  /\ UNCHANGED <<source, clones, clock, ids>>

-----------------------------------------------------------------------------
ThreadStep(t) ==
  \/ SnapshotGet(t) \/ SnapshotCreate(t)
  \/ CloneGet(t) \/ CloneObject(t) \/ CloneCreate(t)
  \/ CollectPolicy(t) \/ CollectList(t) \/ CollectCheck(t) \/ CollectDelete(t)

Request(t) ==
  \/ \E n \in Names, protected \in BOOLEAN : SnapshotBegin(t, n, protected)
  \/ \E n \in Names, c \in Clones : CloneBegin(t, n, c)
  \/ CollectBegin(t)

Next ==
  \/ Tick
  \/ \E r \in Revisions : Materialize(r) \/ Publish(r)
  \/ \E policy \in Policies : SetContextRetention(policy)
  \/ \E n \in Names : SnapshotCut(n)
  \/ \E c \in Clones : Provision(c)
  \/ \E t \in Threads : Request(t) \/ ThreadStep(t)

Spec == Init /\ [][Next]_vars

-----------------------------------------------------------------------------
(* Properties.                                                              *)
Deleted(n) == snapshots[n].id # 0 /\ snapshots'[n].id = 0

(* A clone is labelled with a revision that is on its volume, although the  *)
(* snapshot is labelled before it is cut and the name may be reused.        *)
CloneHoldsRevision ==
  \A c \in Clones : clones[c].bound /\ clones[c].revision # None => clones[c].revision \in clones[c].volume

(* docs/context-lifecycle.md: protected snapshots are always kept.          *)
ProtectedStay == [][\A n \in Names : Deleted(n) => ~snapshots[n].protected]_vars

(* A snapshot that clones referenced when a collection began is not deleted *)
(* by it.                                                                   *)
SteadyReferencesStay ==
  [][\A n \in Names, t \in Collectors : pc[t] = "gc_delete" /\ Deleted(n) => n \notin steady[t]]_vars

(* A collection by keepLast leaves that many snapshots as new as each one   *)
(* it deletes, while others create snapshots and change the policy.         *)
NewestStay ==
  [][\A n \in Names, t \in Collectors :
       pc[t] = "gc_delete" /\ Deleted(n) =>
         Cardinality({m \in Existing \ {n} : snapshots[m].created >= snapshots[n].created})
           >= req[t].policy.keepLast]_vars
=============================================================================
