----------------------- MODULE ContextSnapshotsProofs -----------------------
(* The inductive invariant of ContextSnapshots and what follows from it,    *)
(* for every number of requests, snapshots, clones, revisions and policies. *)
(* Labels of clones and references need no assumption; what a collection    *)
(* keeps by protection and by number needs collections that do not overlap  *)
(* (OneCollector), for they delete by name what they have listed.           *)
EXTENDS ContextSnapshots, FiniteSetTheorems, TLAPS

-----------------------------------------------------------------------------
(* The strengthening.                                                       *)

OneCollector == \A t, u \in Collectors : t = u

Cloning == {"clone_get", "clone_object", "clone_create"}
Collecting == {"gc_policy", "gc_list", "gc_check", "gc_delete"}
Requests == [op : AllOps \cup {"none"}, name : Names \cup {None}, clone : Clones \cup {None},
             protected : BOOLEAN, revision : OptRevision, policy : AnyPolicy, cutoff : Int,
             keep : SUBSET Items, items : SUBSET Items, doomed : SUBSET Names]

\* What a request knows at each step of its handler.
RequestAt(t, label, r) ==
  /\ label \in {"snap_get", "snap_create"} \cup Cloning => r.name \in Names
  /\ label \in Cloning => r.clone \in Clones
  /\ label \in Collecting => t \in Collectors
  /\ r.items # {} \/ r.keep # {} => label = "gc_check"
  /\ r.doomed # {} => label \in {"gc_check", "gc_delete"}

RequestsOK ==
  /\ pc \in [Threads -> PCs] /\ req \in [Threads -> Requests]
  /\ \A t \in Threads : RequestAt(t, pc[t], req[t])

TablesOK ==
  /\ source \in [revision : OptRevision, volume : SUBSET Revisions, retention : AnyPolicy]
  /\ snapshots \in [Names -> Snapshots] /\ clones \in [Clones -> ClonePVCs]
  /\ clock \in 0..MaxClock /\ ids \in 0..MaxIds
  /\ \A c \in Clones : clones[c].exists => clones[c].snapshot \in Names
  /\ IsFiniteSet(Existing)

\* A label is on the volume, and in the snapshot when that has been cut. The
\* volume only gains revisions, so a snapshot that takes the name of another
\* holds what the other held.
Label(revision) == revision # None => revision \in source.volume
LabelIn(revision, name) ==
  /\ Label(revision)
  /\ snapshots[name].status = "ready" /\ revision # None => revision \in snapshots[name].volume

LabelsOK ==
  /\ Label(source.revision)
  /\ \A n \in Names : LabelIn(snapshots[n].revision, n)
  /\ \A t \in Threads :
       /\ pc[t] = "snap_create" => Label(req[t].revision)
       /\ pc[t] \in {"clone_object", "clone_create"} => LabelIn(req[t].revision, req[t].name)
  /\ \A c \in Clones : clones[c].exists /\ ~clones[c].bound => LabelIn(clones[c].revision, clones[c].snapshot)

\* What was referenced when a collection began still is, and that collection
\* has not doomed it.
SteadyOK ==
  /\ steady \in [Threads -> SUBSET Names]
  /\ \A t \in Threads :
       /\ \A n \in steady[t] : n \in Existing /\ Referenced(n, snapshots[n].revision)
       /\ \A i \in req[t].items : i.name \in steady[t] => i.revision = snapshots[i.name].revision
       /\ req[t].doomed \cap steady[t] = {}

\* While no other collection runs, the list of a collection tells the truth.
ListedOK ==
  \A t \in Threads :
    /\ \A i \in req[t].items \cup req[t].keep : i.name \in Existing /\ i = ItemOf(i.name)
    /\ \A n \in req[t].doomed : n \in Existing /\ ~snapshots[n].protected

\* The snapshots that a collection keeps for their number are as new as those
\* it has doomed or has still to look at.
Survivors(t, n) == {m \in Existing \ req[t].doomed : snapshots[m].created >= snapshots[n].created}
Enough(t, created) ==
  /\ Cardinality(req[t].keep) >= req[t].policy.keepLast
  /\ \A i \in req[t].keep : i.created >= created
NewestOK ==
  \A t \in Threads :
    /\ IsFiniteSet(req[t].keep)
    /\ \A i \in req[t].keep : i.name \notin req[t].doomed
    /\ \A i \in req[t].items \ req[t].keep : Enough(t, i.created)
    /\ \A n \in req[t].doomed :
         IF pc[t] = "gc_check" THEN Enough(t, snapshots[n].created)
         ELSE Cardinality(Survivors(t, n)) >= req[t].policy.keepLast

IInv ==
  /\ TablesOK /\ RequestsOK /\ LabelsOK /\ CloneHoldsRevision /\ SteadyOK
  /\ OneCollector => ListedOK /\ NewestOK

-----------------------------------------------------------------------------
(* Requests and tables by themselves.                                       *)

\* The values that the steps below take.
LEMMA ValueFacts ==
  /\ Blank \in Requests /\ Blank.items = {} /\ Blank.keep = {} /\ Blank.doomed = {}
  /\ Blank.policy = NoPolicy /\ Blank.revision = None
  /\ NoSnapshot \in Snapshots /\ NoSnapshot.id = 0 /\ NoSnapshot.revision = None
  /\ NoSnapshot.status = "creating" /\ NoSnapshot.volume = {}
  /\ NoClone \in ClonePVCs /\ ~NoClone.exists /\ ~NoClone.bound /\ NoClone.revision = None
  /\ \A policy \in AnyPolicy : policy.keepLast \in Nat /\ policy.maxAge \in Nat
  <1>1. NoSnapshot \in Snapshots /\ NoClone \in ClonePVCs
    BY SnapshotAssumption DEF NoSnapshot, NoClone, Snapshots, ClonePVCs, OptRevision
  <1>2. Blank \in Requests
    BY DEF Blank, Requests, OptRevision, AnyPolicy
  <1>3. \A policy \in AnyPolicy : policy.keepLast \in Nat /\ policy.maxAge \in Nat
    BY SnapshotAssumption DEF AnyPolicy, NoPolicy
  <1> QED BY <1>1, <1>2, <1>3 DEF Blank, NoSnapshot, NoClone

\* A step of one request to a place that what it knows fits.
LEMMA RequestFrame ==
  ASSUME RequestsOK, NEW t \in Threads, NEW label \in PCs, NEW r \in Requests, RequestAt(t, label, r),
         pc' = [pc EXCEPT ![t] = label], req' = [req EXCEPT ![t] = r]
  PROVE  RequestsOK'
  <1>1. pc' \in [Threads -> PCs] /\ req' \in [Threads -> Requests]
    BY DEF RequestsOK
  <1>2. ASSUME NEW u \in Threads PROVE RequestAt(u, pc'[u], req'[u])
    BY DEF RequestsOK
  <1> QED BY <1>1, <1>2 DEF RequestsOK

\* A request that only moves on.
LEMMA GotoOK ==
  ASSUME RequestsOK, NEW t \in Threads, NEW label \in PCs, RequestAt(t, label, req[t]),
         Goto(t, label), UNCHANGED req
  PROVE  RequestsOK'
  <1>1. req' = [req EXCEPT ![t] = req[t]] /\ req[t] \in Requests
    BY DEF RequestsOK
  <1> QED BY <1>1, RequestFrame DEF Goto

\* A request that is answered.
LEMMA AnswerOK ==
  ASSUME RequestsOK, NEW t \in Threads, Answer(t)
  PROVE  RequestsOK'
  <1>1. "idle" \in PCs /\ RequestAt(t, "idle", Blank)
    BY ValueFacts DEF PCs, RequestAt, Cloning, Collecting
  <1> QED BY <1>1, ValueFacts, RequestFrame DEF Answer, Goto

\* The revision that a request has read.
LEMMA ReadOK ==
  ASSUME RequestsOK, NEW t \in Threads, NEW label \in PCs, NEW revision \in OptRevision,
         RequestAt(t, label, req[t]), Goto(t, label), req' = [req EXCEPT ![t].revision = revision]
  PROVE  RequestsOK'
  <1> DEFINE r == [req[t] EXCEPT !.revision = revision]
  <1>1. r \in Requests /\ RequestAt(t, label, r)
    BY DEF RequestsOK, Requests, RequestAt
  <1>2. req' = [req EXCEPT ![t] = r]
    BY DEF RequestsOK
  <1> HIDE DEF r
  <1> QED BY <1>1, <1>2, RequestFrame DEF Goto

\* Every step keeps the requests well formed.
LEMMA RequestsStep ==
  ASSUME TablesOK, RequestsOK, [Next]_vars
  PROVE  RequestsOK'
  <1> USE DEF PCs, Cloning, Collecting
  <1>1. CASE UNCHANGED <<pc, req>>
    BY <1>1 DEF RequestsOK
  <1>2. ASSUME NEW t \in Threads, NEW n \in Names, NEW protected \in BOOLEAN, SnapshotBegin(t, n, protected)
        PROVE  RequestsOK'
    <2> DEFINE r == [Blank EXCEPT !.op = "snapshot", !.name = n, !.protected = protected]
    <2>1. r \in Requests /\ RequestAt(t, "snap_get", r)
      BY ValueFacts DEF Blank, Requests, RequestAt, AllOps
    <2> HIDE DEF r
    <2> QED BY <1>2, <2>1, RequestFrame DEF SnapshotBegin, Begin, Goto, r
  <1>3. ASSUME NEW t \in Threads, NEW n \in Names, NEW c \in Clones, CloneBegin(t, n, c)
        PROVE  RequestsOK'
    <2> DEFINE r == [Blank EXCEPT !.op = "clone", !.name = n, !.clone = c]
    <2>1. r \in Requests /\ RequestAt(t, "clone_get", r)
      BY ValueFacts DEF Blank, Requests, RequestAt, AllOps
    <2> HIDE DEF r
    <2> QED BY <1>3, <2>1, RequestFrame DEF CloneBegin, Begin, Goto, r
  <1>4. ASSUME NEW t \in Threads, CollectBegin(t) PROVE RequestsOK'
    <2> DEFINE r == [Blank EXCEPT !.op = "collect"]
    <2>1. r \in Requests /\ RequestAt(t, "gc_policy", r)
      BY <1>4, ValueFacts DEF Blank, Requests, RequestAt, AllOps, CollectBegin
    <2> HIDE DEF r
    <2> QED BY <1>4, <2>1, RequestFrame DEF CollectBegin, Begin, Goto, r
  <1>5. ASSUME NEW t \in Threads, ThreadStep(t) PROVE RequestsOK'
    <2> DEFINE r == req[t]
    <2>1. RequestAt(t, pc[t], r) /\ r \in Requests /\ req \in [Threads -> Requests]
      BY DEF RequestsOK
    <2>2. CASE Answer(t)
      BY <2>2, AnswerOK
    <2>3. CASE SnapshotGet(t)
      BY <2>1, <2>3, ReadOK DEF SnapshotGet, RequestAt, TablesOK
    <2>4. CASE CloneGet(t) /\ ~Answer(t)
      <3>1. snapshots[r.name].revision \in OptRevision
        BY <2>1, <2>4 DEF CloneGet, RequestAt, TablesOK, Snapshots
      <3> QED BY <2>1, <2>4, <3>1, ReadOK DEF CloneGet, RequestAt
    <2>5. CASE CloneObject(t) /\ ~Answer(t)
      BY <2>1, <2>5, GotoOK DEF CloneObject, RequestAt
    <2>6. CASE CollectPolicy(t)
      <3> DEFINE v == [r EXCEPT !.policy = source.retention]
      <3>1. v \in Requests /\ RequestAt(t, "gc_list", v)
        BY <2>1, <2>6 DEF Requests, RequestAt, TablesOK, CollectPolicy
      <3> HIDE DEF v
      <3> QED BY <2>6, <3>1, RequestFrame DEF CollectPolicy, Goto, v
    <2>7. CASE CollectList(t) /\ ~Answer(t)
      <3>1. PICK keep \in SUBSET {ItemOf(n) : n \in Existing} :
              /\ Goto(t, "gc_check")
              /\ req' = [req EXCEPT ![t].items = {ItemOf(n) : n \in Existing}, ![t].keep = keep,
                                    ![t].cutoff = clock - r.policy.maxAge]
        BY <2>7 DEF CollectList
      <3> DEFINE items == {ItemOf(n) : n \in Existing}
                 cutoff == clock - r.policy.maxAge
                 one == [r EXCEPT !.items = items]
                 two == [one EXCEPT !.keep = keep]
                 v == [two EXCEPT !.cutoff = cutoff]
      <3>2. items \in SUBSET Items
        BY DEF Items, ItemOf, Existing, TablesOK, Snapshots
      <3>3. cutoff \in Int
        BY <2>1, ValueFacts, SnapshotAssumption DEF TablesOK, Requests
      <3>4. req' = [req EXCEPT ![t] = v]
        BY <2>1, <3>1
      <3>5. t \in Collectors /\ keep \in SUBSET Items
        BY <2>1, <2>7, <3>1, <3>2 DEF CollectList, RequestAt
      <3> HIDE DEF items, cutoff
      <3>6. one \in Requests
        BY <2>1, <3>2 DEF Requests
      <3> HIDE DEF one
      <3>7. two \in Requests
        BY <3>5, <3>6 DEF Requests
      <3> HIDE DEF two
      <3>8. v \in Requests
        BY <3>3, <3>7 DEF Requests
      <3> HIDE DEF v
      <3>9. RequestAt(t, "gc_check", v)
        BY <3>5 DEF RequestAt
      <3> QED BY <3>1, <3>4, <3>8, <3>9, RequestFrame DEF Goto
    <2>8. CASE CollectCheck(t)
      <3>1. t \in Collectors /\ pc[t] = "gc_check" /\ pc \in [Threads -> PCs]
        BY <2>1, <2>8 DEF CollectCheck, RequestAt, RequestsOK
      <3>2. ASSUME NEW item \in r.items, NEW doomed \in {r.doomed, r.doomed \cup {item.name}}, UNCHANGED pc,
                   req' = [req EXCEPT ![t].items = r.items \ {item}, ![t].doomed = doomed]
            PROVE  RequestsOK'
        <4> DEFINE one == [r EXCEPT !.items = r.items \ {item}]
                   v == [one EXCEPT !.doomed = doomed]
        <4>1. doomed \in SUBSET Names
          BY <2>1, <3>2 DEF Requests, Items
        <4>2. req' = [req EXCEPT ![t] = v]
          BY <2>1, <3>2
        <4>3. one \in Requests
          BY <2>1 DEF Requests
        <4> HIDE DEF one
        <4>4. v \in Requests
          BY <4>1, <4>3 DEF Requests
        <4> HIDE DEF v
        <4>5. RequestAt(t, "gc_check", v) /\ pc' = [pc EXCEPT ![t] = "gc_check"]
          BY <3>1, <3>2 DEF RequestAt
        <4> QED BY <4>2, <4>4, <4>5, RequestFrame
      <3>3. CASE /\ r.items = {} /\ Goto(t, "gc_delete")
                 /\ req' = [req EXCEPT ![t].keep = {}, ![t].cutoff = 0]
        <4> DEFINE one == [r EXCEPT !.keep = {}]
                   v == [one EXCEPT !.cutoff = 0]
        <4>1. req' = [req EXCEPT ![t] = v]
          BY <2>1, <3>3
        <4>2. one \in Requests /\ one.items = {} /\ one.keep = {}
          BY <2>1, <3>3 DEF Requests
        <4> HIDE DEF one
        <4>3. v \in Requests /\ v.items = {} /\ v.keep = {}
          BY <4>2 DEF Requests
        <4> HIDE DEF v
        <4>4. RequestAt(t, "gc_delete", v)
          BY <3>1, <4>3 DEF RequestAt
        <4> QED BY <3>3, <4>1, <4>3, <4>4, RequestFrame DEF Goto
      <3> QED BY <2>8, <3>2, <3>3 DEF CollectCheck
    <2>9. CASE CollectDelete(t) /\ ~Answer(t)
      <3>1. PICK n \in r.doomed : UNCHANGED pc /\ req' = [req EXCEPT ![t].doomed = r.doomed \ {n}]
        BY <2>1, <2>9 DEF CollectDelete
      <3> DEFINE v == [r EXCEPT !.doomed = r.doomed \ {n}]
      <3>2. v \in Requests /\ v.items = r.items /\ v.keep = r.keep
        BY <2>1 DEF Requests
      <3>3. req' = [req EXCEPT ![t] = v]
        BY <2>1, <3>1
      <3> HIDE DEF v
      <3>4. RequestAt(t, "gc_delete", v) /\ pc' = [pc EXCEPT ![t] = "gc_delete"]
        BY <2>1, <2>9, <3>1, <3>2 DEF RequestAt, CollectDelete, RequestsOK
      <3> QED BY <3>2, <3>3, <3>4, RequestFrame
    <2> QED BY <1>5, <2>2, <2>3, <2>4, <2>5, <2>6, <2>7, <2>8, <2>9
        DEF ThreadStep, SnapshotCreate, CloneCreate
  <1> QED BY <1>1, <1>2, <1>3, <1>4, <1>5 DEF Next, vars, Request, Tick, Materialize, Publish,
       SetContextRetention, SnapshotCut, Provision

\* Every step keeps the tables well formed.
LEMMA TablesStep ==
  ASSUME TablesOK, RequestsOK, [Next]_vars
  PROVE  TablesOK'
  <1> USE DEF TablesOK
  <1>1. CASE UNCHANGED <<source, snapshots, clones, clock, ids>>
    BY <1>1 DEF Existing
  <1>2. CASE Tick
    BY <1>2, SnapshotAssumption DEF Tick, Existing
  <1>3. ASSUME NEW r \in Revisions, Materialize(r) \/ Publish(r) PROVE TablesOK'
    BY <1>3 DEF Materialize, Publish, others, OptRevision, Existing
  <1>4. ASSUME NEW policy \in Policies, SetContextRetention(policy) PROVE TablesOK'
    BY <1>4 DEF SetContextRetention, others, AnyPolicy, Existing
  <1>5. ASSUME NEW n \in Names, SnapshotCut(n) PROVE TablesOK'
    <2> DEFINE cut == [snapshots[n] EXCEPT !.status = "ready"]
               ready == [cut EXCEPT !.volume = source.volume]
               failed == [snapshots[n] EXCEPT !.status = "failed"]
    <2>1. ready \in Snapshots /\ failed \in Snapshots /\ ready.id = snapshots[n].id /\ failed.id = snapshots[n].id
      BY DEF Snapshots
    <2>2. \E new \in {ready, failed} : snapshots' = [snapshots EXCEPT ![n] = new]
      BY <1>5 DEF SnapshotCut
    <2> HIDE DEF ready, failed
    <2>3. snapshots' \in [Names -> Snapshots] /\ Existing' = Existing
      BY <2>1, <2>2 DEF Existing
    <2> QED BY <1>5, <2>3 DEF SnapshotCut, others
  <1>6. ASSUME NEW c \in Clones, Provision(c) PROVE TablesOK'
    <2> DEFINE bound == [clones[c] EXCEPT !.bound = TRUE]
               new == [bound EXCEPT !.volume = snapshots[clones[c].snapshot].volume]
    <2>1. snapshots[clones[c].snapshot].volume \in SUBSET Revisions
      BY <1>6 DEF Provision, Snapshots
    <2>2. new \in ClonePVCs /\ new.exists = clones[c].exists /\ new.snapshot = clones[c].snapshot
      BY <2>1 DEF ClonePVCs
    <2>3. clones' = [clones EXCEPT ![c] = new]
      BY <1>6 DEF Provision
    <2> HIDE DEF new
    <2> QED BY <1>6, <2>2, <2>3 DEF Provision, others, Existing
  <1>7. ASSUME NEW t \in Threads, Request(t) PROVE UNCHANGED <<source, snapshots, clones, clock, ids>>
    BY <1>7 DEF Request, SnapshotBegin, CloneBegin, CollectBegin, others
  <1>8. ASSUME NEW t \in Threads, SnapshotCreate(t) PROVE TablesOK'
    <2> DEFINE n == req[t].name
               one == [NoSnapshot EXCEPT !.id = ids + 1]
               two == [one EXCEPT !.created = clock]
               three == [two EXCEPT !.revision = req[t].revision]
               new == [three EXCEPT !.protected = req[t].protected]
    <2>1. n \in Names /\ req[t].revision \in OptRevision /\ req[t].protected \in BOOLEAN
      BY <1>8 DEF SnapshotCreate, RequestsOK, RequestAt, Requests
    <2>2. CASE ids < MaxIds /\ ids' = ids + 1 /\ snapshots' = [snapshots EXCEPT ![n] = new]
      <3>1. one \in Snapshots /\ ids' \in 0..MaxIds
        BY <2>2, ValueFacts, SnapshotAssumption DEF Snapshots
      <3> HIDE DEF one
      <3>2. new \in Snapshots
        <4>1. two \in Snapshots
          BY <3>1 DEF Snapshots
        <4> HIDE DEF two
        <4> QED BY <2>1, <4>1 DEF Snapshots
      <3> HIDE DEF new
      <3>3. Existing' \subseteq Existing \cup {n}
        BY <2>2 DEF Existing
      <3>4. IsFiniteSet(Existing')
        BY <3>3, FS_AddElement, FS_Subset
      <3> QED BY <1>8, <2>1, <2>2, <3>1, <3>2, <3>4 DEF SnapshotCreate
    <2> QED BY <1>8, <2>2 DEF SnapshotCreate, Existing
  <1>9. ASSUME NEW t \in Threads, CloneCreate(t) PROVE TablesOK'
    <2> DEFINE c == req[t].clone
               one == [NoClone EXCEPT !.exists = TRUE]
               two == [one EXCEPT !.snapshot = req[t].name]
               new == [two EXCEPT !.revision = req[t].revision]
    <2>1. c \in Clones /\ req[t].name \in Names /\ req[t].revision \in OptRevision
      BY <1>9 DEF CloneCreate, RequestsOK, RequestAt, Requests, Cloning
    <2>2. one \in ClonePVCs
      BY ValueFacts DEF ClonePVCs
    <2>3. clones' \in {clones, [clones EXCEPT ![c] = new]}
      BY <1>9 DEF CloneCreate
    <2> HIDE DEF one
    <2>4. two \in ClonePVCs /\ two.snapshot = req[t].name
      BY <2>1, <2>2 DEF ClonePVCs
    <2> HIDE DEF two
    <2>5. new \in ClonePVCs /\ new.snapshot \in Names
      BY <2>1, <2>4 DEF ClonePVCs
    <2> HIDE DEF new
    <2> QED BY <1>9, <2>1, <2>3, <2>5 DEF CloneCreate, others, Existing
  <1>10. ASSUME NEW t \in Threads, CollectDelete(t) PROVE TablesOK'
    <2>1. CASE UNCHANGED snapshots
      BY <1>10, <2>1 DEF CollectDelete, Existing
    <2>2. ASSUME NEW n \in Names, snapshots' = [snapshots EXCEPT ![n] = NoSnapshot] PROVE TablesOK'
      <3>1. Existing' \subseteq Existing
        BY <2>2, ValueFacts DEF Existing
      <3>2. IsFiniteSet(Existing')
        BY <3>1, FS_Subset
      <3> QED BY <1>10, <2>2, <3>2, ValueFacts DEF CollectDelete
    <2> QED BY <1>10, <2>1, <2>2 DEF CollectDelete, RequestsOK, Requests
  <1> QED BY <1>1, <1>2, <1>3, <1>4, <1>5, <1>6, <1>7, <1>8, <1>9, <1>10 DEF Next, vars, ThreadStep,
             others, SnapshotGet, CloneGet, CloneObject, CollectPolicy, CollectList, CollectCheck

-----------------------------------------------------------------------------
(* What a step changes.                                                     *)

\* The label, the age and the protection of a snapshot are written once, and the
\* volume of one only when it is cut.
LEMMA SnapshotMoves ==
  ASSUME TablesOK, RequestsOK, [Next]_vars, NEW n \in Names
  PROVE  \/ UNCHANGED snapshots[n]
         \/ /\ snapshots[n].status = "creating" /\ snapshots[n].id # 0 /\ snapshots'[n].id # 0
            /\ snapshots'[n].status = "failed" \/ (snapshots'[n].volume = source.volume /\ UNCHANGED source)
            /\ snapshots'[n].revision = snapshots[n].revision
            /\ snapshots'[n].created = snapshots[n].created
            /\ snapshots'[n].protected = snapshots[n].protected
            /\ UNCHANGED <<pc, req, clones>>
         \/ \E t \in Threads :
              /\ pc[t] = "snap_create" /\ snapshots[n].id = 0 /\ snapshots'[n].id # 0
              /\ snapshots'[n].status = "creating" /\ snapshots'[n].revision = req[t].revision
              /\ Answer(t) /\ UNCHANGED <<source, clones, steady>>
         \/ \E t \in Threads :
              /\ pc[t] = "gc_delete" /\ n \in req[t].doomed /\ snapshots'[n] = NoSnapshot
              /\ req' = [req EXCEPT ![t].doomed = req[t].doomed \ {n}]
              /\ steady' = [s \in Threads |-> steady[s] \ {n}]
              /\ UNCHANGED <<source, clones, pc>>
  <1>1. snapshots \in [Names -> Snapshots] /\ snapshots[n] \in Snapshots
    BY DEF TablesOK
  <1>2. ASSUME NEW m \in Names, SnapshotCut(m), m = n
        PROVE  /\ snapshots[n].status = "creating" /\ snapshots[n].id # 0 /\ snapshots'[n].id # 0
               /\ snapshots'[n].status = "failed" \/ (snapshots'[n].volume = source.volume /\ UNCHANGED source)
               /\ snapshots'[n].revision = snapshots[n].revision
               /\ snapshots'[n].created = snapshots[n].created
               /\ snapshots'[n].protected = snapshots[n].protected
               /\ UNCHANGED <<pc, req, clones>>
    BY <1>1, <1>2 DEF SnapshotCut, Snapshots
  <1>3. ASSUME NEW t \in Threads, SnapshotCreate(t), snapshots'[n] # snapshots[n]
        PROVE  /\ pc[t] = "snap_create" /\ snapshots[n].id = 0 /\ snapshots'[n].id # 0
               /\ snapshots'[n].status = "creating" /\ snapshots'[n].revision = req[t].revision
               /\ Answer(t) /\ UNCHANGED <<source, clones, steady>>
    <2> DEFINE new == [NoSnapshot EXCEPT !.id = ids + 1, !.created = clock, !.revision = req[t].revision,
                                         !.protected = req[t].protected]
    <2>1. new.id = ids + 1 /\ new.status = "creating" /\ new.revision = req[t].revision
      BY DEF NoSnapshot
    <2>2. ids + 1 # 0
      BY SnapshotAssumption DEF TablesOK
    <2>3. n = req[t].name /\ snapshots' = [snapshots EXCEPT ![n] = new] /\ snapshots[n].id = 0
      BY <1>1, <1>3 DEF SnapshotCreate
    <2> HIDE DEF new
    <2> QED BY <1>1, <1>3, <2>1, <2>2, <2>3 DEF SnapshotCreate
  <1>4. ASSUME NEW t \in Threads, CollectDelete(t), snapshots'[n] # snapshots[n]
        PROVE  /\ pc[t] = "gc_delete" /\ n \in req[t].doomed /\ snapshots'[n] = NoSnapshot
               /\ req' = [req EXCEPT ![t].doomed = req[t].doomed \ {n}]
               /\ steady' = [s \in Threads |-> steady[s] \ {n}]
               /\ UNCHANGED <<source, clones, pc>>
    <2>1. PICK m \in req[t].doomed : /\ snapshots' = [snapshots EXCEPT ![m] = NoSnapshot] /\ UNCHANGED pc
                                     /\ req' = [req EXCEPT ![t].doomed = req[t].doomed \ {m}]
                                     /\ steady' = [s \in Threads |-> steady[s] \ {m}]
      BY <1>4 DEF CollectDelete, RequestsOK
    <2>2. m = n
      BY <1>1, <1>4, <2>1
    <2> QED BY <1>1, <1>4, <2>1, <2>2 DEF CollectDelete
  <1>5. ASSUME NEW m \in Names, SnapshotCut(m), m # n PROVE UNCHANGED snapshots[n]
    BY <1>1, <1>5 DEF SnapshotCut
  <1>6. CASE UNCHANGED snapshots
    BY <1>6
  <1>7. \/ \E m \in Names : SnapshotCut(m)
        \/ \E t \in Threads : SnapshotCreate(t) \/ CollectDelete(t)
        \/ UNCHANGED snapshots
    BY DEF Next, vars, Tick, Materialize, Publish, SetContextRetention, Provision, others, Request,
       ThreadStep, SnapshotBegin, CloneBegin, CollectBegin, SnapshotGet, CloneGet, CloneObject,
       CloneCreate, CollectPolicy, CollectList, CollectCheck
  <1> QED BY <1>2, <1>3, <1>4, <1>5, <1>6, <1>7

\* What is on the volume of the Context stays.
LEMMA VolumeGrows ==
  ASSUME TablesOK, [Next]_vars
  PROVE  source.volume \subseteq source'.volume
  <1>1. ASSUME NEW r \in Revisions, Materialize(r) PROVE source.volume \subseteq source'.volume
    BY <1>1 DEF Materialize, TablesOK
  <1>2. CASE source'.volume = source.volume
    BY <1>2
  <1>3. \/ \E r \in Revisions : Materialize(r) \/ Publish(r)
        \/ \E policy \in Policies : SetContextRetention(policy)
        \/ UNCHANGED source
    BY DEF Next, vars, Tick, SnapshotCut, Provision, others, Request, ThreadStep, SnapshotBegin,
       CloneBegin, CollectBegin, SnapshotGet, SnapshotCreate, CloneGet, CloneObject, CloneCreate,
       CollectPolicy, CollectList, CollectCheck, CollectDelete
  <1>4. ASSUME NEW r \in Revisions, Publish(r) PROVE source'.volume = source.volume
    BY <1>4 DEF Publish, TablesOK
  <1>5. ASSUME NEW policy \in Policies, SetContextRetention(policy) PROVE source'.volume = source.volume
    BY <1>5 DEF SetContextRetention, TablesOK
  <1> QED BY <1>1, <1>2, <1>3, <1>4, <1>5

\* Clones are made once; later they only gain their volume.
LEMMA CloneMoves ==
  ASSUME TablesOK, RequestsOK, [Next]_vars, NEW c \in Clones
  PROVE  \/ UNCHANGED clones[c]
         \/ /\ clones[c].exists /\ clones'[c].exists /\ ~clones[c].bound /\ clones'[c].bound
            /\ clones'[c].snapshot = clones[c].snapshot /\ clones'[c].revision = clones[c].revision
            /\ snapshots[clones[c].snapshot].status = "ready"
            /\ clones'[c].volume = snapshots[clones[c].snapshot].volume
            /\ UNCHANGED <<source, snapshots, pc, req>>
         \/ \E t \in Threads :
              /\ pc[t] = "clone_create" /\ ~clones[c].exists /\ clones'[c].exists /\ ~clones'[c].bound
              /\ clones'[c].snapshot = req[t].name /\ clones'[c].revision = req[t].revision
              /\ UNCHANGED <<source, snapshots>>
  <1>1. clones \in [Clones -> ClonePVCs] /\ clones[c] \in ClonePVCs
    BY DEF TablesOK
  <1>2. ASSUME NEW d \in Clones, Provision(d), clones'[c] # clones[c]
        PROVE  /\ clones[c].exists /\ clones'[c].exists /\ ~clones[c].bound /\ clones'[c].bound
               /\ clones'[c].snapshot = clones[c].snapshot /\ clones'[c].revision = clones[c].revision
               /\ snapshots[clones[c].snapshot].status = "ready"
               /\ clones'[c].volume = snapshots[clones[c].snapshot].volume
               /\ UNCHANGED <<source, snapshots, pc, req>>
    <2>1. d = c
      BY <1>1, <1>2 DEF Provision
    <2> QED BY <1>1, <1>2, <2>1 DEF Provision, ClonePVCs
  <1>3. ASSUME NEW t \in Threads, CloneCreate(t), clones'[c] # clones[c]
        PROVE  /\ pc[t] = "clone_create" /\ ~clones[c].exists /\ clones'[c].exists /\ ~clones'[c].bound
               /\ clones'[c].snapshot = req[t].name /\ clones'[c].revision = req[t].revision
               /\ UNCHANGED <<source, snapshots>>
    <2> DEFINE new == [NoClone EXCEPT !.exists = TRUE, !.snapshot = req[t].name, !.revision = req[t].revision]
    <2>1. new.exists /\ ~new.bound /\ new.snapshot = req[t].name /\ new.revision = req[t].revision
      BY DEF NoClone
    <2>2. c = req[t].clone /\ ~clones[c].exists /\ clones' = [clones EXCEPT ![c] = new]
      BY <1>1, <1>3 DEF CloneCreate
    <2> HIDE DEF new
    <2> QED BY <1>1, <1>3, <2>1, <2>2 DEF CloneCreate
  <1>4. \/ \E d \in Clones : Provision(d)
        \/ \E t \in Threads : CloneCreate(t)
        \/ UNCHANGED clones
    BY DEF Next, vars, Tick, Materialize, Publish, SetContextRetention, SnapshotCut, others,
       Request, ThreadStep, SnapshotBegin, CloneBegin, CollectBegin, SnapshotGet, SnapshotCreate,
       CloneGet, CloneObject, CollectPolicy, CollectList, CollectCheck, CollectDelete
  <1> QED BY <1>2, <1>3, <1>4

\* What a request has read of labels.
LEMMA LabelMoves ==
  ASSUME TablesOK, RequestsOK, [Next]_vars, NEW t \in Threads
  PROVE  /\ pc'[t] = "snap_create" =>
              \/ pc[t] = "snap_create" /\ req'[t].revision = req[t].revision
              \/ req'[t].revision = source.revision
         /\ pc'[t] \in {"clone_object", "clone_create"} =>
              /\ req'[t].name = req[t].name /\ pc[t] \in Cloning
              /\ \/ pc[t] # "clone_get" /\ req'[t].revision = req[t].revision
                 \/ /\ snapshots[req[t].name].status = "ready"
                    /\ req'[t].revision = snapshots[req[t].name].revision
  <1> DEFINE Goal == /\ pc'[t] = "snap_create" =>
                          \/ pc[t] = "snap_create" /\ req'[t].revision = req[t].revision
                          \/ req'[t].revision = source.revision
                     /\ pc'[t] \in {"clone_object", "clone_create"} =>
                          /\ req'[t].name = req[t].name /\ pc[t] \in Cloning
                          /\ \/ pc[t] # "clone_get" /\ req'[t].revision = req[t].revision
                             \/ /\ snapshots[req[t].name].status = "ready"
                                /\ req'[t].revision = snapshots[req[t].name].revision
  <1> USE DEF RequestsOK, Cloning
  <1>1. CASE pc'[t] = pc[t] /\ req'[t].revision = req[t].revision /\ req'[t].name = req[t].name /\ pc[t] # "clone_get"
    BY <1>1
  <1>2. CASE pc'[t] \notin {"snap_create", "clone_object", "clone_create"}
    BY <1>2
  <1>3. ASSUME NEW u \in Threads, Request(u) PROVE Goal
    <2>1. ASSUME NEW label \in {"snap_get", "clone_get", "gc_policy"}, NEW request, Begin(u, label, request)
          PROVE  Goal
      BY <1>1, <1>2, <2>1 DEF Begin, Goto
    <2> QED BY <1>3, <2>1 DEF Request, SnapshotBegin, CloneBegin, CollectBegin
  <1>4. ASSUME NEW u \in Threads, ThreadStep(u), u # t PROVE Goal
    <2>1. pc'[t] = pc[t] /\ req'[t] = req[t]
      BY <1>4 DEF ThreadStep, Goto, Answer, SnapshotGet, SnapshotCreate, CloneGet, CloneObject,
         CloneCreate, CollectPolicy, CollectList, CollectCheck, CollectDelete
    <2> QED BY <1>1, <1>2, <2>1
  <1>5. CASE ThreadStep(t)
    <2>1. CASE Answer(t)
      BY <1>2, <2>1 DEF Answer, Goto
    <2>2. CASE SnapshotGet(t)
      BY <2>2 DEF SnapshotGet, Goto, Requests
    <2>3. CASE CloneGet(t) /\ ~Answer(t)
      BY <2>3 DEF CloneGet, Goto, Requests
    <2>4. CASE CloneObject(t) /\ ~Answer(t)
      BY <2>4 DEF CloneObject, Goto
    <2>5. CASE CollectPolicy(t) \/ CollectList(t) \/ CollectCheck(t) \/ CollectDelete(t)
      BY <1>2, <2>1, <2>5 DEF CollectPolicy, CollectList, CollectCheck, CollectDelete, Goto
    <2> QED BY <1>5, <2>1, <2>2, <2>3, <2>4, <2>5 DEF ThreadStep, SnapshotCreate, CloneCreate
  <1>6. CASE UNCHANGED <<pc, req>>
    BY <1>1, <1>2, <1>6
  <1>7. \/ \E u \in Threads : ThreadStep(u) \/ Request(u)
        \/ UNCHANGED <<pc, req>>
    BY DEF Next, vars, Tick, Materialize, Publish, SetContextRetention, SnapshotCut, Provision
  <1> QED BY <1>3, <1>4, <1>5, <1>6, <1>7 DEF Goal

\* What a collection has listed, kept and doomed.
LEMMA CollectionMoves ==
  ASSUME TablesOK, RequestsOK, [Next]_vars, NEW t \in Threads
  PROVE  \/ UNCHANGED <<pc[t], req[t]>>
         \/ req'[t].items = {} /\ req'[t].keep = {} /\ req'[t].doomed = {}
         \/ /\ pc'[t] = "gc_check" /\ req'[t].items = {ItemOf(n) : n \in Existing}
            /\ req'[t].keep \subseteq req'[t].items /\ req'[t].doomed = {}
            /\ Newest(req'[t].keep, req'[t].items, req'[t].policy.keepLast)
            /\ UNCHANGED <<source, snapshots, clones>>
         \/ \E item \in req[t].items :
              /\ pc[t] = "gc_check" /\ pc'[t] = "gc_check" /\ req'[t].items = req[t].items \ {item}
              /\ req'[t].keep = req[t].keep /\ req'[t].policy = req[t].policy
              /\ req'[t].doomed = IF Keep(t, item) THEN req[t].doomed ELSE req[t].doomed \cup {item.name}
              /\ UNCHANGED <<source, snapshots, clones>>
         \/ /\ pc[t] = "gc_check" /\ pc'[t] = "gc_delete" /\ req'[t].items = {} /\ req'[t].keep = {}
            /\ req'[t].policy = req[t].policy /\ req'[t].doomed = req[t].doomed
            /\ UNCHANGED <<source, snapshots, clones>>
         \/ \E n \in req[t].doomed :
              /\ pc[t] = "gc_delete" /\ pc'[t] = "gc_delete" /\ req'[t].items = req[t].items
              /\ req'[t].keep = req[t].keep /\ req'[t].policy = req[t].policy
              /\ req'[t].doomed = req[t].doomed \ {n} /\ snapshots' = [snapshots EXCEPT ![n] = NoSnapshot]
  <1>1. RequestAt(t, pc[t], req[t]) /\ req[t] \in Requests /\ pc \in [Threads -> PCs] /\ req \in [Threads -> Requests]
    BY DEF RequestsOK
  <1>2. ASSUME NEW u \in Threads, ThreadStep(u) \/ Request(u), u # t PROVE UNCHANGED <<pc[t], req[t]>>
    BY <1>1, <1>2 DEF ThreadStep, Goto, Answer, SnapshotGet, SnapshotCreate, CloneGet, CloneObject,
       CloneCreate, CollectPolicy, CollectList, CollectCheck, CollectDelete, Request, SnapshotBegin,
       CloneBegin, CollectBegin, Begin
  <1>3. CASE Request(t)
    <2>1. ASSUME NEW n \in Names, NEW protected, SnapshotBegin(t, n, protected)
          PROVE  req'[t].items = {} /\ req'[t].keep = {} /\ req'[t].doomed = {}
      BY <1>1, <2>1 DEF SnapshotBegin, Begin, Blank
    <2>2. ASSUME NEW n \in Names, NEW c \in Clones, CloneBegin(t, n, c)
          PROVE  req'[t].items = {} /\ req'[t].keep = {} /\ req'[t].doomed = {}
      BY <1>1, <2>2 DEF CloneBegin, Begin, Blank
    <2>3. ASSUME CollectBegin(t)
          PROVE  req'[t].items = {} /\ req'[t].keep = {} /\ req'[t].doomed = {}
      BY <1>1, <2>3 DEF CollectBegin, Begin, Blank
    <2> QED BY <1>3, <2>1, <2>2, <2>3 DEF Request
  <1>4. CASE Answer(t)
    BY <1>1, <1>4, ValueFacts DEF Answer
  <1>5. CASE (SnapshotGet(t) \/ CloneGet(t) \/ CloneObject(t) \/ CollectPolicy(t)) /\ ~Answer(t)
    <2>1. req[t].items = {} /\ req[t].keep = {} /\ req[t].doomed = {}
      BY <1>1, <1>5 DEF RequestAt, SnapshotGet, CloneGet, CloneObject, CollectPolicy
    <2>2. \/ \E r : req' = [req EXCEPT ![t].revision = r]
          \/ \E p : req' = [req EXCEPT ![t].policy = p]
          \/ req' = req
      BY <1>5 DEF SnapshotGet, CloneGet, CloneObject, CollectPolicy
    <2> QED BY <1>1, <2>1, <2>2 DEF Requests
  <1>6. CASE CollectList(t) /\ ~Answer(t)
    <2>1. PICK keep \in SUBSET {ItemOf(n) : n \in Existing} :
            /\ Newest(keep, {ItemOf(n) : n \in Existing}, req[t].policy.keepLast)
            /\ req' = [req EXCEPT ![t].items = {ItemOf(n) : n \in Existing}, ![t].keep = keep,
                                  ![t].cutoff = clock - req[t].policy.maxAge]
      BY <1>6 DEF CollectList
    <2> DEFINE items == {ItemOf(n) : n \in Existing}
               cutoff == clock - req[t].policy.maxAge
    <2>2. req' = [req EXCEPT ![t].items = items, ![t].keep = keep, ![t].cutoff = cutoff]
      BY <2>1
    <2>3. req[t].doomed = {} /\ pc'[t] = "gc_check" /\ UNCHANGED <<source, snapshots, clones>>
      BY <1>1, <1>6 DEF CollectList, RequestAt, Goto
    <2>4. keep \subseteq items /\ Newest(keep, items, req[t].policy.keepLast)
      BY <2>1
    <2> HIDE DEF items, cutoff
    <2>5. /\ req'[t].items = items /\ req'[t].keep = keep /\ req'[t].doomed = req[t].doomed
          /\ req'[t].policy = req[t].policy
      BY <1>1, <2>2 DEF Requests
    <2> QED BY <2>3, <2>4, <2>5 DEF items
  <1>7. CASE CollectCheck(t)
    <2>1. ASSUME NEW item \in req[t].items, NEW doomed, UNCHANGED pc,
                 req' = [req EXCEPT ![t].items = req[t].items \ {item}, ![t].doomed = doomed]
          PROVE  /\ pc'[t] = pc[t] /\ req'[t].items = req[t].items \ {item} /\ req'[t].keep = req[t].keep
                 /\ req'[t].policy = req[t].policy /\ req'[t].doomed = doomed
      BY <1>1, <2>1 DEF Requests
    <2>2. CASE /\ req[t].items = {} /\ Goto(t, "gc_delete")
               /\ req' = [req EXCEPT ![t].keep = {}, ![t].cutoff = 0]
      BY <1>1, <1>7, <2>2 DEF Requests, Goto, CollectCheck
    <2> QED BY <1>7, <2>1, <2>2 DEF CollectCheck
  <1>8. CASE CollectDelete(t) /\ ~Answer(t)
    <2>1. PICK n \in req[t].doomed : /\ snapshots' = [snapshots EXCEPT ![n] = NoSnapshot] /\ UNCHANGED pc
                                     /\ req' = [req EXCEPT ![t].doomed = req[t].doomed \ {n}]
      BY <1>1, <1>8 DEF CollectDelete
    <2> QED BY <1>1, <1>8, <2>1 DEF Requests, CollectDelete
  <1>9. ASSUME NEW u \in Threads, ThreadStep(u), u = t
        PROVE  \/ Answer(t) \/ CollectCheck(t)
               \/ (SnapshotGet(t) \/ CloneGet(t) \/ CloneObject(t) \/ CollectPolicy(t)) /\ ~Answer(t)
               \/ CollectList(t) /\ ~Answer(t)
               \/ CollectDelete(t) /\ ~Answer(t)
    BY <1>9 DEF ThreadStep, SnapshotCreate, CloneCreate
  <1>10. \/ \E u \in Threads : ThreadStep(u) \/ Request(u)
         \/ UNCHANGED <<pc, req>>
    BY DEF Next, vars, Tick, Materialize, Publish, SetContextRetention, SnapshotCut, Provision
  <1>11. CASE \E u \in Threads : u # t /\ (ThreadStep(u) \/ Request(u))
    BY <1>2, <1>11
  <1>12. CASE ThreadStep(t)
    BY <1>4, <1>5, <1>6, <1>7, <1>8, <1>9, <1>12
  <1>13. CASE UNCHANGED <<pc, req>>
    BY <1>13
  <1> QED BY <1>3, <1>10, <1>11, <1>12, <1>13


-----------------------------------------------------------------------------
(* Each part of the invariant is kept.                                      *)

\* Labels stay on the volume, and a snapshot cut later holds them too.
LEMMA LabelsStep ==
  ASSUME TablesOK, RequestsOK, LabelsOK, CloneHoldsRevision, [Next]_vars
  PROVE  LabelsOK' /\ CloneHoldsRevision'
  <1> DEFINE Labelled(revision) == revision # None => revision \in source'.volume
             LabelledIn(revision, name) ==
               /\ Labelled(revision)
               /\ snapshots'[name].status = "ready" /\ revision # None => revision \in snapshots'[name].volume
  <1>1. ASSUME NEW revision, Label(revision) PROVE Labelled(revision)
    BY <1>1, VolumeGrows DEF Label
  <1>2. ASSUME NEW n \in Names, NEW revision, LabelIn(revision, n) PROVE LabelledIn(revision, n)
    <2>1. Labelled(revision)
      BY <1>1, <1>2 DEF LabelIn
    <2>2. ASSUME snapshots'[n].status = "ready", revision # None PROVE revision \in snapshots'[n].volume
      BY <1>2, <2>2, SnapshotMoves, ValueFacts DEF LabelIn, Label
    <2> QED BY <2>1, <2>2
  <1>3. Labelled(source'.revision)
    <2>1. CASE source'.revision = source.revision
      BY <1>1, <2>1 DEF LabelsOK
    <2>2. ASSUME NEW r \in Revisions, Publish(r) PROVE Labelled(source'.revision)
      BY <2>2 DEF Publish, TablesOK
    <2>3. source'.revision = source.revision \/ \E r \in Revisions : Publish(r)
      BY DEF Next, vars, Tick, Materialize, SetContextRetention, SnapshotCut, Provision, others,
         Request, ThreadStep, SnapshotBegin, CloneBegin, CollectBegin, SnapshotGet, SnapshotCreate,
         CloneGet, CloneObject, CloneCreate, CollectPolicy, CollectList, CollectCheck,
         CollectDelete, TablesOK
    <2> QED BY <2>1, <2>2, <2>3
  <1>4. ASSUME NEW n \in Names PROVE LabelledIn(snapshots'[n].revision, n)
    <2>1. LabelIn(snapshots[n].revision, n)
      BY DEF LabelsOK
    <2>2. CASE snapshots'[n].revision = snapshots[n].revision
      BY <1>2, <2>1, <2>2
    <2>3. CASE snapshots'[n] = NoSnapshot
      BY <2>3, ValueFacts
    <2>4. ASSUME NEW t \in Threads, pc[t] = "snap_create", snapshots'[n].status = "creating",
                 snapshots'[n].revision = req[t].revision
          PROVE  LabelledIn(snapshots'[n].revision, n)
      BY <1>1, <2>4 DEF LabelsOK
    <2> QED BY <2>2, <2>3, <2>4, SnapshotMoves
  <1>5. ASSUME NEW t \in Threads, pc'[t] = "snap_create" PROVE Labelled(req'[t].revision)
    BY <1>1, <1>5, LabelMoves DEF LabelsOK
  <1>6. ASSUME NEW t \in Threads, pc'[t] \in {"clone_object", "clone_create"}
        PROVE  LabelledIn(req'[t].revision, req'[t].name)
    <2>1. req'[t].name = req[t].name /\ req[t].name \in Names /\ pc[t] \in Cloning
      BY <1>6, LabelMoves DEF RequestsOK, RequestAt
    <2>2. LabelIn(req'[t].revision, req[t].name)
      BY <1>6, <2>1, LabelMoves DEF LabelsOK, Cloning
    <2> QED BY <1>2, <2>1, <2>2
  <1>7. ASSUME NEW c \in Clones, clones'[c].exists, ~clones'[c].bound
        PROVE  LabelledIn(clones'[c].revision, clones'[c].snapshot)
    <2>1. CASE UNCHANGED clones[c]
      BY <1>2, <1>7, <2>1 DEF LabelsOK, TablesOK
    <2>2. ASSUME NEW t \in Threads, pc[t] = "clone_create",
                 clones'[c].snapshot = req[t].name, clones'[c].revision = req[t].revision
          PROVE  LabelledIn(clones'[c].revision, clones'[c].snapshot)
      <3>1. req[t].name \in Names /\ LabelIn(req[t].revision, req[t].name)
        BY <2>2 DEF LabelsOK, RequestsOK, RequestAt, Cloning
      <3> QED BY <1>2, <2>2, <3>1
    <2> QED BY <1>7, <2>1, <2>2, CloneMoves
  <1>8. ASSUME NEW c \in Clones, clones'[c].bound, clones'[c].revision # None
        PROVE  clones'[c].revision \in clones'[c].volume
    <2>1. CASE UNCHANGED clones[c]
      BY <1>8, <2>1 DEF CloneHoldsRevision
    <2>2. CASE /\ clones[c].exists /\ ~clones[c].bound /\ clones'[c].revision = clones[c].revision
               /\ snapshots[clones[c].snapshot].status = "ready"
               /\ clones'[c].volume = snapshots[clones[c].snapshot].volume
      BY <1>8, <2>2 DEF LabelsOK, LabelIn
    <2> QED BY <1>8, <2>1, <2>2, CloneMoves
  <1>9. LabelsOK'
    BY <1>3, <1>4, <1>5, <1>6, <1>7 DEF LabelsOK, Label, LabelIn
  <1> QED BY <1>8, <1>9 DEF CloneHoldsRevision

\* What was referenced when a collection began stays referenced.
LEMMA ReferencesStay ==
  ASSUME TablesOK, RequestsOK, [Next]_vars, NEW n, NEW revision, Referenced(n, revision)
  PROVE  Referenced(n, revision)'
  <1>1. PICK c \in Clones : ReferencedBy(c, n, revision)
    BY DEF Referenced
  <1>2. clones'[c].exists /\ clones'[c].snapshot = clones[c].snapshot /\ clones'[c].revision = clones[c].revision
    BY <1>1, CloneMoves DEF ReferencedBy
  <1>3. \E d \in Clones : /\ clones'[d].exists
                          /\ clones'[d].snapshot = n \/ (revision # None /\ clones'[d].revision = revision)
    BY <1>1, <1>2 DEF ReferencedBy
  <1> QED BY <1>3 DEF Referenced, ReferencedBy

\* Only the begin of a collection adds to what is steady for it.
LEMMA SteadyMoves ==
  ASSUME TablesOK, RequestsOK, SteadyOK, [Next]_vars
  PROVE  /\ steady' \in [Threads -> SUBSET Names]
         /\ \A t \in Threads :
              \/ steady'[t] \subseteq steady[t]
              \/ /\ req'[t].items = {} /\ req'[t].doomed = {} /\ UNCHANGED <<snapshots, clones>>
                 /\ steady'[t] = {n \in Existing : Referenced(n, snapshots[n].revision)}
  <1> USE DEF SteadyOK
  <1>1. ASSUME NEW u \in Threads, CollectBegin(u), NEW t \in Threads
        PROVE  /\ steady' \in [Threads -> SUBSET Names]
               /\ \/ steady'[t] \subseteq steady[t]
                  \/ /\ req'[t].items = {} /\ req'[t].doomed = {} /\ UNCHANGED <<snapshots, clones>>
                     /\ steady'[t] = {n \in Existing : Referenced(n, snapshots[n].revision)}
    <2> DEFINE now == {n \in Existing : Referenced(n, snapshots[n].revision)}
               r == [Blank EXCEPT !.op = "collect"]
    <2>1. now \in SUBSET Names /\ r.items = {} /\ r.doomed = {}
      BY DEF Existing, Blank
    <2>2. steady' = [steady EXCEPT ![u] = now] /\ req' = [req EXCEPT ![u] = r] /\ UNCHANGED <<snapshots, clones>>
      BY <1>1 DEF CollectBegin, Begin
    <2> HIDE DEF now, r
    <2>3. CASE u = t
      BY <2>1, <2>2, <2>3 DEF now, RequestsOK
    <2> QED BY <2>1, <2>2, <2>3
  <1>2. ASSUME NEW n, steady' = [s \in Threads |-> steady[s] \ {n}]
        PROVE  steady' \in [Threads -> SUBSET Names] /\ \A t \in Threads : steady'[t] \subseteq steady[t]
    BY <1>2
  <1>3. CASE UNCHANGED steady
    BY <1>3
  <1>4. \/ \E u \in Threads : CollectBegin(u)
        \/ \E n : steady' = [s \in Threads |-> steady[s] \ {n}]
        \/ UNCHANGED steady
    BY DEF Next, vars, Tick, Materialize, Publish, SetContextRetention, SnapshotCut, Provision,
       others, Request, ThreadStep, SnapshotBegin, CloneBegin, SnapshotGet, SnapshotCreate,
       CloneGet, CloneObject, CloneCreate, CollectPolicy, CollectList, CollectCheck, CollectDelete
  <1> QED BY <1>1, <1>2, <1>3, <1>4

\* A collection dooms nothing that was referenced when it began.
LEMMA SteadyStep ==
  ASSUME TablesOK, RequestsOK, SteadyOK, [Next]_vars
  PROVE  SteadyOK'
  <1>1. ASSUME NEW t \in Threads, NEW n \in steady'[t]
        PROVE  /\ snapshots'[n].id # 0 /\ n \in Names /\ Referenced(n, snapshots[n].revision)'
               /\ n \in steady[t] => snapshots'[n].revision = snapshots[n].revision
    <2>1. n \in Existing /\ Referenced(n, snapshots[n].revision) /\ n \in Names
      BY <1>1, SteadyMoves DEF SteadyOK, Existing
    <2>2. snapshots'[n].id # 0 /\ snapshots'[n].revision = snapshots[n].revision
      <3>1. ~\E s \in Threads : steady' = [u \in Threads |-> steady[u] \ {n}]
        BY <1>1
      <3> QED BY <2>1, <3>1, SnapshotMoves DEF Existing
    <2>3. Referenced(n, snapshots[n].revision)'
      BY <2>1, <2>2, ReferencesStay DEF Referenced, ReferencedBy
    <2> QED BY <2>1, <2>2, <2>3
  <1>2. ASSUME NEW t \in Threads, NEW i \in req'[t].items, i.name \in steady'[t]
        PROVE  i.revision = snapshots'[i.name].revision
    <2>1. i.name \in steady[t]
      BY <1>2, SteadyMoves
    <2>2. snapshots'[i.name].revision = snapshots[i.name].revision
      BY <1>1, <1>2, <2>1
    <2>3. req'[t].items \subseteq req[t].items \/ req'[t].items = {ItemOf(n) : n \in Existing}
      BY CollectionMoves
    <2>4. i \in req[t].items \/ \E n \in Existing : i = ItemOf(n)
      BY <1>2, <2>3
    <2> QED BY <2>1, <2>2, <2>4 DEF SteadyOK, ItemOf
  <1>3. ASSUME NEW t \in Threads, NEW n \in req'[t].doomed, n \in steady'[t] PROVE FALSE
    <2>1. n \in steady[t]
      BY <1>3, SteadyMoves
    <2>2. n \notin req[t].doomed
      BY <2>1 DEF SteadyOK
    <2>3. PICK item \in req[t].items : ~Keep(t, item) /\ n = item.name
      BY <1>3, <2>2, CollectionMoves
    <2> QED BY <2>1, <2>3 DEF SteadyOK, Keep
  <1>4. steady' \in [Threads -> SUBSET Names]
    BY SteadyMoves
  <1> QED BY <1>1, <1>2, <1>3, <1>4 DEF SteadyOK, Existing

\* A snapshot that is not deleted stays as it was listed; with one collection at
\* a time, only that one deletes what it has doomed.
LEMMA ListedStays ==
  ASSUME OneCollector, TablesOK, RequestsOK, [Next]_vars, NEW t \in Threads, NEW n \in Existing,
         pc[t] \in Collecting
  PROVE  \/ /\ n \in Existing' /\ snapshots'[n].revision = snapshots[n].revision
            /\ snapshots'[n].created = snapshots[n].created
            /\ snapshots'[n].protected = snapshots[n].protected
         \/ /\ pc[t] = "gc_delete" /\ n \in req[t].doomed
            /\ req' = [req EXCEPT ![t].doomed = req[t].doomed \ {n}]
  <1>1. n \in Names /\ snapshots[n].id # 0
    BY DEF Existing
  <1>2. ASSUME NEW u \in Threads, pc[u] = "gc_delete" PROVE u = t
    BY <1>2 DEF OneCollector, RequestsOK, RequestAt, Collecting
  <1> QED BY <1>1, <1>2, SnapshotMoves DEF Existing

\* What a collection knows of snapshots stays true.
LEMMA ListedStep ==
  ASSUME OneCollector, TablesOK, RequestsOK, ListedOK, [Next]_vars
  PROVE  ListedOK'
  <1>1. ASSUME NEW t \in Threads, NEW i \in req'[t].items \cup req'[t].keep
        PROVE  i.name \in Existing' /\ i = ItemOf(i.name)'
    <2>1. CASE i \in req[t].items \cup req[t].keep /\ req'[t].items \cup req'[t].keep # {}
      <3>1. pc[t] = "gc_check" /\ i.name \in Existing /\ i = ItemOf(i.name)
        BY <2>1 DEF ListedOK, RequestsOK, RequestAt
      <3>2. /\ i.name \in Existing' /\ snapshots'[i.name].revision = snapshots[i.name].revision
            /\ snapshots'[i.name].created = snapshots[i.name].created
            /\ snapshots'[i.name].protected = snapshots[i.name].protected
        BY <3>1, ListedStays DEF Collecting
      <3> QED BY <3>1, <3>2 DEF ItemOf
    <2>2. CASE UNCHANGED snapshots /\ \E n \in Existing : i = ItemOf(n)
      BY <2>2 DEF ItemOf, Existing
    <2>3. \/ req'[t].items \cup req'[t].keep \subseteq req[t].items \cup req[t].keep
          \/ /\ req'[t].items = {ItemOf(n) : n \in Existing} /\ req'[t].keep \subseteq req'[t].items
             /\ UNCHANGED snapshots
      BY CollectionMoves
    <2> QED BY <1>1, <2>1, <2>2, <2>3
  <1>2. ASSUME NEW t \in Threads, NEW n \in req'[t].doomed
        PROVE  n \in Existing' /\ ~snapshots'[n].protected
    <2>1. CASE n \in req[t].doomed
      <3>1. n \in Existing /\ ~snapshots[n].protected /\ pc[t] \in Collecting
        BY <2>1 DEF ListedOK, RequestsOK, RequestAt, Collecting
      <3>2. ~(req' = [req EXCEPT ![t].doomed = req[t].doomed \ {n}])
        BY <1>2 DEF RequestsOK, Requests
      <3> QED BY <3>1, <3>2, ListedStays
    <2>2. ASSUME NEW item \in req[t].items, ~Keep(t, item), n = item.name, UNCHANGED snapshots
          PROVE  n \in Existing' /\ ~snapshots'[n].protected
      BY <2>2 DEF ListedOK, Keep, ItemOf, Existing
    <2>3. \/ n \in req[t].doomed
          \/ \E item \in req[t].items : ~Keep(t, item) /\ n = item.name /\ UNCHANGED snapshots
      BY <1>2, CollectionMoves
    <2> QED BY <2>1, <2>2, <2>3
  <1> QED BY <1>1, <1>2 DEF ListedOK, Existing

\* Among what a collection lists there are as many new ones as it is to keep, or
\* all are kept.
LEMMA NewestFacts ==
  ASSUME NEW items, IsFiniteSet(items), NEW keep \in SUBSET items, NEW keepLast \in Nat,
         Newest(keep, items, keepLast)
  PROVE  /\ IsFiniteSet(keep)
         /\ keep # items => Cardinality(keep) >= keepLast
  <1>1. IsFiniteSet(keep) /\ (Cardinality(items) = Cardinality(keep) => items = keep)
    BY FS_Subset
  <1>2. Cardinality(keep) \in Nat /\ Cardinality(items) \in Nat
    BY <1>1, FS_CardinalityType
  <1> QED BY <1>1, <1>2 DEF Newest

\* Listed snapshots are as many as their names.
LEMMA KeptNames ==
  ASSUME NEW keep, IsFiniteSet(keep), NEW names, IsFiniteSet(names),
         \A i \in keep : i.name \in names /\ i = ItemOf(i.name)
  PROVE  Cardinality(keep) <= Cardinality(names)
  <1> DEFINE f == [i \in keep |-> i.name]
  <1>1. f \in Injection(keep, names)
    BY DEF Injection, IsInjective
  <1> QED BY <1>1, FS_Injection

\* The newest snapshots outlive a collection by number.
LEMMA NewestStep ==
  ASSUME OneCollector, TablesOK, TablesOK', RequestsOK, RequestsOK', ListedOK, ListedOK', NewestOK, [Next]_vars
  PROVE  NewestOK'
  <1> SUFFICES ASSUME NEW t \in Threads
               PROVE  /\ IsFiniteSet(req'[t].keep)
                      /\ \A i \in req'[t].keep : i.name \notin req'[t].doomed
                      /\ \A i \in req'[t].items \ req'[t].keep : Enough(t, i.created)'
                      /\ \A n \in req'[t].doomed :
                           IF pc'[t] = "gc_check" THEN Enough(t, snapshots[n].created)'
                           ELSE Cardinality(Survivors(t, n)') >= req'[t].policy.keepLast
    BY DEF NewestOK
  <1>1. req[t] \in Requests /\ req'[t] \in Requests /\ RequestAt(t, pc[t], req[t])
    BY DEF RequestsOK
  <1>2. req[t].policy.keepLast \in Nat /\ req'[t].policy.keepLast \in Nat
    BY <1>1, ValueFacts DEF Requests
  <1>3. IsFiniteSet(Existing) /\ IsFiniteSet(Existing')
    BY DEF TablesOK
  <1>4. CASE req'[t].items = {} /\ req'[t].keep = {} /\ req'[t].doomed = {}
    BY <1>4, FS_EmptySet
  <1>5. CASE UNCHANGED <<pc[t], req[t]>>
    <2>1. ASSUME NEW n \in req[t].doomed \cup Existing, req[t].doomed # {}
          PROVE  n \in Existing' /\ snapshots'[n].created = snapshots[n].created
      <3>1. n \in Existing /\ pc[t] \in Collecting
        BY <1>1, <2>1 DEF ListedOK, RequestAt, Collecting
      <3>2. ~(n \in req[t].doomed /\ req' = [req EXCEPT ![t].doomed = req[t].doomed \ {n}])
        BY <1>1, <1>5 DEF Requests, RequestsOK
      <3> QED BY <3>1, <3>2, ListedStays
    <2>2. ASSUME NEW n \in req[t].doomed, pc[t] # "gc_check"
          PROVE  Cardinality(Survivors(t, n)') >= req[t].policy.keepLast
      <3>1. Survivors(t, n) \subseteq Survivors(t, n)' /\ Survivors(t, n)' \subseteq Existing'
        BY <1>5, <2>1 DEF Survivors
      <3>2. IsFiniteSet(Survivors(t, n)')
        BY <1>3, <3>1, FS_Subset
      <3>3. IsFiniteSet(Survivors(t, n)) /\ Cardinality(Survivors(t, n)) <= Cardinality(Survivors(t, n)')
        BY <3>1, <3>2, FS_Subset
      <3>4. Cardinality(Survivors(t, n)) >= req[t].policy.keepLast
        BY <2>2 DEF NewestOK
      <3>5. Cardinality(Survivors(t, n)) \in Nat /\ Cardinality(Survivors(t, n)') \in Nat
        BY <3>2, <3>3, FS_CardinalityType
      <3> QED BY <1>2, <3>3, <3>4, <3>5
    <2>3. ASSUME NEW n \in req[t].doomed, pc[t] = "gc_check"
          PROVE  Enough(t, snapshots[n].created)'
      BY <1>5, <2>1, <2>3 DEF NewestOK, Enough
    <2>4. ASSUME NEW i \in req[t].items \ req[t].keep PROVE Enough(t, i.created)'
      BY <1>5, <2>4 DEF NewestOK, Enough
    <2> QED BY <1>5, <2>2, <2>3, <2>4 DEF NewestOK
  <1>6. CASE /\ pc'[t] = "gc_check" /\ req'[t].items = {ItemOf(n) : n \in Existing}
             /\ req'[t].keep \subseteq req'[t].items /\ req'[t].doomed = {}
             /\ Newest(req'[t].keep, req'[t].items, req'[t].policy.keepLast)
    <2> DEFINE f == [n \in Existing |-> ItemOf(n)]
    <2>1. f \in Surjection(Existing, req'[t].items)
      BY <1>6 DEF Surjection
    <2>2. IsFiniteSet(req'[t].items)
      BY <1>3, <2>1, FS_Surjection
    <2>3. IsFiniteSet(req'[t].keep) /\ (req'[t].keep # req'[t].items =>
                                          Cardinality(req'[t].keep) >= req'[t].policy.keepLast)
      BY <1>2, <1>6, <2>2, NewestFacts
    <2>4. ASSUME NEW i \in req'[t].items \ req'[t].keep PROVE Enough(t, i.created)'
      BY <1>6, <2>3, <2>4 DEF Enough, Newest
    <2> QED BY <1>6, <2>3, <2>4
  <1>7. ASSUME NEW item \in req[t].items,
               pc[t] = "gc_check", pc'[t] = "gc_check", req'[t].items = req[t].items \ {item},
               req'[t].keep = req[t].keep, req'[t].policy = req[t].policy, UNCHANGED snapshots,
               req'[t].doomed = IF Keep(t, item) THEN req[t].doomed ELSE req[t].doomed \cup {item.name}
        PROVE  /\ IsFiniteSet(req'[t].keep)
               /\ \A i \in req'[t].keep : i.name \notin req'[t].doomed
               /\ \A i \in req'[t].items \ req'[t].keep : Enough(t, i.created)'
               /\ \A n \in req'[t].doomed : Enough(t, snapshots[n].created)'
    <2>1. ASSUME NEW created, Enough(t, created) PROVE Enough(t, created)'
      BY <1>7, <2>1 DEF Enough
    <2>2. item \notin req[t].keep => item.name \notin {i.name : i \in req[t].keep}
      BY DEF ListedOK
    <2>3. ASSUME ~Keep(t, item) PROVE Enough(t, snapshots[item.name].created) /\ item \notin req[t].keep
      BY <2>3 DEF Keep, NewestOK, ListedOK, ItemOf
    <2>4. ASSUME NEW n \in req'[t].doomed PROVE Enough(t, snapshots[n].created)'
      <3>1. Enough(t, snapshots[n].created)
        BY <1>7, <2>3, <2>4 DEF NewestOK
      <3> QED BY <1>7, <3>1 DEF Enough
    <2> QED BY <1>7, <2>1, <2>2, <2>3, <2>4 DEF NewestOK
  <1>8. CASE /\ pc[t] = "gc_check" /\ pc'[t] = "gc_delete" /\ req'[t].items = {} /\ req'[t].keep = {}
             /\ req'[t].policy = req[t].policy /\ req'[t].doomed = req[t].doomed /\ UNCHANGED snapshots
    <2>1. ASSUME NEW n \in req[t].doomed PROVE Cardinality(Survivors(t, n)') >= req[t].policy.keepLast
      <3>1. Enough(t, snapshots[n].created) /\ IsFiniteSet(req[t].keep) /\ n \in Names
        BY <1>1, <1>8, <2>1 DEF NewestOK, Requests
      <3>2. Survivors(t, n)' = Survivors(t, n) /\ Survivors(t, n) \subseteq Existing
        BY <1>8 DEF Survivors, Existing
      <3>3. IsFiniteSet(Survivors(t, n)) /\ Cardinality(Survivors(t, n)) \in Nat
        BY <1>3, <3>2, FS_Subset, FS_CardinalityType
      <3>4. \A i \in req[t].keep : i.name \in Survivors(t, n) /\ i = ItemOf(i.name)
        BY <3>1 DEF Survivors, Enough, ListedOK, NewestOK, ItemOf
      <3>5. Cardinality(req[t].keep) <= Cardinality(Survivors(t, n))
        BY <3>1, <3>3, <3>4, KeptNames
      <3>6. Cardinality(req[t].keep) \in Nat
        BY <3>1, FS_CardinalityType
      <3> QED BY <1>2, <3>1, <3>2, <3>3, <3>5, <3>6 DEF Enough
    <2> QED BY <1>8, <2>1, FS_EmptySet
  <1>9. ASSUME NEW m \in req[t].doomed,
                pc[t] = "gc_delete", pc'[t] = "gc_delete", req'[t].items = req[t].items,
                req'[t].keep = req[t].keep, req'[t].policy = req[t].policy,
                req'[t].doomed = req[t].doomed \ {m}, snapshots' = [snapshots EXCEPT ![m] = NoSnapshot]
         PROVE  /\ IsFiniteSet(req'[t].keep)
                /\ \A i \in req'[t].keep : i.name \notin req'[t].doomed
                /\ \A i \in req'[t].items \ req'[t].keep : Enough(t, i.created)'
                /\ \A n \in req'[t].doomed : Cardinality(Survivors(t, n)') >= req'[t].policy.keepLast
    <2>1. req[t].keep = {} /\ req[t].items = {}
      BY <1>1, <1>9 DEF RequestAt
    <2>2. Existing' = Existing \ {m} /\ snapshots \in [Names -> Snapshots]
      BY <1>9, ValueFacts DEF Existing, TablesOK
    <2>3. ASSUME NEW n \in req'[t].doomed PROVE Survivors(t, n)' = Survivors(t, n) /\ n \in req[t].doomed
      <3>1. n \in Names /\ n # m
        BY <1>1, <1>9 DEF Requests
      <3>2. \A k \in Names : k # m => snapshots'[k] = snapshots[k]
        BY <1>9, <2>2
      <3> QED BY <1>9, <2>2, <3>1, <3>2 DEF Survivors, Existing
    <2> QED BY <1>9, <2>1, <2>3, FS_EmptySet DEF NewestOK
  <1> QED BY <1>4, <1>5, <1>6, <1>7, <1>8, <1>9, CollectionMoves

-----------------------------------------------------------------------------
(* Results.                                                                 *)

\* The inductive invariant holds in every behaviour.
THEOREM Invariance == Spec => []IInv
  <1>1. Init => IInv
    <2> SUFFICES ASSUME Init PROVE IInv
      OBVIOUS
    <2>1. TablesOK
      <3>1. Existing = {}
        BY ValueFacts DEF Init, Existing
      <3> QED BY <3>1, ValueFacts, SnapshotAssumption, FS_EmptySet DEF Init, TablesOK, OptRevision
    <2>2. RequestsOK
      BY ValueFacts DEF Init, RequestsOK, RequestAt, PCs, Cloning, Collecting
    <2>3. LabelsOK /\ CloneHoldsRevision
      BY ValueFacts DEF Init, LabelsOK, Label, LabelIn, CloneHoldsRevision
    <2>4. SteadyOK
      BY ValueFacts DEF Init, SteadyOK
    <2>5. ListedOK /\ NewestOK
      BY ValueFacts, FS_EmptySet DEF Init, ListedOK, NewestOK
    <2> QED BY <2>1, <2>2, <2>3, <2>4, <2>5 DEF IInv
  <1>2. IInv /\ [Next]_vars => IInv'
    <2> SUFFICES ASSUME IInv, [Next]_vars PROVE IInv'
      OBVIOUS
    <2>1. TablesOK' /\ RequestsOK'
      BY TablesStep, RequestsStep DEF IInv
    <2>2. LabelsOK' /\ CloneHoldsRevision' /\ SteadyOK'
      BY LabelsStep, SteadyStep DEF IInv
    <2>3. ASSUME OneCollector PROVE ListedOK' /\ NewestOK'
      BY <2>1, <2>3, ListedStep, NewestStep DEF IInv
    <2> QED BY <2>1, <2>2, <2>3 DEF IInv, OneCollector
  <1> QED BY <1>1, <1>2, PTL DEF Spec

\* Every variable keeps its type, for any number of requests and snapshots.
THEOREM SnapshotTypeCorrect == Spec => []TypeOK
  <1>1. IInv => TypeOK
    BY DEF IInv, TablesOK, RequestsOK, SteadyOK, Requests, TypeOK
  <1> QED BY <1>1, Invariance, PTL

\* CloneContextSnapshot reads the label of a snapshot, and the volume is filled
\* later from whatever has its name then: the label is on the volume all the same,
\* for any number of collections, clones and reused names.
THEOREM CloneLabelsHold == Spec => []CloneHoldsRevision
  <1>1. IInv => CloneHoldsRevision
    BY DEF IInv
  <1> QED BY <1>1, Invariance, PTL

\* docs/context-lifecycle.md: a protected snapshot is never deleted, while
\* collections do not overlap.
THEOREM ProtectedAreKept == OneCollector => (Spec => ProtectedStay)
  <1> SUFFICES ASSUME OneCollector PROVE Spec => ProtectedStay
    OBVIOUS
  <1>1. IInv /\ [Next]_vars => [\A n \in Names : Deleted(n) => ~snapshots[n].protected]_vars
    <2> SUFFICES ASSUME IInv, Next, NEW n \in Names, Deleted(n) PROVE ~snapshots[n].protected
      OBVIOUS
    <2>1. \E t \in Threads : n \in req[t].doomed
      BY SnapshotMoves DEF IInv, Deleted
    <2> QED BY <2>1 DEF IInv, ListedOK
  <1> QED BY <1>1, Invariance, PTL DEF Spec, ProtectedStay

\* A collection never deletes what was referenced when it began, although it
\* asks for the references of each snapshot alone and deletes by name.
THEOREM SteadyReferencesAreKept == OneCollector => (Spec => SteadyReferencesStay)
  <1> SUFFICES ASSUME OneCollector PROVE Spec => SteadyReferencesStay
    OBVIOUS
  <1>1. IInv /\ [Next]_vars =>
          [\A n \in Names, t \in Collectors : pc[t] = "gc_delete" /\ Deleted(n) => n \notin steady[t]]_vars
    <2> SUFFICES ASSUME IInv, Next, NEW n \in Names, NEW t \in Collectors, pc[t] = "gc_delete", Deleted(n)
                 PROVE  n \notin steady[t]
      OBVIOUS
    <2>1. PICK u \in Threads : pc[u] = "gc_delete" /\ n \in req[u].doomed
      BY SnapshotMoves DEF IInv, Deleted
    <2>2. u = t
      BY <2>1 DEF IInv, OneCollector, RequestsOK, RequestAt, Collecting
    <2> QED BY <2>1, <2>2 DEF IInv, SteadyOK
  <1> QED BY <1>1, Invariance, PTL DEF Spec, SteadyReferencesStay

\* However many collections overlap, none deletes what was referenced when it
\* began itself.
OwnReferencesStay ==
  [][\A n \in Names, t \in Threads : CollectDelete(t) /\ Deleted(n) => n \notin steady[t]]_vars

\* The same as SteadyReferencesAreKept, without OneCollector.
THEOREM OwnReferencesAreKept == Spec => OwnReferencesStay
  <1>1. IInv => [\A n \in Names, t \in Threads : CollectDelete(t) /\ Deleted(n) => n \notin steady[t]]_vars
    <2> SUFFICES ASSUME IInv, NEW n \in Names, NEW t \in Threads, CollectDelete(t), Deleted(n)
                 PROVE  n \notin steady[t]
      OBVIOUS
    <2>1. n \in req[t].doomed
      BY DEF IInv, TablesOK, CollectDelete, Deleted
    <2> QED BY <2>1 DEF IInv, SteadyOK
  <1> QED BY <1>1, Invariance, PTL DEF OwnReferencesStay

\* docs/context-lifecycle.md: a policy by number leaves that many snapshots as new
\* as each one deleted.
THEOREM NewestAreKept == OneCollector => (Spec => NewestStay)
  <1> SUFFICES ASSUME OneCollector PROVE Spec => NewestStay
    OBVIOUS
  <1> DEFINE Rest(n) == {m \in Existing \ {n} : snapshots[m].created >= snapshots[n].created}
  <1>1. IInv /\ [Next]_vars =>
          [\A n \in Names, t \in Collectors : pc[t] = "gc_delete" /\ Deleted(n) =>
             Cardinality(Rest(n)) >= req[t].policy.keepLast]_vars
    <2> SUFFICES ASSUME IInv, Next, NEW n \in Names, NEW t \in Collectors, pc[t] = "gc_delete", Deleted(n)
                 PROVE  Cardinality(Rest(n)) >= req[t].policy.keepLast
      OBVIOUS
    <2>1. PICK u \in Threads : pc[u] = "gc_delete" /\ n \in req[u].doomed
      BY SnapshotMoves DEF IInv, Deleted
    <2>2. u = t
      BY <2>1 DEF IInv, OneCollector, RequestsOK, RequestAt, Collecting
    <2>3. Cardinality(Survivors(t, n)) >= req[t].policy.keepLast
      BY <2>1, <2>2 DEF IInv, NewestOK
    <2>4. Survivors(t, n) \subseteq Rest(n) /\ Rest(n) \subseteq Existing /\ IsFiniteSet(Existing)
      BY <2>1, <2>2 DEF Survivors, IInv, TablesOK
    <2>5. IsFiniteSet(Rest(n))
      BY <2>4, FS_Subset
    <2>6. IsFiniteSet(Survivors(t, n)) /\ Cardinality(Survivors(t, n)) <= Cardinality(Rest(n))
      BY <2>4, <2>5, FS_Subset
    <2>7. Cardinality(Survivors(t, n)) \in Nat /\ Cardinality(Rest(n)) \in Nat /\ req[t].policy.keepLast \in Nat
      BY <2>1, <2>2, <2>5, <2>6, FS_CardinalityType, ValueFacts DEF IInv, RequestsOK, Requests
    <2> QED BY <2>3, <2>6, <2>7
  <1> QED BY <1>1, Invariance, PTL DEF Spec, NewestStay
=============================================================================
