--------------------------- MODULE ContextUpload ---------------------------
(* One Context (a PersistentVolumeClaim under a fixed name) and the request *)
(* threads of one Context Service process: upload capabilities, uploads,    *)
(* freezes, revision publications and frozen exports                        *)
(* (internal/api/uploads.go, internal/kube/context_upload.go and            *)
(* PublishContextRevision in internal/kube/manager.go).                     *)
(* A thread advances by one Kubernetes API call, one lock operation or one  *)
(* access to the in-memory capability table at a time.                      *)
EXTENDS Integers, Sequences

CONSTANTS
  Threads,    \* concurrent HTTP requests
  Caps,       \* upload capability ids, each issued at most once
  Pods,       \* names for helper pods
  Revisions,  \* revision ids (bundle digests)
  None,       \* the empty string, the nil pointer
  Client,     \* producer of a revision published through POST /revisions
  MaxUid,     \* bound: PVCs ever created under the name
  MaxHistory, \* bound: no new request once the history has this many entries
  MaxTries,   \* steps of retry.DefaultRetry (5 in client-go)
  Ops,        \* the operations clients call in this instance
  Faults      \* the failures this instance allows

UIDs == 1..MaxUid
AllOps == {"issue", "upload", "freeze", "publish", "export"}
AllFaults == {"restart", "stream", "cleanup", "conflict", "reply"}

ASSUME UploadAssumption ==
  /\ None \notin Threads \cup Caps \cup Pods \cup Revisions
  /\ Client \notin Caps \cup {None}
  /\ MaxUid \in Nat \ {0} /\ MaxHistory \in Nat /\ MaxTries \in Nat \ {0}
  /\ Ops \subseteq AllOps /\ Faults \subseteq AllFaults

VARIABLES
  pvc,      \* the PVC now stored under the Context's name
  created,  \* PVCs created so far: the UID of the newest
  storage,  \* UID -> revisions materialized on that volume
  pod,      \* the helper pods
  caps,     \* uploadCapabilities.items
  lock,     \* Manager.uploadLocks: UID -> holder
  pc, req,  \* the threads
  redeemed, \* history: 201 answers per capability
  touched,  \* history: <<capability, UID>> whose volume or metadata it changed
  lost,     \* history: capabilities that published without learning of it
  left      \* history: helper pods at work that their request left behind

vars == <<pvc, created, storage, pod, caps, lock, pc, req, redeemed, touched, lost, left>>
cluster == <<pvc, created, storage>>
ghosts == <<redeemed, touched, lost, left>>

-----------------------------------------------------------------------------
NoPVC == [uid |-> 0, current |-> None, frozen |-> None, history |-> <<>>,
          terminating |-> FALSE]
NoPod == [phase |-> "none", kind |-> "upload", mount |-> 0, rev |-> None, cap |-> None]
NewCap == [state |-> "unused", uid |-> 0, expired |-> FALSE]
Blank == [op |-> "none", uid |-> 0, rev |-> None, cap |-> None, pod |-> None,
          seen |-> NoPVC, tries |-> 0, outcome |-> "none"]

Phases == {"none", "pending", "running", "working", "done", "rejected"}
PCs == {"idle", "iss_put", "up_get", "up_lock", "up_recheck", "pod_create",
        "pod_wait", "stream", "clean", "abort", "pub_get", "pub_update",
        "up_unlock", "up_finish", "frz_confirm", "frz_lock", "frz_get",
        "frz_update", "frz_unlock", "exp_check", "exp_recheck"}

Entries == [id : Revisions, by : Caps \cup {Client}]
PVCs == [uid : 0..MaxUid, current : Revisions \cup {None},
         frozen : Revisions \cup {None}, history : Seq(Entries),
         terminating : BOOLEAN]
HelperPods == [phase : Phases, kind : {"upload", "export"}, mount : 0..MaxUid,
               rev : Revisions \cup {None}, cap : Caps \cup {None}]
Capabilities == [state : {"unused", "issued", "in_flight", "gone"},
                 uid : 0..MaxUid, expired : BOOLEAN]
Requests == [op : AllOps \cup {"none"}, uid : 0..MaxUid,
             rev : Revisions \cup {None}, cap : Caps \cup {None},
             pod : Pods \cup {None}, seen : PVCs, tries : Nat,
             outcome : {"none", "ok", "failed", "frozen"}]

TypeOK ==
  /\ pvc \in PVCs
  /\ created \in 0..MaxUid
  /\ storage \in [UIDs -> SUBSET Revisions]
  /\ pod \in [Pods -> HelperPods]
  /\ caps \in [Caps -> Capabilities]
  /\ lock \in [UIDs -> Threads \cup {None}]
  /\ pc \in [Threads -> PCs]
  /\ req \in [Threads -> Requests]
  /\ redeemed \in [Caps -> Nat]
  /\ touched \subseteq Caps \X UIDs /\ lost \subseteq Caps /\ left \subseteq Pods

Init ==
  /\ pvc = NoPVC
  /\ created = 0
  /\ storage = [u \in UIDs |-> {}]
  /\ pod = [p \in Pods |-> NoPod]
  /\ caps = [c \in Caps |-> NewCap]
  /\ lock = [u \in UIDs |-> None]
  /\ pc = [t \in Threads |-> "idle"]
  /\ req = [t \in Threads |-> Blank]
  /\ redeemed = [c \in Caps |-> 0]
  /\ touched = {} /\ lost = {} /\ left = {}

-----------------------------------------------------------------------------
(* Control flow of a thread.                                                *)
Goto(t, label) == pc' = [pc EXCEPT ![t] = label]
\* A field of the request is cleared when the code no longer uses it.
Answer(t) == Goto(t, "idle") /\ req' = [req EXCEPT ![t] = Blank]
Begin(t, op, label, request) ==
  /\ pc[t] = "idle" /\ op \in Ops /\ Len(pvc.history) < MaxHistory
  /\ Goto(t, label)
  /\ req' = [req EXCEPT ![t] = [request EXCEPT !.op = op]]
\* UploadContext returns to uploadContext through its deferred unlock.
Leave(t, outcome) ==
  /\ Goto(t, "up_unlock")
  /\ req' = [req EXCEPT ![t].outcome = outcome, ![t].seen = NoPVC, ![t].pod = None,
                        ![t].rev = None, ![t].tries = 0]

-----------------------------------------------------------------------------
(* The PVC: created and deleted by clients, kept by the API server while a  *)
(* scheduled pod mounts it.                                                 *)
CreateContext ==
  /\ pvc.uid = 0 /\ created < MaxUid
  /\ created' = created + 1
  /\ pvc' = [NoPVC EXCEPT !.uid = created + 1]
  /\ UNCHANGED <<storage, pod, caps, lock, pc, req, ghosts>>

DeleteContext ==
  /\ pvc.uid # 0 /\ ~pvc.terminating
  /\ pvc' = [pvc EXCEPT !.terminating = TRUE]
  /\ UNCHANGED <<created, storage, pod, caps, lock, pc, req, ghosts>>

InUse(uid) == \E p \in Pods : pod[p].phase \notin {"none", "pending"} /\ pod[p].mount = uid

FinalizePVC ==
  /\ pvc.terminating /\ ~InUse(pvc.uid)
  /\ pvc' = NoPVC
  /\ UNCHANGED <<created, storage, pod, caps, lock, pc, req, ghosts>>

-----------------------------------------------------------------------------
(* The capability table.                                                    *)
Expire(c) ==
  /\ caps[c].state \in {"issued", "in_flight"} /\ ~caps[c].expired
  /\ caps' = [caps EXCEPT ![c].expired = TRUE]
  /\ UNCHANGED <<cluster, pod, lock, pc, req, ghosts>>

\* issueContextUpload: AccessContext answers with the UID and the frozen pin.
IssueAuthorize(t, c) ==
  /\ caps[c].state = "unused" /\ \A s \in Threads : req[s].cap # c
  /\ pvc.uid # 0 /\ pvc.frozen = None
  /\ Begin(t, "issue", "iss_put", [Blank EXCEPT !.cap = c, !.uid = pvc.uid])
  /\ UNCHANGED <<cluster, pod, caps, lock, ghosts>>

\* put drops every expired item, one in flight included, before it inserts.
Purged == [c \in Caps |-> IF caps[c].expired THEN [caps[c] EXCEPT !.state = "gone"] ELSE caps[c]]

IssuePut(t) ==
  /\ pc[t] = "iss_put"
  /\ caps' = [Purged EXCEPT ![req[t].cap] = [state |-> "issued", uid |-> req[t].uid, expired |-> FALSE]]
  /\ Answer(t)
  /\ UNCHANGED <<cluster, pod, lock, ghosts>>

UploadBegin(t, c, r) ==
  /\ caps[c].state = "issued" /\ ~caps[c].expired
  /\ caps' = [caps EXCEPT ![c].state = "in_flight"]
  /\ Begin(t, "upload", "up_get", [Blank EXCEPT !.cap = c, !.uid = caps[c].uid, !.rev = r])
  /\ UNCHANGED <<cluster, pod, lock, ghosts>>

\* Redeeming an expired capability drops it, even when it is in flight.
UploadRefused(c) ==
  /\ "upload" \in Ops /\ caps[c].expired /\ caps[c].state \in {"issued", "in_flight"}
  /\ caps' = [caps EXCEPT ![c].state = "gone"]
  /\ UNCHANGED <<cluster, pod, lock, pc, req, ghosts>>

\* Mutant: a successful upload gives the capability back.
FinishedReusable(c, outcome) ==
  IF caps[c].state # "in_flight" THEN caps
  ELSE [caps EXCEPT ![c].state =
          IF outcome = "frozen" \/ caps[c].expired THEN "gone" ELSE "issued"]

\* Mutant: a failed upload leaves the capability in flight.
FinishedStuck(c, outcome) ==
  IF caps[c].state # "in_flight" \/ outcome = "failed" THEN caps
  ELSE [caps EXCEPT ![c].state = "gone"]

\* finish(id, success): success, ErrFrozen and expiry consume the capability.
Finished(c, outcome) ==
  IF caps[c].state # "in_flight" THEN caps
  ELSE [caps EXCEPT ![c].state =
          IF outcome \in {"ok", "frozen"} \/ caps[c].expired THEN "gone" ELSE "issued"]

UploadFinish(t) ==
  /\ pc[t] = "up_finish"
  /\ caps' = Finished(req[t].cap, req[t].outcome)
  /\ redeemed' = IF req[t].outcome = "ok" THEN [redeemed EXCEPT ![req[t].cap] = @ + 1] ELSE redeemed
  /\ Answer(t)
  /\ UNCHANGED <<cluster, pod, lock, touched, lost, left>>

-----------------------------------------------------------------------------
(* UploadContext, up to the helper pod.                                     *)
UploadGet(t) ==
  /\ pc[t] = "up_get"
  /\ \/ pvc.uid = req[t].uid /\ Goto(t, "up_lock") /\ UNCHANGED req
     \/ pvc.uid # req[t].uid /\ Goto(t, "up_finish") /\ req' = [req EXCEPT ![t].outcome = "failed"]
  /\ UNCHANGED <<cluster, pod, caps, lock, ghosts>>

\* Mutant: uploads do not wait for the lock of the volume.
UploadLockFree(t) ==
  /\ pc[t] = "up_lock"
  /\ lock' = [lock EXCEPT ![req[t].uid] = t]
  /\ Goto(t, "up_recheck")
  /\ UNCHANGED <<cluster, pod, caps, req, ghosts>>

UploadLock(t) ==
  /\ pc[t] = "up_lock" /\ lock[req[t].uid] = None
  /\ lock' = [lock EXCEPT ![req[t].uid] = t]
  /\ Goto(t, "up_recheck")
  /\ UNCHANGED <<cluster, pod, caps, req, ghosts>>

UploadRecheck(t) ==
  /\ pc[t] = "up_recheck"
  /\ \/ pvc.uid # req[t].uid /\ Leave(t, "failed")
     \/ pvc.uid = req[t].uid /\ pvc.frozen # None /\ Leave(t, "frozen")
     \/ pvc.uid = req[t].uid /\ pvc.frozen = None /\ Goto(t, "pod_create") /\ UNCHANGED req
  /\ UNCHANGED <<cluster, pod, caps, lock, ghosts>>

\* Mutant: the lock is not released.
UploadUnlockMissed(t) ==
  /\ pc[t] = "up_unlock"
  /\ Goto(t, "up_finish")
  /\ UNCHANGED <<cluster, pod, caps, lock, req, ghosts>>

UploadUnlock(t) ==
  /\ pc[t] = "up_unlock"
  /\ lock' = [lock EXCEPT ![req[t].uid] = None]
  /\ Goto(t, "up_finish")
  /\ UNCHANGED <<cluster, pod, caps, req, ghosts>>

-----------------------------------------------------------------------------
(* Helper pods, for uploads and exports. A pod names its claim; the volume  *)
(* it mounts is the one behind that name when it is scheduled.              *)
CreatePod(t, p) ==
  /\ pc[t] = "pod_create"
  /\ pod[p].phase = "none" /\ \A s \in Threads : req[s].pod # p
  /\ pod' = [pod EXCEPT ![p] = [NoPod EXCEPT !.phase = "pending", !.kind = req[t].op,
                                             !.rev = req[t].rev, !.cap = req[t].cap]]
  /\ Goto(t, "pod_wait")
  /\ req' = [req EXCEPT ![t].pod = p]
  /\ UNCHANGED <<cluster, caps, lock, ghosts>>

\* The pod could not be created: nothing to clean up.
CreatePodFails(t) ==
  /\ pc[t] = "pod_create"
  /\ IF req[t].op = "upload" THEN Leave(t, "failed") ELSE Answer(t)
  /\ UNCHANGED <<cluster, pod, caps, lock, ghosts>>

PodMount(p) ==
  /\ pod[p].phase = "pending" /\ pvc.uid # 0 /\ ~pvc.terminating
  /\ pod' = [pod EXCEPT ![p].phase = "running", ![p].mount = pvc.uid]
  /\ UNCHANGED <<cluster, caps, lock, pc, req, ghosts>>

\* activeDeadlineSeconds, garbage collection after the owner PVC, node loss.
PodKilled(p) ==
  /\ pod[p].phase # "none"
  /\ pod' = [pod EXCEPT ![p] = NoPod]
  /\ left' = left \ {p}
  /\ UNCHANGED <<cluster, caps, lock, pc, req, redeemed, touched, lost>>

PodReady(t) ==
  /\ pc[t] = "pod_wait" /\ pod[req[t].pod].phase = "running"
  /\ \/ /\ req[t].op = "upload" /\ Goto(t, "stream")
        /\ pod' = [pod EXCEPT ![req[t].pod].phase = "working"]
     \/ /\ req[t].op = "export" /\ Goto(t, "exp_recheck")
        /\ UNCHANGED pod
  /\ UNCHANGED <<cluster, caps, lock, req, ghosts>>

\* The pod failed, or did not run within 30 seconds.
PodNotReady(t) ==
  /\ pc[t] = "pod_wait" /\ pod[req[t].pod].phase \in {"none", "pending"}
  /\ Goto(t, "abort")
  /\ UNCHANGED <<cluster, pod, caps, lock, req, ghosts>>

\* upload-helper adds the revision to the volume; export-helper reads it.
HelperWorks(p) ==
  /\ pod[p].phase = "working"
  /\ \/ /\ pod[p].kind = "upload"
        /\ storage' = [storage EXCEPT ![pod[p].mount] = @ \cup {pod[p].rev}]
        /\ touched' = touched \cup {<<pod[p].cap, pod[p].mount>>}
     \/ /\ pod[p].kind = "export" /\ pod[p].rev \in storage[pod[p].mount]
        /\ UNCHANGED <<storage, touched>>
  /\ pod' = [pod EXCEPT ![p].phase = "done"]
  /\ UNCHANGED <<pvc, created, caps, lock, pc, req, redeemed, lost, left>>

\* An invalid bundle, a limit exceeded, or a revision that is not there.
HelperRejects(p) ==
  /\ pod[p].phase = "working"
  /\ pod' = [pod EXCEPT ![p].phase = "rejected"]
  /\ UNCHANGED <<cluster, caps, lock, pc, req, ghosts>>

\* Mutant: the exit status of the helper is ignored.
StreamEndsAnyhow(t) ==
  /\ pc[t] = "stream" /\ pod[req[t].pod].phase \in {"done", "rejected"}
  /\ Goto(t, "clean")
  /\ UNCHANGED <<cluster, pod, caps, lock, req, ghosts>>

StreamEnds(t) ==
  /\ pc[t] = "stream" /\ pod[req[t].pod].phase = "done"
  /\ Goto(t, "clean")
  /\ UNCHANGED <<cluster, pod, caps, lock, req, ghosts>>

\* The helper exited with an error or is gone, or the stream was cut while
\* the helper still works on what it has received.
StreamFails(t) ==
  /\ pc[t] = "stream"
  /\ \/ pod[req[t].pod].phase \in {"none", "rejected"}
     \/ "stream" \in Faults /\ pod[req[t].pod].phase = "working"
  /\ Goto(t, "abort")
  /\ UNCHANGED <<cluster, pod, caps, lock, req, ghosts>>

\* deleteContextUploadPod after a successful stream, then publish or answer.
CleanPod(t) ==
  /\ pc[t] = "clean"
  /\ pod' = [pod EXCEPT ![req[t].pod] = NoPod]
  /\ \/ req[t].op = "upload" /\ Goto(t, "pub_get") /\ req' = [req EXCEPT ![t].pod = None]
     \/ req[t].op = "export" /\ Answer(t)
  /\ UNCHANGED <<cluster, caps, lock, ghosts>>

CleanPodFails(t) ==
  /\ pc[t] = "clean" /\ "cleanup" \in Faults
  /\ Goto(t, "abort")
  /\ UNCHANGED <<cluster, pod, caps, lock, req, ghosts>>

AtWork == {p \in Pods : pod[p].phase = "working"}

\* The deferred cleanup ignores its error, so the pod may outlive the call.
AbortPod(t) ==
  /\ pc[t] = "abort"
  /\ \/ pod' = [pod EXCEPT ![req[t].pod] = NoPod] /\ UNCHANGED left
     \/ /\ "cleanup" \in Faults /\ UNCHANGED pod
        /\ left' = left \cup (AtWork \cap {req[t].pod})
  /\ \/ req[t].op = "upload" /\ Leave(t, "failed")
     \/ req[t].op = "export" /\ Answer(t)
  /\ UNCHANGED <<cluster, caps, lock, redeemed, touched, lost>>

-----------------------------------------------------------------------------
(* PublishContextRevision, for POST /revisions and at the end of an upload: *)
(* it finds the PVC by name only.                                           *)
PublishBegin(t, r) ==
  /\ Begin(t, "publish", "pub_get", [Blank EXCEPT !.rev = r])
  /\ UNCHANGED <<cluster, pod, caps, lock, ghosts>>

PublishReturn(t, outcome) == IF req[t].op = "upload" THEN Leave(t, outcome) ELSE Answer(t)

\* Mutant: publication does not look at the frozen pin.
PublishGetAlways(t) ==
  /\ pc[t] = "pub_get"
  /\ \/ pvc.uid = 0 /\ PublishReturn(t, "failed")
     \/ /\ pvc.uid # 0
        /\ Goto(t, "pub_update") /\ req' = [req EXCEPT ![t].seen = pvc]
  /\ UNCHANGED <<cluster, pod, caps, lock, ghosts>>

PublishGet(t) ==
  /\ pc[t] = "pub_get"
  /\ \/ pvc.uid = 0 /\ PublishReturn(t, "failed")
     \/ /\ pvc.uid # 0 /\ pvc.frozen # None
        /\ PublishReturn(t, IF pvc.frozen = req[t].rev /\ pvc.current = pvc.frozen THEN "ok" ELSE "frozen")
     \/ /\ pvc.uid # 0 /\ pvc.frozen = None
        /\ Goto(t, "pub_update") /\ req' = [req EXCEPT ![t].seen = pvc]
  /\ UNCHANGED <<cluster, pod, caps, lock, ghosts>>

Producer(t) == IF req[t].op = "upload" THEN req[t].cap ELSE Client

\* Mutant: a revision is appended even when it is already current.
WithRevisionAgain(object, entry) ==
  [object EXCEPT !.current = entry.id, !.history = Append(@, entry)]

\* Mutant: the entry is written without its producer.
WithRevisionAlone(object, entry) ==
  [object EXCEPT !.current = entry.id,
                 !.history = IF object.current = entry.id THEN @ ELSE Append(@, [id |-> entry.id])]

WithRevision(object, entry) ==
  [object EXCEPT !.current = entry.id,
                 !.history = IF object.current = entry.id THEN @ ELSE Append(@, entry)]

\* Mutant: the write carries no resourceVersion, only the UID.
UnchangedUid(t) == pvc.uid = req[t].seen.uid

\* Update succeeds only on the object the Get returned. Every write here
\* changes the object for good, so equality stands for the resourceVersion.
Unchanged(t) == pvc = req[t].seen

PublishUpdate(t) ==
  /\ pc[t] = "pub_update" /\ Unchanged(t)
  /\ pvc' = WithRevision(req[t].seen, [id |-> req[t].rev, by |-> Producer(t)])
  /\ touched' = touched \cup IF req[t].op = "upload" THEN {<<req[t].cap, pvc.uid>>} ELSE {}
  /\ \/ PublishReturn(t, "ok") /\ UNCHANGED lost
     \/ /\ "reply" \in Faults /\ PublishReturn(t, "failed")
        /\ lost' = lost \cup ({Producer(t)} \ {Client})
  /\ UNCHANGED <<created, storage, pod, caps, lock, redeemed, left>>

\* A conflict: with a writer of this module, or (fault) with one that changed
\* only metadata this module leaves out. RetryOnConflict then reads again.
Conflict(t, again, giveup) ==
  /\ ~Unchanged(t) \/ "conflict" \in Faults
  /\ \/ req[t].tries + 1 < MaxTries /\ Goto(t, again) /\ req' = [req EXCEPT ![t].tries = @ + 1, ![t].seen = NoPVC]
     \/ req[t].tries + 1 >= MaxTries /\ giveup

PublishConflict(t) ==
  /\ pc[t] = "pub_update"
  /\ Conflict(t, "pub_get", PublishReturn(t, "failed"))
  /\ UNCHANGED <<cluster, pod, caps, lock, ghosts>>

-----------------------------------------------------------------------------
(* freezeContext and FreezeContext.                                         *)
FreezeAuthorize(t, r) ==
  /\ pvc.uid # 0
  /\ Begin(t, "freeze", "frz_confirm", [Blank EXCEPT !.rev = r, !.uid = pvc.uid])
  /\ UNCHANGED <<cluster, pod, caps, lock, ghosts>>

\* The second AccessContext must see the same storage identity.
FreezeConfirm(t) ==
  /\ pc[t] = "frz_confirm"
  /\ \/ pvc.uid = req[t].uid /\ Goto(t, "frz_lock") /\ UNCHANGED req
     \/ pvc.uid # req[t].uid /\ Answer(t)
  /\ UNCHANGED <<cluster, pod, caps, lock, ghosts>>

\* Mutant: FreezeContext does not try the lock.
FreezeWithoutLock(t) ==
  /\ pc[t] = "frz_lock"
  /\ Goto(t, "frz_get")
  /\ UNCHANGED <<cluster, pod, caps, lock, req, ghosts>>

FreezeTryLock(t) ==
  /\ pc[t] = "frz_lock"
  /\ \/ /\ lock[req[t].uid] = None
        /\ lock' = [lock EXCEPT ![req[t].uid] = t]
        /\ Goto(t, "frz_get") /\ UNCHANGED req
     \/ lock[req[t].uid] # None /\ Answer(t) /\ UNCHANGED lock
  /\ UNCHANGED <<cluster, pod, caps, ghosts>>

\* Mutant: FreezeContext pins the requested revision without comparing it to current.
FreezeGetAny(t) ==
  /\ pc[t] = "frz_get"
  /\ LET writable == pvc.uid = req[t].uid /\ pvc.uid # 0 /\ pvc.frozen = None
     IN \/ writable /\ Goto(t, "frz_update") /\ req' = [req EXCEPT ![t].seen = pvc]
        \/ ~writable /\ Goto(t, "frz_unlock") /\ UNCHANGED req
  /\ UNCHANGED <<cluster, pod, caps, lock, ghosts>>

\* NotFound, RevisionConflict, already frozen: no write.
FreezeGet(t) ==
  /\ pc[t] = "frz_get"
  /\ LET writable == pvc.uid = req[t].uid /\ pvc.current = req[t].rev /\ pvc.frozen = None
     IN \/ writable /\ Goto(t, "frz_update") /\ req' = [req EXCEPT ![t].seen = pvc]
        \/ ~writable /\ Goto(t, "frz_unlock") /\ UNCHANGED req
  /\ UNCHANGED <<cluster, pod, caps, lock, ghosts>>

FreezeUpdate(t) ==
  /\ pc[t] = "frz_update" /\ Unchanged(t)
  /\ pvc' = [req[t].seen EXCEPT !.frozen = req[t].rev]
  /\ Goto(t, "frz_unlock")
  /\ UNCHANGED <<created, storage, pod, caps, lock, req, ghosts>>

FreezeConflict(t) ==
  /\ pc[t] = "frz_update"
  /\ Conflict(t, "frz_get", Goto(t, "frz_unlock") /\ UNCHANGED req)
  /\ UNCHANGED <<cluster, pod, caps, lock, ghosts>>

FreezeUnlock(t) ==
  /\ pc[t] = "frz_unlock"
  /\ lock' = [lock EXCEPT ![req[t].uid] = None]
  /\ Answer(t)
  /\ UNCHANGED <<cluster, pod, caps, ghosts>>

-----------------------------------------------------------------------------
(* exportFrozenContext and ExportFrozenContext.                             *)
PinnedAt(uid, r) == pvc.uid = uid /\ pvc.current = r /\ pvc.frozen = r

ExportAuthorize(t, r) ==
  /\ pc[t] = "idle" /\ "export" \in Ops
  /\ pvc.uid # 0 /\ PinnedAt(pvc.uid, r)
  /\ Goto(t, "exp_check")
  /\ req' = [req EXCEPT ![t] = [Blank EXCEPT !.op = "export", !.rev = r, !.uid = pvc.uid]]
  /\ UNCHANGED <<cluster, pod, caps, lock, ghosts>>

ExportCheck(t) ==
  /\ pc[t] = "exp_check"
  /\ \/ PinnedAt(req[t].uid, req[t].rev) /\ Goto(t, "pod_create") /\ UNCHANGED req
     \/ ~PinnedAt(req[t].uid, req[t].rev) /\ Answer(t)
  /\ UNCHANGED <<cluster, pod, caps, lock, ghosts>>

\* Mutant: the stream starts without the second check.
ExportRecheckNot(t) ==
  /\ pc[t] = "exp_recheck"
  /\ \/ /\ pod[req[t].pod].phase = "running"
        /\ pod' = [pod EXCEPT ![req[t].pod].phase = "working"]
        /\ Goto(t, "stream")
     \/ /\ pod[req[t].pod].phase # "running"
        /\ Goto(t, "abort") /\ UNCHANGED pod
  /\ UNCHANGED <<cluster, caps, lock, req, ghosts>>

\* Checked again once the pod runs: the exec stream starts only if unchanged.
ExportRecheck(t) ==
  /\ pc[t] = "exp_recheck"
  /\ \/ /\ PinnedAt(req[t].uid, req[t].rev) /\ pod[req[t].pod].phase = "running"
        /\ pod' = [pod EXCEPT ![req[t].pod].phase = "working"]
        /\ Goto(t, "stream")
     \/ /\ ~PinnedAt(req[t].uid, req[t].rev) \/ pod[req[t].pod].phase # "running"
        /\ Goto(t, "abort") /\ UNCHANGED pod
  /\ UNCHANGED <<cluster, caps, lock, req, ghosts>>

-----------------------------------------------------------------------------
(* The process restarts: threads, capabilities and locks are memory.        *)
Restart ==
  /\ "restart" \in Faults
  /\ \E t \in Threads : pc[t] # "idle"
  /\ pc' = [t \in Threads |-> "idle"]
  /\ req' = [t \in Threads |-> Blank]
  /\ lock' = [u \in UIDs |-> None]
  /\ caps' = [c \in Caps |-> IF caps[c].state = "unused" THEN caps[c] ELSE [caps[c] EXCEPT !.state = "gone"]]
  /\ left' = left \cup AtWork
  /\ UNCHANGED <<cluster, pod, redeemed, touched, lost>>

ThreadStep(t) ==
  \/ IssuePut(t) \/ UploadGet(t) \/ UploadLock(t) \/ UploadRecheck(t)
  \/ UploadUnlock(t) \/ UploadFinish(t)
  \/ \E p \in Pods : CreatePod(t, p)
  \/ CreatePodFails(t) \/ PodReady(t) \/ PodNotReady(t)
  \/ StreamEnds(t) \/ StreamFails(t) \/ CleanPod(t) \/ CleanPodFails(t) \/ AbortPod(t)
  \/ PublishGet(t) \/ PublishUpdate(t) \/ PublishConflict(t)
  \/ FreezeConfirm(t) \/ FreezeTryLock(t) \/ FreezeGet(t)
  \/ FreezeUpdate(t) \/ FreezeConflict(t) \/ FreezeUnlock(t)
  \/ ExportCheck(t) \/ ExportRecheck(t)

PodStep(p) == PodMount(p) \/ PodKilled(p) \/ HelperWorks(p) \/ HelperRejects(p)

Environment ==
  \/ CreateContext \/ DeleteContext \/ FinalizePVC \/ Restart
  \/ \E c \in Caps : Expire(c) \/ UploadRefused(c)
  \/ \E t \in Threads, c \in Caps : IssueAuthorize(t, c)
  \/ \E t \in Threads, c \in Caps, r \in Revisions : UploadBegin(t, c, r)
  \/ \E t \in Threads, r \in Revisions :
       PublishBegin(t, r) \/ FreezeAuthorize(t, r) \/ ExportAuthorize(t, r)

Next ==
  \/ Environment
  \/ \E t \in Threads : ThreadStep(t)
  \/ \E p \in Pods : PodStep(p)

Spec == Init /\ [][Next]_vars

(* A request keeps running; sync.Mutex hands a freed lock to a waiter in    *)
(* the end (starvation mode); a helper works or dies by its deadline.       *)
Fairness ==
  /\ \A t \in Threads : WF_vars(ThreadStep(t)) /\ SF_vars(UploadLock(t))
  /\ \A p \in Pods : WF_vars(PodStep(p))

FairSpec == Spec /\ Fairness

-----------------------------------------------------------------------------
(* Properties.                                                              *)

\* The stretch of UploadContext between the recheck and the return.
Importing == {"pod_create", "pod_wait", "stream", "clean", "abort", "pub_get", "pub_update"}
UploadIn(t, labels) == req[t].op = "upload" /\ pc[t] \in labels

(* The frozen pin is the current revision (FreezeContext pins what is       *)
(* current, PublishContextRevision never moves current past a pin).         *)
FrozenIsCurrent == pvc.frozen # None => pvc.frozen = pvc.current

(* Once a Context is frozen, no request ever changes its pin, its current   *)
(* revision or its history: freezes and publications that read the PVC      *)
(* before the freeze lose to it.                                            *)
FrozenNeverMoves ==
  [][pvc.frozen # None /\ pvc'.uid = pvc.uid
       => /\ pvc'.frozen = pvc.frozen
          /\ pvc'.current = pvc.current
          /\ pvc'.history = pvc.history]_vars

(* A freeze never lands while an upload to the same volume is between its   *)
(* frozen check and its return, and no upload gets past the check after it. *)
FreezeExcludesUpload ==
  \A t \in Threads : UploadIn(t, Importing) /\ req[t].uid = pvc.uid => pvc.frozen = None

(* The history ends in the current revision and records only changes of it, *)
(* whatever publications interleave.                                        *)
HistoryTracksCurrent ==
  /\ pvc.current = IF pvc.history = <<>> THEN None ELSE pvc.history[Len(pvc.history)].id
  /\ \A i \in 1..(Len(pvc.history) - 1) : pvc.history[i].id # pvc.history[i + 1].id

(* No publication overwrites the entry of another one.                      *)
HistoryAppendOnly ==
  [][pvc'.uid = pvc.uid
       => /\ Len(pvc'.history) >= Len(pvc.history)
          /\ \A i \in 1..Len(pvc.history) : pvc'.history[i] = pvc.history[i]]_vars

(* A capability is answered with 201 at most once, whatever is retried,     *)
(* expires or is redeemed concurrently, and adds at most one revision to    *)
(* the history, unless the reply to an update that took effect was lost and *)
(* the upload was retried (finish in internal/api/uploads.go).              *)
OneSuccessPerCapability == \A c \in Caps : redeemed[c] <= 1
OnePublishPerCapability ==
  \A i, j \in 1..Len(pvc.history) :
    pvc.history[i].by = pvc.history[j].by /\ pvc.history[i].by \notin lost \cup {Client} => i = j
PublishedOnce == OneSuccessPerCapability /\ OnePublishPerCapability

(* While the Context is not recreated, a revision published by an upload is *)
(* on its volume.                                                           *)
UploadedIsMaterialized ==
  created <= 1 =>
    \A i \in 1..Len(pvc.history) :
      pvc.history[i].by # Client => pvc.history[i].id \in storage[pvc.uid]

(* An export helper streams only from the volume the request was authorized *)
(* for, and only the revision that is frozen there.                         *)
ExportReadsPinned ==
  \A t \in Threads : req[t].op = "export" /\ pc[t] = "stream" /\ pod[req[t].pod].phase = "working"
    => pod[req[t].pod].mount = req[t].uid /\ PinnedAt(req[t].uid, req[t].rev)

(* docs/context-upload.md: uploads to one PVC run one at a time. That holds *)
(* of the helpers that have not been left behind, by a restart or because   *)
(* the stream was cut and the pod could not be deleted, and that mounted    *)
(* the PVC their request was authorized for, whose lock it holds.           *)
Importers(u) == {p \in AtWork \ left : pod[p].kind = "upload" /\ pod[p].mount = u}
Misdirected == {p \in Pods : \E t \in Threads : req[t].pod = p /\ req[t].uid # pod[p].mount}
ImportsSerial == \A u \in UIDs : \A p, q \in Importers(u) \ Misdirected : p = q

(* docs/context-upload.md: a capability is bound to its PVC UID, a          *)
(* recreated PVC invalidates it.                                            *)
BoundToStorage == \A w \in touched : caps[w[1]].uid = w[2]

(* Every request that starts is answered: no upload, freeze or export waits *)
(* forever for a lock, a helper pod or a write that keeps conflicting.      *)
RequestsEnd == \A t \in Threads : pc[t] # "idle" ~> pc[t] = "idle"

(* A capability never stays in flight: it is consumed or usable again.      *)
CapabilityReturns == \A c \in Caps : caps[c].state = "in_flight" ~> caps[c].state # "in_flight"

(* The service implements the register: every API call maps to one register *)
(* operation or to none, whatever requests interleave.                      *)
Register == INSTANCE RevisionRegister WITH
  uid <- pvc.uid, current <- pvc.current, frozen <- pvc.frozen, history <- pvc.history
RegisterSpec == Register!Spec
=============================================================================
