------------------------ MODULE ContextUploadProofs ------------------------
(* The inductive invariant of ContextUpload and what follows from it, for   *)
(* every number of threads, capabilities, helper pods, revisions, PVC       *)
(* incarnations and retries.                                                *)
EXTENDS ContextUpload, TLAPS

-----------------------------------------------------------------------------
(* The strengthening.                                                       *)

UploadLabels == {"up_get", "up_lock", "up_recheck", "up_unlock", "up_finish"}
PodLabels == {"pod_create", "pod_wait", "stream", "clean", "abort"}
PublishLabels == {"pub_get", "pub_update"}
FreezeLabels == {"frz_confirm", "frz_lock", "frz_get", "frz_update", "frz_unlock"}
ExportLabels == {"exp_check", "exp_recheck"}
\* The labels from which a request still uses its revision, its helper pod.
RevisionLabels == {"up_get", "up_lock", "up_recheck"}
                  \cup PodLabels \cup PublishLabels \cup FreezeLabels \cup ExportLabels
HelperLabels == {"pod_wait", "stream", "clean", "abort", "exp_recheck"}

\* Which request can stand at a label, what it carries there, and that a
\* write under way was decided on an object that was there and not frozen.
ThreadOK(label, r) ==
  /\ label \in PCs /\ r \in Requests
  /\ label = "iss_put" => r.op = "issue"
  /\ label \in UploadLabels => r.op = "upload"
  /\ label \in PodLabels => r.op \in {"upload", "export"}
  /\ label \in PublishLabels => r.op \in {"upload", "publish"}
  /\ label \in FreezeLabels => r.op = "freeze"
  /\ label \in ExportLabels => r.op = "export"
  /\ r.op \in {"issue", "upload", "freeze", "export"} => r.uid \in UIDs
  /\ r.op \in {"issue", "upload"} => r.cap \in Caps
  /\ label \in RevisionLabels => r.rev \in Revisions
  /\ label \in HelperLabels => r.pod \in Pods
  /\ label \in {"pub_update", "frz_update"} => r.seen.uid # 0 /\ r.seen.frozen = None
  /\ label = "frz_update" => r.seen.uid = r.uid /\ r.seen.current = r.rev

ThreadsOK ==
  /\ pc \in [Threads -> PCs] /\ req \in [Threads -> Requests]
  /\ \A t \in Threads : ThreadOK(pc[t], req[t])

CapOK(c) == c \in Capabilities /\ (c.state \in {"issued", "in_flight"} => c.uid \in UIDs)

PodOK(p) ==
  /\ p \in HelperPods
  /\ p.phase \notin {"none", "pending"} => p.mount \in UIDs
  /\ p.phase # "none" /\ p.kind = "upload" => p.cap \in Caps
  /\ p.phase # "none" => p.rev \in Revisions

TableOK ==
  /\ created \in 0..MaxUid
  /\ storage \in [UIDs -> SUBSET Revisions]
  /\ pod \in [Pods -> HelperPods] /\ \A p \in Pods : PodOK(pod[p])
  /\ caps \in [Caps -> Capabilities] /\ \A c \in Caps : CapOK(caps[c])
  /\ lock \in [UIDs -> Threads \cup {None}]
  /\ redeemed \in [Caps -> Nat]
  /\ touched \subseteq Caps \X UIDs /\ lost \subseteq Caps /\ left \subseteq Pods

\* The object behind the Context's name.
Tracks(history, current) ==
  /\ current = IF history = <<>> THEN None ELSE history[Len(history)].id
  /\ \A i \in 1..(Len(history) - 1) : history[i].id # history[i + 1].id

ObjectOK(object) ==
  /\ object \in PVCs
  /\ object.uid = 0 => object = NoPVC
  /\ object.frozen # None => object.frozen = object.current
  /\ Tracks(object.history, object.current)

\* Who holds the lock of a volume.
Holding(t) ==
  \/ UploadIn(t, Importing \cup {"up_recheck", "up_unlock"})
  \/ pc[t] \in {"frz_get", "frz_update", "frz_unlock"}
LockHeld == \A t \in Threads : Holding(t) => lock[req[t].uid] = t

IInv == ThreadsOK /\ TableOK /\ ObjectOK(pvc) /\ LockHeld /\ FreezeExcludesUpload

-----------------------------------------------------------------------------
(* The control flow operators keep the threads well formed.                 *)

\* A step that moves one thread to a well-formed place keeps all threads well formed.
LEMMA ThreadFrame ==
  ASSUME ThreadsOK, NEW t \in Threads, NEW label, NEW r, ThreadOK(label, r),
         pc' = [pc EXCEPT ![t] = label], req' = [req EXCEPT ![t] = r]
  PROVE  ThreadsOK'
  <1>1. label \in PCs /\ r \in Requests
    BY DEF ThreadOK
  <1>2. pc' \in [Threads -> PCs] /\ req' \in [Threads -> Requests]
    BY <1>1 DEF ThreadsOK
  <1>3. ASSUME NEW s \in Threads PROVE ThreadOK(pc'[s], req'[s])
    <2>1. CASE s = t
      BY <2>1 DEF ThreadsOK
    <2>2. CASE s # t
      BY <2>2 DEF ThreadsOK
    <2> QED BY <2>1, <2>2
  <1> QED BY <1>2, <1>3 DEF ThreadsOK

\* Moving a thread to a label its request fits keeps the threads well formed.
LEMMA GotoOK ==
  ASSUME ThreadsOK, NEW t \in Threads, NEW label, ThreadOK(label, req[t]),
         Goto(t, label), UNCHANGED req
  PROVE  ThreadsOK'
  <1>1. req' = [req EXCEPT ![t] = req[t]]
    BY DEF ThreadsOK
  <1> QED BY <1>1, ThreadFrame DEF Goto

\* A thread with no request is well formed.
LEMMA BlankOK == UploadAssumption => ThreadOK("idle", Blank)
  <1> SUFFICES ASSUME UploadAssumption PROVE ThreadOK("idle", Blank)
    OBVIOUS
  <1>1. NoPVC \in PVCs
    BY DEF NoPVC, PVCs, UploadAssumption
  <1>2. Blank \in Requests /\ Blank.op = "none"
    BY <1>1 DEF Blank, Requests, UploadAssumption
  <1> QED BY <1>2 DEF ThreadOK, PCs, UploadLabels, PodLabels, PublishLabels, FreezeLabels,
                      ExportLabels, RevisionLabels, HelperLabels

\* Answering a request keeps the threads well formed.
LEMMA AnswerOK ==
  ASSUME UploadAssumption, ThreadsOK, NEW t \in Threads, Answer(t)
  PROVE  ThreadsOK'
  BY BlankOK, ThreadFrame DEF Answer, Goto

\* Returning from UploadContext keeps the threads well formed.
LEMMA LeaveOK ==
  ASSUME UploadAssumption, ThreadsOK, NEW t \in Threads, req[t].op = "upload",
         NEW outcome \in {"ok", "failed", "frozen"}, Leave(t, outcome)
  PROVE  ThreadsOK'
  <1> DEFINE r == [req[t] EXCEPT !.outcome = outcome, !.seen = NoPVC, !.pod = None,
                                 !.rev = None, !.tries = 0]
  <1>1. NoPVC \in PVCs /\ req[t] \in Requests
    BY DEF NoPVC, PVCs, UploadAssumption, ThreadsOK
  <1>2. r \in Requests /\ r.op = "upload" /\ r.uid = req[t].uid /\ r.cap = req[t].cap
    BY <1>1 DEF Requests
  <1>3. req[t].uid \in UIDs /\ req[t].cap \in Caps
    BY DEF ThreadsOK, ThreadOK
  <1>4. ThreadOK("up_unlock", r)
    BY <1>2, <1>3 DEF ThreadOK, PCs, UploadLabels, PodLabels, PublishLabels, FreezeLabels,
                      ExportLabels, RevisionLabels, HelperLabels
  <1> QED BY <1>4, ThreadFrame DEF Leave, Goto

\* Returning from PublishContextRevision keeps the threads well formed.
LEMMA PublishReturnOK ==
  ASSUME UploadAssumption, ThreadsOK, NEW t \in Threads,
         NEW outcome \in {"ok", "failed", "frozen"}, PublishReturn(t, outcome)
  PROVE  ThreadsOK'
  BY AnswerOK, LeaveOK DEF PublishReturn

\* Accepting a request that fits its first label keeps the threads well formed.
LEMMA BeginOK ==
  ASSUME ThreadsOK, NEW t \in Threads, NEW op, NEW label, NEW request,
         ThreadOK(label, [request EXCEPT !.op = op]), Begin(t, op, label, request)
  PROVE  ThreadsOK'
  BY ThreadFrame DEF Begin, Goto

-----------------------------------------------------------------------------
(* Every step keeps the threads well formed.                                *)

\* Every handler starts with a well-formed request.
LEMMA BeginsKeepThreads ==
  ASSUME UploadAssumption, IInv, NEW t \in Threads,
         \/ \E c \in Caps : IssueAuthorize(t, c) \/ \E r \in Revisions : UploadBegin(t, c, r)
         \/ \E r \in Revisions : PublishBegin(t, r) \/ FreezeAuthorize(t, r) \/ ExportAuthorize(t, r)
  PROVE  ThreadsOK'
  <1> USE DEF ThreadOK, PCs, UploadLabels, PodLabels, PublishLabels, FreezeLabels,
              ExportLabels, RevisionLabels, HelperLabels
  <1>1. ThreadsOK /\ pvc \in PVCs /\ NoPVC \in PVCs
    BY DEF IInv, ObjectOK, NoPVC, PVCs, UploadAssumption
  <1>2. pvc.uid # 0 => pvc.uid \in UIDs
    BY <1>1 DEF PVCs, UIDs, UploadAssumption
  <1>3. ASSUME NEW c \in Caps, IssueAuthorize(t, c)
        PROVE  ThreadsOK'
    <2> DEFINE r == [[Blank EXCEPT !.cap = c, !.uid = pvc.uid] EXCEPT !.op = "issue"]
    <2>1. r \in Requests /\ r.op = "issue" /\ r.uid = pvc.uid /\ r.cap = c
      BY <1>1 DEF Requests, Blank, AllOps, PVCs
    <2>2. ThreadOK("iss_put", r)
      BY <1>2, <1>3, <2>1 DEF IssueAuthorize
    <2> QED BY <1>1, <1>3, <2>2, BeginOK DEF IssueAuthorize
  <1>4. ASSUME NEW c \in Caps, NEW v \in Revisions, UploadBegin(t, c, v)
        PROVE  ThreadsOK'
    <2> DEFINE r == [[Blank EXCEPT !.cap = c, !.uid = caps[c].uid, !.rev = v] EXCEPT !.op = "upload"]
    <2>1. caps[c].uid \in UIDs /\ UIDs \subseteq 0..MaxUid
      <3>1. CapOK(caps[c])
        BY DEF IInv, TableOK
      <3>2. caps[c].state = "issued"
        BY <1>4 DEF UploadBegin
      <3>3. UIDs \subseteq 0..MaxUid
        BY DEF UIDs, UploadAssumption
      <3> QED BY <3>1, <3>2, <3>3 DEF CapOK
    <2>2. r \in Requests /\ r.op = "upload" /\ r.uid = caps[c].uid /\ r.cap = c /\ r.rev = v
      BY <1>1, <2>1 DEF Requests, Blank, AllOps
    <2>3. ThreadOK("up_get", r)
      BY <2>1, <2>2
    <2> QED BY <1>1, <1>4, <2>3, BeginOK DEF UploadBegin
  <1>5. ASSUME NEW v \in Revisions, PublishBegin(t, v)
        PROVE  ThreadsOK'
    <2> DEFINE r == [[Blank EXCEPT !.rev = v] EXCEPT !.op = "publish"]
    <2>1. r \in Requests /\ r.op = "publish" /\ r.rev = v
      <3>1. Blank \in Requests
        BY BlankOK
      <3> QED BY <3>1 DEF Requests, AllOps
    <2>2. ThreadOK("pub_get", r)
      BY <2>1
    <2> QED BY <1>1, <1>5, <2>2, BeginOK DEF PublishBegin
  <1>6. ASSUME NEW v \in Revisions, FreezeAuthorize(t, v)
        PROVE  ThreadsOK'
    <2> DEFINE r == [[Blank EXCEPT !.rev = v, !.uid = pvc.uid] EXCEPT !.op = "freeze"]
    <2>1. r \in Requests /\ r.op = "freeze" /\ r.rev = v /\ r.uid = pvc.uid
      BY <1>1 DEF Requests, Blank, AllOps, PVCs
    <2>2. ThreadOK("frz_confirm", r)
      BY <1>2, <1>6, <2>1 DEF FreezeAuthorize
    <2> QED BY <1>1, <1>6, <2>2, BeginOK DEF FreezeAuthorize
  <1>7. ASSUME NEW v \in Revisions, ExportAuthorize(t, v)
        PROVE  ThreadsOK'
    <2> DEFINE r == [Blank EXCEPT !.op = "export", !.rev = v, !.uid = pvc.uid]
    <2>1. r \in Requests /\ r.op = "export" /\ r.rev = v /\ r.uid = pvc.uid
      BY <1>1 DEF Requests, Blank, AllOps, PVCs
    <2>2. ThreadOK("exp_check", r)
      BY <1>2, <1>7, <2>1 DEF ExportAuthorize
    <2> QED BY <1>1, <1>7, <2>2, ThreadFrame DEF ExportAuthorize, Goto
  <1> QED BY <1>3, <1>4, <1>5, <1>6, <1>7

\* Every step of a handler keeps the threads well formed.
LEMMA StepsKeepThreads ==
  ASSUME UploadAssumption, IInv, NEW t \in Threads, ThreadStep(t)
  PROVE  ThreadsOK'
  <1> DEFINE r == req[t]
  <1> USE DEF PCs, UploadLabels, PodLabels, PublishLabels, FreezeLabels,
              ExportLabels, RevisionLabels, HelperLabels
  <1>1. ThreadsOK /\ ThreadOK(pc[t], r) /\ pvc \in PVCs /\ NoPVC \in PVCs /\ r \in Requests
    BY DEF IInv, ObjectOK, NoPVC, PVCs, UploadAssumption, ThreadsOK
  <1>2. CASE IssuePut(t)
    BY <1>1, <1>2, AnswerOK DEF IssuePut
  <1>3. CASE UploadGet(t)
    <2>1. CASE Goto(t, "up_lock") /\ UNCHANGED req
      BY <1>1, <1>3, <2>1, GotoOK DEF UploadGet, ThreadOK
    <2>2. CASE Goto(t, "up_finish") /\ req' = [req EXCEPT ![t].outcome = "failed"]
      <3> DEFINE q == [r EXCEPT !.outcome = "failed"]
      <3>1. q \in Requests /\ q.op = r.op /\ q.uid = r.uid /\ q.cap = r.cap
        BY <1>1 DEF Requests
      <3>2. ThreadOK("up_finish", q)
        BY <1>1, <1>3, <3>1 DEF UploadGet, ThreadOK
      <3> QED BY <1>1, <2>2, <3>2, ThreadFrame DEF Goto
    <2> QED BY <1>3, <2>1, <2>2 DEF UploadGet
  <1>4. CASE UploadLock(t)
    BY <1>1, <1>4, GotoOK DEF UploadLock, ThreadOK
  <1>5. CASE UploadRecheck(t)
    <2>1. CASE Goto(t, "pod_create") /\ UNCHANGED req
      BY <1>1, <1>5, <2>1, GotoOK DEF UploadRecheck, ThreadOK
    <2>2. r.op = "upload"
      BY <1>1, <1>5 DEF UploadRecheck, ThreadOK
    <2> QED BY <1>1, <1>5, <2>1, <2>2, LeaveOK DEF UploadRecheck
  <1>6. CASE UploadUnlock(t)
    BY <1>1, <1>6, GotoOK DEF UploadUnlock, ThreadOK
  <1>7. CASE UploadFinish(t)
    BY <1>1, <1>7, AnswerOK DEF UploadFinish
  <1>8. CASE \E p \in Pods : CreatePod(t, p)
    <2> PICK p \in Pods : CreatePod(t, p)
      BY <1>8
    <2> DEFINE q == [r EXCEPT !.pod = p]
    <2>1. q \in Requests /\ q.op = r.op /\ q.uid = r.uid /\ q.cap = r.cap /\ q.rev = r.rev
          /\ q.pod = p
      BY <1>1 DEF Requests
    <2>2. ThreadOK("pod_wait", q)
      BY <1>1, <2>1 DEF CreatePod, ThreadOK
    <2> QED BY <1>1, <2>2, ThreadFrame DEF CreatePod, Goto
  <1>9. CASE CreatePodFails(t)
    BY <1>1, <1>9, LeaveOK, AnswerOK DEF CreatePodFails
  <1>10. CASE PodReady(t)
    <2>1. CASE r.op = "upload" /\ Goto(t, "stream")
      BY <1>1, <1>10, <2>1, GotoOK DEF PodReady, ThreadOK
    <2>2. CASE r.op = "export" /\ Goto(t, "exp_recheck")
      BY <1>1, <1>10, <2>2, GotoOK DEF PodReady, ThreadOK
    <2> QED BY <1>10, <2>1, <2>2 DEF PodReady
  <1>11. CASE PodNotReady(t)
    BY <1>1, <1>11, GotoOK DEF PodNotReady, ThreadOK
  <1>12. CASE StreamEnds(t)
    BY <1>1, <1>12, GotoOK DEF StreamEnds, ThreadOK
  <1>13. CASE StreamFails(t)
    BY <1>1, <1>13, GotoOK DEF StreamFails, ThreadOK
  <1>14. CASE CleanPod(t)
    <2>1. CASE r.op = "upload" /\ Goto(t, "pub_get") /\ req' = [req EXCEPT ![t].pod = None]
      <3> DEFINE q == [r EXCEPT !.pod = None]
      <3>1. q \in Requests /\ q.op = r.op /\ q.uid = r.uid /\ q.cap = r.cap /\ q.rev = r.rev
        BY <1>1 DEF Requests
      <3>2. ThreadOK("pub_get", q)
        BY <1>1, <1>14, <2>1, <3>1 DEF CleanPod, ThreadOK
      <3> QED BY <1>1, <2>1, <3>2, ThreadFrame DEF Goto
    <2> QED BY <1>1, <1>14, <2>1, AnswerOK DEF CleanPod
  <1>15. CASE CleanPodFails(t)
    BY <1>1, <1>15, GotoOK DEF CleanPodFails, ThreadOK
  <1>16. CASE AbortPod(t)
    BY <1>1, <1>16, LeaveOK, AnswerOK DEF AbortPod
  <1>17. CASE PublishGet(t)
    <2>1. CASE \E outcome \in {"ok", "failed", "frozen"} : PublishReturn(t, outcome)
      BY <1>1, <2>1, PublishReturnOK
    <2>2. CASE pvc.uid # 0 /\ pvc.frozen = None /\ Goto(t, "pub_update")
               /\ req' = [req EXCEPT ![t].seen = pvc]
      <3> DEFINE q == [r EXCEPT !.seen = pvc]
      <3>1. q \in Requests /\ q.op = r.op /\ q.uid = r.uid /\ q.cap = r.cap /\ q.rev = r.rev
            /\ q.seen = pvc
        BY <1>1 DEF Requests
      <3>2. ThreadOK("pub_update", q)
        BY <1>1, <1>17, <2>2, <3>1 DEF PublishGet, ThreadOK
      <3> QED BY <1>1, <2>2, <3>2, ThreadFrame DEF Goto
    <2> QED BY <1>17, <2>1, <2>2 DEF PublishGet
  <1>18. CASE PublishUpdate(t)
    BY <1>1, <1>18, PublishReturnOK DEF PublishUpdate
  <1>19. ASSUME NEW again \in {"pub_get", "frz_get"}, ThreadOK(again, r),
                r.tries + 1 < MaxTries, Goto(t, again),
                req' = [req EXCEPT ![t].tries = @ + 1, ![t].seen = NoPVC]
         PROVE  ThreadsOK'
    <2> DEFINE q == [r EXCEPT !.tries = r.tries + 1, !.seen = NoPVC]
    <2>1. q \in Requests /\ q.op = r.op /\ q.uid = r.uid /\ q.cap = r.cap /\ q.rev = r.rev
          /\ q.pod = r.pod
      <3>1. r.tries + 1 \in Nat
        BY <1>1 DEF Requests
      <3> QED BY <1>1, <3>1 DEF Requests
    <2>2. ThreadOK(again, q)
      BY <1>19, <2>1 DEF ThreadOK
    <2>3. req' = [req EXCEPT ![t] = q]
      BY <1>1, <1>19
    <2> QED BY <1>1, <1>19, <2>2, <2>3, ThreadFrame DEF Goto
  <1>20. CASE PublishConflict(t)
    <2>1. ThreadOK("pub_get", r)
      BY <1>1, <1>20 DEF PublishConflict, ThreadOK
    <2> QED BY <1>1, <1>19, <1>20, <2>1, PublishReturnOK DEF PublishConflict, Conflict
  <1>21. CASE FreezeConfirm(t)
    <2>1. CASE Goto(t, "frz_lock") /\ UNCHANGED req
      BY <1>1, <1>21, <2>1, GotoOK DEF FreezeConfirm, ThreadOK
    <2> QED BY <1>1, <1>21, <2>1, AnswerOK DEF FreezeConfirm
  <1>22. CASE FreezeTryLock(t)
    <2>1. CASE Goto(t, "frz_get") /\ UNCHANGED req
      BY <1>1, <1>22, <2>1, GotoOK DEF FreezeTryLock, ThreadOK
    <2> QED BY <1>1, <1>22, <2>1, AnswerOK DEF FreezeTryLock
  <1>23. CASE FreezeGet(t)
    <2>1. CASE Goto(t, "frz_unlock") /\ UNCHANGED req
      BY <1>1, <1>23, <2>1, GotoOK DEF FreezeGet, ThreadOK
    <2>2. CASE /\ pvc.uid = r.uid /\ pvc.current = r.rev /\ pvc.frozen = None
               /\ Goto(t, "frz_update") /\ req' = [req EXCEPT ![t].seen = pvc]
      <3> DEFINE q == [r EXCEPT !.seen = pvc]
      <3>1. q \in Requests /\ q.op = r.op /\ q.uid = r.uid /\ q.cap = r.cap /\ q.rev = r.rev
            /\ q.seen = pvc
        BY <1>1 DEF Requests
      <3>2. r.uid # 0
        BY <1>1, <1>23 DEF FreezeGet, ThreadOK, UIDs
      <3>3. ThreadOK("frz_update", q)
        BY <1>1, <1>23, <2>2, <3>1, <3>2 DEF FreezeGet, ThreadOK
      <3> QED BY <1>1, <2>2, <3>3, ThreadFrame DEF Goto
    <2> QED BY <1>23, <2>1, <2>2 DEF FreezeGet
  <1>24. CASE FreezeUpdate(t)
    BY <1>1, <1>24, GotoOK DEF FreezeUpdate, ThreadOK
  <1>25. CASE FreezeConflict(t)
    <2>1. ThreadOK("frz_get", r) /\ ThreadOK("frz_unlock", r)
      BY <1>1, <1>25 DEF FreezeConflict, ThreadOK
    <2> QED BY <1>1, <1>19, <1>25, <2>1, GotoOK DEF FreezeConflict, Conflict
  <1>26. CASE FreezeUnlock(t)
    BY <1>1, <1>26, AnswerOK DEF FreezeUnlock
  <1>27. CASE ExportCheck(t)
    <2>1. CASE Goto(t, "pod_create") /\ UNCHANGED req
      BY <1>1, <1>27, <2>1, GotoOK DEF ExportCheck, ThreadOK
    <2> QED BY <1>1, <1>27, <2>1, AnswerOK DEF ExportCheck
  <1>28. CASE ExportRecheck(t)
    <2>1. CASE Goto(t, "stream")
      BY <1>1, <1>28, <2>1, GotoOK DEF ExportRecheck, ThreadOK
    <2>2. CASE Goto(t, "abort")
      BY <1>1, <1>28, <2>2, GotoOK DEF ExportRecheck, ThreadOK
    <2> QED BY <1>28, <2>1, <2>2 DEF ExportRecheck
  <1> QED BY <1>2, <1>3, <1>4, <1>5, <1>6, <1>7, <1>8, <1>9, <1>10, <1>11, <1>12, <1>13,
             <1>14, <1>15, <1>16, <1>17, <1>18, <1>20, <1>21, <1>22, <1>23, <1>24, <1>25,
             <1>26, <1>27, <1>28 DEF ThreadStep

\* Clients, the API server and a restart keep the threads well formed.
LEMMA EnvironmentKeepsThreads ==
  ASSUME UploadAssumption, IInv, Environment
  PROVE  ThreadsOK'
  <1>1. ThreadsOK
    BY DEF IInv
  <1>2. CASE UNCHANGED <<pc, req>>
    BY <1>1, <1>2 DEF ThreadsOK
  <1>3. CASE Restart
    <2>1. Blank \in Requests /\ ThreadOK("idle", Blank)
      BY BlankOK DEF ThreadOK
    <2> QED BY <1>3, <2>1 DEF Restart, ThreadsOK, PCs
  <1>4. CASE CreateContext \/ DeleteContext \/ FinalizePVC
    BY <1>2, <1>4 DEF CreateContext, DeleteContext, FinalizePVC
  <1>5. CASE \E c \in Caps : Expire(c) \/ UploadRefused(c)
    BY <1>2, <1>5 DEF Expire, UploadRefused
  <1> QED BY <1>3, <1>4, <1>5, BeginsKeepThreads DEF Environment

\* The helper pods do not touch the threads.
LEMMA PodStepsKeepThreads ==
  ASSUME IInv, NEW p \in Pods, PodStep(p)
  PROVE  ThreadsOK'
  BY DEF IInv, ThreadsOK, PodStep, PodMount, PodKilled, HelperWorks, HelperRejects

-----------------------------------------------------------------------------
(* The object behind the name changes in five steps only.                   *)

\* A step that changes the PVC is one of these five.
LEMMA ObjectSteps ==
  ASSUME Next
  PROVE  \/ UNCHANGED pvc
         \/ CreateContext \/ DeleteContext \/ FinalizePVC
         \/ \E t \in Threads : PublishUpdate(t) \/ FreezeUpdate(t)
  <1>1. CASE Environment
    BY <1>1 DEF Environment, cluster, Restart, Expire, UploadRefused, IssueAuthorize, UploadBegin,
                PublishBegin, FreezeAuthorize, ExportAuthorize
  <1>2. CASE \E t \in Threads : ThreadStep(t)
    BY <1>2 DEF ThreadStep, cluster, IssuePut, UploadGet, UploadLock, UploadRecheck, UploadUnlock,
                UploadFinish, CreatePod, CreatePodFails, PodReady, PodNotReady, StreamEnds,
                StreamFails, CleanPod, CleanPodFails, AbortPod, PublishGet, PublishConflict,
                FreezeConfirm, FreezeTryLock, FreezeGet, FreezeConflict, FreezeUnlock,
                ExportCheck, ExportRecheck
  <1>3. CASE \E p \in Pods : PodStep(p)
    BY <1>3 DEF PodStep, cluster, PodMount, PodKilled, HelperWorks, HelperRejects
  <1> QED BY <1>1, <1>2, <1>3 DEF Next

\* Appending a revision keeps the object well formed: the history tracks current.
LEMMA WithRevisionOK ==
  ASSUME UploadAssumption, NEW object, ObjectOK(object), object.uid # 0, object.frozen = None,
         NEW entry \in Entries
  PROVE  LET new == WithRevision(object, entry)
         IN  /\ ObjectOK(new) /\ new.uid = object.uid /\ new.frozen = None
             /\ new.current = entry.id
             /\ new.history = IF entry.id = object.current THEN object.history
                              ELSE Append(object.history, entry)
  <1> DEFINE new == WithRevision(object, entry)
             h == object.history
             k == IF entry.id = object.current THEN h ELSE Append(h, entry)
  <1>1. object \in PVCs /\ h \in Seq(Entries) /\ entry.id \in Revisions /\ entry.id # None
    BY DEF ObjectOK, PVCs, Entries, UploadAssumption
  <1>2. k \in Seq(Entries)
    BY <1>1
  <1>3. new \in PVCs /\ new.uid = object.uid /\ new.frozen = None
        /\ new.current = entry.id /\ new.history = k
    BY <1>1, <1>2 DEF PVCs, WithRevision
  <1>4. Tracks(h, object.current)
    BY DEF ObjectOK
  <1>5. Tracks(k, entry.id)
    <2>1. CASE entry.id = object.current
      BY <1>4, <2>1
    <2>2. CASE entry.id # object.current
      <3>1. k = Append(h, entry) /\ Len(k) = Len(h) + 1 /\ k[Len(k)] = entry /\ k # <<>>
        BY <1>1, <2>2
      <3>2. \A i \in 1..Len(h) : k[i] = h[i]
        BY <1>1, <2>2
      <3>3. ASSUME NEW i \in 1..(Len(k) - 1) PROVE k[i].id # k[i + 1].id
        <4>1. CASE i = Len(h)
          <5>1. h # <<>> /\ h[i].id = object.current
            BY <1>1, <1>4, <3>3, <4>1 DEF Tracks
          <5> QED BY <2>2, <3>1, <3>2, <4>1, <5>1
        <4>2. CASE i # Len(h)
          <5>1. Len(h) \in Nat /\ i \in 1..(Len(h) - 1) /\ i + 1 \in 1..Len(h)
            BY <1>1, <3>1, <3>3, <4>2
          <5> QED BY <1>4, <3>2, <5>1 DEF Tracks
        <4> QED BY <4>1, <4>2
      <3>4. k[Len(k)].id = entry.id
        BY <3>1
      <3> QED BY <3>1, <3>3, <3>4 DEF Tracks
    <2> QED BY <2>1, <2>2
  <1>6. new.frozen # None => new.frozen = new.current
    BY <1>3
  <1>7. ObjectOK(new)
    BY <1>3, <1>5, <1>6 DEF ObjectOK
  <1> QED BY <1>3, <1>7

\* What the two writes of the service do to the object.
LEMMA PublishWrites ==
  ASSUME UploadAssumption, IInv, NEW t \in Threads, PublishUpdate(t)
  PROVE  /\ pvc.uid # 0 /\ pvc.frozen = None
         /\ \E entry \in Entries : pvc' = WithRevision(pvc, entry)
  <1> DEFINE entry == [id |-> req[t].rev, by |-> Producer(t)]
  <1>1. pc[t] = "pub_update" /\ pvc = req[t].seen /\ pvc' = WithRevision(req[t].seen, entry)
    BY DEF PublishUpdate, Unchanged
  <1>2. ThreadOK(pc[t], req[t])
    BY DEF IInv, ThreadsOK
  <1>3. pvc.uid # 0 /\ pvc.frozen = None
    BY <1>1, <1>2 DEF ThreadOK
  <1>4. req[t].rev \in Revisions
    BY <1>1, <1>2 DEF ThreadOK, RevisionLabels, PublishLabels
  <1>5. Producer(t) \in Caps \cup {Client}
    BY <1>2 DEF ThreadOK, Producer
  <1>6. entry \in Entries
    BY <1>4, <1>5 DEF Entries
  <1> QED BY <1>1, <1>3, <1>6

\* A freeze that gets through pins the revision that is current at that moment.
LEMMA FreezeWrites ==
  ASSUME UploadAssumption, IInv, NEW t \in Threads, FreezeUpdate(t)
  PROVE  /\ pvc.uid = req[t].uid /\ pvc.uid # 0 /\ pvc.frozen = None
         /\ pvc.current \in Revisions /\ pvc.current # None
         /\ pvc' = [pvc EXCEPT !.frozen = pvc.current]
  <1>1. pc[t] = "frz_update" /\ pvc = req[t].seen
        /\ pvc' = [req[t].seen EXCEPT !.frozen = req[t].rev]
    BY DEF FreezeUpdate, Unchanged
  <1>2. ThreadOK(pc[t], req[t])
    BY DEF IInv, ThreadsOK
  <1>3. /\ pvc.uid = req[t].uid /\ pvc.uid # 0 /\ pvc.frozen = None
        /\ pvc.current = req[t].rev /\ req[t].rev \in Revisions
    BY <1>1, <1>2 DEF ThreadOK, RevisionLabels, FreezeLabels
  <1> QED BY <1>1, <1>3 DEF UploadAssumption

\* The absent object is well formed.
LEMMA NoPVCOK == UploadAssumption => ObjectOK(NoPVC)
  <1> SUFFICES ASSUME UploadAssumption PROVE ObjectOK(NoPVC)
    OBVIOUS
  <1>1. NoPVC \in PVCs
    BY DEF NoPVC, PVCs, UploadAssumption
  <1>2. Tracks(<<>>, None)
    BY DEF Tracks
  <1> QED BY <1>1, <1>2 DEF ObjectOK, NoPVC

\* Every step keeps the object well formed.
LEMMA ObjectKept ==
  ASSUME UploadAssumption, IInv, Next
  PROVE  ObjectOK(pvc)'
  <1>1. ObjectOK(pvc) /\ pvc \in PVCs
    BY DEF IInv, ObjectOK
  <1>2. CASE UNCHANGED pvc
    BY <1>1, <1>2 DEF ObjectOK, Tracks
  <1>3. CASE CreateContext
    <2>1. created + 1 \in 1..MaxUid
      BY <1>3 DEF CreateContext, IInv, TableOK, UploadAssumption
    <2>2. NoPVC \in PVCs /\ Tracks(NoPVC.history, NoPVC.current) /\ NoPVC.frozen = None
      BY NoPVCOK DEF ObjectOK, NoPVC
    <2>3. pvc' = [NoPVC EXCEPT !.uid = created + 1]
      BY <1>3 DEF CreateContext
    <2>4. pvc' \in PVCs /\ pvc'.uid # 0 /\ pvc'.history = NoPVC.history
          /\ pvc'.current = NoPVC.current /\ pvc'.frozen = NoPVC.frozen
      BY <2>1, <2>2, <2>3 DEF PVCs
    <2> QED BY <2>2, <2>4 DEF ObjectOK
  <1>4. CASE DeleteContext
    <2>1. pvc' \in PVCs /\ pvc'.uid = pvc.uid /\ pvc'.current = pvc.current
          /\ pvc'.frozen = pvc.frozen /\ pvc'.history = pvc.history
      BY <1>1, <1>4 DEF DeleteContext, PVCs
    <2>2. pvc.uid # 0
      BY <1>4 DEF DeleteContext
    <2> QED BY <1>1, <2>1, <2>2 DEF ObjectOK
  <1>5. CASE FinalizePVC
    BY <1>5, NoPVCOK DEF FinalizePVC
  <1>6. ASSUME NEW t \in Threads, PublishUpdate(t) PROVE ObjectOK(pvc)'
    <2>1. PICK entry \in Entries : pvc.uid # 0 /\ pvc.frozen = None /\ pvc' = WithRevision(pvc, entry)
      BY <1>6, PublishWrites
    <2> QED BY <1>1, <2>1, WithRevisionOK
  <1>7. ASSUME NEW t \in Threads, FreezeUpdate(t) PROVE ObjectOK(pvc)'
    <2>1. /\ pvc.uid # 0 /\ pvc.current \in Revisions /\ pvc.current # None
          /\ pvc' = [pvc EXCEPT !.frozen = pvc.current]
      BY <1>7, FreezeWrites
    <2>2. pvc' \in PVCs /\ pvc'.uid = pvc.uid /\ pvc'.current = pvc.current
          /\ pvc'.frozen = pvc.current /\ pvc'.history = pvc.history
      BY <1>1, <2>1 DEF PVCs
    <2> QED BY <1>1, <2>1, <2>2 DEF ObjectOK
  <1> QED BY <1>2, <1>3, <1>4, <1>5, <1>6, <1>7, ObjectSteps

-----------------------------------------------------------------------------
(* The tables: capabilities, helper pods, locks, volumes.                   *)

\* Which steps change the capabilities, the pods and the other tables.
LEMMA TableSteps ==
  ASSUME Next
  PROVE  /\ \/ UNCHANGED caps
            \/ \E c \in Caps : Expire(c) \/ UploadRefused(c)
            \/ \E t \in Threads : IssuePut(t) \/ UploadFinish(t)
            \/ \E t \in Threads, c \in Caps, r \in Revisions : UploadBegin(t, c, r)
            \/ Restart
         /\ \/ UNCHANGED pod
            \/ \E t \in Threads, p \in Pods : CreatePod(t, p)
            \/ \E t \in Threads : PodReady(t) \/ CleanPod(t) \/ AbortPod(t) \/ ExportRecheck(t)
            \/ \E p \in Pods : PodStep(p)
         /\ \/ UNCHANGED lock
            \/ \E t \in Threads : UploadLock(t) \/ UploadUnlock(t) \/ FreezeTryLock(t) \/ FreezeUnlock(t)
            \/ Restart
         /\ UNCHANGED created \/ CreateContext
         /\ UNCHANGED redeemed \/ \E t \in Threads : UploadFinish(t)
         /\ UNCHANGED storage \/ \E p \in Pods : HelperWorks(p)
         /\ \/ UNCHANGED touched
            \/ \E p \in Pods : HelperWorks(p)
            \/ \E t \in Threads : PublishUpdate(t)
         /\ UNCHANGED lost \/ \E t \in Threads : PublishUpdate(t)
         /\ \/ UNCHANGED left
            \/ \E t \in Threads : AbortPod(t)
            \/ \E p \in Pods : PodKilled(p)
            \/ Restart
  <1>1. CASE Environment
    BY <1>1 DEF Environment, cluster, ghosts, Restart, Expire, UploadRefused, IssueAuthorize,
       UploadBegin, PublishBegin, FreezeAuthorize, ExportAuthorize, CreateContext, DeleteContext,
       FinalizePVC
  <1>2. CASE \E t \in Threads : ThreadStep(t)
    <2> PICK t \in Threads : ThreadStep(t)
      BY <1>2
    <2>1. CASE IssuePut(t) \/ UploadFinish(t)
      BY <2>1 DEF cluster, ghosts, IssuePut, UploadFinish
    <2>2. CASE UploadLock(t) \/ UploadUnlock(t) \/ FreezeTryLock(t) \/ FreezeUnlock(t)
      BY <2>2 DEF cluster, ghosts, UploadLock, UploadUnlock, FreezeTryLock, FreezeUnlock
    <2>3. CASE \/ PodReady(t) \/ CleanPod(t) \/ AbortPod(t) \/ ExportRecheck(t)
               \/ \E p \in Pods : CreatePod(t, p)
      BY <2>3 DEF cluster, ghosts, PodReady, CleanPod, AbortPod, ExportRecheck, CreatePod
    <2>4. CASE PublishUpdate(t)
      BY <2>4 DEF PublishUpdate
    <2>5. CASE \/ UploadGet(t) \/ UploadRecheck(t) \/ CreatePodFails(t) \/ PodNotReady(t)
               \/ StreamEnds(t) \/ StreamFails(t) \/ CleanPodFails(t)
      BY <2>5 DEF cluster, ghosts, UploadGet, UploadRecheck, CreatePodFails, PodNotReady,
                  StreamEnds, StreamFails, CleanPodFails
    <2>6. CASE \/ PublishGet(t) \/ PublishConflict(t) \/ FreezeConfirm(t) \/ FreezeGet(t)
               \/ FreezeUpdate(t) \/ FreezeConflict(t) \/ ExportCheck(t)
      BY <2>6 DEF cluster, ghosts, PublishGet, PublishConflict, FreezeConfirm, FreezeGet,
                  FreezeUpdate, FreezeConflict, ExportCheck
    <2> QED BY <2>1, <2>2, <2>3, <2>4, <2>5, <2>6 DEF ThreadStep
  <1>3. CASE \E p \in Pods : PodStep(p)
    BY <1>3 DEF PodStep, cluster, ghosts, PodMount, PodKilled, HelperWorks, HelperRejects
  <1> QED BY <1>1, <1>2, <1>3 DEF Next

\* The state changes of one capability keep it well formed.
LEMMA CapUpdate ==
  ASSUME NEW k \in Capabilities, CapOK(k)
  PROVE  /\ CapOK([k EXCEPT !.expired = TRUE])
         /\ CapOK([k EXCEPT !.state = "gone"])
         /\ k.state \in {"issued", "in_flight"} =>
              CapOK([k EXCEPT !.state = "issued"]) /\ CapOK([k EXCEPT !.state = "in_flight"])
  <1>1. [k EXCEPT !.expired = TRUE] \in Capabilities
        /\ \A s \in {"issued", "in_flight", "gone"} : [k EXCEPT !.state = s] \in Capabilities
    BY DEF Capabilities
  <1> QED BY <1>1 DEF CapOK, Capabilities

\* Every step keeps the capability table well formed.
LEMMA CapsKept ==
  ASSUME UploadAssumption, IInv, Next
  PROVE  caps' \in [Caps -> Capabilities] /\ \A c \in Caps : CapOK(caps'[c])
  <1>1. caps \in [Caps -> Capabilities] /\ \A c \in Caps : CapOK(caps[c])
    BY DEF IInv, TableOK
  <1>2. \A k : CapOK(k) => k \in Capabilities
    BY DEF CapOK
  <1>3. ASSUME NEW c \in Caps, NEW k, CapOK(k), caps' = [caps EXCEPT ![c] = k]
        PROVE  caps' \in [Caps -> Capabilities] /\ \A d \in Caps : CapOK(caps'[d])
    BY <1>1, <1>2, <1>3
  <1>4. ASSUME NEW c \in Caps, Expire(c) \/ UploadRefused(c)
        PROVE  caps' \in [Caps -> Capabilities] /\ \A d \in Caps : CapOK(caps'[d])
    BY <1>1, <1>3, <1>4, CapUpdate DEF Expire, UploadRefused
  <1>5. ASSUME NEW t \in Threads, IssuePut(t)
        PROVE  caps' \in [Caps -> Capabilities] /\ \A d \in Caps : CapOK(caps'[d])
    <2>1. req[t].cap \in Caps /\ req[t].uid \in UIDs /\ req[t].uid \in 0..MaxUid
      BY <1>5 DEF IInv, ThreadsOK, ThreadOK, IssuePut, Requests
    <2>2. \A c \in Caps : CapOK(Purged[c]) /\ Purged \in [Caps -> Capabilities]
      BY <1>1, <1>2, CapUpdate DEF Purged
    <2> DEFINE k == [state |-> "issued", uid |-> req[t].uid, expired |-> FALSE]
    <2>3. CapOK(k) /\ k \in Capabilities
      BY <2>1 DEF CapOK, Capabilities
    <2>4. caps' = [Purged EXCEPT ![req[t].cap] = k]
      BY <1>5 DEF IssuePut
    <2> HIDE DEF k
    <2> QED BY <2>1, <2>2, <2>3, <2>4
  <1>6. ASSUME NEW t \in Threads, UploadFinish(t)
        PROVE  caps' \in [Caps -> Capabilities] /\ \A d \in Caps : CapOK(caps'[d])
    <2> DEFINE c == req[t].cap
    <2>1. c \in Caps
      BY <1>6 DEF IInv, ThreadsOK, ThreadOK, UploadFinish, UploadLabels
    <2>2. \/ caps' = caps
          \/ caps[c].state = "in_flight" /\ \E s \in {"gone", "issued"} :
               caps' = [caps EXCEPT ![c] = [caps[c] EXCEPT !.state = s]]
      BY <1>6 DEF UploadFinish, Finished
    <2>3. ASSUME caps[c].state = "in_flight", NEW s \in {"gone", "issued"}
          PROVE  CapOK([caps[c] EXCEPT !.state = s])
      BY <1>1, <2>1, <2>3, CapUpdate
    <2> QED BY <1>1, <1>3, <2>1, <2>2, <2>3
  <1>7. ASSUME NEW t \in Threads, NEW c \in Caps, NEW r \in Revisions, UploadBegin(t, c, r)
        PROVE  caps' \in [Caps -> Capabilities] /\ \A d \in Caps : CapOK(caps'[d])
    BY <1>1, <1>3, <1>7, CapUpdate DEF UploadBegin
  <1>8. CASE Restart
    BY <1>1, <1>2, <1>8, CapUpdate DEF Restart
  <1> QED BY <1>1, <1>4, <1>5, <1>6, <1>7, <1>8, TableSteps

\* Every step keeps the helper pods well formed.
LEMMA PodsKept ==
  ASSUME UploadAssumption, IInv, Next
  PROVE  pod' \in [Pods -> HelperPods] /\ \A p \in Pods : PodOK(pod'[p])
  <1>1. pod \in [Pods -> HelperPods] /\ \A p \in Pods : PodOK(pod[p])
    BY DEF IInv, TableOK
  <1>2. \A k : PodOK(k) => k \in HelperPods
    BY DEF PodOK
  <1>3. ASSUME NEW p \in Pods, NEW k, PodOK(k), pod' = [pod EXCEPT ![p] = k]
        PROVE  pod' \in [Pods -> HelperPods] /\ \A q \in Pods : PodOK(pod'[q])
    BY <1>1, <1>2, <1>3
  <1>4. PodOK(NoPod)
    BY DEF PodOK, NoPod, HelperPods, Phases, UploadAssumption
  <1>5. ASSUME NEW p \in Pods, NEW phase \in {"working", "done", "rejected"},
               pod[p].phase \in {"running", "working"}
        PROVE  PodOK([pod[p] EXCEPT !.phase = phase])
    <2>1. [pod[p] EXCEPT !.phase = phase] \in HelperPods
      BY <1>1 DEF HelperPods, Phases
    <2> QED BY <1>1, <1>5, <2>1 DEF PodOK, HelperPods
  <1>6. ASSUME NEW t \in Threads, NEW p \in Pods, CreatePod(t, p)
        PROVE  pod' \in [Pods -> HelperPods] /\ \A q \in Pods : PodOK(pod'[q])
    <2> DEFINE k == [NoPod EXCEPT !.phase = "pending", !.kind = req[t].op,
                                  !.rev = req[t].rev, !.cap = req[t].cap]
    <2>1. /\ req[t].op \in {"upload", "export"} /\ req[t].rev \in Revisions
          /\ req[t].cap \in Caps \cup {None} /\ (req[t].op = "upload" => req[t].cap \in Caps)
      BY <1>6 DEF IInv, ThreadsOK, ThreadOK, CreatePod, PodLabels, RevisionLabels, Requests
    <2>2. NoPod \in HelperPods
      BY <1>2, <1>4
    <2>3. k \in HelperPods /\ k.phase = "pending" /\ k.kind = req[t].op /\ k.rev = req[t].rev
          /\ k.cap = req[t].cap
      BY <2>1, <2>2 DEF HelperPods, Phases
    <2>4. PodOK(k)
      BY <2>1, <2>3 DEF PodOK
    <2> QED BY <1>3, <1>6, <2>4 DEF CreatePod
  <1>7. ASSUME NEW t \in Threads, PodReady(t) \/ CleanPod(t) \/ AbortPod(t) \/ ExportRecheck(t)
        PROVE  pod' \in [Pods -> HelperPods] /\ \A q \in Pods : PodOK(pod'[q])
    <2>1. req[t].pod \in Pods
      BY <1>7 DEF IInv, ThreadsOK, ThreadOK, HelperLabels, PodReady, CleanPod, AbortPod,
         ExportRecheck
    <2>2. CASE UNCHANGED pod
      BY <1>1, <2>2
    <2>3. CASE pod' = [pod EXCEPT ![req[t].pod] = NoPod]
      BY <1>3, <1>4, <2>1, <2>3
    <2>4. CASE pod[req[t].pod].phase = "running" /\ pod' = [pod EXCEPT ![req[t].pod].phase = "working"]
      BY <1>3, <1>5, <2>1, <2>4
    <2> QED BY <1>7, <2>2, <2>3, <2>4 DEF PodReady, CleanPod, AbortPod, ExportRecheck
  <1>8. ASSUME NEW p \in Pods, PodStep(p)
        PROVE  pod' \in [Pods -> HelperPods] /\ \A q \in Pods : PodOK(pod'[q])
    <2>1. CASE PodMount(p)
      <3> DEFINE k == [pod[p] EXCEPT !.phase = "running", !.mount = pvc.uid]
      <3>1. pvc.uid \in UIDs /\ pvc.uid \in 0..MaxUid
        BY <2>1 DEF PodMount, IInv, ObjectOK, PVCs, UIDs, UploadAssumption
      <3>2. k \in HelperPods /\ k.phase = "running" /\ k.mount = pvc.uid /\ k.kind = pod[p].kind
            /\ k.cap = pod[p].cap /\ k.rev = pod[p].rev
        BY <1>1, <3>1 DEF HelperPods, Phases
      <3>3. PodOK(k)
        BY <1>1, <2>1, <3>1, <3>2 DEF PodOK, PodMount
      <3>4. pod' = [pod EXCEPT ![p] = k]
        BY <1>1, <2>1 DEF PodMount
      <3> QED BY <1>3, <3>3, <3>4
    <2>2. CASE PodKilled(p)
      BY <1>3, <1>4, <2>2 DEF PodKilled
    <2>3. CASE HelperWorks(p) \/ HelperRejects(p)
      BY <1>3, <1>5, <2>3 DEF HelperWorks, HelperRejects
    <2> QED BY <1>8, <2>1, <2>2, <2>3 DEF PodStep
  <1> QED BY <1>1, <1>6, <1>7, <1>8, TableSteps

\* Every step keeps the tables well formed.
LEMMA TablesKept ==
  ASSUME UploadAssumption, IInv, Next
  PROVE  TableOK'
  <1>1. TableOK
    BY DEF IInv
  <1>2. created' \in 0..MaxUid
    BY <1>1, TableSteps DEF TableOK, CreateContext, UploadAssumption
  <1>3. ASSUME NEW p \in Pods, HelperWorks(p)
        PROVE  /\ storage' \in [UIDs -> SUBSET Revisions]
               /\ touched' \subseteq Caps \X UIDs
    <2>1. pod[p].mount \in UIDs /\ pod[p].rev \in Revisions
          /\ (pod[p].kind = "upload" => pod[p].cap \in Caps)
      BY <1>1, <1>3 DEF TableOK, PodOK, HelperWorks
    <2> QED BY <1>1, <1>3, <2>1 DEF TableOK, HelperWorks
  <1>4. ASSUME NEW t \in Threads, PublishUpdate(t)
        PROVE  touched' \subseteq Caps \X UIDs /\ lost' \subseteq Caps
    <2>1. pvc.uid \in UIDs
      BY <1>4, PublishWrites DEF IInv, ObjectOK, PVCs, UIDs, UploadAssumption
    <2>2. req[t].op = "upload" => req[t].cap \in Caps
      BY DEF IInv, ThreadsOK, ThreadOK
    <2> QED BY <1>1, <1>4, <2>1, <2>2 DEF TableOK, PublishUpdate, Producer
  <1>5. storage' \in [UIDs -> SUBSET Revisions] /\ touched' \subseteq Caps \X UIDs
    BY <1>1, <1>3, <1>4, TableSteps DEF TableOK
  <1>6. redeemed' \in [Caps -> Nat]
    <2>1. redeemed \in [Caps -> Nat]
      BY <1>1 DEF TableOK
    <2> QED BY <2>1, TableSteps DEF UploadFinish
  <1>7. lock' \in [UIDs -> Threads \cup {None}]
    <2>1. lock \in [UIDs -> Threads \cup {None}]
      BY <1>1 DEF TableOK
    <2> QED BY <2>1, TableSteps DEF UploadLock, UploadUnlock, FreezeTryLock, FreezeUnlock, Restart
  <1>8. lost' \subseteq Caps
    BY <1>1, <1>4, TableSteps DEF TableOK
  <1>9. left' \subseteq Pods
    BY <1>1, TableSteps DEF TableOK, AbortPod, PodKilled, Restart, AtWork
  <1> QED BY <1>2, <1>5, <1>6, <1>7, <1>8, <1>9, CapsKept, PodsKept DEF TableOK

-----------------------------------------------------------------------------
(* A step of one thread leaves the others where they are.                   *)

BeginStep(t) ==
  \/ \E c \in Caps : IssueAuthorize(t, c) \/ \E r \in Revisions : UploadBegin(t, c, r)
  \/ \E r \in Revisions : PublishBegin(t, r) \/ FreezeAuthorize(t, r) \/ ExportAuthorize(t, r)

OthersStay(t) == \A s \in Threads \ {t} : pc'[s] = pc[s] /\ req'[s] = req[s]

\* A thread's step leaves the other threads where they are.
LEMMA ThreadLocal ==
  ASSUME ThreadsOK, NEW t \in Threads, ThreadStep(t) \/ BeginStep(t)
  PROVE  OthersStay(t)
  <1> USE DEF OthersStay
  <1>1. pc \in [Threads -> PCs] /\ req \in [Threads -> Requests]
    BY DEF ThreadsOK
  <1>2. \A label : Goto(t, label) => \A s \in Threads \ {t} : pc'[s] = pc[s]
    BY <1>1 DEF Goto
  <1>3. Answer(t) => OthersStay(t)
    BY <1>1, <1>2 DEF Answer
  <1>4. \A outcome : Leave(t, outcome) => OthersStay(t)
    BY <1>1, <1>2 DEF Leave
  <1>5. \A outcome : PublishReturn(t, outcome) => OthersStay(t)
    BY <1>3, <1>4 DEF PublishReturn
  <1>6. CASE BeginStep(t)
    BY <1>1, <1>2, <1>6 DEF BeginStep, Begin, IssueAuthorize, UploadBegin, PublishBegin,
                            FreezeAuthorize, ExportAuthorize
  <1>7. CASE \/ IssuePut(t) \/ UploadGet(t) \/ UploadLock(t) \/ UploadRecheck(t)
             \/ UploadUnlock(t) \/ UploadFinish(t)
    BY <1>1, <1>2, <1>3, <1>4, <1>7
       DEF IssuePut, UploadGet, UploadLock, UploadRecheck, UploadUnlock, UploadFinish
  <1>8. CASE \/ \E p \in Pods : CreatePod(t, p)
             \/ CreatePodFails(t) \/ PodReady(t) \/ PodNotReady(t) \/ StreamEnds(t)
             \/ StreamFails(t) \/ CleanPod(t) \/ CleanPodFails(t) \/ AbortPod(t)
    BY <1>1, <1>2, <1>3, <1>4, <1>8
       DEF CreatePod, CreatePodFails, PodReady, PodNotReady, StreamEnds, StreamFails, CleanPod,
           CleanPodFails, AbortPod
  <1>9. CASE \/ PublishGet(t) \/ PublishUpdate(t) \/ PublishConflict(t)
    BY <1>1, <1>2, <1>5, <1>9 DEF PublishGet, PublishUpdate, PublishConflict, Conflict
  <1>10. CASE \/ FreezeConfirm(t) \/ FreezeTryLock(t) \/ FreezeGet(t)
              \/ FreezeUpdate(t) \/ FreezeConflict(t) \/ FreezeUnlock(t)
    BY <1>1, <1>2, <1>3, <1>10
       DEF FreezeConfirm, FreezeTryLock, FreezeGet, FreezeUpdate, FreezeConflict, FreezeUnlock,
          Conflict
  <1>11. CASE ExportCheck(t) \/ ExportRecheck(t)
    BY <1>1, <1>2, <1>3, <1>11 DEF ExportCheck, ExportRecheck
  <1> QED BY <1>6, <1>7, <1>8, <1>9, <1>10, <1>11 DEF ThreadStep

-----------------------------------------------------------------------------
(* Locks: a thread that imports, or that freezes, holds the lock of its     *)
(* volume, so no two of them are at it at once.                             *)

\* A step that takes t to no new holding and moves t to no other volume.
HoldsNoMore(t) ==
  Holding(t)' => Holding(t) /\ req'[t].uid = req[t].uid /\ req'[t].op = req[t].op

\* Only UploadLock and FreezeTryLock let a thread hold a lock it did not hold.
LEMMA StepsHoldNoMore ==
  ASSUME UploadAssumption, ThreadsOK, NEW t \in Threads,
         ThreadStep(t) \/ BeginStep(t),
         ~UploadLock(t), ~FreezeTryLock(t)
  PROVE  HoldsNoMore(t)
  <1> USE DEF HoldsNoMore, Importing, UploadIn, Holding
  <1>1. pc \in [Threads -> PCs] /\ req \in [Threads -> Requests] /\ ThreadOK(pc[t], req[t])
    BY DEF ThreadsOK
  <1>2. Answer(t) => ~Holding(t)'
    BY <1>1 DEF Answer, Goto, Blank
  <1>3. \A outcome : Leave(t, outcome) => req'[t].uid = req[t].uid /\ req'[t].op = req[t].op
                                          /\ pc'[t] = "up_unlock"
    BY <1>1 DEF Leave, Goto, Requests
  <1>4. \A label : Goto(t, label) => pc'[t] = label
    BY <1>1 DEF Goto
  <1>5. CASE BeginStep(t)
    <2>1. CASE \E r \in Revisions : PublishBegin(t, r)
      <3>1. PICK r \in Revisions : PublishBegin(t, r)
        BY <2>1
      <3>2. req'[t] = [[Blank EXCEPT !.rev = r] EXCEPT !.op = "publish"]
        BY <1>1, <3>1 DEF PublishBegin, Begin
      <3>3. req'[t].op = "publish"
        BY <3>2 DEF Blank
      <3> QED BY <1>4, <3>1, <3>3 DEF PublishBegin, Begin
    <2>2. CASE pc'[t] \in {"iss_put", "up_get", "frz_confirm", "exp_check"}
      BY <2>2
    <2> QED BY <1>4, <1>5, <2>1, <2>2 DEF BeginStep, Begin, IssueAuthorize, UploadBegin,
                                          FreezeAuthorize, ExportAuthorize
  <1>6. CASE IssuePut(t) \/ UploadUnlock(t) \/ UploadFinish(t) \/ UploadGet(t)
    BY <1>1, <1>2, <1>4, <1>6 DEF IssuePut, UploadUnlock, UploadFinish, UploadGet
  <1>7. CASE UploadRecheck(t)
    BY <1>1, <1>3, <1>4, <1>7 DEF UploadRecheck, ThreadOK, UploadLabels
  <1>8. CASE \E p \in Pods : CreatePod(t, p)
    <2>1. req'[t].uid = req[t].uid /\ req'[t].op = req[t].op
      BY <1>1, <1>8 DEF CreatePod, Requests
    <2> QED BY <1>4, <1>8, <2>1 DEF CreatePod
  <1>9. CASE CreatePodFails(t) \/ AbortPod(t)
    BY <1>1, <1>2, <1>3, <1>9 DEF CreatePodFails, AbortPod
  <1>10. CASE PodReady(t) \/ PodNotReady(t) \/ StreamEnds(t) \/ StreamFails(t) \/ CleanPodFails(t)
    BY <1>1, <1>4, <1>10 DEF PodReady, PodNotReady, StreamEnds, StreamFails, CleanPodFails
  <1>11. CASE CleanPod(t)
    <2>1. (req'[t].uid = req[t].uid /\ req'[t].op = req[t].op) \/ Answer(t)
      BY <1>1, <1>11 DEF CleanPod, Requests
    <2> QED BY <1>2, <1>4, <1>11, <2>1 DEF CleanPod
  <1>12. CASE PublishGet(t)
    <2>1. CASE req' = [req EXCEPT ![t].seen = pvc] /\ Goto(t, "pub_update")
      <3>1. req'[t].uid = req[t].uid /\ req'[t].op = req[t].op
        BY <1>1, <2>1 DEF Requests
      <3> QED BY <1>4, <1>12, <2>1, <3>1 DEF PublishGet
    <2>2. CASE \E outcome \in {"ok", "failed", "frozen"} : PublishReturn(t, outcome)
      BY <1>2, <1>3, <1>12, <2>2 DEF PublishGet, PublishReturn
    <2> QED BY <1>12, <2>1, <2>2 DEF PublishGet
  <1>13. CASE PublishUpdate(t)
    BY <1>2, <1>3, <1>13 DEF PublishUpdate, PublishReturn
  <1>14. ASSUME req' = [req EXCEPT ![t].tries = @ + 1, ![t].seen = NoPVC]
         PROVE  req'[t].uid = req[t].uid /\ req'[t].op = req[t].op
    BY <1>1, <1>14 DEF Requests
  <1>15. CASE PublishConflict(t)
    BY <1>2, <1>3, <1>4, <1>14, <1>15 DEF PublishConflict, PublishReturn, Conflict
  <1>16. CASE FreezeConfirm(t) \/ FreezeUpdate(t) \/ FreezeUnlock(t)
    BY <1>2, <1>4, <1>16 DEF FreezeConfirm, FreezeUpdate, FreezeUnlock
  <1>17. CASE FreezeGet(t)
    <2>1. req'[t].uid = req[t].uid /\ req'[t].op = req[t].op
      BY <1>1, <1>17 DEF FreezeGet, Requests
    <2> QED BY <1>4, <1>17, <2>1 DEF FreezeGet
  <1>18. CASE FreezeConflict(t)
    BY <1>4, <1>14, <1>18 DEF FreezeConflict, Conflict
  <1>19. CASE ExportCheck(t) \/ ExportRecheck(t)
    <2>1. req[t].op = "export"
      BY <1>1, <1>19 DEF ThreadOK, ExportLabels, ExportCheck, ExportRecheck
    <2> QED BY <1>2, <1>4, <1>19, <2>1 DEF ExportCheck, ExportRecheck
  <1> QED BY <1>5, <1>6, <1>7, <1>8, <1>9, <1>10, <1>11, <1>12, <1>13, <1>15, <1>16, <1>17,
             <1>18, <1>19 DEF ThreadStep

\* Every step keeps the lock of a volume with the thread that relies on it.
LEMMA LocksKept ==
  ASSUME UploadAssumption, IInv, Next
  PROVE  LockHeld'
  <1>1. LockHeld /\ ThreadsOK /\ lock \in [UIDs -> Threads \cup {None}]
    BY DEF IInv, TableOK
  <1>2. pc \in [Threads -> PCs] /\ req \in [Threads -> Requests]
        /\ \A t \in Threads : ThreadOK(pc[t], req[t])
    BY <1>1 DEF ThreadsOK
  <1>3. CASE Restart
    BY <1>3 DEF Restart, LockHeld, Holding, UploadIn, Importing
  <1>4. CASE UNCHANGED <<pc, req, lock>>
    BY <1>1, <1>4 DEF LockHeld, Holding, UploadIn
  \* A step that leaves the locks alone.
  <1>5. ASSUME NEW t \in Threads, UNCHANGED lock, OthersStay(t), HoldsNoMore(t)
        PROVE  LockHeld'
    BY <1>1, <1>5 DEF LockHeld, OthersStay, HoldsNoMore, Holding, UploadIn
  \* A step of t that releases the lock t holds.
  <1>6. ASSUME NEW t \in Threads, Holding(t), ~Holding(t)', req[t].uid \in UIDs,
               lock' = [lock EXCEPT ![req[t].uid] = None], OthersStay(t)
        PROVE  LockHeld'
    BY <1>1, <1>6 DEF LockHeld, OthersStay, Holding, UploadIn
  \* A step of t that takes a free lock.
  <1>7. ASSUME NEW t \in Threads, lock[req[t].uid] = None, req[t].uid \in UIDs,
               lock' = [lock EXCEPT ![req[t].uid] = t], req'[t].uid = req[t].uid, OthersStay(t)
        PROVE  LockHeld'
    BY <1>1, <1>7 DEF LockHeld, OthersStay, Holding, UploadIn, UploadAssumption
  <1>8. ASSUME NEW t \in Threads, ThreadStep(t) \/ BeginStep(t)
        PROVE  LockHeld'
    <2>1. OthersStay(t)
      BY <1>1, <1>8, ThreadLocal
    <2>2. CASE UploadLock(t)
      <3>1. req[t].uid \in UIDs
        BY <1>2, <2>2 DEF UploadLock, ThreadOK, UploadLabels
      <3> QED BY <1>7, <2>1, <2>2, <3>1 DEF UploadLock
    <2>3. CASE FreezeTryLock(t)
      <3>1. req[t].uid \in UIDs /\ req[t].op = "freeze"
        BY <1>2, <2>3 DEF FreezeTryLock, ThreadOK, FreezeLabels
      <3>2. CASE lock[req[t].uid] = None
        BY <1>7, <2>1, <2>3, <3>1, <3>2 DEF FreezeTryLock
      <3>3. CASE lock[req[t].uid] # None
        <4>1. Answer(t) /\ UNCHANGED lock
          BY <2>3, <3>3 DEF FreezeTryLock
        <4>2. ~Holding(t)'
          BY <1>2, <4>1 DEF Answer, Goto, Blank, Holding, UploadIn, Importing
        <4> QED BY <1>5, <2>1, <4>1, <4>2 DEF HoldsNoMore
      <3> QED BY <3>2, <3>3
    <2>4. CASE UploadUnlock(t) \/ FreezeUnlock(t)
      <3>1. req[t].uid \in UIDs /\ Holding(t)
        BY <1>2, <2>4 DEF UploadUnlock, FreezeUnlock, ThreadOK, UploadLabels, FreezeLabels, Holding,
           UploadIn
      <3>2. ~Holding(t)'
        BY <1>2, <2>4 DEF UploadUnlock, FreezeUnlock, Answer, Goto, Blank, Holding, UploadIn,
           Importing
      <3> QED BY <1>6, <2>1, <2>4, <3>1, <3>2 DEF UploadUnlock, FreezeUnlock
    <2>5. CASE /\ ~UploadLock(t) /\ ~FreezeTryLock(t) /\ ~UploadUnlock(t) /\ ~FreezeUnlock(t)
      <3>1. HoldsNoMore(t)
        BY <1>1, <1>8, <2>5, StepsHoldNoMore
      <3>2. UNCHANGED lock
        BY <1>8, <2>5 DEF ThreadStep, BeginStep, IssuePut, UploadGet, UploadRecheck, UploadFinish,
                CreatePod, CreatePodFails, PodReady, PodNotReady, StreamEnds,
                StreamFails, CleanPod, CleanPodFails, AbortPod, PublishGet, PublishUpdate,
                PublishConflict, FreezeConfirm, FreezeGet, FreezeUpdate, FreezeConflict,
                ExportCheck, ExportRecheck, IssueAuthorize, UploadBegin,
                PublishBegin, FreezeAuthorize, ExportAuthorize
      <3> QED BY <1>5, <2>1, <3>1, <3>2
    <2> QED BY <2>2, <2>3, <2>4, <2>5
  <1>9. CASE \E p \in Pods : PodStep(p)
    BY <1>4, <1>9 DEF PodStep, PodMount, PodKilled, HelperWorks, HelperRejects
  <1>10. CASE Environment /\ ~Restart
    <2>1. CASE UNCHANGED <<pc, req, lock>>
      BY <1>4, <2>1
    <2>2. CASE \E t \in Threads : BeginStep(t)
      BY <1>8, <2>2
    <2> QED BY <1>10, <2>1, <2>2 DEF Environment, BeginStep, CreateContext, DeleteContext,
               FinalizePVC, Expire, UploadRefused
  <1> QED BY <1>3, <1>8, <1>9, <1>10 DEF Next

-----------------------------------------------------------------------------
(* A freeze and an upload of the same volume exclude each other.            *)

\* A thread that enters the import saw, under the lock, an object that is
\* not frozen; one that is in it stays with its volume.
LEMMA EntersUnfrozen ==
  ASSUME UploadAssumption, ThreadsOK, NEW t \in Threads, ThreadStep(t) \/ BeginStep(t)
  PROVE  UploadIn(t, Importing)' =>
           /\ req'[t].uid = req[t].uid
           /\ UploadIn(t, Importing) \/ (pvc.frozen = None /\ UNCHANGED pvc)
  <1> USE DEF Importing, UploadIn
  <1> SUFFICES ASSUME UploadIn(t, Importing)'
               PROVE  /\ req'[t].uid = req[t].uid
                      /\ UploadIn(t, Importing) \/ (pvc.frozen = None /\ UNCHANGED pvc)
    OBVIOUS
  <1>1. pc \in [Threads -> PCs] /\ req \in [Threads -> Requests] /\ ThreadOK(pc[t], req[t])
    BY DEF ThreadsOK
  <1>2. ~UploadLock(t) /\ ~FreezeTryLock(t)
    BY <1>1 DEF UploadLock, FreezeTryLock, Goto, Answer
  <1>3. Holding(t) /\ req'[t].uid = req[t].uid /\ req[t].op = "upload"
    BY <1>2, StepsHoldNoMore DEF HoldsNoMore, Holding
  <1>4. pc[t] # "up_unlock"
    BY <1>1 DEF ThreadStep, BeginStep, IssuePut, UploadGet, UploadLock, UploadRecheck, UploadUnlock,
       UploadFinish, CreatePod, CreatePodFails, PodReady, PodNotReady, StreamEnds, StreamFails,
       CleanPod, CleanPodFails, AbortPod, PublishGet, PublishUpdate, PublishConflict, FreezeConfirm,
       FreezeTryLock, FreezeGet, FreezeUpdate, FreezeConflict, FreezeUnlock, ExportCheck,
       ExportRecheck, Goto, Begin, IssueAuthorize, UploadBegin, PublishBegin, FreezeAuthorize,
       ExportAuthorize
  <1>5. pc[t] \in Importing \cup {"up_recheck"}
    BY <1>1, <1>3, <1>4 DEF Holding, ThreadOK, FreezeLabels
  <1>6. CASE pc[t] = "up_recheck"
    <2>1. UploadRecheck(t)
      BY <1>6 DEF ThreadStep, BeginStep, IssuePut, UploadGet, UploadLock, UploadUnlock,
         UploadFinish, CreatePod, CreatePodFails, PodReady, PodNotReady, StreamEnds, StreamFails,
         CleanPod, CleanPodFails, AbortPod, PublishGet, PublishUpdate, PublishConflict,
         FreezeConfirm, FreezeTryLock, FreezeGet, FreezeUpdate, FreezeConflict, FreezeUnlock,
         ExportCheck, ExportRecheck, Begin, IssueAuthorize, UploadBegin, PublishBegin,
         FreezeAuthorize, ExportAuthorize
    <2>2. ~Leave(t, "failed") /\ ~Leave(t, "frozen")
      BY <1>1 DEF Leave, Goto
    <2>3. pvc.frozen = None
      BY <2>1, <2>2 DEF UploadRecheck
    <2>4. UNCHANGED pvc
      BY <2>1 DEF UploadRecheck, cluster
    <2> QED BY <1>3, <2>3, <2>4
  <1> QED BY <1>3, <1>5, <1>6

\* Every step keeps freezes out of uploads under way.
LEMMA ExclusionKept ==
  ASSUME UploadAssumption, IInv, Next
  PROVE  FreezeExcludesUpload'
  <1>1. ThreadsOK /\ FreezeExcludesUpload /\ LockHeld
    BY DEF IInv
  <1>2. \A t \in Threads : UploadIn(t, Importing) => req[t].uid \in UIDs /\ req[t].uid # 0
    BY <1>1 DEF ThreadsOK, ThreadOK, UploadIn, UIDs
  \* No write of the object: a thread enters only while it is not frozen.
  <1>3. ASSUME NEW t \in Threads, ThreadStep(t) \/ BeginStep(t), UNCHANGED pvc
        PROVE  FreezeExcludesUpload'
    <2>1. OthersStay(t)
      BY <1>1, <1>3, ThreadLocal
    <2>2. UploadIn(t, Importing)' =>
            req'[t].uid = req[t].uid /\ (UploadIn(t, Importing) \/ pvc.frozen = None)
      BY <1>1, <1>3, EntersUnfrozen
    <2> QED BY <1>1, <1>3, <2>1, <2>2 DEF FreezeExcludesUpload, OthersStay, UploadIn
  <1>4. CASE pvc'.frozen = None
    BY <1>4 DEF FreezeExcludesUpload
  <1>5. CASE UNCHANGED <<pc, req>> /\ pvc'.uid = pvc.uid /\ pvc'.frozen = pvc.frozen
    BY <1>1, <1>5 DEF FreezeExcludesUpload, UploadIn
  <1>6. CASE Restart
    BY <1>6 DEF Restart, FreezeExcludesUpload, UploadIn, Importing
  <1>7. ASSUME NEW t \in Threads, PublishUpdate(t)
        PROVE  FreezeExcludesUpload'
    <2>1. pvc'.frozen = None
      <3>1. PICK entry \in Entries : pvc.uid # 0 /\ pvc.frozen = None /\ pvc' = WithRevision(pvc, entry)
        BY <1>7, PublishWrites
      <3> QED BY <3>1, WithRevisionOK DEF IInv
    <2> QED BY <1>4, <2>1
  \* A freeze holds the lock that an import of its volume would hold.
  <1>8. ASSUME NEW t \in Threads, FreezeUpdate(t)
        PROVE  FreezeExcludesUpload'
    <2>1. pvc.uid = req[t].uid /\ pvc' = [pvc EXCEPT !.frozen = pvc.current] /\ pvc \in PVCs
      BY <1>8, FreezeWrites DEF IInv, ObjectOK
    <2>2. pvc'.uid = req[t].uid
      BY <2>1 DEF PVCs
    <2>3. lock[req[t].uid] = t
      BY <1>1, <1>8 DEF FreezeUpdate, LockHeld, Holding
    <2>4. OthersStay(t) /\ pc'[t] = "frz_unlock"
      BY <1>1, <1>8, ThreadLocal DEF ThreadStep, FreezeUpdate, Goto, ThreadsOK
    <2>5. ASSUME NEW s \in Threads, UploadIn(s, Importing)'
          PROVE  req'[s].uid # pvc'.uid
      <3>1. s # t
        BY <2>4, <2>5 DEF UploadIn, Importing
      <3>2. UploadIn(s, Importing) /\ req'[s] = req[s]
        BY <2>4, <2>5, <3>1 DEF OthersStay, UploadIn
      <3>3. lock[req[s].uid] = s
        BY <1>1, <3>2 DEF LockHeld, Holding, UploadIn
      <3> QED BY <2>2, <2>3, <3>1, <3>2, <3>3
    <2> QED BY <2>5 DEF FreezeExcludesUpload, UploadIn
  <1>9. CASE CreateContext \/ DeleteContext \/ FinalizePVC
    <2>1. NoPVC.frozen = None /\ ([NoPVC EXCEPT !.uid = created + 1]).frozen = None
      BY DEF NoPVC
    <2>2. CASE DeleteContext
      <3>1. pvc'.uid = pvc.uid /\ pvc'.frozen = pvc.frozen
        BY <2>2 DEF DeleteContext, IInv, ObjectOK, PVCs
      <3> QED BY <1>5, <2>2, <3>1 DEF DeleteContext
    <2> QED BY <1>4, <1>9, <2>1, <2>2 DEF CreateContext, FinalizePVC
  <1>10. CASE UNCHANGED pvc
    <2>1. CASE \E p \in Pods : PodStep(p)
      BY <1>5, <1>10, <2>1 DEF PodStep, PodMount, PodKilled, HelperWorks, HelperRejects
    <2>2. CASE \E c \in Caps : Expire(c) \/ UploadRefused(c)
      BY <1>5, <1>10, <2>2 DEF Expire, UploadRefused
    <2> QED BY <1>3, <1>6, <1>9, <1>10, <2>1, <2>2 DEF Next, Environment, BeginStep
  <1> QED BY <1>7, <1>8, <1>9, <1>10, ObjectSteps

-----------------------------------------------------------------------------
(* The invariant.                                                           *)

\* The invariant holds when the process starts.
LEMMA InitIInv == UploadAssumption /\ Init => IInv
  <1> SUFFICES ASSUME UploadAssumption, Init PROVE IInv
    OBVIOUS
  <1>1. ThreadsOK
    <2>1. Blank \in Requests /\ ThreadOK("idle", Blank)
      BY BlankOK DEF ThreadOK
    <2> QED BY <2>1 DEF Init, ThreadsOK, PCs
  <1>2. TableOK
    <2>1. NewCap \in Capabilities /\ CapOK(NewCap)
      BY DEF NewCap, CapOK, Capabilities, UploadAssumption
    <2>2. NoPod \in HelperPods /\ PodOK(NoPod)
      BY DEF PodOK, NoPod, HelperPods, Phases, UploadAssumption
    <2> QED BY <2>1, <2>2 DEF Init, TableOK, UploadAssumption
  <1>3. ObjectOK(pvc)
    BY NoPVCOK DEF Init
  <1>4. LockHeld /\ FreezeExcludesUpload
    BY DEF Init, LockHeld, Holding, UploadIn, Importing, FreezeExcludesUpload
  <1> QED BY <1>1, <1>2, <1>3, <1>4 DEF IInv

\* Every step keeps the invariant.
LEMMA NextIInv ==
  ASSUME UploadAssumption, IInv, [Next]_vars
  PROVE  IInv'
  <1>1. CASE Next
    <2>1. ThreadsOK'
      BY <1>1, StepsKeepThreads, EnvironmentKeepsThreads, PodStepsKeepThreads DEF Next
    <2> QED BY <1>1, <2>1, TablesKept, ObjectKept, LocksKept, ExclusionKept DEF IInv
  <1>2. CASE UNCHANGED vars
    BY <1>2 DEF vars, IInv, ThreadsOK, TableOK, ObjectOK, Tracks, LockHeld, Holding, UploadIn,
                FreezeExcludesUpload
  <1> QED BY <1>1, <1>2

\* The inductive invariant holds in every reachable state.
THEOREM Invariance == Spec => []IInv
  <1>1. Init => IInv
    BY InitIInv, UploadAssumption
  <1>2. IInv /\ [Next]_vars => IInv'
    BY NextIInv, UploadAssumption
  <1> QED BY <1>1, <1>2, PTL DEF Spec

(* Every variable keeps its type, for every value of the constants.         *)
THEOREM TypeCorrect == Spec => []TypeOK
  <1>1. IInv => TypeOK
    BY DEF IInv, ThreadsOK, TableOK, ObjectOK, TypeOK
  <1> QED BY <1>1, Invariance, PTL

(* A freeze never lands between the frozen check and the return of an       *)
(* upload to the same volume (FreezeContext and UploadContext share the     *)
(* lock of the volume), whatever retries, failures and restarts happen.     *)
THEOREM FreezeExclusion == Spec => []FreezeExcludesUpload
  <1>1. IInv => FreezeExcludesUpload
    BY DEF IInv
  <1> QED BY <1>1, Invariance, PTL

(* The frozen pin is always the current revision.                           *)
THEOREM FrozenPinsCurrent == Spec => []FrozenIsCurrent
  <1>1. IInv => FrozenIsCurrent
    BY DEF IInv, ObjectOK, FrozenIsCurrent
  <1> QED BY <1>1, Invariance, PTL

(* The history always ends in the current revision and never records the    *)
(* same revision twice in a row.                                            *)
THEOREM HistoryCurrent == Spec => []HistoryTracksCurrent
  <1>1. IInv => HistoryTracksCurrent
    BY DEF IInv, ObjectOK, Tracks, HistoryTracksCurrent
  <1> QED BY <1>1, Invariance, PTL

-----------------------------------------------------------------------------
(* What one step does to the object behind the name.                        *)

\* What a step may do to the object, under the invariant.
LEMMA ObjectChange ==
  ASSUME UploadAssumption, IInv, [Next]_vars
  PROVE  \/ UNCHANGED <<pvc.uid, pvc.current, pvc.frozen, pvc.history>>
         \/ /\ pvc.uid = 0 /\ pvc'.uid \in Nat \ {0}
            /\ UNCHANGED <<pvc.current, pvc.frozen, pvc.history>>
         \/ pvc.uid # 0 /\ pvc' = NoPVC
         \/ /\ pvc.uid # 0 /\ pvc.frozen = None
            /\ \E entry \in Entries :
                 /\ pvc'.current = entry.id
                 /\ pvc'.history = IF entry.id = pvc.current THEN pvc.history
                                   ELSE Append(pvc.history, entry)
            /\ UNCHANGED <<pvc.uid, pvc.frozen>>
         \/ /\ pvc.uid # 0 /\ pvc.frozen = None /\ pvc.current # None
            /\ pvc'.frozen = pvc.current
            /\ UNCHANGED <<pvc.uid, pvc.current, pvc.history>>
  <1>1. ObjectOK(pvc) /\ pvc \in PVCs
    BY DEF IInv, ObjectOK
  <1>2. CASE UNCHANGED pvc
    BY <1>2
  <1>3. CASE CreateContext
    <2>1. pvc = NoPVC /\ pvc.uid = 0
      BY <1>1, <1>3 DEF CreateContext, ObjectOK
    <2>2. pvc' = [NoPVC EXCEPT !.uid = created + 1] /\ created + 1 \in Nat \ {0}
      BY <1>3 DEF CreateContext, IInv, TableOK, UploadAssumption
    <2>3. pvc' = [pvc EXCEPT !.uid = created + 1]
      BY <2>1, <2>2
    <2>4. /\ pvc'.uid = created + 1 /\ pvc'.current = pvc.current
          /\ pvc'.frozen = pvc.frozen /\ pvc'.history = pvc.history
      BY <1>1, <2>3 DEF PVCs
    <2> QED BY <2>1, <2>2, <2>4
  <1>4. CASE DeleteContext
    BY <1>1, <1>4 DEF DeleteContext, PVCs
  <1>5. CASE FinalizePVC
    <2>1. pvc.uid # 0
      BY <1>1, <1>5 DEF FinalizePVC, ObjectOK, NoPVC
    <2> QED BY <1>5, <2>1 DEF FinalizePVC
  <1>6. ASSUME NEW t \in Threads, PublishUpdate(t)
        PROVE  /\ pvc.uid # 0 /\ pvc.frozen = None
               /\ \E entry \in Entries :
                    /\ pvc'.current = entry.id
                    /\ pvc'.history = IF entry.id = pvc.current THEN pvc.history
                                      ELSE Append(pvc.history, entry)
               /\ UNCHANGED <<pvc.uid, pvc.frozen>>
    <2>1. PICK entry \in Entries : pvc.uid # 0 /\ pvc.frozen = None /\ pvc' = WithRevision(pvc, entry)
      BY <1>6, PublishWrites
    <2> QED BY <1>1, <2>1, WithRevisionOK
  <1>7. ASSUME NEW t \in Threads, FreezeUpdate(t)
        PROVE  /\ pvc.uid # 0 /\ pvc.frozen = None /\ pvc.current # None
               /\ pvc'.frozen = pvc.current
               /\ UNCHANGED <<pvc.uid, pvc.current, pvc.history>>
    <2>1. /\ pvc.uid # 0 /\ pvc.frozen = None /\ pvc.current # None
          /\ pvc' = [pvc EXCEPT !.frozen = pvc.current]
      BY <1>7, FreezeWrites
    <2> QED BY <1>1, <2>1 DEF PVCs
  <1>8. CASE UNCHANGED vars
    BY <1>2, <1>8 DEF vars
  <1> QED BY <1>2, <1>3, <1>4, <1>5, <1>6, <1>7, <1>8, ObjectSteps

(* Once frozen, a Context keeps its pin, its current revision and its       *)
(* history: no publication or freeze that was under way gets through.       *)
THEOREM FrozenForever == Spec => FrozenNeverMoves
  <1> DEFINE Step == pvc.frozen # None /\ pvc'.uid = pvc.uid
                       => /\ pvc'.frozen = pvc.frozen
                          /\ pvc'.current = pvc.current
                          /\ pvc'.history = pvc.history
  <1>1. IInv /\ [Next]_vars => [Step]_vars
    <2> SUFFICES ASSUME IInv, [Next]_vars PROVE Step
      OBVIOUS
    <2>1. NoPVC.uid = 0
      BY DEF NoPVC
    <2> QED BY <2>1, ObjectChange, UploadAssumption
  <1> QED BY <1>1, Invariance, PTL DEF Spec, FrozenNeverMoves

(* No publication overwrites an entry of the history.                       *)
THEOREM AppendOnly == Spec => HistoryAppendOnly
  <1> DEFINE Step == pvc'.uid = pvc.uid
                       => /\ Len(pvc'.history) >= Len(pvc.history)
                          /\ \A i \in 1..Len(pvc.history) : pvc'.history[i] = pvc.history[i]
  <1>1. IInv /\ [Next]_vars => [Step]_vars
    <2> SUFFICES ASSUME IInv, [Next]_vars PROVE Step
      OBVIOUS
    <2>1. NoPVC.uid = 0 /\ pvc.history \in Seq(Entries)
      BY DEF NoPVC, IInv, ObjectOK, PVCs
    <2> DEFINE h == pvc.history
    <2>2. \A entry \in Entries : /\ Len(Append(h, entry)) >= Len(h)
                                 /\ \A i \in 1..Len(h) : Append(h, entry)[i] = h[i]
      BY <2>1
    <2>3. Len(h) >= Len(h)
      BY <2>1
    <2> QED BY <2>1, <2>2, <2>3, ObjectChange, UploadAssumption
  <1> QED BY <1>1, Invariance, PTL DEF Spec, HistoryAppendOnly

(* The service implements the revision register: every step of every        *)
(* request is one register operation or none.                               *)
THEOREM ImplementsRegister == Spec => RegisterSpec
  <1>1. Init => Register!Init
    BY DEF Init, Register!Init, NoPVC
  <1>2. IInv /\ [Next]_vars => [Register!Next]_(Register!register)
    <2> SUFFICES ASSUME IInv, [Next]_vars
                 PROVE  Register!Next \/ UNCHANGED Register!register
      OBVIOUS
    <2>1. NoPVC.uid = 0 /\ NoPVC.current = None /\ NoPVC.frozen = None /\ NoPVC.history = <<>>
      BY DEF NoPVC
    <2> QED BY <2>1, ObjectChange, UploadAssumption
            DEF Register!Next, Register!register, Register!Create, Register!Publish,
                Register!Freeze, Register!Delete
  <1> QED BY <1>1, <1>2, Invariance, PTL DEF Spec, RegisterSpec, Register!Spec

-----------------------------------------------------------------------------
(* A second invariant: whose a helper pod and a capability are, and what an *)
(* upload has left on its volume.                                           *)

\* A request has its helper pod to itself, and the pod works for it.
PodsOwned ==
  /\ \A t \in Threads : req[t].pod # None => pc[t] \in HelperLabels
  /\ \A s, t \in Threads : req[s].pod = req[t].pod /\ req[s].pod # None => s = t
  /\ \A t \in Threads : req[t].pod # None /\ pod[req[t].pod].phase # "none" =>
       pod[req[t].pod].kind = req[t].op /\ pod[req[t].pod].rev = req[t].rev

\* A PVC in use is not finalized: what a pod mounted is the PVC still.
Mounted(p) == pod[p].phase \notin {"none", "pending"}
MountsCurrent == \A p \in Pods : Mounted(p) => pod[p].mount = pvc.uid

\* What a helper has done is on the volume it mounted.
DoneIsStored == \A p \in Pods : pod[p].phase = "done" => pod[p].rev \in storage[pod[p].mount]

\* Every UID in use was given to a PVC.
UidsGiven ==
  /\ pvc.uid <= created
  /\ \A c \in Caps : caps[c].uid <= created
  /\ \A t \in Threads : req[t].uid <= created

\* What an upload publishes is on a volume the Context has had.
OnVolume(r) == \E u \in UIDs : u <= created /\ r \in storage[u]
OnVolumeNext(r) == \E u \in UIDs : u <= created' /\ r \in storage'[u]
PublishingLabels == {"clean"} \cup PublishLabels
UploadsStored ==
  /\ \A t \in Threads : UploadIn(t, PublishingLabels) => OnVolume(req[t].rev)
  /\ \A i \in 1..Len(pvc.history) : pvc.history[i].by # Client => OnVolume(pvc.history[i].id)

HelperInv ==
  /\ PodsOwned /\ MountsCurrent /\ DoneIsStored
  /\ UidsGiven /\ UploadsStored /\ ExportReadsPinned

\* A helper that imports has a request waiting for it, unless it was left behind.
AttendLabels == {"stream", "abort"}
ImportsAttended ==
  \A p \in AtWork \ left : pod[p].kind = "upload" =>
    \E t \in Threads : UploadIn(t, AttendLabels) /\ req[t].pod = p

\* A capability is with one request at a time, with none once it is consumed
\* and answered, and a success is counted once.
CapsOwned ==
  /\ \A t \in Threads : req[t].cap # None => req[t].op \in {"issue", "upload"}
  /\ \A s, t \in Threads : req[s].cap = req[t].cap /\ req[s].cap # None => s = t
  /\ \A t \in Threads : req[t].op = "issue" => caps[req[t].cap].state = "unused"
  /\ \A t \in Threads : req[t].op = "upload" =>
       caps[req[t].cap].state \in {"in_flight", "gone"} /\ redeemed[req[t].cap] = 0
  /\ \A c \in Caps : /\ caps[c].state = "unused" => ~caps[c].expired
                     /\ caps[c].state # "gone" => redeemed[c] = 0
                     /\ redeemed[c] <= 1

\* Who has published is on the way to its answer, or has consumed the capability.
PublishedBy(c) == \E i \in 1..Len(pvc.history) : pvc.history[i].by = c
Succeeding(t) == pc[t] \in {"up_unlock", "up_finish"} /\ req[t].outcome = "ok"
PublishedOK ==
  /\ OnePublishPerCapability
  /\ \A c \in Caps \ lost : PublishedBy(c) =>
       /\ caps[c].state \in {"in_flight", "gone"}
       /\ \A t \in Threads : req[t].op = "upload" /\ req[t].cap = c => Succeeding(t)

UploadInv == HelperInv /\ CapsOwned /\ ImportsAttended /\ PublishedOK

-----------------------------------------------------------------------------
(* What one step does to threads and pods.                                  *)

\* A step is of one thread, or of none, or forgets them all.
LEMMA ThreadCases ==
  ASSUME ThreadsOK, [Next]_vars
  PROVE  \/ UNCHANGED <<pc, req>>
         \/ Restart
         \/ \E t \in Threads : (ThreadStep(t) \/ BeginStep(t)) /\ OthersStay(t)
  <1>1. CASE \E t \in Threads : ThreadStep(t) \/ BeginStep(t)
    BY <1>1, ThreadLocal
  <1>2. CASE \E p \in Pods : PodStep(p)
    BY <1>2 DEF PodStep, PodMount, PodKilled, HelperWorks, HelperRejects
  <1>3. CASE CreateContext \/ DeleteContext \/ FinalizePVC \/ (\E c \in Caps : Expire(c) \/ UploadRefused(c))
    BY <1>3 DEF CreateContext, DeleteContext, FinalizePVC, Expire, UploadRefused
  <1> QED BY <1>1, <1>2, <1>3 DEF Next, Environment, BeginStep, vars

\* What a thread's own step may do to its request: it lets go of its pod, takes
\* a new one, or stays with it.
LEMMA OwnPodMoves ==
  ASSUME ThreadsOK, NEW t \in Threads, ThreadStep(t) \/ BeginStep(t),
         req[t].pod # None => pc[t] \in HelperLabels
  PROVE  \/ req'[t].pod = None
         \/ \E p \in Pods : CreatePod(t, p) /\ req'[t] = [req[t] EXCEPT !.pod = p] /\ pc'[t] = "pod_wait"
         \/ req'[t] = req[t] /\ pc[t] \in HelperLabels /\ pc'[t] \in HelperLabels
  <1> DEFINE Settled == \/ req'[t].pod = None
                        \/ req'[t] = req[t] /\ pc[t] \in HelperLabels /\ pc'[t] \in HelperLabels
  <1> USE DEF HelperLabels
  <1>1. pc \in [Threads -> PCs] /\ req \in [Threads -> Requests]
    BY DEF ThreadsOK
  <1>2. \A label : Goto(t, label) => pc'[t] = label
    BY <1>1 DEF Goto
  <1>3. Answer(t) => Settled
    BY <1>1 DEF Answer, Blank
  <1>4. \A outcome : Leave(t, outcome) => Settled
    BY <1>1 DEF Leave, Requests
  <1>5. CASE BeginStep(t)
    <2>1. ASSUME NEW c \in Caps, IssueAuthorize(t, c) PROVE req'[t].pod = None
      BY <1>1, <2>1 DEF IssueAuthorize, Begin, Blank
    <2>2. ASSUME NEW c \in Caps, NEW r \in Revisions, UploadBegin(t, c, r) PROVE req'[t].pod = None
      BY <1>1, <2>2 DEF UploadBegin, Begin, Blank
    <2>3. ASSUME NEW r \in Revisions, PublishBegin(t, r) \/ FreezeAuthorize(t, r) PROVE req'[t].pod = None
      BY <1>1, <2>3 DEF PublishBegin, FreezeAuthorize, Begin, Blank
    <2>4. ASSUME NEW r \in Revisions, ExportAuthorize(t, r) PROVE req'[t].pod = None
      BY <1>1, <2>4 DEF ExportAuthorize, Blank
    <2> QED BY <1>5, <2>1, <2>2, <2>3, <2>4 DEF BeginStep
  <1>6. CASE \/ IssuePut(t) \/ UploadGet(t) \/ UploadLock(t) \/ UploadRecheck(t)
             \/ UploadUnlock(t) \/ UploadFinish(t)
    BY <1>1, <1>3, <1>4, <1>6
       DEF IssuePut, UploadGet, UploadLock, UploadRecheck, UploadUnlock, UploadFinish, Requests
  <1>7. ASSUME NEW p \in Pods, CreatePod(t, p)
        PROVE  req'[t] = [req[t] EXCEPT !.pod = p] /\ pc'[t] = "pod_wait"
    BY <1>1, <1>2, <1>7 DEF CreatePod
  <1>8. CASE CreatePodFails(t) \/ PodReady(t) \/ PodNotReady(t) \/ StreamEnds(t) \/ StreamFails(t)
    BY <1>1, <1>2, <1>3, <1>4, <1>8
       DEF CreatePodFails, PodReady, PodNotReady, StreamEnds, StreamFails
  <1>9. CASE CleanPod(t) \/ CleanPodFails(t) \/ AbortPod(t) \/ ExportRecheck(t) \/ ExportCheck(t)
    BY <1>1, <1>2, <1>3, <1>4, <1>9
       DEF CleanPod, CleanPodFails, AbortPod, ExportRecheck, ExportCheck, Requests
  <1>10. \A outcome : PublishReturn(t, outcome) => Settled
    BY <1>3, <1>4 DEF PublishReturn
  <1>11. CASE PublishGet(t) \/ PublishUpdate(t)
    BY <1>1, <1>10, <1>11 DEF PublishGet, PublishUpdate, Requests
  <1>12. CASE PublishConflict(t)
    BY <1>1, <1>10, <1>12 DEF PublishConflict, Conflict, Requests
  <1>13. CASE FreezeConfirm(t) \/ FreezeTryLock(t) \/ FreezeGet(t) \/ FreezeUpdate(t) \/ FreezeUnlock(t)
    BY <1>1, <1>3, <1>13
       DEF FreezeConfirm, FreezeTryLock, FreezeGet, FreezeUpdate, FreezeUnlock, Requests
  <1>14. CASE FreezeConflict(t)
    BY <1>1, <1>14 DEF FreezeConflict, Conflict, Requests
  <1> QED BY <1>5, <1>6, <1>7, <1>8, <1>9, <1>11, <1>12, <1>13, <1>14 DEF ThreadStep

\* The UID of a request was read from the PVC or from the capability.
LEMMA OwnUidMoves ==
  ASSUME ThreadsOK, NEW t \in Threads, ThreadStep(t) \/ BeginStep(t)
  PROVE  req'[t].uid \in {req[t].uid, pvc.uid, 0} \cup {caps[c].uid : c \in Caps}
  <1> DEFINE Known == req'[t].uid \in {req[t].uid, pvc.uid, 0} \cup {caps[c].uid : c \in Caps}
  <1>1. pc \in [Threads -> PCs] /\ req \in [Threads -> Requests]
    BY DEF ThreadsOK
  <1>2. UNCHANGED req => Known
    OBVIOUS
  <1>3. Answer(t) => Known
    BY <1>1 DEF Answer, Blank
  <1>4. \A outcome : Leave(t, outcome) => Known
    BY <1>1 DEF Leave, Requests
  <1>5. \A outcome : PublishReturn(t, outcome) => Known
    BY <1>3, <1>4 DEF PublishReturn
  <1>6. CASE BeginStep(t)
    <2>1. ASSUME NEW c \in Caps, IssueAuthorize(t, c) PROVE req'[t].uid = pvc.uid
      BY <1>1, <2>1 DEF IssueAuthorize, Begin, Blank
    <2>2. ASSUME NEW c \in Caps, NEW r \in Revisions, UploadBegin(t, c, r) PROVE req'[t].uid = caps[c].uid
      BY <1>1, <2>2 DEF UploadBegin, Begin, Blank
    <2>3. ASSUME NEW r \in Revisions, PublishBegin(t, r) PROVE req'[t].uid = 0
      BY <1>1, <2>3 DEF PublishBegin, Begin, Blank
    <2>4. ASSUME NEW r \in Revisions, FreezeAuthorize(t, r) \/ ExportAuthorize(t, r) PROVE req'[t].uid = pvc.uid
      BY <1>1, <2>4 DEF FreezeAuthorize, ExportAuthorize, Begin, Blank
    <2> QED BY <1>6, <2>1, <2>2, <2>3, <2>4 DEF BeginStep
  <1>7. CASE \/ IssuePut(t) \/ UploadGet(t) \/ UploadLock(t) \/ UploadRecheck(t)
             \/ UploadUnlock(t) \/ UploadFinish(t)
    BY <1>1, <1>2, <1>3, <1>4, <1>7
       DEF IssuePut, UploadGet, UploadLock, UploadRecheck, UploadUnlock, UploadFinish, Requests
  <1>8. CASE \E p \in Pods : CreatePod(t, p)
    BY <1>1, <1>8 DEF CreatePod, Requests
  <1>9. CASE \/ CreatePodFails(t) \/ PodReady(t) \/ PodNotReady(t) \/ StreamEnds(t) \/ StreamFails(t)
             \/ CleanPod(t) \/ CleanPodFails(t) \/ AbortPod(t) \/ ExportRecheck(t) \/ ExportCheck(t)
    BY <1>1, <1>2, <1>3, <1>4, <1>9
       DEF CreatePodFails, PodReady, PodNotReady, StreamEnds, StreamFails, CleanPod, CleanPodFails,
           AbortPod, ExportRecheck, ExportCheck, Requests
  <1>10. CASE PublishGet(t) \/ PublishUpdate(t) \/ PublishConflict(t)
    BY <1>1, <1>2, <1>5, <1>10 DEF PublishGet, PublishUpdate, PublishConflict, Conflict, Requests
  <1>11. CASE \/ FreezeConfirm(t) \/ FreezeTryLock(t) \/ FreezeGet(t) \/ FreezeUpdate(t) \/ FreezeUnlock(t)
              \/ FreezeConflict(t)
    BY <1>1, <1>2, <1>3, <1>11
       DEF FreezeConfirm, FreezeTryLock, FreezeGet, FreezeUpdate, FreezeUnlock, FreezeConflict,
          Conflict, Requests
  <1> QED BY <1>6, <1>7, <1>8, <1>9, <1>10, <1>11 DEF ThreadStep

\* The request whose step sets a helper to work.
Starts(t, p) ==
  /\ req[t].pod = p /\ pod[p].phase = "running" /\ pod' = [pod EXCEPT ![p].phase = "working"]
  /\ \/ PodReady(t) /\ req[t].op = "upload" /\ pc'[t] = "stream"
     \/ ExportRecheck(t) /\ PinnedAt(req[t].uid, req[t].rev)

\* What a step may do to a helper pod.
LEMMA PodMoves ==
  ASSUME IInv, [Next]_vars, NEW p \in Pods
  PROVE  \/ pod'[p] = pod[p] \/ pod'[p] = NoPod
         \/ \E t \in Threads : CreatePod(t, p)
         \/ PodMount(p) \/ HelperWorks(p) \/ HelperRejects(p)
         \/ \E t \in Threads : Starts(t, p)
  <1>1. pc \in [Threads -> PCs] /\ pod \in [Pods -> HelperPods]
    BY DEF IInv, ThreadsOK, TableOK
  <1>2. CASE UNCHANGED pod
    BY <1>2
  <1>3. ASSUME NEW t \in Threads, NEW q \in Pods, CreatePod(t, q)
        PROVE  pod'[p] = pod[p] \/ CreatePod(t, p)
    BY <1>1, <1>3 DEF CreatePod
  <1>4. ASSUME NEW t \in Threads, PodReady(t) \/ ExportRecheck(t)
        PROVE  pod'[p] = pod[p] \/ Starts(t, p)
    BY <1>1, <1>4 DEF PodReady, ExportRecheck, Starts, Goto
  <1>5. ASSUME NEW t \in Threads, CleanPod(t) \/ AbortPod(t)
        PROVE  pod'[p] = pod[p] \/ pod'[p] = NoPod
    BY <1>1, <1>5 DEF CleanPod, AbortPod
  <1>6. ASSUME NEW q \in Pods, PodStep(q)
        PROVE  pod'[p] = pod[p] \/ pod'[p] = NoPod \/ PodMount(p) \/ HelperWorks(p) \/ HelperRejects(p)
    BY <1>1, <1>6 DEF PodStep, PodMount, PodKilled, HelperWorks, HelperRejects
  <1> QED BY <1>2, <1>3, <1>4, <1>5, <1>6, TableSteps DEF vars

\* Volumes only gain revisions, and UIDs are only added.
LEMMA VolumesGrow ==
  ASSUME IInv, [Next]_vars
  PROVE  /\ created' \in {created, created + 1} /\ created \in Nat
         /\ \A u \in UIDs : storage[u] \subseteq storage'[u]
         /\ \A r : OnVolume(r) => OnVolumeNext(r)
  <1>1. storage \in [UIDs -> SUBSET Revisions] /\ created \in Nat
    BY DEF IInv, TableOK
  <1>2. created' \in {created, created + 1}
    BY TableSteps DEF vars, CreateContext
  <1>3. \A u \in UIDs : storage[u] \subseteq storage'[u]
    BY <1>1, TableSteps DEF vars, HelperWorks
  <1>4. UIDs \subseteq Nat
    BY UploadAssumption DEF UIDs
  <1> QED BY <1>1, <1>2, <1>3, <1>4 DEF OnVolume, OnVolumeNext

-----------------------------------------------------------------------------
(* The parts of the second invariant.                                       *)

\* A pod that is not created now keeps its job.
LEMMA PodKeepsJob ==
  ASSUME IInv, [Next]_vars, NEW p \in Pods, ~\E t \in Threads : CreatePod(t, p), pod'[p].phase # "none"
  PROVE  pod[p].phase # "none" /\ pod'[p].kind = pod[p].kind /\ pod'[p].rev = pod[p].rev
  <1>1. pod[p] \in HelperPods /\ pod \in [Pods -> HelperPods]
    BY DEF IInv, TableOK
  <1>2. pod'[p] # NoPod
    BY DEF NoPod
  <1>3. CASE PodMount(p)
    BY <1>1, <1>3 DEF PodMount, HelperPods
  <1>4. CASE HelperWorks(p) \/ HelperRejects(p) \/ \E t \in Threads : Starts(t, p)
    BY <1>1, <1>4 DEF HelperWorks, HelperRejects, Starts, HelperPods
  <1> QED BY <1>2, <1>3, <1>4, PodMoves

\* A pod belongs to the one request that created it.
LEMMA PodsOwnedStep ==
  ASSUME IInv, PodsOwned, [Next]_vars
  PROVE  PodsOwned'
  <1>1. /\ ThreadsOK /\ pc \in [Threads -> PCs] /\ req \in [Threads -> Requests]
        /\ pod \in [Pods -> HelperPods] /\ None \notin Pods
    BY UploadAssumption DEF IInv, ThreadsOK, TableOK
  <1>2. \A t \in Threads : req[t].pod # None => req[t].pod \in Pods
    BY <1>1 DEF Requests
  <1> DEFINE JobOf(t) == req[t].pod # None /\ pod[req[t].pod].phase # "none" =>
                           pod[req[t].pod].kind = req[t].op /\ pod[req[t].pod].rev = req[t].rev
  <1>3. ASSUME NEW s \in Threads, req'[s] = req[s] PROVE JobOf(s)'
    <2> SUFFICES ASSUME req[s].pod # None, pod'[req[s].pod].phase # "none"
                 PROVE  pod'[req[s].pod].kind = req[s].op /\ pod'[req[s].pod].rev = req[s].rev
      BY <1>3
    <2>1. ~\E t \in Threads : CreatePod(t, req[s].pod)
      BY DEF CreatePod
    <2> QED BY <1>2, <2>1, PodKeepsJob DEF PodsOwned
  <1>4. CASE UNCHANGED <<pc, req>>
    BY <1>3, <1>4 DEF PodsOwned
  <1>5. CASE Restart
    BY <1>5 DEF Restart, PodsOwned, Blank
  <1>6. ASSUME NEW t \in Threads, ThreadStep(t) \/ BeginStep(t), OthersStay(t)
        PROVE  PodsOwned'
    <2>1. \A s \in Threads \ {t} : pc'[s] = pc[s] /\ req'[s] = req[s] /\ JobOf(s)'
      BY <1>3, <1>6 DEF OthersStay
    <2>2. CASE req'[t].pod = None
      BY <2>1, <2>2 DEF PodsOwned
    <2>3. CASE req'[t] = req[t] /\ pc'[t] \in HelperLabels
      BY <1>3, <2>1, <2>3 DEF PodsOwned
    <2>4. ASSUME NEW p \in Pods, CreatePod(t, p), req'[t] = [req[t] EXCEPT !.pod = p], pc'[t] = "pod_wait"
          PROVE  PodsOwned'
      <3>1. req'[t].pod = p /\ req'[t].op = req[t].op /\ req'[t].rev = req[t].rev
        BY <1>1, <2>4 DEF Requests
      <3>2. \A s \in Threads : req[s].pod # p
        BY <2>4 DEF CreatePod
      <3>3. pod'[p].kind = req[t].op /\ pod'[p].rev = req[t].rev
        BY <1>1, <2>4 DEF CreatePod, NoPod
      <3>4. \A s \in Threads : JobOf(s)' /\ (req'[s].pod # None => pc'[s] \in HelperLabels)
        BY <2>1, <2>4, <3>1, <3>3 DEF PodsOwned, HelperLabels
      <3>5. \A s \in Threads \ {t} : req'[s].pod # req'[t].pod
        BY <2>1, <3>1, <3>2
      <3> QED BY <2>1, <3>4, <3>5 DEF PodsOwned
    <2> QED BY <1>1, <1>6, <2>2, <2>3, <2>4, OwnPodMoves DEF PodsOwned
  <1> QED BY <1>1, <1>4, <1>5, <1>6, ThreadCases

\* The PVC a pod has mounted is in use, and so it stays.
LEMMA MountedStays ==
  ASSUME IInv, MountsCurrent, [Next]_vars, NEW p \in Pods, Mounted(p)
  PROVE  pod[p].mount \in UIDs /\ pvc.uid = pod[p].mount /\ pvc'.uid = pvc.uid
  <1>1. pod[p].mount \in UIDs /\ pvc.uid = pod[p].mount /\ pvc \in PVCs /\ ObjectOK(pvc)
    BY DEF IInv, TableOK, ObjectOK, PodOK, Mounted, MountsCurrent
  <1>2. InUse(pvc.uid) /\ pvc.uid # 0
    BY <1>1 DEF InUse, Mounted, UIDs
  <1>3. ASSUME NEW t \in Threads, PublishUpdate(t) PROVE pvc'.uid = pvc.uid
    BY <1>1, <1>3, PublishWrites, WithRevisionOK, UploadAssumption
  <1>4. ASSUME NEW t \in Threads, FreezeUpdate(t) PROVE pvc'.uid = pvc.uid
    BY <1>1, <1>4, FreezeWrites, UploadAssumption DEF PVCs
  <1>5. ~CreateContext /\ ~FinalizePVC /\ (DeleteContext => pvc'.uid = pvc.uid)
    BY <1>1, <1>2 DEF CreateContext, FinalizePVC, DeleteContext, PVCs
  <1> QED BY <1>1, <1>3, <1>4, <1>5, ObjectSteps DEF vars

\* What a pod has mounted is the PVC behind the name.
LEMMA MountsStep ==
  ASSUME IInv, MountsCurrent, [Next]_vars
  PROVE  MountsCurrent'
  <1> SUFFICES ASSUME NEW p \in Pods, Mounted(p)' PROVE pod'[p].mount = pvc'.uid
    BY DEF MountsCurrent
  <1>1. pod[p] \in HelperPods /\ pod \in [Pods -> HelperPods]
    BY DEF IInv, TableOK
  <1>2. CASE Mounted(p) /\ pod'[p].mount = pod[p].mount
    BY <1>2, MountedStays
  <1>3. CASE PodMount(p)
    BY <1>1, <1>3 DEF PodMount, HelperPods, cluster
  <1>4. ASSUME NEW t \in Threads, CreatePod(t, p) PROVE FALSE
    BY <1>1, <1>4 DEF CreatePod, NoPod, Mounted
  <1>5. CASE HelperWorks(p) \/ HelperRejects(p) \/ \E t \in Threads : Starts(t, p)
    BY <1>1, <1>2, <1>5 DEF HelperWorks, HelperRejects, Starts, Mounted, HelperPods
  <1> QED BY <1>2, <1>3, <1>4, <1>5, PodMoves DEF Mounted, NoPod

\* A helper that is done has put its revision there, or has found it there.
LEMMA DoneStep ==
  ASSUME IInv, DoneIsStored, [Next]_vars
  PROVE  DoneIsStored'
  <1> SUFFICES ASSUME NEW p \in Pods, pod'[p].phase = "done" PROVE pod'[p].rev \in storage'[pod'[p].mount]
    BY DEF DoneIsStored
  <1>1. /\ pod[p] \in HelperPods /\ pod \in [Pods -> HelperPods] /\ PodOK(pod[p])
        /\ storage \in [UIDs -> SUBSET Revisions]
    BY DEF IInv, TableOK
  <1>2. CASE pod'[p] = pod[p]
    BY <1>1, <1>2, VolumesGrow DEF DoneIsStored, PodOK
  <1>3. CASE HelperWorks(p)
    BY <1>1, <1>3 DEF HelperWorks, PodOK, HelperPods
  <1>4. ASSUME NEW t \in Threads, CreatePod(t, p) PROVE FALSE
    BY <1>1, <1>4 DEF CreatePod, NoPod
  <1>5. ~PodMount(p) /\ ~HelperRejects(p) /\ pod'[p] # NoPod /\ ~\E t \in Threads : Starts(t, p)
    BY <1>1 DEF PodMount, HelperRejects, Starts, HelperPods, NoPod
  <1> QED BY <1>2, <1>3, <1>4, <1>5, PodMoves

\* Every UID in use was given to a PVC.
LEMMA UidsStep ==
  ASSUME IInv, UidsGiven, [Next]_vars
  PROVE  UidsGiven'
  <1>1. /\ ThreadsOK /\ req \in [Threads -> Requests] /\ caps \in [Caps -> Capabilities]
        /\ created \in Nat /\ created' \in {created, created + 1} /\ pvc \in PVCs /\ ObjectOK(pvc)
    BY VolumesGrow DEF IInv, ThreadsOK, TableOK, ObjectOK
  <1>2. \A c \in Caps : caps[c].uid \in Nat /\ caps[c] \in Capabilities
    BY <1>1 DEF Capabilities
  <1>3. \A t \in Threads : req[t].uid \in Nat /\ req[t] \in Requests
    BY <1>1 DEF Requests
  <1>4. pvc.uid \in Nat
    BY <1>1 DEF PVCs
  <1>5. pvc'.uid <= created'
    <2>1. CASE pvc'.uid = pvc.uid
      BY <1>1, <1>4, <2>1 DEF UidsGiven
    <2>2. CASE CreateContext
      BY <1>1, <2>2 DEF CreateContext, NoPVC
    <2>3. CASE FinalizePVC
      BY <1>1, <2>3 DEF FinalizePVC, NoPVC
    <2>4. CASE DeleteContext
      BY <1>1, <2>1, <2>4 DEF DeleteContext, PVCs
    <2>5. ASSUME NEW t \in Threads, PublishUpdate(t) PROVE pvc'.uid = pvc.uid
      BY <1>1, <2>5, PublishWrites, WithRevisionOK, UploadAssumption
    <2>6. ASSUME NEW t \in Threads, FreezeUpdate(t) PROVE pvc'.uid = pvc.uid
      BY <1>1, <2>6, FreezeWrites, UploadAssumption DEF PVCs
    <2> QED BY <2>1, <2>2, <2>3, <2>4, <2>5, <2>6, ObjectSteps DEF vars
  <1>6. ASSUME NEW c \in Caps PROVE caps'[c].uid <= created'
    <2>1. caps'[c].uid = caps[c].uid \/ \E t \in Threads : caps'[c].uid = req[t].uid
      <3>1. ASSUME NEW t \in Threads, IssuePut(t)
            PROVE  caps'[c].uid \in {caps[c].uid, req[t].uid}
        BY <1>1, <1>2, <3>1 DEF IssuePut, Purged, Capabilities
      <3>2. ASSUME NEW t \in Threads, UploadFinish(t)
            PROVE  caps'[c].uid = caps[c].uid
        BY <1>1, <1>2, <3>2 DEF UploadFinish, Finished, Capabilities
      <3>3. CASE Restart
        BY <1>1, <1>2, <3>3 DEF Restart, Capabilities
      <3>4. ASSUME NEW d \in Caps, Expire(d) \/ UploadRefused(d)
            PROVE  caps'[c].uid = caps[c].uid
        BY <1>1, <1>2, <3>4 DEF Expire, UploadRefused, Capabilities
      <3>5. ASSUME NEW t \in Threads, NEW d \in Caps, NEW r \in Revisions, UploadBegin(t, d, r)
            PROVE  caps'[c].uid = caps[c].uid
        BY <1>1, <1>2, <3>5 DEF UploadBegin, Capabilities
      <3> QED BY <3>1, <3>2, <3>3, <3>4, <3>5, TableSteps DEF vars
    <2> QED BY <1>1, <1>2, <1>3, <2>1 DEF UidsGiven
  <1>7. ASSUME NEW t \in Threads PROVE req'[t].uid <= created'
    <2>1. CASE req'[t] = req[t]
      BY <1>1, <1>3, <2>1 DEF UidsGiven
    <2>2. CASE Restart
      BY <1>1, <2>2 DEF Restart, Blank
    <2>3. CASE ThreadStep(t) \/ BeginStep(t)
      BY <1>1, <1>2, <1>3, <1>4, <2>3, OwnUidMoves DEF UidsGiven
    <2> QED BY <1>1, <2>1, <2>2, <2>3, ThreadCases DEF OthersStay
  <1> QED BY <1>5, <1>6, <1>7 DEF UidsGiven

\* Who publishes has done so all along, or has just seen its helper end well.
LEMMA PublishingMoves ==
  ASSUME ThreadsOK, PodsOwned, NEW t \in Threads, ThreadStep(t) \/ BeginStep(t),
         UploadIn(t, PublishingLabels)'
  PROVE  /\ req'[t].rev = req[t].rev
         /\ UploadIn(t, PublishingLabels) \/ (StreamEnds(t) /\ req[t].op = "upload")
  <1> USE DEF UploadIn, PublishingLabels, PublishLabels
  <1>1. pc \in [Threads -> PCs] /\ req \in [Threads -> Requests] /\ ThreadOK(pc[t], req[t])
    BY DEF ThreadsOK
  <1>2. \A label : Goto(t, label) => pc'[t] = label
    BY <1>1 DEF Goto
  <1>3. ~Answer(t) /\ \A outcome : ~Leave(t, outcome) /\ ~PublishReturn(t, outcome)
    BY <1>2 DEF Answer, Leave, PublishReturn
  <1>4. ASSUME BeginStep(t) PROVE FALSE
    BY <1>1, <1>2, <1>4 DEF BeginStep, Begin, IssueAuthorize, UploadBegin, PublishBegin,
       FreezeAuthorize, ExportAuthorize, Blank
  <1>5. /\ ~IssuePut(t) /\ ~UploadGet(t) /\ ~UploadLock(t) /\ ~UploadRecheck(t)
        /\ ~UploadUnlock(t) /\ ~UploadFinish(t)
    BY <1>2, <1>3 DEF IssuePut, UploadGet, UploadLock, UploadRecheck, UploadUnlock, UploadFinish
  <1>6. /\ ~CreatePodFails(t) /\ ~PodReady(t) /\ ~PodNotReady(t) /\ ~StreamFails(t) /\ ~CleanPodFails(t)
        /\ ~AbortPod(t) /\ ~ExportRecheck(t) /\ ~ExportCheck(t) /\ \A p \in Pods : ~CreatePod(t, p)
    BY <1>2, <1>3 DEF CreatePodFails, PodReady, PodNotReady, StreamFails, CleanPodFails, AbortPod,
       ExportRecheck, ExportCheck, CreatePod
  <1>7. /\ ~FreezeConfirm(t) /\ ~FreezeTryLock(t) /\ ~FreezeGet(t) /\ ~FreezeUpdate(t) /\ ~FreezeUnlock(t)
        /\ ~FreezeConflict(t) /\ ~PublishUpdate(t)
    BY <1>2, <1>3 DEF FreezeConfirm, FreezeTryLock, FreezeGet, FreezeUpdate, FreezeUnlock,
       FreezeConflict, Conflict, PublishUpdate
  <1>8. CASE StreamEnds(t)
    BY <1>8 DEF StreamEnds
  <1>9. CASE CleanPod(t)
    BY <1>1, <1>3, <1>9 DEF CleanPod, Requests
  <1>10. CASE PublishGet(t)
    BY <1>1, <1>3, <1>10 DEF PublishGet, Requests
  <1>11. CASE PublishConflict(t)
    BY <1>1, <1>3, <1>11 DEF PublishConflict, Conflict, Requests
  <1> QED BY <1>4, <1>5, <1>6, <1>7, <1>8, <1>9, <1>10, <1>11 DEF ThreadStep

\* An upload publishes what its helper has put on a volume of the Context.
LEMMA UploadsStoredStep ==
  ASSUME IInv, PodsOwned, MountsCurrent, DoneIsStored, UidsGiven, UploadsStored, [Next]_vars
  PROVE  UploadsStored'
  <1>1. /\ ThreadsOK /\ pc \in [Threads -> PCs] /\ req \in [Threads -> Requests]
        /\ pvc \in PVCs /\ ObjectOK(pvc) /\ \A t \in Threads : ThreadOK(pc[t], req[t])
    BY DEF IInv, ThreadsOK, ObjectOK
  <1>2. ASSUME NEW t \in Threads, UploadIn(t, PublishingLabels)'
        PROVE  OnVolumeNext(req'[t].rev)
    <2>1. CASE UNCHANGED <<pc[t], req[t]>>
      BY <1>2, <2>1, VolumesGrow DEF UploadsStored, UploadIn
    <2>2. CASE ThreadStep(t) \/ BeginStep(t)
      <3>1. CASE UploadIn(t, PublishingLabels) /\ req'[t].rev = req[t].rev
        BY <3>1, VolumesGrow DEF UploadsStored
      <3>2. CASE StreamEnds(t) /\ req[t].op = "upload" /\ req'[t].rev = req[t].rev
        <4> DEFINE p == req[t].pod
        <4>1. p \in Pods /\ p # None /\ pod[p].phase = "done"
          BY <1>1, <3>2, UploadAssumption DEF StreamEnds, ThreadOK, HelperLabels
        <4>2. pod[p].rev = req[t].rev /\ pod[p].rev \in storage[pod[p].mount]
          BY <4>1 DEF PodsOwned, DoneIsStored
        <4>3. pod[p].mount \in UIDs /\ pvc.uid = pod[p].mount
          BY <4>1, MountedStays DEF Mounted
        <4>4. OnVolume(req[t].rev)
          BY <4>2, <4>3 DEF OnVolume, UidsGiven
        <4> QED BY <3>2, <4>4, VolumesGrow
      <3> QED BY <1>1, <1>2, <2>2, <3>1, <3>2, PublishingMoves
    <2>3. CASE Restart
      BY <1>2, <2>3 DEF Restart, UploadIn, Blank
    <2> QED BY <1>1, <2>1, <2>2, <2>3, ThreadCases DEF OthersStay
  <1> DEFINE Stored(h) == \A i \in 1..Len(h) : h[i].by # Client => OnVolumeNext(h[i].id)
  <1>3. Stored(pvc.history) /\ Stored(<<>>)
    BY VolumesGrow DEF UploadsStored
  <1>4. Stored(pvc'.history)
    <2>1. CASE UNCHANGED pvc
      BY <1>3, <2>1
    <2>2. CASE CreateContext \/ FinalizePVC
      BY <1>3, <2>2 DEF CreateContext, FinalizePVC, NoPVC
    <2>3. CASE DeleteContext
      BY <1>1, <1>3, <2>3 DEF DeleteContext, PVCs
    <2>4. ASSUME NEW t \in Threads, FreezeUpdate(t) PROVE Stored(pvc'.history)
      <3>1. pvc'.history = pvc.history
        BY <1>1, <2>4, FreezeWrites, UploadAssumption DEF PVCs
      <3> QED BY <1>3, <3>1
    <2>5. ASSUME NEW t \in Threads, PublishUpdate(t) PROVE Stored(pvc'.history)
      <3> DEFINE entry == [id |-> req[t].rev, by |-> Producer(t)]
                 h == pvc.history
      <3>1. pvc' = WithRevision(pvc, entry) /\ pc[t] = "pub_update" /\ h \in Seq(Entries)
        BY <1>1, <2>5 DEF PublishUpdate, Unchanged, PVCs
      <3>2. pvc'.history \in {h, Append(h, entry)}
        BY <1>1, <3>1 DEF WithRevision, PVCs
      <3>3. entry.by # Client => OnVolumeNext(entry.id)
        BY <3>1, VolumesGrow DEF Producer, UploadsStored, UploadIn, PublishingLabels, PublishLabels
      <3> HIDE DEF entry
      <3>4. Stored(Append(h, entry))
        <4>1. \A i \in 1..Len(h) : Append(h, entry)[i] = h[i]
          BY <3>1
        <4>2. Len(Append(h, entry)) = Len(h) + 1 /\ Append(h, entry)[Len(h) + 1] = entry /\ Len(h) \in Nat
          BY <3>1
        <4>3. \A i \in 1..Len(Append(h, entry)) : i \in 1..Len(h) \/ i = Len(h) + 1
          BY <4>2
        <4> QED BY <1>3, <3>3, <4>1, <4>2, <4>3
      <3> QED BY <1>3, <3>2, <3>4
    <2> QED BY <2>1, <2>2, <2>3, <2>4, <2>5, ObjectSteps DEF vars
  <1> QED BY <1>2, <1>4 DEF UploadsStored, OnVolume, OnVolumeNext

\* An export starts to stream only after the second check.
LEMMA ExportMoves ==
  ASSUME ThreadsOK, NEW t \in Threads, ThreadStep(t) \/ BeginStep(t), pc'[t] = "stream"
  PROVE  req'[t] = req[t] /\ (req[t].op = "upload" \/ (PinnedAt(req[t].uid, req[t].rev) /\ UNCHANGED pvc))
  <1>1. pc \in [Threads -> PCs] /\ req \in [Threads -> Requests] /\ ThreadOK(pc[t], req[t])
    BY DEF ThreadsOK
  <1>2. \A label : Goto(t, label) => pc'[t] = label
    BY <1>1 DEF Goto
  <1>3. ~Answer(t) /\ \A outcome : ~Leave(t, outcome) /\ ~PublishReturn(t, outcome)
    BY <1>2 DEF Answer, Leave, PublishReturn
  <1>4. ASSUME BeginStep(t) PROVE FALSE
    BY <1>1, <1>2, <1>4 DEF BeginStep, Begin, IssueAuthorize, UploadBegin, PublishBegin,
       FreezeAuthorize, ExportAuthorize, Blank
  <1>5. /\ ~IssuePut(t) /\ ~UploadGet(t) /\ ~UploadLock(t) /\ ~UploadRecheck(t)
        /\ ~UploadUnlock(t) /\ ~UploadFinish(t)
    BY <1>2, <1>3 DEF IssuePut, UploadGet, UploadLock, UploadRecheck, UploadUnlock, UploadFinish
  <1>6. /\ ~CreatePodFails(t) /\ ~PodNotReady(t) /\ ~StreamEnds(t) /\ ~StreamFails(t) /\ ~CleanPod(t)
        /\ ~CleanPodFails(t) /\ ~AbortPod(t) /\ ~ExportCheck(t) /\ \A p \in Pods : ~CreatePod(t, p)
    BY <1>2, <1>3 DEF CreatePodFails, PodNotReady, StreamEnds, StreamFails, CleanPod, CleanPodFails,
       AbortPod, ExportCheck, CreatePod
  <1>7. ~FreezeConfirm(t) /\ ~FreezeTryLock(t) /\ ~FreezeGet(t) /\ ~FreezeUpdate(t) /\ ~FreezeUnlock(t)
    BY <1>2, <1>3 DEF FreezeConfirm, FreezeTryLock, FreezeGet, FreezeUpdate, FreezeUnlock
  <1>8. ~FreezeConflict(t) /\ ~PublishUpdate(t) /\ ~PublishGet(t) /\ ~PublishConflict(t)
    BY <1>2, <1>3 DEF FreezeConflict, Conflict, PublishUpdate, PublishGet, PublishConflict
  <1>9. CASE PodReady(t)
    BY <1>2, <1>9 DEF PodReady
  <1>10. CASE ExportRecheck(t)
    BY <1>2, <1>10 DEF ExportRecheck, cluster
  <1> QED BY <1>4, <1>5, <1>6, <1>7, <1>8, <1>9, <1>10 DEF ThreadStep

\* An export streams from a PVC that stays pinned while its helper works.
LEMMA ExportStep ==
  ASSUME IInv, PodsOwned, MountsCurrent, ExportReadsPinned, [Next]_vars
  PROVE  ExportReadsPinned'
  <1>1. /\ ThreadsOK /\ pc \in [Threads -> PCs] /\ req \in [Threads -> Requests]
        /\ pod \in [Pods -> HelperPods] /\ \A t \in Threads : ThreadOK(pc[t], req[t])
        /\ pvc \in PVCs /\ ObjectOK(pvc)
    BY DEF IInv, ThreadsOK, TableOK, ObjectOK
  <1> DEFINE Pinned(uid, r) == pvc'.uid = uid /\ pvc'.current = r /\ pvc'.frozen = r
  <1> SUFFICES ASSUME NEW t \in Threads,
                      req'[t].op = "export", pc'[t] = "stream", pod'[req'[t].pod].phase = "working"
               PROVE  pod'[req'[t].pod].mount = req'[t].uid /\ Pinned(req'[t].uid, req'[t].rev)
    BY DEF ExportReadsPinned, PinnedAt
  <1> DEFINE p == req[t].pod
  <1>2. ~Restart
    BY DEF Restart
  <1>3. CASE ThreadStep(t) \/ BeginStep(t)
    <2>1. req'[t] = req[t] /\ PinnedAt(req[t].uid, req[t].rev) /\ UNCHANGED pvc
      BY <1>1, <1>3, ExportMoves
    <2>2. CASE p \in Pods
      <3>1. MountsCurrent'
        BY MountsStep
      <3> QED BY <2>1, <2>2, <3>1 DEF MountsCurrent, Mounted, PinnedAt
    <2>3. ThreadsOK'
      BY <1>3, StepsKeepThreads, BeginsKeepThreads, UploadAssumption DEF BeginStep
    <2>4. p \in Pods
      BY <2>1, <2>3 DEF ThreadsOK, ThreadOK, HelperLabels
    <2> QED BY <2>2, <2>4
  <1>4. CASE UNCHANGED <<pc[t], req[t]>>
    <2>1. p \in Pods /\ p # None /\ pod'[p].phase = "working" /\ pc[t] = "stream" /\ req[t].op = "export"
      BY <1>1, <1>4, UploadAssumption DEF ThreadOK, HelperLabels
    <2>2. pod[p].phase = "working" /\ pod'[p].mount = pod[p].mount
      <3>1. \A s \in Threads : ~CreatePod(s, p)
        BY DEF CreatePod
      <3>2. \A s \in Threads : ~Starts(s, p)
        BY <1>4, <2>1 DEF Starts, PodsOwned, PodReady, ExportRecheck
      <3>3. pod[p] \in HelperPods
        BY <1>1, <2>1
      <3>4. ~PodMount(p) /\ ~HelperWorks(p) /\ ~HelperRejects(p) /\ pod'[p] # NoPod
        BY <1>1, <2>1, <3>3 DEF PodMount, HelperWorks, HelperRejects, HelperPods, NoPod
      <3> QED BY <2>1, <3>1, <3>2, <3>4, PodMoves
    <2>3. pod[p].mount = req[t].uid /\ PinnedAt(req[t].uid, req[t].rev) /\ req[t].rev \in Revisions
      BY <1>1, <2>1, <2>2 DEF ExportReadsPinned, ThreadOK, RevisionLabels, PodLabels
    <2>4. pvc'.uid = pvc.uid /\ pvc.uid \in UIDs
      BY <2>1, <2>2, MountedStays DEF Mounted
    <2>5. pvc.frozen # None /\ pvc.uid # 0
      BY <2>3, <2>4, UploadAssumption DEF PinnedAt, UIDs
    <2>6. pvc'.current = pvc.current /\ pvc'.frozen = pvc.frozen
      <3>1. \A s \in Threads : ~PublishUpdate(s) /\ ~FreezeUpdate(s)
        BY <2>5, PublishWrites, FreezeWrites, UploadAssumption
      <3>2. ~CreateContext /\ ~FinalizePVC
        BY <2>4, <2>5 DEF CreateContext, FinalizePVC, NoPVC
      <3>3. DeleteContext => pvc'.current = pvc.current /\ pvc'.frozen = pvc.frozen
        BY <1>1 DEF DeleteContext, PVCs
      <3> QED BY <3>1, <3>2, <3>3, ObjectSteps DEF vars
    <2> QED BY <1>4, <2>2, <2>3, <2>4, <2>6 DEF PinnedAt
  <1> QED BY <1>1, <1>2, <1>3, <1>4, ThreadCases DEF OthersStay

\* Unless it is left behind, a helper that imports keeps its request.
LEMMA AttendedStep ==
  ASSUME IInv, PodsOwned, ImportsAttended, [Next]_vars
  PROVE  ImportsAttended'
  <1>1. /\ ThreadsOK /\ pc \in [Threads -> PCs] /\ req \in [Threads -> Requests]
        /\ pod \in [Pods -> HelperPods] /\ \A t \in Threads : ThreadOK(pc[t], req[t])
    BY DEF IInv, ThreadsOK, TableOK
  <1> DEFINE Attends(t, p) == pc'[t] \in AttendLabels /\ req'[t].op = "upload" /\ req'[t].pod = p
  <1> SUFFICES ASSUME NEW p \in Pods, pod'[p].phase = "working", pod'[p].kind = "upload", p \notin left'
               PROVE  \E t \in Threads : Attends(t, p)
    BY DEF ImportsAttended, AtWork, UploadIn
  <1>2. pod[p] \in HelperPods
    BY <1>1
  <1>3. ~Restart
    BY DEF Restart, cluster, AtWork
  <1>4. p \notin left
    <2>1. \A t \in Threads : AbortPod(t) => left \subseteq left'
      BY DEF AbortPod
    <2>2. \A q \in Pods : PodKilled(q) => left' = left \ {q} /\ (q = p => pod'[p] = NoPod)
      BY <1>1 DEF PodKilled
    <2>3. pod'[p] # NoPod
      BY DEF NoPod
    <2> QED BY <1>3, <2>1, <2>2, <2>3, TableSteps DEF vars
  <1>5. ASSUME NEW t \in Threads, Starts(t, p) PROVE Attends(t, p)
    <2>1. p # None /\ pod[p].kind = "upload" /\ pod[p].phase # "none"
      BY <1>2, <1>5, UploadAssumption DEF Starts, HelperPods
    <2>2. req[t].op = "upload"
      BY <1>5, <2>1 DEF Starts, PodsOwned
    <2>3. PodReady(t) /\ pc'[t] = "stream"
      BY <1>1, <1>5, <2>2 DEF Starts, ExportRecheck, ThreadOK, ExportLabels
    <2> QED BY <1>5, <2>2, <2>3 DEF Starts, PodReady, AttendLabels
  <1>6. CASE pod'[p] = pod[p]
    <2>1. PICK t \in Threads : UploadIn(t, AttendLabels) /\ req[t].pod = p
      BY <1>4, <1>6 DEF ImportsAttended, AtWork
    <2>2. CASE UNCHANGED <<pc[t], req[t]>>
      BY <2>1, <2>2 DEF UploadIn
    <2>3. CASE ThreadStep(t) \/ BeginStep(t)
      <3>1. pc[t] \in {"stream", "abort"} /\ req[t].op = "upload" /\ req[t].pod = p
        BY <2>1 DEF UploadIn, AttendLabels
      <3>2. StreamEnds(t) \/ StreamFails(t) \/ AbortPod(t)
        BY <2>3, <3>1 DEF ThreadStep, BeginStep, IssuePut, UploadGet, UploadLock, UploadRecheck,
           UploadUnlock, UploadFinish, CreatePod, CreatePodFails, PodReady, PodNotReady, CleanPod,
           CleanPodFails, PublishGet, PublishUpdate, PublishConflict, FreezeConfirm, FreezeTryLock,
           FreezeGet, FreezeUpdate, FreezeConflict, FreezeUnlock, ExportCheck, ExportRecheck, Begin,
           IssueAuthorize, UploadBegin, PublishBegin, FreezeAuthorize, ExportAuthorize
      <3>3. ~StreamEnds(t)
        BY <1>6, <3>1 DEF StreamEnds
      <3>4. ~AbortPod(t)
        BY <1>1, <1>6, <3>1 DEF AbortPod, AtWork, NoPod
      <3>5. CASE StreamFails(t)
        BY <1>1, <1>6, <3>1, <3>5 DEF StreamFails, Goto, AttendLabels
      <3> QED BY <3>2, <3>3, <3>4, <3>5
    <2> QED BY <1>1, <1>3, <2>2, <2>3, ThreadCases DEF OthersStay
  <1>7. ~PodMount(p) /\ ~HelperWorks(p) /\ ~HelperRejects(p) /\ pod'[p] # NoPod
    BY <1>1, <1>2 DEF PodMount, HelperWorks, HelperRejects, HelperPods, NoPod
  <1>8. \A t \in Threads : ~CreatePod(t, p)
    BY <1>1 DEF CreatePod, NoPod
  <1> QED BY <1>5, <1>6, <1>7, <1>8, PodMoves

\* What a thread's own step may do to its claim on a capability: it drops it,
\* keeps it, or claims one.
LEMMA OwnCapMoves ==
  ASSUME ThreadsOK, NEW t \in Threads, ThreadStep(t) \/ BeginStep(t)
  PROVE  \/ req'[t].cap = None /\ req'[t].op \notin {"issue", "upload"}
         \/ req'[t].cap = req[t].cap /\ req'[t].op = req[t].op /\ ~IssuePut(t) /\ ~UploadFinish(t)
         \/ \E c \in Caps : IssueAuthorize(t, c) /\ req'[t].cap = c /\ req'[t].op = "issue"
         \/ \E c \in Caps, r \in Revisions : UploadBegin(t, c, r) /\ req'[t].cap = c /\ req'[t].op = "upload"
  <1> DEFINE Drops == req'[t].cap = None /\ req'[t].op \notin {"issue", "upload"}
             Same == req'[t].cap = req[t].cap /\ req'[t].op = req[t].op
  <1>1. pc \in [Threads -> PCs] /\ req \in [Threads -> Requests]
    BY DEF ThreadsOK
  <1>2. UNCHANGED req => Same
    OBVIOUS
  <1>3. Answer(t) => Drops
    BY <1>1 DEF Answer, Blank
  <1>4. \A outcome : Leave(t, outcome) => Same
    BY <1>1 DEF Leave, Requests
  <1>5. \A outcome : PublishReturn(t, outcome) => Drops \/ Same
    BY <1>3, <1>4 DEF PublishReturn
  <1>6. ASSUME NEW c \in Caps, IssueAuthorize(t, c) PROVE req'[t].cap = c /\ req'[t].op = "issue"
    BY <1>1, <1>6 DEF IssueAuthorize, Begin, Blank
  <1>7. ASSUME NEW c \in Caps, NEW r \in Revisions, UploadBegin(t, c, r)
        PROVE  req'[t].cap = c /\ req'[t].op = "upload"
    BY <1>1, <1>7 DEF UploadBegin, Begin, Blank
  <1>8. ASSUME NEW r \in Revisions, PublishBegin(t, r) \/ FreezeAuthorize(t, r) \/ ExportAuthorize(t, r)
        PROVE  Drops
    <2>1. CASE PublishBegin(t, r)
      BY <1>1, <2>1 DEF PublishBegin, Begin, Blank
    <2>2. CASE FreezeAuthorize(t, r) \/ ExportAuthorize(t, r)
      BY <1>1, <2>2 DEF FreezeAuthorize, ExportAuthorize, Begin, Blank
    <2> QED BY <1>8, <2>1, <2>2
  <1>9. CASE IssuePut(t) \/ UploadFinish(t)
    BY <1>3, <1>9 DEF IssuePut, UploadFinish
  <1>10. CASE \/ UploadGet(t) \/ UploadLock(t) \/ UploadRecheck(t) \/ UploadUnlock(t)
              \/ \E p \in Pods : CreatePod(t, p)
    BY <1>1, <1>2, <1>4, <1>10 DEF UploadGet, UploadLock, UploadRecheck, UploadUnlock, CreatePod,
       Requests, IssuePut, UploadFinish
  <1>11. CASE \/ CreatePodFails(t) \/ PodReady(t) \/ PodNotReady(t) \/ StreamEnds(t) \/ StreamFails(t)
              \/ CleanPod(t) \/ CleanPodFails(t) \/ AbortPod(t) \/ ExportRecheck(t) \/ ExportCheck(t)
    BY <1>1, <1>2, <1>3, <1>4, <1>11
       DEF CreatePodFails, PodReady, PodNotReady, StreamEnds, StreamFails, CleanPod, CleanPodFails,
           AbortPod, ExportRecheck, ExportCheck, Requests, IssuePut, UploadFinish
  <1>12. CASE PublishGet(t) \/ PublishUpdate(t) \/ PublishConflict(t)
    BY <1>1, <1>2, <1>5, <1>12 DEF PublishGet, PublishUpdate, PublishConflict, Conflict, Requests,
       IssuePut, UploadFinish
  <1>13. CASE \/ FreezeConfirm(t) \/ FreezeTryLock(t) \/ FreezeGet(t) \/ FreezeUpdate(t) \/ FreezeUnlock(t)
              \/ FreezeConflict(t)
    BY <1>1, <1>2, <1>3, <1>13
       DEF FreezeConfirm, FreezeTryLock, FreezeGet, FreezeUpdate, FreezeUnlock, FreezeConflict,
          Conflict, Requests, IssuePut, UploadFinish
  <1> QED BY <1>6, <1>7, <1>8, <1>9, <1>10, <1>11, <1>12, <1>13 DEF ThreadStep, BeginStep

\* What a step may do to the entry of a capability.
LEMMA CapMoves ==
  ASSUME IInv, CapsOwned, [Next]_vars, NEW c \in Caps
  PROVE  \/ caps'[c].state = caps[c].state /\ (caps[c].state = "unused" => caps'[c].expired = caps[c].expired)
         \/ caps'[c].state = "gone" /\ caps[c].state # "unused"
         \/ \E t \in Threads : IssuePut(t) /\ req[t].cap = c /\ caps'[c].state = "issued"
         \/ \E t \in Threads, r \in Revisions :
              UploadBegin(t, c, r) /\ caps[c].state = "issued" /\ caps'[c].state = "in_flight"
         \/ \E t \in Threads : /\ UploadFinish(t) /\ req[t].cap = c /\ req[t].outcome \notin {"ok", "frozen"}
                               /\ caps'[c].state = "issued" /\ caps[c].state = "in_flight"
  <1>1. caps \in [Caps -> Capabilities] /\ caps[c] \in Capabilities
    BY DEF IInv, TableOK
  <1> USE <1>1 DEF Capabilities
  <1>2. ASSUME NEW d \in Caps, Expire(d)
        PROVE  caps'[c].state = caps[c].state /\ (caps[c].state = "unused" => caps'[c].expired = caps[c].expired)
    BY <1>2 DEF Expire
  <1>3. ASSUME NEW d \in Caps, UploadRefused(d)
        PROVE  caps'[c] = caps[c] \/ (caps'[c].state = "gone" /\ caps[c].state # "unused")
    BY <1>3 DEF UploadRefused
  <1>4. ASSUME NEW t \in Threads, IssuePut(t), req[t].cap # c
        PROVE  caps'[c] = caps[c] \/ (caps'[c].state = "gone" /\ caps[c].state # "unused")
    BY <1>4 DEF IssuePut, Purged, CapsOwned
  <1>5. ASSUME NEW t \in Threads, IssuePut(t), req[t].cap = c PROVE caps'[c].state = "issued"
    BY <1>5 DEF IssuePut, Purged
  <1>6. ASSUME NEW t \in Threads, UploadFinish(t)
        PROVE  \/ caps'[c] = caps[c]
               \/ caps'[c].state = "gone" /\ caps[c].state # "unused"
               \/ /\ req[t].cap = c /\ req[t].outcome \notin {"ok", "frozen"}
                  /\ caps'[c].state = "issued" /\ caps[c].state = "in_flight"
    BY <1>6 DEF UploadFinish, Finished
  <1>7. ASSUME NEW t \in Threads, NEW d \in Caps, NEW r \in Revisions, UploadBegin(t, d, r)
        PROVE  caps'[c] = caps[c] \/ (d = c /\ caps[c].state = "issued" /\ caps'[c].state = "in_flight")
    BY <1>7 DEF UploadBegin
  <1>8. CASE Restart
    BY <1>8 DEF Restart
  <1> QED BY <1>2, <1>3, <1>4, <1>5, <1>6, <1>7, <1>8, TableSteps DEF vars

\* A capability has one user at a time, and no user after a success.
LEMMA CapsOwnedStep ==
  ASSUME IInv, CapsOwned, [Next]_vars
  PROVE  CapsOwned'
  <1>1. /\ ThreadsOK /\ pc \in [Threads -> PCs] /\ req \in [Threads -> Requests]
        /\ \A t \in Threads : req[t].op \in {"issue", "upload"} => req[t].cap \in Caps /\ req[t].cap # None
        /\ caps \in [Caps -> Capabilities] /\ redeemed \in [Caps -> Nat]
    BY UploadAssumption DEF IInv, ThreadsOK, ThreadOK, TableOK
  <1>2. \A t \in Threads : IssuePut(t) \/ UploadFinish(t) => req'[t].cap = None
    BY <1>1 DEF IssuePut, UploadFinish, Answer, Blank
  <1>3. \A t \in Threads : /\ IssuePut(t) => req[t].op = "issue"
                           /\ UploadFinish(t) => req[t].op = "upload"
    BY DEF IInv, ThreadsOK, ThreadOK, IssuePut, UploadFinish, UploadLabels
  \* A success is counted for the user of a capability that is gone then.
  <1>4. ASSUME NEW c \in Caps
        PROVE  \/ redeemed'[c] = redeemed[c]
               \/ redeemed[c] = 0 /\ redeemed'[c] = 1 /\ caps'[c].state = "gone"
    <2>1. ASSUME NEW t \in Threads, UploadFinish(t), req[t].cap = c, req[t].outcome = "ok"
          PROVE  redeemed[c] = 0 /\ redeemed'[c] = 1 /\ caps'[c].state = "gone"
      <3>1. redeemed[c] = 0 /\ caps[c].state \in {"in_flight", "gone"} /\ caps[c] \in Capabilities
        BY <1>1, <1>3, <2>1 DEF CapsOwned
      <3> QED BY <1>1, <2>1, <3>1 DEF UploadFinish, Finished, Capabilities
    <2>2. ASSUME NEW t \in Threads, UploadFinish(t), req[t].cap # c \/ req[t].outcome # "ok"
          PROVE  redeemed'[c] = redeemed[c]
      BY <1>1, <2>2 DEF UploadFinish
    <2> QED BY <2>1, <2>2, TableSteps DEF vars
  \* A user that stays keeps its capability from everyone else.
  <1>5. ASSUME NEW s \in Threads, req[s].op \in {"issue", "upload"},
               req'[s].cap = req[s].cap, req'[s].op = req[s].op
        PROVE  LET c == req[s].cap
               IN  /\ \/ caps'[c].state = caps[c].state
                      \/ caps'[c].state = "gone" /\ caps[c].state # "unused"
                   /\ redeemed'[c] = redeemed[c]
    <2> DEFINE c == req[s].cap
    <2>1. c \in Caps /\ c # None /\ caps[c].state # "issued"
      BY <1>1, <1>5 DEF CapsOwned
    <2>2. \A t \in Threads : req[t].cap = c => ~IssuePut(t) /\ ~UploadFinish(t)
      BY <1>2, <1>5, <2>1 DEF CapsOwned
    <2>3. redeemed'[c] = redeemed[c]
      BY <1>1, <2>1, <2>2, TableSteps DEF vars, UploadFinish
    <2> QED BY <2>1, <2>2, <2>3, CapMoves
  <1> DEFINE Claim(t) == /\ req'[t].cap # None => req'[t].op \in {"issue", "upload"}
                         /\ req'[t].op = "issue" => caps'[req'[t].cap].state = "unused"
                         /\ req'[t].op = "upload" => /\ caps'[req'[t].cap].state \in {"in_flight", "gone"}
                                                     /\ redeemed'[req'[t].cap] = 0
             Fresh(t) == \A s \in Threads \ {t} : req'[t].cap # None => req[s].cap # req'[t].cap
  <1>6. ASSUME NEW s \in Threads, req'[s].cap = req[s].cap, req'[s].op = req[s].op
        PROVE  Claim(s)
    BY <1>5, <1>6 DEF CapsOwned
  <1>7. ASSUME NEW c \in Caps
        PROVE  /\ caps'[c].state = "unused" => ~caps'[c].expired
               /\ caps'[c].state # "gone" => redeemed'[c] = 0
               /\ redeemed'[c] <= 1
    <2>1. caps'[c].state = "unused" => ~caps'[c].expired
      BY CapMoves DEF CapsOwned
    <2>2. caps'[c].state # "gone" => redeemed[c] = 0
      BY <1>1, <1>3, CapMoves DEF CapsOwned
    <2>3. redeemed[c] \in Nat /\ redeemed[c] <= 1
      BY <1>1 DEF CapsOwned
    <2> QED BY <1>4, <2>1, <2>2, <2>3
  <1>8. CASE UNCHANGED <<pc, req>>
    BY <1>6, <1>7, <1>8 DEF CapsOwned
  <1>9. CASE Restart
    BY <1>7, <1>9 DEF Restart, CapsOwned, Blank
  <1>10. ASSUME NEW t \in Threads, ThreadStep(t) \/ BeginStep(t), OthersStay(t)
         PROVE  CapsOwned'
    <2>1. Claim(t) /\ Fresh(t)
      <3>1. CASE req'[t].cap = None /\ req'[t].op \notin {"issue", "upload"}
        BY <3>1
      <3>2. CASE req'[t].cap = req[t].cap /\ req'[t].op = req[t].op
        BY <1>6, <3>2 DEF CapsOwned
      <3>3. ASSUME NEW c \in Caps, IssueAuthorize(t, c), req'[t].cap = c, req'[t].op = "issue"
            PROVE  Claim(t) /\ Fresh(t)
        BY <3>3 DEF IssueAuthorize
      <3>4. ASSUME NEW c \in Caps, NEW r \in Revisions, UploadBegin(t, c, r),
                   req'[t].cap = c, req'[t].op = "upload"
            PROVE  Claim(t) /\ Fresh(t)
        <4>1. caps[c].state = "issued" /\ redeemed'[c] = 0 /\ caps'[c].state = "in_flight"
          BY <1>1, <3>4 DEF UploadBegin, CapsOwned, Capabilities, ghosts
        <4>2. \A s \in Threads : req[s].cap # c
          BY <1>1, <4>1, UploadAssumption DEF CapsOwned
        <4> QED BY <3>4, <4>1, <4>2
      <3> QED BY <1>1, <1>10, <3>1, <3>2, <3>3, <3>4, OwnCapMoves
    <2>2. \A s \in Threads \ {t} : req'[s] = req[s] /\ Claim(s)
      BY <1>6, <1>10 DEF OthersStay
    <2>3. \A s \in Threads : Claim(s)
      BY <2>1, <2>2
    <2>4. \A s, u \in Threads : req'[s].cap = req'[u].cap /\ req'[s].cap # None => s = u
      BY <2>1, <2>2 DEF CapsOwned
    <2> QED BY <1>7, <2>3, <2>4 DEF CapsOwned
  <1> QED BY <1>1, <1>8, <1>9, <1>10, ThreadCases

\* How far a request whose upload succeeded has come.
LEMMA SucceedingStays ==
  ASSUME ThreadsOK, NEW t \in Threads, ThreadStep(t) \/ BeginStep(t), Succeeding(t), req'[t].cap # None
  PROVE  Succeeding(t)'
  <1>1. pc \in [Threads -> PCs] /\ req \in [Threads -> Requests] /\ pc[t] \in {"up_unlock", "up_finish"}
    BY DEF ThreadsOK, Succeeding
  <1>2. UploadUnlock(t) \/ UploadFinish(t)
    BY <1>1 DEF ThreadStep, BeginStep, IssuePut, UploadGet, UploadLock, UploadRecheck, CreatePod,
       CreatePodFails, PodReady, PodNotReady, StreamEnds, StreamFails, CleanPod, CleanPodFails,
       AbortPod, PublishGet, PublishUpdate, PublishConflict, FreezeConfirm, FreezeTryLock,
       FreezeGet, FreezeUpdate, FreezeConflict, FreezeUnlock, ExportCheck, ExportRecheck, Begin,
       IssueAuthorize, UploadBegin, PublishBegin, FreezeAuthorize, ExportAuthorize
  <1>3. ~UploadFinish(t)
    BY <1>1 DEF UploadFinish, Answer, Blank
  <1> QED BY <1>1, <1>2, <1>3 DEF UploadUnlock, Goto, Succeeding

\* Unless its reply is lost, who published is about to succeed or has.
LEMMA PublishedStep ==
  ASSUME IInv, CapsOwned, PublishedOK, [Next]_vars
  PROVE  PublishedOK'
  <1>1. /\ ThreadsOK /\ pc \in [Threads -> PCs] /\ req \in [Threads -> Requests]
        /\ \A t \in Threads : ThreadOK(pc[t], req[t])
        /\ \A t \in Threads : req[t].op \in {"issue", "upload"} => req[t].cap \in Caps /\ req[t].cap # None
        /\ pvc \in PVCs /\ Client \notin Caps
    BY UploadAssumption DEF IInv, ThreadsOK, ThreadOK, ObjectOK
  <1> DEFINE By(h, c) == \E i \in 1..Len(h) : h[i].by = c
             Settled(c) == /\ caps'[c].state \in {"in_flight", "gone"}
                           /\ \A t \in Threads : req'[t].op = "upload" /\ req'[t].cap = c => Succeeding(t)'
  <1>2. ASSUME NEW c \in Caps \ lost, PublishedBy(c) PROVE Settled(c)
    <2>1. \A t \in Threads : IssuePut(t) => req[t].cap # c
      BY <1>1, <1>2 DEF IssuePut, ThreadOK, CapsOwned, PublishedOK
    <2>2. \A t \in Threads : UploadFinish(t) /\ req[t].cap = c => req[t].outcome = "ok"
      BY <1>1, <1>2 DEF UploadFinish, ThreadOK, UploadLabels, PublishedOK, Succeeding
    <2>3. caps'[c].state \in {"in_flight", "gone"}
      BY <1>2, <2>1, <2>2, CapMoves DEF PublishedOK
    <2>4. ASSUME NEW t \in Threads, req'[t].op = "upload", req'[t].cap = c PROVE Succeeding(t)'
      <3>1. CASE UNCHANGED <<pc[t], req[t]>>
        BY <1>2, <2>4, <3>1 DEF PublishedOK, Succeeding
      <3>2. CASE Restart
        BY <2>4, <3>2 DEF Restart, Blank
      <3>3. CASE ThreadStep(t) \/ BeginStep(t)
        <4>1. req[t].op = "upload" /\ req[t].cap = c /\ c # None
          <5>1. \A r \in Revisions : ~UploadBegin(t, c, r)
            BY <1>2 DEF UploadBegin, PublishedOK
          <5> QED BY <1>1, <2>4, <3>3, <5>1, OwnCapMoves, UploadAssumption
        <4> QED BY <1>1, <1>2, <2>4, <3>3, <4>1, SucceedingStays DEF PublishedOK
      <3> QED BY <1>1, <3>1, <3>2, <3>3, ThreadCases DEF OthersStay
    <2> QED BY <2>3, <2>4
  <1>3. lost \subseteq lost'
    BY TableSteps DEF PublishUpdate, vars
  <1>4. CASE pvc'.history \in {pvc.history, <<>>}
    <2>1. OnePublishPerCapability'
      BY <1>4, <1>3 DEF PublishedOK, OnePublishPerCapability
    <2>2. \A c \in Caps : By(pvc'.history, c) => PublishedBy(c)
      BY <1>4 DEF PublishedBy
    <2> QED BY <1>2, <1>3, <2>1, <2>2 DEF PublishedOK, PublishedBy
  <1>5. ASSUME NEW t \in Threads, PublishUpdate(t) PROVE PublishedOK'
    <2> DEFINE entry == [id |-> req[t].rev, by |-> Producer(t)]
               h == pvc.history
    <2>1. /\ pvc' = WithRevision(pvc, entry) /\ pc[t] = "pub_update" /\ h \in Seq(Entries)
          /\ PublishReturn(t, "ok") \/ lost' = lost \cup ({entry.by} \ {Client})
      BY <1>1, <1>5 DEF PublishUpdate, Unchanged, PVCs
    <2>2. pvc'.history \in {h, Append(h, entry)}
      BY <1>1, <2>1 DEF WithRevision, PVCs
    <2>3. CASE pvc'.history = Append(h, entry)
      <3>1. entry.by = Client \/ (req[t].op = "upload" /\ entry.by = req[t].cap /\ req[t].cap \in Caps)
        BY <1>1 DEF Producer
      <3>2. entry.by \notin lost \cup {Client} => ~By(h, entry.by)
        BY <2>1, <3>1 DEF PublishedOK, PublishedBy, Succeeding
      <3> DEFINE e == entry
                 k == Append(h, e)
      <3>3. entry.by \notin lost' \cup {Client} => Settled(entry.by)
        <4>1. SUFFICES ASSUME entry.by \notin lost' \cup {Client} PROVE Settled(req[t].cap)
          BY <3>1
        <4>2. req[t].op = "upload" /\ req[t].cap \in Caps /\ req[t].cap # None
          BY <1>1, <3>1, <4>1
        <4>3. caps' = caps /\ Leave(t, "ok")
          <5>1. PublishReturn(t, "ok")
            BY <2>1, <4>1
          <5> QED BY <1>5, <4>2, <5>1 DEF PublishUpdate, PublishReturn
        <4>4. Succeeding(t)'
          BY <1>1, <4>3 DEF Leave, Goto, Succeeding, Requests
        <4>5. \A s \in Threads \ {t} : req'[s] = req[s]
          BY <1>1, <4>3 DEF Leave
        <4>6. \A s \in Threads \ {t} : req[s].cap # req[t].cap
          BY <4>2 DEF CapsOwned
        <4> QED BY <4>2, <4>3, <4>4, <4>5, <4>6 DEF CapsOwned
      <3> HIDE DEF entry
      <3>4. /\ Len(k) = Len(h) + 1 /\ Len(h) \in Nat /\ k[Len(h) + 1] = entry
            /\ \A i \in 1..Len(h) : k[i] = h[i]
        BY <2>1
      <3>5. \A i \in 1..Len(k) : i \in 1..Len(h) \/ i = Len(h) + 1
        BY <3>4
      <3>6. \A c \in Caps : By(k, c) => PublishedBy(c) \/ entry.by = c
        BY <3>4, <3>5 DEF PublishedBy
      <3>7. \A i, j \in 1..Len(k) : k[i].by = k[j].by /\ k[i].by \notin lost' \cup {Client} => i = j
        BY <1>3, <3>2, <3>4, <3>5 DEF PublishedOK, OnePublishPerCapability
      <3>8. OnePublishPerCapability'
        BY <2>3, <3>7 DEF OnePublishPerCapability
      <3>9. \A c \in Caps \ lost' : PublishedBy(c)' => Settled(c)
        BY <1>1, <1>2, <1>3, <2>3, <3>3, <3>6 DEF PublishedBy
      <3> QED BY <3>8, <3>9 DEF PublishedOK
    <2> QED BY <1>4, <2>2, <2>3
  <1>6. CASE CreateContext \/ DeleteContext \/ FinalizePVC
    BY <1>1, <1>4, <1>6 DEF CreateContext, DeleteContext, FinalizePVC, NoPVC, PVCs
  <1>7. ASSUME NEW t \in Threads, FreezeUpdate(t) PROVE pvc'.history = pvc.history
    BY <1>1, <1>7, FreezeWrites, UploadAssumption DEF PVCs
  <1> QED BY <1>4, <1>5, <1>6, <1>7, ObjectSteps DEF vars

-----------------------------------------------------------------------------
(* What follows from it.                                                    *)

\* It holds when the process starts.
LEMMA InitUploadInv == Init => UploadInv
  <1> SUFFICES ASSUME Init PROVE UploadInv
    OBVIOUS
  <1>1. PodsOwned /\ MountsCurrent /\ DoneIsStored /\ ExportReadsPinned
    BY DEF Init, PodsOwned, MountsCurrent, Mounted, DoneIsStored, ExportReadsPinned, Blank, NoPod
  <1>2. UidsGiven
    BY DEF Init, UidsGiven, Blank, NewCap, NoPVC
  <1>3. UploadsStored /\ PublishedOK
    BY DEF Init, UploadsStored, UploadIn, PublishedOK, PublishedBy, OnePublishPerCapability, Blank,
       NoPVC
  <1>4. CapsOwned
    BY DEF Init, CapsOwned, Blank, NewCap
  <1>5. ImportsAttended
    BY DEF Init, ImportsAttended, AtWork, NoPod
  <1> QED BY <1>1, <1>2, <1>3, <1>4, <1>5 DEF UploadInv, HelperInv

\* The second invariant holds in every reachable state, given the first.
THEOREM UploadInvariance == Spec => []UploadInv
  <1>1. Init => UploadInv
    BY InitUploadInv
  <1>2. IInv /\ UploadInv /\ [Next]_vars => UploadInv'
    <2> SUFFICES ASSUME IInv, UploadInv, [Next]_vars PROVE UploadInv'
      OBVIOUS
    <2>1. HelperInv'
      BY PodsOwnedStep, MountsStep, DoneStep, UidsStep, UploadsStoredStep, ExportStep DEF UploadInv,
         HelperInv
    <2>2. ImportsAttended'
      BY AttendedStep DEF UploadInv, HelperInv
    <2>3. PublishedOK'
      BY PublishedStep DEF UploadInv
    <2> QED BY <2>1, <2>2, <2>3, CapsOwnedStep DEF UploadInv
  <1> QED BY <1>1, <1>2, Invariance, PTL DEF Spec

(* While the Context is not recreated, what an upload published is on its   *)
(* volume: the helper was done there before the request went on to publish, *)
(* and nothing takes a revision from a volume.                              *)
THEOREM Materialized == Spec => []UploadedIsMaterialized
  <1>1. IInv /\ UploadInv => UploadedIsMaterialized
    <2> SUFFICES ASSUME IInv, UploadInv, created <= 1,
                        NEW i \in 1..Len(pvc.history), pvc.history[i].by # Client
                 PROVE  pvc.history[i].id \in storage[pvc.uid]
      BY DEF UploadedIsMaterialized
    <2>1. pvc \in PVCs /\ pvc.uid \in Nat /\ pvc.uid <= created /\ created \in Nat
      BY UploadAssumption DEF IInv, ObjectOK, TableOK, PVCs, UploadInv, HelperInv, UidsGiven
    <2>2. pvc.uid # 0
      BY DEF IInv, ObjectOK, NoPVC
    <2>3. PICK u \in UIDs : u <= created /\ pvc.history[i].id \in storage[u]
      BY DEF UploadInv, HelperInv, UploadsStored, OnVolume
    <2>4. pvc.uid = u
      BY <2>1, <2>2, <2>3, UploadAssumption DEF UIDs
    <2> QED BY <2>3, <2>4
  <1> QED BY <1>1, Invariance, UploadInvariance, PTL

(* An export helper at work reads the volume the request was authorized for *)
(* and the revision frozen there: a PVC in use is not replaced, and a       *)
(* frozen Context does not change.                                          *)
THEOREM ExportsArePinned == Spec => []ExportReadsPinned
  <1>1. UploadInv => ExportReadsPinned
    BY DEF UploadInv, HelperInv
  <1> QED BY <1>1, UploadInvariance, PTL

(* A capability is answered with success at most once, whatever expires, is *)
(* purged while in flight, is retried, or is forgotten in a restart; and it *)
(* adds at most one revision to the history, however often it is redeemed,  *)
(* unless the reply to an update that took effect is lost.                  *)
THEOREM PublishedAtMostOnce == Spec => []PublishedOnce
  <1>1. UploadInv => PublishedOnce
    BY DEF UploadInv, CapsOwned, PublishedOK, PublishedOnce, OneSuccessPerCapability
  <1> QED BY <1>1, UploadInvariance, PTL

(* Of the helpers that were not left behind and mounted the PVC their       *)
(* request is for, at most one imports into a volume: the request still     *)
(* waits for it and holds the lock of the volume.                           *)
THEOREM ImportsAreSerial == Spec => []ImportsSerial
  <1>1. IInv /\ UploadInv => ImportsSerial
    <2> SUFFICES ASSUME IInv, UploadInv, NEW u \in UIDs, NEW p \in Importers(u) \ Misdirected,
                        NEW q \in Importers(u) \ Misdirected
                 PROVE  p = q
      BY DEF ImportsSerial
    <2>1. ASSUME NEW o \in Importers(u) \ Misdirected
          PROVE  \E t \in Threads : lock[u] = t /\ req[t].pod = o
      <3>1. o \in AtWork \ left /\ o \in Pods /\ pod[o].kind = "upload" /\ pod[o].mount = u
        BY DEF Importers, AtWork
      <3>2. PICK t \in Threads : UploadIn(t, AttendLabels) /\ req[t].pod = o
        BY <3>1 DEF UploadInv, ImportsAttended
      <3>3. req[t].uid = u
        BY <3>1, <3>2 DEF Misdirected
      <3>4. Holding(t)
        BY <3>2 DEF Holding, UploadIn, AttendLabels, Importing
      <3> QED BY <3>2, <3>3, <3>4 DEF IInv, LockHeld
    <2> QED BY <2>1
  <1> QED BY <1>1, Invariance, UploadInvariance, PTL
=============================================================================
