------------------------- MODULE ContextAccessProofs -------------------------
(* The inductive invariant of ContextAccess and what follows from it, for   *)
(* every number of requests, subjects, consumers, pods and retries and every *)
(* length of the audit trail.                                               *)
EXTENDS ContextAccess, SequenceTheorems, TLAPS

-----------------------------------------------------------------------------
(* The strengthening.                                                       *)

Requests == [op : {"none", "change", "delete", "force"}, actor : Subjects \cup {None},
             checks : Seq(Permissions), change : Changes \cup {None}, seen : PVCs,
             tries : 0..MaxTries]

\* A consumer that is attached has a name and a mode.
WellFormed(change) ==
  /\ change \in Changes
  /\ change.action = "consumer.attached" => change.name \in Names /\ change.mode \in Modes

\* What a request knows at each step of its handler.
RequestAt(label, r) ==
  /\ label = "authorize" => r.checks # <<>> /\ r.op # "none"
  /\ label \in {"get", "update"} => r.op = "change"
  /\ label = "update" => r.seen.uid # 0
  /\ label \in {"del_get", "del_index", "del_pvc"} => r.op \in {"delete", "force"}
  /\ label \in {"del_consumers", "del_pods"} => r.op = "delete"
  /\ r.op = "change" => WellFormed(r.change)

RequestsOK ==
  /\ pc \in [Threads -> PCs] /\ req \in [Threads -> Requests]
  /\ \A t \in Threads : RequestAt(pc[t], req[t])

\* A PVC that is gone has left nothing behind.
ObjectOK ==
  /\ pvc \in PVCs /\ created \in 0..MaxUid /\ mounts \subseteq Pods /\ log \in Seq(Changes)
  /\ pvc.uid = 0 => pvc = NoPVC /\ mounts = {}

\* What has been there since a deletion began is still there, and what the
\* deletion has looked at was not.
SteadyOK ==
  /\ steady \in [Threads -> SUBSET (Consumers \cup Pods)]
  /\ \A t \in Threads :
       /\ steady[t] \subseteq pvc.consumers \cup mounts
       /\ pc[t] = "del_pods" => steady[t] \subseteq mounts
       /\ pc[t] \in {"del_index", "del_pvc"} /\ req[t].op = "delete" => steady[t] = {}

IInv == ObjectOK /\ RequestsOK /\ SteadyOK /\ AuditIsRecentHistory

-----------------------------------------------------------------------------
(* The model's operators.                                                   *)

\* What the annotations of a fresh PVC and of none are.
LEMMA ObjectFacts ==
  /\ NoPVC \in PVCs /\ NoPVC.uid = 0 /\ NoPVC.consumers = {} /\ ~NoPVC.terminating
  /\ \A uid \in 0..MaxUid : /\ NewPVC(uid) \in PVCs /\ NewPVC(uid).uid = uid
                            /\ NewPVC(uid).consumers = {} /\ Len(NewPVC(uid).audit) = 1
  /\ Blank \in Requests /\ RequestAt("idle", Blank)
  <1>1. NoPVC \in PVCs /\ NoPVC.uid = 0 /\ NoPVC.consumers = {} /\ ~NoPVC.terminating
    BY AccessAssumption DEF NoPVC, PVCs
  <1>2. ASSUME NEW uid \in 0..MaxUid
        PROVE  /\ NewPVC(uid) \in PVCs /\ NewPVC(uid).uid = uid
               /\ NewPVC(uid).consumers = {} /\ Len(NewPVC(uid).audit) = 1
    <2> DEFINE one == [NoPVC EXCEPT !.uid = uid]
               two == [one EXCEPT !.grants[Owner] = Permissions]
               event == [action |-> "context.created", subject |-> Owner, target |-> None]
               three == [two EXCEPT !.audit = <<event>>]
               Fresh(object) == object \in PVCs /\ object.uid = uid /\ object.consumers = {}
    <2>1. NewPVC(uid) = three
      BY DEF NewPVC
    <2>2. Fresh(one)
      BY <1>1 DEF PVCs
    <2> HIDE DEF one
    <2>3. Fresh(two)
      BY <2>2, AccessAssumption DEF PVCs
    <2> HIDE DEF two
    <2>4. <<event>> \in Seq(Events) /\ Len(<<event>>) = 1
      BY AccessAssumption DEF Events
    <2> HIDE DEF event
    <2> QED BY <2>1, <2>3, <2>4 DEF PVCs
  <1>3. Blank \in Requests /\ RequestAt("idle", Blank)
    BY <1>1, AccessAssumption DEF Blank, Requests, RequestAt
  <1> QED BY <1>1, <1>2, <1>3

\* A change leaves the other annotations alone.
LEMMA AppliedFacts ==
  ASSUME NEW object \in PVCs, NEW change, WellFormed(change)
  PROVE  /\ Applied(object, change) \in PVCs
         /\ Applied(object, change).uid = object.uid
         /\ Applied(object, change).audit = object.audit
         /\ Applied(object, change).terminating = object.terminating
  <1>1. CASE change.action = "grant.set"
    BY <1>1 DEF Applied, WellFormed, Changes, PVCs
  <1>2. CASE change.action = "grant.revoked"
    BY <1>2 DEF Applied, WellFormed, Changes, PVCs
  <1>3. CASE change.action = "consumer.attached"
    <2> DEFINE consumer == [subject |-> change.target, name |-> change.name, mode |-> change.mode]
    <2>1. consumer \in Consumers
      BY <1>3 DEF WellFormed, Changes, Consumers
    <2> QED BY <1>3, <2>1 DEF Applied, PVCs
  <1>4. CASE change.action = "consumer.detached"
    BY <1>4 DEF Applied, PVCs
  <1> QED BY <1>1, <1>2, <1>3, <1>4 DEF WellFormed, Changes, Actions

\* The cut trail is a trail.
LEMMA LastEventsType ==
  ASSUME NEW S, NEW events \in Seq(S)
  PROVE  /\ LastEvents(events) \in Seq(S)
         /\ Len(LastEvents(events)) = IF Len(events) <= MaxAudit THEN Len(events) ELSE MaxAudit
  BY AccessAssumption DEF LastEvents

\* Cutting the trail at every change keeps what cutting it once would.
LEMMA LastEventsAppend ==
  ASSUME NEW S, NEW events \in Seq(S), NEW event \in S
  PROVE  LastEvents(Append(LastEvents(events), event)) = LastEvents(Append(events, event))
  <1>1. CASE Len(events) <= MaxAudit
    BY <1>1 DEF LastEvents
  <1>2. CASE Len(events) > MaxAudit
    <2> DEFINE first == Len(events) - MaxAudit + 1
               tail == SubSeq(events, first, Len(events))
               left == SubSeq(Append(tail, event), 2, MaxAudit + 1)
               right == SubSeq(Append(events, event), first + 1, Len(events) + 1)
    <2>1. tail \in Seq(S) /\ Len(tail) = MaxAudit /\ \A i \in 1..MaxAudit : tail[i] = events[first + i - 1]
      BY <1>2, AccessAssumption
    <2>2. LastEvents(events) = tail /\ LastEvents(Append(events, event)) = right
      BY <1>2, AccessAssumption DEF LastEvents
    <2>3. LastEvents(Append(tail, event)) = left
      BY <2>1, AccessAssumption DEF LastEvents
    <2>4. left \in Seq(S) /\ right \in Seq(S) /\ Len(left) = MaxAudit /\ Len(right) = MaxAudit
      BY <1>2, <2>1, AccessAssumption
    <2> HIDE DEF left, right
    <2>5. ASSUME NEW i \in 1..MaxAudit PROVE left[i] = right[i]
      <3>1. left[i] = Append(tail, event)[i + 1] /\ right[i] = Append(events, event)[first + i]
        <4>1. Append(tail, event) \in Seq(S) /\ Len(Append(tail, event)) = MaxAudit + 1
          BY <2>1, AccessAssumption
        <4>2. Append(events, event) \in Seq(S) /\ Len(Append(events, event)) = Len(events) + 1
          OBVIOUS
        <4> HIDE DEF tail
        <4>3. left[i] = Append(tail, event)[i + 1]
          BY <2>5, <4>1, SubSeqProperties, AccessAssumption DEF left
        <4>4. right[i] = Append(events, event)[first + i]
          BY <1>2, <2>5, <4>2, SubSeqProperties, AccessAssumption DEF right
        <4> QED BY <4>3, <4>4
      <3>2. CASE i = MaxAudit
        BY <1>2, <2>1, <3>1, <3>2, AccessAssumption
      <3>3. CASE i < MaxAudit
        <4>1. Append(tail, event)[i + 1] = tail[i + 1]
          BY <2>1, <2>5, <3>3, AccessAssumption
        <4>2. Append(events, event)[first + i] = events[first + i]
          BY <1>2, <2>5, <3>3, AccessAssumption
        <4> QED BY <1>2, <2>1, <2>5, <3>1, <3>3, <4>1, <4>2, AccessAssumption
      <3> QED BY <2>5, <3>2, <3>3, AccessAssumption
    <2>6. left = right
      BY <2>4, <2>5, SeqEqual, AccessAssumption
    <2> QED BY <2>2, <2>3, <2>6
  <1> QED BY <1>1, <1>2, AccessAssumption

-----------------------------------------------------------------------------
(* Requests.                                                                *)

\* A step of one request to a place that what it knows fits.
LEMMA RequestFrame ==
  ASSUME RequestsOK, NEW t \in Threads, NEW label \in PCs, NEW r \in Requests, RequestAt(label, r),
         pc' = [pc EXCEPT ![t] = label], req' = [req EXCEPT ![t] = r]
  PROVE  RequestsOK'
  <1>1. pc' \in [Threads -> PCs] /\ req' \in [Threads -> Requests]
    BY DEF RequestsOK
  <1>2. ASSUME NEW u \in Threads PROVE RequestAt(pc'[u], req'[u])
    BY DEF RequestsOK
  <1> QED BY <1>1, <1>2 DEF RequestsOK

\* A request that only moves on.
LEMMA GotoOK ==
  ASSUME RequestsOK, NEW t \in Threads, NEW label \in PCs, RequestAt(label, req[t]),
         Goto(t, label), UNCHANGED req
  PROVE  RequestsOK'
  <1>1. req' = [req EXCEPT ![t] = req[t]] /\ req[t] \in Requests
    BY DEF RequestsOK
  <1> QED BY <1>1, RequestFrame DEF Goto

\* A request that is answered.
LEMMA AnswerOK ==
  ASSUME RequestsOK, NEW t \in Threads, Goto(t, "idle"), req' = [req EXCEPT ![t] = Blank]
  PROVE  RequestsOK'
  <1>1. "idle" \in PCs
    BY DEF PCs
  <1> QED BY <1>1, ObjectFacts, RequestFrame DEF Goto

\* A request that arrives with something to check and a change that is well formed.
LEMMA BeginOK ==
  ASSUME RequestsOK, NEW t \in Threads, NEW op \in {"change", "delete", "force"}, NEW actor \in Subjects,
         NEW checks \in Seq(Permissions), NEW change \in Changes \cup {None}, checks # <<>>,
         op = "change" => WellFormed(change), Begin(t, op, actor, checks, change)
  PROVE  RequestsOK'
  <1> DEFINE r == [Blank EXCEPT !.op = op, !.actor = actor, !.checks = checks, !.change = change]
  <1>1. r.op = op /\ r.checks = checks /\ r.change = change
    BY DEF Blank
  <1>2. r \in Requests
    <2> DEFINE one == [Blank EXCEPT !.op = op]
               two == [one EXCEPT !.actor = actor]
    <2>1. one \in Requests
      BY ObjectFacts DEF Requests
    <2> HIDE DEF one
    <2>2. two \in Requests
      BY <2>1 DEF Requests
    <2>3. r = [[two EXCEPT !.checks = checks] EXCEPT !.change = change]
      BY DEF one
    <2> HIDE DEF two, r
    <2> QED BY <2>2, <2>3 DEF Requests
  <1>3. RequestAt("authorize", r) /\ "authorize" \in PCs
    BY <1>1 DEF RequestAt, PCs
  <1> HIDE DEF r
  <1>4. pc' = [pc EXCEPT ![t] = "authorize"] /\ req' = [req EXCEPT ![t] = r]
    BY DEF Begin, Goto, r
  <1> QED BY <1>2, <1>3, <1>4, RequestFrame

\* Every step keeps the requests well formed.
LEMMA RequestsStep ==
  ASSUME ObjectOK, RequestsOK, [Next]_vars
  PROVE  RequestsOK'
  <1>1. CASE CreateContext \/ FinalizePVC \/ (\E p \in Pods : MountPod(p) \/ RemovePod(p)) \/ UNCHANGED vars
    BY <1>1 DEF CreateContext, FinalizePVC, MountPod, RemovePod, vars, RequestsOK
  <1>2. ASSUME NEW t \in Threads, NEW actor \in Subjects, NEW target \in Subjects,
               NEW perms \in GrantSets \cup {{}}, GrantBegin(t, actor, target, perms)
        PROVE  RequestsOK'
    <2> DEFINE change == [action |-> IF perms = {} THEN "grant.revoked" ELSE "grant.set", actor |-> actor,
                          target |-> target, perms |-> perms, name |-> None, mode |-> None]
    <2>1. WellFormed(change) /\ change \in Changes
      BY AccessAssumption DEF WellFormed, Changes, Actions
    <2>2. <<"administer">> \in Seq(Permissions) /\ <<"administer">> # <<>>
      BY DEF Permissions
    <2> HIDE DEF change
    <2>3. Begin(t, "change", actor, <<"administer">>, change)
      BY <1>2 DEF GrantBegin, change
    <2> QED BY <2>1, <2>2, <2>3, BeginOK
  <1>3. ASSUME NEW t \in Threads, NEW actor \in Subjects, NEW target \in Subjects, NEW name \in Names,
               NEW action \in {"consumer.attached", "consumer.detached"}, NEW mode \in Modes \cup {None},
               action = "consumer.attached" => mode \in Modes, ConsumerBegin(t, action, actor, target, name, mode)
        PROVE  RequestsOK'
    <2> DEFINE change == [action |-> action, actor |-> actor, target |-> target, perms |-> {},
                          name |-> name, mode |-> mode]
               forOther == IF target = actor THEN <<>> ELSE <<"administer">>
               toWrite == IF action = "consumer.attached" /\ mode = "readWrite" THEN <<"write">> ELSE <<>>
               checks == <<"attach">> \o forOther \o toWrite
    <2>1. WellFormed(change) /\ change \in Changes
      BY <1>3 DEF WellFormed, Changes, Actions
    <2>2. checks \in Seq(Permissions) /\ checks # <<>>
      <3>1. <<"attach">> \in Seq(Permissions) /\ <<"write">> \in Seq(Permissions)
            /\ <<"administer">> \in Seq(Permissions)
        BY DEF Permissions
      <3>2. forOther \in Seq(Permissions) /\ toWrite \in Seq(Permissions)
        BY <3>1
      <3>3. Len(<<"attach">>) = 1
        OBVIOUS
      <3> HIDE DEF forOther, toWrite
      <3> QED BY <3>1, <3>2, <3>3
    <2> HIDE DEF change, checks
    <2>3. Begin(t, "change", actor, checks, change)
      BY <1>3 DEF ConsumerBegin, change, checks
    <2> QED BY <2>1, <2>2, <2>3, BeginOK
  <1>4. ASSUME NEW t \in Threads, NEW actor \in Subjects, NEW op \in {"delete", "force"}, DeleteBegin(t, actor, op)
        PROVE  RequestsOK'
    <2>1. <<"administer">> \in Seq(Permissions) /\ <<"administer">> # <<>>
      BY DEF Permissions
    <2> QED BY <1>4, <2>1, BeginOK DEF DeleteBegin
  <1>5. ASSUME NEW t \in Threads, Request(t) PROVE RequestsOK'
    BY <1>2, <1>3, <1>4, <1>5 DEF Request
  <1>6. ASSUME NEW t \in Threads, ThreadStep(t) PROVE RequestsOK'
    <2> DEFINE r == req[t]
    <2>1. RequestAt(pc[t], r) /\ r \in Requests /\ pc[t] \in PCs
      BY DEF RequestsOK
    <2>2. CASE Authorize(t)
      <3> DEFINE v == [r EXCEPT !.checks = Tail(r.checks)]
      <3>1. CASE Answer(t)
        BY <3>1, AnswerOK DEF Answer
      <3>2. CASE ~Answer(t)
        <4>1. r.checks # <<>> /\ r.checks \in Seq(Permissions)
          BY <2>1, <2>2 DEF Authorize, RequestAt, Requests
        <4>2. v \in Requests /\ v.op = r.op /\ v.change = r.change /\ v.checks = Tail(r.checks)
          <5>1. Tail(r.checks) \in Seq(Permissions)
            BY <4>1, HeadTailProperties
          <5> QED BY <2>1, <5>1 DEF Requests
        <4>3. req' = [req EXCEPT ![t] = v]
          BY <2>2, <3>2 DEF Authorize
        <4>4. CASE Len(r.checks) > 1 /\ UNCHANGED pc
          <5>1. Tail(r.checks) # <<>>
            <6>1. Len(Tail(r.checks)) = Len(r.checks) - 1 /\ Len(r.checks) \in Nat
              BY <4>1, HeadTailProperties
            <6> QED BY <4>4, <6>1
          <5>2. RequestAt("authorize", v) /\ pc' = [pc EXCEPT ![t] = "authorize"]
            BY <2>1, <2>2, <4>2, <4>4, <5>1 DEF Authorize, RequestAt, RequestsOK
          <5> HIDE DEF v
          <5> QED BY <4>2, <4>3, <5>2, RequestFrame DEF PCs
        <4>5. CASE Goto(t, IF r.op = "change" THEN "get" ELSE "del_get")
          <5> DEFINE label == IF r.op = "change" THEN "get" ELSE "del_get"
          <5>1. label \in PCs /\ RequestAt(label, v)
            BY <2>1, <2>2, <4>2 DEF Authorize, RequestAt, Requests, PCs
          <5> HIDE DEF v, label
          <5>2. pc' = [pc EXCEPT ![t] = label]
            BY <4>5 DEF Goto, label
          <5> QED BY <4>2, <4>3, <5>1, <5>2, RequestFrame
        <4> QED BY <2>2, <3>2, <4>4, <4>5 DEF Authorize
      <3> QED BY <3>1, <3>2
    <2>3. CASE GetMetadata(t)
      <3> DEFINE v == [r EXCEPT !.seen = pvc]
      <3>1. CASE ~Answer(t)
        <4>1. v \in Requests /\ v.op = r.op /\ v.change = r.change /\ v.seen.uid # 0
          BY <2>1, <2>3, <3>1 DEF Requests, ObjectOK, GetMetadata
        <4>2. RequestAt("update", v) /\ "update" \in PCs
          BY <2>1, <2>3, <4>1 DEF GetMetadata, RequestAt, PCs
        <4>3. req' = [req EXCEPT ![t] = v] /\ pc' = [pc EXCEPT ![t] = "update"]
          BY <2>3, <3>1 DEF GetMetadata, Goto
        <4> HIDE DEF v
        <4> QED BY <4>1, <4>2, <4>3, RequestFrame
      <3> QED BY <3>1, AnswerOK DEF Answer
    <2>4. CASE UpdateMetadata(t)
      BY <2>4, AnswerOK DEF UpdateMetadata
    <2>5. CASE UpdateConflict(t)
      <3> DEFINE u == [r EXCEPT !.tries = r.tries + 1]
                 v == [u EXCEPT !.seen = NoPVC]
      <3>1. CASE r.tries + 1 < MaxTries /\ ~Answer(t)
        <4>1. u \in Requests /\ u.op = r.op /\ u.change = r.change
          BY <2>1, <3>1, AccessAssumption DEF Requests
        <4>2. req' = [req EXCEPT ![t] = v] /\ pc' = [pc EXCEPT ![t] = "get"]
          BY <2>5, <3>1 DEF UpdateConflict, Goto
        <4> HIDE DEF u
        <4>3. v \in Requests /\ v.op = r.op /\ v.change = r.change
          BY <4>1, ObjectFacts DEF Requests
        <4>4. RequestAt("get", v) /\ "get" \in PCs
          BY <2>1, <2>5, <4>3 DEF UpdateConflict, RequestAt, PCs
        <4> HIDE DEF v
        <4> QED BY <4>2, <4>3, <4>4, RequestFrame
      <3> QED BY <2>5, <3>1, AnswerOK DEF UpdateConflict, Answer
    <2>6. CASE DeleteGet(t)
      BY <2>1, <2>6, AnswerOK, GotoOK DEF DeleteGet, Answer, RequestAt, PCs
    <2>7. CASE DeleteConsumers(t)
      BY <2>1, <2>7, AnswerOK, GotoOK DEF DeleteConsumers, Answer, RequestAt, PCs
    <2>8. CASE DeletePods(t)
      BY <2>1, <2>8, AnswerOK, GotoOK DEF DeletePods, Answer, RequestAt, PCs
    <2>9. CASE DeleteIndex(t)
      BY <2>1, <2>9, AnswerOK, GotoOK DEF DeleteIndex, Answer, RequestAt, PCs
    <2>10. CASE DeletePVC(t)
      BY <2>10, AnswerOK DEF DeletePVC, Answer
    <2> QED BY <1>6, <2>2, <2>3, <2>4, <2>5, <2>6, <2>7, <2>8, <2>9, <2>10 DEF ThreadStep
  <1> QED BY <1>1, <1>5, <1>6 DEF Next

-----------------------------------------------------------------------------
(* The object, what stays and the trail.                                    *)

\* A write applies the change of its request to the PVC that is stored.
LEMMA UpdateFacts ==
  ASSUME ObjectOK, RequestsOK, NEW t \in Threads, UpdateMetadata(t)
  PROVE  /\ WellFormed(req[t].change) /\ pvc.uid # 0 /\ pvc' \in PVCs
         /\ pvc'.uid = pvc.uid /\ pvc'.audit = Audited(pvc.audit, req[t].change)
         /\ pvc'.grants = Applied(pvc, req[t].change).grants
         /\ pvc'.consumers = Applied(pvc, req[t].change).consumers
         /\ pvc'.terminating = pvc.terminating /\ log' = Append(log, req[t].change)
  <1> DEFINE new == Applied(pvc, req[t].change)
  <1>1. WellFormed(req[t].change) /\ pvc = req[t].seen /\ pvc.uid # 0
    BY DEF RequestsOK, RequestAt, UpdateMetadata, Unchanged
  <1>2. new \in PVCs /\ new.uid = pvc.uid /\ new.audit = pvc.audit /\ new.terminating = pvc.terminating
    BY <1>1, AppliedFacts DEF ObjectOK
  <1>3. Audited(pvc.audit, req[t].change) \in Seq(Events)
    <2>1. EventOf(req[t].change) \in Events /\ pvc.audit \in Seq(Events)
      BY <1>1 DEF WellFormed, Changes, EventOf, Events, ObjectOK, PVCs
    <2>2. Append(pvc.audit, EventOf(req[t].change)) \in Seq(Events)
      BY <2>1
    <2> QED BY <2>2, LastEventsType DEF Audited
  <1>4. pvc' = [new EXCEPT !.audit = Audited(pvc.audit, req[t].change)] /\ log' = Append(log, req[t].change)
    BY <1>1, <1>2 DEF UpdateMetadata
  <1> HIDE DEF new
  <1>5. /\ pvc' \in PVCs /\ pvc'.uid = new.uid /\ pvc'.audit = Audited(pvc.audit, req[t].change)
        /\ pvc'.grants = new.grants /\ pvc'.consumers = new.consumers /\ pvc'.terminating = new.terminating
    BY <1>2, <1>3, <1>4 DEF PVCs
  <1> QED BY <1>1, <1>2, <1>4, <1>5 DEF new

\* The stored object keeps its type, and a PVC that is gone stays empty.
LEMMA ObjectStep ==
  ASSUME ObjectOK, RequestsOK, [Next]_vars
  PROVE  ObjectOK'
  <1> USE DEF ObjectOK
  <1>1. CASE CreateContext
    BY <1>1, ObjectFacts, AccessAssumption DEF CreateContext
  <1>2. CASE FinalizePVC
    BY <1>2, ObjectFacts DEF FinalizePVC
  <1>3. ASSUME NEW p \in Pods, MountPod(p) \/ RemovePod(p) PROVE ObjectOK'
    BY <1>3 DEF MountPod, RemovePod
  <1>4. ASSUME NEW t \in Threads, UpdateMetadata(t) PROVE ObjectOK'
    <2>1. req[t].change \in Changes
      BY <1>4, UpdateFacts DEF WellFormed
    <2>2. log' \in Seq(Changes)
      BY <1>4, <2>1, UpdateFacts, AppendProperties
    <2> QED BY <1>4, <2>2, UpdateFacts DEF UpdateMetadata
  <1>5. ASSUME NEW t \in Threads, DeletePVC(t) PROVE ObjectOK'
    <2>1. [pvc EXCEPT !.terminating = TRUE] \in PVCs /\ [pvc EXCEPT !.terminating = TRUE].uid = pvc.uid
      BY DEF PVCs
    <2> QED BY <1>5, <2>1 DEF DeletePVC
  <1>6. CASE UNCHANGED <<pvc, created, mounts, log>>
    BY <1>6
  <1>7. ASSUME NEW t \in Threads, Request(t) PROVE UNCHANGED <<pvc, created, mounts, log>>
    BY <1>7 DEF Request, GrantBegin, ConsumerBegin, DeleteBegin
  <1>8. ASSUME NEW t \in Threads, ThreadStep(t), ~UpdateMetadata(t), ~DeletePVC(t)
        PROVE  UNCHANGED <<pvc, created, mounts, log>>
    BY <1>8 DEF ThreadStep, Authorize, GetMetadata, UpdateConflict, DeleteGet, DeleteConsumers,
       DeletePods, DeleteIndex
  <1> QED BY <1>1, <1>2, <1>3, <1>4, <1>5, <1>6, <1>7, <1>8 DEF Next, vars

\* What stays since a deletion began is what the deletion has not found absent.
LEMMA SteadyStep ==
  ASSUME ObjectOK, RequestsOK, SteadyOK, [Next]_vars
  PROVE  SteadyOK'
  <1> USE DEF ObjectOK, SteadyOK
  <1>1. CASE CreateContext
    BY <1>1, ObjectFacts, AccessAssumption DEF CreateContext
  <1>2. CASE FinalizePVC
    BY <1>2 DEF FinalizePVC
  <1>3. ASSUME NEW p \in Pods, MountPod(p) PROVE SteadyOK'
    BY <1>3 DEF MountPod
  <1>4. ASSUME NEW p \in Pods, RemovePod(p) PROVE SteadyOK'
    BY <1>4 DEF RemovePod
  <1>5. ASSUME NEW t \in Threads, Answer(t), UNCHANGED <<mounts>>, pvc'.consumers = pvc.consumers
        PROVE  SteadyOK'
    BY <1>5 DEF Answer, Goto, RequestsOK
  <1>6. ASSUME NEW t \in Threads, UpdateMetadata(t) PROVE SteadyOK'
    <2>1. pvc'.consumers = Applied(pvc, req[t].change).consumers /\ pvc = req[t].seen
      BY <1>6, UpdateFacts DEF UpdateMetadata, Unchanged
    <2>2. /\ steady' = [s \in Threads |->
               IF s = t THEN {} ELSE {x \in steady[s] : x \in Pods \/ x \in pvc'.consumers}]
          /\ pc' = [pc EXCEPT ![t] = "idle"] /\ req' = [req EXCEPT ![t] = Blank] /\ mounts' = mounts
      BY <1>6, <2>1 DEF UpdateMetadata, Goto
    <2>3. ASSUME NEW s \in Threads PROVE steady'[s] \subseteq pvc'.consumers \cup mounts'
      BY <2>2, PodsAreNoConsumers DEF PVCs
    <2> QED BY <2>2, <2>3 DEF RequestsOK
  <1>7. ASSUME NEW t \in Threads, NEW label \in PCs, Goto(t, label), UNCHANGED <<pvc, mounts, steady>>,
               req'[t].op = req[t].op, \A s \in Threads \ {t} : req'[s] = req[s],
               label = "del_pods" => pvc.consumers = {},
               label = "del_index" /\ req[t].op = "delete" => pc[t] = "del_pods" /\ mounts = {},
               label = "del_pvc" => pc[t] = "del_index"
        PROVE  SteadyOK'
    BY <1>7 DEF Goto, RequestsOK
  <1>8. ASSUME NEW t \in Threads, Request(t) PROVE SteadyOK'
    <2>1. pc' = [pc EXCEPT ![t] = "authorize"] /\ \A s \in Threads \ {t} : req'[s] = req[s]
      <3>1. ASSUME NEW op, NEW actor, NEW checks, NEW change, Begin(t, op, actor, checks, change)
            PROVE  pc' = [pc EXCEPT ![t] = "authorize"] /\ \A s \in Threads \ {t} : req'[s] = req[s]
        BY <3>1 DEF Begin, Goto, RequestsOK
      <3> QED BY <1>8, <3>1 DEF Request, GrantBegin, ConsumerBegin, DeleteBegin
    <2>2. /\ UNCHANGED <<pvc, mounts>>
          /\ steady' \in {steady, [steady EXCEPT ![t] = pvc.consumers \cup mounts]}
      BY <1>8 DEF Request, GrantBegin, ConsumerBegin, DeleteBegin
    <2> QED BY <2>1, <2>2 DEF PVCs, RequestsOK
  <1>9. ASSUME NEW t \in Threads, ThreadStep(t), ~UpdateMetadata(t) PROVE SteadyOK'
    <2>1. req[t] \in Requests /\ RequestAt(pc[t], req[t])
      BY DEF RequestsOK
    <2>2. CASE Answer(t)
      <3>1. UNCHANGED mounts /\ pvc'.consumers = pvc.consumers
        BY <1>9 DEF ThreadStep, Authorize, GetMetadata, UpdateConflict, DeleteGet, DeleteConsumers,
           DeletePods, DeleteIndex, DeletePVC, PVCs
      <3> QED BY <1>5, <2>2, <3>1
    <2>3. CASE Authorize(t) /\ ~Answer(t)
      <3>1. /\ UNCHANGED <<pvc, mounts, steady>> /\ \A s \in Threads \ {t} : req'[s] = req[s]
            /\ req'[t].op = req[t].op /\ \E label \in {"authorize", "get", "del_get"} : pc' = [pc EXCEPT ![t] = label]
        BY <2>1, <2>3 DEF Authorize, RequestsOK, Requests, Goto
      <3> QED BY <1>7, <3>1 DEF Goto, PCs
    <2>4. CASE GetMetadata(t) /\ ~Answer(t)
      <3>1. req'[t].op = req[t].op /\ \A s \in Threads \ {t} : req'[s] = req[s]
        BY <2>1, <2>4 DEF GetMetadata, RequestsOK, Requests
      <3> QED BY <1>7, <2>4, <3>1 DEF GetMetadata, PCs
    <2>5. CASE UpdateConflict(t) /\ ~Answer(t)
      <3>1. req'[t].op = req[t].op /\ \A s \in Threads \ {t} : req'[s] = req[s]
        <4>1. req' = [req EXCEPT ![t].tries = @ + 1, ![t].seen = NoPVC]
          BY <2>5 DEF UpdateConflict
        <4> QED BY <2>1, <4>1 DEF RequestsOK, Requests
      <3> QED BY <1>7, <2>5, <3>1 DEF UpdateConflict, PCs
    <2>6. CASE DeleteGet(t) /\ ~Answer(t)
      BY <1>7, <2>1, <2>6 DEF DeleteGet, PCs, RequestAt
    <2>7. CASE DeleteConsumers(t) /\ ~Answer(t)
      BY <1>7, <2>7 DEF DeleteConsumers, PCs
    <2>8. CASE DeletePods(t) /\ ~Answer(t)
      BY <1>7, <2>8 DEF DeletePods, PCs
    <2>9. CASE DeleteIndex(t) /\ ~Answer(t)
      BY <1>7, <2>9 DEF DeleteIndex, PCs
    <2> QED BY <1>9, <2>2, <2>3, <2>4, <2>5, <2>6, <2>7, <2>8, <2>9 DEF ThreadStep, DeletePVC
  <1>10. CASE UNCHANGED vars
    BY <1>10 DEF vars
  <1> QED BY <1>1, <1>2, <1>3, <1>4, <1>6, <1>8, <1>9, <1>10 DEF Next

\* The trail follows the changes.
LEMMA AuditStep ==
  ASSUME ObjectOK, RequestsOK, AuditIsRecentHistory, [Next]_vars
  PROVE  AuditIsRecentHistory'
  <1> DEFINE EventsOf(changes) == [i \in 1..Len(changes) |-> EventOf(changes[i])]
             Trail(uid, changes) == NewPVC(uid).audit \o EventsOf(changes)
  <1>1. \A uid \in 0..MaxUid : NewPVC(uid).audit \in Seq(Events) /\ Len(NewPVC(uid).audit) = 1
    BY ObjectFacts DEF PVCs
  <1>2. CASE CreateContext
    <2>1. log' = <<>> /\ pvc' = NewPVC(created + 1) /\ created + 1 \in 0..MaxUid
      BY <1>2, AccessAssumption DEF CreateContext, ObjectOK
    <2>2. pvc'.uid = created + 1 /\ pvc'.audit \in Seq(Events) /\ Len(pvc'.audit) = 1
      BY <1>1, <2>1, ObjectFacts
    <2>3. EventsOf(<<>>) = <<>>
      OBVIOUS
    <2>4. pvc'.audit \o <<>> = pvc'.audit /\ LastEvents(pvc'.audit) = pvc'.audit
      BY <2>2, AccessAssumption DEF LastEvents
    <2> QED BY <2>1, <2>2, <2>3, <2>4 DEF AuditIsRecentHistory
  <1>3. ASSUME NEW t \in Threads, UpdateMetadata(t) PROVE AuditIsRecentHistory'
    <2> DEFINE change == req[t].change
    <2>1. /\ change \in Changes /\ pvc.uid # 0 /\ pvc'.uid = pvc.uid /\ log' = Append(log, change)
          /\ pvc'.audit = LastEvents(Append(pvc.audit, EventOf(change)))
      BY <1>3, UpdateFacts DEF WellFormed, Audited
    <2>2. EventOf(change) \in Events /\ EventsOf(log) \in Seq(Events) /\ log \in Seq(Changes)
          /\ Len(EventsOf(log)) = Len(log)
      <3>1. \A c \in Changes : EventOf(c) \in Events
        BY DEF Changes, EventOf, Events
      <3>2. log \in Seq(Changes)
        BY DEF ObjectOK
      <3> QED BY <2>1, <3>1, <3>2
    <2>3. Trail(pvc.uid, log) \in Seq(Events) /\ pvc.audit = LastEvents(Trail(pvc.uid, log))
      <3>1. NewPVC(pvc.uid).audit \in Seq(Events)
        BY <1>1 DEF ObjectOK, PVCs
      <3> QED BY <2>1, <2>2, <3>1 DEF AuditIsRecentHistory
    <2>4. EventsOf(log') = Append(EventsOf(log), EventOf(change))
      BY <2>1, <2>2
    <2>5. Trail(pvc'.uid, log') = Append(Trail(pvc.uid, log), EventOf(change))
      <3>1. NewPVC(pvc.uid).audit \in Seq(Events)
        BY <1>1 DEF ObjectOK, PVCs
      <3>2. ASSUME NEW front \in Seq(Events), NEW rest \in Seq(Events), NEW event \in Events
            PROVE  front \o Append(rest, event) = Append(front \o rest, event)
        OBVIOUS
      <3> HIDE DEF EventsOf, change
      <3> QED BY <2>1, <2>2, <2>4, <3>1, <3>2
    <2>6. LastEvents(Trail(pvc'.uid, log')) = pvc'.audit
      <3> HIDE DEF Trail, change
      <3> QED BY <2>1, <2>2, <2>3, <2>5, LastEventsAppend
    <2> QED BY <2>6 DEF AuditIsRecentHistory
  <1>4. ASSUME pvc'.uid # 0 => pvc'.uid = pvc.uid /\ pvc'.audit = pvc.audit /\ log' = log
        PROVE  AuditIsRecentHistory'
    BY <1>4 DEF AuditIsRecentHistory
  <1>5. CASE FinalizePVC \/ UNCHANGED vars \/ \E p \in Pods : MountPod(p) \/ RemovePod(p)
    BY <1>4, <1>5, ObjectFacts DEF FinalizePVC, vars, MountPod, RemovePod
  <1>6. ASSUME NEW t \in Threads, Request(t) PROVE AuditIsRecentHistory'
    BY <1>4, <1>6 DEF Request, GrantBegin, ConsumerBegin, DeleteBegin
  <1>7. ASSUME NEW t \in Threads, ThreadStep(t), ~UpdateMetadata(t) PROVE AuditIsRecentHistory'
    BY <1>4, <1>7 DEF ThreadStep, Authorize, GetMetadata, UpdateConflict, DeleteGet,
       DeleteConsumers, DeletePods, DeleteIndex, DeletePVC, ObjectOK, PVCs
  <1> QED BY <1>2, <1>3, <1>5, <1>6, <1>7 DEF Next

-----------------------------------------------------------------------------
(* Results.                                                                 *)

\* The inductive invariant holds in every behaviour.
THEOREM Invariance == Spec => []IInv
  <1>1. Init => IInv
    <2> SUFFICES ASSUME Init PROVE IInv
      OBVIOUS
    <2>1. ObjectOK
      BY ObjectFacts, AccessAssumption DEF Init, ObjectOK
    <2>2. RequestsOK
      BY ObjectFacts DEF Init, RequestsOK, PCs
    <2>3. SteadyOK /\ AuditIsRecentHistory
      BY ObjectFacts DEF Init, SteadyOK, AuditIsRecentHistory
    <2> QED BY <2>1, <2>2, <2>3 DEF IInv
  <1>2. IInv /\ [Next]_vars => IInv'
    BY ObjectStep, RequestsStep, SteadyStep, AuditStep DEF IInv
  <1> QED BY <1>1, <1>2, PTL DEF Spec

\* Every variable keeps its type, for any number of requests and subjects.
THEOREM AccessTypeCorrect == Spec => []TypeOK
  <1>1. IInv => TypeOK
    BY DEF IInv, ObjectOK, RequestsOK, SteadyOK, RequestAt, WellFormed, Requests, TypeOK
  <1> QED BY <1>1, Invariance, PTL

\* internal/kube/access.go, appendAudit: cut at every change, the trail is still
\* the last MaxAudit events of the whole history, whatever requests interleave.
THEOREM AuditIsTheRecentHistory == Spec => []AuditIsRecentHistory
  <1>1. IInv => AuditIsRecentHistory
    BY DEF IInv
  <1> QED BY <1>1, Invariance, PTL

\* An unforced deletion spares every consumer and pod that was there when the
\* request arrived and stayed, although it looks at them in separate calls.
THEOREM SteadyConsumersSpared == Spec => DeletionSparesSteadyConsumers
  <1>1. IInv => [\A t \in Threads : Removes(t) => steady[t] = {}]_vars
    BY DEF IInv, SteadyOK, Removes
  <1> QED BY <1>1, Invariance, PTL DEF DeletionSparesSteadyConsumers

\* updateAccessMetadata: every change is applied to the object that is stored when
\* it takes effect, and nothing else touches grants and consumers of a Context.
ChangeApplied ==
  pvc.uid # 0 /\ pvc'.uid = pvc.uid =>
    \/ /\ log' = log /\ pvc'.grants = pvc.grants /\ pvc'.consumers = pvc.consumers
    \/ \E change \in Changes :
         /\ WellFormed(change) /\ log' = Append(log, change)
         /\ pvc'.grants = Applied(pvc, change).grants
         /\ pvc'.consumers = Applied(pvc, change).consumers
EachChangeApplied == [][ChangeApplied]_vars

\* The steps behind NoChangeLost, for every instance.
THEOREM ChangesAreApplied == Spec => EachChangeApplied
  <1> USE DEF ChangeApplied
  <1>1. IInv /\ [Next]_vars => [ChangeApplied]_vars
    <2> SUFFICES ASSUME IInv, Next PROVE ChangeApplied
      OBVIOUS
    <2>1. CASE CreateContext
      BY <2>1 DEF CreateContext
    <2>2. CASE FinalizePVC
      BY <2>2, ObjectFacts DEF FinalizePVC
    <2>3. ASSUME NEW p \in Pods, MountPod(p) \/ RemovePod(p) PROVE ChangeApplied
      BY <2>3 DEF MountPod, RemovePod
    <2>4. ASSUME NEW t \in Threads, UpdateMetadata(t) PROVE ChangeApplied
      BY <2>4, UpdateFacts DEF IInv, WellFormed
    <2>5. ASSUME NEW t \in Threads, Request(t) PROVE ChangeApplied
      BY <2>5 DEF Request, GrantBegin, ConsumerBegin, DeleteBegin
    <2>6. ASSUME NEW t \in Threads, ThreadStep(t), ~UpdateMetadata(t) PROVE ChangeApplied
      BY <2>6 DEF ThreadStep, Authorize, GetMetadata, UpdateConflict, DeleteGet, DeleteConsumers,
         DeletePods, DeleteIndex, DeletePVC, IInv, ObjectOK, PVCs
    <2> QED BY <2>1, <2>2, <2>3, <2>4, <2>5, <2>6 DEF Next
  <1> QED BY <1>1, Invariance, PTL DEF Spec, EachChangeApplied

-----------------------------------------------------------------------------
(* The last change of a grant and of a consumer.                            *)

\* A change that is appended is the latest of its kind; the others stay what they were.
LEMMA PlacesAppend ==
  ASSUME NEW changes \in Seq(Changes), NEW change \in Changes
  PROVE  /\ \A i \in 1..Len(changes) : Append(changes, change)[i] = changes[i]
         /\ Append(changes, change)[Len(changes) + 1] = change
         /\ \A s \in Subjects :
              GrantsOf(Append(changes, change), s) =
                GrantsOf(changes, s) \cup
                  IF change.action \in {"grant.set", "grant.revoked"} /\ change.target = s
                  THEN {Len(changes) + 1} ELSE {}
         /\ \A c \in Consumers :
              DeclarationsOf(Append(changes, change), c) =
                DeclarationsOf(changes, c) \cup
                  IF /\ change.action \in {"consumer.attached", "consumer.detached"}
                     /\ change.target = c.subject /\ change.name = c.name
                  THEN {Len(changes) + 1} ELSE {}
  <1> DEFINE longer == Append(changes, change)
  <1>1. /\ Len(longer) = Len(changes) + 1 /\ Len(changes) \in Nat
        /\ \A i \in 1..Len(changes) : longer[i] = changes[i]
        /\ longer[Len(changes) + 1] = change
    BY AppendProperties
  <1> HIDE DEF longer
  <1>2. 1..Len(longer) = (1..Len(changes)) \cup {Len(changes) + 1}
    BY <1>1
  <1>3. ASSUME NEW s \in Subjects
        PROVE  GrantsOf(longer, s) =
                 GrantsOf(changes, s) \cup
                   IF change.action \in {"grant.set", "grant.revoked"} /\ change.target = s
                   THEN {Len(changes) + 1} ELSE {}
    BY <1>1, <1>2 DEF GrantsOf
  <1>4. ASSUME NEW c \in Consumers
        PROVE  DeclarationsOf(longer, c) =
                 DeclarationsOf(changes, c) \cup
                   IF /\ change.action \in {"consumer.attached", "consumer.detached"}
                      /\ change.target = c.subject /\ change.name = c.name
                   THEN {Len(changes) + 1} ELSE {}
    BY <1>1, <1>2 DEF DeclarationsOf
  <1> QED BY <1>1, <1>3, <1>4 DEF longer

\* What a change does to the grant of one subject and to one consumer.
LEMMA AppliedEffect ==
  ASSUME NEW object \in PVCs, NEW change, WellFormed(change)
  PROVE  /\ \A s \in Subjects :
              Applied(object, change).grants[s] =
                IF change.action \in {"grant.set", "grant.revoked"} /\ change.target = s
                THEN IF change.action = "grant.set" THEN change.perms ELSE {}
                ELSE object.grants[s]
         /\ \A c \in Consumers :
              c \in Applied(object, change).consumers <=>
                IF /\ change.action \in {"consumer.attached", "consumer.detached"}
                   /\ change.target = c.subject /\ change.name = c.name
                THEN change.action = "consumer.attached" /\ change.mode = c.mode
                ELSE c \in object.consumers
  <1>1. CASE change.action = "grant.set"
    BY <1>1 DEF Applied, WellFormed, Changes, PVCs
  <1>2. CASE change.action = "grant.revoked"
    BY <1>2 DEF Applied, WellFormed, Changes, PVCs
  <1>3. CASE change.action \in {"consumer.attached", "consumer.detached"}
    <2> DEFINE consumer == [subject |-> change.target, name |-> change.name, mode |-> change.mode]
               others == {d \in object.consumers : ~SameConsumer(d, consumer)}
    <2>1. /\ Applied(object, change).grants = object.grants
          /\ Applied(object, change).consumers =
               IF change.action = "consumer.attached" THEN others \cup {consumer} ELSE others
      BY <1>3 DEF Applied, PVCs
    <2>2. ASSUME NEW c \in Consumers
          PROVE  /\ c \in others <=> c \in object.consumers
                                        /\ ~(change.target = c.subject /\ change.name = c.name)
                 /\ c = consumer <=> /\ change.target = c.subject /\ change.name = c.name
                                      /\ change.mode = c.mode
      BY DEF SameConsumer, Consumers
    <2> HIDE DEF consumer, others
    <2> QED BY <1>3, <2>1, <2>2
  <1> QED BY <1>1, <1>2, <1>3 DEF WellFormed, Changes, Actions

\* A change keeps grants and consumers what the last change of each says.
LEMMA FollowStep ==
  ASSUME NEW object \in PVCs, NEW changes \in Seq(Changes), NEW change, WellFormed(change),
         GrantsFollow(object, changes), ConsumersFollow(object, changes),
         NEW new, new.uid = object.uid, new.grants = Applied(object, change).grants,
         new.consumers = Applied(object, change).consumers
  PROVE  GrantsFollow(new, Append(changes, change)) /\ ConsumersFollow(new, Append(changes, change))
  <1> DEFINE last == Len(changes) + 1
             longer == Append(changes, change)
  <1>1. /\ \A i \in 1..Len(changes) : longer[i] = changes[i]
        /\ longer[last] = change /\ last \in Nat /\ \A i \in 1..Len(changes) : i < last
    BY PlacesAppend, LenProperties DEF WellFormed
  <1>2. ASSUME NEW s \in Subjects
        PROVE  GrantsOf(longer, s) =
                 GrantsOf(changes, s) \cup
                   IF change.action \in {"grant.set", "grant.revoked"} /\ change.target = s
                   THEN {last} ELSE {}
    BY PlacesAppend DEF WellFormed
  <1>3. ASSUME NEW c \in Consumers
        PROVE  DeclarationsOf(longer, c) =
                 DeclarationsOf(changes, c) \cup
                   IF /\ change.action \in {"consumer.attached", "consumer.detached"}
                      /\ change.target = c.subject /\ change.name = c.name
                   THEN {last} ELSE {}
    BY PlacesAppend DEF WellFormed
  <1>4. /\ \A s : GrantsOf(changes, s) \subseteq 1..Len(changes)
        /\ \A c : DeclarationsOf(changes, c) \subseteq 1..Len(changes)
    BY DEF GrantsOf, DeclarationsOf
  <1> HIDE DEF last, longer
  <1>5. ASSUME NEW s \in Subjects
        PROVE  \/ GrantsOf(longer, s) = {} /\ new.grants[s] = NewPVC(new.uid).grants[s]
               \/ \E i \in GrantsOf(longer, s) :
                    /\ IsLatest(i, GrantsOf(longer, s))
                    /\ new.grants[s] = IF longer[i].action = "grant.set" THEN longer[i].perms ELSE {}
    <2> DEFINE Hits == change.action \in {"grant.set", "grant.revoked"} /\ change.target = s
    <2>1. new.grants[s] = IF Hits THEN IF change.action = "grant.set" THEN change.perms ELSE {}
                          ELSE object.grants[s]
      BY AppliedEffect
    <2>2. CASE Hits
      <3>1. IsLatest(last, GrantsOf(longer, s))
        BY <1>1, <1>2, <1>4, <2>2 DEF IsLatest
      <3> QED BY <1>1, <2>1, <2>2, <3>1 DEF IsLatest
    <2>3. CASE ~Hits
      <3>1. GrantsOf(longer, s) = GrantsOf(changes, s) /\ new.grants[s] = object.grants[s]
        BY <1>2, <2>1, <2>3
      <3>2. \A i \in GrantsOf(changes, s) : longer[i] = changes[i]
        BY <1>1, <1>4
      <3> QED BY <3>1, <3>2 DEF GrantsFollow
    <2> QED BY <2>2, <2>3
  <1>6. ASSUME NEW c \in Consumers
        PROVE  c \in new.consumers <=>
                 \E i \in DeclarationsOf(longer, c) :
                   /\ IsLatest(i, DeclarationsOf(longer, c))
                   /\ longer[i].action = "consumer.attached" /\ longer[i].mode = c.mode
    <2> DEFINE Hits == /\ change.action \in {"consumer.attached", "consumer.detached"}
                       /\ change.target = c.subject /\ change.name = c.name
    <2>1. c \in new.consumers <=> IF Hits THEN change.action = "consumer.attached" /\ change.mode = c.mode
                                   ELSE c \in object.consumers
      BY AppliedEffect
    <2>2. CASE Hits
      <3>1. \A i \in DeclarationsOf(longer, c) : IsLatest(i, DeclarationsOf(longer, c)) <=> i = last
        BY <1>1, <1>3, <1>4, <2>2 DEF IsLatest
      <3>2. last \in DeclarationsOf(longer, c)
        BY <1>3, <2>2
      <3> QED BY <1>1, <2>1, <2>2, <3>1, <3>2
    <2>3. CASE ~Hits
      <3>1. DeclarationsOf(longer, c) = DeclarationsOf(changes, c)
            /\ (c \in new.consumers <=> c \in object.consumers)
        BY <1>3, <2>1, <2>3
      <3>2. \A i \in DeclarationsOf(changes, c) : longer[i] = changes[i]
        BY <1>1, <1>4
      <3> QED BY <3>1, <3>2 DEF ConsumersFollow
    <2> QED BY <2>2, <2>3
  <1> QED BY <1>5, <1>6 DEF GrantsFollow, ConsumersFollow, longer

\* A fresh Context has what its creation gave, and no change yet.
LEMMA FollowNew ==
  ASSUME NEW uid \in 0..MaxUid
  PROVE  GrantsFollow(NewPVC(uid), <<>>) /\ ConsumersFollow(NewPVC(uid), <<>>)
  <1>1. /\ \A s : GrantsOf(<<>>, s) = {}
        /\ \A c : DeclarationsOf(<<>>, c) = {}
    BY DEF GrantsOf, DeclarationsOf
  <1> QED BY <1>1, ObjectFacts DEF GrantsFollow, ConsumersFollow

\* Only a creation puts another PVC in the place of the stored one.
LEMMA UidStays ==
  ASSUME ObjectOK, RequestsOK, Next, pvc'.uid # 0, pvc'.uid # pvc.uid
  PROVE  log' = <<>> /\ pvc' = NewPVC(created + 1) /\ created + 1 \in 0..MaxUid
  <1>1. CASE CreateContext
    BY <1>1, AccessAssumption DEF CreateContext, ObjectOK
  <1>2. CASE FinalizePVC
    BY <1>2, ObjectFacts DEF FinalizePVC
  <1>3. ASSUME NEW p \in Pods, MountPod(p) \/ RemovePod(p) PROVE FALSE
    BY <1>3 DEF MountPod, RemovePod
  <1>4. ASSUME NEW t \in Threads, UpdateMetadata(t) PROVE FALSE
    BY <1>4, UpdateFacts
  <1>5. ASSUME NEW t \in Threads, Request(t) PROVE FALSE
    BY <1>5 DEF Request, GrantBegin, ConsumerBegin, DeleteBegin
  <1>6. ASSUME NEW t \in Threads, ThreadStep(t), ~UpdateMetadata(t) PROVE FALSE
    BY <1>6 DEF ThreadStep, Authorize, GetMetadata, UpdateConflict, DeleteGet, DeleteConsumers,
       DeletePods, DeleteIndex, DeletePVC, ObjectOK, PVCs
  <1> QED BY <1>1, <1>2, <1>3, <1>4, <1>5, <1>6 DEF Next

\* internal/kube/access.go, updateAccessMetadata: whatever requests interleave, every
\* grant and every consumer of a Context is what the last acknowledged change of it says.
THEOREM NoChangeIsLost == Spec => []NoChangeLost
  <1>1. Init => NoChangeLost
    BY ObjectFacts DEF Init, NoChangeLost
  <1>2. IInv /\ NoChangeLost /\ [Next /\ ChangeApplied]_vars => NoChangeLost'
    <2> SUFFICES ASSUME IInv, NoChangeLost, [Next /\ ChangeApplied]_vars, pvc'.uid # 0
                 PROVE  GrantsFollow(pvc', log') /\ ConsumersFollow(pvc', log')
      BY DEF NoChangeLost
    <2> DEFINE Same == log' = log /\ pvc'.grants = pvc.grants /\ pvc'.consumers = pvc.consumers
    <2>1. CASE pvc'.uid = pvc.uid /\ Same
      BY <2>1 DEF NoChangeLost, GrantsFollow, ConsumersFollow
    <2>2. CASE pvc'.uid = pvc.uid /\ ChangeApplied /\ ~Same
      <3>1. PICK change \in Changes :
              /\ WellFormed(change) /\ log' = Append(log, change)
              /\ pvc'.grants = Applied(pvc, change).grants
              /\ pvc'.consumers = Applied(pvc, change).consumers
        BY <2>2 DEF ChangeApplied
      <3> QED BY <2>2, <3>1, FollowStep DEF NoChangeLost, IInv, ObjectOK
    <2>3. CASE pvc'.uid # pvc.uid /\ Next
      <3>1. ObjectOK /\ RequestsOK
        BY DEF IInv
      <3>2. log' = <<>> /\ pvc' = NewPVC(created + 1) /\ created + 1 \in 0..MaxUid
        BY <2>3, <3>1, UidStays
      <3> QED BY <3>2, FollowNew
    <2> QED BY <2>1, <2>2, <2>3 DEF vars
  <1>3. Spec => [][Next /\ ChangeApplied]_vars
    BY ChangesAreApplied, PTL DEF Spec, EachChangeApplied
  <1> QED BY <1>1, <1>2, <1>3, Invariance, PTL DEF Spec
=============================================================================
