--------------------------- MODULE ContextAccess ---------------------------
(* The access metadata of one Context: grants, declared consumers and the   *)
(* audit trail, all annotations of its PVC, changed by concurrent requests, *)
(* and its deletion, which looks at consumers and pods first                *)
(* (internal/kube/access.go, deleteContext in internal/kube/manager.go and  *)
(* the handlers of internal/api/handler.go).                                *)
EXTENDS Integers, Sequences

CONSTANTS
  Threads,       \* concurrent HTTP requests
  Subjects,      \* platform identities that send requests
  Administrator, \* service:context-service-admin
  Owner,         \* the subject that creates the Context
  Names,         \* consumer names
  GrantSets,     \* permission sets clients grant
  Pods,          \* pods that may mount the claim
  None,          \* no subject
  MaxAudit,      \* maxAuditEvents (100 in the code)
  MaxUid,        \* bound: PVCs ever created under the name
  MaxChanges,    \* bound: no new change once a Context has had this many
  MaxTries,      \* steps of retry.DefaultRetry (5 in client-go)
  Ops,           \* the operations clients call in this instance
  Faults         \* the failures this instance allows

Permissions == {"read", "write", "attach", "derive", "administer"}
Modes == {"readOnly", "readWrite"}
AllOps == {"grant", "consumer", "delete", "force"}
AllFaults == {"conflict", "reply"}

ASSUME AccessAssumption ==
  /\ Owner \in Subjects /\ None \notin Subjects
  /\ GrantSets \subseteq (SUBSET Permissions) \ {{}}
  /\ MaxAudit \in Nat \ {0} /\ MaxUid \in Nat /\ MaxChanges \in Nat /\ MaxTries \in Nat \ {0}
  /\ Ops \subseteq AllOps /\ Faults \subseteq AllFaults

VARIABLES
  pvc,     \* the PVC now stored under the Context's name
  created, \* PVCs created so far: the UID of the newest
  mounts,  \* pods that use the claim
  pc, req, \* the threads
  log,     \* history: the changes made to this PVC, oldest first
  steady   \* history: per deletion, the consumers and pods there since it began

vars == <<pvc, created, mounts, pc, req, log, steady>>

-----------------------------------------------------------------------------
Consumers == [subject : Subjects, name : Names, mode : Modes]
\* A declared consumer is a record in an annotation, never a pod.
ASSUME PodsAreNoConsumers == Pods \cap Consumers = {}
Actions == {"grant.set", "grant.revoked", "consumer.attached", "consumer.detached"}
Changes == [action : Actions, actor : Subjects, target : Subjects,
            perms : SUBSET Permissions, name : Names \cup {None}, mode : Modes \cup {None}]
Events == [action : Actions \cup {"context.created"}, subject : Subjects,
           target : Subjects \cup {None}]
PVCs == [uid : 0..MaxUid, grants : [Subjects -> SUBSET Permissions],
         consumers : SUBSET Consumers, audit : Seq(Events), terminating : BOOLEAN]
PCs == {"idle", "authorize", "get", "update", "del_get", "del_consumers", "del_pods",
        "del_index", "del_pvc"}

NoPVC == [uid |-> 0, grants |-> [s \in Subjects |-> {}], consumers |-> {}, audit |-> <<>>,
          terminating |-> FALSE]
\* buildContextPVC: the creator holds every permission.
NewPVC(uid) ==
  [NoPVC EXCEPT !.uid = uid, !.grants[Owner] = Permissions,
                !.audit = <<[action |-> "context.created", subject |-> Owner, target |-> None]>>]
Blank == [op |-> "none", actor |-> None, checks |-> <<>>, change |-> None, seen |-> NoPVC,
          tries |-> 0]

TypeOK ==
  /\ pvc \in PVCs
  /\ created \in 0..MaxUid
  /\ mounts \subseteq Pods
  /\ pc \in [Threads -> PCs]
  /\ \A t \in Threads :
       /\ req[t].op \in {"none", "change", "delete", "force"}
       /\ req[t].actor \in Subjects \cup {None}
       /\ req[t].checks \in Seq(Permissions)
       /\ req[t].op = "change" => req[t].change \in Changes
       /\ req[t].seen \in PVCs /\ req[t].tries \in 0..MaxTries
  /\ log \in Seq(Changes)
  /\ steady \in [Threads -> SUBSET (Consumers \cup Pods)]

Init ==
  /\ pvc = NoPVC /\ created = 0 /\ mounts = {}
  /\ pc = [t \in Threads |-> "idle"]
  /\ req = [t \in Threads |-> Blank]
  /\ log = <<>>
  /\ steady = [t \in Threads |-> {}]

-----------------------------------------------------------------------------
Goto(t, label) == pc' = [pc EXCEPT ![t] = label]
Answer(t) ==
  /\ Goto(t, "idle")
  /\ req' = [req EXCEPT ![t] = Blank]
  /\ steady' = [steady EXCEPT ![t] = {}]

SameConsumer(c, d) == c.subject = d.subject /\ c.name = d.name
Holds(object, subject, permission) ==
  subject = Administrator \/ permission \in object.grants[subject]

\* SetContextGrant, RevokeContextGrant, SetContextConsumer: the mutation.
Applied(object, change) ==
  LET consumer == [subject |-> change.target, name |-> change.name, mode |-> change.mode]
      others == {c \in object.consumers : ~SameConsumer(c, consumer)}
  IN  CASE change.action = "grant.set" -> [object EXCEPT !.grants[change.target] = change.perms]
        [] change.action = "grant.revoked" -> [object EXCEPT !.grants[change.target] = {}]
        [] change.action = "consumer.attached" -> [object EXCEPT !.consumers = others \cup {consumer}]
        [] change.action = "consumer.detached" -> [object EXCEPT !.consumers = others]

LastEvents(events) ==
  IF Len(events) <= MaxAudit THEN events
  ELSE SubSeq(events, Len(events) - MaxAudit + 1, Len(events))

\* Mutant: the trail keeps the change itself.
EventOfChange(change) == change

EventOf(change) == [action |-> change.action, subject |-> change.actor, target |-> change.target]

\* Mutant: the trail is cut before the new event is added.
AuditedEarly(events, change) == Append(LastEvents(events), EventOf(change))

\* appendAudit.
Audited(events, change) == LastEvents(Append(events, EventOf(change)))

-----------------------------------------------------------------------------
(* The PVC and the pods.                                                    *)
CreateContext ==
  /\ pvc.uid = 0 /\ created < MaxUid
  /\ created' = created + 1
  /\ pvc' = NewPVC(created + 1)
  /\ log' = <<>>
  /\ UNCHANGED <<mounts, pc, req, steady>>

FinalizePVC ==
  /\ pvc.terminating /\ mounts = {}
  /\ pvc' = NoPVC
  /\ log' = <<>>
  /\ steady' = [t \in Threads |-> {}]
  /\ UNCHANGED <<created, mounts, pc, req>>

MountPod(p) ==
  /\ pvc.uid # 0 /\ ~pvc.terminating /\ p \notin mounts
  /\ mounts' = mounts \cup {p}
  /\ UNCHANGED <<pvc, created, pc, req, log, steady>>

RemovePod(p) ==
  /\ p \in mounts
  /\ mounts' = mounts \ {p}
  /\ steady' = [t \in Threads |-> steady[t] \ {p}]
  /\ UNCHANGED <<pvc, created, pc, req, log>>

-----------------------------------------------------------------------------
(* Requests: the handler checks permissions one AccessContext at a time,    *)
(* then lets the manager act without the result of the checks.              *)
Begin(t, op, actor, checks, change) ==
  /\ pc[t] = "idle" /\ (op = "change" => Len(log) < MaxChanges)
  /\ Goto(t, "authorize")
  /\ req' = [req EXCEPT ![t] = [Blank EXCEPT !.op = op, !.actor = actor, !.checks = checks,
                                             !.change = change]]

\* setContextGrant with a non-empty set of permissions, revokeContextGrant.
GrantBegin(t, actor, target, perms) ==
  /\ "grant" \in Ops
  /\ Begin(t, "change", actor, <<"administer">>,
           [action |-> IF perms = {} THEN "grant.revoked" ELSE "grant.set", actor |-> actor,
            target |-> target, perms |-> perms, name |-> None, mode |-> None])
  /\ UNCHANGED <<pvc, created, mounts, log, steady>>

\* setConsumer: for another subject, and to write, it checks again.
ConsumerBegin(t, action, actor, target, name, mode) ==
  LET forOther == IF target = actor THEN <<>> ELSE <<"administer">>
      toWrite == IF action = "consumer.attached" /\ mode = "readWrite" THEN <<"write">> ELSE <<>>
  IN  /\ "consumer" \in Ops
      /\ Begin(t, "change", actor, <<"attach">> \o forOther \o toWrite,
               [action |-> action, actor |-> actor, target |-> target, perms |-> {},
                name |-> name, mode |-> mode])
      /\ UNCHANGED <<pvc, created, mounts, log, steady>>

\* deleteContextAs, with ?force=true or without.
DeleteBegin(t, actor, op) ==
  /\ op \in Ops
  /\ Begin(t, op, actor, <<"administer">>, None)
  /\ steady' = [steady EXCEPT ![t] = pvc.consumers \cup mounts]
  /\ UNCHANGED <<pvc, created, mounts, log>>

Authorize(t) ==
  /\ pc[t] = "authorize"
  /\ \/ /\ pvc.uid # 0 /\ Holds(pvc, req[t].actor, Head(req[t].checks))
        /\ req' = [req EXCEPT ![t].checks = Tail(@)]
        /\ IF Len(req[t].checks) > 1 THEN UNCHANGED pc
           ELSE Goto(t, IF req[t].op = "change" THEN "get" ELSE "del_get")
        /\ UNCHANGED steady
     \/ /\ pvc.uid = 0 \/ ~Holds(pvc, req[t].actor, Head(req[t].checks))
        /\ Answer(t)
  /\ UNCHANGED <<pvc, created, mounts, log>>

-----------------------------------------------------------------------------
(* updateAccessMetadata.                                                    *)
GetMetadata(t) ==
  /\ pc[t] = "get"
  /\ LET missing == \/ pvc.uid = 0
                    \/ req[t].change.action = "grant.revoked" /\ pvc.grants[req[t].change.target] = {}
     IN  \/ missing /\ Answer(t)
         \/ /\ ~missing
            /\ Goto(t, "update") /\ req' = [req EXCEPT ![t].seen = pvc]
            /\ UNCHANGED steady
  /\ UNCHANGED <<pvc, created, mounts, log>>

\* Mutant: the write carries no resourceVersion, only the UID.
UnchangedUid(t) == pvc.uid = req[t].seen.uid

\* Update succeeds only on the object the Get returned. Equality stands for
\* the resourceVersion: an object changed and changed back takes the same write.
Unchanged(t) == pvc = req[t].seen

UpdateMetadata(t) ==
  /\ pc[t] = "update" /\ Unchanged(t)
  /\ LET new == Applied(req[t].seen, req[t].change)
     IN  /\ pvc' = [new EXCEPT !.audit = Audited(@, req[t].change)]
         /\ steady' = [s \in Threads |->
              IF s = t THEN {} ELSE {x \in steady[s] : x \in Pods \/ x \in new.consumers}]
  /\ log' = Append(log, req[t].change)
  /\ Goto(t, "idle") /\ req' = [req EXCEPT ![t] = Blank]
  /\ UNCHANGED <<created, mounts>>

\* A conflict: with a writer of this module, or (fault) with one that changed
\* only metadata this module leaves out.
UpdateConflict(t) ==
  /\ pc[t] = "update" /\ (~Unchanged(t) \/ "conflict" \in Faults)
  /\ \/ /\ req[t].tries + 1 < MaxTries
        /\ Goto(t, "get") /\ req' = [req EXCEPT ![t].tries = @ + 1, ![t].seen = NoPVC]
        /\ UNCHANGED steady
     \/ req[t].tries + 1 >= MaxTries /\ Answer(t)
  /\ UNCHANGED <<pvc, created, mounts, log>>

-----------------------------------------------------------------------------
(* deleteContext. The PVC is found and deleted by name.                     *)
DeleteGet(t) ==
  /\ pc[t] = "del_get"
  /\ \/ pvc.uid = 0 /\ Answer(t)
     \/ /\ pvc.uid # 0 /\ Goto(t, IF req[t].op = "force" THEN "del_index" ELSE "del_consumers")
        /\ UNCHANGED <<req, steady>>
  /\ UNCHANGED <<pvc, created, mounts, log>>

\* Mutant: only pods count as consumers.
DeletePodsOnly(t) ==
  /\ pc[t] = "del_consumers"
  /\ Goto(t, "del_pods") /\ UNCHANGED <<req, steady>>
  /\ UNCHANGED <<pvc, created, mounts, log>>

\* ListContextConsumers reads the annotation, then lists the pods.
DeleteConsumers(t) ==
  /\ pc[t] = "del_consumers"
  /\ \/ (pvc.uid = 0 \/ pvc.consumers # {}) /\ Answer(t)
     \/ pvc.uid # 0 /\ pvc.consumers = {} /\ Goto(t, "del_pods") /\ UNCHANGED <<req, steady>>
  /\ UNCHANGED <<pvc, created, mounts, log>>

DeletePods(t) ==
  /\ pc[t] = "del_pods"
  /\ \/ mounts # {} /\ Answer(t)
     \/ mounts = {} /\ Goto(t, "del_index") /\ UNCHANGED <<req, steady>>
  /\ UNCHANGED <<pvc, created, mounts, log>>

\* The query index goes first; when that fails the PVC stays.
DeleteIndex(t) ==
  /\ pc[t] = "del_index"
  /\ \/ Goto(t, "del_pvc") /\ UNCHANGED <<req, steady>>
     \/ "reply" \in Faults /\ Answer(t)
  /\ UNCHANGED <<pvc, created, mounts, log>>

DeletePVC(t) ==
  /\ pc[t] = "del_pvc"
  /\ pvc' = IF pvc.uid = 0 THEN pvc ELSE [pvc EXCEPT !.terminating = TRUE]
  /\ Answer(t)
  /\ UNCHANGED <<created, mounts, log>>

ThreadStep(t) ==
  \/ Authorize(t) \/ GetMetadata(t) \/ UpdateMetadata(t) \/ UpdateConflict(t)
  \/ DeleteGet(t) \/ DeleteConsumers(t) \/ DeletePods(t) \/ DeleteIndex(t) \/ DeletePVC(t)

Request(t) ==
  \E actor, target \in Subjects :
    \/ \E perms \in GrantSets \cup {{}} : GrantBegin(t, actor, target, perms)
    \/ \E name \in Names :
         \/ \E mode \in Modes : ConsumerBegin(t, "consumer.attached", actor, target, name, mode)
         \/ ConsumerBegin(t, "consumer.detached", actor, target, name, None)
    \/ \E op \in {"delete", "force"} : DeleteBegin(t, actor, op)

Next ==
  \/ CreateContext \/ FinalizePVC
  \/ \E p \in Pods : MountPod(p) \/ RemovePod(p)
  \/ \E t \in Threads : Request(t) \/ ThreadStep(t)

Spec == Init /\ [][Next]_vars

-----------------------------------------------------------------------------
(* Properties.                                                              *)

\* The changes that set or revoke the grants of a subject, and those that
\* attach or detach its consumer of one name, by their place in the history.
GrantsOf(changes, s) ==
  {i \in 1..Len(changes) :
     changes[i].action \in {"grant.set", "grant.revoked"} /\ changes[i].target = s}
DeclarationsOf(changes, c) ==
  {i \in 1..Len(changes) :
     /\ changes[i].action \in {"consumer.attached", "consumer.detached"}
     /\ changes[i].target = c.subject /\ changes[i].name = c.name}
IsLatest(i, places) == i \in places /\ \A j \in places : j <= i

(* What a subject holds is what the last change of its grants gave it, and  *)
(* what buildContextPVC gave it when there was none.                        *)
GrantsFollow(object, changes) ==
  \A s \in Subjects :
    \/ GrantsOf(changes, s) = {} /\ object.grants[s] = NewPVC(object.uid).grants[s]
    \/ \E i \in GrantsOf(changes, s) :
         /\ IsLatest(i, GrantsOf(changes, s))
         /\ object.grants[s] = IF changes[i].action = "grant.set" THEN changes[i].perms ELSE {}

(* A consumer is declared in a mode exactly if the last change that names   *)
(* it attached it in that mode.                                             *)
ConsumersFollow(object, changes) ==
  \A c \in Consumers :
    c \in object.consumers <=>
      \E i \in DeclarationsOf(changes, c) :
        /\ IsLatest(i, DeclarationsOf(changes, c))
        /\ changes[i].action = "consumer.attached" /\ changes[i].mode = c.mode

(* No change is lost: whatever requests interleave and whatever conflicts,  *)
(* every grant and every consumer is what the last acknowledged change of   *)
(* it says, a grant nobody has changed what the creation gave, and no       *)
(* change undoes one of another subject or consumer (updateAccessMetadata). *)
NoChangeLost ==
  pvc.uid # 0 => GrantsFollow(pvc, log) /\ ConsumersFollow(pvc, log)

(* The audit trail is the last MaxAudit events of the Context: its creation *)
(* and every change, in the order they took effect.                         *)
AuditIsRecentHistory ==
  pvc.uid # 0 =>
    pvc.audit = LastEvents(NewPVC(pvc.uid).audit \o [i \in 1..Len(log) |-> EventOf(log[i])])

\* The steps in which an unforced deletion takes effect.
Removes(t) == pc[t] = "del_pvc" /\ req[t].op = "delete" /\ ~pvc.terminating /\ pvc'.terminating

(* An unforced deletion never removes a Context under a consumer or a pod   *)
(* that was there when the request arrived and stayed.                      *)
DeletionSparesSteadyConsumers == [][\A t \in Threads : Removes(t) => steady[t] = {}]_vars

(* docs/design.md: the service never deletes a Context that has declared or *)
(* active consumers unless forced.                                          *)
DeletionSparesConsumers ==
  [][\A t \in Threads : Removes(t) => pvc.consumers = {} /\ mounts = {}]_vars
=============================================================================
