----------------------------- MODULE ContextSync -----------------------------
(* contextctl sync: users push local memory or knowledge contexts to one    *)
(* Context through helper pods on its volume, publish the revision and the  *)
(* query index with the service, and others pull and query it meanwhile.    *)
(* Each push has a pod of its own; the publication script in it goes on     *)
(* when the client has lost it, until the pod is gone.                      *)
EXTENDS Naturals, FiniteSets

CONSTANTS
  Pushers,   \* users with a local context each
  Readers,   \* users that pull or query
  Contents,  \* contents of a local context
  None,
  Torn,      \* a bundle that is incomplete or was changed on its way
  MaxPushes, \* bound: pushes of a user, and changes of the content
  MaxFaults  \* bound: commands and scripts cut short, changed bundles

ASSUME SyncAssumption ==
  /\ None \notin Contents /\ Torn \notin Contents \cup {None}
  /\ {MaxPushes, MaxFaults} \subseteq Nat

VARIABLES
  local,     \* pusher -> content of the local context
  recorded,  \* pusher -> currentRevision in its manifest, which may be that of an earlier content
  drifted,   \* history: current revisions that were pushed while the content was another
  pc, push,  \* pushers: next step, and what they read
  incoming,  \* pusher -> incoming-<pod>.context on the volume
  script,    \* pusher -> progress of the publication script in the pod
  objects,   \* bundle checksum -> what the object file holds
  current,   \* the file current
  published, \* the current revision of the Context in the service
  index,     \* the config map of the query index, with its resource version
  reader,    \* readers: next step, what they read, what they got
  pushes, faults

context == <<local, recorded, drifted>>
volume == <<incoming, script, objects, current>>
service == <<published, index>>
vars == <<context, pc, push, volume, service, reader, pushes, faults>>

NoPush == [label |-> None, bundle |-> None, records |-> None, version |-> 0]
NoIndex == [revision |-> None, records |-> None, version |-> 0]
NoRead == [step |-> "idle", seen |-> None, got |-> None]

Init ==
  /\ local \in [Pushers -> Contents]
  /\ recorded = [p \in Pushers |-> None] /\ drifted = {}
  /\ pc = [p \in Pushers |-> "idle"] /\ push = [p \in Pushers |-> NoPush]
  /\ incoming = [p \in Pushers |-> None] /\ script = [p \in Pushers |-> "none"]
  /\ objects = [c \in Contents |-> None] /\ current = None
  /\ published = None /\ index = NoIndex
  /\ reader = [q \in Readers |-> NoRead]
  /\ pushes = [p \in Pushers |-> MaxPushes] /\ faults = MaxFaults

Goto(p, step) == pc' = [pc EXCEPT ![p] = step]
Fault == faults > 0 /\ faults' = faults - 1

(* A derivation or a capture changes the content under the revision that    *)
(* was recorded before, and records the new one after it, unless it dies.   *)
Change(p, c) ==
  /\ local[p] # c /\ pushes[p] > 0
  /\ local' = [local EXCEPT ![p] = c]
  /\ pushes' = [pushes EXCEPT ![p] = @ - 1]
  /\ drifted' = IF pc[p] \in {"idle", "manifest", "check", "read", "write"} THEN drifted
                ELSE drifted \cup {push[p].label}
  /\ UNCHANGED <<recorded, pc, push, volume, service, reader, faults>>

Record(p) ==
  /\ recorded[p] # local[p]
  /\ recorded' = [recorded EXCEPT ![p] = local[p]]
  /\ UNCHANGED <<local, drifted, pc, push, volume, service, reader, pushes, faults>>

-----------------------------------------------------------------------------
(* Push. The manifest is read first, then the content is exported. A script *)
(* that is left behind ends before the same user pushes again: two of one   *)
(* user are two of two users.                                               *)
Start(p) ==
  /\ pc[p] = "idle" /\ pushes[p] > 0 /\ script[p] \notin {"move", "point"}
  /\ push' = [push EXCEPT ![p] = NoPush]
  /\ pushes' = [pushes EXCEPT ![p] = @ - 1]
  /\ Goto(p, "manifest")
  /\ UNCHANGED <<context, volume, service, reader, faults>>

\* The first push of a context that has no revision records one, and reads again.
PublishLocal(p) ==
  /\ pc[p] = "manifest" /\ recorded[p] = None
  /\ Record(p)

\* The revision of a manifest is not compared with the content.
ReadManifest(p) ==
  /\ pc[p] = "manifest" /\ recorded[p] # None
  /\ push' = [push EXCEPT ![p].label = recorded[p]]
  /\ drifted' = IF recorded[p] = local[p] THEN drifted ELSE drifted \cup {recorded[p]}
  /\ Goto(p, "export")
  /\ UNCHANGED <<local, recorded, volume, service, reader, pushes, faults>>

Export(p) ==
  /\ pc[p] = "export"
  /\ push' = [push EXCEPT ![p].bundle = local[p]]
  /\ incoming' = [incoming EXCEPT ![p] = None] /\ script' = [script EXCEPT ![p] = "none"]
  /\ Goto(p, "upload")
  /\ UNCHANGED <<context, objects, current, service, reader, pushes, faults>>

\* The handler in the pod writes what arrives; the client sees an error, or not.
Upload(p) ==
  /\ pc[p] = "upload"
  /\ \/ incoming' = [incoming EXCEPT ![p] = push[p].bundle] /\ Goto(p, "verify") /\ UNCHANGED faults
     \/ incoming' = [incoming EXCEPT ![p] = Torn] /\ Goto(p, "verify") /\ Fault
     \/ incoming' = [incoming EXCEPT ![p] = None] /\ Goto(p, "idle") /\ Fault
  /\ UNCHANGED <<context, push, script, objects, current, service, reader, pushes>>

\* Mutant: the checksum of the remote file is not compared.
VerifyNothing(p) ==
  /\ pc[p] = "verify"
  /\ script' = [script EXCEPT ![p] = "move"] /\ Goto(p, "await")
  /\ UNCHANGED <<context, push, incoming, objects, current, service, reader, pushes, faults>>

Verify(p) ==
  /\ pc[p] = "verify"
  /\ \/ /\ incoming[p] = push[p].bundle
        /\ script' = [script EXCEPT ![p] = "move"] /\ Goto(p, "await")
        /\ UNCHANGED incoming
     \/ /\ incoming[p] # push[p].bundle
        /\ incoming' = [incoming EXCEPT ![p] = None] /\ Goto(p, "idle")
        /\ UNCHANGED script
  /\ UNCHANGED <<context, push, objects, current, service, reader, pushes, faults>>

(* The script: mv the bundle to its object, then mv the pointer into place. *)
Move(p) ==
  /\ script[p] = "move"
  /\ objects' = [objects EXCEPT ![push[p].bundle] = incoming[p]]
  /\ incoming' = [incoming EXCEPT ![p] = None]
  /\ script' = [script EXCEPT ![p] = "point"]
  /\ UNCHANGED <<context, pc, push, current, service, reader, pushes, faults>>

Point(p) ==
  /\ script[p] = "point"
  /\ current' = push[p].bundle
  /\ script' = [script EXCEPT ![p] = "done"]
  /\ UNCHANGED <<context, pc, push, incoming, objects, service, reader, pushes, faults>>

\* The pod's deadline, its deletion, or the client's rm -f under the script.
ScriptDies(p) ==
  /\ script[p] \in {"move", "point"} /\ Fault
  /\ script' = [script EXCEPT ![p] = "none"] /\ incoming' = [incoming EXCEPT ![p] = None]
  /\ UNCHANGED <<context, pc, push, objects, current, service, reader, pushes>>

Await(p) ==
  /\ pc[p] = "await"
  /\ \/ script[p] = "done" /\ Goto(p, "publish")
     \/ script[p] = "none" /\ Goto(p, "idle")
  /\ UNCHANGED <<context, push, volume, service, reader, pushes, faults>>

\* The command is killed, a call of it fails, or its reply is lost: the push ends
\* where it is, and what it has written stays.
ClientStops(p) ==
  /\ pc[p] # "idle" /\ Fault
  /\ Goto(p, "idle")
  /\ UNCHANGED <<context, push, volume, service, reader, pushes>>

\* Mutant: the index is published with the records of an earlier push, or none.
PublishUnindexed(p) ==
  /\ pc[p] = "publish"
  /\ published' = push[p].label
  /\ Goto(p, "check")
  /\ UNCHANGED <<context, push, volume, index, reader, pushes, faults>>

(* PublishContextRevision: the annotation is updated.                       *)
Publish(p) ==
  /\ pc[p] = "publish"
  /\ published' = push[p].label
  /\ Goto(p, "records")
  /\ UNCHANGED <<context, push, volume, index, reader, pushes, faults>>

\* QueryRecords reads the local context again; the records get the label.
Records(p) ==
  /\ pc[p] = "records"
  /\ push' = [push EXCEPT ![p].records = local[p]]
  /\ Goto(p, "check")
  /\ UNCHANGED <<context, volume, service, reader, pushes, faults>>

(* PublishContextQueryIndex: the revision is checked, the config map read,  *)
(* and created or updated at the version that was read.                     *)
Check(p) ==
  /\ pc[p] = "check"
  /\ Goto(p, IF push[p].label = published THEN "read" ELSE "idle")
  /\ UNCHANGED <<context, push, volume, service, reader, pushes, faults>>

Read(p) ==
  /\ pc[p] = "read"
  /\ push' = [push EXCEPT ![p].version = index.version]
  /\ Goto(p, "write")
  /\ UNCHANGED <<context, volume, service, reader, pushes, faults>>

Write(p) ==
  /\ pc[p] = "write"
  /\ index' = IF index.version # push[p].version THEN index
              ELSE [revision |-> push[p].label, records |-> push[p].records,
                    version |-> index.version + 1]
  /\ Goto(p, "idle")
  /\ UNCHANGED <<context, push, volume, published, reader, pushes, faults>>

-----------------------------------------------------------------------------
(* Pull: the pointer, then its object, whose checksum must be the pointer.  *)
PullStart(q) ==
  /\ reader[q].step = "idle" /\ current # None
  /\ reader' = [reader EXCEPT ![q] = [NoRead EXCEPT !.step = "pull", !.seen = current]]
  /\ UNCHANGED <<context, pc, push, volume, service, pushes, faults>>

Pull(q) ==
  /\ reader[q].step = "pull"
  /\ reader' = [reader EXCEPT ![q].step = IF objects[reader[q].seen] = reader[q].seen
                                          THEN "pulled" ELSE "refused"]
  /\ UNCHANGED <<context, pc, push, volume, service, pushes, faults>>

(* QueryContexts: the Context with its revision, then its index, which must *)
(* be of that revision; a Context without one is reported as unavailable.   *)
QueryStart(q) ==
  /\ reader[q].step = "idle"
  /\ reader' = [reader EXCEPT ![q] = [NoRead EXCEPT !.step = "query", !.seen = published]]
  /\ UNCHANGED <<context, pc, push, volume, service, pushes, faults>>

\* Mutant: an index of another revision is as good.
QueryAny(q) ==
  /\ reader[q].step = "query"
  /\ reader' = [reader EXCEPT ![q].step = "answered", ![q].got = index.records]
  /\ UNCHANGED <<context, pc, push, volume, service, pushes, faults>>

Query(q) ==
  /\ reader[q].step = "query"
  /\ reader' = [reader EXCEPT ![q].step = "answered",
                              ![q].got = IF index.revision = reader[q].seen
                                         THEN index.records ELSE None]
  /\ UNCHANGED <<context, pc, push, volume, service, pushes, faults>>

ReadEnds(q) ==
  /\ reader[q].step \in {"pulled", "refused", "answered"}
  /\ reader' = [reader EXCEPT ![q] = NoRead]
  /\ UNCHANGED <<context, pc, push, volume, service, pushes, faults>>

-----------------------------------------------------------------------------
Pushing(p) == \/ \E c \in Contents : Change(p, c)
              \/ Record(p) \/ Start(p) \/ PublishLocal(p) \/ ReadManifest(p) \/ Export(p) \/ Upload(p) \/ Verify(p)
              \/ Move(p) \/ Point(p) \/ ScriptDies(p) \/ Await(p) \/ ClientStops(p)
              \/ Publish(p) \/ Records(p) \/ Check(p) \/ Read(p) \/ Write(p)
Reading(q) == PullStart(q) \/ Pull(q) \/ QueryStart(q) \/ Query(q) \/ ReadEnds(q)

Next == (\E p \in Pushers : Pushing(p)) \/ (\E q \in Readers : Reading(q))

Spec == Init /\ [][Next]_vars

-----------------------------------------------------------------------------
MaybeContent == Contents \cup {None}

\* The types of the state; a push has read what its next step needs.
TypeOK ==
  /\ local \in [Pushers -> Contents] /\ recorded \in [Pushers -> MaybeContent]
  /\ drifted \subseteq Contents
  /\ \A p \in Pushers :
       /\ pc[p] \in {"idle", "manifest", "export", "upload", "verify", "await", "publish", "records",
                     "check", "read", "write"}
       /\ pc[p] \notin {"idle", "manifest", "export"} => push[p].bundle \in Contents
       /\ pc[p] \in {"check", "read", "write"} => push[p].records \in Contents
       /\ script[p] \in {"none", "move", "point", "done"}
       /\ script[p] = "move" => incoming[p] # None
  /\ objects \in [Contents -> MaybeContent \cup {Torn}]
  /\ {current, published, index.revision, index.records} \subseteq MaybeContent
  /\ index.version <= MaxPushes * Cardinality(Pushers)
  /\ faults \in 0..MaxFaults

\* The pointer of the volume names a complete object whose checksum is its name
\* (Push verifies in place, then moves the object before the pointer), whatever
\* replies were lost and scripts went on or died; so no pull of what it names
\* is refused.
PointerComplete ==
  /\ current # None => objects[current] = current
  /\ \A q \in Readers : reader[q].step # "refused"

\* Records in an answer were made from the revision that was current when the
\* query read the Context; an index that a slower push wrote late is never used
\* for another revision (QueryContexts, PublishContextQueryIndex). Only a revision
\* that was pushed while the content was another has answers of another: the
\* content changed during the push, or a derivation died before it was recorded.
AnswersAreCurrent ==
  \A q \in Readers : LET r == reader[q] IN
    r.got # None => r.got = r.seen \/ r.seen \in drifted
=============================================================================
