---------------------------- MODULE BackupWorker ----------------------------
(* The backup of one local Context: the commands that start and stop it, the *)
(* worker processes with their lock directory and status file, and the push  *)
(* to S3 (cmd/contextctl/backup.go, internal/contextbackup/state.go and Push *)
(* in internal/contextsync/s3.go). When a worker runs is BackupSchedule's;   *)
(* here it may attempt a backup at any time. A process advances by one file  *)
(* operation or one S3 call at a time and may be killed between two.         *)
EXTENDS Integers, FiniteSets

CONSTANTS
  Commands,   \* terminals in which backup commands are typed
  Workers,    \* worker processes ever started, each with its pid
  Targets,    \* S3 locations
  None,       \* no process, no target
  MaxContent, \* bound: revisions the local content goes through
  MaxFaults,  \* bound: calls that fail and edits that go back
  Sequential, \* each command waits until those before it have settled
  Ops,        \* what users do in this instance
  Faults      \* the failures this instance allows

AllOps == {"start", "run", "stop"}
AllFaults == {"kill", "push", "corrupt", "back"}

ASSUME WorkerAssumption ==
  /\ None \notin Commands \cup Workers \cup Targets
  /\ MaxContent \in Nat \ {0} /\ MaxFaults \in Nat /\ Sequential \in BOOLEAN
  /\ Ops \subseteq AllOps /\ Faults \subseteq AllFaults

VARIABLES
  content, \* the revision of the local content
  lock,    \* .backup/worker.lock exists
  config,  \* .backup/config.json: the target
  status,  \* .backup/status.json
  objects, \* per target and revision: the bundle stored under its digest
  current, \* per target: the revision the current pointer names, 0 for none
  cmd,     \* the commands
  pc, wk,  \* the workers
  faults   \* failures so far

vars == <<content, lock, config, status, objects, current, cmd, pc, wk, faults>>
files == <<lock, config, status>>
remote == <<objects, current>>

-----------------------------------------------------------------------------
Contents == 1..MaxContent
AllRevisions == 0..MaxContent
OptTarget == Targets \cup {None}
OptWorker == Workers \cup {None}
Statuses == [pid : OptWorker, revision : AllRevisions, failed : BOOLEAN, target : OptTarget]
PCs == {"new", "config", "mkdir", "takeover", "remove", "mkdir_again", "load", "record", "loop",
        "export", "put", "verify", "point", "save", "unrecord", "unlock", "dead"}
Looping == {"loop", "export", "put", "verify", "point", "save"}
Transferring == {"put", "verify", "point"}

\* target is a history: what the last recorded success was for.
NoStatus == [pid |-> None, revision |-> 0, failed |-> FALSE, target |-> None]
NewWorker == [target |-> None, status |-> NoStatus, revision |-> 0, bundle |-> 0,
              interrupted |-> FALSE]
NoCommand == [at |-> "idle", target |-> None, pid |-> None]

TypeOK ==
  /\ content \in Contents /\ lock \in BOOLEAN /\ config \in OptTarget
  /\ status \in Statuses
  /\ objects \in [Targets -> [Contents -> {"none", "good", "bad"}]]
  /\ current \in [Targets -> AllRevisions]
  /\ cmd \in [Commands -> [at : {"idle", "check", "unlock", "save", "spawn", "signal"},
                           target : OptTarget, pid : OptWorker]]
  /\ pc \in [Workers -> PCs]
  /\ wk \in [Workers -> [target : OptTarget, status : Statuses, revision : AllRevisions,
                         bundle : AllRevisions, interrupted : BOOLEAN]]
  /\ faults \in 0..MaxFaults

Init ==
  /\ content = 1 /\ lock = FALSE /\ config = None /\ status = NoStatus
  /\ objects = [t \in Targets |-> [r \in Contents |-> "none"]]
  /\ current = [t \in Targets |-> 0]
  /\ cmd = [k \in Commands |-> NoCommand]
  /\ pc = [p \in Workers |-> "new"] /\ wk = [p \in Workers |-> NewWorker]
  /\ faults = 0

Goto(p, label) == pc' = [pc EXCEPT ![p] = label]
Gone(p) == Goto(p, "dead") /\ wk' = [wk EXCEPT ![p] = NewWorker]
Fault(kind) == kind \in Faults /\ faults < MaxFaults /\ faults' = faults + 1

\* processRunning.
Running(pid) == pid # None /\ pc[pid] \notin {"new", "dead"}

\* No command is under way and every worker is in its loop or gone.
Settled ==
  /\ \A k \in Commands : cmd[k].at = "idle"
  /\ \A p \in Workers : pc[p] \in Looping \cup {"new", "dead"} /\ ~wk[p].interrupted

-----------------------------------------------------------------------------
(* Harness hooks and users change the content; with "back" also to what it  *)
(* was before.                                                              *)
Edit ==
  /\ \/ content < MaxContent /\ content' = content + 1 /\ UNCHANGED faults
     \/ Fault("back") /\ content > 1 /\ content' = content - 1
  /\ UNCHANGED <<files, remote, cmd, pc, wk>>

-----------------------------------------------------------------------------
(* startBackup, stopBackup and a foreground "backup run".                   *)
Begin(k, op, next) ==
  /\ op \in Ops /\ cmd[k].at = "idle" /\ (Sequential => Settled)
  /\ cmd' = [cmd EXCEPT ![k] = next]

StartBegin(k, t) ==
  /\ Begin(k, "start", [NoCommand EXCEPT !.at = "check", !.target = t])
  /\ UNCHANGED <<content, files, remote, pc, wk, faults>>

StartCheck(k) ==
  /\ cmd[k].at = "check"
  /\ cmd' = [cmd EXCEPT ![k] = IF Running(status.pid) THEN NoCommand ELSE [@ EXCEPT !.at = "unlock"]]
  /\ UNCHANGED <<content, files, remote, pc, wk, faults>>

\* Whoever holds it.
StartUnlock(k) ==
  /\ cmd[k].at = "unlock"
  /\ lock' = FALSE
  /\ cmd' = [cmd EXCEPT ![k].at = "save"]
  /\ UNCHANGED <<content, config, status, remote, pc, wk, faults>>

StartSave(k) ==
  /\ cmd[k].at = "save"
  /\ config' = cmd[k].target
  /\ cmd' = [cmd EXCEPT ![k].at = "spawn"]
  /\ UNCHANGED <<content, lock, status, remote, pc, wk, faults>>

StartSpawn(k) ==
  /\ cmd[k].at = "spawn"
  /\ \E p \in Workers : pc[p] = "new" /\ Goto(p, "config")
  /\ cmd' = [cmd EXCEPT ![k] = NoCommand]
  /\ UNCHANGED <<content, files, remote, wk, faults>>

RunBegin(k) ==
  /\ Begin(k, "run", NoCommand)
  /\ config # None
  /\ \E p \in Workers : pc[p] = "new" /\ Goto(p, "config")
  /\ UNCHANGED <<content, files, remote, wk, faults>>

StopRead(k) ==
  /\ Running(status.pid)
  /\ Begin(k, "stop", [NoCommand EXCEPT !.at = "signal", !.pid = status.pid])
  /\ UNCHANGED <<content, files, remote, pc, wk, faults>>

\* Before NotifyContext an interrupt kills the process.
StopSignal(k) ==
  /\ cmd[k].at = "signal"
  /\ LET p == cmd[k].pid
         listening == pc[p] \in Looping
         stopping == pc[p] \in {"unrecord", "unlock", "dead"}
     IN  \/ listening /\ wk' = [wk EXCEPT ![p].interrupted = TRUE] /\ UNCHANGED pc
         \/ ~listening /\ ~stopping /\ Gone(p)
         \/ stopping /\ UNCHANGED <<pc, wk>>
  /\ cmd' = [cmd EXCEPT ![k] = NoCommand]
  /\ UNCHANGED <<content, files, remote, faults>>

-----------------------------------------------------------------------------
(* runBackup up to its loop.                                                *)
WorkerConfig(p) ==
  /\ pc[p] = "config"
  /\ wk' = [wk EXCEPT ![p].target = config]
  /\ Goto(p, "mkdir")
  /\ UNCHANGED <<content, files, remote, cmd, faults>>

WorkerMkdir(p) ==
  /\ pc[p] = "mkdir"
  /\ lock' = TRUE
  /\ Goto(p, IF lock THEN "takeover" ELSE "load")
  /\ UNCHANGED <<content, config, status, remote, cmd, wk, faults>>

\* Mutant: a lock that is there is always stale.
WorkerTakeoverAlways(p) ==
  /\ pc[p] = "takeover"
  /\ Goto(p, "remove")
  /\ UNCHANGED <<content, files, remote, cmd, wk, faults>>

WorkerTakeover(p) ==
  /\ pc[p] = "takeover"
  /\ \/ Running(status.pid) /\ Gone(p)
     \/ ~Running(status.pid) /\ Goto(p, "remove") /\ UNCHANGED wk
  /\ UNCHANGED <<content, files, remote, cmd, faults>>

WorkerRemove(p) ==
  /\ pc[p] = "remove"
  /\ lock' = FALSE
  /\ \/ lock /\ Goto(p, "mkdir_again") /\ UNCHANGED wk
     \/ ~lock /\ Gone(p)
  /\ UNCHANGED <<content, config, status, remote, cmd, faults>>

WorkerMkdirAgain(p) ==
  /\ pc[p] = "mkdir_again"
  /\ lock' = TRUE
  /\ \/ lock /\ Gone(p)
     \/ ~lock /\ Goto(p, "load") /\ UNCHANGED wk
  /\ UNCHANGED <<content, config, status, remote, cmd, faults>>

WorkerLoad(p) ==
  /\ pc[p] = "load"
  /\ wk' = [wk EXCEPT ![p].status = [status EXCEPT !.pid = p]]
  /\ Goto(p, "record")
  /\ UNCHANGED <<content, files, remote, cmd, faults>>

WorkerRecord(p) ==
  /\ pc[p] = "record"
  /\ status' = wk[p].status
  /\ Goto(p, "loop")
  /\ UNCHANGED <<content, lock, config, remote, cmd, wk, faults>>

-----------------------------------------------------------------------------
(* backupAttempt and the push.                                              *)
\* Mutant: a failed attempt records the revision too.
FailedRecorded(p) ==
  [wk EXCEPT ![p].status.failed = FALSE, ![p].status.revision = wk[p].revision,
             ![p].status.target = wk[p].target]

Failed(p) == [wk EXCEPT ![p].status.failed = TRUE]

\* Mutant: the status of a success is written without the pid.
SucceededWithBundle(p, revision) ==
  [wk EXCEPT ![p].status = [failed |-> FALSE, revision |-> revision, target |-> wk[p].target]]

\* The revision read before the push, whatever was pushed.
Succeeded(p, revision) ==
  [wk EXCEPT ![p].status.failed = FALSE, ![p].status.revision = revision,
             ![p].status.target = wk[p].target, ![p].revision = revision]

Attempt(p) ==
  /\ pc[p] = "loop"
  /\ \/ /\ content = wk[p].status.revision /\ UNCHANGED faults
        /\ Goto(p, "save") /\ wk' = Succeeded(p, content)
     \/ /\ content # wk[p].status.revision /\ UNCHANGED faults
        /\ Goto(p, "export") /\ wk' = [wk EXCEPT ![p].revision = content]
     \/ Fault("push") /\ Goto(p, "save") /\ wk' = Failed(p)
  /\ UNCHANGED <<content, files, remote, cmd>>

\* Export takes the capture lock again: the content may be newer now.
Export(p) ==
  /\ pc[p] = "export"
  /\ \/ Goto(p, "put") /\ wk' = [wk EXCEPT ![p].bundle = content] /\ UNCHANGED faults
     \/ Fault("push") /\ Goto(p, "save") /\ wk' = Failed(p)
  /\ UNCHANGED <<content, files, remote, cmd>>

\* An interrupt cancels the context of the call, or the call fails.
CallFails(p) ==
  \/ wk[p].interrupted /\ UNCHANGED faults
  \/ Fault("push")

Stored(p, state) == [objects EXCEPT ![wk[p].target][wk[p].bundle] = state]

PushPut(p) ==
  /\ pc[p] = "put"
  /\ \/ /\ ~wk[p].interrupted /\ Goto(p, "verify") /\ UNCHANGED wk
        /\ \/ objects' = Stored(p, "good") /\ UNCHANGED faults
           \/ objects' = Stored(p, "bad") /\ Fault("corrupt")
     \/ /\ CallFails(p) /\ Goto(p, "save") /\ wk' = Failed(p)
        /\ objects' \in {objects, Stored(p, "good")}
  /\ UNCHANGED <<content, files, current, cmd>>

\* Mutant: the object is not read back.
PushVerifyNot(p) ==
  /\ pc[p] = "verify"
  /\ Goto(p, "point")
  /\ UNCHANGED <<content, files, remote, cmd, wk, faults>>

PushVerify(p) ==
  /\ pc[p] = "verify"
  /\ \/ /\ ~wk[p].interrupted /\ objects[wk[p].target][wk[p].bundle] = "good"
        /\ Goto(p, "point") /\ UNCHANGED <<wk, faults>>
     \/ /\ \/ objects[wk[p].target][wk[p].bundle] # "good" /\ UNCHANGED faults
           \/ CallFails(p)
        /\ Goto(p, "save") /\ wk' = Failed(p)
  /\ UNCHANGED <<content, files, remote, cmd>>

PushPoint(p) ==
  /\ pc[p] = "point"
  /\ LET moved == [current EXCEPT ![wk[p].target] = wk[p].bundle]
     IN  \/ /\ ~wk[p].interrupted /\ current' = moved
            /\ wk' = Succeeded(p, wk[p].revision) /\ UNCHANGED faults
         \/ CallFails(p) /\ current' \in {current, moved} /\ wk' = Failed(p)
  /\ Goto(p, "save")
  /\ UNCHANGED <<content, files, objects, cmd>>

WorkerSave(p) ==
  /\ pc[p] = "save"
  /\ status' = wk[p].status
  /\ Goto(p, "loop") /\ wk' = [wk EXCEPT ![p].revision = 0, ![p].bundle = 0]
  /\ UNCHANGED <<content, lock, config, remote, cmd, faults>>

-----------------------------------------------------------------------------
(* The end of runBackup: its deferred calls, last first.                    *)
WorkerStops(p) ==
  /\ pc[p] = "loop" /\ wk[p].interrupted
  /\ wk' = [wk EXCEPT ![p].status.pid = None]
  /\ Goto(p, "unrecord")
  /\ UNCHANGED <<content, files, remote, cmd, faults>>

WorkerUnrecord(p) ==
  /\ pc[p] = "unrecord"
  /\ status' = wk[p].status
  /\ Goto(p, "unlock")
  /\ UNCHANGED <<content, lock, config, remote, cmd, wk, faults>>

WorkerUnlock(p) ==
  /\ pc[p] = "unlock"
  /\ lock' = FALSE
  /\ Gone(p)
  /\ UNCHANGED <<content, config, status, remote, cmd, faults>>

Kill(p) ==
  /\ Running(p) /\ Fault("kill")
  /\ Gone(p)
  /\ UNCHANGED <<content, files, remote, cmd>>

-----------------------------------------------------------------------------
CommandStep(k) == StartCheck(k) \/ StartUnlock(k) \/ StartSave(k) \/ StartSpawn(k) \/ StopSignal(k)

WorkerStep(p) ==
  \/ WorkerConfig(p) \/ WorkerMkdir(p) \/ WorkerTakeover(p) \/ WorkerRemove(p)
  \/ WorkerMkdirAgain(p) \/ WorkerLoad(p) \/ WorkerRecord(p)
  \/ Attempt(p) \/ Export(p) \/ PushPut(p) \/ PushVerify(p) \/ PushPoint(p) \/ WorkerSave(p)
  \/ WorkerStops(p) \/ WorkerUnrecord(p) \/ WorkerUnlock(p)

Next ==
  \/ Edit
  \/ \E k \in Commands : (\E t \in Targets : StartBegin(k, t)) \/ RunBegin(k) \/ StopRead(k) \/ CommandStep(k)
  \/ \E p \in Workers : WorkerStep(p) \/ Kill(p)

Spec == Init /\ [][Next]_vars

\* The system runs every process, and the ticker of a worker never stops.
FairSpec ==
  /\ Spec
  /\ \A k \in Commands : WF_vars(CommandStep(k))
  /\ \A p \in Workers : WF_vars(WorkerStep(p))

-----------------------------------------------------------------------------
(* Properties.                                                              *)

(* docs/context-backup.md: transfers for one Context never overlap.         *)
TransfersNeverOverlap == Cardinality({p \in Workers : pc[p] \in Transferring}) <= 1

(* While the content only moves on, so does the remote copy: no push, retry *)
(* or restarted worker brings an older revision back.                       *)
RemoteNeverGoesBack == [][\A t \in Targets : current'[t] >= current[t]]_current

(* docs/context-portability.md: current is replaced only after the object   *)
(* it names was uploaded and verified.                                      *)
PointerMovesToVerified ==
  [][\A t \in Targets : current'[t] # current[t] => objects[t][current'[t]] = "good"]_current

(* docs/context-backup.md: the status tells the last revision that was      *)
(* backed up. When it says that the content is, and the worker has looked   *)
(* since, the configured target has it.                                     *)
StatusIsStored ==
  status.revision = content /\ ~status.failed /\ status.target = config => current[config] = content

(* Once the content no longer changes and calls no longer fail, the target  *)
(* of a worker that is left running comes to hold the content and keeps it. *)
BackedUp ==
  \A p \in Workers, t \in Targets :
    <>[](pc[p] \in Looping /\ ~wk[p].interrupted /\ wk[p].target = t => current[t] = content)
=============================================================================
