------------------------- MODULE BackupWorkerProofs -------------------------
(* The inductive invariant of BackupWorker and what follows from it, for    *)
(* every number of commands, worker processes, S3 locations, revisions and  *)
(* faults. The lock directory and the pid in the status file keep workers   *)
(* apart when each command waits until those before it have settled         *)
(* (Sequential).                                                            *)
EXTENDS BackupWorker, FiniteSetTheorems, TLAPS

-----------------------------------------------------------------------------
(* The strengthening.                                                       *)

Ending == {"unrecord", "unlock"}
Absent == {"new", "dead"}
Starting == {"config", "mkdir", "takeover"} \cup {"remove", "mkdir_again", "load", "record"}
\* From here a worker has found out that no other one runs.
Owning == {"remove", "mkdir_again", "load", "record"} \cup Looping \cup Ending

CommandRecords == [at : {"idle", "check", "unlock", "save", "spawn", "signal"},
                   target : OptTarget, pid : OptWorker]
WorkerRecords == [target : OptTarget, status : Statuses, revision : AllRevisions,
                  bundle : AllRevisions, interrupted : BOOLEAN]

\* A revision in a status was backed up somewhere.
StatusOK(s) == s.revision # 0 => s.target # None

\* What a command knows at each step.
CommandAt(c) ==
  /\ c \in CommandRecords
  /\ c.at \in {"check", "unlock", "save"} => c.target # None
  /\ c.at = "signal" => c.pid # None
CommandsOK == cmd \in [Commands -> CommandRecords] /\ \A k \in Commands : CommandAt(cmd[k])

\* What a worker knows at each step.
WorkerAt(p, label, w) ==
  /\ label \in PCs /\ w \in WorkerRecords
  /\ StatusOK(w.status)
  /\ label \in Absent => w = NewWorker
  /\ label \notin Absent \cup {"config"} => w.target # None
  /\ label \in {"record"} \cup Looping => w.status.pid = p
  /\ label \in Transferring => w.bundle \in Contents
  /\ label \in Ending => w.interrupted
  /\ w.interrupted => label \in Looping \cup Ending
WorkersOK ==
  /\ pc \in [Workers -> PCs] /\ wk \in [Workers -> WorkerRecords]
  /\ \A p \in Workers : WorkerAt(p, pc[p], wk[p])

FilesOK ==
  /\ content \in Contents /\ lock \in BOOLEAN /\ config \in OptTarget
  /\ status \in Statuses /\ StatusOK(status)
RemoteOK ==
  /\ objects \in [Targets -> [Contents -> {"none", "good", "bad"}]]
  /\ current \in [Targets -> AllRevisions]
\* A worker is only started when there is a target.
Configured ==
  /\ \A k \in Commands : cmd[k].at = "spawn" => config # None
  /\ \A p \in Workers : pc[p] \notin Absent => config # None

Quiet == \A p \in Workers : pc[p] \in Looping \cup Absent /\ ~wk[p].interrupted

\* One command at a time, and none while a worker starts or ends; a start that
\* has found no worker keeps it so.
CommandsApart ==
  /\ \A j, k \in Commands : cmd[j].at # "idle" /\ cmd[k].at # "idle" => j = k
  /\ \A k \in Commands :
       /\ cmd[k].at # "idle" => Quiet
       /\ cmd[k].at \in {"unlock", "save", "spawn"} => \A p \in Workers : pc[p] \in Absent
  /\ \A p \in Workers : pc[p] \in Starting =>
       \A q \in Workers : (q # p => pc[q] \in Looping \cup Absent) /\ ~wk[q].interrupted

\* The lock directory and the status file tell of the worker that owns them.
OneOwner ==
  /\ \A p, q \in Workers : pc[p] \in Owning /\ pc[q] \in Owning => p = q
  /\ \A p \in Workers :
       /\ pc[p] \in {"takeover", "remove", "load", "record"} \cup Looping \cup Ending => lock
       /\ pc[p] = "mkdir_again" => ~lock
       /\ pc[p] \in Looping => status.pid = p

\* A pointer is moved to an object that was verified and not written since.
Verified == \A p \in Workers : pc[p] = "point" => objects[wk[p].target][wk[p].bundle] = "good"

\* While the content only moves on, nothing in flight is older than the remote copy.
Forward == "back" \notin Faults
InFlight ==
  /\ \A t \in Targets : current[t] <= content
  /\ \A p \in Workers :
       /\ wk[p].revision <= content
       /\ pc[p] \in Transferring =>
            /\ wk[p].revision <= wk[p].bundle /\ wk[p].bundle <= content
            /\ current[wk[p].target] <= wk[p].bundle

\* A status tells of a revision that reached the only target.
OnlyTarget == \A t, u \in Targets : t = u
StoredOK ==
  \A t \in Targets :
    /\ status.revision <= current[t]
    /\ \A p \in Workers : wk[p].status.revision <= current[t]

BaseInv == FilesOK /\ RemoteOK /\ CommandsOK /\ WorkersOK /\ Configured /\ faults \in 0..MaxFaults
ApartInv == CommandsApart /\ OneOwner /\ Verified
IInv ==
  /\ BaseInv
  /\ Sequential => ApartInv
  /\ Sequential /\ Forward => InFlight
  /\ Sequential /\ Forward /\ OnlyTarget => StoredOK

-----------------------------------------------------------------------------
(* Files, commands and workers by themselves.                               *)

\* The sets that the steps below take their values from.
LEMMA RecordFacts ==
  /\ 1 \in Contents /\ Contents \subseteq AllRevisions /\ 0 \in AllRevisions
  /\ NoStatus \in Statuses /\ NewWorker \in WorkerRecords /\ NoCommand \in CommandRecords
  /\ NewWorker.interrupted = FALSE /\ NewWorker.status = NoStatus /\ CommandAt(NoCommand)
  /\ NewWorker.revision = 0 /\ NewWorker.status.revision = 0 /\ NoCommand.at = "idle"
  BY WorkerAssumption DEF Contents, AllRevisions, NoStatus, NewWorker, NoCommand, Statuses,
     OptTarget, OptWorker, WorkerRecords, CommandRecords, CommandAt

\* A step that moves one worker to a place it fits keeps all workers well formed.
LEMMA WorkerFrame ==
  ASSUME WorkersOK, NEW p \in Workers, NEW label, NEW w, WorkerAt(p, label, w),
         pc' = [pc EXCEPT ![p] = label], wk' = [wk EXCEPT ![p] = w]
  PROVE  WorkersOK'
  <1>1. label \in PCs /\ w \in WorkerRecords
    BY DEF WorkerAt
  <1>2. pc' \in [Workers -> PCs] /\ wk' \in [Workers -> WorkerRecords]
    BY <1>1 DEF WorkersOK
  <1>3. ASSUME NEW q \in Workers PROVE WorkerAt(q, pc'[q], wk'[q])
    BY DEF WorkersOK
  <1> QED BY <1>2, <1>3 DEF WorkersOK

\* Moving a worker to a label that what it knows fits keeps them well formed.
LEMMA GotoOK ==
  ASSUME WorkersOK, NEW p \in Workers, NEW label, WorkerAt(p, label, wk[p]),
         Goto(p, label), UNCHANGED wk
  PROVE  WorkersOK'
  <1>1. wk' = [wk EXCEPT ![p] = wk[p]]
    BY DEF WorkersOK
  <1> QED BY <1>1, WorkerFrame DEF Goto

\* A worker that is gone is well formed.
LEMMA GoneOK ==
  ASSUME WorkersOK, NEW p \in Workers, Gone(p)
  PROVE  WorkersOK'
  <1>1. WorkerAt(p, "dead", NewWorker)
    BY RecordFacts DEF WorkerAt, PCs, Absent, Looping, Transferring, Ending, StatusOK, NoStatus
  <1> QED BY <1>1, WorkerFrame DEF Gone, Goto

\* An attempt that failed: only the status changes.
LEMMA FailedOK ==
  ASSUME WorkersOK, NEW p \in Workers, pc[p] \in Looping, Goto(p, "save"), wk' = Failed(p)
  PROVE  WorkersOK'
  <1> DEFINE w == [wk[p] EXCEPT !.status.failed = TRUE]
  <1>1. w \in WorkerRecords /\ w.target = wk[p].target /\ w.status.pid = wk[p].status.pid
        /\ w.interrupted = wk[p].interrupted /\ StatusOK(w.status)
    BY DEF WorkersOK, WorkerRecords, Statuses, WorkerAt, StatusOK
  <1>2. WorkerAt(p, "save", w)
    BY <1>1 DEF WorkersOK, WorkerAt, PCs, Absent, Looping, Transferring, Ending
  <1>3. wk' = [wk EXCEPT ![p] = w]
    BY DEF Failed, WorkersOK
  <1> QED BY <1>2, <1>3, WorkerFrame DEF Goto

\* An attempt that succeeded.
LEMMA SucceededOK ==
  ASSUME WorkersOK, NEW p \in Workers, pc[p] \in Looping, NEW revision \in AllRevisions,
         Goto(p, "save"), wk' = Succeeded(p, revision)
  PROVE  WorkersOK'
  <1> DEFINE u == [wk[p] EXCEPT !.status.failed = FALSE]
             v == [u EXCEPT !.status.revision = revision]
             x == [v EXCEPT !.status.target = wk[p].target]
             w == [x EXCEPT !.revision = revision]
             Same(y) == /\ y \in WorkerRecords /\ y.target = wk[p].target
                        /\ y.status.pid = wk[p].status.pid /\ y.interrupted = wk[p].interrupted
  <1>1. Same(u)
    BY DEF WorkersOK, WorkerRecords, Statuses
  <1> HIDE DEF u
  <1>2. Same(v)
    BY <1>1 DEF WorkerRecords, Statuses
  <1> HIDE DEF v
  <1>3. Same(x)
    BY <1>1, <1>2 DEF WorkerRecords, Statuses
  <1> HIDE DEF x
  <1>4. Same(w) /\ StatusOK(w.status)
    <2>1. wk[p].target # None
      BY DEF WorkersOK, WorkerAt, Looping, Absent
    <2> QED BY <1>3, <2>1 DEF WorkerRecords, x, Statuses, StatusOK
  <1> USE DEF u, v, x
  <1>5. WorkerAt(p, "save", w)
    BY <1>4 DEF WorkersOK, WorkerAt, PCs, Absent, Looping, Transferring, Ending
  <1>6. wk' = [wk EXCEPT ![p] = w]
    BY DEF Succeeded, WorkersOK
  <1> QED BY <1>5, <1>6, WorkerFrame DEF Goto

\* The commands leave the workers well formed.
LEMMA CommandsKeepWorkers ==
  ASSUME BaseInv, NEW k \in Commands,
         \/ \E t \in Targets : StartBegin(k, t)
         \/ RunBegin(k) \/ StopRead(k) \/ CommandStep(k)
  PROVE  WorkersOK'
  <1>1. WorkersOK
    BY DEF BaseInv
  <1>2. CASE UNCHANGED <<pc, wk>>
    BY <1>1, <1>2 DEF WorkersOK
  <1>3. ASSUME NEW p \in Workers, pc[p] = "new", Goto(p, "config"), UNCHANGED wk
        PROVE  WorkersOK'
    BY <1>1, <1>3, GotoOK, RecordFacts DEF WorkersOK, WorkerAt, PCs, Absent, Looping, Transferring,
       Ending
  <1>4. CASE StopSignal(k)
    <2> DEFINE p == cmd[k].pid
               w == [wk[p] EXCEPT !.interrupted = TRUE]
    <2>1. p \in Workers
      BY <1>4 DEF BaseInv, CommandsOK, CommandAt, CommandRecords, OptWorker, StopSignal
    <2>2. CASE pc[p] \in Looping /\ wk' = [wk EXCEPT ![p].interrupted = TRUE] /\ UNCHANGED pc
      <3>1. w \in WorkerRecords /\ w.target = wk[p].target /\ w.status = wk[p].status
            /\ w.bundle = wk[p].bundle
        BY <1>1, <2>1 DEF WorkersOK, WorkerRecords
      <3>2. WorkerAt(p, pc[p], w)
        BY <1>1, <2>1, <2>2, <3>1 DEF WorkersOK, WorkerAt, PCs, Absent, Looping, Transferring,
           Ending
      <3>3. wk' = [wk EXCEPT ![p] = w] /\ pc' = [pc EXCEPT ![p] = pc[p]]
        BY <1>1, <2>1, <2>2 DEF WorkersOK
      <3> QED BY <1>1, <2>1, <3>2, <3>3, WorkerFrame
    <2> QED BY <1>1, <1>2, <1>4, <2>1, <2>2, GoneOK DEF StopSignal
  <1>5. CASE StartSpawn(k) \/ RunBegin(k)
    BY <1>3, <1>5 DEF StartSpawn, RunBegin
  <1> QED BY <1>2, <1>4, <1>5 DEF StartBegin, StopRead, CommandStep, StartCheck, StartUnlock,
             StartSave

\* Every step of a worker leaves the workers well formed.
LEMMA WorkerStepsKeepWorkers ==
  ASSUME BaseInv, NEW p \in Workers, WorkerStep(p) \/ Kill(p)
  PROVE  WorkersOK'
  <1> DEFINE w == wk[p]
  <1>1. WorkersOK /\ FilesOK /\ w \in WorkerRecords /\ WorkerAt(p, pc[p], w)
    BY DEF BaseInv, WorkersOK
  <1>2. ASSUME NEW label, NEW v, WorkerAt(p, label, v), Goto(p, label), wk' = [wk EXCEPT ![p] = v]
        PROVE  WorkersOK'
    BY <1>1, <1>2, WorkerFrame DEF Goto
  <1> USE DEF PCs, Absent, Looping, Transferring, Ending
  <1>3. CASE WorkerConfig(p)
    <2> DEFINE v == [w EXCEPT !.target = config]
    <2>1. v \in WorkerRecords /\ v.target = config /\ v.status = w.status /\ v.interrupted = w.interrupted
      BY <1>1 DEF FilesOK, WorkerRecords
    <2>2. config # None
      BY <1>3 DEF WorkerConfig, BaseInv, Configured
    <2>3. WorkerAt(p, "mkdir", v)
      BY <1>1, <1>3, <2>1, <2>2 DEF WorkerConfig, WorkerAt
    <2>4. wk' = [wk EXCEPT ![p] = v]
      BY <1>1, <1>3 DEF WorkersOK, WorkerConfig
    <2> QED BY <1>2, <1>3, <2>3, <2>4 DEF WorkerConfig
  <1>4. CASE WorkerMkdir(p)
    BY <1>1, <1>4, GotoOK, GoneOK DEF WorkerMkdir, WorkerAt
  <1>5. CASE WorkerTakeover(p)
    BY <1>1, <1>5, GotoOK, GoneOK DEF WorkerTakeover, WorkerAt
  <1>6. CASE WorkerRemove(p)
    BY <1>1, <1>6, GotoOK, GoneOK DEF WorkerRemove, WorkerAt
  <1>7. CASE WorkerMkdirAgain(p)
    BY <1>1, <1>7, GotoOK, GoneOK DEF WorkerMkdirAgain, WorkerAt
  <1>8. CASE WorkerLoad(p)
    <2> DEFINE v == [w EXCEPT !.status = [status EXCEPT !.pid = p]]
    <2>1. v \in WorkerRecords /\ v.target = w.target /\ v.status.pid = p /\ v.interrupted = w.interrupted
          /\ StatusOK(v.status)
      BY <1>1 DEF FilesOK, WorkerRecords, WorkerAt, StatusOK, Statuses, OptWorker, AllRevisions,
         Contents
    <2>2. WorkerAt(p, "record", v)
      BY <1>1, <1>8, <2>1 DEF WorkerLoad, WorkerAt
    <2>3. wk' = [wk EXCEPT ![p] = v]
      BY <1>1, <1>8 DEF WorkersOK, WorkerLoad
    <2> QED BY <1>2, <1>8, <2>2, <2>3 DEF WorkerLoad
  <1>9. CASE WorkerRecord(p)
    BY <1>1, <1>9, GotoOK DEF WorkerRecord, WorkerAt
  <1>10. CASE Attempt(p)
    <2> DEFINE v == [w EXCEPT !.revision = content]
    <2>1. content \in AllRevisions
      BY <1>1, RecordFacts DEF FilesOK
    <2>2. CASE Goto(p, "export") /\ wk' = [wk EXCEPT ![p].revision = content]
      <3>1. v \in WorkerRecords /\ v.target = w.target /\ v.status = w.status
            /\ v.interrupted = w.interrupted
        BY <1>1, <2>1 DEF WorkerRecords
      <3>2. WorkerAt(p, "export", v)
        BY <1>1, <1>10, <3>1 DEF Attempt, WorkerAt
      <3>3. wk' = [wk EXCEPT ![p] = v]
        BY <1>1, <2>2 DEF WorkersOK
      <3> QED BY <1>2, <2>2, <3>2, <3>3
    <2> QED BY <1>1, <1>10, <2>1, <2>2, SucceededOK, FailedOK DEF Attempt
  <1>11. CASE Export(p)
    <2> DEFINE v == [w EXCEPT !.bundle = content]
    <2>1. content \in Contents /\ content \in AllRevisions
      BY <1>1, RecordFacts DEF FilesOK
    <2>2. CASE Goto(p, "put") /\ wk' = [wk EXCEPT ![p].bundle = content]
      <3>1. v \in WorkerRecords /\ v.target = w.target /\ v.status = w.status /\ v.bundle = content
            /\ v.interrupted = w.interrupted
        BY <1>1, <2>1 DEF WorkerRecords
      <3>2. WorkerAt(p, "put", v)
        BY <1>1, <1>11, <2>1, <3>1 DEF Export, WorkerAt
      <3>3. wk' = [wk EXCEPT ![p] = v]
        BY <1>1, <2>2 DEF WorkersOK
      <3> QED BY <1>2, <2>2, <3>2, <3>3
    <2> QED BY <1>1, <1>11, <2>2, FailedOK DEF Export
  <1>12. CASE PushPut(p)
    BY <1>1, <1>12, GotoOK, FailedOK DEF PushPut, WorkerAt
  <1>13. CASE PushVerify(p)
    BY <1>1, <1>13, GotoOK, FailedOK DEF PushVerify, WorkerAt
  <1>14. CASE PushPoint(p)
    <2>1. w.revision \in AllRevisions
      BY <1>1 DEF WorkerRecords
    <2> QED BY <1>1, <1>14, <2>1, SucceededOK, FailedOK DEF PushPoint
  <1>15. CASE WorkerSave(p)
    <2> DEFINE v == [w EXCEPT !.revision = 0, !.bundle = 0]
    <2>1. v \in WorkerRecords /\ v.target = w.target /\ v.status = w.status /\ v.interrupted = w.interrupted
      BY <1>1, RecordFacts DEF FilesOK, WorkerRecords, Statuses, OptWorker, AllRevisions, Contents
    <2>2. WorkerAt(p, "loop", v)
      BY <1>1, <1>15, <2>1 DEF WorkerSave, WorkerAt
    <2>3. wk' = [wk EXCEPT ![p] = v]
      BY <1>1, <1>15 DEF WorkersOK, WorkerSave
    <2> QED BY <1>2, <1>15, <2>2, <2>3 DEF WorkerSave
  <1>16. CASE WorkerStops(p)
    <2> DEFINE v == [w EXCEPT !.status.pid = None]
    <2>1. v \in WorkerRecords /\ v.target = w.target /\ v.interrupted = w.interrupted /\ StatusOK(v.status)
      BY <1>1 DEF FilesOK, WorkerRecords, WorkerAt, StatusOK, Statuses, OptWorker, AllRevisions,
         Contents
    <2>2. WorkerAt(p, "unrecord", v)
      BY <1>1, <1>16, <2>1 DEF WorkerStops, WorkerAt
    <2>3. wk' = [wk EXCEPT ![p] = v]
      BY <1>1, <1>16 DEF WorkersOK, WorkerStops
    <2> QED BY <1>2, <1>16, <2>2, <2>3 DEF WorkerStops
  <1>17. CASE WorkerUnrecord(p)
    BY <1>1, <1>17, GotoOK DEF WorkerUnrecord, WorkerAt
  <1>18. CASE WorkerUnlock(p) \/ Kill(p)
    BY <1>1, <1>18, GoneOK DEF WorkerUnlock, Kill
  <1> QED BY <1>3, <1>4, <1>5, <1>6, <1>7, <1>8, <1>9, <1>10, <1>11, <1>12, <1>13, <1>14, <1>15,
             <1>16, <1>17, <1>18 DEF WorkerStep

\* Files, the remote copy and commands keep their types, and a worker that
\* runs has a target.
LEMMA StepsKeepTables ==
  ASSUME BaseInv, Next
  PROVE  FilesOK' /\ RemoteOK' /\ CommandsOK' /\ Configured' /\ faults' \in 0..MaxFaults
  <1> USE WorkerAssumption DEF BaseInv, FilesOK, RemoteOK, Fault, files, remote
  <1>1. CASE Edit
    BY <1>1 DEF Edit, Contents, CommandsOK, Configured
  <1>2. ASSUME NEW k \in Commands,
               \/ \E t \in Targets : StartBegin(k, t)
               \/ RunBegin(k) \/ StopRead(k) \/ CommandStep(k)
        PROVE  FilesOK' /\ RemoteOK' /\ CommandsOK' /\ Configured' /\ faults' \in 0..MaxFaults
    <2>1. ASSUME NEW c, CommandAt(c), cmd' = [cmd EXCEPT ![k] = c]
          PROVE  CommandsOK'
      <3>1. c \in CommandRecords
        BY <2>1 DEF CommandAt
      <3> QED BY <2>1, <3>1 DEF CommandsOK
    <2>2. CommandAt(NoCommand) /\ CommandAt(cmd[k]) /\ cmd[k] \in CommandRecords
      BY RecordFacts DEF CommandsOK
    <2>3. ASSUME NEW t \in Targets, StartBegin(k, t) PROVE CommandsOK'
      <3>1. CommandAt([NoCommand EXCEPT !.at = "check", !.target = t])
        BY RecordFacts DEF CommandAt, CommandRecords, OptTarget
      <3> QED BY <2>1, <2>3, <3>1 DEF StartBegin, Begin
    <2>4. ASSUME StopRead(k) PROVE CommandsOK'
      <3>1. CommandAt([NoCommand EXCEPT !.at = "signal", !.pid = status.pid])
        BY <2>4, RecordFacts DEF StopRead, Running, CommandAt, CommandRecords, Statuses
      <3> QED BY <2>1, <2>4, <3>1 DEF StopRead, Begin
    <2>5. ASSUME NEW at \in {"unlock", "save", "spawn"}, cmd[k].at \in {"check", "unlock", "save"}
          PROVE  CommandAt([cmd[k] EXCEPT !.at = at])
      BY <2>2, <2>5 DEF CommandAt, CommandRecords
    <2>6. CommandsOK'
      BY <1>2, <2>1, <2>2, <2>3, <2>4, <2>5 DEF CommandsOK, RunBegin, Begin, CommandStep,
         StartCheck, StartUnlock, StartSave, StartSpawn, StopSignal
    <2>7. FilesOK' /\ RemoteOK' /\ faults' \in 0..MaxFaults
      BY <1>2, <2>2 DEF CommandAt, CommandRecords, StartBegin, RunBegin, StopRead, CommandStep,
                        StartCheck, StartUnlock, StartSave, StartSpawn, StopSignal
    <2>8. Configured'
      <3>1. CASE StartSave(k)
        BY <2>2, <3>1 DEF Configured, CommandAt, StartSave
      <3>2. ASSUME ~StartSave(k), NEW j \in Commands, cmd'[j].at = "spawn" PROVE config' # None
        <4>1. config' = config
          BY <1>2, <3>2 DEF StartBegin, RunBegin, StopRead, CommandStep, StartCheck, StartUnlock,
             StartSpawn, StopSignal
        <4>2. ASSUME NEW c, cmd' = [cmd EXCEPT ![k] = c], c.at # "spawn"
              PROVE  cmd[j].at = "spawn"
          BY <3>2, <4>2 DEF CommandsOK
        <4>3. cmd[j].at = "spawn"
          <5>1. ASSUME NEW t \in Targets, StartBegin(k, t) PROVE cmd[j].at = "spawn"
            <6>1. [NoCommand EXCEPT !.at = "check", !.target = t].at # "spawn"
              BY DEF NoCommand
            <6> QED BY <4>2, <5>1, <6>1 DEF StartBegin, Begin
          <5>2. CASE RunBegin(k) \/ StartSpawn(k) \/ StopSignal(k)
            BY <4>2, <5>2, RecordFacts DEF RunBegin, Begin, StartSpawn, StopSignal
          <5>3. CASE StopRead(k)
            <6>1. [NoCommand EXCEPT !.at = "signal", !.pid = status.pid].at # "spawn"
              BY DEF NoCommand
            <6> QED BY <4>2, <5>3, <6>1 DEF StopRead, Begin
          <5>4. CASE StartCheck(k)
            <6>1. [cmd[k] EXCEPT !.at = "unlock"].at # "spawn"
              BY <2>2 DEF CommandRecords
            <6> QED BY <4>2, <5>4, <6>1, RecordFacts DEF StartCheck, CommandsOK
          <5>5. CASE StartUnlock(k)
            <6>1. [cmd[k] EXCEPT !.at = "save"].at # "spawn"
              BY <2>2 DEF CommandRecords
            <6> QED BY <4>2, <5>5, <6>1 DEF StartUnlock, CommandsOK
          <5> QED BY <1>2, <3>2, <5>1, <5>2, <5>3, <5>4, <5>5 DEF CommandStep
        <4> QED BY <4>1, <4>3 DEF Configured
      <3>3. ASSUME NEW p \in Workers, pc'[p] \notin Absent PROVE config' # None
        BY <1>2, <2>2, <3>3 DEF Configured, CommandAt, WorkersOK, Absent, Goto, Gone, StartBegin,
           Begin, RunBegin, StopRead, CommandStep, StartCheck, StartUnlock, StartSave, StartSpawn,
           StopSignal
      <3> QED BY <3>1, <3>2, <3>3 DEF Configured
    <2> QED BY <2>6, <2>7, <2>8
  <1>3. ASSUME NEW p \in Workers, WorkerStep(p) \/ Kill(p)
        PROVE  FilesOK' /\ RemoteOK' /\ CommandsOK' /\ Configured' /\ faults' \in 0..MaxFaults
    <2>1. wk[p].status \in Statuses /\ StatusOK(wk[p].status) /\ wk[p].bundle \in AllRevisions
      BY DEF WorkersOK, WorkerRecords, WorkerAt
    <2> USE <1>3, <2>1 DEF WorkerStep, WorkerConfig, WorkerMkdir, WorkerTakeover, WorkerRemove,
           WorkerMkdirAgain, WorkerLoad, WorkerRecord, Attempt, Export, PushPut, PushVerify,
           PushPoint, WorkerSave, WorkerStops, WorkerUnrecord, WorkerUnlock, Kill
    <2>2. FilesOK'
      OBVIOUS
    <2>3. RemoteOK'
      BY DEF Stored
    <2>4. CommandsOK' /\ faults' \in 0..MaxFaults
      BY DEF CommandsOK, CallFails
    <2>5. pc[p] \notin Absent /\ config' = config /\ \A q \in Workers : q # p => pc'[q] = pc[q]
      BY DEF Absent, Goto, Gone, Running, WorkersOK
    <2>6. Configured'
      BY <2>5 DEF Configured
    <2> QED BY <2>2, <2>3, <2>4, <2>6
  <1> QED BY <1>1, <1>2, <1>3 DEF Next

\* So they are before the first command.
LEMMA BaseInit == Init => BaseInv
  <1> SUFFICES ASSUME Init PROVE BaseInv
    OBVIOUS
  <1>1. FilesOK /\ RemoteOK /\ faults \in 0..MaxFaults
    <2>1. RemoteOK
      BY RecordFacts DEF Init, RemoteOK
    <2>2. FilesOK
      BY RecordFacts DEF Init, FilesOK, OptTarget, StatusOK, NoStatus
    <2> QED BY <2>1, <2>2, WorkerAssumption DEF Init
  <1>2. CommandsOK /\ Configured
    BY RecordFacts DEF Init, CommandsOK, Configured, Absent
  <1>3. WorkersOK
    BY RecordFacts DEF Init, WorkersOK, WorkerAt, PCs, Absent, Looping, Transferring, Ending,
       StatusOK, NoStatus
  <1> QED BY <1>1, <1>2, <1>3 DEF BaseInv

\* Files, commands and workers are well formed in every behaviour.
LEMMA BaseInvariant == Spec => []BaseInv
  <1>1. Init => BaseInv
    BY BaseInit
  <1>2. BaseInv /\ [Next]_vars => BaseInv'
    <2> SUFFICES ASSUME BaseInv, [Next]_vars PROVE BaseInv'
      OBVIOUS
    <2>1. CASE Edit
      BY <2>1, StepsKeepTables DEF Next, Edit, BaseInv, WorkersOK
    <2>2. CASE UNCHANGED vars
      BY <2>2 DEF vars, BaseInv, FilesOK, RemoteOK, CommandsOK, WorkersOK, Configured
    <2>3. CASE Next /\ ~Edit
      BY <2>3, StepsKeepTables, CommandsKeepWorkers, WorkerStepsKeepWorkers DEF Next, BaseInv
    <2> QED BY <2>1, <2>2, <2>3
  <1> QED BY <1>1, <1>2, PTL DEF Spec

-----------------------------------------------------------------------------
(* One worker at a time: the commands, the lock directory and the pid.      *)

\* While it loops a worker keeps its lock, moves nobody else, and records what
\* it holds.
LEMMA LoopingMoves ==
  ASSUME BaseInv, NEW p \in Workers,
         Attempt(p) \/ Export(p) \/ PushPut(p) \/ PushVerify(p) \/ PushPoint(p) \/ WorkerSave(p)
  PROVE  /\ pc[p] \in Looping /\ \E label \in Looping : pc' = [pc EXCEPT ![p] = label]
         /\ \A q \in Workers : wk'[q].interrupted = wk[q].interrupted
         /\ UNCHANGED <<lock, cmd>> /\ status' \in {status, wk[p].status}
         /\ \A q \in Workers \ {p} : wk'[q] = wk[q]
  <1> USE DEF BaseInv, WorkersOK, WorkerRecords, Goto, files, Looping
  <1>1. CASE wk' = Failed(p) /\ Goto(p, "save") /\ pc[p] \in Looping /\ UNCHANGED <<lock, status, cmd>>
    BY <1>1 DEF Failed
  <1>2. ASSUME NEW revision, wk' = Succeeded(p, revision), Goto(p, "save"), pc[p] \in Looping,
               UNCHANGED <<lock, status, cmd>>
        PROVE  \A q \in Workers : /\ wk'[q].interrupted = wk[q].interrupted
                                  /\ q # p => wk'[q] = wk[q]
    BY <1>2 DEF Succeeded
  <1>3. CASE Attempt(p)
    BY <1>1, <1>2, <1>3 DEF Attempt
  <1>4. CASE Export(p)
    BY <1>1, <1>4 DEF Export
  <1>5. CASE PushPut(p)
    BY <1>1, <1>5 DEF PushPut
  <1>6. CASE PushVerify(p)
    BY <1>1, <1>6 DEF PushVerify
  <1>7. CASE PushPoint(p)
    BY <1>1, <1>2, <1>7 DEF PushPoint
  <1>8. CASE WorkerSave(p)
    BY <1>8 DEF WorkerSave
  <1> QED BY <1>3, <1>4, <1>5, <1>6, <1>7, <1>8

\* Commands given one after the other keep workers apart, and so what a worker
\* verified stays as it verified it until the pointer moves.
LEMMA ApartStep ==
  ASSUME Sequential, BaseInv, BaseInv', ApartInv, [Next]_vars
  PROVE  ApartInv'
  <1> USE WorkerAssumption DEF ApartInv, Goto, files, remote, Running
  <1>1. ASSUME Edit
        PROVE  ApartInv'
    <2> USE <1>1 DEF Edit
    <2>1. CommandsApart'
      BY DEF Quiet, CommandsApart
    <2>2. OneOwner'
      BY DEF OneOwner
    <2>3. Verified'
      BY DEF Verified
    <2> QED BY <2>1, <2>2, <2>3
  <1>2. ASSUME NEW k \in Commands, NEW t \in Targets, StartBegin(k, t)
        PROVE  ApartInv'
    <2> USE <1>2 DEF StartBegin, Begin
    <2>1. CommandsApart'
      BY DEF Settled, Quiet, CommandsApart, Absent
    <2>2. OneOwner'
      BY DEF OneOwner
    <2>3. Verified'
      BY DEF Verified
    <2> QED BY <2>1, <2>2, <2>3
  <1>3. ASSUME NEW k \in Commands, StartCheck(k)
        PROVE  ApartInv'
    <2> USE <1>3 DEF StartCheck
    <2>1. CommandsApart'
      BY RecordFacts DEF Quiet, CommandsApart, OneOwner, Looping
    <2>2. OneOwner'
      BY DEF OneOwner
    <2>3. Verified'
      BY DEF Verified
    <2> QED BY <2>1, <2>2, <2>3
  <1>4. ASSUME NEW k \in Commands, StartUnlock(k)
        PROVE  ApartInv'
    <2> USE <1>4 DEF StartUnlock
    <2>1. CommandsApart'
      BY DEF Quiet, CommandsApart
    <2>2. OneOwner'
      BY DEF CommandsApart, OneOwner, Absent, Looping, Ending
    <2>3. Verified'
      BY DEF Verified
    <2> QED BY <2>1, <2>2, <2>3
  <1>5. ASSUME NEW k \in Commands, StartSave(k)
        PROVE  ApartInv'
    <2> USE <1>5 DEF StartSave
    <2>1. CommandsApart'
      BY DEF Quiet, CommandsApart
    <2>2. OneOwner'
      BY DEF OneOwner
    <2>3. Verified'
      BY DEF Verified
    <2> QED BY <2>1, <2>2, <2>3
  <1>6. ASSUME NEW k \in Commands, StartSpawn(k)
        PROVE  ApartInv'
    <2> USE <1>6 DEF StartSpawn
    <2>1. CommandsApart'
      BY RecordFacts DEF BaseInv, CommandsOK, Quiet, CommandsApart, Starting, Absent
    <2>2. OneOwner'
      BY DEF OneOwner, Looping, Ending, Owning
    <2>3. Verified'
      BY DEF Verified
    <2> QED BY <2>1, <2>2, <2>3
  <1>7. ASSUME NEW k \in Commands, RunBegin(k)
        PROVE  ApartInv'
    <2> USE <1>7 DEF RunBegin, Begin
    <2>1. CommandsApart'
      BY RecordFacts DEF Settled, CommandsApart, Starting, Absent, Looping
    <2>2. OneOwner'
      BY DEF OneOwner, Looping, Ending, Owning
    <2>3. Verified'
      BY DEF Verified
    <2> QED BY <2>1, <2>2, <2>3
  <1>8. ASSUME NEW k \in Commands, StopRead(k)
        PROVE  ApartInv'
    <2> USE <1>8 DEF StopRead, Begin
    <2>1. CommandsApart'
      BY DEF Settled, Quiet, CommandsApart, Absent
    <2>2. OneOwner'
      BY DEF OneOwner
    <2>3. Verified'
      BY DEF Verified
    <2> QED BY <2>1, <2>2, <2>3
  <1>9. ASSUME NEW k \in Commands, StopSignal(k)
        PROVE  ApartInv'
    <2> USE <1>9 DEF StopSignal, Gone
    <2>1. CommandsApart'
      BY RecordFacts DEF BaseInv, CommandsOK, WorkersOK, WorkerAt, WorkerRecords, CommandRecords,
         Settled, Quiet, CommandsApart, OneOwner, Starting, Absent, Looping, Ending, Owning
    <2>2. OneOwner'
      BY DEF BaseInv, WorkersOK, OneOwner, Looping, Ending, Owning
    <2>3. Verified'
      BY DEF BaseInv, WorkersOK, Verified, WorkerRecords
    <2> QED BY <2>1, <2>2, <2>3
  <1>10. ASSUME NEW p \in Workers, WorkerConfig(p)
        PROVE  ApartInv'
    <2> USE <1>10 DEF WorkerConfig
    <2>1. CommandsApart'
      BY DEF Quiet, CommandsApart, Starting, Absent, Looping
    <2>2. OneOwner'
      BY DEF OneOwner, Looping, Ending, Owning
    <2>3. Verified'
      BY DEF Verified
    <2> QED BY <2>1, <2>2, <2>3
  <1>11. ASSUME NEW p \in Workers, WorkerMkdir(p)
        PROVE  ApartInv'
    <2> USE <1>11 DEF WorkerMkdir
    <2>1. CommandsApart'
      BY DEF Quiet, CommandsApart, Starting, Absent, Looping
    <2>2. OneOwner'
      BY DEF CommandsApart, OneOwner, Starting, Absent, Looping, Ending, Owning
    <2>3. Verified'
      BY DEF Verified
    <2> QED BY <2>1, <2>2, <2>3
  <1>12. ASSUME NEW p \in Workers, WorkerTakeover(p)
        PROVE  ApartInv'
    <2> USE <1>12 DEF WorkerTakeover, Gone
    <2>1. CommandsApart'
      BY RecordFacts DEF BaseInv, WorkersOK, Quiet, CommandsApart, OneOwner, Starting, Absent
    <2>2. OneOwner'
      BY DEF BaseInv, WorkersOK, CommandsApart, OneOwner, Starting, Absent, Looping, Ending, Owning
    <2>3. Verified'
      BY DEF BaseInv, WorkersOK, Verified
    <2> QED BY <2>1, <2>2, <2>3
  <1>13. ASSUME NEW p \in Workers, WorkerRemove(p)
        PROVE  ApartInv'
    <2>1. /\ pc[p] = "remove" /\ lock /\ lock' = FALSE
          /\ pc' = [pc EXCEPT ![p] = "mkdir_again"] /\ UNCHANGED <<wk, status, remote, cmd>>
      BY <1>13 DEF WorkerRemove, OneOwner
    <2>2. pc \in [Workers -> PCs]
      BY DEF BaseInv, WorkersOK
    <2>3. CommandsApart'
      BY <2>1, <2>2 DEF CommandsApart, Quiet, Starting, Absent, Looping
    <2>4. OneOwner'
      BY <2>1, <2>2 DEF CommandsApart, OneOwner, Owning, Starting, Absent, Looping, Ending
    <2>5. Verified'
      BY <2>1, <2>2 DEF Verified
    <2> QED BY <2>3, <2>4, <2>5
  <1>14. ASSUME NEW p \in Workers, WorkerMkdirAgain(p)
        PROVE  ApartInv'
    <2> USE <1>14 DEF WorkerMkdirAgain, Gone
    <2>1. CommandsApart'
      BY DEF BaseInv, WorkersOK, Quiet, CommandsApart, OneOwner, Starting, Absent
    <2>2. OneOwner'
      BY DEF BaseInv, WorkersOK, OneOwner, Looping, Owning
    <2>3. Verified'
      BY DEF BaseInv, WorkersOK, Verified
    <2> QED BY <2>1, <2>2, <2>3
  <1>15. ASSUME NEW p \in Workers, WorkerLoad(p)
        PROVE  ApartInv'
    <2> USE <1>15 DEF WorkerLoad
    <2>1. CommandsApart'
      BY DEF Quiet, CommandsApart, Starting, Absent, Looping
    <2>2. OneOwner'
      BY DEF OneOwner, Looping, Owning
    <2>3. Verified'
      BY DEF Verified
    <2> QED BY <2>1, <2>2, <2>3
  <1>16. ASSUME NEW p \in Workers, WorkerRecord(p)
        PROVE  ApartInv'
    <2> USE <1>16 DEF WorkerRecord
    <2>1. CommandsApart'
      BY DEF Quiet, CommandsApart, Starting, Absent, Looping
    <2>2. OneOwner'
      BY DEF BaseInv, WorkersOK, WorkerAt, OneOwner, Owning
    <2>3. Verified'
      BY DEF Verified
    <2> QED BY <2>1, <2>2, <2>3
  <1>17. ASSUME NEW p \in Workers,
                Attempt(p) \/ Export(p) \/ PushPut(p) \/ PushVerify(p) \/ PushPoint(p) \/ WorkerSave(p)
         PROVE  ApartInv'
    <2>1. /\ pc[p] \in Looping /\ \E label \in Looping : pc' = [pc EXCEPT ![p] = label]
          /\ \A q \in Workers : wk'[q].interrupted = wk[q].interrupted
          /\ UNCHANGED <<lock, cmd>> /\ status' \in {status, wk[p].status}
          /\ \A q \in Workers \ {p} : wk'[q] = wk[q]
      BY <1>17, LoopingMoves
    <2>2. wk[p].status.pid = p /\ pc \in [Workers -> PCs]
      BY <2>1 DEF BaseInv, WorkersOK, WorkerAt
    <2>3. CommandsApart'
      BY <2>1, <2>2 DEF CommandsApart, Quiet, Starting, Absent, Looping
    <2>4. OneOwner'
      BY <2>1, <2>2 DEF OneOwner, Looping, Owning
    <2>5. ASSUME NEW q \in Workers, pc'[q] = "point" PROVE (objects[wk[q].target][wk[q].bundle] = "good")'
      <3>1. CASE q # p
        <4>1. FALSE
          BY <2>1, <2>2, <2>5, <3>1 DEF OneOwner, Looping
        <4> QED BY <4>1
      <3>2. CASE q = p
        BY <1>17, <2>2, <2>5, <3>2 DEF Attempt, Export, PushPut, PushVerify, PushPoint, WorkerSave
      <3> QED BY <3>1, <3>2
    <2> QED BY <2>3, <2>4, <2>5 DEF Verified
  <1>18. ASSUME NEW p \in Workers, WorkerStops(p)
        PROVE  ApartInv'
    <2> USE <1>18 DEF WorkerStops
    <2>1. CommandsApart'
      BY DEF Quiet, CommandsApart, Starting
    <2>2. OneOwner'
      BY DEF OneOwner, Looping, Owning
    <2>3. Verified'
      BY DEF Verified
    <2> QED BY <2>1, <2>2, <2>3
  <1>19. ASSUME NEW p \in Workers, WorkerUnrecord(p)
        PROVE  ApartInv'
    <2> USE <1>19 DEF WorkerUnrecord
    <2>1. CommandsApart'
      BY DEF Quiet, CommandsApart, Starting, Absent, Looping
    <2>2. OneOwner'
      BY DEF OneOwner, Looping, Ending, Owning
    <2>3. Verified'
      BY DEF Verified
    <2> QED BY <2>1, <2>2, <2>3
  <1>20. ASSUME NEW p \in Workers, WorkerUnlock(p)
        PROVE  ApartInv'
    <2> USE <1>20 DEF WorkerUnlock, Gone
    <2>1. CommandsApart'
      BY RecordFacts DEF Quiet, CommandsApart, Starting, Absent
    <2>2. OneOwner'
      BY DEF BaseInv, WorkersOK, CommandsApart, OneOwner, Starting, Absent, Looping, Ending, Owning
    <2>3. Verified'
      BY DEF Verified
    <2> QED BY <2>1, <2>2, <2>3
  <1>21. ASSUME NEW p \in Workers, Kill(p)
        PROVE  ApartInv'
    <2> USE <1>21 DEF Kill, Gone
    <2>1. CommandsApart'
      BY RecordFacts DEF Quiet, CommandsApart, Starting, Absent
    <2>2. OneOwner'
      BY DEF OneOwner, Looping, Ending, Owning
    <2>3. Verified'
      BY DEF BaseInv, WorkersOK, Verified
    <2> QED BY <2>1, <2>2, <2>3
  <1>22. CASE UNCHANGED vars
    BY <1>22 DEF vars, CommandsApart, Quiet, OneOwner, Verified
  <1> QED BY <1>1, <1>2, <1>3, <1>4, <1>5, <1>6, <1>7, <1>8, <1>9, <1>10, <1>11, <1>12, <1>13,
             <1>14, <1>15, <1>16, <1>17, <1>18, <1>19, <1>20, <1>21, <1>22 DEF Next, CommandStep,
             WorkerStep

-----------------------------------------------------------------------------
(* While the content only moves on.                                         *)

StartupOrEnd(p) ==
  \/ WorkerConfig(p) \/ WorkerMkdir(p) \/ WorkerTakeover(p) \/ WorkerRemove(p) \/ WorkerMkdirAgain(p)
  \/ WorkerLoad(p) \/ WorkerRecord(p) \/ WorkerStops(p) \/ WorkerUnrecord(p) \/ WorkerUnlock(p) \/ Kill(p)

\* Outside its attempts a worker moves no bundle; what it records is what it
\* loaded, and it loads what was recorded.
LEMMA StartupOrEndMoves ==
  ASSUME BaseInv, NEW p \in Workers, StartupOrEnd(p)
  PROVE  /\ pc'[p] \notin Transferring /\ \A q \in Workers \ {p} : pc'[q] = pc[q] /\ wk'[q] = wk[q]
         /\ wk'[p].revision \in {wk[p].revision, 0}
         /\ wk'[p].status.revision \in {wk[p].status.revision, status.revision, 0}
         /\ status' \in {status, wk[p].status} /\ UNCHANGED <<content, remote>>
  <1>1. /\ wk \in [Workers -> WorkerRecords] /\ pc \in [Workers -> PCs] /\ status \in Statuses
        /\ wk[p] \in WorkerRecords /\ pc[p] \in PCs
    BY DEF BaseInv, WorkersOK, FilesOK
  <1> USE <1>1 DEF Goto, files, Transferring, Looping, Absent
  <1>2. CASE Gone(p) /\ UNCHANGED <<content, status, remote>>
    BY <1>2, RecordFacts DEF Gone
  <1>3. CASE WorkerConfig(p)
    BY <1>3 DEF WorkerConfig, WorkerRecords
  <1>4. CASE WorkerLoad(p)
    BY <1>4 DEF WorkerLoad, WorkerRecords, Statuses
  <1>5. CASE WorkerStops(p)
    BY <1>5 DEF WorkerStops, WorkerRecords, Statuses
  <1>6. CASE WorkerMkdir(p) \/ WorkerRecord(p) \/ WorkerUnrecord(p)
    BY <1>6 DEF WorkerMkdir, WorkerRecord, WorkerUnrecord
  <1>7. CASE WorkerTakeover(p) \/ WorkerRemove(p) \/ WorkerMkdirAgain(p)
    BY <1>2, <1>7 DEF WorkerTakeover, WorkerRemove, WorkerMkdirAgain
  <1>8. CASE WorkerUnlock(p) \/ Kill(p)
    BY <1>2, <1>8 DEF WorkerUnlock, Kill
  <1> QED BY <1>3, <1>4, <1>5, <1>6, <1>7, <1>8 DEF StartupOrEnd

\* Commands move no bundle either.
LEMMA CommandMoves ==
  ASSUME BaseInv, NEW k \in Commands,
         \/ \E t \in Targets : StartBegin(k, t)
         \/ RunBegin(k) \/ StopRead(k) \/ CommandStep(k)
  PROVE  /\ \A p \in Workers :
              /\ pc'[p] \in Transferring => pc[p] = pc'[p] /\ wk'[p].bundle = wk[p].bundle
                                           /\ wk'[p].target = wk[p].target
              /\ wk'[p].revision \in {wk[p].revision, 0}
              /\ wk'[p].status.revision \in {wk[p].status.revision, 0}
         /\ UNCHANGED <<content, status, remote>>
  <1>1. wk \in [Workers -> WorkerRecords] /\ pc \in [Workers -> PCs]
    BY DEF BaseInv, WorkersOK
  <1> USE <1>1 DEF files
  <1>2. CASE StopSignal(k)
    <2>1. cmd[k].pid \in Workers
      BY <1>2 DEF BaseInv, CommandsOK, CommandAt, CommandRecords, OptWorker, StopSignal
    <2> QED BY <1>2, <2>1, RecordFacts DEF StopSignal, Gone, Goto, Transferring, WorkerRecords
  <1>3. CASE ~StopSignal(k)
    BY <1>3 DEF StartBegin, RunBegin, StopRead, CommandStep, StartCheck, StartUnlock, StartSave,
       StartSpawn, Goto, Transferring
  <1> QED BY <1>2, <1>3

\* Then no step takes a remote copy back, and nothing in flight could.
LEMMA InFlightStep ==
  ASSUME Sequential, Forward, BaseInv, BaseInv', ApartInv, InFlight, [Next]_vars
  PROVE  InFlight' /\ \A t \in Targets : current'[t] >= current[t]
  <1>1. /\ wk \in [Workers -> WorkerRecords] /\ pc \in [Workers -> PCs] /\ content \in Nat
        /\ content' \in Nat /\ current \in [Targets -> Nat] /\ current' \in [Targets -> Nat]
        /\ \A p \in Workers : wk[p].revision \in Nat /\ wk[p].bundle \in Nat
        /\ \A p \in Workers : pc[p] \in Transferring => wk[p].target \in Targets
    <2>1. AllRevisions \subseteq Nat /\ Contents \subseteq Nat
      BY WorkerAssumption DEF AllRevisions, Contents
    <2>2. /\ wk \in [Workers -> WorkerRecords] /\ pc \in [Workers -> PCs]
          /\ content \in Nat /\ content' \in Nat
      BY <2>1 DEF BaseInv, WorkersOK, FilesOK
    <2>3. current \in [Targets -> Nat] /\ current' \in [Targets -> Nat]
      BY <2>1 DEF BaseInv, RemoteOK
    <2>4. ASSUME NEW p \in Workers
          PROVE  /\ wk[p].revision \in Nat /\ wk[p].bundle \in Nat
                 /\ pc[p] \in Transferring => wk[p].target \in Targets
      BY <2>1, <2>2 DEF BaseInv, WorkersOK, WorkerRecords, WorkerAt, OptTarget, Transferring, Absent
    <2> QED BY <2>2, <2>3, <2>4
  <1> USE <1>1
  <1>2. CASE UNCHANGED vars
    BY <1>2 DEF vars, InFlight
  <1>3. CASE Edit
    BY <1>3 DEF Edit, Fault, Forward, InFlight, remote
  <1>4. ASSUME NEW k \in Commands,
               \/ \E t \in Targets : StartBegin(k, t)
               \/ RunBegin(k) \/ StopRead(k) \/ CommandStep(k)
        PROVE  InFlight' /\ \A t \in Targets : current'[t] >= current[t]
    BY <1>4, CommandMoves DEF InFlight, remote
  <1>5. ASSUME NEW p \in Workers, StartupOrEnd(p)
        PROVE  InFlight' /\ \A t \in Targets : current'[t] >= current[t]
    BY <1>5, StartupOrEndMoves DEF InFlight, remote
  <1>6. ASSUME NEW p \in Workers, Attempt(p)
        PROVE  InFlight' /\ \A t \in Targets : current'[t] >= current[t]
    BY <1>6 DEF Attempt, Failed, Succeeded, Goto, WorkerRecords, InFlight, remote, Transferring,
       files
  <1>7. ASSUME NEW p \in Workers, Export(p)
        PROVE  InFlight' /\ \A t \in Targets : current'[t] >= current[t]
    <2>1. CASE Goto(p, "put") /\ wk' = [wk EXCEPT ![p].bundle = content]
      <3>1. /\ \A q \in Workers : wk'[q].revision = wk[q].revision
            /\ wk'[p].bundle = content /\ \A q \in Workers : q # p => wk'[q] = wk[q] /\ pc'[q] = pc[q]
            /\ UNCHANGED <<content, current>> /\ wk'[p].target = wk[p].target
        BY <1>7, <2>1 DEF Export, Goto, WorkerRecords, remote
      <3>2. wk[p].target \in Targets
        BY <1>7 DEF Export, BaseInv, WorkersOK, WorkerAt, WorkerRecords, OptTarget, Absent
      <3> QED BY <3>1, <3>2 DEF InFlight
    <2>2. CASE Goto(p, "save") /\ wk' = Failed(p)
      BY <1>7, <2>2 DEF Export, Failed, Goto, WorkerRecords, InFlight, remote, Transferring
    <2> QED BY <1>7, <2>1, <2>2 DEF Export
  <1>8. ASSUME NEW p \in Workers, PushPut(p)
        PROVE  InFlight' /\ \A t \in Targets : current'[t] >= current[t]
    BY <1>8 DEF PushPut, Failed, Goto, WorkerRecords, InFlight, remote, Transferring, files
  <1>9. ASSUME NEW p \in Workers, PushVerify(p)
        PROVE  InFlight' /\ \A t \in Targets : current'[t] >= current[t]
    BY <1>9 DEF PushVerify, Failed, Goto, WorkerRecords, InFlight, remote, Transferring, files
  <1>10. ASSUME NEW p \in Workers, WorkerSave(p)
        PROVE  InFlight' /\ \A t \in Targets : current'[t] >= current[t]
    BY <1>10 DEF WorkerSave, Goto, WorkerRecords, InFlight, remote, Transferring, files
  <1>11. ASSUME NEW p \in Workers, PushPoint(p)
         PROVE  InFlight' /\ \A t \in Targets : current'[t] >= current[t]
    <2>1. ASSUME NEW q \in Workers, q # p PROVE pc[q] \notin Transferring
      BY <1>11, <2>1 DEF PushPoint, ApartInv, OneOwner, Owning, Looping, Transferring
    <2>2. wk[p].bundle <= content /\ current[wk[p].target] <= wk[p].bundle /\ pc[p] \in Transferring
      BY <1>11 DEF PushPoint, InFlight, Transferring
    <2>3. /\ wk[p].target \in Targets
          /\ current' \in {current, [current EXCEPT ![wk[p].target] = wk[p].bundle]}
      BY <1>11, <2>2 DEF PushPoint
    <2>4. /\ \A q \in Workers : wk'[q].revision = wk[q].revision
          /\ \A q \in Workers : pc'[q] \notin Transferring
          /\ content' = content
      <3>1. wk' = Failed(p) \/ wk' = Succeeded(p, wk[p].revision)
        BY <1>11 DEF PushPoint
      <3>2. \A q \in Workers : wk'[q].revision = wk[q].revision
        BY <3>1 DEF Failed, Succeeded, WorkerRecords
      <3> QED BY <1>11, <2>1, <3>2 DEF PushPoint, Goto, Transferring
    <2> QED BY <2>2, <2>3, <2>4 DEF InFlight
  <1> QED BY <1>2, <1>3, <1>4, <1>5, <1>6, <1>7, <1>8, <1>9, <1>10, <1>11 DEF Next, WorkerStep,
             StartupOrEnd

\* No status tells of a revision that its location does not have.
LEMMA StoredStep ==
  ASSUME Sequential, Forward, OnlyTarget, BaseInv, BaseInv', ApartInv, InFlight, StoredOK, [Next]_vars
  PROVE  StoredOK'
  <1>1. \A t \in Targets : current'[t] >= current[t]
    BY InFlightStep
  <1>2. /\ wk \in [Workers -> WorkerRecords] /\ pc \in [Workers -> PCs]
        /\ status \in Statuses /\ status' \in Statuses
        /\ current \in [Targets -> Nat] /\ current' \in [Targets -> Nat]
        /\ status.revision \in Nat /\ \A p \in Workers : wk[p].status.revision \in Nat
    <2>1. AllRevisions \subseteq Nat
      BY WorkerAssumption DEF AllRevisions
    <2>2. /\ wk \in [Workers -> WorkerRecords] /\ pc \in [Workers -> PCs]
          /\ status \in Statuses /\ status' \in Statuses
      BY DEF BaseInv, WorkersOK, FilesOK
    <2>3. current \in [Targets -> Nat] /\ current' \in [Targets -> Nat]
      BY <2>1 DEF BaseInv, RemoteOK
    <2> QED BY <2>1, <2>2, <2>3 DEF WorkerRecords, Statuses
  <1> DEFINE StoredAt(u) == /\ status'.revision <= current'[u]
                            /\ \A q \in Workers : wk'[q].status.revision <= current'[u]
  <1>3. SUFFICES ASSUME NEW t \in Targets PROVE StoredAt(t)
    BY DEF StoredOK
  <1>4. /\ status.revision <= current'[t] /\ 0 <= current'[t]
        /\ \A p \in Workers : wk[p].status.revision <= current'[t]
    BY <1>1, <1>2 DEF StoredOK
  <1> USE <1>2, <1>4 DEF files
  <1>5. CASE UNCHANGED vars
    BY <1>5 DEF vars
  <1>6. CASE Edit
    BY <1>6 DEF Edit
  <1>7. ASSUME NEW k \in Commands,
               \/ \E u \in Targets : StartBegin(k, u)
               \/ RunBegin(k) \/ StopRead(k) \/ CommandStep(k)
        PROVE  StoredAt(t)
    BY <1>7, CommandMoves
  <1>8. ASSUME NEW p \in Workers, StartupOrEnd(p)
        PROVE  StoredAt(t)
    BY <1>8, StartupOrEndMoves
  <1>9. ASSUME NEW p \in Workers, wk' = Failed(p), UNCHANGED status
        PROVE  StoredAt(t)
    BY <1>9 DEF Failed, WorkerRecords, Statuses
  <1>10. ASSUME NEW p \in Workers, NEW r, wk' = Succeeded(p, r), r <= current'[t], UNCHANGED status
         PROVE  StoredAt(t)
    BY <1>10 DEF Succeeded, WorkerRecords, Statuses
  <1>11. ASSUME NEW p \in Workers, Attempt(p)
         PROVE  StoredAt(t)
    <2>1. CASE wk' = [wk EXCEPT ![p].revision = content] /\ UNCHANGED status
      BY <2>1 DEF WorkerRecords
    <2> QED BY <1>9, <1>10, <1>11, <2>1 DEF Attempt
  <1>12. ASSUME NEW p \in Workers, Export(p)
         PROVE  StoredAt(t)
    <2>1. CASE wk' = [wk EXCEPT ![p].bundle = content] /\ UNCHANGED status
      BY <2>1 DEF WorkerRecords
    <2> QED BY <1>9, <1>12, <2>1 DEF Export
  <1>13. ASSUME NEW p \in Workers, PushPut(p) \/ PushVerify(p)
         PROVE  StoredAt(t)
    BY <1>9, <1>13 DEF PushPut, PushVerify
  <1>14. ASSUME NEW p \in Workers, PushPoint(p)
         PROVE  StoredAt(t)
    <2>1. CASE current' = [current EXCEPT ![wk[p].target] = wk[p].bundle]
               /\ wk' = Succeeded(p, wk[p].revision)
      <3>1. wk[p].target = t
        BY <1>14 DEF PushPoint, BaseInv, WorkersOK, WorkerAt, WorkerRecords, OptTarget, OnlyTarget,
           Absent
      <3>2. wk[p].revision <= wk[p].bundle
        BY <1>14 DEF PushPoint, InFlight, Transferring
      <3> QED BY <1>10, <1>14, <2>1, <3>1, <3>2 DEF PushPoint
    <2> QED BY <1>9, <1>14, <2>1 DEF PushPoint
  <1>15. ASSUME NEW p \in Workers, WorkerSave(p)
         PROVE  StoredAt(t)
    BY <1>15 DEF WorkerSave, WorkerRecords
  <1> QED BY <1>5, <1>6, <1>7, <1>8, <1>11, <1>12, <1>13, <1>14, <1>15 DEF Next, WorkerStep,
             StartupOrEnd

-----------------------------------------------------------------------------
(* Results.                                                                 *)

\* The inductive invariant holds in every behaviour.
THEOREM Invariance == Spec => []IInv
  <1>1. Init => IInv
    <2> SUFFICES ASSUME Init, BaseInv PROVE IInv
      BY BaseInit
    <2>1. ApartInv
      BY RecordFacts DEF Init, ApartInv, CommandsApart, Quiet, OneOwner, Verified, Starting, Owning,
         Looping, Absent, Ending
    <2>2. InFlight
      BY RecordFacts, WorkerAssumption DEF Init, InFlight, Transferring
    <2>3. StoredOK
      BY RecordFacts DEF Init, StoredOK, NoStatus
    <2> QED BY <2>1, <2>2, <2>3 DEF IInv
  <1>2. BaseInv /\ BaseInv' /\ IInv /\ [Next]_vars => IInv'
    BY ApartStep, InFlightStep, StoredStep DEF IInv, Forward, OnlyTarget
  <1> QED BY <1>1, <1>2, BaseInvariant, PTL DEF Spec

\* Every variable keeps its type, for any number of commands and workers.
THEOREM WorkerTypeCorrect == Spec => []TypeOK
  <1>1. BaseInv => TypeOK
    BY DEF BaseInv, FilesOK, RemoteOK, CommandsOK, WorkersOK, CommandRecords, WorkerRecords, TypeOK
  <1> QED BY <1>1, BaseInvariant, PTL

\* docs/context-backup.md: transfers for one Context never overlap, however many
\* workers are started, stopped and killed, when commands are given one after
\* the other.
THEOREM NeverOverlap == Sequential => (Spec => []TransfersNeverOverlap)
  <1> SUFFICES ASSUME Sequential PROVE Spec => []TransfersNeverOverlap
    OBVIOUS
  <1>1. IInv => TransfersNeverOverlap
    <2> SUFFICES ASSUME IInv PROVE TransfersNeverOverlap
      OBVIOUS
    <2> DEFINE S == {p \in Workers : pc[p] \in Transferring}
    <2>1. \A p, q \in S : p = q
      BY DEF IInv, ApartInv, OneOwner, Owning, Looping, Transferring
    <2>2. CASE S = {}
      BY <2>2, FS_EmptySet DEF TransfersNeverOverlap
    <2>3. ASSUME NEW p \in S PROVE TransfersNeverOverlap
      <3>1. S = {p}
        BY <2>1, <2>3
      <3> QED BY <3>1, FS_Singleton DEF TransfersNeverOverlap
    <2> QED BY <2>2, <2>3
  <1> QED BY <1>1, Invariance, PTL

\* docs/context-portability.md: the pointer moves only to an object that was
\* uploaded and verified, whatever is retried or killed.
THEOREM PointerVerified == Sequential => (Spec => PointerMovesToVerified)
  <1> SUFFICES ASSUME Sequential PROVE Spec => PointerMovesToVerified
    OBVIOUS
  <1>1. IInv /\ [Next]_vars =>
          [\A t \in Targets : current'[t] # current[t] => objects[t][current'[t]] = "good"]_current
    <2> SUFFICES ASSUME IInv, NEW p \in Workers, PushPoint(p), NEW t \in Targets, current'[t] # current[t]
                 PROVE  objects[t][current'[t]] = "good"
      BY DEF Next, vars, remote, Edit, StartBegin, RunBegin, StopRead, CommandStep, StartCheck,
         StartUnlock, StartSave, StartSpawn, StopSignal, WorkerStep, WorkerConfig, WorkerMkdir,
         WorkerTakeover, WorkerRemove, WorkerMkdirAgain, WorkerLoad, WorkerRecord, Attempt, Export,
         PushPut, PushVerify, WorkerSave, WorkerStops, WorkerUnrecord, WorkerUnlock, Kill
    <2>1. objects[wk[p].target][wk[p].bundle] = "good"
      BY DEF IInv, ApartInv, Verified, PushPoint
    <2> QED BY <2>1 DEF IInv, BaseInv, RemoteOK, PushPoint
  <1> QED BY <1>1, Invariance, PTL DEF Spec, PointerMovesToVerified

\* While the content only moves on, so does the remote copy: no retry and no
\* restarted worker brings an older revision back.
THEOREM RemoteMovesOn == Sequential /\ Forward => (Spec => RemoteNeverGoesBack)
  <1> SUFFICES ASSUME Sequential, Forward PROVE Spec => RemoteNeverGoesBack
    OBVIOUS
  <1>1. IInv /\ BaseInv' /\ [Next]_vars => [\A t \in Targets : current'[t] >= current[t]]_current
    BY InFlightStep DEF IInv
  <1> QED BY <1>1, Invariance, BaseInvariant, PTL DEF Spec, RemoteNeverGoesBack

\* docs/context-backup.md: a recorded success tells the truth: when the status
\* says that the content was backed up, the target has it. With one location, and
\* while the content only moves on (BackupRetarget shows why one).
THEOREM StatusTrue == Sequential /\ Forward /\ OnlyTarget => (Spec => []StatusIsStored)
  <1> SUFFICES ASSUME Sequential, Forward, OnlyTarget PROVE Spec => []StatusIsStored
    OBVIOUS
  <1>1. IInv => StatusIsStored
    <2> SUFFICES ASSUME IInv, status.revision = content, status.target = config
                 PROVE  current[config] = content
      BY DEF StatusIsStored
    <2>1. content \in Nat \ {0} /\ current \in [Targets -> Nat]
      BY WorkerAssumption DEF IInv, BaseInv, FilesOK, RemoteOK, Contents, AllRevisions
    <2>2. config \in Targets
      BY <2>1 DEF IInv, BaseInv, FilesOK, StatusOK, OptTarget
    <2> QED BY <2>1, <2>2 DEF IInv, InFlight, StoredOK
  <1> QED BY <1>1, Invariance, PTL
=============================================================================
