# A formal model of Context Service

Context Service keeps *Contexts*: directories of agent state, stored on a developer's machine
(`~/.contexts/NAME`), in an S3 bucket, or on a Kubernetes PersistentVolumeClaim (PVC) that a small
HTTP service manages. This directory holds TLA+ models of its components, the TLC configurations
that check them and the TLAPS proofs about them. Paths below are relative to the repository.

    tlc -workers 2 -config UploadSafety.cfg MCUploadScenarios
    tlapm ContextUploadProofs.tla

`PROJECT.json` lists the runs, the lines of code every definition stands for, the mutant that
shows each property can fail, the divergences found, the hazards and the theorems.

## 1. Inventory

### 1.1 The HTTP service and its Kubernetes manager

`internal/api` (handlers) and `internal/kube` (manager). The service has no database: a Context *is*
a PVC, and everything known about it is labels and annotations of that one object. A change is a
Get, a change in memory and an Update that the API server refuses when the `resourceVersion` moved
(`retry.RetryOnConflict`). Only two things live in the memory of the process: the table of upload
capabilities and the upload locks, one per PVC UID.

| Component | State | Operations | What makes it hard | What makes it correct |
|---|---|---|---|---|
| Upload capabilities (`api/uploads.go`) | in-memory table: unused, in flight, expired | issue, redeem, finish, purge | retries and expiry while in flight; restart forgets | at most one success; never stuck in flight; bound to one storage |
| Upload, export (`kube/context_upload.go`) | upload lock, helper pod, volume | upload, export | cut streams, helpers that fail, die or cannot be deleted; the Context recreated meanwhile | what is published is on the volume; one import at a time; an export reads only the frozen revision it was authorized for |
| Freeze (`kube/context_upload.go`) | pin on the PVC | freeze | races with uploads and publications | no freeze during an upload; a frozen Context never changes |
| Revision publication (`kube/manager.go`) | current revision and history on the PVC | publish | concurrent read-modify-writes | the history is append-only and ends in the current revision |
| Access (`kube/access.go`, `api/handler.go`) | grants, consumers, audit trail on the PVC | grant, revoke, attach, detach, list | all three rewritten whole by every request | no acknowledged change is lost; the trail is the recent history |
| Deletion (`kube/manager.go`) | the PVC and its finalizer, pods | delete, force | checks, then deletes by name | a Context with consumers stays |
| Snapshots (`kube/context_lifecycle.go`) | VolumeSnapshots, cloned PVCs, retention policy | snapshot, clone, retention, collect | collection checks first and deletes by name later; labels are written before the snapshot is cut | protected, newest and referenced snapshots stay; a clone holds the revision it is labelled with |
| Query index (`kube/context_query.go`, `contextquery`) | a ConfigMap per Context | publish, query, delete | checked against the current revision, then written | an index never answers for another revision |

Handlers call the manager; the manager calls the API server, and helper pods through an exec stream.
Everything meets in the PVC. Kubernetes is outside `src/`; it is modelled by the calls that are made
to it: optimistic updates, deletion with a finalizer, pods that resolve their claim by name when they
are scheduled.

### 1.2 The command line and the local store

`cmd/contextctl`, `internal/localcontext`, `internal/contextbackup`, `internal/contextsync`.

| Component | State | Operations | What makes it hard | What makes it correct |
|---|---|---|---|---|
| Backup worker (`cmd/contextctl/backup.go`, `contextbackup/state.go`) | lock directory, config, status and trigger files; one process per worker | start, run, stop, attempt | commands and workers race on files; kills; failing calls | one transfer at a time; the status tells the truth; the remote copy catches up and never goes back |
| Its schedule (`runBackup`) | next, failures, last trigger | poll, attempt, event | events, interval and retry share one deadline | events are served within the debounce; the retry delay and the interval are kept |
| Transports (`contextsync/s3.go`, `kubectl.go`) | objects and a pointer; files on the PVC | push, pull | a call fails after it took effect; two writers | the pointer names a verified object |
| Local store (`localcontext/store.go`, `lifecycle.go`, `revision_history.go`) | trees, metadata, snapshots, history, capture lock | capture, push, pull, snapshot, restore, clone, collect | crashes between renames, takeover of a slow lock, collection without a lock | a tree is old or new, never half; references stay |
| Materialize helper (`cmd/context-service/main.go`) | the files of a volume | import, export | limits, crashes between files | a revision is complete or absent |
| Bundles and ignore rules (`localcontext/bundle.go`, `pack*.go`) | none (algorithms) | pack, verify, match | limits, overlapping rules | the digest determines the content |
| Harness adapters (`localcontext/harness_*.go`, `claude_hook.go`, `session_capture.go`) | session files, hook state | attach, restore, capture | partial restores | a restore is undone or complete |
| Artifacts (`localcontext/artifacts.go`) | objects by checksum, an index of versions, the manifest | publish, get | the files change under a publication; copies are killed; two publications | a version stays, and is what its checksum says |
| Knowledge, memory, derivation (`localcontext/knowledge.go`, `generation.go`) | derived files | derive, search | a source that changed since; regeneration replaces a directory | a derivation names the revision of its source |

`PROJECT.json` lists under "components" what is modelled, partly modelled and not modelled, and under
"hazards" each of the hard behaviours at the line where it bites.

## 2. Modules

| Module | Models | Checked by |
|---|---|---|
| `ContextUpload` | capabilities, uploads, freezes, publications, exports of one Context | `MCContextUpload`, `MCUploadScenarios`, the `Upload*` runs |
| `RevisionRegister` | the abstract register of revisions that `ContextUpload` implements | `RegisterSpec` in `UploadSafety` |
| `ContextUploadProofs` | proofs about both | tlapm |
| `ContextAccess` | grants, consumers, audit, deletion | `MCContextAccess`, the `Access*` runs |
| `ContextAccessProofs` | proofs about it | tlapm |
| `ContextSnapshots` | snapshots, clones, retention, collection | `MCContextSnapshots`, the `Snapshot*` runs |
| `ContextSnapshotsProofs` | proofs about it | tlapm |
| `BackupWorker` | commands, worker processes, files and the S3 push of one backup | `MCBackupWorker`, `BackupSafety`, `BackupRetarget` |
| `BackupWorkerProofs` | proofs about it | tlapm |
| `BackupSchedule` | when one worker attempts a backup | `MCBackupSchedule`, the run `BackupSchedule` |
| `LocalStore` | captures, snapshots, restores, clones, collection and derivation in the local store, with its lock | `MCLocalStore`, the `Local*` runs |
| `LocalStoreProofs` | proofs about it | tlapm |
| `ArtifactStore` | publication and retrieval of artifacts | `MCBackupSchedule`, the run `BackupSchedule` |
| `NativeRestore` | restores of captured sessions into a harness | `MCBackupSchedule`, the run `BackupSchedule` |
| `AgentMachine` | a machine with `BackupSchedule`, `NativeRestore` or `ArtifactStore` | `MCBackupSchedule`, the run `BackupSchedule` |
| `AgentMachineProofs` | proofs about the three of them | tlapm |
| `ContextSync` | kubectl push and pull, publication of revision and query index, queries | `MCContextSync`, `SyncSafety` |
| `MaterializeHelper` | what an upload helper does to the volume | `MCContextSync`, `SyncSafety` |
| `VolumeWriters` | a volume with `ContextSync` or `MaterializeHelper` | `MCContextSync`, `SyncSafety` |
| `VolumeWritersProofs` | proofs about both | tlapm |

The `MC` modules give the constants sets of model values, define the symmetries and divide an instance
into the kinds of behaviours that TLC checks apart: a behaviour of `MCUploadScenarios` or `MCLocalStore`
has one scenario, one of `VolumeWriters` or `AgentMachine` one of two or three modules that share no
state, chosen at the start. Definitions
marked `Mutant` are used by nothing in the specifications: each is a plausible bug in the definition
that follows it, and `PROJECT.json` names the property that catches it.

### 2.1 ContextUpload

One Context under a fixed name and the requests to one service process. A step of a thread is one
Kubernetes call, one operation on the upload lock or one access to the capability table, which its
own mutex makes atomic. `pvc` is the object now stored under the name (UID, current revision, frozen
pin, history, whether it is being deleted), `storage` the revisions on each volume, `pod` the helper
pods, `caps` the capability table, `lock` the upload locks, `pc` and `req` the program counter and the
local variables of every request. `redeemed`, `touched`, `lost` (capabilities that published
without learning of it) and `left` (helpers at work that a restart or a failed cleanup left behind) are history variables.

| Code | Actions |
|---|---|
| `issueContextUpload`, `put` (purges expired items) | `IssueAuthorize`, `IssuePut` |
| `redeem`, `finish` | `UploadBegin`, `UploadRefused`, `UploadFinish`, `Expire` |
| `UploadContext` | `UploadGet`, `UploadLock`, `UploadRecheck`, `CreatePod`, `PodReady`, `StreamEnds`, `CleanPod`, `PublishGet`, `PublishUpdate`, `UploadUnlock`; failures: `CreatePodFails`, `PodNotReady`, `StreamFails`, `CleanPodFails`, `AbortPod`, `PublishConflict` |
| `FreezeContext` and its handler | `FreezeAuthorize` ... `FreezeUnlock` |
| `ExportFrozenContext` and its handler | `ExportAuthorize`, `ExportCheck`, `ExportRecheck`, the pod actions |
| Kubernetes, helper pods | `CreateContext`, `DeleteContext`, `FinalizePVC`, `PodMount`, `PodKilled`, `HelperWorks`, `HelperRejects` |
| the process stops and starts | `Restart` |

The comparison of the stored object with the one that was read (`Unchanged`) stands for the
`resourceVersion`: every write of this module changes the object for good, so an equal object is an
unchanged one. Changes of metadata other than revisions can still cause a conflict, which is the
fault `"conflict"`. Fields of `req` that the code no longer uses are reset, which keeps states that
differ in nothing the code can see from being told apart.

### 2.2 ContextAccess

The same PVC seen from the access metadata: `grants`, `consumers`, `audit` in `pvc`, the pods that
mount the claim in `mounts`. A request first checks its permissions, one `AccessContext` at a time
(`Authorize`), and then acts on what it reads anew. `updateAccessMetadata` is `GetMetadata`,
`UpdateMetadata`, `UpdateConflict`; `deleteContext` is `DeleteGet`, `DeleteConsumers`, `DeletePods`,
`DeleteIndex`, `DeletePVC`, then `FinalizePVC` once no pod is left. `log` is the history of
acknowledged changes, by which `NoChangeLost` says what each grant and each consumer must be (the last change of it), `steady` the consumers and pods that were there when a deletion was requested and
have been since.

### 2.3 ContextSnapshots

`source` is the Context (what is on its volume, current revision, retention policy), `snapshots` the
VolumeSnapshot under each name with an identity of its own, `clones` the PVCs made of them. The CSI
driver cuts a snapshot some time after it was created (`SnapshotCut`) and provisions a clone some time
after that (`Provision`). `GarbageCollectContextSnapshots` is `CollectPolicy`, `CollectList`,
`CollectCheck` (once per listed snapshot: it lists the PVCs each time) and `CollectDelete` (by name).
The sort by creation time leaves the order within one second open; so does `Newest`.

### 2.4 BackupWorker and BackupSchedule

`BackupWorker` has the files under `.backup/` (`lock`, `config`, `status`), the S3 target (`objects`,
`current`), the commands being typed and the worker processes, each of which advances by one file
operation or S3 call. `startBackup` is `StartBegin` ... `StartSpawn`; `stopBackup` is `StopRead`,
`StopSignal`; `runBackup` before its loop is `WorkerConfig` ... `WorkerRecord`; `backupAttempt` is
`Attempt`, `Export`, `PushPut`, `PushVerify`, `PushPoint`, `WorkerSave`; its deferred calls are
`WorkerStops`, `WorkerUnrecord`, `WorkerUnlock`. A failing call may or may not have taken effect.
`status.target` is a history variable. When the worker attempts a backup is left open here and is the
subject of `BackupSchedule`, which counts polls of the ticker: `Poll` is one turn of the `select` and the
test of `next` after it, `AttemptEnds` sets `next` as the code does. Instants are kept as what is left
and what has passed, so the schedule needs no bound on time.

### 2.5 LocalStore

The directories under `~/.contexts`: `tree` is the portable content of each context (the project of
Claude with the siblings that `replaceTree` makes, a session file with its temporary, generated records),
`manifest`, `index` and `objects` are `manifest.json` and the two parts of `.snapshots/`, `lock` is
`.capture.lock`. A process (`pc`, `req`, `mem`) is a `contextctl` command or a hook; a step is one file
operation.

| Code | Actions |
|---|---|
| `acquireCaptureLock` | `Acquire`, `SeeStale`, `RemoveStale`, `TimeOut`, `LockAges`, `Unlock` |
| `CaptureClaude`, `replaceTree` | `CaptureStart`, `Copy`, `Copied`, `MoveAside`, `Install`, `Sweep`, `Record` |
| `CaptureSessionFile`, `CaptureSessionExport`, `PublishRevision` | `SessionStart`, `Write`, `Rename`, `PublishStart`, `Record` |
| `CreateSnapshot`, the safety snapshot of a restore | `SnapshotStart`, `SnapIndex`, `SnapExport`, `SnapManifest`, `SnapList` |
| `RestoreSnapshot` | `RestoreStart`, `Select`, `Stage`, `SwapOut`, `SwapIn`, `Restored` |
| `CloneSnapshot` | `CloneStart`, `CloneImport`, `CloneRecord` |
| attach and detach, `SetRetention`, `GarbageCollect` | `AttachStart`, `Attach`, `RetainStart`, `SetRetention`, `CollectStart`, `Collect`, `Prune` |
| `derive knowledge`, `installKnowledgeDirectory` | `DeriveStart`, `Source`, `Prior`, `Displace`, `Place` |
| errors and their clean-up, kills | `CommandFails`, `CaptureFails`, `SwapFails`, `CloneFails`, `PlaceFails`, `Crash` |

A revision is the digest of paths and contents, so it is named by the content itself; two equal digests of
different content do not occur. The generated records are a function of the revision they were made from.
Because `replaceTree` works inside of the portable root, what a killed capture leaves (`.staging`,
`.previous`) is part of the content and of later revisions, in the model as in the code. Leftovers
outside of it (the stage of a killed restore, temporaries of manifests) are in no state the code reads
again and are left out.

### 2.6 ContextSync

Each pusher has a `local` content and the revision `recorded` in its manifest. `Change` is a capture or a derivation that
installs new content under the revision of the old (`WriteKnowledge`, `knowledge.go:135-162`), `Record` its `PublishRevision`
after it, which a kill leaves out. A push is `Start`, then `ReadManifest`, which takes the recorded revision for the label
without comparing it with the content (`PublishLocal` records one first where there is none), `Export`, `Upload`,
`Verify`; it then waits for the publication script in its pod (`Move`, `Point`), which goes on when the client
is gone (`ClientStops`) until the pod dies (`ScriptDies`); `Publish` is the revision in the service,
`Records`, `Check`, `Read`, `Write` the query index, a config map that is updated at the version that was
read. Readers pull (`PullStart`, `Pull`) and query (`QueryStart`, `Query`). What the search returns is
not modelled, only which records it searches. `drifted` is the history of revisions that were pushed while
the content was another.

### 2.7 MaterializeHelper

One helper per upload, beside helpers the service has lost (`Abandon`). A helper unpacks into one directory, which bears three
names in turn: `where` it is (`.context-import-*`, `upload-<pod>`, or a digest: `named`), which `files` it has. What a bundle holds
is two groups of files, early and late.

| Code | Actions |
|---|---|
| `cleanupUploadStaging` | `List` (the names), then for each `os.RemoveAll`: `OpenDir`, `Unlink` entry by entry in the open directory, whatever its name is by then, `RemoveDir` by the old name; `Cleaned` |
| `importReader` | `Unpack` (early, late), `Install` (rename to `upload-<pod>`) |
| `materializeUploadWithLimit` | `Hash`, `Place` (rename to the digest, or one is found there), `Lock` and `Verify` (compare what is there) |
| `runUploadHelper` | `Exit`: the result is written and the process ends; errors and kills are `Fails`, `Kill` |

`followed` is the history of directories that were renamed while a helper that takes them for leftovers had them open and
names left to unlink in them. Only in those is content lost once they have a name. Deletion of such a directory by a helper while
its owner still adds to it, a walk that misses a file, and a digest of what was left are all in the model.

`ContextUpload` has all of this as the step `HelperWorks`, which fails
or leaves the whole revision: `MaterializedExact` is what that step assumes. `VolumeWriters` gives the mapping
(`Service`, an instance of `ContextUpload`): a helper is a pod that is running until it is sent a bundle and working until it has placed
a revision or failed; it is done then if the name is that of the whole bundle, rejected otherwise. The volume of the service is the set
of bundles under whose whole digest a directory is. `HelpersWorkAtOnce` says that every step is then `HelperWorks`, `HelperRejects` or `PodKilled`
of `ContextUpload`, the sending of the bundle (the part of `PodReady` that concerns the pod), or none. A helper that is killed between
the rename and its exit is, in `ContextUpload`, a pod that worked and was killed before it answered: the revision is on the
volume, and the upload fails and publishes nothing. TLC has no run of it, because it is a theorem.

### 2.8 NativeRestore

`harness` is one of Claude, Codex, OpenCode and Pi; `native` has each session of the harness by the place
its file is in: where a restore writes it, elsewhere (`"named"`, a Codex rollout with another time in
its name), or archived. `job` is what a restore knows. `RestoreCodex` and `RestorePi` are `List`, then for every
session `Find`, `FindArchived`, `Compare`, `Decide`, and once the plan is complete `Link` (or `Create`,
`Fill` without hard links); `RestoreOpenCode` is `AskOpenCode` and `Import`; `RestoreClaude` is
`CheckProject`, `Create`, `Fill`. `Refuse` is an error before the first write; `Exit` ends a command. The
harness goes on meanwhile: sessions continue, are archived, removed and captured. `job.touched` is the
history of the sessions the harness used. The capture lock is abstract here: it is held while a restore
runs, and that of a killed process is free. Temporaries `.restore-*.tmp` and empty directories are not
modelled; a compressed Codex rollout counts as a copy that differs. OpenCode's own import is external.

### 2.9 ArtifactStore

`input` is the workspace the files come from, `objects`, `items` and `manifest` the artifacts context.
`PublishArtifacts` is `Start` (reads the manifest), `Create`, `Acquire`, `ReadIndex`, per file
`Checksum`, `Open`, `Copy`, then `Truncate` and `WriteIndex` (`writeJSONFile` rewrites `index.json` in place), `Record`, `Unlock`;
`GetArtifact` is `Get`, `GetCopy`, `GetVerify`. Between `Truncate` and `WriteIndex` the index is `torn`: `items` is then what was last
written whole, which nobody can read. A publication that finds it torn ends (`RefuseIndex`), and so does a retrieval, which reads it without
the lock (`GetRefused`). The agent rewrites files at any time (`Edit`). `spoiled` is the history of checksums whose
copy was killed or whose file changed in between. A stale lock is taken over in one step.

## 3. Runs

Each takes between a second and three minutes with two workers.

| Run | What it shows |
|---|---|
| `UploadSafety` | in all four scenarios: no freeze lands in an upload (`FreezeExcludesUpload`), a pin never moves (`FrozenNeverMoves`), an upload publishes only what is on the volume (`UploadedIsMaterialized`), a capability has at most one success and, unless a reply was lost, one publication (`PublishedOnce`), an export reads only the storage and the revision it was authorized for, imports to one PVC are serial, except helpers that a restart or a failed cleanup left behind and helpers that mounted a recreated PVC (`ImportsSerial`), and `ContextUpload` implements `RevisionRegister`: its history is append-only and ends in the current revision, which is the frozen one of a frozen Context |
| `UploadLiveness` | with every fault: every request ends, no capability stays in flight |
| `AccessSafety` | no acknowledged change of grants or consumers is lost; the trail is the last events in order; an unforced deletion never removes a Context under a consumer or pod that was there all along |
| `SnapshotSafety` | a clone holds the revision it is labelled with, uploads and publications going on; snapshots referenced when a collection began, protected ones and the newest survive it, while snapshots are created and the policy changes |
| `BackupSafety` | commands one after the other, kills, failing and corrupting calls: one transfer at a time, a truthful status, a remote pointer that moves forward and only to verified objects; a worker that is left running brings the last content to the target |
| `BackupSchedule` | events are served within the debounce and a poll; without events the interval and the retry delay are kept to the poll. Restores into a harness never replace, duplicate or tear a session (`NativeKept`, in `NothingReplaced`); one that refuses has written nothing, one that succeeds has restored everything (`RestoreHonest`); no restore waits for ever. An index of artifacts that can be read lists all versions it ever listed, in their order, and one that a kill cut off is refused rather than replaced by an empty one (`VersionsStay`, in `NothingReplaced`); each has an object that is what its name says, unless its copy was killed or its file changed under the copy; a retrieval that succeeds gives the bytes of the version; without faults the manifest names the content although it is read too early (`ArtifactsExact`) |
| `LocalSafety` | in all six scenarios: every listed snapshot has an object with exactly its content, and restores and clones are what they name as their source (`SnapshotsExact`); what a restore replaces is in a snapshot (`RestoreKeepsOld`); protected and referenced snapshots stay (`SnapshotsKept`); histories are only appended to (`HistoryKept`); with killed and failing commands |
| `SyncSafety` | the pointer on the volume names a whole bundle whatever was lost or died; answers of the query index are of the revision the query read, unless that was pushed while the content was another; a materialized digest names exactly that content, beside lost helpers and killed ones, unless it was renamed under one that removed it, and what the service is told is the whole bundle |

The scenarios of `UploadSafety` (`MCUploadScenarios`): *Freezing*, two revisions with conflicts, lost replies
and restarts; *Failing*, two helper pods with cut streams and failing cleanups; *Recreating*, every
operation with a second PVC under the name and two helper pods; *Contending*, two capabilities and two
helper pods. `AccessSafety` and `SnapshotSafety` are divided in two by a constraint of their `MC` module: the
owner and the administrator change grants and consumers, or the owner changes consumers of a Context
that is mounted, deleted and recreated; clones while revisions are uploaded within one second, or
retention by number and age over three seconds. The scenarios of `LocalSafety` (`MCLocalStore`):
*Captures* of both kinds and attachments by two processes, killed anywhere; *Restores*, of snapshots taken
between captures, beside a collection; *Collections*, of snapshots that share an object, while the policy
changes; *Clones*, and collection in the cloned context; *Derivations*, of knowledge that is restored
and generated again; *Regenerations*, killed at any point.

Four runs expect a violation. Each checks a sentence of the documentation that the code does not keep
in every interleaving; `PROJECT.json`, "findings", quotes the sentence and the lines.

| Run | Sentence | What happens |
|---|---|---|
| `UploadRecreated` | a recreated PVC invalidates a capability | recreated after the last UID check: the pod and the publication resolve the name |
| `AccessDeletionRace` | a Context with consumers is not deleted unless forced | a consumer attaches between the check and the deletion |
| `BackupRetarget` | status reports the last successful revision | the recorded revision is not tied to the target |
| `LocalRegenerate` | protected and referenced snapshots are always kept | knowledge generated again replaces the directory of the context, snapshots included |

### Preconditions, and what breaks without them

The other properties hold under conditions that are part of their statement or of their run. TLC shows
why each is needed when it is taken away:

* `ImportsSerial`: with a cut stream (`context_upload.go:132`) whose cleanup fails, the helper goes on importing
  while the lock is released, and the retry starts a second one; after a restart nothing remembers the lock. And when
  the Context is recreated, the pod of an upload to the old PVC mounts the new one by its name, while an upload that holds
  the lock of the new one runs: what `UploadRecreated` shows of capabilities, seen from the volume.
* `SteadyReferencesStay` speaks of references that were there when the collection began: a clone made
  between the check and the deletion (`context_lifecycle.go:209-222`) loses its snapshot.
* `ProtectedStay` is checked with one collection at a time (`Collectors`): a second one deletes, by name,
  a protected snapshot that was created after the first had freed the name.
* `TransfersNeverOverlap` is checked with `Sequential = TRUE`: a command typed while a worker has its lock and
  has not recorded its pid yet removes that lock (`backup.go:80`, `238-247`), and two workers push.
* `BackedUp` is checked without the fault `"back"`: the recorded revision is the one read before the push
  (`backup.go:293`, `303`), so content that changes during an attempt and then changes back is not pushed again.
* `ScheduleKept` speaks of pauses without events: every event polled replaces the deadline, also a nearer
  one (`backup.go:285`), so events faster than the debounce put off the periodic attempt too.

Three modules have a constant `Calm`. It is TRUE in the runs and leaves out interleavings in which the code
gives no guarantee; with FALSE the named properties fail:

* `LocalStore`: attach and detach (`claude_hook.go:63`), `SetRetention`, `GarbageCollect` (`lifecycle.go:263-326`),
  clones and derivations rewrite a manifest or an index without the capture lock. They run beside anything
  that does not rewrite the same file; beside a command that does, one of the two writes is lost
  (`HistoryKept`, `SnapshotsExact`). A stale lock has one waiter at a time, a derivation that wants the lock of its source
  included, and a holder is never slow for five minutes
  (`store.go:232-234`): a second waiter removes the new lock of the first, and two captures of one
  context tear its content.
* `HistoryKept` ends where a derivation is killed between its renames (`knowledge.go:297-305`): the old directory stays under
  `.context-previous-...`, which nothing reads again, and the next derivation starts a new history. An error at the
  second rename puts it back.
* References that are made while a collection runs are not seen by it (`lifecycle.go:263-326`): `SnapshotsKept`
  speaks of those that were there when it looked.
* `MaterializeHelper`: a helper the service has lost is not removing leftovers (`main.go:284-297`); only `Abandon` is restricted. One that
  lists and opens the staging directory of the next helper takes its early files away; that helper then installs the late ones and
  reports a revision of half of the bundle: the digest is true, the content is not what was sent
  (second half of `MaterializedExact`).
* `NativeRestore`: no capture replaces the project that `RestoreClaude` copies without the lock
  (`store.go:262`), which would give a mixture; and OpenCode sessions are restored by one process at a time,
  because `opencode import` is asked first and told later (`RestoreHonest`, `NothingReplaced`).

Two exceptions need no such constant, because the properties name them (`drifted`, `followed`):

* `AnswersAreCurrent` leaves out revisions that were pushed while the content was another. A derivation that is killed between
  `installKnowledgeDirectory` and `PublishRevision` (`knowledge.go:157-163`) leaves new content under the revision of the old. The next push publishes
  that revision with the new bundle and the new records (`contextctl/main.go:692-704` does not compare), although nothing changes meanwhile,
  and answers name a revision their records are not from, where `docs/context-query.md:4` says that results identify it. The same
  happens when the content changes between the manifest that is read first and the records that are read last.
* The first half of `MaterializedExact` leaves out directories that were renamed while a helper was removing them. `os.RemoveAll` works in
  the directory it has opened and follows it to `upload-<pod>` (`bundle.go:489`) and to its digest (`main.go:267`): files may then be
  missing under a digest, also while it is hashed. Such a directory keeps its name, a later upload of the same content finds it and
  refuses it (`verifyMaterializedRevision`), or takes its place when it is empty by the time of the rename. One of the two helpers is a lost one.
  With `Calm` it is the one whose directory is removed, so the service is told of the revision only by a later helper that has found it exact,
  which is the second half of the property.

`ArtifactStore` has no such constant, and every interleaving but a holder of the lock that is slow for five minutes.
Its properties name what the code does not give. An object is created under its final name and filled there
(`copyArtifactFile`, `artifacts.go:282`), from a file whose checksum was taken before: a publication killed in the copy, or
a file rewritten under it, leaves other content under a checksum, which every later publication takes for the object
and every retrieval refuses (`spoiled` in `ObjectsExplained`). The manifest is read before the lock is taken (65)
and written back at the end (146): of two publications at once one loses its entry in the history, which no
property claims, while the current revision is right (`ManifestNamesContent`). `index.json` is truncated and written in
place (`artifacts.go:138`, `knowledge.go:231-236`): a kill or an error there leaves every version unlistable, and every later publication and
retrieval refused, for good (`IndexReadable` allows it after a fault). `VersionsStay` says only that nothing takes such an index for
an empty one.

### Bounds

* Two requests at a time. The interference between requests is pairwise: a lock has one holder and one
  that is refused or waits, an update has one writer that read too early. Requests start again and
  again, so sequences of operations are not bounded by the number of threads.
* `MaxUid = 2` where recreation matters: the storage a request was authorized for and the next one.
  `MaxHistory` and `MaxChanges` stop new *requests*, not the ones under way, so the histories get
  longer than the bound by one per thread. `MaxAudit = 2` (100 in the code) with changes and a creation
  makes the trail overflow.
* `MaxTries = 2` (5 in the code): a write that succeeds at once, after a conflict, and never.
* Snapshots: three names, four snapshots over time (two while clones are made), one clone, two
  revisions, a clock that ticks twice: older than, as old as and younger than the limit.
* Backup: three workers, so that one can take over from one that took over; three revisions and two
  faults. `MaxFaults` also bounds failures for `BackedUp`: without a bound nothing need ever succeed.
* `BackupSchedule` has no bound on time; `MaxIdle` caps the counters above every value that a property
  compares them with. The values keep the order of the code's (debounce and first delay < largest
  delay < interval).
* Local store: two processes where the interleaving matters, one where the sequence of commands does; three to
  five commands: two captures, two snapshots and a collection or a restore; one kill, one error; two
  contents, one or two names. Retention is by number and by age, 0 or 1 of each: the age of a snapshot is its place
  in the order of creation.
* Artifacts: two publishers, three publications of one or two files with two contents, one rewritten file, one
  fault, one retrieval: enough for a killed publication that is repeated, for two at once, and for one that lists a version, one
  that is killed in the write of the index, and one that finds it cut off.
* Synchronization: two pushers with two pushes or changes of the content each, one reader that reads again and again, two faults: enough
  for a change that is not recorded and a push of it, beside a push of the other; three helpers and one kill, so that one may be lost, one
  killed, and a third remove what they leave.
* Restores: two processes, one restore each or two of one; two contexts, of which one has captured both sessions
  and the other one of them; at most one session in the harness at the start; one step of the harness and one
  fault. A file system without hard links is combined with Pi, whose writes are those of Codex.
* Symmetry is used for threads, pods, revisions and names, never in a run that checks liveness.
* `CHECK_DEADLOCK FALSE` is said only where the model can really stop: a Context that has had all its
  changes, workers that have all ended, commands, pushes and publications that are used up. In the other runs no deadlock is part of what is shown.

### Fairness

`ContextUpload`: weak fairness of each thread (a goroutine runs, a Kubernetes call returns) and of each
pod (the kubelet starts it, the helper ends or its deadline kills it). `UploadLock` needs strong fairness:
`sync.Mutex` hands the lock to a waiter that has waited for a millisecond, so a lock that is released
again and again is acquired in the end. Nothing is assumed of clients. `BackupWorker`: weak fairness of
commands and of workers (the operating system schedules them, the ticker of the loop fires). The delays of
`BackupSchedule` are finite, which makes the choice to attempt at any time a fair one.

## 4. Proofs

Proved with tlapm for every value of the constants that satisfies the assumptions of the modules
(`UploadAssumption`, `AccessAssumption`, `PodsAreNoConsumers`, `SnapshotAssumption`, `WorkerAssumption`,
`ScheduleAssumption`, `MachineAssumption`, `SyncAssumption`, `WriterAssumption`, `StoreAssumption`, `ContentAssumption`: `None` is no thread, capability, pod, revision
or content, no content is half of one, bounds are natural numbers, an interval is positive, a pod is not also called a consumer). A hypothesis beyond them is part of the
theorem's statement, and named below with what it stands for. Every proof module has the same layout: the
strengthened invariant `IInv` in named parts, lemmas about the operators, one lemma per part or per group of actions that a
step keeps it, `Invariance`, and the theorems.

**`ContextUploadProofs`.** The first invariant is
`IInv == ThreadsOK /\ TableOK /\ ObjectOK(pvc) /\ LockHeld /\ FreezeExcludesUpload`. `ThreadsOK` and
`TableOK` are types. `ObjectOK` says of an object that the pin is the current revision, that the history
ends in it and repeats nothing; `ThreadsOK` demands it also of the copy a request read, because an
Update writes a copy back. `FreezeExcludesUpload` alone is not inductive: a freeze is kept out of an upload
by the lock, so `LockHeld` says that a thread between the locking and the unlocking of a storage holds that
lock, and that what a freeze read is of the storage whose lock it holds. `InitIInv`, one lemma per group of
actions and `NextIInv` give `Invariance`; from it follow

* `TypeCorrect`: `TypeOK`;
* `FreezeExclusion`: `FreezeExcludesUpload`, an invariant of `UploadSafety`;
* `FrozenPinsCurrent`, `HistoryCurrent`: the pin is the current revision, and the history ends in it. The run checks
  both through `RegisterSpec` only, which implies them;
* `FrozenForever`, `AppendOnly`: action properties, by a step lemma each (the second again through `RegisterSpec`);
* `ImplementsRegister`: `Spec => RegisterSpec`: the initial state maps to the register's, and every
  action to one of its operations or to a stuttering step.

The second invariant, `UploadInv`, rests on the first. It follows a helper from its pod to the history: a pod belongs to
the request that created it and works for it (`PodsOwned`), what it mounted is the PVC still, because a PVC in use is not
finalized (`MountsCurrent`), what it has done is on that volume (`DoneIsStored`), and what an upload is about to publish or has
published is on a volume the Context has had (`UploadsStored`). `UidsGiven` bounds every UID in use, so that with
one PVC there is one volume. Of capabilities, `CapsOwned` says that one has one request at a time, and none once
it was answered with success; `PublishedOK`, that who has published is on its way to a successful answer or has
consumed the capability; `ImportsAttended`, that a helper that imports and was not left behind has a request waiting for it, which holds the lock.

* `Materialized`: `UploadedIsMaterialized`, and `ExportsArePinned`: `ExportReadsPinned`, both without conditions;
* `PublishedAtMostOnce`: `PublishedOnce`. One success per capability holds without conditions; one publication, of
  capabilities that are not `lost`: an update that took effect and whose reply was lost is published again by the retry;
* `ImportsAreSerial`: `ImportsSerial`. A helper that was not left behind has a request that waits for it and holds a lock;
  when the helper mounted the volume of that request, it is the lock of this volume, and two of them would be one.

**`ContextAccessProofs`.** `IInv` says what a request knows at each label, that the trail is the end of the history of changes (an
Update writes back what was read only if the object is still that), and what a deletion has found absent (`SteadyOK`): what was there when
it began is there still; once the consumers were read it can only be a pod, and once the pods were listed there is none.
`LastEventsAppend` is the reason the trail may be cut at every change: the last events of the last events
and a new one are the last events of them all. `AuditIsTheRecentHistory` and `SteadyConsumersSpared` follow, and
`ChangesAreApplied`: each acknowledged change takes the stored grants and consumers to what that change gives. `NoChangeIsLost`
(`NoChangeLost`) is inductive with it: a change that is appended is the latest of its subject or consumer
(`PlacesAppend`) and has the effect its record says (`AppliedEffect`), and the latest of all others stays what it was.

**`ContextSnapshotsProofs`.** `LabelsOK`: a revision that labels a snapshot, a clone or a request under way is on the volume,
and in the snapshot when that was cut. Volumes only gain revisions, so this survives the deletion of a snapshot and
the reuse of its name, and `CloneLabelsHold` (`CloneHoldsRevision`) needs no condition. `SteadyOK` and `OwnReferencesAreKept` do not either:
one collection never deletes what was referenced when it began. With several at once a second one may delete, by name, what the first
would have kept: `ListedOK` (the list of a collection is still true) and `NewestOK` (the snapshots kept for their number are
there and as new) hold with `OneCollector`, and so do `ProtectedAreKept`, `SteadyReferencesAreKept` and `NewestAreKept`. The last one
is an argument about cardinalities: what a collection spares is a set of the required size, and stays one.

**`BackupWorkerProofs`.** `CommandsApart` and `OneOwner` say how the lock directory and the pid in the status file keep
workers apart: from the removal of a dead worker's lock to its own last step a worker is the only one there, the lock is
taken, and the status names it. They hold when each command waits for those before it to settle (`Sequential`, the value in
`BackupSafety`). From them, `NeverOverlap` (`TransfersNeverOverlap`) and `PointerVerified` (`PointerMovesToVerified`: no
other worker overwrites the object between its verification and the move of the pointer). `InFlight` orders the
revisions a worker has in hand between the remote one and the content, which needs content that only moves on
(`Forward`, no fault `"back"`): `RemoteMovesOn` (`RemoteNeverGoesBack`). `StatusTrue` (`StatusIsStored`) needs one target as well
(`OnlyTarget`); the run `BackupRetarget` shows it fail with two.

**`AgentMachineProofs`.** About `MachineSpec`, whose parts have one invariant each; `MachineInv` is the conjunction, and
`MachineInvariance` follows because the other parts stand still.

`IInv == TypeOK /\ Bookkeeping` is that of `BackupSchedule`; `Bookkeeping` relates the counters in every
phase: idle and due add up to the pause while no event was seen, and a quiet event has at most the
debounce to go. `EventsServed` is not inductive without the second. `Invariance` gives
`ScheduleTypeCorrect`, `CaptureServed` and `PauseKept`; `RetryDelayGrows` is a theorem about the delay alone.

`NativeInv` follows a restore from its plan to its answer. `JobOK`: nothing is written before every captured session was looked at,
whence the first half of `RestoreHonest`. `PlacesOK`: a planned session has no copy but the one the restore will write, and while
it is looked for, none but those found, those still to be looked for, and what came up where it will be written; the latter
the exclusive creation then refuses. `FillOK`: a file that appears half written has one writer, `WholeOK`: and never exists where
there are hard links, so no half of one is captured either. `SettledOK`, which needs `Calm`: every captured
session is still to be looked at, planned, or there as captured with nobody writing it, unless the harness touched it
since (`touched`); at the end only the last is left, which is the second half of `RestoreHonest`. `RestoresAreHonest` and `NothingIsReplaced` have `Calm`
as a hypothesis; `FillOK`, `PlacesOK` and the types do not need it.

`ArtifactInv` rests on `LockOK`: the lock has one holder, who alone changes the content. `HolderOK` says what the holder
will write: the index in its hand extends the one last written whole and lists only versions with an object (`WriteIndex` is then
harmless, and one killed before leaves objects that nobody lists), and an object it is about to create is listed nowhere, so that to remove it on failure
takes nothing away. A holder past `ReadIndex` has found the index whole, so it is torn in its own hands or after a fault only.
`Wellformed`: no version twice. `RecordedOK`: without faults, a lock that is not free has a holder, and the last holder has
made the manifest's current revision the content, whatever manifest it had read before; with one fault it claims nothing, as the property.
Hence `ArtifactsAreExact` and `VersionsAreKept`. They need no condition, and the second claims nothing of an index that is cut off but that it stays so:
that an index remains readable under every kill is false.

**`VolumeWritersProofs`.** A behaviour of `WriterSpec` is one of `ContextSync` and one of `MaterializeHelper`, of which one stutters
(`WritersImplementParts`), so what is proved of the specification of either holds for the volume.

Of `ContextSync`, `ScriptOK`: a publication script that is about to move or to point has verified what it moves, and
it belongs to the push that waits for it and to no later one, although it goes on when its client is gone. Objects are only placed whole
(`Placed`), hence `PointerIsComplete` (`PointerComplete`) and `ObjectsStay`. `AnswersCurrent` (`AnswersAreCurrent`) has no
condition: label and records of a push are of one content unless the label has drifted, from the moment the manifest was read,
and a label that has drifted never stops being named in `drifted`. `VolumeTypeCorrect` (`VolumeTypeOK`) needs
finitely many users (`IsFiniteSet(Pushers)`), whose pushes bound the version of the index (`Counted`).

Of `MaterializeHelper`, `HelperInv`. `FunctionsOK` is types; `HelperOK`, `DirectoryOK` and `RevisionOK` say which directory and which
digest a helper has at each step. `Named`: what has the name of a digest is the directory of one helper, which bears it; `Kept`: it has exactly the
files of the digest unless it is in `followed`, for only who had opened it as staging can unlink in it, and that was recorded at the
rename. Hence `NamesAreDigests` (the first half of `MaterializedExact`) and `PlacedStays`, with no condition on kills or lost helpers.
`OneAttended`, `Progress` and `WholeBundles` follow the helper the service waits for: with `Calm` nobody else is removing leftovers while it
unpacks, so its files grow to the whole bundle; this gives the second half, `DigestsAreExact` (`MaterializedExact`).
`HelpersAreAtomic` (`HelpersWorkAtOnce`) shows that the name of a whole bundle appears on the volume, if ever, in the step in which
a helper of that bundle places it, so `ContextUpload` may have the helper work in one step and be killed before or after. It needs no `Calm`, since a
helper that ends with part of its bundle counts as rejected; that this does not happen to a helper the service
waits for, and that the name then holds what it says, is `DigestsAreExact`.

**`LocalStoreProofs`.** The invariant has three layers. `BaseInv` is types: everything the files of a context name is content of its
own type. `StoreTypeCorrect` (`TypeOK`) needs no condition. `ExactInv` says what is true because of who writes
what when. `Exclusion`: two commands that rewrite the same file are not under way together unless both take the lock, and
then one of them holds it; a lock that is about to be removed is old, has one waiter and no holder. Its consequence `Alone` (and
`OneWriter`) is what everything below uses: what a command has read is still what is on disk when it writes. `DiskExact` is
the claim about the disk, `Midway` what each command in the middle has left there and remembers, label by label: that the
selected revision is a listed one, that the current content is listed before it is swapped out, that the object exists before it is
listed. Hence `SnapshotsAreExact` (`SnapshotsExact`) and `RestoresKeepOld` (`RestoreKeepsOld`). `KeepInv` says what will be written back
continues what is there: the manifest in hand has at least the entries on disk (`Ahead`), the index of a collection lists all it had to
spare, and a derivation between its renames holds the history of the directory that is aside. `Keeps` is the corresponding
fact about a step; one lemma per group of actions proves both, and `OthersAhead` that a step of another process
does not disturb it. Hence `SnapshotsAreKept` (`SnapshotsKept`), for which `InOrderOnto` counts the places a collection keeps, and
`HistoryIsKept` (`HistoryKept`). The last two layers hold with `Calm`, a hypothesis of each theorem; without it the
properties are false, as section 3 says.

**Only model-checked.** Liveness (`RequestsEnd`, `CapabilityReturns`, `BackedUp`): fairness and ENABLED
are beyond the prover. Every other property of a passing run is a theorem, and `HelpersAreAtomic` is one that no run lists. `BoundToStorage`, `AlwaysKept` and the other properties of runs that expect a violation are false.

## 5. Plan

In this order; what is done is marked.

1. `ContextUpload` with `RevisionRegister` and its proofs (done).
2. `ContextAccess` and its proofs (done).
3. `ContextSnapshots` and its proofs (done).
4. `BackupWorker` and `BackupSchedule` and their proofs (done).
5. `ContextSync` and its proofs (done).
6. `LocalStore` and its proofs (done).
7. `ArtifactStore` and its proofs (done).
8. `MaterializeHelper` and its proofs (done), and that it refines the single step `HelperWorks` of `ContextUpload` (done).
9. `NativeRestore` and its proofs (done).
10. Pure algorithms checked against reference definitions: the limits of an upload, ignore rules, the search and
    the cursor of a query.

## 6. Not modelled

Parsing of flags, printing, formats of requests and files, the text processing of the knowledge
commands, manifests and configuration: they keep no state that a property here could be about.
Validation of names, sizes and digests is left out of the modules where the inputs are already valid
ones. Requests for a list or a status change nothing and appear only where another operation depends on
what they read. Several replicas of the service are not modelled: capabilities and locks live in the
memory of one process, and the deployment has one (`deploy/`). Resolution of volume snapshot classes,
images and storage classes are reads of the cluster.

Of modelled components: deletion of a query index (`DeleteIndex` of `ContextAccess` is its step in a
deletion), the text search and ranking, packing and the matching of ignore rules
(pure text processing, for which a reference definition would be a second implementation), memory derivation
(it makes a new context each time), the settings files of the harnesses, the formats of hook events, media types
and provenance of artifacts, and a pull from S3, which reads the pointer and the object as `PullStart` and `Pull`
do. A `Create` that is killed between the directory and its manifest leaves a name that can neither be
read nor created again (`store.go:115-123`): the model creates both in one step. A clone that is killed between
its two writes keeps the history of its source; the model has the state, and `HistoryKept` starts after it.
