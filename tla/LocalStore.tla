----------------------------- MODULE LocalStore -----------------------------
(* The local store of contextctl (internal/localcontext): a directory per   *)
(* context with its portable content, manifest.json, the snapshot index and *)
(* the snapshot objects. Several contextctl processes work on it at once    *)
(* (commands, harness hooks), each one file operation at a time; a lock     *)
(* directory in the context orders those that take it. A process may be     *)
(* killed between any two steps.                                            *)
EXTENDS Integers, Sequences, FiniteSets

CONSTANTS
  States,     \* names of contexts of type state
  Knowledge,  \* names of contexts of type knowledge
  Existing,   \* those created before
  Procs,      \* contextctl processes running at a time
  Versions,   \* contents of a captured project, a session file, generated records
  Names,      \* snapshot names users give
  None,       \* no content, no revision, no context
  Torn,       \* a half-written file or directory
  Ops,        \* the commands of this instance
  Calm,       \* TRUE: a command that rewrites a manifest or index without the
              \* lock does so alone, and a stale lock has one waiter
  MaxOps,     \* bound: commands started
  MaxCrashes, \* bound: processes killed
  MaxFailures \* bound: commands that end with an error of the file system

Contexts == States \cup Knowledge
LockedOps == {"capture", "session", "publish", "snapshot", "restore"}
UnlockedOps == {"clone", "attach", "retain", "collect", "derive"}

ASSUME StoreAssumption ==
  /\ States \cap Knowledge = {} /\ Existing \subseteq Contexts
  /\ None \notin Contexts \cup Versions /\ Torn \notin Versions \cup {None}
  /\ Ops \subseteq LockedOps \cup UnlockedOps
  /\ Calm \in BOOLEAN /\ {MaxOps, MaxCrashes, MaxFailures} \subseteq Nat

VARIABLES
  tree,     \* context -> portable content
  manifest, \* context -> manifest.json
  index,    \* context -> .snapshots/index.json
  objects,  \* context -> .snapshots/objects, by revision
  lock,     \* context -> .capture.lock: "free", "held", or "old" (over five minutes)
  pc, req,  \* the processes and their arguments
  mem,      \* what each process has read and not written back; spared, the
            \* snapshots a collection had to keep, is history
  left, crashes, failures

vars == <<tree, manifest, index, objects, lock, pc, req, mem, left, crashes, failures>>
disk == <<tree, manifest, index, objects>>
budget == <<left, crashes, failures>>

-----------------------------------------------------------------------------
(* Data. The portable content of a context, file by file: the project tree  *)
(* of Claude with the siblings replaceTree makes, a session file with its   *)
(* temporary. The records of a knowledge context name the revision of their *)
(* source, and are a file that holds it.                                    *)
Parts == {"project", "staging", "previous", "file", "tmp"}
Empty == [x \in Parts |-> None]
StateTrees == [Parts -> Versions \cup {None, Torn}]
ContentOf(c, t) ==
  IF c \in Knowledge
  THEN t = Empty \/ (t.file \in StateTrees /\ t = [Empty EXCEPT !.file = t.file])
  ELSE t \in StateTrees

\* No content is the sign for none or for half of one.
ASSUME ContentAssumption ==
  {None, Torn} \cap (StateTrees \cup {[Empty EXCEPT !.file = t] : t \in StateTrees}) = {}

NoManifest == [live |-> FALSE, current |-> None, history |-> <<>>, attached |-> FALSE]
NewManifest == [NoManifest EXCEPT !.live = TRUE]
NoIndex == [keepLast |-> 0, maxAge |-> 0, items |-> <<>>]
NoObjects == [r \in {} |-> Empty]
NoDir == [tree |-> Empty, manifest |-> NoManifest, index |-> NoIndex, objects |-> NoObjects]
NoMem == [manifest |-> NoManifest, index |-> NoIndex, selected |-> None, staged |-> Empty,
          aside |-> NoDir, spared |-> {}]
NoReq == [op |-> "none", ctx |-> None, dest |-> None, value |-> None, name |-> None,
          flag |-> FALSE, no |-> 0]

\* revisionUnlocked: the digest of all portable files and their paths, the same
\* for the same content only, and named here by the content itself.
RevisionOf(c) == tree[c]

Items(c) == {index[c].items[i] : i \in 1..Len(index[c].items)}
Entries(m) == {m.history[i] : i \in 1..Len(m.history)}
Last(s) == s[Len(s)]

\* Mutant: the current revision is not set to the new entry.
RecordedUnset(m, t, op, sources) ==
  IF m.current = t /\ m.history # <<>> THEN m
  ELSE [m EXCEPT !.history = Append(@, [id |-> t, op |-> op, sources |-> sources])]

\* recordRevisionUnlocked: content that is the current revision adds no entry.
Recorded(m, t, op, sources) ==
  IF m.current = t /\ m.history # <<>> THEN m
  ELSE [m EXCEPT !.current = t,
                 !.history = Append(@, [id |-> t, op |-> op, sources |-> sources])]

\* snapshotReferenced: some recorded revision of a context names revision r of c as its source.
Referenced(c, r) ==
  \E d \in Contexts : \E e \in Entries(manifest[d]) : <<c, r>> \in e.sources
MustKeep(c) == {s \in Items(c) : s.protected \/ Referenced(c, s.rev)}

-----------------------------------------------------------------------------
Init ==
  /\ tree = [c \in Contexts |-> Empty]
  /\ manifest = [c \in Contexts |-> IF c \in Existing THEN NewManifest ELSE NoManifest]
  /\ index = [c \in Contexts |->
                IF c \in Existing /\ "collect" \in Ops THEN [NoIndex EXCEPT !.maxAge = 1] ELSE NoIndex]
  /\ objects = [c \in Contexts |-> NoObjects]
  /\ lock = [c \in Contexts |-> "free"]
  /\ pc = [p \in Procs |-> "idle"]
  /\ req = [p \in Procs |-> NoReq]
  /\ mem = [p \in Procs |-> NoMem]
  /\ left = MaxOps /\ crashes = MaxCrashes /\ failures = MaxFailures

Goto(p, label) == pc' = [pc EXCEPT ![p] = label]
Recall(p, m) == mem' = [mem EXCEPT ![p] = m]
Exit(p) == Goto(p, "idle") /\ req' = [req EXCEPT ![p] = NoReq] /\ Recall(p, NoMem)

\* The files a command reads and writes back; those without the lock do it alone.
Rewrites(r) ==
  CASE r.op \in {"capture", "session", "publish", "attach"} -> {<<r.ctx, "manifest">>}
    [] r.op \in {"snapshot", "restore"} -> {<<r.ctx, "manifest">>, <<r.ctx, "index">>}
    [] r.op \in {"retain", "collect"} -> {<<r.ctx, "index">>}
    [] r.op \in {"clone", "derive"} -> {<<r.dest, "manifest">>, <<r.dest, "index">>}
    [] OTHER -> {}
Apart(r, q) == {r.op, q.op} \cap UnlockedOps = {} \/ Rewrites(r) \cap Rewrites(q) = {}

Start(p, label, r) ==
  /\ pc[p] = "idle" /\ r.op \in Ops /\ left > 0
  /\ Calm => \A q \in Procs : pc[q] = "idle" \/ Apart(r, req[q])
  /\ Goto(p, label)
  /\ req' = [req EXCEPT ![p] = [r EXCEPT !.no = left]]
  /\ left' = left - 1
  /\ UNCHANGED <<disk, lock, crashes, failures>>

StartLocked(p, r) ==
  /\ manifest[r.ctx].live
  /\ Start(p, "lock", r)
  /\ UNCHANGED mem

\* The context whose directory a process works in.
Home(p) == IF req[p].op = "derive" THEN req[p].dest ELSE req[p].ctx

-----------------------------------------------------------------------------
(* The capture lock: .capture.lock is a directory that says nothing of who  *)
(* made it. A waiter removes one older than five minutes and tries again.   *)
FirstStep(p) ==
  CASE req[p].op = "capture" -> "copy"
    [] req[p].op = "session" -> "write"
    [] req[p].op \in {"publish", "derive"} -> "record"
    [] req[p].op = "snapshot" -> "snap_index"
    [] req[p].op = "restore" -> "select"

\* Mutant: the lock is taken whether it is there or not.
AcquireAnyway(p) ==
  /\ pc[p] = "lock" /\ manifest[Home(p)].live
  /\ lock' = [lock EXCEPT ![Home(p)] = "held"]
  /\ Recall(p, [mem[p] EXCEPT !.manifest = manifest[Home(p)]])
  /\ Goto(p, FirstStep(p))
  /\ UNCHANGED <<disk, req, budget>>

\* Every command that takes the lock reads the manifest once it has it.
Acquire(p) ==
  /\ pc[p] = "lock" /\ lock[Home(p)] = "free" /\ manifest[Home(p)].live
  /\ lock' = [lock EXCEPT ![Home(p)] = "held"]
  /\ Recall(p, [mem[p] EXCEPT !.manifest = manifest[Home(p)]])
  /\ Goto(p, FirstStep(p))
  /\ UNCHANGED <<disk, req, budget>>

SeeStale(p) ==
  /\ pc[p] = "lock" /\ lock[Home(p)] = "old"
  /\ Calm => \A q \in Procs : pc[q] # "stale"
  /\ Goto(p, "stale")
  /\ UNCHANGED <<disk, lock, req, mem, budget>>

\* os.Remove takes whatever lock is there by now.
RemoveStale(p) ==
  /\ pc[p] = "stale"
  /\ lock' = [lock EXCEPT ![Home(p)] = "free"]
  /\ Goto(p, "lock")
  /\ UNCHANGED <<disk, req, mem, budget>>

\* Thirty seconds have passed, or the context is gone.
TimeOut(p) ==
  /\ pc[p] = "lock" /\ (lock[Home(p)] # "free" \/ ~manifest[Home(p)].live)
  /\ Exit(p)
  /\ UNCHANGED <<disk, lock, budget>>

Holding(p) == pc[p] \notin {"idle", "lock", "stale", "clone_import", "clone_record", "attach",
                            "retain", "collect", "prune", "source", "prior", "displace", "place"}

LockAges(c) ==
  /\ lock[c] = "held"
  /\ Calm => \A p \in Procs : ~(Holding(p) /\ Home(p) = c)
  /\ lock' = [lock EXCEPT ![c] = "old"]
  /\ UNCHANGED <<disk, pc, req, mem, budget>>

\* The deferred unlock, at the end of a command and on every error.
Unlock(p) ==
  /\ pc[p] = "unlock"
  /\ lock' = [lock EXCEPT ![Home(p)] = "free"]
  /\ Exit(p)
  /\ UNCHANGED <<disk, budget>>

-----------------------------------------------------------------------------
(* CaptureClaude: replaceTree copies the project of the harness beside the  *)
(* captured one and swaps the two by renames.                               *)
Put(p, t) == tree' = [tree EXCEPT ![Home(p)] = t]
Here(p) == tree[Home(p)]

CaptureStart(p, c, v) ==
  StartLocked(p, [NoReq EXCEPT !.op = "capture", !.ctx = c, !.value = v])

Copy(p) ==
  /\ pc[p] = "copy"
  /\ Put(p, [Here(p) EXCEPT !.staging = Torn, !.previous = None])
  /\ Goto(p, "copied")
  /\ UNCHANGED <<manifest, index, objects, lock, req, mem, budget>>

Copied(p) ==
  /\ pc[p] = "copied"
  /\ Put(p, [Here(p) EXCEPT !.staging = req[p].value])
  /\ Goto(p, "move_aside")
  /\ UNCHANGED <<manifest, index, objects, lock, req, mem, budget>>

MoveAside(p) ==
  /\ pc[p] = "move_aside"
  /\ Put(p, [Here(p) EXCEPT !.previous = Here(p).project, !.project = None])
  /\ Goto(p, "install")
  /\ UNCHANGED <<manifest, index, objects, lock, req, mem, budget>>

Install(p) ==
  /\ pc[p] = "install"
  /\ Put(p, [Here(p) EXCEPT !.project = Here(p).staging, !.staging = None])
  /\ Goto(p, "sweep")
  /\ UNCHANGED <<manifest, index, objects, lock, req, mem, budget>>

Sweep(p) ==
  /\ pc[p] = "sweep"
  /\ Put(p, [Here(p) EXCEPT !.previous = None])
  /\ Goto(p, "record")
  /\ UNCHANGED <<manifest, index, objects, lock, req, mem, budget>>

(* CaptureSessionFile and CaptureSessionExport: a temporary, renamed.       *)
SessionStart(p, c, v) ==
  StartLocked(p, [NoReq EXCEPT !.op = "session", !.ctx = c, !.value = v])

Write(p) ==
  /\ pc[p] = "write"
  /\ Put(p, [Here(p) EXCEPT !.tmp = Torn])
  /\ Goto(p, "rename")
  /\ UNCHANGED <<manifest, index, objects, lock, req, mem, budget>>

Rename(p) ==
  /\ pc[p] = "rename"
  /\ Put(p, [Here(p) EXCEPT !.tmp = None, !.file = req[p].value])
  /\ Goto(p, "record")
  /\ UNCHANGED <<manifest, index, objects, lock, req, mem, budget>>

(* PublishRevision, and the end of captures and derivations.                *)
PublishStart(p, c) == StartLocked(p, [NoReq EXCEPT !.op = "publish", !.ctx = c])

Record(p) ==
  /\ pc[p] = "record"
  /\ LET sources == IF req[p].op = "derive" THEN {<<req[p].ctx, mem[p].selected>>} ELSE {}
     IN  manifest' = [manifest EXCEPT ![Home(p)] =
                        Recorded(mem[p].manifest, RevisionOf(Home(p)), req[p].op, sources)]
  /\ Goto(p, "unlock")
  /\ UNCHANGED <<tree, index, objects, lock, req, mem, budget>>

-----------------------------------------------------------------------------
(* CreateSnapshot, and the safety snapshot of a restore: the revision, its  *)
(* object, the manifest, and last the index.                                *)
SnapshotStart(p, c, n, protected) ==
  StartLocked(p, [NoReq EXCEPT !.op = "snapshot", !.ctx = c, !.name = n, !.flag = protected])

Safety(p) == req[p].op = "restore"
SnapshotName(p) == IF Safety(p) THEN <<"before-restore", req[p].no>> ELSE req[p].name
Revision(p) == Last(mem[p].manifest.history).id

SnapIndex(p) ==
  /\ pc[p] = "snap_index"
  /\ LET operation == IF Safety(p) THEN "restore-safety" ELSE "snapshot"
     IN  \/ /\ \A s \in Items(Home(p)) : s.name # SnapshotName(p)
            /\ Recall(p, [mem[p] EXCEPT !.index = index[Home(p)],
                            !.manifest = Recorded(@, RevisionOf(Home(p)), operation, {})])
            /\ Goto(p, "snap_export")
         \/ /\ \E s \in Items(Home(p)) : s.name = SnapshotName(p)
            /\ Goto(p, "unlock") /\ UNCHANGED mem
  /\ UNCHANGED <<disk, lock, req, budget>>

\* Objects are linked into place whole; one that exists is not written again.
SnapExport(p) ==
  /\ pc[p] = "snap_export"
  /\ LET r == Revision(p) IN
       objects' = IF r \in DOMAIN objects[Home(p)] THEN objects
                  ELSE [objects EXCEPT ![Home(p)] =
                          [x \in DOMAIN @ \cup {r} |->
                             IF x = r THEN [tree |-> Here(p), manifest |-> mem[p].manifest]
                             ELSE @[x]]]
  /\ Goto(p, "snap_manifest")
  /\ UNCHANGED <<tree, manifest, index, lock, req, mem, budget>>

SnapManifest(p) ==
  /\ pc[p] = "snap_manifest"
  /\ manifest' = [manifest EXCEPT ![Home(p)] = mem[p].manifest]
  /\ Goto(p, "snap_list")
  /\ UNCHANGED <<tree, index, objects, lock, req, mem, budget>>

SnapList(p) ==
  /\ pc[p] = "snap_list"
  /\ LET item == [name |-> SnapshotName(p), rev |-> Revision(p),
                  protected |-> Safety(p) \/ req[p].flag]
     IN  index' = [index EXCEPT ![Home(p)] = [mem[p].index EXCEPT !.items = Append(@, item)]]
  /\ Goto(p, IF Safety(p) THEN "stage" ELSE "unlock")
  /\ UNCHANGED <<tree, manifest, objects, lock, req, mem, budget>>

-----------------------------------------------------------------------------
(* RestoreSnapshot: a protected safety snapshot of content that differs,    *)
(* the selected object imported into a stage, the content replaced, and the *)
(* restore recorded. A context has one portable root, after its type.       *)
RestoreStart(p, c, n) ==
  StartLocked(p, [NoReq EXCEPT !.op = "restore", !.ctx = c, !.name = n])

\* Mutant: the current content is what the manifest says it is.
SelectByManifest(p) ==
  /\ pc[p] = "select"
  /\ \/ \E s \in Items(Home(p)) :
          /\ s.name = req[p].name
          /\ Recall(p, [mem[p] EXCEPT !.selected = s.rev])
          /\ Goto(p, IF manifest[Home(p)].current = s.rev THEN "stage" ELSE "snap_index")
     \/ /\ \A s \in Items(Home(p)) : s.name # req[p].name
        /\ Goto(p, "unlock") /\ UNCHANGED mem
  /\ UNCHANGED <<disk, lock, req, budget>>

Select(p) ==
  /\ pc[p] = "select"
  /\ \/ \E s \in Items(Home(p)) :
          /\ s.name = req[p].name
          /\ Recall(p, [mem[p] EXCEPT !.selected = s.rev])
          /\ Goto(p, IF RevisionOf(Home(p)) = s.rev THEN "stage" ELSE "snap_index")
     \/ /\ \A s \in Items(Home(p)) : s.name # req[p].name
        /\ Goto(p, "unlock") /\ UNCHANGED mem
  /\ UNCHANGED <<disk, lock, req, budget>>

Stage(p) ==
  /\ pc[p] = "stage"
  /\ LET r == mem[p].selected
     IN  \/ /\ r \in DOMAIN objects[Home(p)]
            /\ Recall(p, [mem[p] EXCEPT !.staged = objects[Home(p)][r].tree])
            /\ Goto(p, "swap_out")
         \/ r \notin DOMAIN objects[Home(p)] /\ Goto(p, "unlock") /\ UNCHANGED mem
  /\ UNCHANGED <<disk, lock, req, budget>>

SwapOut(p) ==
  /\ pc[p] = "swap_out"
  /\ Put(p, Empty)
  /\ Recall(p, [mem[p] EXCEPT !.aside.tree = Here(p)])
  /\ Goto(p, "swap_in")
  /\ UNCHANGED <<manifest, index, objects, lock, req, budget>>

SwapIn(p) ==
  /\ pc[p] = "swap_in"
  /\ Put(p, mem[p].staged)
  /\ Goto(p, "restored")
  /\ UNCHANGED <<manifest, index, objects, lock, req, mem, budget>>

Restored(p) ==
  /\ pc[p] = "restored"
  /\ manifest' = [manifest EXCEPT ![Home(p)] =
       Recorded([mem[p].manifest EXCEPT !.current = None], RevisionOf(Home(p)), "restore",
                {<<Home(p), mem[p].selected>>})]
  /\ Goto(p, "unlock")
  /\ UNCHANGED <<tree, index, objects, lock, req, mem, budget>>

-----------------------------------------------------------------------------
(* CloneSnapshot takes no lock: the object is imported as a context with    *)
(* the manifest it holds, which is then replaced by the clone's own.        *)
CloneStart(p, c, n, d) ==
  /\ \E s \in Items(c) :
       s.name = n /\ Recall(p, [NoMem EXCEPT !.selected = s.rev])
  /\ Start(p, "clone_import", [NoReq EXCEPT !.op = "clone", !.ctx = c, !.name = n, !.dest = d])

CloneImport(p) ==
  /\ pc[p] = "clone_import"
  /\ LET r == mem[p].selected
         d == req[p].dest
         found == r \in DOMAIN objects[req[p].ctx] /\ ~manifest[d].live
     IN  \/ /\ found
            /\ tree' = [tree EXCEPT ![d] = objects[req[p].ctx][r].tree]
            /\ manifest' = [manifest EXCEPT ![d] =
                 [objects[req[p].ctx][r].manifest EXCEPT !.attached = FALSE]]
            /\ Goto(p, "clone_record") /\ UNCHANGED <<req, mem>>
         \/ ~found /\ Exit(p) /\ UNCHANGED <<tree, manifest>>
  /\ UNCHANGED <<index, objects, lock, budget>>

CloneRecord(p) ==
  /\ pc[p] = "clone_record"
  /\ LET d == req[p].dest IN
       manifest' = [manifest EXCEPT ![d] =
         Recorded(NewManifest, RevisionOf(d), "clone", {<<req[p].ctx, mem[p].selected>>})]
  /\ Exit(p)
  /\ UNCHANGED <<tree, index, objects, lock, budget>>

-----------------------------------------------------------------------------
(* Attach and detach of a harness, SetRetention and GarbageCollect take no  *)
(* lock: they write back what they read when they started.                  *)
AttachStart(p, c, on) ==
  /\ manifest[c].live /\ (on \/ manifest[c].attached)
  /\ Recall(p, [NoMem EXCEPT !.manifest = manifest[c]])
  /\ Start(p, "attach", [NoReq EXCEPT !.op = "attach", !.ctx = c, !.flag = on])

Attach(p) ==
  /\ pc[p] = "attach"
  /\ manifest' = [manifest EXCEPT ![Home(p)] = [mem[p].manifest EXCEPT !.attached = req[p].flag]]
  /\ Exit(p)
  /\ UNCHANGED <<tree, index, objects, lock, budget>>

RetainStart(p, c) ==
  /\ manifest[c].live
  /\ Recall(p, [NoMem EXCEPT !.index = index[c]])
  /\ Start(p, "retain", [NoReq EXCEPT !.op = "retain", !.ctx = c])

SetRetention(p, keepLast, maxAge) ==
  /\ pc[p] = "retain"
  /\ index' = [index EXCEPT ![Home(p)] =
                 [mem[p].index EXCEPT !.keepLast = keepLast, !.maxAge = maxAge]]
  /\ Exit(p)
  /\ UNCHANGED <<tree, manifest, objects, lock, budget>>

\* Kept by its place in the order of creation: the newest, as many as keepLast
\* says, and those younger than maxAge, which are newer than the rest.
Recent(c, newest, i) == i > Len(index[c].items) - newest
Newest(c) == IF index[c].maxAge > 0 THEN index[c].keepLast..Len(index[c].items)
             ELSE {index[c].keepLast}

\* The places that stay, one after the other.
InOrder(kept) ==
  LET n == Cardinality(kept)
  IN  {f \in [1..n -> kept] : \A i, j \in 1..n : i < j => f[i] < f[j]}

\* The items to keep and to delete are chosen, then the index is written, then
\* the objects are removed.
CollectChosen(p, c, kept) ==
  /\ manifest[c].live /\ index[c].keepLast + index[c].maxAge > 0
  /\ kept # 1..Len(index[c].items)
  /\ \E f \in InOrder(kept) :
       Recall(p, [NoMem EXCEPT !.spared = MustKeep(c), !.index =
         [index[c] EXCEPT !.items = [i \in DOMAIN f |-> index[c].items[f[i]]]]])
  /\ Start(p, "collect", [NoReq EXCEPT !.op = "collect", !.ctx = c])

\* Mutant: revisions named as sources by contexts are not looked for.
CollectUnreferenced(p, c, newest) ==
  CollectChosen(p, c, {i \in 1..Len(index[c].items) :
                         index[c].items[i].protected \/ Recent(c, newest, i)})

CollectStart(p, c, newest) ==
  CollectChosen(p, c, {i \in 1..Len(index[c].items) :
                         \/ index[c].items[i].protected
                         \/ Recent(c, newest, i)
                         \/ Referenced(c, index[c].items[i].rev)})

Collect(p) ==
  /\ pc[p] = "collect"
  /\ index' = [index EXCEPT ![Home(p)] = mem[p].index]
  /\ Recall(p, [mem[p] EXCEPT !.aside.index = index[Home(p)]])
  /\ Goto(p, "prune")
  /\ UNCHANGED <<tree, manifest, objects, lock, req, budget>>

Revs(x) == {x.items[i].rev : i \in 1..Len(x.items)}
Without(f, gone) == [r \in DOMAIN f \ gone |-> f[r]]

\* Mutant: the object of a deleted snapshot goes, whoever else is made of it.
PruneAll(p) ==
  /\ pc[p] = "prune"
  /\ objects' = [objects EXCEPT ![Home(p)] =
       Without(@, {x.rev : x \in {mem[p].aside.index.items[i] : i \in 1..Len(mem[p].aside.index.items)}
                               \ {mem[p].index.items[i] : i \in 1..Len(mem[p].index.items)}})]
  /\ Exit(p)
  /\ UNCHANGED <<tree, manifest, index, lock, budget>>

Prune(p) ==
  /\ pc[p] = "prune"
  /\ objects' = [objects EXCEPT ![Home(p)] =
                   Without(@, Revs(mem[p].aside.index) \ Revs(mem[p].index))]
  /\ Exit(p)
  /\ UNCHANGED <<tree, manifest, index, lock, budget>>

-----------------------------------------------------------------------------
(* derive knowledge: the source is read under its lock, which is not waited *)
(* for; the records are written beside the context, whose whole directory   *)
(* is renamed away, replaced and then deleted; the revision is recorded     *)
(* under the new lock.                                                      *)
DeriveStart(p, c, d) ==
  /\ manifest[c].live
  /\ Start(p, "source", [NoReq EXCEPT !.op = "derive", !.ctx = c, !.dest = d])
  /\ UNCHANGED mem

Source(p) ==
  /\ pc[p] = "source"
  /\ Calm /\ lock[req[p].ctx] = "old" => \A q \in Procs : pc[q] # "stale"
  /\ LET c == req[p].ctx
         readable == lock[c] # "held" /\ \E x \in Parts : tree[c][x] # None
     IN  /\ lock' = IF lock[c] = "old" THEN [lock EXCEPT ![c] = "free"] ELSE lock
         /\ \/ /\ readable
               /\ Recall(p, [mem[p] EXCEPT !.selected = RevisionOf(c)])
               /\ Goto(p, "prior") /\ UNCHANGED req
            \/ ~readable /\ Exit(p)
  /\ UNCHANGED <<disk, budget>>

\* One record from each revision of a source: what is there of this revision is
\* reused, and when nothing is new, nothing is written.
Generated(p) == [Empty EXCEPT !.file = mem[p].selected]

Prior(p) ==
  /\ pc[p] = "prior"
  /\ \/ /\ Here(p) # Generated(p)
        /\ Recall(p, [mem[p] EXCEPT !.manifest = manifest[Home(p)], !.staged = Generated(p)])
        /\ Goto(p, "displace") /\ UNCHANGED req
     \/ Here(p) = Generated(p) /\ Exit(p)
  /\ UNCHANGED <<disk, lock, budget>>

Directory(c) == [tree |-> tree[c], manifest |-> manifest[c], index |-> index[c],
                 objects |-> objects[c]]
InstallDirectory(c, dir) ==
  /\ tree' = [tree EXCEPT ![c] = dir.tree]
  /\ manifest' = [manifest EXCEPT ![c] = dir.manifest]
  /\ index' = [index EXCEPT ![c] = dir.index]
  /\ objects' = [objects EXCEPT ![c] = dir.objects]

Displace(p) ==
  /\ pc[p] = "displace"
  /\ Recall(p, [mem[p] EXCEPT !.aside = Directory(Home(p))])
  /\ InstallDirectory(Home(p), NoDir)
  /\ Goto(p, "place")
  /\ UNCHANGED <<lock, req, budget>>

Place(p) ==
  /\ pc[p] = "place"
  /\ InstallDirectory(Home(p), [NoDir EXCEPT !.tree = mem[p].staged,
       !.manifest = [mem[p].manifest EXCEPT !.live = TRUE, !.attached = FALSE]])
  /\ lock' = [lock EXCEPT ![Home(p)] = "free"]
  /\ Goto(p, "lock")
  /\ UNCHANGED <<req, mem, budget>>

-----------------------------------------------------------------------------
(* Errors of the file system, with the clean-up of the command they end and *)
(* the deferred unlock; and the death of a process, which cleans nothing.   *)
Error(p) ==
  /\ failures > 0 /\ failures' = failures - 1
  /\ lock' = IF Holding(p) THEN [lock EXCEPT ![Home(p)] = "free"] ELSE lock
  /\ Exit(p)
  /\ UNCHANGED <<left, crashes>>

\* No clean-up: what was written before stays.
CommandFails(p) ==
  /\ pc[p] \in {"record", "snap_export", "snap_manifest", "snap_list", "stage", "restored",
                "clone_import", "attach", "retain", "collect", "displace"}
  /\ Error(p)
  /\ UNCHANGED disk

\* replaceTree: the copy is dropped, or the content that was moved aside
\* comes back and the copy stays.
CaptureFails(p) ==
  /\ \/ /\ pc[p] \in {"copied", "move_aside"}
        /\ Put(p, [Here(p) EXCEPT !.staging = None])
     \/ /\ pc[p] = "install"
        /\ Put(p, [Here(p) EXCEPT !.project = Here(p).previous, !.previous = None])
     \/ /\ pc[p] = "rename"
        /\ Put(p, [Here(p) EXCEPT !.tmp = None])
  /\ Error(p)
  /\ UNCHANGED <<manifest, index, objects>>

SwapFails(p) ==
  /\ pc[p] = "swap_in"
  /\ Put(p, mem[p].aside.tree)
  /\ Error(p)
  /\ UNCHANGED <<manifest, index, objects>>

CloneFails(p) ==
  /\ pc[p] = "clone_record"
  /\ InstallDirectory(req[p].dest, NoDir)
  /\ Error(p)

PlaceFails(p) ==
  /\ pc[p] = "place"
  /\ InstallDirectory(Home(p), mem[p].aside)
  /\ Error(p)

Crash(p) ==
  /\ pc[p] # "idle" /\ crashes > 0
  /\ crashes' = crashes - 1
  /\ Exit(p)
  /\ UNCHANGED <<disk, lock, left, failures>>

-----------------------------------------------------------------------------
Request(p) ==
  \E c \in Contexts :
    \/ c \in States /\ \E v \in Versions : CaptureStart(p, c, v) \/ SessionStart(p, c, v)
    \/ PublishStart(p, c)
    \/ \E n \in Names : \/ \E b \in BOOLEAN : SnapshotStart(p, c, n, b)
                        \/ RestoreStart(p, c, n)
                        \/ c \in States /\ \E d \in States : CloneStart(p, c, n, d)
    \/ \E on \in BOOLEAN : AttachStart(p, c, on)
    \/ RetainStart(p, c)
    \/ \E n \in Newest(c) : CollectStart(p, c, n)
    \/ c \in States /\ \E d \in Knowledge : DeriveStart(p, c, d)

Locking(p) == Acquire(p) \/ SeeStale(p) \/ RemoveStale(p) \/ TimeOut(p) \/ Unlock(p)
Capturing(p) == \/ Copy(p) \/ Copied(p) \/ MoveAside(p) \/ Install(p) \/ Sweep(p)
                \/ Write(p) \/ Rename(p) \/ Record(p)
Snapshotting(p) == SnapIndex(p) \/ SnapExport(p) \/ SnapManifest(p) \/ SnapList(p)
Restoring(p) == Select(p) \/ Stage(p) \/ SwapOut(p) \/ SwapIn(p) \/ Restored(p)
Unlocked(p) == \/ CloneImport(p) \/ CloneRecord(p) \/ Attach(p) \/ Collect(p) \/ Prune(p)
               \/ \E k \in 0..1, a \in 0..1 : SetRetention(p, k, a)
Deriving(p) == Source(p) \/ Prior(p) \/ Displace(p) \/ Place(p)
Failing(p) == \/ CommandFails(p) \/ CaptureFails(p) \/ SwapFails(p) \/ CloneFails(p)
              \/ PlaceFails(p) \/ Crash(p)

Next == \/ \E p \in Procs : \/ Request(p) \/ Locking(p) \/ Capturing(p) \/ Snapshotting(p)
                            \/ Restoring(p) \/ Unlocked(p) \/ Deriving(p) \/ Failing(p)
        \/ \E c \in Contexts : LockAges(c)

Spec == Init /\ [][Next]_vars

-----------------------------------------------------------------------------
Labels == {"idle", "lock", "stale", "unlock", "copy", "copied", "move_aside", "install", "sweep",
           "write", "rename", "record", "snap_index", "snap_export", "snap_manifest", "snap_list",
           "select", "stage", "swap_out", "swap_in", "restored", "clone_import", "clone_record",
           "attach", "retain", "collect", "prune", "source", "prior", "displace", "place"}

\* The types of the state. The manifest of a context names its content by
\* revisions of its own type only.
TypeOK ==
  /\ \A c \in Contexts :
       /\ ContentOf(c, tree[c])
       /\ manifest[c].live \in BOOLEAN /\ manifest[c].attached \in BOOLEAN
       /\ manifest[c].current = (IF manifest[c].history = <<>> THEN None
                                 ELSE Last(manifest[c].history).id)
       /\ \A e \in Entries(manifest[c]) : ContentOf(c, e.id)
       /\ \A s \in Items(c) : ContentOf(c, s.rev) /\ s.protected \in BOOLEAN
       /\ \A r \in DOMAIN objects[c] : ContentOf(c, r)
  /\ lock \in [Contexts -> {"free", "held", "old"}]
  /\ pc \in [Procs -> Labels]
  /\ left \in 0..MaxOps /\ crashes \in 0..MaxCrashes /\ failures \in 0..MaxFailures

\* Every snapshot of the index can be restored and cloned: its object exists and
\* holds exactly the revision the index names (CreateSnapshot links the object
\* before it lists the snapshot, GarbageCollect unlists before it removes and
\* spares the objects of other snapshots), and no half-written project or
\* session is in it, whatever captures were interrupted before. And what a
\* restore or a clone recorded as made from a revision is that revision: nothing
\* was lost or added between the object and the new content.
SnapshotsExact ==
  /\ \A c \in Contexts : \A s \in Items(c) :
       /\ s.rev \in DOMAIN objects[c] /\ objects[c][s.rev].tree = s.rev
       /\ Torn \notin {s.rev["project"], s.rev["file"]}
  /\ \A c \in Contexts : \A e \in Entries(manifest[c]) :
       e.op \in {"restore", "clone"} => \A source \in e.sources : source[2] = e.id

\* RestoreSnapshot "first preserves the current state when it differs": when the
\* content of a context is swapped out, a snapshot in its index holds it, also
\* when the content was left by a capture that died before it recorded it.
RestoreKeepsOld ==
  [][\A p \in Procs : pc[p] = "swap_out" /\ pc'[p] = "swap_in" =>
       \E s \in Items(req[p].ctx) : s.rev = tree[req[p].ctx]]_vars

Regenerated(c) == \E p \in Procs : req[p].op = "derive" /\ req[p].dest = c

\* Protected snapshots, and those of revisions that a clone, a restore or a
\* derivation names as its source, stay in the index (GarbageCollect), whatever
\* the commands that rewrite the index; regenerated contexts, and references
\* made after a collection had looked for them, apart.
SnapshotsKept ==
  [][\A c \in Contexts : ~Regenerated(c) =>
       \A s \in MustKeep(c) \ Items(c)' :
         \E p \in Procs : pc[p] = "collect" /\ Home(p) = c /\ s \notin mem[p].spared]_vars

\* docs/context-lifecycle.md:18-19: "Protected snapshots and revisions referenced by
\* clones or restores are always kept."
AlwaysKept == [][\A c \in Contexts : MustKeep(c) \subseteq Items(c)']_vars

\* The history of a context, in its directory or in the one that is aside while
\* installKnowledgeDirectory puts a new one in its place.
Placing(c) == {p \in Procs : pc[p] = "place" /\ req[p].dest = c /\ mem[p].aside.manifest.live}
Past(c) == IF Placing(c) = {} THEN manifest[c].history
           ELSE mem[CHOOSE p \in Placing(c) : TRUE].aside.manifest.history

\* Revisions are only appended: the manifests that captures, snapshots, restores,
\* derivations and attachments write back never lose an entry another command
\* wrote after they read it; a clone replaces the history its object brought, and
\* a regeneration that is killed between its renames leaves no context.
HistoryKept ==
  [][\A c \in Contexts :
       \/ \E p \in Procs : pc[p] = "clone_record" /\ req[p].dest = c
       \/ \E p \in Placing(c) : pc'[p] = "idle" /\ crashes' # crashes
       \/ /\ Len(Past(c)) <= Len(Past(c)')
          /\ SubSeq(Past(c)', 1, Len(Past(c))) = Past(c)]_vars
=============================================================================
