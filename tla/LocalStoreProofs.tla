-------------------------- MODULE LocalStoreProofs --------------------------
(* The inductive invariant of LocalStore and what follows from it, for      *)
(* every number of contexts, processes, contents, names, commands, kills    *)
(* and failures. The types need no condition; that snapshots are exact, and *)
(* that no command takes back what another one wrote, rests on who may      *)
(* write which file of a context when, which the lock and Calm say.         *)
EXTENDS LocalStore, FiniteSetTheorems, SequenceTheorems, TLAPS

-----------------------------------------------------------------------------
(* The types of what is on disk and of what a process has read.             *)

AllTrees == StateTrees \cup {[Empty EXCEPT !.file = t] : t \in StateTrees}
AllNames == Names \cup ({"before-restore"} \X Nat)
Operations == LockedOps \cup UnlockedOps \cup {"restore-safety"}
HistoryEntries == [id : AllTrees, op : Operations, sources : SUBSET (Contexts \X AllTrees)]
Manifests == [live : BOOLEAN, current : AllTrees \cup {None}, history : Seq(HistoryEntries),
              attached : BOOLEAN]
SnapshotItems == [name : AllNames, rev : AllTrees, protected : BOOLEAN]
Indexes == [keepLast : Nat, maxAge : Nat, items : Seq(SnapshotItems)]
SnapshotObjects == [tree : AllTrees, manifest : Manifests]
Stores == UNION {[D -> SnapshotObjects] : D \in SUBSET AllTrees}
Directories == [tree : AllTrees, manifest : Manifests, index : Indexes, objects : Stores]

\* A manifest names content of its context, the newest last. A restore sets the
\* current revision aside for a moment.
EntriesOK(c, m) == m \in Manifests /\ \A i \in 1..Len(m.history) : ContentOf(c, m.history[i].id)
ManifestOK(c, m) ==
  /\ EntriesOK(c, m)
  /\ m.current = IF m.history = <<>> THEN None ELSE Last(m.history).id
IndexOK(c, x) == x \in Indexes /\ \A i \in 1..Len(x.items) : ContentOf(c, x.items[i].rev)
StoreOK(c, store) ==
  /\ store \in Stores
  /\ \A r \in DOMAIN store :
       ContentOf(c, r) /\ ContentOf(c, store[r].tree) /\ ManifestOK(c, store[r].manifest)
DirectoryOK(c, dir) ==
  /\ dir \in Directories
  /\ ContentOf(c, dir.tree) /\ ManifestOK(c, dir.manifest)
  /\ IndexOK(c, dir.index) /\ StoreOK(c, dir.objects)

DiskTables ==
  /\ tree \in [Contexts -> AllTrees] /\ manifest \in [Contexts -> Manifests]
  /\ index \in [Contexts -> Indexes] /\ objects \in [Contexts -> Stores]
Counters ==
  /\ lock \in [Contexts -> {"free", "held", "old"}]
  /\ left \in 0..MaxOps /\ crashes \in 0..MaxCrashes /\ failures \in 0..MaxFailures
DiskOK == \A c \in Contexts : DirectoryOK(c, Directory(c))

\* Which command stands at a label.
CaptureLabels == {"copy", "copied", "move_aside", "install", "sweep"}
SnapLabels == {"snap_index", "snap_export", "snap_manifest", "snap_list"}
RestoreLabels == {"select", "stage", "swap_out", "swap_in", "restored"}
OpsAt(label) ==
  CASE label = "idle" -> {"none"}
    [] label \in {"lock", "stale", "unlock"} -> LockedOps \cup {"derive"}
    [] label = "record" -> {"capture", "session", "publish", "derive"}
    [] label \in CaptureLabels -> {"capture"}
    [] label \in {"write", "rename"} -> {"session"}
    [] label \in SnapLabels -> {"snapshot", "restore"}
    [] label \in RestoreLabels -> {"restore"}
    [] label \in {"clone_import", "clone_record"} -> {"clone"}
    [] label \in {"collect", "prune"} -> {"collect"}
    [] label \in {"attach", "retain"} -> {label}
    [] label \in {"source", "prior", "displace", "place"} -> {"derive"}
    [] OTHER -> {}

RequestRecords ==
  [op : LockedOps \cup UnlockedOps \cup {"none"}, ctx : Contexts \cup {None},
   dest : Contexts \cup {None}, value : Versions \cup {None}, name : Names \cup {None},
   flag : BOOLEAN, no : Nat]
RequestOK(label, r) ==
  /\ label \in Labels /\ r \in RequestRecords /\ r.op \in OpsAt(label)
  /\ r.op # "none" => r.ctx \in Contexts
  /\ r.op \in {"capture", "session"} => r.ctx \in States /\ r.value \in Versions
  /\ r.op = "clone" => r.ctx \in States /\ r.dest \in States
  /\ r.op = "derive" => r.ctx \in States /\ r.dest \in Knowledge
  /\ r.op = "snapshot" => r.name \in Names

\* The directory a command writes to, and the one it works in.
HomeOf(r) == IF r.op = "derive" THEN r.dest ELSE r.ctx
TargetOf(r) == IF r.op \in {"derive", "clone"} THEN r.dest ELSE r.ctx

Named(m) == m.history # <<>>
NewestIs(m, t) == Last(m.history).id = t
Memories ==
  [manifest : Manifests, index : Indexes, selected : AllTrees \cup {None}, staged : AllTrees,
   aside : Directories, spared : SUBSET SnapshotItems]
MemoryOK(label, r, m) ==
  /\ m \in Memories
  /\ ManifestOK(HomeOf(r), m.manifest) /\ IndexOK(HomeOf(r), m.index)
  /\ m.selected # None => ContentOf(r.ctx, m.selected)
  /\ ContentOf(HomeOf(r), m.staged) /\ DirectoryOK(HomeOf(r), m.aside)
  /\ label = "idle" => m = NoMem
  /\ label \in {"snap_export", "snap_manifest", "snap_list"} => Named(m.manifest)
  /\ label \in {"stage", "swap_out", "swap_in", "restored", "clone_import", "clone_record"} =>
       m.selected # None
  /\ r.op = "restore" /\ label \in SnapLabels => m.selected # None
  /\ r.op = "derive" /\ label # "source" => m.selected # None

Processes ==
  /\ pc \in [Procs -> Labels] /\ req \in [Procs -> RequestRecords] /\ mem \in [Procs -> Memories]
  /\ \A p \in Procs : RequestOK(pc[p], req[p]) /\ MemoryOK(pc[p], req[p], mem[p])

BaseInv == DiskTables /\ Counters /\ DiskOK /\ Processes

-----------------------------------------------------------------------------
(* Who may write which file when.                                           *)

Active(p) == pc[p] \notin {"idle", "lock", "stale", "source"}

Exclusion ==
  /\ \A p, q \in Procs : p # q /\ pc[p] # "idle" /\ pc[q] # "idle" => Apart(req[p], req[q])
  /\ \A p, q \in Procs : p # q /\ Holding(p) /\ Holding(q) => Home(p) # Home(q)
  /\ \A p \in Procs : Holding(p) => lock[Home(p)] = "held"
  /\ \A p \in Procs : pc[p] = "stale" => lock[Home(p)] = "old"
  /\ \A p, q \in Procs : pc[p] = "stale" /\ pc[q] = "stale" => p = q

-----------------------------------------------------------------------------
(* What is on disk is whole and what it says it is.                         *)

Whole(t) == Torn \notin {t["project"], t["file"], t["previous"]}
SourcesOK(e) == e.op \in {"restore", "clone"} => \A source \in e.sources : source[2] = e.id
ManifestExact(m) == \A i \in 1..Len(m.history) : SourcesOK(m.history[i])
StoreExact(store) ==
  \A r \in DOMAIN store : Whole(r) /\ store[r].tree = r /\ ManifestExact(store[r].manifest)
ListedIn(x, store) == Revs(x) \subseteq DOMAIN store
DirectoryExact(dir) ==
  /\ Whole(dir.tree) /\ ManifestExact(dir.manifest)
  /\ StoreExact(dir.objects) /\ ListedIn(dir.index, dir.objects)
DiskExact == \A c \in Contexts : DirectoryExact(Directory(c))

\* What a process in the middle of a command has left on disk and remembers of
\* it, dir being the directory it works in.
Midway(label, r, m, dir) ==
  /\ ManifestExact(m.manifest)
  /\ label \in {"move_aside", "install"} => dir.tree.staging = r.value
  /\ label \in {"snap_export", "snap_manifest", "snap_list"} =>
       Last(m.manifest.history).id = dir.tree /\ m.index = dir.index
  /\ label \in {"snap_manifest", "snap_list"} => dir.tree \in DOMAIN dir.objects
  /\ label \in {"stage", "swap_out"} => dir.tree \in Revs(dir.index)
  /\ label \in {"swap_out", "swap_in"} => m.staged = m.selected /\ Whole(m.staged)
  /\ label = "swap_in" => Whole(m.aside.tree)
  /\ label = "restored" => dir.tree = m.selected
  /\ label = "retain" => m.index = dir.index
  /\ label = "collect" => Revs(m.index) \subseteq Revs(dir.index)
  /\ label = "prune" => Revs(m.index) = Revs(dir.index)
  /\ label \in {"displace", "place"} => Whole(m.staged)
  /\ label = "place" => DirectoryExact(m.aside)
AllMidway ==
  \A p \in Procs : pc[p] # "idle" => Midway(pc[p], req[p], mem[p], Directory(Home(p)))
\* A clone works in another directory than it writes to.
ClonesMade == \A p \in Procs : pc[p] = "clone_record" => tree[req[p].dest] = mem[p].selected

ExactInv == Exclusion /\ DiskExact /\ AllMidway /\ ClonesMade

-----------------------------------------------------------------------------
(* Values, and the revisions that are recorded.                             *)

\* Content of a context.
LEMMA ContentFacts ==
  /\ Empty \in StateTrees /\ StateTrees \subseteq AllTrees
  /\ None \notin AllTrees /\ Torn \notin AllTrees /\ Torn \notin StateTrees
  /\ \A c : ContentOf(c, Empty)
  /\ \A c, t : ContentOf(c, t) => t \in AllTrees
  /\ \A c \in States :
       c \notin Knowledge /\ c \in Contexts /\ \A t : ContentOf(c, t) <=> t \in StateTrees
  /\ \A c \in Knowledge : c \in Contexts /\ \A t \in StateTrees : ContentOf(c, [Empty EXCEPT !.file = t])
  /\ States \cup Knowledge = Contexts /\ None \notin Contexts
  <1>1. Empty \in StateTrees
    BY DEF Empty, StateTrees
  <1>2. None \notin AllTrees /\ Torn \notin AllTrees
    BY ContentAssumption DEF AllTrees
  <1>3. \A c \in Knowledge : \A t \in StateTrees : ContentOf(c, [Empty EXCEPT !.file = t])
    <2> TAKE c \in Knowledge
    <2> TAKE t \in StateTrees
    <2>1. ([Empty EXCEPT !.file = t]).file = t
      BY DEF Empty, Parts
    <2> QED BY <2>1 DEF ContentOf
  <1>4. \A c, t : ContentOf(c, t) => t \in AllTrees
    BY <1>1 DEF ContentOf, AllTrees
  <1> QED BY <1>1, <1>2, <1>3, <1>4, StoreAssumption DEF ContentOf, AllTrees, Contexts

\* A directory that was just made, and what a process knows before it has read.
LEMMA ValueFacts ==
  /\ NoManifest \in Manifests /\ NewManifest \in Manifests /\ NewManifest.history = <<>>
  /\ \A c : ManifestOK(c, NoManifest) /\ ManifestOK(c, NewManifest)
  /\ NoIndex \in Indexes /\ NoIndex.items = <<>> /\ \A c : IndexOK(c, NoIndex)
  /\ NoObjects \in Stores /\ \A c : StoreOK(c, NoObjects)
  /\ NoDir \in Directories /\ \A c : DirectoryOK(c, NoDir)
  /\ NoMem \in Memories /\ NoReq \in RequestRecords
  /\ NoMem.manifest = NoManifest /\ NoMem.index = NoIndex /\ NoMem.selected = None
  /\ NoMem.staged = Empty /\ NoMem.aside = NoDir /\ NoReq.op = "none" /\ NoReq.ctx = None
  /\ \A r : r.op # "derive" =>
       \A label \in {"idle", "lock", "attach", "retain", "collect"} : MemoryOK(label, r, NoMem)
  /\ \A r : MemoryOK("source", r, NoMem)
  <1>1. /\ NoManifest \in Manifests /\ NewManifest \in Manifests /\ NewManifest.history = <<>>
        /\ NoManifest.history = <<>> /\ NoManifest.current = None /\ NewManifest.current = None
    <2>1. <<>> \in Seq(HistoryEntries)
      OBVIOUS
    <2>2. NoManifest \in Manifests /\ NoManifest.history = <<>> /\ NoManifest.current = None
      BY <2>1 DEF NoManifest, Manifests
    <2> QED BY <2>1, <2>2 DEF NewManifest, Manifests
  <1>2. \A c : ManifestOK(c, NoManifest) /\ ManifestOK(c, NewManifest)
    BY <1>1 DEF ManifestOK, EntriesOK
  <1>3. NoIndex \in Indexes /\ NoIndex.items = <<>> /\ \A c : IndexOK(c, NoIndex)
    BY DEF NoIndex, Indexes, IndexOK
  <1>4. NoObjects \in Stores /\ DOMAIN NoObjects = {}
    <2>1. NoObjects \in [{} -> SnapshotObjects]
      BY DEF NoObjects
    <2> QED BY <2>1 DEF Stores, NoObjects
  <1>5. \A c : StoreOK(c, NoObjects)
    BY <1>4 DEF StoreOK
  <1>6. NoDir \in Directories /\ \A c : DirectoryOK(c, NoDir)
    BY <1>1, <1>2, <1>3, <1>4, <1>5, ContentFacts DEF NoDir, Directories, DirectoryOK
  <1>7. NoMem \in Memories
    BY <1>1, <1>3, <1>6, ContentFacts DEF NoMem, Memories
  <1>8. NoReq \in RequestRecords
    BY DEF NoReq, RequestRecords
  <1>9. /\ NoMem.manifest = NoManifest /\ NoMem.index = NoIndex /\ NoMem.selected = None
        /\ NoMem.staged = Empty /\ NoMem.aside = NoDir /\ NoReq.op = "none" /\ NoReq.ctx = None
    BY DEF NoMem, NoReq
  <1>10. /\ \A r : r.op # "derive" =>
             \A label \in {"idle", "lock", "attach", "retain", "collect"} : MemoryOK(label, r, NoMem)
         /\ \A r : MemoryOK("source", r, NoMem)
    BY <1>2, <1>3, <1>6, <1>7, <1>9, ContentFacts DEF MemoryOK, SnapLabels
  <1> QED BY <1>1, <1>2, <1>3, <1>4, <1>5, <1>6, <1>7, <1>8, <1>9, <1>10

\* What is recorded is the newest revision, and of the content it is given.
LEMMA RecordedOK ==
  ASSUME NEW c, NEW m, EntriesOK(c, m), ManifestOK(c, m) \/ m.current = None,
         NEW t, ContentOf(c, t), NEW op \in Operations, NEW sources \in SUBSET (Contexts \X AllTrees)
  PROVE  LET n == Recorded(m, t, op, sources)
         IN  /\ ManifestOK(c, n) /\ Named(n) /\ NewestIs(n, t)
             /\ n.live = m.live /\ n.attached = m.attached
             /\ n = m \/ n.history = Append(m.history, [id |-> t, op |-> op, sources |-> sources])
  <1> DEFINE e == [id |-> t, op |-> op, sources |-> sources]
             n == Recorded(m, t, op, sources)
             h == m.history
  <1>1. t \in AllTrees /\ t # None
    BY ContentFacts
  <1>2. e \in HistoryEntries /\ e.id = t
    BY <1>1 DEF HistoryEntries
  <1>3. m \in Manifests /\ h \in Seq(HistoryEntries) /\ Len(h) \in Nat
    BY DEF EntriesOK, Manifests
  <1>4. CASE m.current = t /\ m.history # <<>>
    BY <1>1, <1>4 DEF Recorded, ManifestOK, Named, NewestIs
  <1>5. CASE ~(m.current = t /\ m.history # <<>>)
    <2>1. n = [m EXCEPT !.current = t, !.history = Append(h, e)]
      BY <1>5 DEF Recorded
    <2> HIDE DEF e
    <2>2. /\ Append(h, e) \in Seq(HistoryEntries) /\ Append(h, e) # <<>>
          /\ Len(Append(h, e)) = Len(h) + 1 /\ Append(h, e)[Len(h) + 1] = e
          /\ \A i \in 1..Len(h) : Append(h, e)[i] = h[i]
      BY <1>2, <1>3
    <2>3. /\ n \in Manifests /\ n.current = t /\ n.history = Append(h, e)
          /\ n.live = m.live /\ n.attached = m.attached
      BY <1>1, <1>3, <2>1, <2>2 DEF Manifests
    <2>4. Last(n.history).id = t
      BY <1>2, <2>2, <2>3 DEF Last
    <2>5. \A i \in 1..Len(n.history) : ContentOf(c, n.history[i].id)
      <3>1. \A i \in 1..Len(n.history) : i \in 1..Len(h) \/ i = Len(h) + 1
        BY <1>3, <2>2, <2>3
      <3> QED BY <1>2, <2>2, <2>3, <3>1 DEF EntriesOK
    <2> QED BY <2>2, <2>3, <2>4, <2>5 DEF ManifestOK, EntriesOK, Named, NewestIs, e
  <1> QED BY <1>4, <1>5

-----------------------------------------------------------------------------
(* Processes and tables by themselves.                                      *)

\* A step of one process to a place that what it knows fits.
LEMMA ProcessFrame ==
  ASSUME Processes, NEW p \in Procs, NEW label, NEW r, NEW m, RequestOK(label, r), MemoryOK(label, r, m),
         pc' = [pc EXCEPT ![p] = label], req' = [req EXCEPT ![p] = r], mem' = [mem EXCEPT ![p] = m]
  PROVE  Processes'
  <1>1. label \in Labels /\ r \in RequestRecords /\ m \in Memories
    BY DEF RequestOK, MemoryOK
  <1>2. pc' \in [Procs -> Labels] /\ req' \in [Procs -> RequestRecords] /\ mem' \in [Procs -> Memories]
    BY <1>1 DEF Processes
  <1>3. ASSUME NEW q \in Procs PROVE RequestOK(pc'[q], req'[q]) /\ MemoryOK(pc'[q], req'[q], mem'[q])
    BY DEF Processes
  <1> QED BY <1>2, <1>3 DEF Processes

\* A step within a command.
LEMMA GotoOK ==
  ASSUME Processes, NEW p \in Procs, NEW label, NEW m, Goto(p, label), UNCHANGED req,
         mem' = [mem EXCEPT ![p] = m], RequestOK(label, req[p]), MemoryOK(label, req[p], m)
  PROVE  Processes'
  <1>1. req' = [req EXCEPT ![p] = req[p]]
    BY DEF Processes
  <1> QED BY <1>1, ProcessFrame DEF Goto

\* One that reads nothing.
LEMMA StepOK ==
  ASSUME Processes, NEW p \in Procs, NEW label, Goto(p, label), UNCHANGED <<req, mem>>,
         RequestOK(label, req[p]), MemoryOK(label, req[p], mem[p])
  PROVE  Processes'
  <1>1. mem' = [mem EXCEPT ![p] = mem[p]]
    BY DEF Processes
  <1> QED BY <1>1, GotoOK

\* The end of a command.
LEMMA ExitOK ==
  ASSUME Processes, NEW p \in Procs, Exit(p)
  PROVE  Processes'
  <1>1. RequestOK("idle", NoReq)
    <2>1. NoReq \in RequestRecords /\ NoReq.op = "none"
      BY ValueFacts
    <2>2. OpsAt("idle") = {"none"} /\ "idle" \in Labels
      BY DEF OpsAt, Labels, CaptureLabels, SnapLabels, RestoreLabels
    <2> QED BY <2>1, <2>2 DEF RequestOK
  <1> QED BY <1>1, ValueFacts, ProcessFrame DEF Exit, Goto, Recall

\* The start of one.
LEMMA StartOK ==
  ASSUME Processes, Counters, NEW p \in Procs, NEW label, NEW r, NEW m, Start(p, label, r),
         RequestOK(label, r), MemoryOK(label, r, m), mem' = [mem EXCEPT ![p] = m]
  PROVE  Processes' /\ Counters'
  <1> DEFINE s == [r EXCEPT !.no = left]
  <1>1. left \in Nat /\ left' \in 0..MaxOps
    BY StoreAssumption DEF Counters, Start
  <1>2. r \in RequestRecords /\ s \in RequestRecords
    BY <1>1 DEF RequestOK, RequestRecords
  <1>3. /\ s.op = r.op /\ s.ctx = r.ctx /\ s.dest = r.dest /\ s.value = r.value /\ s.name = r.name
    BY <1>2 DEF RequestRecords
  <1>4. RequestOK(label, s)
    BY <1>2, <1>3 DEF RequestOK
  <1>5. MemoryOK(label, s, m)
    BY <1>3 DEF MemoryOK, HomeOf
  <1>6. Processes'
    BY <1>4, <1>5, ProcessFrame DEF Start, Goto
  <1> QED BY <1>1, <1>6 DEF Start, Counters

\* A directory of a context is replaced, in whole or in part.
LEMMA DirectoryFrame ==
  ASSUME DiskTables, DiskOK, NEW c \in Contexts, NEW dir, DirectoryOK(c, dir),
         tree' = [tree EXCEPT ![c] = dir.tree], manifest' = [manifest EXCEPT ![c] = dir.manifest],
         index' = [index EXCEPT ![c] = dir.index], objects' = [objects EXCEPT ![c] = dir.objects]
  PROVE  DiskTables' /\ DiskOK'
  <1>1. /\ dir.tree \in AllTrees /\ dir.manifest \in Manifests
        /\ dir.index \in Indexes /\ dir.objects \in Stores
    BY DEF DirectoryOK, Directories
  <1>2. DiskTables'
    BY <1>1 DEF DiskTables
  <1>3. ASSUME NEW d \in Contexts PROVE DirectoryOK(d, Directory(d))'
    <2>1. CASE d = c
      <3>1. Directory(d)' = [tree |-> dir.tree, manifest |-> dir.manifest, index |-> dir.index,
                             objects |-> dir.objects]
        BY <2>1 DEF Directory, DiskTables
      <3>2. Directory(d)' = dir
        BY <3>1 DEF DirectoryOK, Directories
      <3> QED BY <2>1, <3>2 DEF DirectoryOK
    <2>2. CASE d # c
      <3>1. Directory(d)' = Directory(d)
        BY <2>2 DEF Directory, DiskTables
      <3> QED BY <3>1 DEF DiskOK, DirectoryOK
    <2> QED BY <2>1, <2>2
  <1> QED BY <1>2, <1>3 DEF DiskOK

\* What a context has is of its types.
LEMMA DirectoryFacts ==
  ASSUME DiskTables, DiskOK, NEW c \in Contexts
  PROVE  /\ tree[c] \in AllTrees /\ ContentOf(c, tree[c])
         /\ manifest[c] \in Manifests /\ ManifestOK(c, manifest[c])
         /\ index[c] \in Indexes /\ IndexOK(c, index[c])
         /\ objects[c] \in Stores /\ StoreOK(c, objects[c])
         /\ tree = [tree EXCEPT ![c] = tree[c]] /\ manifest = [manifest EXCEPT ![c] = manifest[c]]
         /\ index = [index EXCEPT ![c] = index[c]] /\ objects = [objects EXCEPT ![c] = objects[c]]
  <1>1. DirectoryOK(c, Directory(c))
    BY DEF DiskOK
  <1>2. /\ Directory(c).tree = tree[c] /\ Directory(c).manifest = manifest[c]
        /\ Directory(c).index = index[c] /\ Directory(c).objects = objects[c]
    BY DEF Directory
  <1> QED BY <1>1, <1>2 DEF DirectoryOK, DiskTables

\* One file of a directory is written.
LEMMA DiskFrame ==
  ASSUME DiskTables, DiskOK, NEW c \in Contexts,
         NEW t, tree' = [tree EXCEPT ![c] = t], ContentOf(c, t),
         NEW m, manifest' = [manifest EXCEPT ![c] = m], ManifestOK(c, m),
         NEW x, index' = [index EXCEPT ![c] = x], IndexOK(c, x),
         NEW o, objects' = [objects EXCEPT ![c] = o], StoreOK(c, o)
  PROVE  DiskTables' /\ DiskOK'
  <1> DEFINE dir == [tree |-> t, manifest |-> m, index |-> x, objects |-> o]
  <1>1. DirectoryOK(c, dir)
    BY ContentFacts DEF DirectoryOK, Directories, ManifestOK, EntriesOK, IndexOK, StoreOK
  <1> QED BY <1>1, DirectoryFrame

-----------------------------------------------------------------------------
(* Each action keeps the types.                                             *)

\* Which commands stand where.
LEMMA OpsTable ==
  /\ OpsAt("idle") = {"none"} /\ OpsAt("lock") = LockedOps \cup {"derive"}
  /\ OpsAt("stale") = LockedOps \cup {"derive"} /\ OpsAt("unlock") = LockedOps \cup {"derive"}
  /\ OpsAt("record") = {"capture", "session", "publish", "derive"}
  /\ \A label \in CaptureLabels : OpsAt(label) = {"capture"}
  /\ OpsAt("write") = {"session"} /\ OpsAt("rename") = {"session"}
  /\ \A label \in SnapLabels : OpsAt(label) = {"snapshot", "restore"}
  /\ \A label \in RestoreLabels : OpsAt(label) = {"restore"}
  /\ OpsAt("clone_import") = {"clone"} /\ OpsAt("clone_record") = {"clone"}
  /\ OpsAt("collect") = {"collect"} /\ OpsAt("prune") = {"collect"}
  /\ OpsAt("attach") = {"attach"} /\ OpsAt("retain") = {"retain"}
  /\ \A label \in {"source", "prior", "displace", "place"} : OpsAt(label) = {"derive"}
  BY DEF OpsAt, CaptureLabels, SnapLabels, RestoreLabels

\* What a process at work has, in a context that exists.
LEMMA WorkFacts ==
  ASSUME BaseInv, NEW p \in Procs, pc[p] # "idle"
  PROVE  /\ RequestOK(pc[p], req[p]) /\ req[p] \in RequestRecords /\ req[p].op \in OpsAt(pc[p])
         /\ req[p].op # "none" /\ req[p].ctx \in Contexts
         /\ Home(p) = HomeOf(req[p]) /\ Home(p) \in Contexts
         /\ req[p].op \in {"capture", "session"} => Home(p) \in States
         /\ req[p].op # "derive" => Home(p) = req[p].ctx
         /\ MemoryOK(pc[p], req[p], mem[p]) /\ mem[p] \in Memories
         /\ req = [req EXCEPT ![p] = req[p]] /\ mem = [mem EXCEPT ![p] = mem[p]]
  <1>1. RequestOK(pc[p], req[p]) /\ req[p].op \in OpsAt(pc[p])
    BY DEF BaseInv, Processes, RequestOK
  <1>2. pc[p] \in Labels
    BY <1>1 DEF RequestOK
  <1>3. req[p].op # "none"
    BY <1>1, <1>2, OpsTable DEF Labels, CaptureLabels, SnapLabels, RestoreLabels, LockedOps
  <1> QED BY <1>1, <1>3 DEF BaseInv, Processes, RequestOK, MemoryOK, Home, HomeOf, Contexts

\* The directory it works in.
LEMMA HomeFacts ==
  ASSUME BaseInv, NEW p \in Procs, pc[p] # "idle"
  PROVE  /\ tree[Home(p)] \in AllTrees /\ ContentOf(Home(p), tree[Home(p)])
         /\ manifest[Home(p)] \in Manifests /\ ManifestOK(Home(p), manifest[Home(p)])
         /\ index[Home(p)] \in Indexes /\ IndexOK(Home(p), index[Home(p)])
         /\ objects[Home(p)] \in Stores /\ StoreOK(Home(p), objects[Home(p)])
         /\ tree = [tree EXCEPT ![Home(p)] = tree[Home(p)]]
         /\ manifest = [manifest EXCEPT ![Home(p)] = manifest[Home(p)]]
         /\ index = [index EXCEPT ![Home(p)] = index[Home(p)]]
         /\ objects = [objects EXCEPT ![Home(p)] = objects[Home(p)]]
  BY WorkFacts, DirectoryFacts DEF BaseInv

\* A step that writes nothing.
LEMMA SameDisk ==
  ASSUME DiskTables, DiskOK, UNCHANGED disk
  PROVE  DiskTables' /\ DiskOK'
  BY DEF DiskTables, DiskOK, disk, Directory

\* A step that writes the content and reads nothing.
LEMMA ContentStep ==
  ASSUME BaseInv, NEW p \in Procs, pc[p] # "idle", NEW t, NEW label, Put(p, t), ContentOf(Home(p), t),
         Goto(p, label), UNCHANGED <<manifest, index, objects, lock, req, mem, budget>>,
         RequestOK(label, req[p]), MemoryOK(label, req[p], mem[p])
  PROVE  BaseInv'
  <1>1. Processes'
    BY StepOK DEF BaseInv
  <1>2. DiskTables' /\ DiskOK'
    <2>1. Home(p) \in Contexts
      BY WorkFacts
    <2> QED BY <2>1, HomeFacts, DiskFrame DEF BaseInv, Put
  <1>3. Counters'
    BY DEF BaseInv, Counters, budget
  <1> QED BY <1>1, <1>2, <1>3 DEF BaseInv

\* A step that reads, and writes nothing.
LEMMA ReadStep ==
  ASSUME BaseInv, NEW p \in Procs, pc[p] # "idle", NEW m, NEW label, mem' = [mem EXCEPT ![p] = m],
         Goto(p, label), UNCHANGED <<disk, req, budget>>,
         lock' \in [Contexts -> {"free", "held", "old"}],
         RequestOK(label, req[p]), MemoryOK(label, req[p], m)
  PROVE  BaseInv'
  <1>1. Processes'
    BY GotoOK DEF BaseInv
  <1>2. DiskTables' /\ DiskOK'
    BY SameDisk DEF BaseInv
  <1>3. Counters'
    BY DEF BaseInv, Counters, budget
  <1> QED BY <1>1, <1>2, <1>3 DEF BaseInv

\* The end of a command that writes nothing more.
LEMMA EndStep ==
  ASSUME BaseInv, NEW p \in Procs, Exit(p), UNCHANGED <<disk, budget>>,
         lock' \in [Contexts -> {"free", "held", "old"}]
  PROVE  BaseInv'
  <1>1. Processes'
    BY ExitOK DEF BaseInv
  <1>2. DiskTables' /\ DiskOK'
    BY SameDisk DEF BaseInv
  <1>3. Counters'
    BY DEF BaseInv, Counters, budget
  <1> QED BY <1>1, <1>2, <1>3 DEF BaseInv

\* The lock directory, and the manifest that is read with it.
LEMMA LockingOK ==
  ASSUME BaseInv, NEW p \in Procs, Locking(p)
  PROVE  BaseInv'
  <1>0. lock \in [Contexts -> {"free", "held", "old"}]
    BY DEF BaseInv, Counters
  <1>1. CASE Acquire(p)
    <2> DEFINE m == [mem[p] EXCEPT !.manifest = manifest[Home(p)]]
    <2>1. pc[p] = "lock" /\ pc[p] # "idle"
      BY <1>1 DEF Acquire
    <2>2. RequestOK(FirstStep(p), req[p])
      BY <2>1, WorkFacts, OpsTable
         DEF FirstStep, RequestOK, Labels, LockedOps, CaptureLabels, SnapLabels, RestoreLabels
    <2>3. MemoryOK(FirstStep(p), req[p], m)
      BY <2>1, WorkFacts, HomeFacts, OpsTable DEF FirstStep, MemoryOK, Memories, LockedOps,
         SnapLabels
    <2>4. lock' \in [Contexts -> {"free", "held", "old"}]
      BY <1>0, <1>1 DEF Acquire
    <2> QED BY <1>1, <2>1, <2>2, <2>3, <2>4, ReadStep DEF Acquire, Recall
  <1>2. CASE SeeStale(p)
    <2>1. pc[p] = "lock" /\ pc[p] # "idle"
      BY <1>2 DEF SeeStale
    <2>2. RequestOK("stale", req[p])
      BY <2>1, WorkFacts, OpsTable DEF RequestOK, Labels
    <2>3. MemoryOK("stale", req[p], mem[p])
      BY <2>1, WorkFacts DEF MemoryOK, SnapLabels
    <2> QED BY <1>0, <1>2, <2>1, <2>2, <2>3, WorkFacts, ReadStep DEF SeeStale
  <1>3. CASE RemoveStale(p)
    <2>1. pc[p] = "stale" /\ pc[p] # "idle"
      BY <1>3 DEF RemoveStale
    <2>2. RequestOK("lock", req[p])
      BY <2>1, WorkFacts, OpsTable DEF RequestOK, Labels
    <2>3. MemoryOK("lock", req[p], mem[p])
      BY <2>1, WorkFacts DEF MemoryOK, SnapLabels
    <2>4. lock' \in [Contexts -> {"free", "held", "old"}]
      BY <1>0, <1>3 DEF RemoveStale
    <2> QED BY <1>3, <2>1, <2>2, <2>3, <2>4, WorkFacts, ReadStep DEF RemoveStale
  <1>4. CASE TimeOut(p)
    BY <1>0, <1>4, EndStep DEF TimeOut
  <1>5. CASE Unlock(p)
    <2>1. lock' \in [Contexts -> {"free", "held", "old"}]
      BY <1>0, <1>5 DEF Unlock
    <2> QED BY <1>5, <2>1, EndStep DEF Unlock
  <1> QED BY <1>1, <1>2, <1>3, <1>4, <1>5 DEF Locking

\* Content of a context of type state, file by file.
LEMMA CapturingOK ==
  ASSUME BaseInv, NEW p \in Procs, Capturing(p)
  PROVE  BaseInv'
  <1> DEFINE t == tree[Home(p)]
  <1>1. ASSUME pc[p] \in CaptureLabels \cup {"write", "rename"}
        PROVE  /\ pc[p] # "idle" /\ Home(p) \in States /\ t \in StateTrees /\ req[p].value \in Versions
               /\ req[p].op \in {"capture", "session"}
               /\ req[p].op = "capture" <=> pc[p] \in CaptureLabels
               /\ \A n \in StateTrees : ContentOf(Home(p), n)
    <2>1. pc[p] # "idle"
      BY <1>1 DEF CaptureLabels
    <2>2. req[p].op \in {"capture", "session"} /\ (req[p].op = "capture" <=> pc[p] \in CaptureLabels)
      BY <1>1, <2>1, WorkFacts, OpsTable DEF CaptureLabels
    <2>3. Home(p) \in States /\ req[p].value \in Versions
      BY <2>1, <2>2, WorkFacts DEF RequestOK
    <2> QED BY <2>1, <2>2, <2>3, HomeFacts, ContentFacts
  <1>2. ASSUME pc[p] \in CaptureLabels, NEW label \in (CaptureLabels \ {"copy"}) \cup {"record"}
        PROVE  RequestOK(label, req[p]) /\ MemoryOK(label, req[p], mem[p])
    <2>1. pc[p] # "idle" /\ req[p].op = "capture"
      BY <1>1, <1>2
    <2>2. RequestOK(label, req[p])
      BY <1>2, <2>1, WorkFacts, OpsTable DEF RequestOK, Labels, CaptureLabels
    <2>3. MemoryOK(label, req[p], mem[p])
      BY <1>2, <2>1, WorkFacts DEF MemoryOK, CaptureLabels
    <2> QED BY <2>2, <2>3
  <1>3. ASSUME pc[p] \in {"write", "rename"}, NEW label \in {"rename", "record"}
        PROVE  RequestOK(label, req[p]) /\ MemoryOK(label, req[p], mem[p])
    <2>1. pc[p] # "idle" /\ req[p].op = "session"
      BY <1>1, <1>3 DEF CaptureLabels
    <2>2. RequestOK(label, req[p])
      BY <1>3, <2>1, WorkFacts, OpsTable DEF RequestOK, Labels
    <2>3. MemoryOK(label, req[p], mem[p])
      BY <1>3, <2>1, WorkFacts DEF MemoryOK
    <2> QED BY <2>2, <2>3
  <1>4. CASE Copy(p)
    <2> DEFINE n == [t EXCEPT !.staging = Torn, !.previous = None]
    <2>1. pc[p] \in CaptureLabels
      BY <1>4 DEF Copy, CaptureLabels
    <2>2. n \in StateTrees
      BY <1>1, <2>1 DEF StateTrees
    <2> QED BY <1>1, <1>2, <1>4, <2>1, <2>2, ContentStep DEF Copy, Here, CaptureLabels
  <1>5. CASE Copied(p)
    <2> DEFINE n == [t EXCEPT !.staging = req[p].value]
    <2>1. pc[p] \in CaptureLabels
      BY <1>5 DEF Copied, CaptureLabels
    <2>2. n \in StateTrees
      BY <1>1, <2>1 DEF StateTrees
    <2> QED BY <1>1, <1>2, <1>5, <2>1, <2>2, ContentStep DEF Copied, Here, CaptureLabels
  <1>6. CASE MoveAside(p)
    <2> DEFINE n == [t EXCEPT !.previous = t.project, !.project = None]
    <2>1. pc[p] \in CaptureLabels
      BY <1>6 DEF MoveAside, CaptureLabels
    <2>2. n \in StateTrees
      BY <1>1, <2>1 DEF StateTrees, Parts
    <2> QED BY <1>1, <1>2, <1>6, <2>1, <2>2, ContentStep DEF MoveAside, Here, CaptureLabels
  <1>7. CASE Install(p)
    <2> DEFINE n == [t EXCEPT !.project = t.staging, !.staging = None]
    <2>1. pc[p] \in CaptureLabels
      BY <1>7 DEF Install, CaptureLabels
    <2>2. n \in StateTrees
      BY <1>1, <2>1 DEF StateTrees, Parts
    <2> QED BY <1>1, <1>2, <1>7, <2>1, <2>2, ContentStep DEF Install, Here, CaptureLabels
  <1>8. CASE Sweep(p)
    <2> DEFINE n == [t EXCEPT !.previous = None]
    <2>1. pc[p] \in CaptureLabels
      BY <1>8 DEF Sweep, CaptureLabels
    <2>2. n \in StateTrees
      BY <1>1, <2>1 DEF StateTrees
    <2> QED BY <1>1, <1>2, <1>8, <2>1, <2>2, ContentStep DEF Sweep, Here, CaptureLabels
  <1>9. CASE Write(p)
    <2> DEFINE n == [t EXCEPT !.tmp = Torn]
    <2>1. pc[p] \in {"write", "rename"}
      BY <1>9 DEF Write
    <2>2. n \in StateTrees
      BY <1>1, <2>1 DEF StateTrees
    <2> QED BY <1>1, <1>3, <1>9, <2>1, <2>2, ContentStep DEF Write, Here
  <1>10. CASE Rename(p)
    <2> DEFINE n == [t EXCEPT !.tmp = None, !.file = req[p].value]
    <2>1. pc[p] \in {"write", "rename"}
      BY <1>10 DEF Rename
    <2>2. n \in StateTrees
      BY <1>1, <2>1 DEF StateTrees
    <2> QED BY <1>1, <1>3, <1>10, <2>1, <2>2, ContentStep DEF Rename, Here
  <1>11. CASE Record(p)
    <2> DEFINE sources == IF req[p].op = "derive" THEN {<<req[p].ctx, mem[p].selected>>} ELSE {}
               m == Recorded(mem[p].manifest, RevisionOf(Home(p)), req[p].op, sources)
    <2>1. pc[p] = "record" /\ pc[p] # "idle"
      BY <1>11 DEF Record
    <2>2. req[p].op \in {"capture", "session", "publish", "derive"}
      BY <2>1, WorkFacts, OpsTable
    <2>3. req[p].op \in Operations
      BY <2>2 DEF Operations, LockedOps, UnlockedOps
    <2>4. sources \in SUBSET (Contexts \X AllTrees)
      <3>1. req[p].op = "derive" => mem[p].selected \in AllTrees
        BY <2>1, WorkFacts DEF MemoryOK, Memories
      <3> QED BY <2>1, <3>1, WorkFacts
    <2>5. ManifestOK(Home(p), m)
      <3>1. EntriesOK(Home(p), mem[p].manifest) /\ ManifestOK(Home(p), mem[p].manifest)
        BY <2>1, WorkFacts DEF MemoryOK, ManifestOK
      <3>2. ContentOf(Home(p), RevisionOf(Home(p)))
        BY <2>1, HomeFacts DEF RevisionOf
      <3> QED BY <2>3, <2>4, <3>1, <3>2, RecordedOK
    <2>6. RequestOK("unlock", req[p])
      BY <2>1, <2>2, WorkFacts, OpsTable DEF RequestOK, Labels, LockedOps
    <2>7. MemoryOK("unlock", req[p], mem[p])
      BY <2>1, <2>2, WorkFacts DEF MemoryOK, SnapLabels
    <2>8. Processes'
      BY <1>11, <2>6, <2>7, StepOK DEF BaseInv, Record
    <2>9. DiskTables' /\ DiskOK'
      <3>1. manifest' = [manifest EXCEPT ![Home(p)] = m]
        BY <1>11 DEF Record
      <3>2. Home(p) \in Contexts
        BY <2>1, WorkFacts
      <3> HIDE DEF m
      <3> QED BY <1>11, <2>1, <2>5, <3>1, <3>2, HomeFacts, DiskFrame DEF BaseInv, Record
    <2> QED BY <1>11, <2>8, <2>9 DEF BaseInv, Counters, Record, budget
  <1> QED BY <1>4, <1>5, <1>6, <1>7, <1>8, <1>9, <1>10, <1>11 DEF Capturing

\* A manifest of a process at work and the newest revision it names.
LEMMA RevisionFacts ==
  ASSUME BaseInv, NEW p \in Procs, pc[p] \in {"snap_export", "snap_manifest", "snap_list"}
  PROVE  /\ pc[p] # "idle" /\ req[p].op \in {"snapshot", "restore"}
         /\ Revision(p) \in AllTrees /\ ContentOf(Home(p), Revision(p))
  <1>1. pc[p] # "idle" /\ req[p].op \in {"snapshot", "restore"}
    BY WorkFacts, OpsTable DEF SnapLabels
  <1>2. mem[p].manifest \in Manifests /\ ManifestOK(Home(p), mem[p].manifest)
        /\ Named(mem[p].manifest)
    BY <1>1, WorkFacts DEF MemoryOK, Memories
  <1>3. Len(mem[p].manifest.history) \in 1..Len(mem[p].manifest.history)
    BY <1>2 DEF Manifests, Named
  <1>4. ContentOf(Home(p), Revision(p))
    BY <1>2, <1>3 DEF ManifestOK, EntriesOK, Revision, Last
  <1> QED BY <1>1, <1>4, ContentFacts

\* The snapshot in the making: its revision, its object, the manifest, the index.
LEMMA SnapshottingOK ==
  ASSUME BaseInv, NEW p \in Procs, Snapshotting(p)
  PROVE  BaseInv'
  <1>0. lock \in [Contexts -> {"free", "held", "old"}]
    BY DEF BaseInv, Counters
  <1>1. ASSUME pc[p] \in SnapLabels
        PROVE  pc[p] # "idle" /\ req[p].op \in {"snapshot", "restore"}
    BY <1>1, WorkFacts, OpsTable DEF SnapLabels
  <1>2. ASSUME pc[p] \in SnapLabels, NEW label \in SnapLabels \cup {"unlock"}
        PROVE  RequestOK(label, req[p])
    BY <1>1, <1>2, WorkFacts, OpsTable DEF RequestOK, Labels, SnapLabels, LockedOps
  <1>3. CASE SnapIndex(p)
    <2> DEFINE operation == IF Safety(p) THEN "restore-safety" ELSE "snapshot"
               n == Recorded(mem[p].manifest, RevisionOf(Home(p)), operation, {})
               m == [mem[p] EXCEPT !.index = index[Home(p)], !.manifest = n]
    <2>1. pc[p] = "snap_index" /\ pc[p] \in SnapLabels
      BY <1>3 DEF SnapIndex, SnapLabels
    <2>2. operation \in Operations
      BY DEF Operations, LockedOps
    <2>3. EntriesOK(Home(p), mem[p].manifest) /\ ManifestOK(Home(p), mem[p].manifest)
      BY <1>1, <2>1, WorkFacts DEF MemoryOK, ManifestOK
    <2>4. ContentOf(Home(p), RevisionOf(Home(p)))
      BY <1>1, <2>1, HomeFacts DEF RevisionOf
    <2>5. ManifestOK(Home(p), n) /\ n \in Manifests /\ Named(n)
      <3>1. {} \in SUBSET (Contexts \X AllTrees)
        OBVIOUS
      <3>2. ManifestOK(Home(p), n) /\ Named(n)
        BY <2>2, <2>3, <2>4, <3>1, RecordedOK
      <3> QED BY <3>2 DEF ManifestOK, EntriesOK
    <2>6. MemoryOK("snap_export", req[p], m)
      <3> HIDE DEF n
      <3> QED BY <1>1, <2>1, <2>5, WorkFacts, HomeFacts DEF MemoryOK, Memories, SnapLabels
    <2>7. CASE Recall(p, m) /\ Goto(p, "snap_export")
      <3>1. RequestOK("snap_export", req[p])
        BY <1>2, <2>1 DEF SnapLabels
      <3> HIDE DEF m
      <3> QED BY <1>0, <1>1, <1>3, <2>1, <2>6, <2>7, <3>1, ReadStep DEF SnapIndex, Recall
    <2>8. CASE Goto(p, "unlock") /\ UNCHANGED mem
      <3>1. MemoryOK("unlock", req[p], mem[p]) /\ RequestOK("unlock", req[p])
        BY <1>1, <1>2, <2>1, WorkFacts DEF MemoryOK, SnapLabels
      <3> QED BY <1>0, <1>1, <1>3, <2>1, <2>8, <3>1, WorkFacts, ReadStep DEF SnapIndex
    <2> QED BY <1>3, <2>7, <2>8 DEF SnapIndex
  <1>4. CASE SnapExport(p)
    <2> DEFINE r == Revision(p)
               c == Home(p)
               made == [tree |-> Here(p), manifest |-> mem[p].manifest]
               o == [x \in DOMAIN objects[c] \cup {r} |-> IF x = r THEN made ELSE objects[c][x]]
    <2>1. pc[p] = "snap_export" /\ pc[p] \in SnapLabels
      BY <1>4 DEF SnapExport, SnapLabels
    <2>2. Processes'
      <3>1. RequestOK("snap_manifest", req[p])
        BY <1>2, <2>1 DEF SnapLabels
      <3>2. MemoryOK("snap_manifest", req[p], mem[p])
        BY <1>1, <2>1, WorkFacts DEF MemoryOK, SnapLabels
      <3> QED BY <1>4, <3>1, <3>2, StepOK DEF BaseInv, SnapExport
    <2>3. StoreOK(c, o)
      <3>1. c \in Contexts /\ ContentOf(c, r) /\ r \in AllTrees
        BY <1>1, <2>1, WorkFacts, RevisionFacts
      <3>2. made \in SnapshotObjects /\ made.tree = tree[c] /\ made.manifest = mem[p].manifest
        BY <1>1, <2>1, WorkFacts, HomeFacts DEF SnapshotObjects, Here, MemoryOK, Memories
      <3>3. ContentOf(c, made.tree) /\ ManifestOK(c, made.manifest)
        BY <1>1, <2>1, <3>2, WorkFacts, HomeFacts DEF MemoryOK
      <3>4. PICK D \in SUBSET AllTrees : objects[c] \in [D -> SnapshotObjects]
        BY <1>1, <2>1, HomeFacts DEF Stores
      <3> HIDE DEF made, r, c
      <3>5. o \in [D \cup {r} -> SnapshotObjects]
        BY <3>1, <3>2, <3>4
      <3>6. o \in Stores
        BY <3>1, <3>5 DEF Stores
      <3>7. ASSUME NEW x \in DOMAIN o
            PROVE  ContentOf(c, x) /\ ContentOf(c, o[x].tree) /\ ManifestOK(c, o[x].manifest)
        <4>1. StoreOK(c, objects[c])
          BY <1>1, <2>1, HomeFacts DEF c
        <4> QED BY <3>1, <3>3, <3>7, <4>1 DEF StoreOK
      <3> QED BY <3>6, <3>7 DEF StoreOK
    <2>4. DiskTables' /\ DiskOK'
      <3>1. c \in Contexts /\ StoreOK(c, objects[c]) /\ objects = [objects EXCEPT ![c] = objects[c]]
        BY <1>1, <2>1, WorkFacts, HomeFacts
      <3>2. PICK s : objects' = [objects EXCEPT ![c] = s] /\ StoreOK(c, s)
        <4>1. CASE r \in DOMAIN objects[c]
          BY <1>4, <3>1, <4>1 DEF SnapExport
        <4>2. CASE r \notin DOMAIN objects[c]
          <5>1. objects' = [objects EXCEPT ![c] = o]
            BY <1>4, <3>1, <4>2 DEF SnapExport, BaseInv, DiskTables
          <5> QED BY <2>3, <5>1
        <4> QED BY <4>1, <4>2
      <3> QED BY <1>1, <1>4, <2>1, <3>1, <3>2, HomeFacts, DiskFrame DEF BaseInv, SnapExport
    <2> QED BY <1>4, <2>2, <2>4 DEF BaseInv, Counters, SnapExport, budget
  <1>5. CASE SnapManifest(p)
    <2>1. pc[p] = "snap_manifest" /\ pc[p] \in SnapLabels
      BY <1>5 DEF SnapManifest, SnapLabels
    <2>2. Processes'
      <3>1. RequestOK("snap_list", req[p])
        BY <1>2, <2>1 DEF SnapLabels
      <3>2. MemoryOK("snap_list", req[p], mem[p])
        BY <1>1, <2>1, WorkFacts DEF MemoryOK, SnapLabels
      <3> QED BY <1>5, <3>1, <3>2, StepOK DEF BaseInv, SnapManifest
    <2>3. Home(p) \in Contexts /\ ManifestOK(Home(p), mem[p].manifest)
      BY <1>1, <2>1, WorkFacts DEF MemoryOK
    <2>4. DiskTables' /\ DiskOK'
      BY <1>1, <1>5, <2>1, <2>3, HomeFacts, DiskFrame DEF BaseInv, SnapManifest
    <2> QED BY <1>5, <2>2, <2>4 DEF BaseInv, Counters, SnapManifest, budget
  <1>6. CASE SnapList(p)
    <2> DEFINE item == [name |-> SnapshotName(p), rev |-> Revision(p),
                        protected |-> Safety(p) \/ req[p].flag]
               x == [mem[p].index EXCEPT !.items = Append(mem[p].index.items, item)]
    <2>1. pc[p] = "snap_list" /\ pc[p] \in SnapLabels
      BY <1>6 DEF SnapList, SnapLabels
    <2>2. Processes'
      <3>1. CASE Safety(p)
        <4>1. RequestOK("stage", req[p])
          BY <1>1, <2>1, <3>1, WorkFacts, OpsTable DEF RequestOK, Labels, RestoreLabels, Safety
        <4>2. MemoryOK("stage", req[p], mem[p])
          BY <1>1, <2>1, <3>1, WorkFacts DEF MemoryOK, SnapLabels, Safety
        <4> QED BY <1>6, <3>1, <4>1, <4>2, StepOK DEF BaseInv, SnapList
      <3>2. CASE ~Safety(p)
        <4>1. MemoryOK("unlock", req[p], mem[p]) /\ RequestOK("unlock", req[p])
          BY <1>1, <1>2, <2>1, WorkFacts DEF MemoryOK, SnapLabels
        <4> QED BY <1>6, <3>2, <4>1, StepOK DEF BaseInv, SnapList
      <3> QED BY <3>1, <3>2
    <2>3. item \in SnapshotItems /\ item.rev = Revision(p) /\ ContentOf(Home(p), item.rev)
      <3>1. SnapshotName(p) \in AllNames
        BY <1>1, <2>1, WorkFacts DEF SnapshotName, Safety, AllNames, RequestOK, RequestRecords
      <3>2. (Safety(p) \/ req[p].flag) \in BOOLEAN
        BY <1>1, <2>1, WorkFacts DEF RequestRecords
      <3> QED BY <2>1, <3>1, <3>2, RevisionFacts DEF SnapshotItems
    <2>4. IndexOK(Home(p), x)
      <3> HIDE DEF item
      <3>1. mem[p].index \in Indexes /\ IndexOK(Home(p), mem[p].index)
        BY <1>1, <2>1, WorkFacts DEF MemoryOK, Memories
      <3>2. x \in Indexes /\ x.items = Append(mem[p].index.items, item)
        <4>1. Append(mem[p].index.items, item) \in Seq(SnapshotItems)
          BY <2>3, <3>1 DEF Indexes
        <4> QED BY <3>1, <4>1 DEF Indexes
      <3>3. \A i \in 1..Len(x.items) :
              \/ i \in 1..Len(mem[p].index.items) /\ x.items[i] = mem[p].index.items[i]
              \/ x.items[i] = item
        BY <2>3, <3>1, <3>2 DEF Indexes
      <3> QED BY <2>3, <3>1, <3>2, <3>3 DEF IndexOK
    <2>5. DiskTables' /\ DiskOK'
      <3>1. index' = [index EXCEPT ![Home(p)] = x] /\ Home(p) \in Contexts
        BY <1>1, <1>6, <2>1, WorkFacts DEF SnapList
      <3> HIDE DEF x
      <3> QED BY <1>1, <1>6, <2>1, <2>4, <3>1, HomeFacts, DiskFrame DEF BaseInv, SnapList
    <2> QED BY <1>6, <2>2, <2>5 DEF BaseInv, Counters, SnapList, budget
  <1> QED BY <1>3, <1>4, <1>5, <1>6 DEF Snapshotting

\* The replacement of the content by that of a snapshot.
LEMMA RestoringOK ==
  ASSUME BaseInv, NEW p \in Procs, Restoring(p)
  PROVE  BaseInv'
  <1>0. lock \in [Contexts -> {"free", "held", "old"}]
    BY DEF BaseInv, Counters
  <1>1. ASSUME pc[p] \in RestoreLabels
        PROVE  pc[p] # "idle" /\ req[p].op = "restore" /\ req[p].ctx = Home(p)
    BY <1>1, WorkFacts, OpsTable DEF RestoreLabels
  <1>2. ASSUME pc[p] \in RestoreLabels, NEW label \in RestoreLabels \cup {"unlock", "snap_index"}
        PROVE  RequestOK(label, req[p])
    BY <1>1, <1>2, WorkFacts, OpsTable DEF RequestOK, Labels, RestoreLabels, SnapLabels, LockedOps
  <1>3. ASSUME pc[p] \in RestoreLabels PROVE MemoryOK("unlock", req[p], mem[p])
    BY <1>1, <1>3, WorkFacts DEF MemoryOK, SnapLabels
  <1>4. ASSUME pc[p] \in RestoreLabels, Goto(p, "unlock"), UNCHANGED <<disk, lock, req, mem, budget>>
        PROVE  BaseInv'
    BY <1>0, <1>1, <1>2, <1>3, <1>4, WorkFacts, ReadStep
  <1>5. CASE Select(p)
    <2>1. pc[p] = "select" /\ pc[p] \in RestoreLabels
      BY <1>5 DEF Select, RestoreLabels
    <2>2. ASSUME NEW s \in Items(Home(p)), Recall(p, [mem[p] EXCEPT !.selected = s.rev]),
                 Goto(p, IF RevisionOf(Home(p)) = s.rev THEN "stage" ELSE "snap_index")
          PROVE  BaseInv'
      <3> DEFINE m == [mem[p] EXCEPT !.selected = s.rev]
                 label == IF RevisionOf(Home(p)) = s.rev THEN "stage" ELSE "snap_index"
      <3>1. ContentOf(Home(p), s.rev) /\ s.rev \in AllTrees /\ s.rev # None
        <4>1. IndexOK(Home(p), index[Home(p)])
          BY <1>1, <2>1, HomeFacts
        <4>2. ContentOf(Home(p), s.rev)
          BY <4>1 DEF IndexOK, Items
        <4> QED BY <4>2, ContentFacts
      <3>2. label \in {"stage", "snap_index"} /\ RequestOK(label, req[p])
        BY <1>2, <2>1 DEF RestoreLabels
      <3>3. MemoryOK(label, req[p], m)
        BY <1>1, <2>1, <3>1, <3>2, WorkFacts DEF MemoryOK, Memories, SnapLabels
      <3> HIDE DEF m, label
      <3> QED BY <1>0, <1>1, <1>5, <2>1, <2>2, <3>2, <3>3, ReadStep DEF Select, Recall, m, label
    <2> QED BY <1>4, <1>5, <2>1, <2>2 DEF Select
  <1>6. CASE Stage(p)
    <2>1. pc[p] = "stage" /\ pc[p] \in RestoreLabels
      BY <1>6 DEF Stage, RestoreLabels
    <2>2. ASSUME mem[p].selected \in DOMAIN objects[Home(p)], Goto(p, "swap_out"),
                 Recall(p, [mem[p] EXCEPT !.staged = objects[Home(p)][mem[p].selected].tree])
          PROVE  BaseInv'
      <3> DEFINE s == objects[Home(p)][mem[p].selected].tree
                 m == [mem[p] EXCEPT !.staged = s]
      <3>1. ContentOf(Home(p), s) /\ s \in AllTrees
        BY <1>1, <2>1, <2>2, HomeFacts, ContentFacts DEF StoreOK
      <3>2. RequestOK("swap_out", req[p])
        BY <1>2, <2>1 DEF RestoreLabels
      <3>3. MemoryOK("swap_out", req[p], m)
        <4> HIDE DEF s
        <4> QED BY <1>1, <2>1, <3>1, WorkFacts DEF MemoryOK, Memories, SnapLabels
      <3> HIDE DEF m
      <3> QED BY <1>0, <1>1, <1>6, <2>1, <2>2, <3>2, <3>3, ReadStep DEF Stage, Recall, m
    <2> QED BY <1>4, <1>6, <2>1, <2>2 DEF Stage
  <1>7. CASE SwapOut(p)
    <2> DEFINE m == [mem[p] EXCEPT !.aside.tree = tree[Home(p)]]
    <2>1. pc[p] = "swap_out" /\ pc[p] \in RestoreLabels
      BY <1>7 DEF SwapOut, RestoreLabels
    <2>2. RequestOK("swap_in", req[p])
      BY <1>2, <2>1 DEF RestoreLabels
    <2>3. MemoryOK("swap_in", req[p], m)
      <3>1. mem[p] \in Memories /\ mem[p].aside \in Directories /\ DirectoryOK(Home(p), mem[p].aside)
        BY <1>1, <2>1, WorkFacts DEF MemoryOK, Memories
      <3>2. tree[Home(p)] \in AllTrees /\ ContentOf(Home(p), tree[Home(p)])
        BY <1>1, <2>1, HomeFacts
      <3> DEFINE a == [mem[p].aside EXCEPT !.tree = tree[Home(p)]]
      <3>3. a \in Directories /\ DirectoryOK(Home(p), a)
        BY <3>1, <3>2 DEF Directories, DirectoryOK
      <3>4. m = [mem[p] EXCEPT !.aside = a]
        OBVIOUS
      <3> HIDE DEF a, m
      <3> QED BY <1>1, <2>1, <3>1, <3>3, <3>4, WorkFacts DEF MemoryOK, Memories, SnapLabels
    <2>4. Processes'
      <3> HIDE DEF m
      <3> QED BY <1>7, <2>2, <2>3, GotoOK DEF BaseInv, SwapOut, Recall, Here, m
    <2>5. DiskTables' /\ DiskOK'
      <3>1. Home(p) \in Contexts
        BY <1>1, <2>1, WorkFacts
      <3> QED BY <1>1, <1>7, <2>1, <3>1, HomeFacts, ContentFacts, DiskFrame DEF BaseInv, SwapOut,
                 Put
    <2> QED BY <1>7, <2>4, <2>5 DEF BaseInv, Counters, SwapOut, budget
  <1>8. CASE SwapIn(p)
    <2>1. pc[p] = "swap_in" /\ pc[p] \in RestoreLabels
      BY <1>8 DEF SwapIn, RestoreLabels
    <2>2. RequestOK("restored", req[p])
      BY <1>2, <2>1 DEF RestoreLabels
    <2>3. MemoryOK("restored", req[p], mem[p]) /\ ContentOf(Home(p), mem[p].staged)
      BY <1>1, <2>1, WorkFacts DEF MemoryOK, SnapLabels
    <2> QED BY <1>1, <1>8, <2>1, <2>2, <2>3, ContentStep DEF SwapIn
  <1>9. CASE Restored(p)
    <2> DEFINE old == [mem[p].manifest EXCEPT !.current = None]
               sources == {<<Home(p), mem[p].selected>>}
               m == Recorded(old, RevisionOf(Home(p)), "restore", sources)
    <2>1. pc[p] = "restored" /\ pc[p] \in RestoreLabels
      BY <1>9 DEF Restored, RestoreLabels
    <2>2. EntriesOK(Home(p), old) /\ old.current = None
      BY <1>1, <2>1, WorkFacts DEF MemoryOK, ManifestOK, EntriesOK, Manifests
    <2>3. sources \in SUBSET (Contexts \X AllTrees)
      BY <1>1, <2>1, WorkFacts DEF MemoryOK, Memories
    <2>4. ManifestOK(Home(p), m)
      <3>1. ContentOf(Home(p), RevisionOf(Home(p))) /\ "restore" \in Operations
        BY <1>1, <2>1, HomeFacts DEF RevisionOf, Operations, LockedOps
      <3> HIDE DEF old, sources
      <3> QED BY <2>2, <2>3, <3>1, RecordedOK
    <2>5. Processes'
      <3>1. RequestOK("unlock", req[p])
        BY <1>2, <2>1
      <3> QED BY <1>3, <1>9, <2>1, <3>1, StepOK DEF BaseInv, Restored
    <2>6. DiskTables' /\ DiskOK'
      <3>1. manifest' = [manifest EXCEPT ![Home(p)] = m] /\ Home(p) \in Contexts
        BY <1>1, <1>9, <2>1, WorkFacts DEF Restored
      <3> HIDE DEF m
      <3> QED BY <1>1, <1>9, <2>1, <2>4, <3>1, HomeFacts, DiskFrame DEF BaseInv, Restored
    <2> QED BY <1>9, <2>5, <2>6 DEF BaseInv, Counters, Restored, budget
  <1> QED BY <1>5, <1>6, <1>7, <1>8, <1>9 DEF Restoring

\* Contexts of one type hold the same kinds of content.
LEMMA StatesAlike ==
  ASSUME NEW c \in States, NEW d \in States
  PROVE  /\ \A t : ContentOf(c, t) => ContentOf(d, t)
         /\ \A m : ManifestOK(c, m) => ManifestOK(d, m)
  BY ContentFacts DEF ManifestOK, EntriesOK

\* The commands that take no lock.
LEMMA UnlockedOK ==
  ASSUME BaseInv, NEW p \in Procs, Unlocked(p)
  PROVE  BaseInv'
  <1>0. lock \in [Contexts -> {"free", "held", "old"}]
    BY DEF BaseInv, Counters
  <1>1. CASE CloneImport(p)
    <2> DEFINE c == req[p].ctx
               d == req[p].dest
               r == mem[p].selected
    <2>1. pc[p] = "clone_import" /\ pc[p] # "idle"
      BY <1>1 DEF CloneImport
    <2>2. req[p].op = "clone" /\ c \in States /\ d \in States
      BY <2>1, WorkFacts, OpsTable DEF RequestOK
    <2>3. ASSUME r \in DOMAIN objects[c], Goto(p, "clone_record"), UNCHANGED <<req, mem>>,
                 tree' = [tree EXCEPT ![d] = objects[c][r].tree],
                 manifest' = [manifest EXCEPT ![d] = [objects[c][r].manifest EXCEPT !.attached = FALSE]]
          PROVE  BaseInv'
      <3> DEFINE m == [objects[c][r].manifest EXCEPT !.attached = FALSE]
      <3>1. Processes'
        <4>1. RequestOK("clone_record", req[p])
          BY <2>1, <2>2, WorkFacts, OpsTable DEF RequestOK, Labels
        <4>2. MemoryOK("clone_record", req[p], mem[p])
          BY <2>1, <2>2, WorkFacts DEF MemoryOK, SnapLabels
        <4> QED BY <2>3, <4>1, <4>2, StepOK DEF BaseInv
      <3>2. ContentOf(d, objects[c][r].tree) /\ ManifestOK(d, objects[c][r].manifest)
        <4>1. c = Home(p) /\ StoreOK(c, objects[c])
          BY <2>1, <2>2, WorkFacts, HomeFacts
        <4> QED BY <2>2, <2>3, <4>1, StatesAlike DEF StoreOK
      <3>3. ManifestOK(d, m)
        BY <3>2 DEF ManifestOK, EntriesOK, Manifests
      <3>4. DiskTables' /\ DiskOK'
        <4>1. d \in Contexts
          BY <2>2 DEF Contexts
        <4>2. manifest' = [manifest EXCEPT ![d] = m]
          BY <2>3
        <4> HIDE DEF m, d
        <4> QED BY <1>1, <2>3, <3>2, <3>3, <4>1, <4>2, DirectoryFacts, DiskFrame
            DEF BaseInv, CloneImport, d
      <3> QED BY <1>1, <3>1, <3>4 DEF BaseInv, Counters, CloneImport, budget
    <2>4. CASE Exit(p) /\ UNCHANGED <<tree, manifest>>
      BY <1>0, <1>1, <2>4, EndStep DEF CloneImport, disk
    <2> QED BY <1>1, <2>3, <2>4 DEF CloneImport
  <1>2. CASE CloneRecord(p)
    <2> DEFINE d == req[p].dest
               sources == {<<req[p].ctx, mem[p].selected>>}
               m == Recorded(NewManifest, RevisionOf(d), "clone", sources)
    <2>1. pc[p] = "clone_record" /\ pc[p] # "idle"
      BY <1>2 DEF CloneRecord
    <2>2. req[p].op = "clone" /\ d \in Contexts
      BY <2>1, WorkFacts, OpsTable DEF RequestOK, Contexts
    <2>3. ManifestOK(d, m)
      <3>1. sources \in SUBSET (Contexts \X AllTrees)
        BY <2>1, WorkFacts DEF MemoryOK, Memories
      <3>2. ContentOf(d, RevisionOf(d))
        BY <2>2, DirectoryFacts DEF BaseInv, RevisionOf
      <3>3. EntriesOK(d, NewManifest) /\ ManifestOK(d, NewManifest) /\ "clone" \in Operations
        BY ValueFacts DEF ManifestOK, Operations, UnlockedOps
      <3> HIDE DEF sources, d
      <3> QED BY <3>1, <3>2, <3>3, RecordedOK
    <2>4. Processes'
      BY <1>2, ExitOK DEF BaseInv, CloneRecord
    <2>5. DiskTables' /\ DiskOK'
      <3>1. manifest' = [manifest EXCEPT ![d] = m]
        BY <1>2 DEF CloneRecord
      <3> HIDE DEF m, d
      <3> QED BY <1>2, <2>2, <2>3, <3>1, DirectoryFacts, DiskFrame DEF BaseInv, CloneRecord
    <2> QED BY <1>2, <2>4, <2>5 DEF BaseInv, Counters, CloneRecord, budget
  <1>3. CASE Attach(p)
    <2> DEFINE m == [mem[p].manifest EXCEPT !.attached = req[p].flag]
    <2>1. pc[p] = "attach" /\ pc[p] # "idle"
      BY <1>3 DEF Attach
    <2>2. ManifestOK(Home(p), m)
      <3>1. ManifestOK(Home(p), mem[p].manifest) /\ req[p].flag \in BOOLEAN
        BY <2>1, WorkFacts DEF MemoryOK, RequestRecords
      <3> QED BY <3>1 DEF ManifestOK, EntriesOK, Manifests
    <2>3. Processes'
      BY <1>3, ExitOK DEF BaseInv, Attach
    <2>4. DiskTables' /\ DiskOK'
      <3>1. manifest' = [manifest EXCEPT ![Home(p)] = m] /\ Home(p) \in Contexts
        BY <1>3, <2>1, WorkFacts DEF Attach
      <3> HIDE DEF m
      <3> QED BY <1>3, <2>1, <2>2, <3>1, HomeFacts, DiskFrame DEF BaseInv, Attach
    <2> QED BY <1>3, <2>3, <2>4 DEF BaseInv, Counters, Attach, budget
  <1>4. CASE Collect(p)
    <2> DEFINE a == [mem[p].aside EXCEPT !.index = index[Home(p)]]
               m == [mem[p] EXCEPT !.aside = a]
    <2>1. pc[p] = "collect" /\ pc[p] # "idle"
      BY <1>4 DEF Collect
    <2>2. req[p].op = "collect"
      BY <2>1, WorkFacts, OpsTable
    <2>3. MemoryOK("prune", req[p], m)
      <3>1. mem[p].aside \in Directories /\ DirectoryOK(Home(p), mem[p].aside)
        BY <2>1, WorkFacts DEF MemoryOK, Memories
      <3>2. a \in Directories /\ DirectoryOK(Home(p), a)
        BY <2>1, <3>1, HomeFacts DEF Directories, DirectoryOK
      <3> HIDE DEF a
      <3> QED BY <2>1, <2>2, <3>2, WorkFacts DEF MemoryOK, Memories, SnapLabels
    <2>4. Processes'
      <3>1. RequestOK("prune", req[p])
        BY <2>1, <2>2, WorkFacts, OpsTable DEF RequestOK, Labels
      <3>2. mem' = [mem EXCEPT ![p] = m]
        BY <1>4 DEF Collect, Recall
      <3> HIDE DEF m
      <3> QED BY <1>4, <2>3, <3>1, <3>2, GotoOK DEF BaseInv, Collect
    <2>5. DiskTables' /\ DiskOK'
      <3>1. Home(p) \in Contexts /\ IndexOK(Home(p), mem[p].index)
        BY <2>1, WorkFacts DEF MemoryOK
      <3> QED BY <1>4, <2>1, <3>1, HomeFacts, DiskFrame DEF BaseInv, Collect
    <2> QED BY <1>4, <2>4, <2>5 DEF BaseInv, Counters, Collect, budget
  <1>5. CASE Prune(p)
    <2> DEFINE gone == Revs(mem[p].aside.index) \ Revs(mem[p].index)
               o == Without(objects[Home(p)], gone)
    <2>1. pc[p] = "prune" /\ pc[p] # "idle"
      BY <1>5 DEF Prune
    <2>2. StoreOK(Home(p), o)
      <3>1. StoreOK(Home(p), objects[Home(p)]) /\ objects[Home(p)] \in Stores
        BY <2>1, HomeFacts
      <3>2. PICK D \in SUBSET AllTrees : objects[Home(p)] \in [D -> SnapshotObjects]
        BY <3>1 DEF Stores
      <3> HIDE DEF gone
      <3>3. o \in [D \ gone -> SnapshotObjects] /\ \A r \in D \ gone : o[r] = objects[Home(p)][r]
        BY <3>2 DEF Without
      <3>4. o \in Stores
        BY <3>2, <3>3 DEF Stores
      <3> QED BY <3>1, <3>2, <3>3, <3>4 DEF StoreOK
    <2>3. Processes'
      BY <1>5, ExitOK DEF BaseInv, Prune
    <2>4. DiskTables' /\ DiskOK'
      <3>1. objects' = [objects EXCEPT ![Home(p)] = o] /\ Home(p) \in Contexts
        BY <1>5, <2>1, WorkFacts, HomeFacts DEF Prune, BaseInv, DiskTables
      <3> HIDE DEF o
      <3> QED BY <1>5, <2>1, <2>2, <3>1, HomeFacts, DiskFrame DEF BaseInv, Prune
    <2> QED BY <1>5, <2>3, <2>4 DEF BaseInv, Counters, Prune, budget
  <1>6. ASSUME NEW k \in 0..1, NEW a \in 0..1, SetRetention(p, k, a)
        PROVE  BaseInv'
    <2> DEFINE x == [mem[p].index EXCEPT !.keepLast = k, !.maxAge = a]
    <2>1. pc[p] = "retain" /\ pc[p] # "idle"
      BY <1>6 DEF SetRetention
    <2>2. IndexOK(Home(p), x)
      <3>1. mem[p].index \in Indexes /\ IndexOK(Home(p), mem[p].index)
        BY <2>1, WorkFacts DEF MemoryOK, Memories
      <3>2. k \in Nat /\ a \in Nat
        OBVIOUS
      <3>3. x \in Indexes /\ x.items = mem[p].index.items
        BY <3>1, <3>2 DEF Indexes
      <3> QED BY <3>1, <3>3 DEF IndexOK
    <2>3. Processes'
      BY <1>6, ExitOK DEF BaseInv, SetRetention
    <2>4. DiskTables' /\ DiskOK'
      <3>1. index' = [index EXCEPT ![Home(p)] = x] /\ Home(p) \in Contexts
        BY <1>6, <2>1, WorkFacts DEF SetRetention
      <3> HIDE DEF x
      <3> QED BY <1>6, <2>1, <2>2, <3>1, HomeFacts, DiskFrame DEF BaseInv, SetRetention
    <2> QED BY <1>6, <2>3, <2>4 DEF BaseInv, Counters, SetRetention, budget
  <1> QED BY <1>1, <1>2, <1>3, <1>4, <1>5, <1>6 DEF Unlocked

\* A whole directory of a context is replaced.
LEMMA InstallOK ==
  ASSUME DiskTables, DiskOK, NEW c \in Contexts, NEW dir, DirectoryOK(c, dir), InstallDirectory(c, dir)
  PROVE  DiskTables' /\ DiskOK'
  BY DirectoryFrame DEF InstallDirectory

\* The derivation of knowledge.
LEMMA DerivingOK ==
  ASSUME BaseInv, NEW p \in Procs, Deriving(p)
  PROVE  BaseInv'
  <1>0. lock \in [Contexts -> {"free", "held", "old"}]
    BY DEF BaseInv, Counters
  <1>1. ASSUME pc[p] \in {"source", "prior", "displace", "place"}
        PROVE  /\ pc[p] # "idle" /\ req[p].op = "derive" /\ req[p].ctx \in States
               /\ Home(p) = req[p].dest /\ Home(p) \in Knowledge /\ Home(p) \in Contexts
    BY <1>1, WorkFacts, OpsTable DEF RequestOK, Home
  <1>2. ASSUME pc[p] \in {"source", "prior", "displace", "place"},
               NEW label \in {"prior", "displace", "place", "lock"}
        PROVE  RequestOK(label, req[p])
    BY <1>1, <1>2, WorkFacts, OpsTable DEF RequestOK, Labels
  <1>3. CASE Source(p)
    <2> DEFINE c == req[p].ctx
               m == [mem[p] EXCEPT !.selected = RevisionOf(c)]
    <2>1. pc[p] = "source" /\ pc[p] \in {"source", "prior", "displace", "place"}
      BY <1>3 DEF Source
    <2>2. lock' \in [Contexts -> {"free", "held", "old"}]
      BY <1>0, <1>3 DEF Source
    <2>3. ASSUME Recall(p, m), Goto(p, "prior"), UNCHANGED req
          PROVE  BaseInv'
      <3>1. ContentOf(c, RevisionOf(c)) /\ RevisionOf(c) \in AllTrees /\ RevisionOf(c) # None
        <4>1. c \in Contexts
          BY <1>1, <2>1 DEF Contexts
        <4>2. ContentOf(c, tree[c])
          BY <4>1, DirectoryFacts DEF BaseInv
        <4> QED BY <4>2, ContentFacts DEF RevisionOf
      <3>2. MemoryOK("prior", req[p], m)
        BY <1>1, <2>1, <3>1, WorkFacts DEF MemoryOK, Memories, SnapLabels
      <3>3. RequestOK("prior", req[p])
        BY <1>2, <2>1
      <3> HIDE DEF m
      <3> QED BY <1>1, <1>3, <2>1, <2>2, <2>3, <3>2, <3>3, ReadStep DEF Source, Recall
    <2>4. CASE Exit(p)
      BY <1>3, <2>2, <2>4, EndStep DEF Source
    <2> QED BY <1>3, <2>3, <2>4 DEF Source
  <1>4. CASE Prior(p)
    <2> DEFINE m == [mem[p] EXCEPT !.manifest = manifest[Home(p)], !.staged = Generated(p)]
    <2>1. pc[p] = "prior" /\ pc[p] \in {"source", "prior", "displace", "place"}
      BY <1>4 DEF Prior
    <2>2. ASSUME Recall(p, m), Goto(p, "displace"), UNCHANGED req
          PROVE  BaseInv'
      <3>1. ContentOf(Home(p), Generated(p)) /\ Generated(p) \in AllTrees
        <4>1. mem[p].selected \in StateTrees
          BY <1>1, <2>1, WorkFacts, ContentFacts DEF MemoryOK
        <4> QED BY <1>1, <2>1, <4>1, ContentFacts DEF Generated
      <3>2. MemoryOK("displace", req[p], m)
        BY <1>1, <2>1, <3>1, WorkFacts, HomeFacts DEF MemoryOK, Memories, SnapLabels
      <3>3. RequestOK("displace", req[p])
        BY <1>2, <2>1
      <3> HIDE DEF m
      <3> QED BY <1>0, <1>1, <1>4, <2>1, <2>2, <3>2, <3>3, ReadStep DEF Prior, Recall
    <2>3. CASE Exit(p)
      BY <1>0, <1>4, <2>3, EndStep DEF Prior
    <2> QED BY <1>4, <2>2, <2>3 DEF Prior
  <1>5. CASE Displace(p)
    <2> DEFINE m == [mem[p] EXCEPT !.aside = Directory(Home(p))]
    <2>1. pc[p] = "displace" /\ pc[p] \in {"source", "prior", "displace", "place"}
      BY <1>5 DEF Displace
    <2>2. DirectoryOK(Home(p), Directory(Home(p)))
      BY <1>1, <2>1 DEF BaseInv, DiskOK
    <2>3. Processes'
      <3>1. MemoryOK("place", req[p], m)
        BY <1>1, <2>1, <2>2, WorkFacts DEF MemoryOK, Memories, DirectoryOK, SnapLabels
      <3>2. RequestOK("place", req[p])
        BY <1>2, <2>1
      <3>3. mem' = [mem EXCEPT ![p] = m]
        BY <1>5 DEF Displace, Recall
      <3> HIDE DEF m
      <3> QED BY <1>5, <3>1, <3>2, <3>3, GotoOK DEF BaseInv, Displace
    <2>4. DiskTables' /\ DiskOK'
      BY <1>1, <1>5, <2>1, ValueFacts, InstallOK DEF BaseInv, Displace
    <2> QED BY <1>5, <2>3, <2>4 DEF BaseInv, Counters, Displace, budget
  <1>6. CASE Place(p)
    <2> DEFINE m == [mem[p].manifest EXCEPT !.live = TRUE, !.attached = FALSE]
               dir == [NoDir EXCEPT !.tree = mem[p].staged, !.manifest = m]
    <2>1. pc[p] = "place" /\ pc[p] \in {"source", "prior", "displace", "place"}
      BY <1>6 DEF Place
    <2>2. Processes'
      <3>1. MemoryOK("lock", req[p], mem[p])
        BY <1>1, <2>1, WorkFacts DEF MemoryOK, SnapLabels
      <3>2. RequestOK("lock", req[p])
        BY <1>2, <2>1
      <3> QED BY <1>6, <3>1, <3>2, StepOK DEF BaseInv, Place
    <2>3. DirectoryOK(Home(p), dir)
      <3>1. ManifestOK(Home(p), mem[p].manifest) /\ ContentOf(Home(p), mem[p].staged)
        BY <1>1, <2>1, WorkFacts DEF MemoryOK
      <3>2. ManifestOK(Home(p), m) /\ m \in Manifests
        BY <3>1 DEF ManifestOK, EntriesOK, Manifests
      <3>3. DirectoryOK(Home(p), NoDir)
        BY ValueFacts
      <3> HIDE DEF m
      <3> QED BY <3>1, <3>2, <3>3, ContentFacts DEF DirectoryOK, Directories
    <2>4. DiskTables' /\ DiskOK'
      <3>1. InstallDirectory(Home(p), dir)
        BY <1>6 DEF Place
      <3> HIDE DEF dir
      <3> QED BY <1>1, <2>1, <2>3, <3>1, InstallOK DEF BaseInv
    <2>5. Counters'
      BY <1>0, <1>6 DEF BaseInv, Counters, Place, budget
    <2> QED BY <2>2, <2>4, <2>5 DEF BaseInv
  <1> QED BY <1>3, <1>4, <1>5, <1>6 DEF Deriving

\* Errors and kills.
LEMMA FailingOK ==
  ASSUME BaseInv, NEW p \in Procs, Failing(p)
  PROVE  BaseInv'
  <1>1. ASSUME Error(p) PROVE Processes' /\ Counters'
    <2>1. Processes'
      BY <1>1, ExitOK DEF BaseInv, Error
    <2>2. lock' \in [Contexts -> {"free", "held", "old"}]
      BY <1>1 DEF BaseInv, Counters, Error
    <2>3. failures' \in 0..MaxFailures
      BY <1>1, StoreAssumption DEF BaseInv, Counters, Error
    <2>4. left' \in 0..MaxOps /\ crashes' \in 0..MaxCrashes
      BY <1>1 DEF BaseInv, Counters, Error
    <2> QED BY <2>1, <2>2, <2>3, <2>4 DEF Counters
  <1>2. CASE CommandFails(p)
    BY <1>1, <1>2, SameDisk DEF CommandFails, BaseInv
  <1>3. CASE CaptureFails(p)
    <2>1. PICK t : Put(p, t) /\ (Home(p) \in States /\ tree[Home(p)] \in StateTrees => t \in StateTrees)
      <3> DEFINE t == tree[Home(p)]
      <3>1. t \in StateTrees =>
              /\ [t EXCEPT !.staging = None] \in StateTrees /\ [t EXCEPT !.tmp = None] \in StateTrees
              /\ [t EXCEPT !.project = t.previous, !.previous = None] \in StateTrees
        BY DEF StateTrees, Parts
      <3>2. \/ Put(p, [t EXCEPT !.staging = None]) \/ Put(p, [t EXCEPT !.tmp = None])
            \/ Put(p, [t EXCEPT !.project = t.previous, !.previous = None])
        BY <1>3 DEF CaptureFails, Here
      <3> QED BY <3>1, <3>2
    <2>2. pc[p] \in {"copied", "move_aside", "install", "rename"} /\ pc[p] # "idle"
      BY <1>3 DEF CaptureFails
    <2>3. Home(p) \in States
      BY <2>2, WorkFacts, OpsTable DEF CaptureLabels
    <2>4. t \in StateTrees /\ ContentOf(Home(p), t)
      BY <2>1, <2>2, <2>3, HomeFacts, ContentFacts
    <2>5. DiskTables' /\ DiskOK'
      BY <1>3, <2>1, <2>2, <2>4, WorkFacts, HomeFacts, DiskFrame DEF BaseInv, CaptureFails, Put
    <2> QED BY <1>1, <1>3, <2>5 DEF CaptureFails, BaseInv
  <1>4. CASE SwapFails(p)
    <2>1. pc[p] # "idle"
      BY <1>4 DEF SwapFails
    <2>2. ContentOf(Home(p), mem[p].aside.tree)
      BY <2>1, WorkFacts DEF MemoryOK, DirectoryOK
    <2>3. DiskTables' /\ DiskOK'
      BY <1>4, <2>1, <2>2, WorkFacts, HomeFacts, DiskFrame DEF BaseInv, SwapFails, Put
    <2> QED BY <1>1, <1>4, <2>3 DEF SwapFails, BaseInv
  <1>5. CASE CloneFails(p)
    <2>1. req[p].dest \in Contexts
      BY <1>5, WorkFacts, OpsTable DEF CloneFails, RequestOK, Contexts
    <2>2. DiskTables' /\ DiskOK'
      BY <1>5, <2>1, ValueFacts, InstallOK DEF BaseInv, CloneFails
    <2> QED BY <1>1, <1>5, <2>2 DEF CloneFails, BaseInv
  <1>6. CASE PlaceFails(p)
    <2>1. Home(p) \in Contexts /\ DirectoryOK(Home(p), mem[p].aside)
      BY <1>6, WorkFacts DEF PlaceFails, MemoryOK
    <2>2. DiskTables' /\ DiskOK'
      BY <1>6, <2>1, InstallOK DEF BaseInv, PlaceFails
    <2> QED BY <1>1, <1>6, <2>2 DEF PlaceFails, BaseInv
  <1>7. CASE Crash(p)
    <2>1. Processes'
      BY <1>7, ExitOK DEF BaseInv, Crash
    <2>2. DiskTables' /\ DiskOK'
      BY <1>7, SameDisk DEF BaseInv, Crash
    <2>3. Counters'
      BY <1>7, StoreAssumption DEF BaseInv, Counters, Crash
    <2> QED BY <2>1, <2>2, <2>3 DEF BaseInv
  <1> QED BY <1>2, <1>3, <1>4, <1>5, <1>6, <1>7 DEF Failing

\* Every command starts with what it needs.
LEMMA StartStep ==
  ASSUME BaseInv, NEW p \in Procs, NEW label, NEW r, NEW m, Start(p, label, r),
         mem' = [mem EXCEPT ![p] = m], RequestOK(label, r), MemoryOK(label, r, m)
  PROVE  BaseInv'
  <1>1. Processes' /\ Counters'
    BY StartOK DEF BaseInv
  <1>2. DiskTables' /\ DiskOK'
    BY SameDisk DEF BaseInv, Start
  <1> QED BY <1>1, <1>2 DEF BaseInv

\* One that takes the lock first, or reads its source first, knows nothing yet.
LEMMA IdleFacts ==
  ASSUME BaseInv, NEW p \in Procs, pc[p] = "idle"
  PROVE  mem[p] = NoMem /\ req[p].op = "none" /\ mem = [mem EXCEPT ![p] = NoMem]
  BY OpsTable DEF BaseInv, Processes, MemoryOK, RequestOK

LEMMA LockedStartOK ==
  ASSUME BaseInv, NEW p \in Procs, NEW r, StartLocked(p, r), RequestOK("lock", r), r.op # "derive"
  PROVE  BaseInv'
  <1>1. pc[p] = "idle"
    BY DEF StartLocked, Start
  <1>2. mem' = [mem EXCEPT ![p] = NoMem]
    BY <1>1, IdleFacts DEF StartLocked
  <1>3. MemoryOK("lock", r, NoMem)
    BY ValueFacts
  <1> QED BY <1>2, <1>3, StartStep DEF StartLocked

\* A collection keeps some of the snapshots, in their order.
LEMMA KeptOK ==
  ASSUME NEW c, NEW x, IndexOK(c, x), NEW kept \in SUBSET (1..Len(x.items)), NEW f \in InOrder(kept)
  PROVE  LET y == [x EXCEPT !.items = [i \in DOMAIN f |-> x.items[f[i]]]]
         IN  y \in Indexes /\ IndexOK(c, y) /\ Revs(y) \subseteq Revs(x)
  <1> DEFINE s == [i \in DOMAIN f |-> x.items[f[i]]]
             y == [x EXCEPT !.items = s]
             n == Cardinality(kept)
  <1>1. n \in Nat
    <2>1. Len(x.items) \in Nat
      BY DEF IndexOK, Indexes
    <2>2. IsFiniteSet(1..Len(x.items))
      BY <2>1, FS_Interval
    <2>3. IsFiniteSet(kept)
      BY <2>2, FS_Subset
    <2> QED BY <2>3, FS_CardinalityType
  <1>2. x.items \in Seq(SnapshotItems) /\ x \in Indexes
    BY DEF IndexOK, Indexes
  <1>3. f \in [1..n -> kept] /\ DOMAIN f = 1..n
    BY DEF InOrder
  <1> HIDE DEF n
  <1>4. \A i \in 1..n : f[i] \in 1..Len(x.items) /\ s[i] = x.items[f[i]] /\ s[i] \in SnapshotItems
    <2>1. \A i \in 1..n : f[i] \in 1..Len(x.items) /\ s[i] = x.items[f[i]]
      BY <1>3
    <2>2. \A j \in 1..Len(x.items) : x.items[j] \in SnapshotItems
      BY <1>2
    <2> QED BY <2>1, <2>2
  <1>5. s \in Seq(SnapshotItems) /\ Len(s) = n
    BY <1>1, <1>3, <1>4
  <1>6. y \in Indexes /\ y.items = s
    BY <1>2, <1>5 DEF Indexes
  <1> HIDE DEF s, y
  <1>7. IndexOK(c, y)
    BY <1>4, <1>5, <1>6 DEF IndexOK
  <1>8. Revs(y) \subseteq Revs(x)
    BY <1>4, <1>5, <1>6 DEF Revs
  <1> QED BY <1>6, <1>7, <1>8 DEF y, s

LEMMA RequestOKStep ==
  ASSUME BaseInv, NEW p \in Procs, Request(p)
  PROVE  BaseInv'
  <1> PICK c \in Contexts :
        \/ c \in States /\ \E v \in Versions : CaptureStart(p, c, v) \/ SessionStart(p, c, v)
        \/ PublishStart(p, c)
        \/ \E n \in Names : \/ \E b \in BOOLEAN : SnapshotStart(p, c, n, b)
                            \/ RestoreStart(p, c, n)
                            \/ c \in States /\ \E d \in States : CloneStart(p, c, n, d)
        \/ \E on \in BOOLEAN : AttachStart(p, c, on)
        \/ RetainStart(p, c)
        \/ \E n \in Newest(c) : CollectStart(p, c, n)
        \/ c \in States /\ \E d \in Knowledge : DeriveStart(p, c, d)
    BY DEF Request
  <1>1. ASSUME c \in States, NEW v \in Versions, CaptureStart(p, c, v) \/ SessionStart(p, c, v)
        PROVE  BaseInv'
    <2>1. ASSUME NEW op \in {"capture", "session"},
                 StartLocked(p, [NoReq EXCEPT !.op = op, !.ctx = c, !.value = v])
          PROVE  BaseInv'
      <3> DEFINE r == [NoReq EXCEPT !.op = op, !.ctx = c, !.value = v]
      <3>1. r \in RequestRecords /\ r.op = op /\ r.ctx = c /\ r.value = v
        BY DEF RequestRecords, NoReq, LockedOps
      <3>2. RequestOK("lock", r)
        <4> HIDE DEF r
        <4> QED BY <1>1, <3>1, OpsTable DEF RequestOK, Labels, LockedOps
      <3> HIDE DEF r
      <3> QED BY <2>1, <3>1, <3>2, LockedStartOK DEF r
    <2> QED BY <1>1, <2>1 DEF CaptureStart, SessionStart
  <1>2. CASE PublishStart(p, c)
    <2> DEFINE r == [NoReq EXCEPT !.op = "publish", !.ctx = c]
    <2>1. r \in RequestRecords /\ r.op = "publish" /\ r.ctx = c
      BY DEF RequestRecords, NoReq, LockedOps
    <2> HIDE DEF r
    <2>2. RequestOK("lock", r)
      BY <2>1, OpsTable DEF RequestOK, Labels, LockedOps
    <2> QED BY <1>2, <2>1, <2>2, LockedStartOK DEF PublishStart, r
  <1>3. ASSUME NEW n \in Names, NEW b \in BOOLEAN, SnapshotStart(p, c, n, b)
        PROVE  BaseInv'
    <2> DEFINE r == [NoReq EXCEPT !.op = "snapshot", !.ctx = c, !.name = n, !.flag = b]
    <2>1. r \in RequestRecords /\ r.op = "snapshot" /\ r.ctx = c /\ r.name = n
      BY DEF RequestRecords, NoReq, LockedOps
    <2> HIDE DEF r
    <2>2. RequestOK("lock", r)
      BY <2>1, OpsTable DEF RequestOK, Labels, LockedOps
    <2> QED BY <1>3, <2>1, <2>2, LockedStartOK DEF SnapshotStart, r
  <1>4. ASSUME NEW n \in Names, RestoreStart(p, c, n)
        PROVE  BaseInv'
    <2> DEFINE r == [NoReq EXCEPT !.op = "restore", !.ctx = c, !.name = n]
    <2>1. r \in RequestRecords /\ r.op = "restore" /\ r.ctx = c
      BY DEF RequestRecords, NoReq, LockedOps
    <2> HIDE DEF r
    <2>2. RequestOK("lock", r)
      BY <2>1, OpsTable DEF RequestOK, Labels, LockedOps
    <2> QED BY <1>4, <2>1, <2>2, LockedStartOK DEF RestoreStart, r
  <1>5. ASSUME c \in States, NEW n \in Names, NEW d \in States, CloneStart(p, c, n, d)
        PROVE  BaseInv'
    <2> DEFINE r == [NoReq EXCEPT !.op = "clone", !.ctx = c, !.name = n, !.dest = d]
    <2>1. r \in RequestRecords /\ r.op = "clone" /\ r.ctx = c /\ r.dest = d
      BY DEF RequestRecords, NoReq, UnlockedOps, Contexts
    <2> HIDE DEF r
    <2>2. RequestOK("clone_import", r)
      BY <1>5, <2>1, OpsTable DEF RequestOK, Labels
    <2>3. PICK s \in Items(c) : Recall(p, [NoMem EXCEPT !.selected = s.rev])
      BY <1>5 DEF CloneStart
    <2>4. ContentOf(c, s.rev) /\ s.rev \in AllTrees /\ s.rev # None
      <3>1. IndexOK(c, index[c])
        BY DirectoryFacts DEF BaseInv
      <3>2. ContentOf(c, s.rev)
        BY <3>1 DEF IndexOK, Items
      <3> QED BY <3>2, ContentFacts
    <2>5. MemoryOK("clone_import", r, [NoMem EXCEPT !.selected = s.rev])
      BY <2>1, <2>4, ValueFacts, ContentFacts DEF MemoryOK, Memories, SnapLabels
    <2> QED BY <1>5, <2>2, <2>3, <2>5, StartStep DEF CloneStart, Recall, r
  <1>6. ASSUME NEW on \in BOOLEAN, AttachStart(p, c, on)
        PROVE  BaseInv'
    <2> DEFINE r == [NoReq EXCEPT !.op = "attach", !.ctx = c, !.flag = on]
               m == [NoMem EXCEPT !.manifest = manifest[c]]
    <2>1. r \in RequestRecords /\ r.op = "attach" /\ r.ctx = c
      BY DEF RequestRecords, NoReq, UnlockedOps
    <2> HIDE DEF r
    <2>2. RequestOK("attach", r)
      BY <2>1, OpsTable DEF RequestOK, Labels
    <2>3. manifest[c] \in Manifests /\ ManifestOK(c, manifest[c])
      BY DirectoryFacts DEF BaseInv
    <2>4. MemoryOK("attach", r, m)
      BY <2>1, <2>3, ValueFacts, ContentFacts DEF MemoryOK, Memories, SnapLabels, HomeOf
    <2> HIDE DEF m
    <2> QED BY <1>6, <2>2, <2>4, StartStep DEF AttachStart, Recall, r, m
  <1>7. CASE RetainStart(p, c)
    <2> DEFINE r == [NoReq EXCEPT !.op = "retain", !.ctx = c]
               m == [NoMem EXCEPT !.index = index[c]]
    <2>1. r \in RequestRecords /\ r.op = "retain" /\ r.ctx = c
      BY DEF RequestRecords, NoReq, UnlockedOps
    <2> HIDE DEF r
    <2>2. RequestOK("retain", r)
      BY <2>1, OpsTable DEF RequestOK, Labels
    <2>3. index[c] \in Indexes /\ IndexOK(c, index[c])
      BY DirectoryFacts DEF BaseInv
    <2>4. MemoryOK("retain", r, m)
      BY <2>1, <2>3, ValueFacts, ContentFacts DEF MemoryOK, Memories, SnapLabels, HomeOf
    <2> HIDE DEF m
    <2> QED BY <1>7, <2>2, <2>4, StartStep DEF RetainStart, Recall, r, m
  <1>8. ASSUME NEW n \in Newest(c), CollectStart(p, c, n)
        PROVE  BaseInv'
    <2> DEFINE r == [NoReq EXCEPT !.op = "collect", !.ctx = c]
    <2>1. r \in RequestRecords /\ r.op = "collect" /\ r.ctx = c
      BY DEF RequestRecords, NoReq, UnlockedOps
    <2> HIDE DEF r
    <2>2. RequestOK("collect", r)
      BY <2>1, OpsTable DEF RequestOK, Labels
    <2>3. PICK kept \in SUBSET (1..Len(index[c].items)) : CollectChosen(p, c, kept)
      BY <1>8 DEF CollectStart
    <2>4. PICK f \in InOrder(kept) :
            Recall(p, [NoMem EXCEPT !.spared = MustKeep(c), !.index =
              [index[c] EXCEPT !.items = [i \in DOMAIN f |-> index[c].items[f[i]]]]])
      BY <2>3 DEF CollectChosen
    <2> DEFINE x == [index[c] EXCEPT !.items = [i \in DOMAIN f |-> index[c].items[f[i]]]]
               m == [NoMem EXCEPT !.spared = MustKeep(c), !.index = x]
    <2>5. index[c] \in Indexes /\ IndexOK(c, index[c])
      BY DirectoryFacts DEF BaseInv
    <2>6. x \in Indexes /\ IndexOK(c, x)
      BY <2>5, KeptOK
    <2>7. MustKeep(c) \in SUBSET SnapshotItems
      BY <2>5 DEF MustKeep, Items, Indexes
    <2> HIDE DEF x
    <2>8. MemoryOK("collect", r, m)
      BY <2>1, <2>6, <2>7, ValueFacts, ContentFacts DEF MemoryOK, Memories, SnapLabels, HomeOf
    <2>9. mem' = [mem EXCEPT ![p] = m] /\ Start(p, "collect", r)
      BY <2>3, <2>4 DEF CollectChosen, Recall, x, r
    <2> HIDE DEF m
    <2> QED BY <2>2, <2>8, <2>9, StartStep
  <1>9. ASSUME c \in States, NEW d \in Knowledge, DeriveStart(p, c, d)
        PROVE  BaseInv'
    <2> DEFINE r == [NoReq EXCEPT !.op = "derive", !.ctx = c, !.dest = d]
    <2>1. r \in RequestRecords /\ r.op = "derive" /\ r.ctx = c /\ r.dest = d
      BY DEF RequestRecords, NoReq, UnlockedOps, Contexts
    <2> HIDE DEF r
    <2>2. RequestOK("source", r)
      BY <1>9, <2>1, OpsTable DEF RequestOK, Labels
    <2>3. mem' = [mem EXCEPT ![p] = NoMem]
      BY <1>9, IdleFacts DEF DeriveStart, Start
    <2> QED BY <1>9, <2>2, <2>3, ValueFacts, StartStep DEF DeriveStart, r
  <1> QED BY <1>1, <1>2, <1>3, <1>4, <1>5, <1>6, <1>7, <1>8, <1>9

LEMMA InitBase == Init => BaseInv
  <1> SUFFICES ASSUME Init PROVE BaseInv
    OBVIOUS
  <1>1. ASSUME NEW c \in Contexts PROVE IndexOK(c, index[c]) /\ index[c] \in Indexes
    <2>1. NoIndex \in Indexes /\ NoIndex.items = <<>>
      BY ValueFacts
    <2>2. [NoIndex EXCEPT !.maxAge = 1] \in Indexes
      BY <2>1 DEF Indexes
    <2>3. [NoIndex EXCEPT !.maxAge = 1].items = NoIndex.items
      BY <2>1 DEF Indexes
    <2>4. index[c] \in Indexes /\ index[c].items = NoIndex.items
      BY <2>1, <2>2, <2>3 DEF Init
    <2>5. IndexOK(c, NoIndex)
      BY ValueFacts
    <2> QED BY <2>4, <2>5 DEF IndexOK
  <1>2. DiskTables
    <2>1. tree \in [Contexts -> AllTrees]
      BY ContentFacts DEF Init
    <2>2. manifest \in [Contexts -> Manifests]
      BY ValueFacts DEF Init
    <2>3. index \in [Contexts -> Indexes]
      BY <1>1 DEF Init
    <2>4. objects \in [Contexts -> Stores]
      BY ValueFacts DEF Init
    <2> QED BY <2>1, <2>2, <2>3, <2>4 DEF DiskTables
  <1>3. ASSUME NEW c \in Contexts PROVE DirectoryOK(c, Directory(c))
    <2>1. Directory(c) \in Directories
      BY <1>2 DEF DiskTables, Directory, Directories
    <2>2. ContentOf(c, tree[c]) /\ ManifestOK(c, manifest[c]) /\ StoreOK(c, objects[c])
      BY ContentFacts, ValueFacts DEF Init
    <2> QED BY <1>1, <2>1, <2>2 DEF DirectoryOK, Directory
  <1>4. Counters
    BY StoreAssumption DEF Init, Counters
  <1>5. Processes
    <2>1. RequestOK("idle", NoReq) /\ MemoryOK("idle", NoReq, NoMem)
      BY ValueFacts, OpsTable DEF RequestOK, Labels
    <2>2. NoReq \in RequestRecords /\ NoMem \in Memories /\ "idle" \in Labels
      BY ValueFacts DEF Labels
    <2> QED BY <2>1, <2>2 DEF Init, Processes
  <1> QED BY <1>2, <1>3, <1>4, <1>5 DEF BaseInv, DiskOK

LEMMA NextBase == BaseInv /\ [Next]_vars => BaseInv'
  <1> SUFFICES ASSUME BaseInv, [Next]_vars PROVE BaseInv'
    OBVIOUS
  <1>1. ASSUME NEW p \in Procs, Request(p) PROVE BaseInv'
    BY <1>1, RequestOKStep
  <1>2. ASSUME NEW p \in Procs, \/ Locking(p) \/ Capturing(p) \/ Snapshotting(p) \/ Restoring(p)
                                \/ Unlocked(p) \/ Deriving(p) \/ Failing(p)
        PROVE  BaseInv'
    BY <1>2, LockingOK, CapturingOK, SnapshottingOK, RestoringOK, UnlockedOK, DerivingOK, FailingOK
  <1>3. ASSUME NEW c \in Contexts, LockAges(c) PROVE BaseInv'
    <2>1. DiskTables' /\ DiskOK'
      BY <1>3, SameDisk DEF BaseInv, LockAges
    <2>2. Counters'
      BY <1>3 DEF BaseInv, Counters, LockAges, budget
    <2>3. Processes'
      BY <1>3 DEF BaseInv, Processes, LockAges
    <2> QED BY <2>1, <2>2, <2>3 DEF BaseInv
  <1>4. CASE UNCHANGED vars
    <2>1. DiskTables' /\ DiskOK'
      BY <1>4, SameDisk DEF BaseInv, vars, disk
    <2>2. Counters' /\ Processes'
      BY <1>4 DEF BaseInv, Counters, Processes, vars
    <2> QED BY <2>1, <2>2 DEF BaseInv
  <1> QED BY <1>1, <1>2, <1>3, <1>4 DEF Next

\* The state has its types: a manifest's current revision is the newest of its
\* history, and everything the manifest, the index and the store of a context
\* name is content of its own type, whichever command was cut off where.
THEOREM StoreTypeCorrect == Spec => []TypeOK
  <1>1. BaseInv => TypeOK
    <2> SUFFICES ASSUME BaseInv PROVE TypeOK
      OBVIOUS
    <2>1. ASSUME NEW c \in Contexts
          PROVE  /\ ContentOf(c, tree[c])
                 /\ manifest[c].live \in BOOLEAN /\ manifest[c].attached \in BOOLEAN
                 /\ manifest[c].current = (IF manifest[c].history = <<>> THEN None
                                           ELSE Last(manifest[c].history).id)
                 /\ \A e \in Entries(manifest[c]) : ContentOf(c, e.id)
                 /\ \A s \in Items(c) : ContentOf(c, s.rev) /\ s.protected \in BOOLEAN
                 /\ \A r \in DOMAIN objects[c] : ContentOf(c, r)
      <3>1. /\ ContentOf(c, tree[c]) /\ manifest[c] \in Manifests /\ ManifestOK(c, manifest[c])
            /\ index[c] \in Indexes /\ IndexOK(c, index[c]) /\ StoreOK(c, objects[c])
        BY DirectoryFacts DEF BaseInv
      <3>2. manifest[c].live \in BOOLEAN /\ manifest[c].attached \in BOOLEAN
        BY <3>1 DEF Manifests
      <3>3. manifest[c].current = (IF manifest[c].history = <<>> THEN None
                                   ELSE Last(manifest[c].history).id)
        BY <3>1 DEF ManifestOK
      <3>4. \A e \in Entries(manifest[c]) : ContentOf(c, e.id)
        BY <3>1 DEF ManifestOK, EntriesOK, Entries
      <3>5. \A s \in Items(c) : ContentOf(c, s.rev) /\ s.protected \in BOOLEAN
        <4>1. index[c].items \in Seq(SnapshotItems)
          BY <3>1 DEF Indexes
        <4>2. \A i \in 1..Len(index[c].items) : index[c].items[i] \in SnapshotItems
          BY <4>1
        <4> QED BY <3>1, <4>2 DEF IndexOK, Items, SnapshotItems
      <3> QED BY <3>1, <3>2, <3>3, <3>4, <3>5 DEF StoreOK
    <2>2. lock \in [Contexts -> {"free", "held", "old"}] /\ pc \in [Procs -> Labels]
      BY DEF BaseInv, Counters, Processes
    <2> QED BY <2>1, <2>2 DEF TypeOK, BaseInv, Counters
  <1> QED BY <1>1, InitBase, NextBase, PTL DEF Spec

-----------------------------------------------------------------------------
(* What a step may touch: the other processes never, and of the disk what   *)
(* the command rewrites in its target.                                      *)

Acts(p) == \/ Request(p) \/ Locking(p) \/ Capturing(p) \/ Snapshotting(p) \/ Restoring(p)
           \/ Unlocked(p) \/ Deriving(p) \/ Failing(p)
Others(p) ==
  \A q \in Procs \ {p} : pc'[q] = pc[q] /\ req'[q] = req[q] /\ mem'[q] = mem[q]
OnlyAt(c) ==
  \A d \in Contexts \ {c} :
    tree'[d] = tree[d] /\ manifest'[d] = manifest[d] /\ index'[d] = index[d] /\ objects'[d] = objects[d]
ManifestOps == {"capture", "session", "publish", "snapshot", "restore", "clone", "attach", "derive"}
IndexOps == {"snapshot", "restore", "clone", "retain", "collect", "derive"}
Touches(p) ==
  \/ UNCHANGED disk
  \/ /\ Active(p) /\ OnlyAt(TargetOf(req[p]))
     /\ UNCHANGED <<tree, manifest>> \/ req[p].op \in ManifestOps
     /\ UNCHANGED <<index, objects>> \/ req[p].op \in IndexOps

\* What the commands rewrite.
LEMMA RewritesTable ==
  ASSUME NEW r, r.op \in LockedOps \cup UnlockedOps
  PROVE  /\ r.op \in ManifestOps <=> <<TargetOf(r), "manifest">> \in Rewrites(r)
         /\ r.op \in IndexOps <=> <<TargetOf(r), "index">> \in Rewrites(r)
         /\ Rewrites(r) \subseteq {TargetOf(r)} \X {"manifest", "index"}
  BY DEF Rewrites, TargetOf, ManifestOps, IndexOps, LockedOps, UnlockedOps

\* A command that is under way, and not waiting, is at a label of its kind.
LEMMA ActiveFacts ==
  ASSUME BaseInv, NEW p \in Procs, Active(p)
  PROVE  /\ pc[p] # "idle" /\ req[p].op \in LockedOps \cup UnlockedOps
         /\ req[p].op \in LockedOps => Holding(p) /\ TargetOf(req[p]) = Home(p)
  <1>1. pc[p] # "idle"
    BY DEF Active
  <1>2. req[p].op \in LockedOps \cup UnlockedOps /\ req[p].op \in OpsAt(pc[p])
    BY <1>1, WorkFacts DEF RequestRecords
  <1>3. ASSUME req[p].op \in LockedOps PROVE Holding(p)
    BY <1>2, <1>3, OpsTable DEF Holding, Active, LockedOps
  <1> QED BY <1>1, <1>2, <1>3 DEF TargetOf, Home, LockedOps

LEMMA RequestTouches ==
  ASSUME BaseInv, NEW p \in Procs, Request(p)
  PROVE  Others(p) /\ UNCHANGED disk /\ lock' = lock
  <1>1. \E label, r : Start(p, label, r)
    BY DEF Request, CaptureStart, SessionStart, PublishStart, SnapshotStart, RestoreStart,
       CloneStart, AttachStart, RetainStart, CollectStart, CollectChosen, DeriveStart, StartLocked
  <1>2. mem' = mem \/ \E m : mem' = [mem EXCEPT ![p] = m]
    BY DEF Request, CaptureStart, SessionStart, PublishStart, SnapshotStart, RestoreStart,
       CloneStart, AttachStart, RetainStart, CollectStart, CollectChosen, DeriveStart, StartLocked,
       Recall
  <1> QED BY <1>1, <1>2 DEF Start, Others, Goto, BaseInv, Processes

\* The steps by what they write.
LEMMA LockingTouches ==
  ASSUME BaseInv, NEW p \in Procs, Locking(p)
  PROVE  Others(p) /\ UNCHANGED disk
  BY DEF Locking, Acquire, SeeStale, RemoveStale, TimeOut, Unlock, Exit, Goto, Recall, Others,
     BaseInv, Processes

LEMMA HomeTouches ==
  ASSUME BaseInv, NEW p \in Procs, Capturing(p) \/ Snapshotting(p) \/ Restoring(p)
  PROVE  Others(p) /\ Touches(p)
  <1>1. Others(p)
    BY DEF Capturing, Copy, Copied, MoveAside, Install, Sweep, Write, Rename, Record, Snapshotting,
       SnapIndex, SnapExport, SnapManifest, SnapList, Restoring, Select, Stage, SwapOut, SwapIn,
       Restored, Goto, Recall, Others, BaseInv, Processes
  <1>2. Active(p) /\ pc[p] # "idle"
    BY DEF Capturing, Copy, Copied, MoveAside, Install, Sweep, Write, Rename, Record, Snapshotting,
       SnapIndex, SnapExport, SnapManifest, SnapList, Restoring, Select, Stage, SwapOut, SwapIn,
       Restored, Active
  <1>3. /\ Home(p) \in Contexts
        /\ tree \in [Contexts -> AllTrees] /\ manifest \in [Contexts -> Manifests]
        /\ index \in [Contexts -> Indexes] /\ objects \in [Contexts -> Stores]
    BY <1>2, WorkFacts DEF BaseInv, DiskTables
  <1>4. CASE Capturing(p)
    <2>1. UNCHANGED <<index, objects>> /\ OnlyAt(Home(p))
      BY <1>3, <1>4 DEF Capturing, Copy, Copied, MoveAside, Install, Sweep, Write, Rename, Record,
         Put, OnlyAt
    <2>2. pc[p] \in CaptureLabels \cup {"write", "rename", "record"}
      BY <1>4 DEF Capturing, Copy, Copied, MoveAside, Install, Sweep, Write, Rename, Record,
         CaptureLabels
    <2>3. req[p].op \in {"capture", "session", "publish", "derive"}
      BY <1>2, <2>2, WorkFacts, OpsTable
    <2>4. req[p].op \in ManifestOps /\ TargetOf(req[p]) = Home(p)
      BY <2>3 DEF ManifestOps, TargetOf, Home
    <2> QED BY <1>1, <1>2, <2>1, <2>4 DEF Touches
  <1>5. CASE Snapshotting(p) \/ Restoring(p)
    <2>1. OnlyAt(Home(p))
      BY <1>3, <1>5 DEF Snapshotting, SnapIndex, SnapExport, SnapManifest, SnapList, Restoring,
         Select, Stage, SwapOut, SwapIn, Restored, Put, OnlyAt, disk
    <2>2. pc[p] \in SnapLabels \cup RestoreLabels
      BY <1>5 DEF Snapshotting, SnapIndex, SnapExport, SnapManifest, SnapList, Restoring, Select,
         Stage, SwapOut, SwapIn, Restored, SnapLabels, RestoreLabels
    <2>3. req[p].op \in {"snapshot", "restore"}
      BY <1>2, <2>2, WorkFacts, OpsTable
    <2>4. req[p].op \in ManifestOps /\ req[p].op \in IndexOps /\ TargetOf(req[p]) = Home(p)
      BY <2>3 DEF ManifestOps, IndexOps, TargetOf, Home
    <2> QED BY <1>1, <1>2, <2>1, <2>4 DEF Touches
  <1> QED BY <1>4, <1>5

LEMMA UnlockedTouches ==
  ASSUME BaseInv, NEW p \in Procs, Unlocked(p) \/ Deriving(p)
  PROVE  Others(p) /\ Touches(p)
  <1>1. Others(p)
    BY DEF Unlocked, CloneImport, CloneRecord, Attach, Collect, Prune, SetRetention, Deriving,
       Source, Prior, Displace, Place, Exit, Goto, Recall, Others, BaseInv, Processes
  <1>2. pc[p] # "idle"
    BY DEF Unlocked, CloneImport, CloneRecord, Attach, Collect, Prune, SetRetention, Deriving,
       Source, Prior, Displace, Place
  <1>3. /\ Home(p) \in Contexts
        /\ tree \in [Contexts -> AllTrees] /\ manifest \in [Contexts -> Manifests]
        /\ index \in [Contexts -> Indexes] /\ objects \in [Contexts -> Stores]
    BY <1>2, WorkFacts DEF BaseInv, DiskTables
  <1>4. CASE CloneImport(p) \/ CloneRecord(p)
    <2>1. Active(p) /\ pc[p] \in {"clone_import", "clone_record"}
      BY <1>4 DEF CloneImport, CloneRecord, Active
    <2>2. req[p].op = "clone"
      BY <1>2, <2>1, WorkFacts, OpsTable
    <2>3. OnlyAt(req[p].dest) /\ UNCHANGED <<index, objects>>
      BY <1>3, <1>4 DEF CloneImport, CloneRecord, OnlyAt
    <2> QED BY <1>1, <2>1, <2>2, <2>3 DEF Touches, ManifestOps, TargetOf
  <1>5. CASE Attach(p)
    <2>1. Active(p) /\ pc[p] = "attach"
      BY <1>5 DEF Attach, Active
    <2>2. req[p].op = "attach"
      BY <1>2, <2>1, WorkFacts, OpsTable
    <2>3. OnlyAt(Home(p)) /\ UNCHANGED <<index, objects>>
      BY <1>3, <1>5 DEF Attach, OnlyAt
    <2> QED BY <1>1, <2>1, <2>2, <2>3 DEF Touches, ManifestOps, TargetOf, Home
  <1>6. CASE Collect(p) \/ Prune(p) \/ \E k \in 0..1, a \in 0..1 : SetRetention(p, k, a)
    <2>1. Active(p) /\ pc[p] \in {"collect", "prune", "retain"}
      BY <1>6 DEF Collect, Prune, SetRetention, Active
    <2>2. req[p].op \in {"collect", "retain"}
      BY <1>2, <2>1, WorkFacts, OpsTable
    <2>3. OnlyAt(Home(p)) /\ UNCHANGED <<tree, manifest>>
      BY <1>3, <1>6 DEF Collect, Prune, SetRetention, OnlyAt
    <2> QED BY <1>1, <2>1, <2>2, <2>3 DEF Touches, IndexOps, TargetOf, Home
  <1>7. CASE Source(p) \/ Prior(p)
    BY <1>1, <1>7 DEF Source, Prior, Touches
  <1>8. CASE Displace(p) \/ Place(p)
    <2>1. Active(p) /\ pc[p] \in {"displace", "place"}
      BY <1>8 DEF Displace, Place, Active
    <2>2. req[p].op = "derive"
      BY <1>2, <2>1, WorkFacts, OpsTable
    <2>3. OnlyAt(Home(p))
      BY <1>3, <1>8 DEF Displace, Place, InstallDirectory, OnlyAt
    <2> QED BY <1>1, <2>1, <2>2, <2>3 DEF Touches, ManifestOps, IndexOps, TargetOf, Home
  <1> QED BY <1>4, <1>5, <1>6, <1>7, <1>8 DEF Unlocked, Deriving

LEMMA FailingTouches ==
  ASSUME BaseInv, NEW p \in Procs, Failing(p)
  PROVE  Others(p) /\ Touches(p)
  <1>1. Others(p)
    BY DEF Failing, CommandFails, CaptureFails, SwapFails, CloneFails, PlaceFails, Crash, Error,
       Exit, Goto, Recall, Others, BaseInv, Processes
  <1>2. pc[p] # "idle"
    BY DEF Failing, CommandFails, CaptureFails, SwapFails, CloneFails, PlaceFails, Crash
  <1>3. /\ Home(p) \in Contexts
        /\ tree \in [Contexts -> AllTrees] /\ manifest \in [Contexts -> Manifests]
        /\ index \in [Contexts -> Indexes] /\ objects \in [Contexts -> Stores]
    BY <1>2, WorkFacts DEF BaseInv, DiskTables
  <1>4. CASE CommandFails(p) \/ Crash(p)
    BY <1>1, <1>4 DEF CommandFails, Crash, Touches
  <1>5. CASE CaptureFails(p) \/ SwapFails(p)
    <2>1. Active(p) /\ pc[p] \in {"copied", "move_aside", "install", "rename", "swap_in"}
      BY <1>5 DEF CaptureFails, SwapFails, Active
    <2>2. req[p].op \in {"capture", "session", "restore"}
      BY <1>2, <2>1, WorkFacts, OpsTable DEF CaptureLabels, RestoreLabels
    <2>3. OnlyAt(Home(p)) /\ UNCHANGED <<index, objects>>
      BY <1>3, <1>5 DEF CaptureFails, SwapFails, Put, OnlyAt
    <2> QED BY <1>1, <2>1, <2>2, <2>3 DEF Touches, ManifestOps, TargetOf, Home
  <1>6. CASE CloneFails(p)
    <2>1. Active(p) /\ pc[p] = "clone_record"
      BY <1>6 DEF CloneFails, Active
    <2>2. req[p].op = "clone"
      BY <1>2, <2>1, WorkFacts, OpsTable
    <2>3. OnlyAt(req[p].dest)
      BY <1>3, <1>6 DEF CloneFails, InstallDirectory, OnlyAt
    <2> QED BY <1>1, <2>1, <2>2, <2>3 DEF Touches, ManifestOps, IndexOps, TargetOf
  <1>7. CASE PlaceFails(p)
    <2>1. Active(p) /\ pc[p] = "place"
      BY <1>7 DEF PlaceFails, Active
    <2>2. req[p].op = "derive"
      BY <1>2, <2>1, WorkFacts, OpsTable
    <2>3. OnlyAt(Home(p))
      BY <1>3, <1>7 DEF PlaceFails, InstallDirectory, OnlyAt
    <2> QED BY <1>1, <2>1, <2>2, <2>3 DEF Touches, ManifestOps, IndexOps, TargetOf, Home
  <1> QED BY <1>4, <1>5, <1>6, <1>7 DEF Failing

LEMMA ActsTouch ==
  ASSUME BaseInv, NEW p \in Procs, Acts(p)
  PROVE  Others(p) /\ Touches(p)
  BY RequestTouches, LockingTouches, HomeTouches, UnlockedTouches, FailingTouches DEF Acts, Touches

\* Two commands that are both at work rewrite different files: because one
\* that takes no lock is alone with them, or because both hold a lock.
LEMMA Alone ==
  ASSUME BaseInv, Exclusion, NEW p \in Procs, NEW q \in Procs, p # q, Active(p), Active(q)
  PROVE  Rewrites(req[p]) \cap Rewrites(req[q]) = {}
  <1>1. Apart(req[p], req[q])
    BY ActiveFacts DEF Exclusion
  <1>2. CASE req[p].op \in LockedOps /\ req[q].op \in LockedOps
    <2>1. TargetOf(req[p]) # TargetOf(req[q])
      BY <1>2, ActiveFacts DEF Exclusion
    <2>2. /\ Rewrites(req[p]) \subseteq {TargetOf(req[p])} \X {"manifest", "index"}
          /\ Rewrites(req[q]) \subseteq {TargetOf(req[q])} \X {"manifest", "index"}
      BY ActiveFacts, RewritesTable
    <2> QED BY <2>1, <2>2
  <1>3. CASE ~(req[p].op \in LockedOps /\ req[q].op \in LockedOps)
    BY <1>1, <1>3, ActiveFacts DEF Apart
  <1> QED BY <1>2, <1>3

\* So what a command at work has there, no other changes under it.
LEMMA Unaffected ==
  ASSUME BaseInv, Exclusion, NEW p \in Procs, Acts(p), NEW q \in Procs, p # q, Active(q),
         NEW c \in Contexts
  PROVE  /\ <<c, "manifest">> \in Rewrites(req[q]) => tree'[c] = tree[c] /\ manifest'[c] = manifest[c]
         /\ <<c, "index">> \in Rewrites(req[q]) => index'[c] = index[c] /\ objects'[c] = objects[c]
  <1>1. CASE UNCHANGED disk
    BY <1>1 DEF disk
  <1>2. CASE Active(p) /\ c # TargetOf(req[p])
    BY <1>2, ActsTouch DEF Touches, OnlyAt, disk
  <1>3. CASE Active(p) /\ c = TargetOf(req[p])
    <2>1. Rewrites(req[p]) \cap Rewrites(req[q]) = {}
      BY <1>3, Alone
    <2>2. <<c, "manifest">> \in Rewrites(req[q]) => req[p].op \notin ManifestOps
      BY <1>3, <2>1, ActiveFacts, RewritesTable
    <2>3. <<c, "index">> \in Rewrites(req[q]) => req[p].op \notin IndexOps
      BY <1>3, <2>1, ActiveFacts, RewritesTable
    <2> QED BY <2>2, <2>3, ActsTouch DEF Touches, disk
  <1> QED BY <1>1, <1>2, <1>3, ActsTouch DEF Touches

-----------------------------------------------------------------------------
(* Who holds a lock.                                                        *)

HoldingAt(label) ==
  label \notin {"idle", "lock", "stale", "clone_import", "clone_record", "attach",
                "retain", "collect", "prune", "source", "prior", "displace", "place"}

LEMMA ExclusionStep ==
  ASSUME BaseInv, Exclusion, NEW p \in Procs, NEW label, NEW r, Others(p), pc'[p] = label, req'[p] = r,
         label # "idle" => \A q \in Procs \ {p} : pc[q] # "idle" => Apart(r, req[q]),
         HoldingAt(label) => /\ lock'[HomeOf(r)] = "held"
                             /\ \A q \in Procs \ {p} : Holding(q) => Home(q) # HomeOf(r),
         label = "stale" => /\ lock'[HomeOf(r)] = "old"
                            /\ \A q \in Procs \ {p} : pc[q] # "stale",
         \A q \in Procs \ {p} : Holding(q) \/ pc[q] = "stale" => lock'[Home(q)] = lock[Home(q)]
  PROVE  Exclusion'
  <1>1. \A q \in Procs \ {p} : /\ pc'[q] = pc[q] /\ req'[q] = req[q] /\ Holding(q)' = Holding(q)
                               /\ Home(q)' = Home(q)
    BY DEF Others, Holding, Home
  <1>2. Holding(p)' = HoldingAt(label) /\ Home(p)' = HomeOf(r)
    BY DEF Holding, HoldingAt, Home, HomeOf
  <1>3. ASSUME NEW q1 \in Procs, NEW q2 \in Procs, q1 # q2, pc'[q1] # "idle", pc'[q2] # "idle"
        PROVE  Apart(req'[q1], req'[q2])
    <2>1. CASE q1 # p /\ q2 # p
      BY <1>1, <1>3, <2>1 DEF Exclusion
    <2>2. CASE q1 = p
      BY <1>1, <1>3, <2>2
    <2>3. CASE q2 = p
      <3>1. Apart(r, req[q1])
        BY <1>1, <1>3, <2>3
      <3> QED BY <1>1, <1>3, <2>3, <3>1 DEF Apart
    <2> QED BY <2>1, <2>2, <2>3
  <1>4. ASSUME NEW q1 \in Procs, NEW q2 \in Procs, q1 # q2, Holding(q1)', Holding(q2)'
        PROVE  Home(q1)' # Home(q2)'
    BY <1>1, <1>2, <1>4 DEF Exclusion
  <1>5. ASSUME NEW q \in Procs, Holding(q)' PROVE (lock[Home(q)] = "held")'
    BY <1>1, <1>2, <1>5 DEF Exclusion
  <1>6. ASSUME NEW q \in Procs, pc'[q] = "stale" PROVE (lock[Home(q)] = "old")'
    BY <1>1, <1>2, <1>6 DEF Exclusion
  <1>7. ASSUME NEW q1 \in Procs, NEW q2 \in Procs, pc'[q1] = "stale", pc'[q2] = "stale"
        PROVE  q1 = q2
    BY <1>1, <1>7 DEF Exclusion
  <1> QED BY <1>3, <1>4, <1>5, <1>6, <1>7 DEF Exclusion

\* A step within a command that leaves the lock alone.
LEMMA InnerExclusion ==
  ASSUME BaseInv, Exclusion, NEW p \in Procs, NEW label, pc[p] # "idle", Goto(p, label), Others(p),
         UNCHANGED <<req, lock>>, HoldingAt(label) => Holding(p), label # "stale"
  PROVE  Exclusion'
  <1>1. pc'[p] = label /\ req'[p] = req[p]
    BY DEF Goto, BaseInv, Processes
  <1>2. \A q \in Procs \ {p} : pc[q] # "idle" => Apart(req[p], req[q])
    BY DEF Exclusion
  <1>3. HoldingAt(label) => /\ lock'[HomeOf(req[p])] = "held"
                            /\ \A q \in Procs \ {p} : Holding(q) => Home(q) # HomeOf(req[p])
    BY DEF Exclusion, Home, HomeOf
  <1> QED BY <1>1, <1>2, <1>3, ExclusionStep

\* The end of a command, with the lock or without.
LEMMA ExitExclusion ==
  ASSUME BaseInv, Exclusion, NEW p \in Procs, Exit(p), Others(p),
         \/ lock' = lock
         \/ Holding(p) /\ lock' = [lock EXCEPT ![Home(p)] = "free"]
  PROVE  Exclusion'
  <1>1. pc'[p] = "idle" /\ req'[p] = NoReq
    BY DEF Exit, Goto, BaseInv, Processes
  <1>2. ASSUME NEW q \in Procs \ {p}, Holding(q) \/ pc[q] = "stale"
        PROVE  lock'[Home(q)] = lock[Home(q)]
    <2>1. Holding(p) => Home(q) # Home(p)
      BY <1>2 DEF Exclusion
    <2>2. lock \in [Contexts -> {"free", "held", "old"}]
      BY DEF BaseInv, Counters
    <2>3. Home(q) \in Contexts
      BY <1>2, WorkFacts DEF Holding
    <2> QED BY <2>1, <2>2, <2>3
  <1> QED BY <1>1, <1>2, ExclusionStep DEF HoldingAt

\* A command starts, where no other is at work on its files.
LEMMA StartExclusion ==
  ASSUME BaseInv, Exclusion, Calm, NEW p \in Procs, NEW label, NEW r, Start(p, label, r), Others(p),
         label \in {"lock", "clone_import", "attach", "retain", "collect", "source"}
  PROVE  Exclusion'
  <1> DEFINE s == [r EXCEPT !.no = left]
  <1>1. pc'[p] = label /\ req'[p] = s /\ lock' = lock
    BY DEF Start, Goto, BaseInv, Processes
  <1>2. r.op = s.op /\ Rewrites(s) = Rewrites(r)
    BY DEF Rewrites
  <1>3. \A q \in Procs \ {p} : pc[q] # "idle" => Apart(s, req[q])
    BY <1>2 DEF Start, Apart
  <1> HIDE DEF s
  <1> QED BY <1>1, <1>3, ExclusionStep DEF HoldingAt

\* The lock directory: a stale one is removed by its one waiter, a free one is
\* taken by one process, and the one that takes it is alone in the context.
LEMMA LockingExclusion ==
  ASSUME BaseInv, Exclusion, Calm, NEW p \in Procs, Locking(p)
  PROVE  Exclusion'
  <1>0. lock \in [Contexts -> {"free", "held", "old"}] /\ Others(p)
    BY LockingTouches DEF BaseInv, Counters
  <1>1. ASSUME pc[p] # "idle"
        PROVE  /\ Home(p) \in Contexts /\ Home(p) = HomeOf(req[p])
               /\ \A q \in Procs \ {p} : pc[q] # "idle" => Apart(req[p], req[q])
               /\ \A label : Goto(p, label) => pc'[p] = label
               /\ UNCHANGED req => req'[p] = req[p]
    BY <1>1, WorkFacts DEF Exclusion, Goto, BaseInv, Processes
  <1>2. CASE Acquire(p)
    <2>1. pc[p] # "idle" /\ pc'[p] = FirstStep(p) /\ req'[p] = req[p]
      BY <1>1, <1>2 DEF Acquire
    <2>2. lock[Home(p)] = "free" /\ lock' = [lock EXCEPT ![Home(p)] = "held"]
      BY <1>2 DEF Acquire
    <2>3. \A q \in Procs \ {p} : Holding(q) \/ pc[q] = "stale" => Home(q) # Home(p)
      BY <2>2 DEF Exclusion
    <2>4. \A q \in Procs \ {p} : Holding(q) \/ pc[q] = "stale" => lock'[Home(q)] = lock[Home(q)]
      BY <1>0, <2>2, <2>3, WorkFacts DEF Holding
    <2>5. FirstStep(p) # "idle" /\ FirstStep(p) # "stale"
      <3>1. pc[p] = "lock"
        BY <1>2 DEF Acquire
      <3>2. req[p].op \in LockedOps \cup {"derive"}
        BY <2>1, <3>1, WorkFacts, OpsTable
      <3> QED BY <3>2 DEF FirstStep, LockedOps
    <2> QED BY <1>0, <1>1, <2>1, <2>2, <2>3, <2>4, <2>5, ExclusionStep
  <1>3. CASE SeeStale(p)
    <2>1. pc[p] # "idle" /\ pc'[p] = "stale" /\ req'[p] = req[p] /\ lock' = lock
      BY <1>1, <1>3 DEF SeeStale
    <2>2. lock[Home(p)] = "old" /\ \A q \in Procs : pc[q] # "stale"
      BY <1>3 DEF SeeStale
    <2> QED BY <1>0, <1>1, <2>1, <2>2, ExclusionStep DEF HoldingAt
  <1>4. CASE RemoveStale(p)
    <2>1. pc[p] = "stale" /\ pc'[p] = "lock" /\ req'[p] = req[p]
      BY <1>1, <1>4 DEF RemoveStale
    <2>2. lock[Home(p)] = "old" /\ lock' = [lock EXCEPT ![Home(p)] = "free"]
      BY <1>4, <2>1 DEF RemoveStale, Exclusion
    <2>3. \A q \in Procs \ {p} : Holding(q) \/ pc[q] = "stale" => Home(q) # Home(p)
      BY <2>1, <2>2 DEF Exclusion
    <2>4. \A q \in Procs \ {p} : Holding(q) \/ pc[q] = "stale" => lock'[Home(q)] = lock[Home(q)]
      BY <1>0, <2>2, <2>3, WorkFacts DEF Holding
    <2> QED BY <1>0, <1>1, <2>1, <2>4, ExclusionStep DEF HoldingAt
  <1>5. CASE TimeOut(p)
    BY <1>0, <1>5, ExitExclusion DEF TimeOut
  <1>6. CASE Unlock(p)
    BY <1>0, <1>6, ExitExclusion DEF Unlock, Holding
  <1> QED BY <1>2, <1>3, <1>4, <1>5, <1>6 DEF Locking

\* The steps of a command that holds the lock, or of one that needs none.
LEMMA WorkingExclusion ==
  ASSUME BaseInv, Exclusion, NEW p \in Procs,
         Capturing(p) \/ Snapshotting(p) \/ Restoring(p) \/ Unlocked(p) \/ Failing(p)
  PROVE  Exclusion'
  <1>0. Others(p)
    BY ActsTouch DEF Acts
  <1>1. CASE Capturing(p)
    <2>1. Holding(p) /\ pc[p] # "idle" /\ UNCHANGED <<req, lock>>
      BY <1>1 DEF Capturing, Copy, Copied, MoveAside, Install, Sweep, Write, Rename, Record, Holding
    <2>2. \E label : Goto(p, label) /\ label # "stale"
      BY <1>1 DEF Capturing, Copy, Copied, MoveAside, Install, Sweep, Write, Rename, Record
    <2> QED BY <1>0, <2>1, <2>2, InnerExclusion
  <1>2. CASE Snapshotting(p)
    <2>1. Holding(p) /\ pc[p] # "idle" /\ UNCHANGED <<req, lock>>
      BY <1>2 DEF Snapshotting, SnapIndex, SnapExport, SnapManifest, SnapList, Holding
    <2>2. \E label : Goto(p, label) /\ label # "stale"
      BY <1>2 DEF Snapshotting, SnapIndex, SnapExport, SnapManifest, SnapList
    <2> QED BY <1>0, <2>1, <2>2, InnerExclusion
  <1>3. CASE Restoring(p)
    <2>1. Holding(p) /\ pc[p] # "idle" /\ UNCHANGED <<req, lock>>
      BY <1>3 DEF Restoring, Select, Stage, SwapOut, SwapIn, Restored, Holding
    <2>2. \E label : Goto(p, label) /\ label # "stale"
      <3>1. CASE Select(p)
        <4>1. Goto(p, "stage") \/ Goto(p, "snap_index") \/ Goto(p, "unlock")
          BY <3>1 DEF Select
        <4> QED BY <4>1
      <3>2. CASE Stage(p) \/ SwapOut(p) \/ SwapIn(p) \/ Restored(p)
        BY <3>2 DEF Stage, SwapOut, SwapIn, Restored
      <3> QED BY <1>3, <3>1, <3>2 DEF Restoring
    <2> QED BY <1>0, <2>1, <2>2, InnerExclusion
  <1>4. CASE Unlocked(p)
    <2>1. CASE Exit(p)
      BY <1>0, <1>4, <2>1, ExitExclusion
         DEF Unlocked, CloneImport, CloneRecord, Attach, Collect, Prune, SetRetention
    <2>2. CASE ~Exit(p)
      <3>1. pc[p] # "idle" /\ UNCHANGED <<req, lock>> /\ (Goto(p, "clone_record") \/ Goto(p, "prune"))
        BY <1>4, <2>2 DEF Unlocked, CloneImport, CloneRecord, Attach, Collect, Prune, SetRetention
      <3> QED BY <1>0, <3>1, InnerExclusion DEF HoldingAt
    <2> QED BY <2>1, <2>2
  <1>5. CASE Failing(p)
    <2>1. Exit(p) /\ (lock' = lock \/ (Holding(p) /\ lock' = [lock EXCEPT ![Home(p)] = "free"]))
      BY <1>5 DEF Failing, CommandFails, CaptureFails, SwapFails, CloneFails, PlaceFails, Crash,
         Error
    <2> QED BY <1>0, <2>1, ExitExclusion
  <1> QED BY <1>1, <1>2, <1>3, <1>4, <1>5

\* A derivation tries the lock of its source, and puts a directory without a
\* lock in the place of its own.
LEMMA DerivingExclusion ==
  ASSUME BaseInv, Exclusion, Calm, NEW p \in Procs, Deriving(p)
  PROVE  Exclusion'
  <1>0. Others(p) /\ lock \in [Contexts -> {"free", "held", "old"}]
    BY ActsTouch DEF Acts, BaseInv, Counters
  <1>1. CASE Source(p)
    <2> DEFINE c == req[p].ctx
    <2>1. \A q \in Procs \ {p} : Holding(q) \/ pc[q] = "stale" => lock'[Home(q)] = lock[Home(q)]
      <3>1. CASE lock[c] = "old"
        <4>1. lock' = [lock EXCEPT ![c] = "free"] /\ \A q \in Procs : pc[q] # "stale"
          BY <1>1, <3>1 DEF Source
        <4>2. \A q \in Procs \ {p} : Holding(q) => Home(q) # c
          BY <3>1 DEF Exclusion
        <4> QED BY <1>0, <4>1, <4>2, WorkFacts DEF Holding
      <3>2. CASE lock[c] # "old"
        BY <1>1, <3>2 DEF Source
      <3> QED BY <3>1, <3>2
    <2>2. pc[p] # "idle"
      BY <1>1 DEF Source
    <2>3. CASE Goto(p, "prior") /\ UNCHANGED req
      <3>1. pc'[p] = "prior" /\ req'[p] = req[p]
        BY <2>3 DEF Goto, BaseInv, Processes
      <3>2. \A q \in Procs \ {p} : pc[q] # "idle" => Apart(req[p], req[q])
        BY <2>2 DEF Exclusion
      <3> QED BY <1>0, <2>1, <3>1, <3>2, ExclusionStep DEF HoldingAt
    <2>4. CASE Exit(p)
      <3>1. pc'[p] = "idle" /\ req'[p] = NoReq
        BY <2>4 DEF Exit, Goto, BaseInv, Processes
      <3> QED BY <1>0, <2>1, <3>1, ExclusionStep DEF HoldingAt
    <2> QED BY <1>1, <2>3, <2>4 DEF Source
  <1>2. CASE Prior(p)
    <2>1. CASE Exit(p)
      BY <1>0, <1>2, <2>1, ExitExclusion DEF Prior
    <2>2. CASE ~Exit(p)
      <3>1. pc[p] # "idle" /\ UNCHANGED <<req, lock>> /\ Goto(p, "displace")
        BY <1>2, <2>2 DEF Prior
      <3> QED BY <1>0, <3>1, InnerExclusion DEF HoldingAt
    <2> QED BY <2>1, <2>2
  <1>3. CASE Displace(p)
    <2>1. pc[p] # "idle" /\ UNCHANGED <<req, lock>> /\ Goto(p, "place")
      BY <1>3 DEF Displace
    <2> QED BY <1>0, <2>1, InnerExclusion DEF HoldingAt
  <1>4. CASE Place(p)
    <2>1. pc[p] = "place" /\ pc'[p] = "lock" /\ req'[p] = req[p]
      BY <1>4 DEF Place, Goto, BaseInv, Processes
    <2>2. Active(p) /\ req[p].op = "derive" /\ TargetOf(req[p]) = Home(p)
      BY <2>1, WorkFacts, OpsTable DEF Active, TargetOf, Home
    <2>3. ASSUME NEW q \in Procs \ {p}, Holding(q) \/ pc[q] = "stale"
          PROVE  Home(q) # Home(p)
      <3>1. Apart(req[p], req[q]) /\ pc[q] # "idle"
        BY <2>1, <2>3 DEF Exclusion, Holding
      <3>2. Rewrites(req[p]) \cap Rewrites(req[q]) = {}
        BY <2>2, <3>1 DEF Apart, UnlockedOps
      <3>3. req[q].op \in LockedOps \cup {"derive"}
        <4>1. RequestOK(pc[q], req[q]) /\ req[q].op \in OpsAt(pc[q])
          BY <3>1, WorkFacts
        <4>2. pc[q] \in
                {"stale", "unlock", "record", "write", "rename"} \cup CaptureLabels \cup SnapLabels
                        \cup RestoreLabels
          BY <2>3, <4>1 DEF RequestOK, Labels, Holding, CaptureLabels, SnapLabels, RestoreLabels
        <4> QED BY <4>1, <4>2, OpsTable DEF LockedOps
      <3>4. /\ <<Home(p), "manifest">> \in Rewrites(req[p])
            /\ <<Home(q), "manifest">> \in Rewrites(req[q])
        BY <2>2, <3>3 DEF Rewrites, Home, LockedOps
      <3> QED BY <3>2, <3>4
    <2>4. lock' = [lock EXCEPT ![Home(p)] = "free"]
      BY <1>4 DEF Place
    <2>5. \A q \in Procs \ {p} : Holding(q) \/ pc[q] = "stale" => lock'[Home(q)] = lock[Home(q)]
      BY <1>0, <2>3, <2>4, WorkFacts DEF Holding
    <2>6. \A q \in Procs \ {p} : pc[q] # "idle" => Apart(req[p], req[q])
      BY <2>1 DEF Exclusion
    <2> QED BY <1>0, <2>1, <2>5, <2>6, ExclusionStep DEF HoldingAt
  <1> QED BY <1>1, <1>2, <1>3, <1>4 DEF Deriving

LEMMA RequestExclusion ==
  ASSUME BaseInv, Exclusion, Calm, NEW p \in Procs, Request(p)
  PROVE  Exclusion'
  <1>1. \E r : \E label \in {"lock", "clone_import", "attach", "retain", "collect", "source"} :
          Start(p, label, r)
    BY DEF Request, CaptureStart, SessionStart, PublishStart, SnapshotStart, RestoreStart,
       CloneStart, AttachStart, RetainStart, CollectStart, CollectChosen, DeriveStart, StartLocked
  <1> QED BY <1>1, RequestTouches, StartExclusion

LEMMA AgesExclusion ==
  ASSUME BaseInv, Exclusion, Calm, NEW c \in Contexts, LockAges(c)
  PROVE  Exclusion'
  <1>1. lock[c] = "held" /\ lock' = [lock EXCEPT ![c] = "old"] /\ UNCHANGED <<pc, req>>
        /\ lock \in [Contexts -> {"free", "held", "old"}]
    BY DEF LockAges, BaseInv, Counters
  <1>2. \A p \in Procs : Holding(p) \/ pc[p] = "stale" => Home(p) # c
    BY <1>1 DEF LockAges, Exclusion
  <1>3. \A p \in Procs : Holding(p) \/ pc[p] = "stale" => lock'[Home(p)] = lock[Home(p)]
    BY <1>1, <1>2, WorkFacts DEF Holding
  <1> QED BY <1>1, <1>3 DEF Exclusion, Holding, Home

-----------------------------------------------------------------------------
(* What is on disk is exact, and what a process knows of it stays true.     *)

MidwayAt(p) ==
  pc[p] # "idle" => /\ Midway(pc[p], req[p], mem[p], Directory(Home(p)))
                    /\ pc[p] = "clone_record" => tree[req[p].dest] = mem[p].selected

\* What a command relies on in its directory, it also rewrites.
LEMMA OthersMidway ==
  ASSUME BaseInv, Exclusion, NEW p \in Procs, Acts(p), NEW q \in Procs, p # q, MidwayAt(q)
  PROVE  MidwayAt(q)'
  <1>1. pc'[q] = pc[q] /\ req'[q] = req[q] /\ mem'[q] = mem[q]
    BY ActsTouch DEF Others
  <1>2. CASE pc[q] = "idle"
    BY <1>1, <1>2 DEF MidwayAt
  <1>3. CASE pc[q] \in {"lock", "stale", "source"}
    BY <1>1, <1>3 DEF MidwayAt, Midway
  <1>4. CASE Active(q)
    <2> DEFINE c == Home(q)
    <2>1. /\ pc[q] # "idle" /\ req[q].op \in OpsAt(pc[q]) /\ req[q].op \in LockedOps \cup UnlockedOps
          /\ c \in Contexts /\ RequestOK(pc[q], req[q])
      BY <1>4, ActiveFacts, WorkFacts
    <2>2. /\ <<c, "manifest">> \in Rewrites(req[q]) => tree'[c] = tree[c]
          /\ <<c, "index">> \in Rewrites(req[q]) => index'[c] = index[c] /\ objects'[c] = objects[c]
      BY <1>4, <2>1, Unaffected
    <2>3. CASE pc[q] \in {"move_aside", "install"} \cup SnapLabels \cup RestoreLabels
      <3>1. req[q].op \in {"capture", "snapshot", "restore"}
        BY <2>1, <2>3, OpsTable DEF CaptureLabels
      <3>2. <<c, "manifest">> \in Rewrites(req[q])
            /\ (req[q].op # "capture" => <<c, "index">> \in Rewrites(req[q]))
        BY <3>1 DEF Rewrites, Home
      <3>3. req[q].op = "capture" <=> pc[q] \in CaptureLabels
        BY <2>1, <2>3, OpsTable DEF CaptureLabels, SnapLabels, RestoreLabels
      <3>4. tree'[c] = tree[c]
            /\ (pc[q] \notin CaptureLabels => index'[c] = index[c] /\ objects'[c] = objects[c])
        BY <2>2, <3>2, <3>3
      <3> QED BY <1>1, <2>1, <2>3, <3>4
          DEF MidwayAt, Midway, Directory, Home, CaptureLabels, SnapLabels, RestoreLabels
    <2>4. CASE pc[q] \in {"retain", "collect", "prune"}
      <3>1. req[q].op \in {"retain", "collect"}
        BY <2>1, <2>4, OpsTable
      <3>2. <<c, "index">> \in Rewrites(req[q])
        BY <3>1 DEF Rewrites, Home
      <3> QED BY <1>1, <2>1, <2>2, <2>4, <3>2 DEF MidwayAt, Midway, Directory, Home
    <2>5. CASE pc[q] = "clone_record"
      <3>1. req[q].op = "clone" /\ req[q].dest \in Contexts
        BY <2>1, <2>5, OpsTable DEF RequestOK, Contexts
      <3>2. <<req[q].dest, "manifest">> \in Rewrites(req[q])
        BY <3>1 DEF Rewrites
      <3>3. tree'[req[q].dest] = tree[req[q].dest]
        BY <1>4, <3>1, <3>2, Unaffected
      <3> QED BY <1>1, <2>1, <2>5, <3>3 DEF MidwayAt, Midway
    <2>6. CASE pc[q] \in {"unlock", "copy", "copied", "sweep", "write", "rename", "record",
                          "clone_import", "attach", "prior", "displace", "place"}
      BY <1>1, <2>1, <2>6 DEF MidwayAt, Midway
    <2> QED BY <2>1, <2>3, <2>4, <2>5, <2>6, <1>4
        DEF RequestOK, Labels, Active, SnapLabels, RestoreLabels
  <1> QED BY <1>2, <1>3, <1>4 DEF Active

\* A process after its own step, and the directory it works in.
LEMMA OwnMidway ==
  ASSUME NEW p \in Procs, NEW label, NEW r, NEW m, NEW dir, pc'[p] = label, req'[p] = r, mem'[p] = m,
         tree'[HomeOf(r)] = dir.tree, index'[HomeOf(r)] = dir.index, objects'[HomeOf(r)] = dir.objects,
         label # "clone_record", Midway(label, r, m, dir)
  PROVE  MidwayAt(p)'
  <1>1. Home(p)' = HomeOf(r)
    BY DEF Home, HomeOf
  <1> QED BY <1>1 DEF MidwayAt, Midway, Directory

LEMMA ExitMidway ==
  ASSUME BaseInv, NEW p \in Procs, Exit(p)
  PROVE  MidwayAt(p)'
  BY DEF Exit, Goto, MidwayAt, BaseInv, Processes

\* The files of a directory, and a directory of which some are written.
LEMMA ExactFacts ==
  ASSUME DiskExact, NEW c \in Contexts
  PROVE  /\ Whole(tree[c]) /\ ManifestExact(manifest[c]) /\ StoreExact(objects[c])
         /\ ListedIn(index[c], objects[c])
  BY DEF DiskExact, DirectoryExact, Directory

LEMMA SameExact ==
  ASSUME DiskExact, UNCHANGED disk
  PROVE  DiskExact'
  BY DEF DiskExact, Directory, disk

LEMMA WriteExact ==
  ASSUME DiskTables, DiskExact, NEW c \in Contexts,
         NEW t, tree' = [tree EXCEPT ![c] = t], Whole(t),
         NEW m, manifest' = [manifest EXCEPT ![c] = m], ManifestExact(m),
         NEW x, index' = [index EXCEPT ![c] = x],
         NEW o, objects' = [objects EXCEPT ![c] = o], StoreExact(o), ListedIn(x, o)
  PROVE  DiskExact'
  <1>1. ASSUME NEW d \in Contexts PROVE DirectoryExact(Directory(d))'
    <2>1. CASE d = c
      <3>1. tree'[d] = t /\ manifest'[d] = m /\ index'[d] = x /\ objects'[d] = o
        BY <2>1 DEF DiskTables
      <3>2. Directory(d)' = [tree |-> t, manifest |-> m, index |-> x, objects |-> o]
        BY <3>1 DEF Directory
      <3>3. DirectoryExact([tree |-> t, manifest |-> m, index |-> x, objects |-> o])
        BY DEF DirectoryExact
      <3> QED BY <3>2, <3>3 DEF DirectoryExact
    <2>2. CASE d # c
      <3>1. Directory(d)' = Directory(d)
        BY <2>2 DEF Directory, DiskTables
      <3>2. DirectoryExact(Directory(d))
        BY DEF DiskExact
      <3> QED BY <3>1, <3>2 DEF DirectoryExact
    <2> QED BY <2>1, <2>2
  <1> QED BY <1>1 DEF DiskExact

LEMMA InstallExact ==
  ASSUME DiskTables, DiskExact, NEW c \in Contexts, NEW dir, DirectoryExact(dir),
         InstallDirectory(c, dir)
  PROVE  DiskExact'
  BY WriteExact DEF InstallDirectory, DirectoryExact

\* A directory that was just made.
LEMMA ExactValues ==
  /\ Whole(Empty) /\ ManifestExact(NoManifest) /\ ManifestExact(NewManifest)
  /\ StoreExact(NoObjects) /\ \A o : ListedIn(NoIndex, o) /\ DirectoryExact(NoDir)
  /\ NewManifest \in Manifests /\ NoMem.manifest = NoManifest
  <1>1. Whole(Empty)
    BY StoreAssumption DEF Empty, Whole, Parts
  <1>2. ManifestExact(NoManifest) /\ ManifestExact(NewManifest)
    BY DEF NoManifest, NewManifest, ManifestExact
  <1>3. StoreExact(NoObjects)
    BY DEF NoObjects, StoreExact
  <1>4. \A o : ListedIn(NoIndex, o)
    BY DEF NoIndex, ListedIn, Revs
  <1>5. DirectoryExact(NoDir)
    BY <1>1, <1>2, <1>3, <1>4 DEF NoDir, DirectoryExact
  <1> QED BY <1>1, <1>2, <1>3, <1>4, <1>5, ValueFacts

\* What is recorded names its source by what it is.
LEMMA RecordedExact ==
  ASSUME NEW m \in Manifests, ManifestExact(m), NEW t, NEW op, NEW sources,
         op \in {"restore", "clone"} => \A source \in sources : source[2] = t
  PROVE  ManifestExact(Recorded(m, t, op, sources))
  <1> DEFINE e == [id |-> t, op |-> op, sources |-> sources]
             n == Recorded(m, t, op, sources)
             h == m.history
  <1>1. CASE m.current = t /\ m.history # <<>>
    BY <1>1 DEF Recorded
  <1>2. CASE ~(m.current = t /\ m.history # <<>>)
    <2>1. n = [m EXCEPT !.current = t, !.history = Append(h, e)]
      BY <1>2 DEF Recorded
    <2>2. SourcesOK(e)
      BY DEF SourcesOK
    <2> HIDE DEF e
    <2>3. h \in Seq(HistoryEntries) /\ n.history = Append(h, e)
      BY <2>1 DEF Manifests
    <2>4. \A i \in 1..Len(n.history) : n.history[i] = e \/ (i \in 1..Len(h) /\ n.history[i] = h[i])
      BY <2>3
    <2> QED BY <2>2, <2>4 DEF ManifestExact
  <1> QED BY <1>1, <1>2

\* Fields that say nothing of sources.
LEMMA ManifestFields ==
  ASSUME NEW m \in Manifests, ManifestExact(m)
  PROVE  /\ \A b : ManifestExact([m EXCEPT !.attached = b])
         /\ ManifestExact([m EXCEPT !.live = TRUE, !.attached = FALSE])
         /\ ManifestExact([m EXCEPT !.current = None])
  BY DEF Manifests, ManifestExact

\* A step that writes the content only.
LEMMA ContentExact ==
  ASSUME BaseInv, DiskExact, NEW p \in Procs, pc[p] # "idle", NEW t, Put(p, t), Whole(t),
         UNCHANGED <<manifest, index, objects>>
  PROVE  DiskExact'
  <1>1. Home(p) \in Contexts
    BY WorkFacts
  <1> QED BY <1>1, HomeFacts, ExactFacts, WriteExact DEF BaseInv, Put

LEMMA ContentMidway ==
  ASSUME BaseInv, NEW p \in Procs, pc[p] # "idle", NEW t, NEW label, Put(p, t), Goto(p, label),
         UNCHANGED <<index, objects, req, mem>>, label # "clone_record",
         Midway(label, req[p], mem[p],
                [tree |-> t, index |-> index[Home(p)], objects |-> objects[Home(p)]])
  PROVE  MidwayAt(p)'
  <1>1. pc'[p] = label /\ tree'[Home(p)] = t /\ Home(p) = HomeOf(req[p])
    BY WorkFacts DEF BaseInv, DiskTables, Processes, Put, Goto
  <1> QED BY <1>1, OwnMidway

\* A step that reads only.
LEMMA ReadMidway ==
  ASSUME BaseInv, NEW p \in Procs, pc[p] # "idle", NEW m, NEW label, mem' = [mem EXCEPT ![p] = m],
         Goto(p, label), UNCHANGED <<disk, req>>, label # "clone_record",
         Midway(label, req[p], m, Directory(Home(p)))
  PROVE  MidwayAt(p)'
  <1>1. pc'[p] = label /\ mem'[p] = m /\ Home(p) = HomeOf(req[p])
    BY WorkFacts DEF BaseInv, Processes, Goto
  <1> QED BY <1>1, OwnMidway DEF disk, Directory

LEMMA LockingExact ==
  ASSUME BaseInv, DiskExact, NEW p \in Procs, MidwayAt(p), Locking(p)
  PROVE  DiskExact' /\ MidwayAt(p)'
  <1>1. DiskExact'
    BY LockingTouches, SameExact
  <1>2. CASE Acquire(p)
    <2> DEFINE m == [mem[p] EXCEPT !.manifest = manifest[Home(p)]]
    <2>1. pc[p] = "lock" /\ pc[p] # "idle"
      BY <1>2 DEF Acquire
    <2>2. FirstStep(p) \in {"copy", "write", "record", "snap_index", "select"}
      <3>1. req[p].op \in LockedOps \cup {"derive"}
        BY <2>1, WorkFacts, OpsTable
      <3> QED BY <3>1 DEF FirstStep, LockedOps
    <2>3. m.manifest = manifest[Home(p)] /\ ManifestExact(manifest[Home(p)])
      BY <2>1, WorkFacts, ExactFacts DEF Memories
    <2>4. Midway(FirstStep(p), req[p], m, Directory(Home(p)))
      BY <2>2, <2>3 DEF Midway
    <2>5. mem' = [mem EXCEPT ![p] = m] /\ Goto(p, FirstStep(p)) /\ UNCHANGED disk /\ UNCHANGED req
      BY <1>2 DEF Acquire, Recall
    <2> HIDE DEF m
    <2> QED BY <1>1, <2>1, <2>2, <2>4, <2>5, ReadMidway
  <1>3. CASE SeeStale(p) \/ RemoveStale(p)
    <2>1. PICK label \in {"stale", "lock"} : Goto(p, label)
      BY <1>3 DEF SeeStale, RemoveStale
    <2>2. pc[p] \in {"lock", "stale"} /\ pc[p] # "idle" /\ UNCHANGED <<disk, req>> /\ mem' = mem
      BY <1>3 DEF SeeStale, RemoveStale
    <2>3. Midway(label, req[p], mem[p], Directory(Home(p)))
      BY <2>2 DEF MidwayAt, Midway
    <2> QED BY <1>1, <2>1, <2>2, <2>3, WorkFacts, ReadMidway
  <1>4. CASE TimeOut(p) \/ Unlock(p)
    BY <1>1, <1>4, ExitMidway DEF TimeOut, Unlock
  <1> QED BY <1>1, <1>2, <1>3, <1>4 DEF Locking

\* The captures: the project is gone, the old one or the whole new one.
LEMMA CapturingExact ==
  ASSUME BaseInv, DiskExact, NEW p \in Procs, MidwayAt(p), Capturing(p)
  PROVE  DiskExact' /\ MidwayAt(p)'
  <1> DEFINE t == tree[Home(p)]
             D(n) == [tree |-> n, index |-> index[Home(p)], objects |-> objects[Home(p)]]
  <1>0. /\ pc[p] # "idle" /\ ManifestExact(mem[p].manifest) /\ Whole(t) /\ Home(p) \in Contexts
        /\ pc[p] \in {"move_aside", "install"} => t.staging = req[p].value
    <2>1. pc[p] # "idle"
      BY DEF Capturing, Copy, Copied, MoveAside, Install, Sweep, Write, Rename, Record
    <2> QED BY <2>1, WorkFacts, ExactFacts DEF MidwayAt, Midway, Directory
  <1>1. ASSUME pc[p] \in CaptureLabels \cup {"write", "rename"}
        PROVE  t \in StateTrees /\ req[p].value \in Versions /\ req[p].value # Torn /\ None # Torn
    <2>1. req[p].op \in {"capture", "session"}
      BY <1>0, <1>1, WorkFacts, OpsTable DEF CaptureLabels
    <2>2. Home(p) \in States /\ req[p].value \in Versions
      BY <1>0, <2>1, WorkFacts DEF RequestOK
    <2> QED BY <1>0, <2>2, HomeFacts, ContentFacts, StoreAssumption
  <1>2. CASE Copy(p)
    <2> DEFINE n == [t EXCEPT !.staging = Torn, !.previous = None]
    <2>1. pc[p] \in CaptureLabels
      BY <1>2 DEF Copy, CaptureLabels
    <2>2. Whole(n)
      BY <1>0, <1>1, <2>1 DEF Whole, StateTrees, Parts
    <2>3. Midway("copied", req[p], mem[p], D(n))
      BY <1>0 DEF Midway
    <2> QED BY <1>0, <1>2, <2>2, <2>3, ContentExact, ContentMidway DEF Copy, Here
  <1>3. CASE Copied(p)
    <2> DEFINE n == [t EXCEPT !.staging = req[p].value]
    <2>1. pc[p] \in CaptureLabels
      BY <1>3 DEF Copied, CaptureLabels
    <2>2. Whole(n) /\ n.staging = req[p].value
      BY <1>0, <1>1, <2>1 DEF Whole, StateTrees, Parts
    <2>3. Midway("move_aside", req[p], mem[p], D(n))
      BY <1>0, <2>2 DEF Midway
    <2> QED BY <1>0, <1>3, <2>2, <2>3, ContentExact, ContentMidway DEF Copied, Here
  <1>4. CASE MoveAside(p)
    <2> DEFINE n == [t EXCEPT !.previous = t.project, !.project = None]
    <2>1. pc[p] \in CaptureLabels /\ t.staging = req[p].value
      BY <1>0, <1>4 DEF MoveAside, CaptureLabels
    <2>2. Whole(n) /\ n.staging = req[p].value
      BY <1>0, <1>1, <2>1 DEF Whole, StateTrees, Parts
    <2>3. Midway("install", req[p], mem[p], D(n))
      BY <1>0, <2>2 DEF Midway
    <2> QED BY <1>0, <1>4, <2>2, <2>3, ContentExact, ContentMidway DEF MoveAside, Here
  <1>5. CASE Install(p)
    <2> DEFINE n == [t EXCEPT !.project = t.staging, !.staging = None]
    <2>1. pc[p] \in CaptureLabels /\ t.staging = req[p].value
      BY <1>0, <1>5 DEF Install, CaptureLabels
    <2>2. Whole(n)
      BY <1>0, <1>1, <2>1 DEF Whole, StateTrees, Parts
    <2>3. Midway("sweep", req[p], mem[p], D(n))
      BY <1>0 DEF Midway
    <2> QED BY <1>0, <1>5, <2>2, <2>3, ContentExact, ContentMidway DEF Install, Here
  <1>6. CASE Sweep(p)
    <2> DEFINE n == [t EXCEPT !.previous = None]
    <2>1. pc[p] \in CaptureLabels
      BY <1>6 DEF Sweep, CaptureLabels
    <2>2. Whole(n)
      BY <1>0, <1>1, <2>1 DEF Whole, StateTrees, Parts
    <2>3. Midway("record", req[p], mem[p], D(n))
      BY <1>0 DEF Midway
    <2> QED BY <1>0, <1>6, <2>2, <2>3, ContentExact, ContentMidway DEF Sweep, Here
  <1>7. CASE Write(p)
    <2> DEFINE n == [t EXCEPT !.tmp = Torn]
    <2>1. pc[p] \in {"write", "rename"}
      BY <1>7 DEF Write
    <2>2. Whole(n)
      BY <1>0, <1>1, <2>1 DEF Whole, StateTrees, Parts
    <2>3. Midway("rename", req[p], mem[p], D(n))
      BY <1>0 DEF Midway
    <2> QED BY <1>0, <1>7, <2>2, <2>3, ContentExact, ContentMidway DEF Write, Here
  <1>8. CASE Rename(p)
    <2> DEFINE n == [t EXCEPT !.tmp = None, !.file = req[p].value]
    <2>1. pc[p] \in {"write", "rename"}
      BY <1>8 DEF Rename
    <2>2. Whole(n)
      BY <1>0, <1>1, <2>1 DEF Whole, StateTrees, Parts
    <2>3. Midway("record", req[p], mem[p], D(n))
      BY <1>0 DEF Midway
    <2> QED BY <1>0, <1>8, <2>2, <2>3, ContentExact, ContentMidway DEF Rename, Here
  <1>9. CASE Record(p)
    <2> DEFINE sources == IF req[p].op = "derive" THEN {<<req[p].ctx, mem[p].selected>>} ELSE {}
               m == Recorded(mem[p].manifest, RevisionOf(Home(p)), req[p].op, sources)
    <2>1. pc[p] = "record"
      BY <1>9 DEF Record
    <2>2. req[p].op \notin {"restore", "clone"} /\ mem[p].manifest \in Manifests
      BY <1>0, <2>1, WorkFacts, OpsTable DEF Memories
    <2>3. ManifestExact(m)
      <3> HIDE DEF sources
      <3> QED BY <1>0, <2>2, RecordedExact
    <2>4. DiskExact'
      <3>1. manifest' = [manifest EXCEPT ![Home(p)] = m]
        BY <1>9 DEF Record
      <3> HIDE DEF m
      <3> QED BY <1>0, <1>9, <2>3, <3>1, HomeFacts, ExactFacts, WriteExact DEF BaseInv, Record
    <2>5. MidwayAt(p)'
      <3>1. pc'[p] = "unlock" /\ req'[p] = req[p] /\ mem'[p] = mem[p]
        BY <1>9 DEF Record, Goto, BaseInv, Processes
      <3> QED BY <1>0, <3>1 DEF MidwayAt, Midway
    <2> QED BY <2>4, <2>5
  <1> QED BY <1>2, <1>3, <1>4, <1>5, <1>6, <1>7, <1>8, <1>9 DEF Capturing

\* The snapshot: its object is whole before the index names it.
LEMMA SnapshottingExact ==
  ASSUME BaseInv, DiskExact, NEW p \in Procs, MidwayAt(p), Snapshotting(p)
  PROVE  DiskExact' /\ MidwayAt(p)'
  <1> DEFINE c == Home(p)
  <1>0. /\ pc[p] # "idle" /\ c \in Contexts /\ ManifestExact(mem[p].manifest)
        /\ mem[p].manifest \in Manifests /\ mem[p] \in Memories
        /\ Whole(tree[c]) /\ StoreExact(objects[c]) /\ ListedIn(index[c], objects[c])
        /\ pc[p] \in {"snap_export", "snap_manifest", "snap_list"} =>
             Revision(p) = tree[c] /\ mem[p].index = index[c]
        /\ pc[p] \in {"snap_manifest", "snap_list"} => tree[c] \in DOMAIN objects[c]
    <2>1. pc[p] # "idle"
      BY DEF Snapshotting, SnapIndex, SnapExport, SnapManifest, SnapList
    <2> QED BY <2>1, WorkFacts, ExactFacts DEF MidwayAt, Midway, Directory, Memories, Revision
  <1>1. CASE SnapIndex(p)
    <2> DEFINE operation == IF Safety(p) THEN "restore-safety" ELSE "snapshot"
               n == Recorded(mem[p].manifest, RevisionOf(c), operation, {})
               m == [mem[p] EXCEPT !.index = index[c], !.manifest = n]
    <2>1. DiskExact'
      BY <1>1, SameExact DEF SnapIndex
    <2>2. ManifestExact(n)
      BY <1>0, RecordedExact
    <2>3. Last(n.history).id = tree[c]
      <3>1. EntriesOK(c, mem[p].manifest) /\ ManifestOK(c, mem[p].manifest)
        BY <1>0, WorkFacts DEF MemoryOK, ManifestOK
      <3>2. ContentOf(c, RevisionOf(c))
        BY <1>0, HomeFacts DEF RevisionOf
      <3>3. operation \in Operations
        BY DEF Operations, LockedOps
      <3>4. {} \in SUBSET (Contexts \X AllTrees)
        OBVIOUS
      <3>5. NewestIs(n, RevisionOf(c))
        BY <3>1, <3>2, <3>3, <3>4, RecordedOK
      <3> QED BY <3>5 DEF NewestIs, RevisionOf
    <2>4. m.manifest = n /\ m.index = index[c]
      BY <1>0 DEF Memories
    <2>5. CASE Recall(p, m) /\ Goto(p, "snap_export")
      <3> HIDE DEF n, m
      <3>1. Midway("snap_export", req[p], m, Directory(c))
        BY <2>2, <2>3, <2>4 DEF Midway, Directory
      <3> QED BY <1>0, <1>1, <2>1, <2>5, <3>1, ReadMidway DEF SnapIndex, Recall
    <2>6. CASE Goto(p, "unlock") /\ UNCHANGED mem
      <3>1. Midway("unlock", req[p], mem[p], Directory(c))
        BY <1>0 DEF Midway
      <3> QED BY <1>0, <1>1, <2>1, <2>6, <3>1, WorkFacts, ReadMidway DEF SnapIndex
    <2> QED BY <1>1, <2>5, <2>6 DEF SnapIndex
  <1>2. CASE SnapExport(p)
    <2> DEFINE r == Revision(p)
               made == [tree |-> Here(p), manifest |-> mem[p].manifest]
               o == [x \in DOMAIN objects[c] \cup {r} |-> IF x = r THEN made ELSE objects[c][x]]
    <2>1. pc[p] = "snap_export" /\ r = tree[c] /\ mem[p].index = index[c]
      BY <1>0, <1>2 DEF SnapExport
    <2>2. PICK s : /\ objects' = [objects EXCEPT ![c] = s] /\ StoreExact(s)
                   /\ DOMAIN s = DOMAIN objects[c] \cup {tree[c]}
      <3>1. CASE r \in DOMAIN objects[c]
        <4>1. objects' = [objects EXCEPT ![c] = objects[c]]
          BY <1>0, <1>2, <3>1, HomeFacts DEF SnapExport
        <4>2. DOMAIN objects[c] = DOMAIN objects[c] \cup {tree[c]}
          BY <2>1, <3>1
        <4> QED BY <1>0, <4>1, <4>2
      <3>2. CASE r \notin DOMAIN objects[c]
        <4>1. objects' = [objects EXCEPT ![c] = o]
          BY <1>0, <1>2, <3>2 DEF SnapExport, BaseInv, DiskTables
        <4>2. made.tree = r /\ made.manifest = mem[p].manifest
          BY <2>1 DEF Here
        <4> HIDE DEF made, r
        <4>3. StoreExact(o)
          BY <1>0, <2>1, <4>2 DEF StoreExact
        <4>4. DOMAIN o = DOMAIN objects[c] \cup {tree[c]}
          BY <2>1
        <4> HIDE DEF o
        <4> QED BY <4>1, <4>3, <4>4
      <3> QED BY <3>1, <3>2
    <2>3. DiskExact'
      <3>1. ListedIn(index[c], s)
        BY <1>0, <2>2 DEF ListedIn
      <3> QED BY <1>0, <1>2, <2>2, <3>1, HomeFacts, ExactFacts, WriteExact DEF BaseInv, SnapExport
    <2>4. MidwayAt(p)'
      <3> DEFINE dir == [tree |-> tree[c], index |-> index[c], objects |-> s]
      <3>1. Midway("snap_manifest", req[p], mem[p], dir)
        BY <1>0, <2>1, <2>2 DEF Midway, Revision
      <3>2. pc'[p] = "snap_manifest" /\ req'[p] = req[p] /\ mem'[p] = mem[p] /\ c = HomeOf(req[p])
        BY <1>0, <1>2, WorkFacts DEF SnapExport, Goto, BaseInv, Processes
      <3>3. tree'[c] = tree[c] /\ index'[c] = index[c] /\ objects'[c] = s
        BY <1>0, <1>2, <2>2 DEF SnapExport, BaseInv, DiskTables
      <3> QED BY <3>1, <3>2, <3>3, OwnMidway
    <2> QED BY <2>3, <2>4
  <1>3. CASE SnapManifest(p)
    <2>1. pc[p] = "snap_manifest" /\ Revision(p) = tree[c] /\ mem[p].index = index[c]
          /\ tree[c] \in DOMAIN objects[c]
      BY <1>0, <1>3 DEF SnapManifest
    <2>2. DiskExact'
      BY <1>0, <1>3, HomeFacts, ExactFacts, WriteExact DEF BaseInv, SnapManifest
    <2>3. MidwayAt(p)'
      <3> DEFINE dir == [tree |-> tree[c], index |-> index[c], objects |-> objects[c]]
      <3>1. Midway("snap_list", req[p], mem[p], dir)
        BY <1>0, <2>1 DEF Midway, Revision
      <3>2. pc'[p] = "snap_list" /\ req'[p] = req[p] /\ mem'[p] = mem[p] /\ c = HomeOf(req[p])
        BY <1>0, <1>3, WorkFacts DEF SnapManifest, Goto, BaseInv, Processes
      <3>3. tree'[c] = tree[c] /\ index'[c] = index[c] /\ objects'[c] = objects[c]
        BY <1>3 DEF SnapManifest
      <3> QED BY <3>1, <3>2, <3>3, OwnMidway
    <2> QED BY <2>2, <2>3
  <1>4. CASE SnapList(p)
    <2> DEFINE item == [name |-> SnapshotName(p), rev |-> Revision(p),
                        protected |-> Safety(p) \/ req[p].flag]
               x == [mem[p].index EXCEPT !.items = Append(mem[p].index.items, item)]
    <2>1. pc[p] = "snap_list" /\ Revision(p) = tree[c] /\ mem[p].index = index[c]
          /\ tree[c] \in DOMAIN objects[c]
      BY <1>0, <1>4 DEF SnapList
    <2>2. Revs(x) = Revs(index[c]) \cup {tree[c]}
      <3>1. item.rev = tree[c]
        BY <2>1
      <3> HIDE DEF item
      <3>2. index[c] \in Indexes /\ index[c].items \in Seq(SnapshotItems) /\ Len(index[c].items) \in Nat
        BY <1>0, HomeFacts DEF Indexes
      <3>3. x.items = Append(index[c].items, item)
        BY <2>1, <3>2 DEF Indexes
      <3>4. /\ Len(x.items) = Len(index[c].items) + 1 /\ x.items[Len(index[c].items) + 1] = item
            /\ \A i \in 1..Len(index[c].items) : x.items[i] = index[c].items[i]
        <4>1. \A s \in Seq(SnapshotItems) :
                /\ Len(Append(s, item)) = Len(s) + 1 /\ Append(s, item)[Len(s) + 1] = item
                /\ \A i \in 1..Len(s) : Append(s, item)[i] = s[i]
          OBVIOUS
        <4> QED BY <3>2, <3>3, <4>1
      <3> HIDE DEF x
      <3>5. \A i \in 1..(Len(index[c].items) + 1) :
              i \in 1..Len(index[c].items) \/ i = Len(index[c].items) + 1
        BY <3>2
      <3>6. Revs(x) \subseteq Revs(index[c]) \cup {tree[c]}
        BY <3>1, <3>4, <3>5 DEF Revs
      <3>7. \A i \in 1..Len(index[c].items) : i \in 1..Len(x.items)
        BY <3>2, <3>4
      <3>8. Len(index[c].items) + 1 \in 1..Len(x.items)
        BY <3>2, <3>4
      <3>9. Revs(index[c]) \subseteq Revs(x)
        BY <3>4, <3>7 DEF Revs
      <3>10. tree[c] \in Revs(x)
        BY <3>1, <3>4, <3>8 DEF Revs
      <3> QED BY <3>6, <3>9, <3>10
    <2>3. index' = [index EXCEPT ![c] = x]
      BY <1>4 DEF SnapList
    <2> HIDE DEF x
    <2>4. DiskExact'
      <3>1. ListedIn(x, objects[c])
        BY <1>0, <2>1, <2>2 DEF ListedIn
      <3> QED BY <1>0, <1>4, <2>3, <3>1, HomeFacts, ExactFacts, WriteExact DEF BaseInv, SnapList
    <2>5. MidwayAt(p)'
      <3> DEFINE dir == [tree |-> tree[c], index |-> x, objects |-> objects[c]]
                 label == IF Safety(p) THEN "stage" ELSE "unlock"
      <3>1. Midway(label, req[p], mem[p], dir)
        BY <1>0, <2>2 DEF Midway
      <3>2. pc'[p] = label /\ req'[p] = req[p] /\ mem'[p] = mem[p] /\ c = HomeOf(req[p])
        BY <1>0, <1>4, WorkFacts DEF SnapList, Goto, BaseInv, Processes
      <3>3. tree'[c] = tree[c] /\ index'[c] = x /\ objects'[c] = objects[c]
        BY <1>0, <1>4, <2>3 DEF SnapList, BaseInv, DiskTables
      <3> QED BY <3>1, <3>2, <3>3, OwnMidway
    <2> QED BY <2>4, <2>5
  <1> QED BY <1>1, <1>2, <1>3, <1>4 DEF Snapshotting

\* The restore: what is swapped out is listed, what is swapped in is what was
\* selected.
LEMMA RestoringExact ==
  ASSUME BaseInv, DiskExact, NEW p \in Procs, MidwayAt(p), Restoring(p)
  PROVE  DiskExact' /\ MidwayAt(p)'
  <1> DEFINE c == Home(p)
  <1>0. /\ pc[p] # "idle" /\ c \in Contexts /\ ManifestExact(mem[p].manifest)
        /\ mem[p].manifest \in Manifests /\ mem[p] \in Memories
        /\ Whole(tree[c]) /\ StoreExact(objects[c])
        /\ pc[p] \in {"stage", "swap_out"} => tree[c] \in Revs(index[c])
        /\ pc[p] \in {"swap_out", "swap_in"} => mem[p].staged = mem[p].selected /\ Whole(mem[p].staged)
        /\ pc[p] = "restored" => tree[c] = mem[p].selected
    <2>1. pc[p] # "idle"
      BY DEF Restoring, Select, Stage, SwapOut, SwapIn, Restored
    <2> QED BY <2>1, WorkFacts, ExactFacts DEF MidwayAt, Midway, Directory, Memories
  <1>1. ASSUME Goto(p, "unlock"), UNCHANGED <<disk, req>>, mem' = mem
        PROVE  DiskExact' /\ MidwayAt(p)'
    <2>1. Midway("unlock", req[p], mem[p], Directory(c))
      BY <1>0 DEF Midway
    <2> QED BY <1>0, <1>1, <2>1, SameExact, WorkFacts, ReadMidway
  <1>2. CASE Select(p)
    <2>1. ASSUME NEW s \in Items(c), Recall(p, [mem[p] EXCEPT !.selected = s.rev]),
                 Goto(p, IF RevisionOf(c) = s.rev THEN "stage" ELSE "snap_index")
          PROVE  DiskExact' /\ MidwayAt(p)'
      <3> DEFINE m == [mem[p] EXCEPT !.selected = s.rev]
                 label == IF RevisionOf(c) = s.rev THEN "stage" ELSE "snap_index"
      <3>1. s.rev \in Revs(index[c])
        BY DEF Items, Revs
      <3>2. m.manifest = mem[p].manifest
        BY <1>0 DEF Memories
      <3>3. Midway(label, req[p], m, Directory(c))
        BY <1>0, <3>1, <3>2 DEF Midway, Directory, RevisionOf
      <3>4. mem' = [mem EXCEPT ![p] = m] /\ Goto(p, label) /\ UNCHANGED <<disk, req>>
            /\ label # "clone_record"
        BY <1>2, <2>1 DEF Select, Recall
      <3> HIDE DEF m, label
      <3> QED BY <1>0, <3>3, <3>4, SameExact, ReadMidway
    <2> QED BY <1>1, <1>2, <2>1 DEF Select
  <1>3. CASE Stage(p)
    <2>1. ASSUME mem[p].selected \in DOMAIN objects[c], Goto(p, "swap_out"),
                 Recall(p, [mem[p] EXCEPT !.staged = objects[c][mem[p].selected].tree])
          PROVE  DiskExact' /\ MidwayAt(p)'
      <3> DEFINE s == objects[c][mem[p].selected].tree
                 m == [mem[p] EXCEPT !.staged = s]
      <3>1. s = mem[p].selected /\ Whole(s)
        BY <1>0, <2>1 DEF StoreExact
      <3>2. m.manifest = mem[p].manifest /\ m.staged = s /\ m.selected = mem[p].selected
        BY <1>0 DEF Memories
      <3>3. tree[c] \in Revs(index[c])
        BY <1>0, <1>3 DEF Stage
      <3>4. mem' = [mem EXCEPT ![p] = m] /\ UNCHANGED <<disk, req>>
        BY <1>3, <2>1 DEF Stage, Recall
      <3> HIDE DEF m, s
      <3>5. Midway("swap_out", req[p], m, Directory(c))
        BY <1>0, <3>1, <3>2, <3>3 DEF Midway, Directory
      <3> QED BY <1>0, <2>1, <3>4, <3>5, SameExact, ReadMidway
    <2> QED BY <1>1, <1>3, <2>1 DEF Stage
  <1>4. CASE SwapOut(p)
    <2> DEFINE m == [mem[p] EXCEPT !.aside.tree = tree[c]]
               dir == [tree |-> Empty, index |-> index[c], objects |-> objects[c]]
    <2>1. DiskExact'
      BY <1>0, <1>4, ExactValues, ContentExact DEF SwapOut
    <2>2. /\ m.manifest = mem[p].manifest /\ m.staged = mem[p].staged
          /\ m.selected = mem[p].selected /\ m.aside.tree = tree[c]
      BY <1>0 DEF Memories, Directories
    <2>3. mem' = [mem EXCEPT ![p] = m] /\ Goto(p, "swap_in") /\ UNCHANGED <<index, objects, req>>
          /\ Put(p, Empty) /\ pc[p] = "swap_out"
      BY <1>4 DEF SwapOut, Recall, Here
    <2> HIDE DEF m
    <2>4. Midway("swap_in", req[p], m, dir)
      BY <1>0, <2>2, <2>3 DEF Midway
    <2>5. pc'[p] = "swap_in" /\ req'[p] = req[p] /\ mem'[p] = m /\ c = HomeOf(req[p]) /\ tree'[c] = Empty
      BY <1>0, <2>3, WorkFacts DEF Goto, Put, BaseInv, Processes, DiskTables
    <2> QED BY <2>1, <2>3, <2>4, <2>5, OwnMidway
  <1>5. CASE SwapIn(p)
    <2> DEFINE t == mem[p].staged
    <2>1. DiskExact'
      BY <1>0, <1>5, ContentExact DEF SwapIn
    <2>2. Midway("restored", req[p], mem[p],
                 [tree |-> t, index |-> index[c], objects |-> objects[c]])
      BY <1>0, <1>5 DEF Midway, SwapIn
    <2> QED BY <1>0, <1>5, <2>1, <2>2, ContentMidway DEF SwapIn
  <1>6. CASE Restored(p)
    <2> DEFINE old == [mem[p].manifest EXCEPT !.current = None]
               sources == {<<c, mem[p].selected>>}
               m == Recorded(old, RevisionOf(c), "restore", sources)
    <2>1. tree[c] = mem[p].selected
      BY <1>0, <1>6 DEF Restored
    <2>2. old \in Manifests /\ ManifestExact(old)
      BY <1>0, ManifestFields DEF Manifests
    <2>3. \A source \in sources : source[2] = RevisionOf(c)
      BY <2>1 DEF RevisionOf
    <2>4. ManifestExact(m)
      <3> HIDE DEF old, sources
      <3> QED BY <2>2, <2>3, RecordedExact
    <2>5. DiskExact'
      <3>1. manifest' = [manifest EXCEPT ![c] = m]
        BY <1>6 DEF Restored
      <3> HIDE DEF m
      <3> QED BY <1>0, <1>6, <2>4, <3>1, HomeFacts, ExactFacts, WriteExact DEF BaseInv, Restored
    <2>6. MidwayAt(p)'
      <3>1. pc'[p] = "unlock" /\ req'[p] = req[p] /\ mem'[p] = mem[p]
        BY <1>6 DEF Restored, Goto, BaseInv, Processes
      <3> QED BY <1>0, <3>1 DEF MidwayAt, Midway
    <2> QED BY <2>5, <2>6
  <1> QED BY <1>2, <1>3, <1>4, <1>5, <1>6 DEF Restoring

LEMMA UnlockedExact ==
  ASSUME BaseInv, DiskExact, NEW p \in Procs, MidwayAt(p), Unlocked(p)
  PROVE  DiskExact' /\ MidwayAt(p)'
  <1> DEFINE c == Home(p)
  <1>0. /\ pc[p] # "idle" /\ c \in Contexts /\ ManifestExact(mem[p].manifest)
        /\ mem[p].manifest \in Manifests /\ mem[p] \in Memories
        /\ Whole(tree[c]) /\ StoreExact(objects[c]) /\ ListedIn(index[c], objects[c])
        /\ pc[p] = "retain" => mem[p].index = index[c]
        /\ pc[p] = "collect" => Revs(mem[p].index) \subseteq Revs(index[c])
        /\ pc[p] = "prune" => Revs(mem[p].index) = Revs(index[c])
        /\ pc[p] = "clone_record" => tree[req[p].dest] = mem[p].selected
    <2>1. pc[p] # "idle"
      BY DEF Unlocked, CloneImport, CloneRecord, Attach, Collect, Prune, SetRetention
    <2> QED BY <2>1, WorkFacts, ExactFacts DEF MidwayAt, Midway, Directory, Memories
  <1>1. CASE CloneImport(p)
    <2> DEFINE d == req[p].dest
               r == mem[p].selected
    <2>1. pc[p] = "clone_import" /\ req[p].op = "clone" /\ d \in Contexts /\ c = req[p].ctx
      BY <1>0, <1>1, WorkFacts, OpsTable DEF CloneImport, RequestOK, Contexts
    <2>2. ASSUME r \in DOMAIN objects[c], Goto(p, "clone_record"), UNCHANGED <<req, mem>>,
                 tree' = [tree EXCEPT ![d] = objects[c][r].tree],
                 manifest' = [manifest EXCEPT ![d] = [objects[c][r].manifest EXCEPT !.attached = FALSE]]
          PROVE  DiskExact' /\ MidwayAt(p)'
      <3> DEFINE m == [objects[c][r].manifest EXCEPT !.attached = FALSE]
                 t == objects[c][r].tree
      <3>1. t = r /\ Whole(t) /\ ManifestExact(objects[c][r].manifest)
        BY <1>0, <2>2 DEF StoreExact
      <3>2. objects[c][r].manifest \in Manifests
        <4>1. StoreOK(c, objects[c])
          BY <1>0, HomeFacts
        <4> QED BY <2>2, <4>1 DEF StoreOK, ManifestOK, EntriesOK
      <3>3. ManifestExact(m)
        BY <3>1, <3>2, ManifestFields
      <3>4. manifest' = [manifest EXCEPT ![d] = m] /\ tree' = [tree EXCEPT ![d] = t]
        BY <2>2
      <3> HIDE DEF m, t, d
      <3>5. DiskExact'
        BY <1>0, <1>1, <2>1, <3>1, <3>3, <3>4, DirectoryFacts, ExactFacts, WriteExact
           DEF BaseInv, CloneImport
      <3>6. pc'[p] = "clone_record" /\ req'[p] = req[p] /\ mem'[p] = mem[p] /\ tree'[d] = r
        BY <2>1, <2>2, <3>1, <3>4 DEF Goto, BaseInv, Processes, DiskTables
      <3>7. MidwayAt(p)'
        BY <1>0, <3>6 DEF MidwayAt, Midway, d
      <3> QED BY <3>5, <3>7
    <2>3. CASE Exit(p) /\ UNCHANGED <<tree, manifest>>
      <3>1. UNCHANGED disk
        BY <1>1, <2>3 DEF CloneImport, disk
      <3> QED BY <2>3, <3>1, SameExact, ExitMidway
    <2> QED BY <1>1, <2>1, <2>2, <2>3 DEF CloneImport
  <1>2. CASE CloneRecord(p)
    <2> DEFINE d == req[p].dest
               sources == {<<req[p].ctx, mem[p].selected>>}
               m == Recorded(NewManifest, RevisionOf(d), "clone", sources)
    <2>1. pc[p] = "clone_record" /\ tree[d] = mem[p].selected
      BY <1>0, <1>2 DEF CloneRecord
    <2>2. d \in Contexts
      BY <1>0, <2>1, WorkFacts, OpsTable DEF RequestOK, Contexts
    <2>3. \A source \in sources : source[2] = RevisionOf(d)
      BY <2>1 DEF RevisionOf
    <2>4. ManifestExact(m)
      <3> HIDE DEF sources
      <3> QED BY <2>3, ExactValues, RecordedExact
    <2>5. DiskExact'
      <3>1. manifest' = [manifest EXCEPT ![d] = m]
        BY <1>2 DEF CloneRecord
      <3> HIDE DEF m, d
      <3> QED BY <1>2, <2>2, <2>4, <3>1, DirectoryFacts, ExactFacts, WriteExact DEF BaseInv,
                 CloneRecord
    <2> QED BY <1>2, <2>5, ExitMidway DEF CloneRecord
  <1>3. CASE Attach(p)
    <2> DEFINE m == [mem[p].manifest EXCEPT !.attached = req[p].flag]
    <2>1. ManifestExact(m)
      BY <1>0, ManifestFields
    <2>2. manifest' = [manifest EXCEPT ![c] = m]
      BY <1>3 DEF Attach
    <2> HIDE DEF m
    <2>3. DiskExact'
      BY <1>0, <1>3, <2>1, <2>2, HomeFacts, ExactFacts, WriteExact DEF BaseInv, Attach
    <2> QED BY <1>3, <2>3, ExitMidway DEF Attach
  <1>4. CASE Collect(p)
    <2> DEFINE m == [mem[p] EXCEPT !.aside.index = index[c]]
               dir == [tree |-> tree[c], index |-> mem[p].index, objects |-> objects[c]]
    <2>1. pc[p] = "collect" /\ ListedIn(mem[p].index, objects[c])
      BY <1>0, <1>4 DEF Collect, ListedIn
    <2>2. DiskExact'
      BY <1>0, <1>4, <2>1, HomeFacts, ExactFacts, WriteExact DEF BaseInv, Collect
    <2>3. m.manifest = mem[p].manifest /\ m.index = mem[p].index
      BY <1>0 DEF Memories
    <2>4. mem' = [mem EXCEPT ![p] = m]
      BY <1>4 DEF Collect, Recall
    <2> HIDE DEF m
    <2>5. Midway("prune", req[p], m, dir)
      BY <1>0, <2>3 DEF Midway
    <2>6. /\ pc'[p] = "prune" /\ req'[p] = req[p] /\ mem'[p] = m /\ c = HomeOf(req[p])
          /\ tree'[c] = tree[c] /\ index'[c] = mem[p].index /\ objects'[c] = objects[c]
      BY <1>0, <1>4, <2>4, WorkFacts DEF Collect, Goto, BaseInv, Processes, DiskTables
    <2> QED BY <2>2, <2>5, <2>6, OwnMidway
  <1>5. CASE Prune(p)
    <2> DEFINE gone == Revs(mem[p].aside.index) \ Revs(mem[p].index)
               o == Without(objects[c], gone)
    <2>1. Revs(mem[p].index) = Revs(index[c])
      BY <1>0, <1>5 DEF Prune
    <2>2. DOMAIN o = DOMAIN objects[c] \ gone /\ \A r \in DOMAIN o : o[r] = objects[c][r]
      BY DEF Without
    <2>3. Revs(index[c]) \cap gone = {}
      BY <2>1
    <2>4. objects' = [objects EXCEPT ![c] = o]
      BY <1>0, <1>5 DEF Prune, BaseInv, DiskTables
    <2> HIDE DEF gone, o
    <2>5. StoreExact(o) /\ ListedIn(index[c], o)
      BY <1>0, <2>2, <2>3 DEF StoreExact, ListedIn
    <2>6. DiskExact'
      BY <1>0, <1>5, <2>4, <2>5, HomeFacts, ExactFacts, WriteExact DEF BaseInv, Prune
    <2> QED BY <1>5, <2>6, ExitMidway DEF Prune
  <1>6. ASSUME NEW k \in 0..1, NEW a \in 0..1, SetRetention(p, k, a)
        PROVE  DiskExact' /\ MidwayAt(p)'
    <2> DEFINE x == [mem[p].index EXCEPT !.keepLast = k, !.maxAge = a]
    <2>1. mem[p].index = index[c] /\ index[c] \in Indexes
      BY <1>0, <1>6, HomeFacts DEF SetRetention
    <2>2. x.items = index[c].items
      BY <2>1 DEF Indexes
    <2>3. index' = [index EXCEPT ![c] = x]
      BY <1>6 DEF SetRetention
    <2> HIDE DEF x
    <2>4. ListedIn(x, objects[c])
      BY <1>0, <2>2 DEF ListedIn, Revs
    <2>5. DiskExact'
      BY <1>0, <1>6, <2>3, <2>4, HomeFacts, ExactFacts, WriteExact DEF BaseInv, SetRetention
    <2> QED BY <1>6, <2>5, ExitMidway DEF SetRetention
  <1> QED BY <1>1, <1>2, <1>3, <1>4, <1>5, <1>6 DEF Unlocked

LEMMA DerivingExact ==
  ASSUME BaseInv, DiskExact, NEW p \in Procs, MidwayAt(p), Deriving(p)
  PROVE  DiskExact' /\ MidwayAt(p)'
  <1> DEFINE c == Home(p)
  <1>0. /\ pc[p] # "idle" /\ c \in Contexts /\ ManifestExact(mem[p].manifest)
        /\ mem[p].manifest \in Manifests /\ mem[p] \in Memories
        /\ ManifestExact(manifest[c])
        /\ pc[p] \in {"displace", "place"} => Whole(mem[p].staged)
        /\ pc[p] = "place" => DirectoryExact(mem[p].aside)
    <2>1. pc[p] # "idle"
      BY DEF Deriving, Source, Prior, Displace, Place
    <2> QED BY <2>1, WorkFacts, ExactFacts DEF MidwayAt, Midway, Memories
  <1>1. ASSUME Exit(p), UNCHANGED disk PROVE DiskExact' /\ MidwayAt(p)'
    BY <1>1, SameExact, ExitMidway
  <1>2. CASE Source(p)
    <2> DEFINE m == [mem[p] EXCEPT !.selected = RevisionOf(req[p].ctx)]
    <2>1. ASSUME Recall(p, m), Goto(p, "prior"), UNCHANGED req
          PROVE  DiskExact' /\ MidwayAt(p)'
      <3>1. m.manifest = mem[p].manifest
        BY <1>0 DEF Memories
      <3>2. mem' = [mem EXCEPT ![p] = m] /\ UNCHANGED <<disk, req>>
        BY <1>2, <2>1 DEF Source, Recall
      <3> HIDE DEF m
      <3>3. Midway("prior", req[p], m, Directory(c))
        BY <1>0, <3>1 DEF Midway
      <3> QED BY <1>0, <2>1, <3>2, <3>3, SameExact, ReadMidway
    <2> QED BY <1>1, <1>2, <2>1 DEF Source
  <1>3. CASE Prior(p)
    <2> DEFINE m == [mem[p] EXCEPT !.manifest = manifest[c], !.staged = Generated(p)]
    <2>1. ASSUME Recall(p, m), Goto(p, "displace"), UNCHANGED req
          PROVE  DiskExact' /\ MidwayAt(p)'
      <3>1. m.manifest = manifest[c] /\ m.staged = Generated(p)
        BY <1>0 DEF Memories
      <3>2. Whole(Generated(p))
        <4>1. mem[p].selected \in StateTrees
          <5>1. pc[p] = "prior"
            BY <1>3 DEF Prior
          <5>2. req[p].op = "derive" /\ req[p].ctx \in States
            BY <1>0, <5>1, WorkFacts, OpsTable DEF RequestOK
          <5> QED BY <1>0, <5>1, <5>2, WorkFacts, ContentFacts DEF MemoryOK
        <4>2. mem[p].selected # Torn /\ None # Torn
          BY <4>1, ContentFacts, StoreAssumption
        <4> QED BY <4>2 DEF Generated, Whole, Empty, Parts
      <3>3. mem' = [mem EXCEPT ![p] = m] /\ UNCHANGED <<disk, req>>
        BY <1>3, <2>1 DEF Prior, Recall
      <3> HIDE DEF m
      <3>4. Midway("displace", req[p], m, Directory(c))
        BY <1>0, <3>1, <3>2 DEF Midway
      <3> QED BY <1>0, <2>1, <3>3, <3>4, SameExact, ReadMidway
    <2> QED BY <1>1, <1>3, <2>1 DEF Prior
  <1>4. CASE Displace(p)
    <2> DEFINE m == [mem[p] EXCEPT !.aside = Directory(c)]
    <2>1. DiskExact'
      BY <1>0, <1>4, ExactValues, InstallExact DEF BaseInv, Displace
    <2>2. /\ m.manifest = mem[p].manifest /\ m.staged = mem[p].staged /\ m.aside = Directory(c)
      BY <1>0 DEF Memories
    <2>3. mem' = [mem EXCEPT ![p] = m] /\ Goto(p, "place") /\ UNCHANGED req /\ Whole(mem[p].staged)
      BY <1>0, <1>4 DEF Displace, Recall
    <2> HIDE DEF m
    <2>4. DirectoryExact(Directory(c))
      BY <1>0 DEF DiskExact
    <2>5. \A dir : Midway("place", req[p], m, dir)
      BY <1>0, <2>2, <2>3, <2>4 DEF Midway
    <2>6. pc'[p] = "place" /\ req'[p] = req[p] /\ mem'[p] = m /\ c = HomeOf(req[p])
      BY <1>0, <2>3, WorkFacts DEF Goto, BaseInv, Processes
    <2>7. MidwayAt(p)'
      <3> DEFINE dir == [tree |-> tree'[c], index |-> index'[c], objects |-> objects'[c]]
      <3>1. Midway("place", req[p], m, dir)
        BY <2>5
      <3> QED BY <2>6, <3>1, OwnMidway
    <2> QED BY <2>1, <2>7
  <1>5. CASE Place(p)
    <2> DEFINE m == [mem[p].manifest EXCEPT !.live = TRUE, !.attached = FALSE]
               dir == [NoDir EXCEPT !.tree = mem[p].staged, !.manifest = m]
    <2>1. pc[p] = "place" /\ Whole(mem[p].staged) /\ ManifestExact(m)
      BY <1>0, <1>5, ManifestFields DEF Place
    <2>2. DirectoryExact(dir)
      <3> HIDE DEF m
      <3> QED BY <2>1, ExactValues DEF DirectoryExact, NoDir
    <2>3. InstallDirectory(c, dir)
      BY <1>5 DEF Place
    <2> HIDE DEF dir
    <2>4. DiskExact'
      BY <1>0, <2>2, <2>3, InstallExact DEF BaseInv
    <2>5. pc'[p] = "lock" /\ req'[p] = req[p] /\ mem'[p] = mem[p]
      BY <1>5 DEF Place, Goto, BaseInv, Processes
    <2>6. MidwayAt(p)'
      BY <1>0, <2>5 DEF MidwayAt, Midway
    <2> QED BY <2>4, <2>6
  <1> QED BY <1>2, <1>3, <1>4, <1>5 DEF Deriving

LEMMA FailingExact ==
  ASSUME BaseInv, DiskExact, NEW p \in Procs, MidwayAt(p), Failing(p)
  PROVE  DiskExact' /\ MidwayAt(p)'
  <1> DEFINE c == Home(p)
             t == tree[c]
  <1>0. /\ pc[p] # "idle" /\ c \in Contexts /\ Whole(t)
        /\ pc[p] = "swap_in" => Whole(mem[p].aside.tree)
        /\ pc[p] = "place" => DirectoryExact(mem[p].aside)
    <2>1. pc[p] # "idle"
      BY DEF Failing, CommandFails, CaptureFails, SwapFails, CloneFails, PlaceFails, Crash
    <2> QED BY <2>1, WorkFacts, ExactFacts DEF MidwayAt, Midway
  <1>1. MidwayAt(p)'
    <2>1. Exit(p)
      BY DEF Failing, CommandFails, CaptureFails, SwapFails, CloneFails, PlaceFails, Crash, Error
    <2> QED BY <2>1, ExitMidway
  <1>2. CASE CommandFails(p) \/ Crash(p)
    BY <1>1, <1>2, SameExact DEF CommandFails, Crash
  <1>3. CASE CaptureFails(p)
    <2>1. pc[p] \in {"copied", "move_aside", "install", "rename"}
      BY <1>3 DEF CaptureFails
    <2>2. t \in StateTrees /\ None # Torn
      <3>1. req[p].op \in {"capture", "session"}
        BY <1>0, <2>1, WorkFacts, OpsTable DEF CaptureLabels
      <3>2. Home(p) \in States
        BY <1>0, <3>1, WorkFacts
      <3> QED BY <1>0, <3>2, HomeFacts, ContentFacts, StoreAssumption
    <2>3. /\ Whole([t EXCEPT !.staging = None]) /\ Whole([t EXCEPT !.tmp = None])
          /\ Whole([t EXCEPT !.project = t.previous, !.previous = None])
      BY <1>0, <2>2 DEF Whole, StateTrees, Parts
    <2>4. \/ Put(p, [t EXCEPT !.staging = None]) \/ Put(p, [t EXCEPT !.tmp = None])
          \/ Put(p, [t EXCEPT !.project = t.previous, !.previous = None])
      BY <1>3 DEF CaptureFails, Here
    <2>5. UNCHANGED <<manifest, index, objects>>
      BY <1>3 DEF CaptureFails
    <2> QED BY <1>0, <1>1, <2>3, <2>4, <2>5, ContentExact
  <1>4. CASE SwapFails(p)
    BY <1>0, <1>1, <1>4, ContentExact DEF SwapFails
  <1>5. CASE CloneFails(p)
    <2>1. req[p].dest \in Contexts
      BY <1>0, <1>5, WorkFacts, OpsTable DEF CloneFails, RequestOK, Contexts
    <2> QED BY <1>1, <1>5, <2>1, ExactValues, InstallExact DEF CloneFails, BaseInv
  <1>6. CASE PlaceFails(p)
    BY <1>0, <1>1, <1>6, InstallExact DEF PlaceFails, BaseInv
  <1> QED BY <1>2, <1>3, <1>4, <1>5, <1>6 DEF Failing

\* A command starts with what it has just read.
LEMMA RequestExact ==
  ASSUME BaseInv, DiskExact, NEW p \in Procs, Request(p)
  PROVE  DiskExact' /\ MidwayAt(p)'
  <1>0. DiskExact' /\ UNCHANGED disk
    BY RequestTouches, SameExact
  <1>1. ASSUME NEW label \in {"lock", "source", "clone_import", "attach"}, NEW r, Start(p, label, r),
               NEW m, mem' = [mem EXCEPT ![p] = m], ManifestExact(m.manifest)
        PROVE  MidwayAt(p)'
    <2>1. pc'[p] = label /\ mem'[p] = m
      BY <1>1 DEF Start, Goto, BaseInv, Processes
    <2> QED BY <1>1, <2>1 DEF MidwayAt, Midway
  <1>2. ASSUME NEW r, StartLocked(p, r) PROVE MidwayAt(p)'
    <2>1. mem' = [mem EXCEPT ![p] = NoMem] /\ Start(p, "lock", r)
      BY <1>2, IdleFacts DEF StartLocked, Start
    <2> QED BY <1>1, <2>1, ExactValues
  <1>3. ASSUME NEW c \in Contexts, NEW label \in {"retain", "collect"}, NEW op \in {"retain", "collect"},
               Start(p, label, [NoReq EXCEPT !.op = op, !.ctx = c]),
               NEW m, mem' = [mem EXCEPT ![p] = m], m.manifest = NoManifest,
               label = "retain" => m.index = index[c],
               label = "collect" => Revs(m.index) \subseteq Revs(index[c])
        PROVE  MidwayAt(p)'
    <2> DEFINE r == [NoReq EXCEPT !.op = op, !.ctx = c, !.no = left]
               dir == [tree |-> tree[c], index |-> index[c], objects |-> objects[c]]
    <2>1. /\ pc'[p] = label /\ mem'[p] = m
          /\ req'[p] = [[NoReq EXCEPT !.op = op, !.ctx = c] EXCEPT !.no = left]
      BY <1>3 DEF Start, Goto, BaseInv, Processes
    <2>2. req'[p] = r
      BY <2>1 DEF NoReq
    <2>3. r.op = op /\ r.ctx = c
      BY DEF NoReq
    <2> HIDE DEF r
    <2>4. HomeOf(r) = c
      BY <2>3 DEF HomeOf
    <2>5. Midway(label, r, m, dir)
      BY <1>3, ExactValues DEF Midway
    <2>6. tree'[c] = tree[c] /\ index'[c] = index[c] /\ objects'[c] = objects[c]
      BY <1>0 DEF disk
    <2> QED BY <1>3, <2>1, <2>2, <2>4, <2>5, <2>6, OwnMidway
  <1> PICK c \in Contexts :
        \/ c \in States /\ \E v \in Versions : CaptureStart(p, c, v) \/ SessionStart(p, c, v)
        \/ PublishStart(p, c)
        \/ \E n \in Names : \/ \E b \in BOOLEAN : SnapshotStart(p, c, n, b)
                            \/ RestoreStart(p, c, n)
                            \/ c \in States /\ \E d \in States : CloneStart(p, c, n, d)
        \/ \E on \in BOOLEAN : AttachStart(p, c, on)
        \/ RetainStart(p, c)
        \/ \E n \in Newest(c) : CollectStart(p, c, n)
        \/ c \in States /\ \E d \in Knowledge : DeriveStart(p, c, d)
    BY DEF Request
  <1>4. CASE \E r : StartLocked(p, r)
    BY <1>0, <1>2, <1>4
  <1>5. ASSUME NEW n \in Names, NEW d \in States, CloneStart(p, c, n, d)
        PROVE  DiskExact' /\ MidwayAt(p)'
    <2>1. PICK s \in Items(c) : Recall(p, [NoMem EXCEPT !.selected = s.rev])
      BY <1>5 DEF CloneStart
    <2>2. ([NoMem EXCEPT !.selected = s.rev]).manifest = NoManifest
      BY DEF NoMem
    <2> QED BY <1>0, <1>1, <1>5, <2>1, <2>2, ExactValues DEF CloneStart, Recall
  <1>6. ASSUME NEW on \in BOOLEAN, AttachStart(p, c, on)
        PROVE  DiskExact' /\ MidwayAt(p)'
    <2>1. ([NoMem EXCEPT !.manifest = manifest[c]]).manifest = manifest[c]
      BY DEF NoMem
    <2> QED BY <1>0, <1>1, <1>6, <2>1, ExactFacts DEF AttachStart, Recall
  <1>7. CASE RetainStart(p, c)
    <2> DEFINE m == [NoMem EXCEPT !.index = index[c]]
    <2>1. m.manifest = NoManifest /\ m.index = index[c]
      BY DEF NoMem
    <2>2. mem' = [mem EXCEPT ![p] = m] /\ Start(p, "retain", [NoReq EXCEPT !.op = "retain", !.ctx = c])
      BY <1>7 DEF RetainStart, Recall
    <2> HIDE DEF m
    <2> QED BY <1>0, <1>3, <2>1, <2>2
  <1>8. ASSUME NEW n \in Newest(c), CollectStart(p, c, n)
        PROVE  DiskExact' /\ MidwayAt(p)'
    <2>1. PICK kept \in SUBSET (1..Len(index[c].items)) : CollectChosen(p, c, kept)
      BY <1>8 DEF CollectStart
    <2>2. PICK f \in InOrder(kept) :
            Recall(p, [NoMem EXCEPT !.spared = MustKeep(c), !.index =
              [index[c] EXCEPT !.items = [i \in DOMAIN f |-> index[c].items[f[i]]]]])
      BY <2>1 DEF CollectChosen
    <2> DEFINE x == [index[c] EXCEPT !.items = [i \in DOMAIN f |-> index[c].items[f[i]]]]
               m == [NoMem EXCEPT !.spared = MustKeep(c), !.index = x]
    <2>3. Revs(x) \subseteq Revs(index[c])
      <3>1. IndexOK(c, index[c])
        BY DirectoryFacts DEF BaseInv
      <3> QED BY <3>1, KeptOK
    <2>4. mem' = [mem EXCEPT ![p] = m]
          /\ Start(p, "collect", [NoReq EXCEPT !.op = "collect", !.ctx = c])
      BY <2>1, <2>2 DEF CollectChosen, Recall
    <2> HIDE DEF x
    <2>5. m.manifest = NoManifest /\ m.index = x
      BY DEF NoMem
    <2> HIDE DEF m
    <2> QED BY <1>0, <1>3, <2>3, <2>4, <2>5
  <1>9. ASSUME NEW d \in Knowledge, DeriveStart(p, c, d)
        PROVE  DiskExact' /\ MidwayAt(p)'
    <2>1. mem' = [mem EXCEPT ![p] = NoMem]
      BY <1>9, IdleFacts DEF DeriveStart, Start
    <2> QED BY <1>0, <1>1, <1>9, <2>1, ExactValues DEF DeriveStart
  <1> QED BY <1>4, <1>5, <1>6, <1>7, <1>8, <1>9
          DEF CaptureStart, SessionStart, PublishStart, SnapshotStart, RestoreStart

-----------------------------------------------------------------------------
(* The invariant and what it says.                                          *)

LEMMA InitExact == Init => ExactInv
  <1> SUFFICES ASSUME Init PROVE ExactInv
    OBVIOUS
  <1>1. Exclusion
    BY DEF Init, Exclusion, Holding
  <1>2. DiskExact
    <2> SUFFICES ASSUME NEW c \in Contexts PROVE DirectoryExact(Directory(c))
      BY DEF DiskExact
    <2>1. Whole(tree[c]) /\ ManifestExact(manifest[c]) /\ StoreExact(objects[c])
      BY ExactValues DEF Init
    <2>2. index[c].items = <<>>
      BY DEF Init, NoIndex
    <2>3. ListedIn(index[c], objects[c])
      BY <2>2 DEF ListedIn, Revs
    <2> QED BY <2>1, <2>3 DEF DirectoryExact, Directory
  <1>3. AllMidway /\ ClonesMade
    BY DEF Init, AllMidway, ClonesMade
  <1> QED BY <1>1, <1>2, <1>3 DEF ExactInv

LEMMA NextExact ==
  ASSUME Calm, BaseInv, ExactInv, [Next]_vars
  PROVE  ExactInv'
  <1>1. ASSUME NEW p \in Procs, Acts(p) PROVE ExactInv'
    <2>1. \A q \in Procs : MidwayAt(q)
      BY DEF ExactInv, AllMidway, ClonesMade, MidwayAt
    <2>2. Exclusion'
      BY <1>1, RequestExclusion, LockingExclusion, WorkingExclusion, DerivingExclusion DEF Acts,
         ExactInv
    <2>3. DiskExact' /\ MidwayAt(p)'
      BY <1>1, <2>1, RequestExact, LockingExact, CapturingExact, SnapshottingExact, RestoringExact,
         UnlockedExact, DerivingExact, FailingExact DEF Acts, ExactInv
    <2>4. ASSUME NEW q \in Procs PROVE MidwayAt(q)'
      BY <1>1, <2>1, <2>3, OthersMidway DEF ExactInv
    <2> QED BY <2>2, <2>3, <2>4 DEF ExactInv, AllMidway, ClonesMade, MidwayAt
  <1>2. ASSUME NEW c \in Contexts, LockAges(c) PROVE ExactInv'
    <2>1. Exclusion'
      BY <1>2, AgesExclusion DEF ExactInv
    <2>2. DiskExact'
      BY <1>2, SameExact DEF ExactInv, LockAges
    <2>3. AllMidway' /\ ClonesMade'
      BY <1>2 DEF LockAges, ExactInv, AllMidway, ClonesMade, Midway, Directory, Home, disk
    <2> QED BY <2>1, <2>2, <2>3 DEF ExactInv
  <1>3. CASE UNCHANGED vars
    BY <1>3 DEF vars, ExactInv, Exclusion, Holding, Home, DiskExact, AllMidway, ClonesMade, Midway,
       Directory
  <1> QED BY <1>1, <1>2, <1>3 DEF Next, Acts

\* Types, exclusion and exactness together are kept by every step, of any
\* number of processes.
THEOREM StoreInvariance ==
  ASSUME Calm
  PROVE  Spec => [](BaseInv /\ ExactInv)
  <1>1. Init => BaseInv /\ ExactInv
    BY InitBase, InitExact
  <1>2. BaseInv /\ ExactInv /\ [Next]_vars => BaseInv' /\ ExactInv'
    BY NextBase, NextExact
  <1> QED BY <1>1, <1>2, PTL DEF Spec

\* Two commands at work never rewrite the same file of a context, though the
\* lock is a directory that says nothing of its owner and is removed when it is
\* old: it is removed by one waiter, and only of a process that is gone.
THEOREM OneWriter ==
  ASSUME Calm
  PROVE  Spec => [](\A p, q \in Procs : p # q /\ Active(p) /\ Active(q)
                      => Rewrites(req[p]) \cap Rewrites(req[q]) = {})
  <1>1. BaseInv /\ ExactInv => \A p, q \in Procs : p # q /\ Active(p) /\ Active(q)
                                 => Rewrites(req[p]) \cap Rewrites(req[q]) = {}
    BY Alone DEF ExactInv
  <1> QED BY <1>1, StoreInvariance, PTL

\* Every snapshot the index lists has its object, which holds exactly the
\* revision and nothing half-written, and what a restore or a clone recorded as
\* made from a revision is that revision.
THEOREM SnapshotsAreExact ==
  ASSUME Calm
  PROVE  Spec => []SnapshotsExact
  <1>1. BaseInv /\ ExactInv => SnapshotsExact
    <2> SUFFICES ASSUME BaseInv, ExactInv PROVE SnapshotsExact
      OBVIOUS
    <2>1. ASSUME NEW c \in Contexts
          PROVE  StoreExact(objects[c]) /\ ListedIn(index[c], objects[c]) /\ ManifestExact(manifest[c])
      BY ExactFacts DEF ExactInv
    <2>2. ASSUME NEW c \in Contexts, NEW s \in Items(c)
          PROVE  /\ s.rev \in DOMAIN objects[c] /\ objects[c][s.rev].tree = s.rev
                 /\ Torn \notin {s.rev["project"], s.rev["file"]}
      <3>1. s.rev \in Revs(index[c])
        BY DEF Items, Revs
      <3> QED BY <2>1, <3>1 DEF StoreExact, ListedIn, Whole
    <2>3. ASSUME NEW c \in Contexts, NEW e \in Entries(manifest[c]), e.op \in {"restore", "clone"}
          PROVE  \A source \in e.sources : source[2] = e.id
      BY <2>1, <2>3 DEF Entries, ManifestExact, SourcesOK
    <2> QED BY <2>2, <2>3 DEF SnapshotsExact
  <1> QED BY <1>1, StoreInvariance, PTL

\* RestoreSnapshot never swaps out content that no snapshot of the context
\* holds, whatever captures wrote and died before, and whoever else is at work.
THEOREM RestoresKeepOld ==
  ASSUME Calm
  PROVE  Spec => RestoreKeepsOld
  <1>1. BaseInv /\ ExactInv /\ [Next]_vars =>
          [\A p \in Procs : pc[p] = "swap_out" /\ pc'[p] = "swap_in" =>
             \E s \in Items(req[p].ctx) : s.rev = tree[req[p].ctx]]_vars
    <2> SUFFICES ASSUME BaseInv, ExactInv, NEW p \in Procs, pc[p] = "swap_out"
                 PROVE  \E s \in Items(req[p].ctx) : s.rev = tree[req[p].ctx]
      OBVIOUS
    <2>1. req[p].op = "restore"
      BY WorkFacts, OpsTable DEF RestoreLabels
    <2>2. Home(p) = req[p].ctx
      BY <2>1, WorkFacts
    <2>3. tree[Home(p)] \in Revs(index[Home(p)])
      BY DEF ExactInv, AllMidway, Midway, Directory
    <2> QED BY <2>2, <2>3 DEF Revs, Items
  <1> QED BY <1>1, StoreInvariance, PTL DEF Spec, RestoreKeepsOld

-----------------------------------------------------------------------------
(* What is kept: no command takes back what another one wrote.              *)

Continues(g, h) == Len(h) <= Len(g) /\ \A i \in 1..Len(h) : g[i] = h[i]
Listed(x) == {x.items[i] : i \in 1..Len(x.items)}

\* A directory without a manifest has nothing, and objects are of contexts that
\* have one.
SoundFiles(m, x, store) ==
  /\ ~m.live => m.history = <<>> /\ x.items = <<>>
  /\ \A r \in DOMAIN store : store[r].manifest.live
Sound(dir) == SoundFiles(dir.manifest, dir.index, dir.objects)
DiskSound == \A c \in Contexts : SoundFiles(manifest[c], index[c], objects[c])

\* What a process is about to write back continues what is there, now.
WritingLabels ==
  CaptureLabels \cup SnapLabels \cup RestoreLabels \cup {"write", "rename", "record", "attach"}
Ahead(label, m, now) ==
  /\ label \in WritingLabels =>
       now.live /\ m.manifest.live /\ Continues(m.manifest.history, now.history)
  /\ label \in {"retain", "collect"} => now.live
  /\ label = "collect" => m.spared \subseteq Listed(m.index)
  /\ label = "displace" => m.manifest.history = now.history
  /\ label = "place" =>
       now = NoManifest /\ m.aside.manifest.history = m.manifest.history /\ Sound(m.aside)
AheadAt(p) ==
  /\ pc[p] # "idle" => Ahead(pc[p], mem[p], manifest[Home(p)])
  /\ pc[p] = "clone_record" => index[req[p].dest].items = <<>>
KeepInv == DiskSound /\ \A p \in Procs : AheadAt(p)

\* What a step leaves of a context, unless it is a clone or a derivation that
\* replaces the directory, or a collection.
Replaced(p, c) == pc[p] \in {"clone_record", "displace", "place"} /\ req[p].dest = c
ManifestKept(c) ==
  (manifest[c].live => manifest'[c].live) /\ Continues(manifest'[c].history, manifest[c].history)
IndexKept(p, c) ==
  \/ Listed(index[c]) \subseteq Listed(index'[c])
  \/ pc[p] = "collect" /\ Home(p) = c /\ mem[p].spared \subseteq Listed(index'[c])
Keeps(p) ==
  /\ DiskSound'
  /\ \A c \in Contexts : Replaced(p, c) \/ (ManifestKept(c) /\ IndexKept(p, c))

-----------------------------------------------------------------------------
LEMMA ContinuesFacts ==
  /\ \A h : Len(h) \in Nat => Continues(h, h)
  /\ \A f, g, h : /\ Len(f) \in Nat /\ Len(g) \in Nat /\ Len(h) \in Nat
                  /\ Continues(f, g) /\ Continues(g, h)
                  => Continues(f, h)
  BY DEF Continues

\* What is recorded is added to what there was.
LEMMA RecordedKeeps ==
  ASSUME NEW m \in Manifests, NEW t, NEW op, NEW sources
  PROVE  LET n == Recorded(m, t, op, sources)
         IN  n.live = m.live /\ Len(n.history) \in Nat /\ Continues(n.history, m.history)
  <1> DEFINE e == [id |-> t, op |-> op, sources |-> sources]
             n == Recorded(m, t, op, sources)
             h == m.history
  <1>1. h \in Seq(HistoryEntries) /\ Len(h) \in Nat
    BY DEF Manifests
  <1>2. CASE m.current = t /\ m.history # <<>>
    BY <1>1, <1>2, ContinuesFacts DEF Recorded
  <1>3. CASE ~(m.current = t /\ m.history # <<>>)
    <2>1. n = [m EXCEPT !.current = t, !.history = Append(h, e)]
      BY <1>3 DEF Recorded
    <2> HIDE DEF e
    <2>2. n.live = m.live /\ n.history = Append(h, e)
      BY <2>1 DEF Manifests
    <2>3. Len(Append(h, e)) = Len(h) + 1 /\ \A i \in 1..Len(h) : Append(h, e)[i] = h[i]
      <3>1. \A s \in Seq(HistoryEntries) :
              Len(Append(s, e)) = Len(s) + 1 /\ \A i \in 1..Len(s) : Append(s, e)[i] = s[i]
        OBVIOUS
      <3> QED BY <1>1, <3>1
    <2> QED BY <1>1, <2>2, <2>3 DEF Continues
  <1> QED BY <1>2, <1>3

\* Fields that are not of the history.
LEMMA ManifestParts ==
  ASSUME NEW m \in Manifests
  PROVE  /\ Len(m.history) \in Nat /\ Continues(m.history, m.history)
         /\ \A b : LET n == [m EXCEPT !.attached = b]
                   IN  n.live = m.live /\ n.history = m.history
         /\ LET n == [m EXCEPT !.live = TRUE, !.attached = FALSE]
            IN  n.live = TRUE /\ n.history = m.history
         /\ LET n == [m EXCEPT !.current = None]
            IN  n \in Manifests /\ n.live = m.live /\ n.history = m.history
  BY ContinuesFacts DEF Manifests

-----------------------------------------------------------------------------
\* A step that writes neither a manifest nor an index.
LEMMA SameKeeps ==
  ASSUME BaseInv, DiskSound, NEW p, UNCHANGED <<manifest, index, objects>>
  PROVE  Keeps(p)
  <1>1. DiskSound'
    BY DEF DiskSound
  <1>2. ASSUME NEW c \in Contexts PROVE ManifestKept(c) /\ IndexKept(p, c)
    <2>1. manifest[c] \in Manifests
      BY DEF BaseInv, DiskTables
    <2> QED BY <2>1, ManifestParts DEF ManifestKept, IndexKept
  <1> QED BY <1>1, <1>2 DEF Keeps

\* One that writes those of one context.
LEMMA WriteKeeps ==
  ASSUME BaseInv, DiskSound, NEW p, NEW c \in Contexts,
         NEW m, manifest' = [manifest EXCEPT ![c] = m],
         NEW x, index' = [index EXCEPT ![c] = x],
         NEW o, objects' = [objects EXCEPT ![c] = o],
         SoundFiles(m, x, o),
         \/ Replaced(p, c)
         \/ /\ manifest[c].live => m.live
            /\ Continues(m.history, manifest[c].history)
            /\ \/ Listed(index[c]) \subseteq Listed(x)
               \/ pc[p] = "collect" /\ Home(p) = c /\ mem[p].spared \subseteq Listed(x)
  PROVE  Keeps(p)
  <1>1. manifest'[c] = m /\ index'[c] = x /\ objects'[c] = o
    BY DEF BaseInv, DiskTables
  <1>2. \A d \in Contexts \ {c} :
          manifest'[d] = manifest[d] /\ index'[d] = index[d] /\ objects'[d] = objects[d]
    BY DEF BaseInv, DiskTables
  <1>3. ASSUME NEW d \in Contexts PROVE SoundFiles(manifest[d], index[d], objects[d])'
    <2>1. SoundFiles(manifest'[d], index'[d], objects'[d])
      BY <1>1, <1>2 DEF DiskSound
    <2> QED BY <2>1 DEF SoundFiles
  <1>4. Replaced(p, c) \/ (ManifestKept(c) /\ IndexKept(p, c))
    BY <1>1 DEF ManifestKept, IndexKept
  <1>5. ASSUME NEW d \in Contexts \ {c} PROVE ManifestKept(d) /\ IndexKept(p, d)
    <2>1. manifest[d] \in Manifests
      BY DEF BaseInv, DiskTables
    <2> QED BY <1>2, <2>1, ManifestParts DEF ManifestKept, IndexKept
  <1> QED BY <1>3, <1>4, <1>5 DEF Keeps, DiskSound

\* A process after its own step.
LEMMA OwnAhead ==
  ASSUME NEW p, NEW label, NEW r, NEW m, NEW now, pc'[p] = label, req'[p] = r, mem'[p] = m,
         manifest'[HomeOf(r)] = now, label # "clone_record", Ahead(label, m, now)
  PROVE  AheadAt(p)'
  <1>1. Home(p)' = HomeOf(r)
    BY DEF Home, HomeOf
  <1> QED BY <1>1 DEF AheadAt, Ahead

LEMMA ExitAhead ==
  ASSUME BaseInv, NEW p \in Procs, Exit(p)
  PROVE  AheadAt(p)'
  BY DEF Exit, Goto, AheadAt, BaseInv, Processes

\* A label at which nothing is about to be written.
QuietLabels == Labels \ (WritingLabels \cup {"retain", "collect", "displace", "place", "clone_record"})
LEMMA QuietAhead ==
  ASSUME NEW p, NEW label \in QuietLabels, pc'[p] = label
  PROVE  AheadAt(p)'
  BY DEF QuietLabels, AheadAt, Ahead

\* A step between two writings.
LEMMA StayAhead ==
  ASSUME BaseInv, NEW p \in Procs, AheadAt(p), pc[p] \in WritingLabels,
         NEW label \in WritingLabels \cup {"unlock"}, Goto(p, label), UNCHANGED <<manifest, req>>,
         mem'[p].manifest = mem[p].manifest
  PROVE  AheadAt(p)'
  <1>1. pc[p] # "idle" /\ label # "clone_record"
    BY DEF WritingLabels, CaptureLabels, SnapLabels, RestoreLabels
  <1>2. pc'[p] = label /\ req'[p] = req[p] /\ Home(p) = HomeOf(req[p])
    BY <1>1, WorkFacts DEF Goto, BaseInv, Processes
  <1>3. Ahead(pc[p], mem[p], manifest[Home(p)])
    BY <1>1 DEF AheadAt
  <1>4. Ahead(label, mem'[p], manifest[Home(p)])
    BY <1>3 DEF Ahead, WritingLabels, CaptureLabels, SnapLabels, RestoreLabels
  <1> QED BY <1>1, <1>2, <1>4, OwnAhead

-----------------------------------------------------------------------------
LEMMA LockingKeeps ==
  ASSUME BaseInv, DiskSound, NEW p \in Procs, Locking(p)
  PROVE  Keeps(p) /\ AheadAt(p)'
  <1>1. Keeps(p)
    BY LockingTouches, SameKeeps DEF disk
  <1>2. CASE Acquire(p)
    <2> DEFINE m == [mem[p] EXCEPT !.manifest = manifest[Home(p)]]
    <2>1. pc[p] = "lock" /\ pc[p] # "idle" /\ manifest[Home(p)].live
      BY <1>2 DEF Acquire
    <2>2. FirstStep(p) \in {"copy", "write", "record", "snap_index", "select"}
      <3>1. req[p].op \in LockedOps \cup {"derive"}
        BY <2>1, WorkFacts, OpsTable
      <3> QED BY <3>1 DEF FirstStep, LockedOps
    <2>3. m.manifest = manifest[Home(p)] /\ manifest[Home(p)] \in Manifests
      BY <2>1, WorkFacts, HomeFacts DEF Memories
    <2>4. pc'[p] = FirstStep(p) /\ req'[p] = req[p] /\ mem'[p] = m /\ Home(p) = HomeOf(req[p])
      BY <1>2, <2>1, WorkFacts DEF Acquire, Recall, Goto, BaseInv, Processes
    <2>5. manifest'[Home(p)] = manifest[Home(p)]
      BY <1>2 DEF Acquire, disk
    <2> HIDE DEF m
    <2>6. Ahead(FirstStep(p), m, manifest[Home(p)])
      BY <2>1, <2>2, <2>3, ManifestParts DEF Ahead
    <2> QED BY <1>1, <2>2, <2>4, <2>5, <2>6, OwnAhead
  <1>3. CASE SeeStale(p) \/ RemoveStale(p)
    <2>1. pc'[p] \in {"stale", "lock"}
      BY <1>3 DEF SeeStale, RemoveStale, Goto, BaseInv, Processes
    <2>2. {"stale", "lock"} \subseteq QuietLabels
      BY DEF QuietLabels, Labels, WritingLabels, CaptureLabels, SnapLabels, RestoreLabels
    <2> QED BY <1>1, <2>1, <2>2, QuietAhead
  <1>4. CASE TimeOut(p) \/ Unlock(p)
    BY <1>1, <1>4, ExitAhead DEF TimeOut, Unlock
  <1> QED BY <1>2, <1>3, <1>4 DEF Locking

\* A manifest is written back by who read it and added to it.
LEMMA BackKeeps ==
  ASSUME BaseInv, DiskSound, NEW p \in Procs, pc[p] # "idle", NEW m,
         manifest' = [manifest EXCEPT ![Home(p)] = m], UNCHANGED <<index, objects>>,
         m.live, Continues(m.history, manifest[Home(p)].history)
  PROVE  Keeps(p)
  <1> DEFINE c == Home(p)
  <1>1. c \in Contexts /\ index' = [index EXCEPT ![c] = index[c]]
        /\ objects' = [objects EXCEPT ![c] = objects[c]]
    BY WorkFacts, HomeFacts
  <1>2. SoundFiles(m, index[c], objects[c])
    BY <1>1 DEF DiskSound, SoundFiles
  <1> QED BY <1>1, <1>2, WriteKeeps

LEMMA CapturingKeeps ==
  ASSUME BaseInv, DiskSound, NEW p \in Procs, AheadAt(p), Capturing(p)
  PROVE  Keeps(p) /\ AheadAt(p)'
  <1>1. CASE Record(p)
    <2> DEFINE c == Home(p)
               sources == IF req[p].op = "derive" THEN {<<req[p].ctx, mem[p].selected>>} ELSE {}
               m == Recorded(mem[p].manifest, RevisionOf(c), req[p].op, sources)
    <2>1. pc[p] = "record" /\ pc[p] # "idle" /\ pc[p] \in WritingLabels
      BY <1>1 DEF Record, WritingLabels
    <2>2. /\ manifest[c] \in Manifests /\ mem[p].manifest \in Manifests
          /\ mem[p].manifest.live /\ Continues(mem[p].manifest.history, manifest[c].history)
      BY <2>1, WorkFacts, HomeFacts DEF AheadAt, Ahead, Memories
    <2>3. manifest' = [manifest EXCEPT ![c] = m] /\ UNCHANGED <<index, objects>>
      BY <1>1 DEF Record
    <2>4. m.live /\ Continues(m.history, manifest[c].history)
      <3> HIDE DEF sources
      <3> QED BY <2>2, RecordedKeeps, ContinuesFacts, ManifestParts
    <2> HIDE DEF m
    <2>5. Keeps(p)
      BY <2>1, <2>3, <2>4, BackKeeps
    <2>6. pc'[p] = "unlock" /\ "unlock" \in QuietLabels
      BY <1>1 DEF Record, Goto, BaseInv, Processes, QuietLabels, Labels, WritingLabels,
         CaptureLabels, SnapLabels, RestoreLabels
    <2> QED BY <2>5, <2>6, QuietAhead
  <1>2. CASE ~Record(p)
    <2>1. UNCHANGED <<manifest, index, objects, req, mem>> /\ pc[p] \in WritingLabels
      BY <1>2 DEF Capturing, Copy, Copied, MoveAside, Install, Sweep, Write, Rename, WritingLabels,
         CaptureLabels
    <2>2. \E label \in WritingLabels : Goto(p, label)
      BY <1>2 DEF Capturing, Copy, Copied, MoveAside, Install, Sweep, Write, Rename, WritingLabels,
         CaptureLabels
    <2> QED BY <2>1, <2>2, SameKeeps, StayAhead
  <1> QED BY <1>1, <1>2

LEMMA SnapshottingKeeps ==
  ASSUME BaseInv, DiskSound, NEW p \in Procs, AheadAt(p), MidwayAt(p), Snapshotting(p)
  PROVE  Keeps(p) /\ AheadAt(p)'
  <1> DEFINE c == Home(p)
  <1>0. /\ pc[p] # "idle" /\ pc[p] \in WritingLabels /\ pc[p] \in SnapLabels /\ c \in Contexts
        /\ manifest[c] \in Manifests /\ mem[p].manifest \in Manifests /\ mem[p] \in Memories
        /\ manifest[c].live /\ mem[p].manifest.live
        /\ Continues(mem[p].manifest.history, manifest[c].history)
        /\ SoundFiles(manifest[c], index[c], objects[c])
    <2>1. pc[p] # "idle" /\ pc[p] \in WritingLabels /\ pc[p] \in SnapLabels
      BY DEF Snapshotting, SnapIndex, SnapExport, SnapManifest, SnapList, WritingLabels, SnapLabels
    <2> QED BY <2>1, WorkFacts, HomeFacts DEF AheadAt, Ahead, Memories, DiskSound
  <1>1. CASE SnapIndex(p)
    <2> DEFINE operation == IF Safety(p) THEN "restore-safety" ELSE "snapshot"
               n == Recorded(mem[p].manifest, RevisionOf(c), operation, {})
               m == [mem[p] EXCEPT !.index = index[c], !.manifest = n]
    <2>1. Keeps(p)
      BY <1>1, SameKeeps DEF SnapIndex, disk
    <2>2. CASE Recall(p, m) /\ Goto(p, "snap_export")
      <3>1. n.live /\ Continues(n.history, manifest[c].history)
        BY <1>0, RecordedKeeps, ContinuesFacts, ManifestParts
      <3>2. m.manifest = n
        BY <1>0 DEF Memories
      <3>3. mem' = [mem EXCEPT ![p] = m] /\ UNCHANGED req /\ manifest'[c] = manifest[c]
        BY <1>1, <2>2 DEF SnapIndex, Recall, disk
      <3> HIDE DEF m, n
      <3>4. pc'[p] = "snap_export" /\ req'[p] = req[p] /\ mem'[p] = m /\ c = HomeOf(req[p])
        BY <1>0, <2>2, <3>3, WorkFacts DEF Goto, BaseInv, Processes
      <3>5. Ahead("snap_export", m, manifest[c])
        BY <1>0, <3>1, <3>2 DEF Ahead
      <3> QED BY <2>1, <3>3, <3>4, <3>5, OwnAhead
    <2>3. CASE Goto(p, "unlock") /\ UNCHANGED mem
      BY <1>0, <1>1, <2>1, <2>3, StayAhead DEF SnapIndex, disk
    <2> QED BY <1>1, <2>2, <2>3 DEF SnapIndex
  <1>2. CASE SnapExport(p)
    <2> DEFINE r == Revision(p)
               made == [tree |-> Here(p), manifest |-> mem[p].manifest]
               o == [y \in DOMAIN objects[c] \cup {r} |-> IF y = r THEN made ELSE objects[c][y]]
    <2>1. AheadAt(p)'
      <3>1. "snap_manifest" \in WritingLabels
        BY DEF WritingLabels, SnapLabels
      <3> QED BY <1>0, <1>2, <3>1, StayAhead DEF SnapExport
    <2>2. CASE r \in DOMAIN objects[c]
      BY <1>2, <2>1, <2>2, SameKeeps DEF SnapExport
    <2>3. CASE r \notin DOMAIN objects[c]
      <3>1. objects' = [objects EXCEPT ![c] = o]
        BY <1>0, <1>2, <2>3 DEF SnapExport, BaseInv, DiskTables
      <3>2. made.manifest = mem[p].manifest
        OBVIOUS
      <3> HIDE DEF made, r
      <3>3. SoundFiles(manifest[c], index[c], o)
        BY <1>0, <3>2 DEF SoundFiles
      <3> HIDE DEF o
      <3>4. manifest' = [manifest EXCEPT ![c] = manifest[c]] /\ index' = [index EXCEPT ![c] = index[c]]
        BY <1>0, <1>2, HomeFacts DEF SnapExport
      <3> QED BY <1>0, <2>1, <3>1, <3>3, <3>4, ManifestParts, WriteKeeps
    <2> QED BY <2>2, <2>3
  <1>3. CASE SnapManifest(p)
    <2>1. Keeps(p)
      BY <1>0, <1>3, BackKeeps DEF SnapManifest
    <2>2. pc'[p] = "snap_list" /\ req'[p] = req[p] /\ mem'[p] = mem[p] /\ c = HomeOf(req[p])
          /\ manifest'[c] = mem[p].manifest
      BY <1>0, <1>3, WorkFacts DEF SnapManifest, Goto, BaseInv, Processes, DiskTables
    <2>3. Ahead("snap_list", mem[p], mem[p].manifest)
      BY <1>0, ManifestParts DEF Ahead
    <2> QED BY <2>1, <2>2, <2>3, OwnAhead
  <1>4. CASE SnapList(p)
    <2> DEFINE item == [name |-> SnapshotName(p), rev |-> Revision(p),
                        protected |-> Safety(p) \/ req[p].flag]
               x == [mem[p].index EXCEPT !.items = Append(mem[p].index.items, item)]
    <2>1. mem[p].index = index[c] /\ index[c] \in Indexes
      BY <1>0, <1>4, HomeFacts DEF SnapList, MidwayAt, Midway, Directory
    <2>2. Listed(index[c]) \subseteq Listed(x)
      <3> HIDE DEF item
      <3>1. x.items = Append(index[c].items, item)
        BY <2>1 DEF Indexes
      <3>2. \A s \in Seq(SnapshotItems) :
              Len(Append(s, item)) = Len(s) + 1 /\ \A i \in 1..Len(s) : Append(s, item)[i] = s[i]
        OBVIOUS
      <3>3. index[c].items \in Seq(SnapshotItems) /\ Len(index[c].items) \in Nat
        BY <2>1 DEF Indexes
      <3> HIDE DEF x
      <3>4. \A i \in 1..Len(index[c].items) : i \in 1..Len(x.items) /\ x.items[i] = index[c].items[i]
        BY <3>1, <3>2, <3>3
      <3> QED BY <3>4 DEF Listed
    <2>3. index' = [index EXCEPT ![c] = x]
      BY <1>4 DEF SnapList
    <2> HIDE DEF x
    <2>4. SoundFiles(manifest[c], x, objects[c])
      BY <1>0 DEF SoundFiles
    <2>5. manifest' = [manifest EXCEPT ![c] = manifest[c]]
          /\ objects' = [objects EXCEPT ![c] = objects[c]]
      BY <1>0, <1>4, HomeFacts DEF SnapList
    <2>6. Keeps(p)
      BY <1>0, <2>2, <2>3, <2>4, <2>5, ManifestParts, WriteKeeps
    <2>7. \E label \in WritingLabels \cup {"unlock"} : Goto(p, label)
      BY <1>4 DEF SnapList, WritingLabels, RestoreLabels
    <2> QED BY <1>0, <1>4, <2>6, <2>7, StayAhead DEF SnapList
  <1> QED BY <1>1, <1>2, <1>3, <1>4 DEF Snapshotting

LEMMA RestoringKeeps ==
  ASSUME BaseInv, DiskSound, NEW p \in Procs, AheadAt(p), Restoring(p)
  PROVE  Keeps(p) /\ AheadAt(p)'
  <1>0. /\ pc[p] # "idle" /\ pc[p] \in WritingLabels /\ mem[p] \in Memories
        /\ {"stage", "snap_index", "swap_out", "swap_in", "restored"} \subseteq WritingLabels
    <2>1. pc[p] # "idle" /\ pc[p] \in WritingLabels
      BY DEF Restoring, Select, Stage, SwapOut, SwapIn, Restored, WritingLabels, RestoreLabels
    <2> QED BY <2>1, WorkFacts DEF WritingLabels, SnapLabels, RestoreLabels
  <1>1. CASE Restored(p)
    <2> DEFINE c == Home(p)
               old == [mem[p].manifest EXCEPT !.current = None]
               sources == {<<c, mem[p].selected>>}
               m == Recorded(old, RevisionOf(c), "restore", sources)
    <2>1. /\ manifest[c] \in Manifests /\ mem[p].manifest \in Manifests
          /\ mem[p].manifest.live /\ Continues(mem[p].manifest.history, manifest[c].history)
      BY <1>0, HomeFacts DEF AheadAt, Ahead, Memories
    <2>2. old \in Manifests /\ old.live /\ Continues(old.history, manifest[c].history)
      BY <2>1, ManifestParts
    <2>3. m.live /\ Continues(m.history, manifest[c].history)
      <3> HIDE DEF old, sources
      <3> QED BY <2>1, <2>2, RecordedKeeps, ContinuesFacts, ManifestParts
    <2>4. manifest' = [manifest EXCEPT ![c] = m] /\ UNCHANGED <<index, objects>>
      BY <1>1 DEF Restored
    <2> HIDE DEF m
    <2>5. Keeps(p)
      BY <1>0, <2>3, <2>4, BackKeeps
    <2>6. pc'[p] = "unlock" /\ "unlock" \in QuietLabels
      BY <1>1 DEF Restored, Goto, BaseInv, Processes, QuietLabels, Labels, WritingLabels,
         CaptureLabels, SnapLabels, RestoreLabels
    <2> QED BY <2>5, <2>6, QuietAhead
  <1>2. CASE Select(p) \/ Stage(p) \/ SwapOut(p) \/ SwapIn(p)
    <2>1. UNCHANGED <<manifest, index, objects, req>>
      BY <1>2 DEF Select, Stage, SwapOut, SwapIn, disk
    <2>2. mem'[p].manifest = mem[p].manifest
      <3>1. \A s : /\ ([mem[p] EXCEPT !.selected = s]).manifest = mem[p].manifest
                  /\ ([mem[p] EXCEPT !.staged = s]).manifest = mem[p].manifest
                  /\ ([mem[p] EXCEPT !.aside.tree = s]).manifest = mem[p].manifest
        BY <1>0 DEF Memories
      <3>2. mem' = mem \/ \E m : mem' = [mem EXCEPT ![p] = m] /\ m.manifest = mem[p].manifest
        BY <1>2, <3>1 DEF Select, Stage, SwapOut, SwapIn, Recall
      <3> QED BY <3>2 DEF BaseInv, Processes
    <2>3. \E label \in WritingLabels \cup {"unlock"} : Goto(p, label)
      BY <1>0, <1>2 DEF Select, Stage, SwapOut, SwapIn
    <2> QED BY <1>0, <2>1, <2>2, <2>3, SameKeeps, StayAhead
  <1> QED BY <1>1, <1>2 DEF Restoring

\* A directory that was just made.
LEMMA SoundValues ==
  /\ Sound(NoDir) /\ DOMAIN NoObjects = {} /\ NoDir.manifest = NoManifest
  /\ NoDir.index = NoIndex /\ NoDir.objects = NoObjects
  BY DEF Sound, SoundFiles, NoDir, NoManifest, NoIndex, NoObjects

\* A directory that is replaced.
LEMMA InstallKeeps ==
  ASSUME BaseInv, DiskSound, NEW p, NEW c \in Contexts, NEW dir, Sound(dir), InstallDirectory(c, dir),
         Replaced(p, c)
  PROVE  Keeps(p)
  BY WriteKeeps DEF InstallDirectory, Sound

LEMMA UnlockedKeeps ==
  ASSUME BaseInv, DiskSound, NEW p \in Procs, AheadAt(p), MidwayAt(p), Unlocked(p)
  PROVE  Keeps(p) /\ AheadAt(p)'
  <1> DEFINE c == Home(p)
  <1>0. /\ pc[p] # "idle" /\ c \in Contexts /\ mem[p] \in Memories /\ mem[p].manifest \in Manifests
        /\ manifest[c] \in Manifests /\ Ahead(pc[p], mem[p], manifest[c])
        /\ SoundFiles(manifest[c], index[c], objects[c])
        /\ manifest = [manifest EXCEPT ![c] = manifest[c]] /\ index = [index EXCEPT ![c] = index[c]]
        /\ objects = [objects EXCEPT ![c] = objects[c]]
    <2>1. pc[p] # "idle"
      BY DEF Unlocked, CloneImport, CloneRecord, Attach, Collect, Prune, SetRetention
    <2>2. c \in Contexts /\ mem[p] \in Memories
      BY <2>1, WorkFacts
    <2>3. mem[p].manifest \in Manifests /\ manifest[c] \in Manifests
      BY <2>1, <2>2, HomeFacts DEF Memories
    <2>4. Ahead(pc[p], mem[p], manifest[c])
      BY <2>1 DEF AheadAt
    <2>5. SoundFiles(manifest[c], index[c], objects[c])
      BY <2>2 DEF DiskSound
    <2> QED BY <2>1, <2>2, <2>3, <2>4, <2>5, DirectoryFacts DEF BaseInv
  <1>1. CASE CloneImport(p)
    <2> DEFINE d == req[p].dest
               r == mem[p].selected
               m == [objects[c][r].manifest EXCEPT !.attached = FALSE]
    <2>0. pc[p] = "clone_import" /\ UNCHANGED index /\ UNCHANGED objects
      BY <1>1, Zenon DEF CloneImport
    <2>1. pc[p] = "clone_import" /\ req[p].op = "clone" /\ d \in Contexts /\ c = req[p].ctx
      <3>1. pc[p] = "clone_import" /\ req[p].op = "clone"
        BY <1>0, <2>0, WorkFacts, OpsTable
      <3>2. RequestOK(pc[p], req[p]) /\ c = req[p].ctx
        BY <1>0, <3>1, WorkFacts DEF Home
      <3> QED BY <3>1, <3>2 DEF RequestOK, Contexts
    <2>2. ASSUME r \in DOMAIN objects[c], ~manifest[d].live, Goto(p, "clone_record"),
                 UNCHANGED <<req, mem>>, manifest' = [manifest EXCEPT ![d] = m]
          PROVE  Keeps(p) /\ AheadAt(p)'
      <3>1. objects[c][r].manifest \in Manifests /\ objects[c][r].manifest.live
        <4>1. StoreOK(c, objects[c])
          BY <1>0, HomeFacts
        <4> QED BY <1>0, <2>2, <4>1 DEF StoreOK, ManifestOK, EntriesOK, SoundFiles
      <3>2. m.live /\ Len(m.history) \in Nat
        BY <3>1, ManifestParts
      <3>3. manifest[d].history = <<>> /\ index[d].items = <<>>
        BY <2>1, <2>2 DEF DiskSound, SoundFiles
      <3> HIDE DEF m, d
      <3>4. Continues(m.history, manifest[d].history)
        BY <3>2, <3>3 DEF Continues
      <3>5. SoundFiles(m, index[d], objects[d])
        BY <2>1, <3>2 DEF DiskSound, SoundFiles
      <3>6. index' = [index EXCEPT ![d] = index[d]] /\ objects' = [objects EXCEPT ![d] = objects[d]]
        BY <2>0, <2>1, DirectoryFacts DEF BaseInv
      <3>7. Keeps(p)
        BY <2>1, <2>2, <3>2, <3>4, <3>5, <3>6, WriteKeeps
      <3>8. pc'[p] = "clone_record" /\ req'[p] = req[p] /\ index'[d] = index[d]
        BY <1>1, <2>2 DEF CloneImport, Goto, BaseInv, Processes
      <3>9. AheadAt(p)'
        BY <3>3, <3>8 DEF AheadAt, Ahead, WritingLabels, CaptureLabels, SnapLabels, RestoreLabels, d
      <3> QED BY <3>7, <3>9
    <2>3. CASE Exit(p) /\ UNCHANGED <<tree, manifest>>
      <3>1. UNCHANGED <<manifest, index, objects>>
        BY <2>0, <2>3
      <3> QED BY <2>3, <3>1, SameKeeps, ExitAhead
    <2> QED BY <1>1, <2>1, <2>2, <2>3 DEF CloneImport
  <1>2. CASE CloneRecord(p)
    <2> DEFINE d == req[p].dest
               sources == {<<req[p].ctx, mem[p].selected>>}
               m == Recorded(NewManifest, RevisionOf(d), "clone", sources)
    <2>1. pc[p] = "clone_record" /\ d \in Contexts
      BY <1>0, <1>2, WorkFacts, OpsTable DEF CloneRecord, RequestOK, Contexts
    <2>2. m.live
      <3>1. NewManifest \in Manifests /\ NewManifest.live
        BY ValueFacts DEF NewManifest, NoManifest
      <3> HIDE DEF sources
      <3> QED BY <3>1, RecordedKeeps
    <2>3. manifest' = [manifest EXCEPT ![d] = m]
      BY <1>2 DEF CloneRecord
    <2>4. Replaced(p, d)
      BY <2>1 DEF Replaced
    <2> HIDE DEF m, d
    <2>5. index' = [index EXCEPT ![d] = index[d]] /\ objects' = [objects EXCEPT ![d] = objects[d]]
      BY <1>2, <2>1, DirectoryFacts DEF CloneRecord, BaseInv
    <2>6. SoundFiles(m, index[d], objects[d])
      BY <2>1, <2>2 DEF DiskSound, SoundFiles
    <2>7. Keeps(p)
      BY <2>1, <2>3, <2>4, <2>5, <2>6, WriteKeeps
    <2> QED BY <1>2, <2>7, ExitAhead DEF CloneRecord
  <1>3. CASE Attach(p)
    <2> DEFINE m == [mem[p].manifest EXCEPT !.attached = req[p].flag]
    <2>1. mem[p].manifest.live /\ Continues(mem[p].manifest.history, manifest[c].history)
      BY <1>0, <1>3 DEF Attach, Ahead, WritingLabels
    <2>2. m.live /\ m.history = mem[p].manifest.history
      BY <1>0, <2>1, ManifestParts
    <2>3. manifest' = [manifest EXCEPT ![c] = m] /\ UNCHANGED <<index, objects>> /\ Exit(p)
      BY <1>3 DEF Attach
    <2> HIDE DEF m
    <2> QED BY <1>0, <2>1, <2>2, <2>3, BackKeeps, ExitAhead
  <1>4. CASE Collect(p)
    <2>1. pc[p] = "collect" /\ manifest[c].live /\ mem[p].spared \subseteq Listed(mem[p].index)
      BY <1>0, <1>4 DEF Collect, Ahead
    <2>2. SoundFiles(manifest[c], mem[p].index, objects[c])
      BY <1>0, <2>1 DEF SoundFiles
    <2>3. Keeps(p)
      BY <1>0, <1>4, <2>1, <2>2, ManifestParts, WriteKeeps DEF Collect
    <2>4. pc'[p] = "prune" /\ "prune" \in QuietLabels
      BY <1>4 DEF Collect, Goto, BaseInv, Processes, QuietLabels, Labels, WritingLabels,
         CaptureLabels, SnapLabels, RestoreLabels
    <2> QED BY <2>3, <2>4, QuietAhead
  <1>5. CASE Prune(p)
    <2> DEFINE o == Without(objects[c], Revs(mem[p].aside.index) \ Revs(mem[p].index))
    <2>1. SoundFiles(manifest[c], index[c], o)
      BY <1>0 DEF SoundFiles, Without
    <2>2. objects' = [objects EXCEPT ![c] = o]
      BY <1>0, <1>5 DEF Prune, BaseInv, DiskTables
    <2> HIDE DEF o
    <2>3. manifest' = [manifest EXCEPT ![c] = manifest[c]] /\ index' = [index EXCEPT ![c] = index[c]]
      BY <1>0, <1>5 DEF Prune
    <2>4. Continues(manifest[c].history, manifest[c].history)
      BY <1>0, ManifestParts
    <2>5. Keeps(p)
      BY <1>0, <2>1, <2>2, <2>3, <2>4, WriteKeeps
    <2> QED BY <1>5, <2>5, ExitAhead DEF Prune
  <1>6. ASSUME NEW k \in 0..1, NEW a \in 0..1, SetRetention(p, k, a)
        PROVE  Keeps(p) /\ AheadAt(p)'
    <2> DEFINE x == [mem[p].index EXCEPT !.keepLast = k, !.maxAge = a]
    <2>1. mem[p].index = index[c] /\ index[c] \in Indexes
      BY <1>0, <1>6, HomeFacts DEF SetRetention, MidwayAt, Midway, Directory
    <2>2. x.items = index[c].items
      BY <2>1 DEF Indexes
    <2>3. index' = [index EXCEPT ![c] = x]
      BY <1>6 DEF SetRetention
    <2> HIDE DEF x
    <2>4. SoundFiles(manifest[c], x, objects[c]) /\ Listed(index[c]) \subseteq Listed(x)
      BY <1>0, <2>2 DEF SoundFiles, Listed
    <2>5. Keeps(p)
      BY <1>0, <1>6, <2>3, <2>4, ManifestParts, WriteKeeps DEF SetRetention
    <2> QED BY <1>6, <2>5, ExitAhead DEF SetRetention
  <1> QED BY <1>1, <1>2, <1>3, <1>4, <1>5, <1>6 DEF Unlocked

LEMMA DerivingKeeps ==
  ASSUME BaseInv, DiskSound, NEW p \in Procs, AheadAt(p), Deriving(p)
  PROVE  Keeps(p) /\ AheadAt(p)'
  <1> DEFINE c == Home(p)
  <1>0. /\ pc[p] # "idle" /\ c \in Contexts /\ mem[p] \in Memories
        /\ manifest[c] \in Manifests /\ Ahead(pc[p], mem[p], manifest[c])
        /\ req[p].op = "derive" /\ req[p].dest = c /\ c = HomeOf(req[p])
    <2>1. pc[p] # "idle" /\ pc[p] \in {"source", "prior", "displace", "place"}
      BY DEF Deriving, Source, Prior, Displace, Place
    <2>2. req[p].op = "derive"
      BY <2>1, WorkFacts, OpsTable
    <2> QED BY <2>1, <2>2, WorkFacts, HomeFacts DEF AheadAt, Home
  <1>1. ASSUME Exit(p), UNCHANGED disk PROVE Keeps(p) /\ AheadAt(p)'
    BY <1>1, SameKeeps, ExitAhead DEF disk
  <1>2. CASE Source(p)
    <2>1. ASSUME Goto(p, "prior") PROVE Keeps(p) /\ AheadAt(p)'
      <3>1. pc'[p] = "prior" /\ "prior" \in QuietLabels
        BY <2>1 DEF Goto, BaseInv, Processes, QuietLabels, Labels, WritingLabels, CaptureLabels,
           SnapLabels, RestoreLabels
      <3> QED BY <1>2, <3>1, SameKeeps, QuietAhead DEF Source, disk
    <2> QED BY <1>1, <1>2, <2>1 DEF Source
  <1>3. CASE Prior(p)
    <2> DEFINE m == [mem[p] EXCEPT !.manifest = manifest[c], !.staged = Generated(p)]
    <2>1. ASSUME Recall(p, m), Goto(p, "displace"), UNCHANGED req PROVE Keeps(p) /\ AheadAt(p)'
      <3>1. m.manifest = manifest[c]
        BY <1>0 DEF Memories
      <3>2. mem' = [mem EXCEPT ![p] = m] /\ manifest'[c] = manifest[c]
        BY <1>3, <2>1 DEF Prior, Recall, disk
      <3> HIDE DEF m
      <3>3. Ahead("displace", m, manifest[c])
        BY <3>1 DEF Ahead, WritingLabels, CaptureLabels, SnapLabels, RestoreLabels
      <3>4. pc'[p] = "displace" /\ req'[p] = req[p] /\ mem'[p] = m
        BY <2>1, <3>2 DEF Goto, BaseInv, Processes
      <3> QED BY <1>0, <1>3, <3>2, <3>3, <3>4, SameKeeps, OwnAhead DEF Prior, disk
    <2> QED BY <1>1, <1>3, <2>1 DEF Prior
  <1>4. CASE Displace(p)
    <2> DEFINE m == [mem[p] EXCEPT !.aside = Directory(c)]
    <2>1. pc[p] = "displace" /\ Replaced(p, c) /\ mem[p].manifest.history = manifest[c].history
      BY <1>0, <1>4 DEF Displace, Replaced, Ahead
    <2>2. Keeps(p)
      BY <1>0, <1>4, <2>1, SoundValues, InstallKeeps DEF Displace
    <2>3. m.aside = Directory(c) /\ m.manifest = mem[p].manifest
      BY <1>0 DEF Memories
    <2>4. mem' = [mem EXCEPT ![p] = m]
      BY <1>4 DEF Displace, Recall
    <2> HIDE DEF m
    <2>5. Ahead("place", m, NoManifest)
      <3>1. Sound(Directory(c)) /\ Directory(c).manifest = manifest[c]
        BY <1>0 DEF DiskSound, Sound, Directory
      <3> QED BY <2>1, <2>3, <3>1
              DEF Ahead, WritingLabels, CaptureLabels, SnapLabels, RestoreLabels
    <2>6. manifest'[c] = NoManifest
      BY <1>0, <1>4, SoundValues DEF Displace, InstallDirectory, BaseInv, DiskTables
    <2>7. pc'[p] = "place" /\ req'[p] = req[p] /\ mem'[p] = m
      BY <1>4, <2>4 DEF Displace, Goto, BaseInv, Processes
    <2> QED BY <1>0, <2>2, <2>5, <2>6, <2>7, OwnAhead
  <1>5. CASE Place(p)
    <2> DEFINE m == [mem[p].manifest EXCEPT !.live = TRUE, !.attached = FALSE]
               dir == [NoDir EXCEPT !.tree = mem[p].staged, !.manifest = m]
    <2>1. Replaced(p, c)
      BY <1>0, <1>5 DEF Place, Replaced
    <2>2. m.live
      BY <1>0, ManifestParts DEF Memories
    <2>3. Sound(dir)
      <3> HIDE DEF m
      <3>1. dir.manifest = m /\ dir.index = NoIndex /\ dir.objects = NoObjects
        BY DEF NoDir
      <3> HIDE DEF dir
      <3> QED BY <2>2, <3>1, SoundValues DEF Sound, SoundFiles
    <2>4. InstallDirectory(c, dir)
      BY <1>5 DEF Place
    <2> HIDE DEF dir
    <2>5. Keeps(p)
      BY <1>0, <2>1, <2>3, <2>4, InstallKeeps
    <2>6. pc'[p] = "lock" /\ "lock" \in QuietLabels
      BY <1>5 DEF Place, Goto, BaseInv, Processes, QuietLabels, Labels, WritingLabels,
         CaptureLabels, SnapLabels, RestoreLabels
    <2> QED BY <2>5, <2>6, QuietAhead
  <1> QED BY <1>2, <1>3, <1>4, <1>5 DEF Deriving

LEMMA FailingKeeps ==
  ASSUME BaseInv, DiskSound, NEW p \in Procs, AheadAt(p), Failing(p)
  PROVE  Keeps(p) /\ AheadAt(p)'
  <1>1. pc[p] # "idle" /\ Exit(p)
    BY DEF Failing, CommandFails, CaptureFails, SwapFails, CloneFails, PlaceFails, Crash, Error
  <1>2. AheadAt(p)'
    BY <1>1, ExitAhead
  <1>3. CASE CommandFails(p) \/ Crash(p) \/ CaptureFails(p) \/ SwapFails(p)
    BY <1>2, <1>3, SameKeeps DEF CommandFails, Crash, CaptureFails, SwapFails, disk
  <1>4. CASE CloneFails(p)
    <2>1. req[p].dest \in Contexts /\ Replaced(p, req[p].dest)
      BY <1>1, <1>4, WorkFacts, OpsTable DEF CloneFails, RequestOK, Contexts, Replaced
    <2> QED BY <1>2, <1>4, <2>1, SoundValues, InstallKeeps DEF CloneFails
  <1>5. CASE PlaceFails(p)
    <2>1. pc[p] = "place" /\ Home(p) \in Contexts /\ Home(p) = req[p].dest
      BY <1>1, <1>5, WorkFacts, OpsTable DEF PlaceFails, Home
    <2>2. Sound(mem[p].aside) /\ Replaced(p, Home(p))
      BY <1>1, <2>1 DEF AheadAt, Ahead, Replaced
    <2> QED BY <1>2, <1>5, <2>1, <2>2, InstallKeeps DEF PlaceFails
  <1> QED BY <1>3, <1>4, <1>5 DEF Failing

\* The places of a collection are all used.
LEMMA InOrderOnto ==
  ASSUME NEW n \in Nat, NEW kept \in SUBSET (1..n), NEW f \in InOrder(kept)
  PROVE  \A i \in kept : \E j \in DOMAIN f : f[j] = i
  <1> DEFINE k == Cardinality(kept)
  <1>1. IsFiniteSet(kept) /\ k \in Nat
    <2>1. IsFiniteSet(1..n)
      BY FS_Interval
    <2>2. IsFiniteSet(kept)
      BY <2>1, FS_Subset
    <2> QED BY <2>2, FS_CardinalityType
  <1>2. f \in [1..k -> kept] /\ \A i, j \in 1..k : i < j => f[i] < f[j]
    BY DEF InOrder
  <1>3. Cardinality(1..k) = k
    BY <1>1, FS_Interval
  <1> HIDE DEF k
  <1>4. ASSUME NEW i \in 1..k, NEW j \in 1..k, i < j PROVE f[i] # f[j]
    <2>1. f[i] < f[j]
      BY <1>2, <1>4, Zenon
    <2>2. f[i] \in 1..n
      BY <1>2
    <2> QED BY <2>1, <2>2
  <1>5. f \in Injection(1..k, kept)
    <2>1. \A i, j \in 1..k : i = j \/ i < j \/ j < i
      BY <1>1
    <2> QED BY <1>2, <1>4, <2>1 DEF Injection, IsInjective
  <1>6. f \in Surjection(1..k, kept)
    BY <1>1, <1>3, <1>5, FS_Injection DEF k
  <1> QED BY <1>2, <1>6 DEF Surjection

\* What a collection had to keep is in the index it will write.
LEMMA SparedListed ==
  ASSUME BaseInv, NEW c \in Contexts, NEW kept \in SUBSET (1..Len(index[c].items)),
         \A i \in 1..Len(index[c].items) :
           index[c].items[i].protected \/ Referenced(c, index[c].items[i].rev) => i \in kept,
         NEW f \in InOrder(kept)
  PROVE  MustKeep(c) \subseteq
           Listed([index[c] EXCEPT !.items = [i \in DOMAIN f |-> index[c].items[f[i]]]])
  <1> DEFINE s == [i \in DOMAIN f |-> index[c].items[f[i]]]
             x == [index[c] EXCEPT !.items = s]
  <1>1. IndexOK(c, index[c]) /\ index[c] \in Indexes /\ Len(index[c].items) \in Nat
    BY DirectoryFacts DEF BaseInv, Indexes
  <1>2. x.items = s /\ x \in Indexes
    <2>1. x \in Indexes
      BY <1>1, KeptOK
    <2> HIDE DEF s
    <2>2. x.items = s
      BY <1>1 DEF Indexes
    <2> QED BY <2>1, <2>2
  <1>3. s \in Seq(SnapshotItems)
    BY <1>2 DEF Indexes
  <1>4. DOMAIN f = 1..Len(s)
    BY <1>3
  <1>5. \A i \in kept : \E j \in DOMAIN f : f[j] = i
    BY <1>1, InOrderOnto
  <1>6. ASSUME NEW i \in kept PROVE index[c].items[i] \in Listed(x)
    <2>1. PICK j \in DOMAIN f : f[j] = i
      BY <1>5
    <2>2. s[j] = index[c].items[i]
      BY <2>1
    <2> HIDE DEF s
    <2>3. s[j] \in {x.items[h] : h \in 1..Len(x.items)}
      BY <1>2, <1>4
    <2> QED BY <2>2, <2>3 DEF Listed
  <1> HIDE DEF x
  <1>7. ASSUME NEW t \in MustKeep(c) PROVE t \in Listed(x)
    <2>1. PICK i \in 1..Len(index[c].items) : t = index[c].items[i]
      BY DEF MustKeep, Items
    <2>2. i \in kept
      BY <2>1 DEF MustKeep
    <2> QED BY <1>6, <2>1, <2>2
  <1> QED BY <1>7 DEF x

\* A command starts with what it has just read.
LEMMA RequestKeeps ==
  ASSUME BaseInv, DiskSound, NEW p \in Procs, Request(p)
  PROVE  Keeps(p) /\ AheadAt(p)'
  <1>0. Keeps(p) /\ UNCHANGED manifest
    BY RequestTouches, SameKeeps DEF disk
  <1>1. ASSUME NEW label \in {"lock", "source", "clone_import"}, NEW r, Start(p, label, r)
        PROVE  AheadAt(p)'
    <2>1. pc'[p] = label
      BY <1>1 DEF Start, Goto, BaseInv, Processes
    <2>2. label \in QuietLabels
      BY DEF QuietLabels, Labels, WritingLabels, CaptureLabels, SnapLabels, RestoreLabels
    <2> QED BY <2>1, <2>2, QuietAhead
  <1>2. ASSUME NEW c \in Contexts, NEW op \in {"attach", "retain", "collect"},
               NEW r \in RequestRecords, r.op = op, r.ctx = c, Start(p, op, r),
               NEW m, mem' = [mem EXCEPT ![p] = m], manifest[c].live,
               op = "attach" => m.manifest = manifest[c],
               op = "collect" => m.spared \subseteq Listed(m.index)
        PROVE  AheadAt(p)'
    <2>1. pc'[p] = op /\ req'[p] = [r EXCEPT !.no = left] /\ mem'[p] = m
      BY <1>2 DEF Start, Goto, BaseInv, Processes
    <2>2. [r EXCEPT !.no = left].op = op /\ [r EXCEPT !.no = left].ctx = c
      BY <1>2 DEF RequestRecords
    <2>3. HomeOf(req'[p]) = c
      BY <2>1, <2>2 DEF HomeOf
    <2>5. manifest[c] \in Manifests
      BY DEF BaseInv, DiskTables
    <2>6. Ahead(op, m, manifest[c])
      BY <1>2, <2>5, ManifestParts DEF Ahead, WritingLabels, CaptureLabels, SnapLabels,
         RestoreLabels
    <2>7. manifest'[c] = manifest[c] /\ op # "clone_record"
      BY <1>0
    <2> QED BY <2>1, <2>3, <2>6, <2>7, OwnAhead
  <1> PICK c \in Contexts :
        \/ c \in States /\ \E v \in Versions : CaptureStart(p, c, v) \/ SessionStart(p, c, v)
        \/ PublishStart(p, c)
        \/ \E n \in Names : \/ \E b \in BOOLEAN : SnapshotStart(p, c, n, b)
                            \/ RestoreStart(p, c, n)
                            \/ c \in States /\ \E d \in States : CloneStart(p, c, n, d)
        \/ \E on \in BOOLEAN : AttachStart(p, c, on)
        \/ RetainStart(p, c)
        \/ \E n \in Newest(c) : CollectStart(p, c, n)
        \/ c \in States /\ \E d \in Knowledge : DeriveStart(p, c, d)
    BY DEF Request
  <1>3. CASE \E r : StartLocked(p, r)
    BY <1>0, <1>1, <1>3 DEF StartLocked
  <1>4. ASSUME NEW n \in Names, NEW d \in States, CloneStart(p, c, n, d)
        PROVE  Keeps(p) /\ AheadAt(p)'
    <2>1. \E r : Start(p, "clone_import", r)
      BY <1>4, Zenon DEF CloneStart
    <2> QED BY <1>0, <1>1, <2>1
  <1>5. ASSUME NEW on \in BOOLEAN, AttachStart(p, c, on)
        PROVE  Keeps(p) /\ AheadAt(p)'
    <2> DEFINE m == [NoMem EXCEPT !.manifest = manifest[c]]
    <2>1. m.manifest = manifest[c]
      BY DEF NoMem
    <2> DEFINE r == [NoReq EXCEPT !.op = "attach", !.ctx = c, !.flag = on]
    <2>2. r \in RequestRecords /\ r.op = "attach" /\ r.ctx = c
      BY DEF RequestRecords, NoReq, UnlockedOps
    <2>3. mem' = [mem EXCEPT ![p] = m] /\ manifest[c].live /\ Start(p, "attach", r)
      BY <1>5, Zenon DEF AttachStart, Recall
    <2> HIDE DEF m, r
    <2> QED BY <1>0, <1>2, <2>1, <2>2, <2>3
  <1>6. CASE RetainStart(p, c)
    <2> DEFINE m == [NoMem EXCEPT !.index = index[c]]
               r == [NoReq EXCEPT !.op = "retain", !.ctx = c]
    <2>1. r \in RequestRecords /\ r.op = "retain" /\ r.ctx = c
      BY DEF RequestRecords, NoReq, UnlockedOps
    <2>2. mem' = [mem EXCEPT ![p] = m] /\ manifest[c].live /\ Start(p, "retain", r)
      BY <1>6 DEF RetainStart, Recall
    <2> HIDE DEF m, r
    <2> QED BY <1>0, <1>2, <2>1, <2>2
  <1>7. ASSUME NEW n \in Newest(c), CollectStart(p, c, n)
        PROVE  Keeps(p) /\ AheadAt(p)'
    <2> DEFINE kept == {i \in 1..Len(index[c].items) :
                          \/ index[c].items[i].protected
                          \/ Recent(c, n, i)
                          \/ Referenced(c, index[c].items[i].rev)}
    <2>1. CollectChosen(p, c, kept)
      BY <1>7 DEF CollectStart
    <2>2. kept \in SUBSET (1..Len(index[c].items))
          /\ \A i \in 1..Len(index[c].items) :
               index[c].items[i].protected \/ Referenced(c, index[c].items[i].rev) => i \in kept
      OBVIOUS
    <2> HIDE DEF kept
    <2>3. PICK f \in InOrder(kept) :
            Recall(p, [NoMem EXCEPT !.spared = MustKeep(c), !.index =
              [index[c] EXCEPT !.items = [i \in DOMAIN f |-> index[c].items[f[i]]]]])
      BY <2>1, Zenon DEF CollectChosen
    <2> DEFINE x == [index[c] EXCEPT !.items = [i \in DOMAIN f |-> index[c].items[f[i]]]]
               m == [NoMem EXCEPT !.spared = MustKeep(c), !.index = x]
    <2>4. MustKeep(c) \subseteq Listed(x)
      BY <2>2, SparedListed
    <2> DEFINE r == [NoReq EXCEPT !.op = "collect", !.ctx = c]
    <2>5. r \in RequestRecords /\ r.op = "collect" /\ r.ctx = c
      BY DEF RequestRecords, NoReq, UnlockedOps
    <2>6. mem' = [mem EXCEPT ![p] = m] /\ manifest[c].live /\ Start(p, "collect", r)
      BY <2>1, <2>3 DEF CollectChosen, Recall
    <2> HIDE DEF x, r
    <2>7. m.spared = MustKeep(c) /\ m.index = x
      BY DEF NoMem
    <2> HIDE DEF m
    <2> QED BY <1>0, <1>2, <2>4, <2>5, <2>6, <2>7
  <1>8. ASSUME NEW d \in Knowledge, DeriveStart(p, c, d)
        PROVE  Keeps(p) /\ AheadAt(p)'
    <2>1. \E r : Start(p, "source", r)
      BY <1>8, Zenon DEF DeriveStart
    <2> QED BY <1>0, <1>1, <2>1
  <1> QED BY <1>3, <1>4, <1>5, <1>6, <1>7, <1>8
          DEF CaptureStart, SessionStart, PublishStart, SnapshotStart, RestoreStart

\* Who replaces a directory is alone with its manifest and its index.
LEMMA ReplacedAlone ==
  ASSUME BaseInv, NEW p \in Procs, NEW c \in Contexts, Replaced(p, c)
  PROVE  Active(p) /\ {<<c, "manifest">>, <<c, "index">>} \subseteq Rewrites(req[p])
  <1>1. Active(p) /\ pc[p] # "idle"
    BY DEF Replaced, Active
  <1>2. req[p].op \in {"clone", "derive"} /\ req[p].dest = c
    BY <1>1, WorkFacts, OpsTable DEF Replaced
  <1> QED BY <1>1, <1>2 DEF Rewrites

LEMMA OthersAhead ==
  ASSUME BaseInv, Exclusion, NEW p \in Procs, Acts(p), Keeps(p), NEW q \in Procs, p # q, AheadAt(q)
  PROVE  AheadAt(q)'
  <1> DEFINE c == Home(q)
  <1>1. pc'[q] = pc[q] /\ req'[q] = req[q] /\ mem'[q] = mem[q]
    BY ActsTouch DEF Others
  <1>2. CASE pc[q] = "idle"
    BY <1>1, <1>2 DEF AheadAt
  <1>3. CASE pc[q] \in QuietLabels
    BY <1>1, <1>3, QuietAhead
  <1>4. ASSUME pc[q] # "idle"
        PROVE  c = HomeOf(req[q]) /\ c \in Contexts /\ Ahead(pc[q], mem[q], manifest[c])
    BY <1>4, WorkFacts DEF AheadAt
  <1>5. CASE pc[q] \in WritingLabels \cup {"displace", "place"}
    <2>1. pc[q] # "idle" /\ pc[q] # "clone_record" /\ Active(q)
      BY <1>5 DEF WritingLabels, CaptureLabels, SnapLabels, RestoreLabels, Active
    <2>2. req[q].op \in LockedOps \cup {"attach", "derive"}
      BY <1>5, <2>1, WorkFacts, OpsTable
         DEF WritingLabels, CaptureLabels, SnapLabels, RestoreLabels, LockedOps
    <2>3. <<c, "manifest">> \in Rewrites(req[q])
      BY <2>2 DEF Rewrites, Home, LockedOps
    <2>4. manifest'[c] = manifest[c]
      BY <1>4, <2>1, <2>3, Unaffected
    <2> QED BY <1>1, <1>4, <2>1, <2>4, OwnAhead
  <1>6. CASE pc[q] \in {"retain", "collect"}
    <2>1. pc[q] # "idle" /\ Active(q) /\ pc[q] # "clone_record" /\ pc[q] \notin WritingLabels
      BY <1>6 DEF WritingLabels, CaptureLabels, SnapLabels, RestoreLabels, Active
    <2>2. req[q].op \in {"retain", "collect"}
      BY <1>6, <2>1, WorkFacts, OpsTable
    <2>3. <<c, "index">> \in Rewrites(req[q])
      BY <2>2 DEF Rewrites, Home
    <2>4. ~Replaced(p, c)
      BY <1>4, <2>1, <2>3, ReplacedAlone, Alone
    <2>5. manifest'[c].live
      BY <1>4, <1>6, <2>1, <2>4 DEF Keeps, ManifestKept, Ahead
    <2>6. Ahead(pc[q], mem[q], manifest'[c])
      BY <1>4, <1>6, <2>1, <2>5 DEF Ahead
    <2> QED BY <1>1, <1>4, <2>1, <2>6, OwnAhead
  <1>7. CASE pc[q] = "clone_record"
    <2>1. pc[q] # "idle" /\ Active(q)
      BY <1>7 DEF Active
    <2>2. req[q].op = "clone" /\ req[q].dest \in Contexts
      BY <1>7, <2>1, WorkFacts, OpsTable DEF RequestOK, Contexts
    <2>3. <<req[q].dest, "index">> \in Rewrites(req[q])
      BY <2>2 DEF Rewrites
    <2>4. index'[req[q].dest] = index[req[q].dest]
      BY <2>1, <2>2, <2>3, Unaffected
    <2> QED BY <1>1, <1>7, <2>4
            DEF AheadAt, Ahead, WritingLabels, CaptureLabels, SnapLabels, RestoreLabels
  <1>8. pc[q] \in Labels
    BY DEF BaseInv, Processes
  <1> QED BY <1>2, <1>3, <1>5, <1>6, <1>7, <1>8 DEF QuietLabels

-----------------------------------------------------------------------------
LEMMA InitKeep == Init => KeepInv
  <1> SUFFICES ASSUME Init PROVE KeepInv
    OBVIOUS
  <1>1. ASSUME NEW c \in Contexts PROVE SoundFiles(manifest[c], index[c], objects[c])
    <2>1. index[c].items = <<>> /\ DOMAIN objects[c] = {}
      BY SoundValues DEF Init, NoIndex
    <2>2. manifest[c].history = <<>>
      BY DEF Init, NoManifest, NewManifest
    <2> QED BY <2>1, <2>2 DEF SoundFiles
  <1>2. ASSUME NEW p \in Procs PROVE AheadAt(p)
    BY DEF Init, AheadAt
  <1> QED BY <1>1, <1>2 DEF KeepInv, DiskSound

LEMMA ActKeeps ==
  ASSUME BaseInv, ExactInv, KeepInv, NEW p \in Procs, Acts(p)
  PROVE  Keeps(p) /\ AheadAt(p)'
  <1>1. DiskSound /\ AheadAt(p) /\ MidwayAt(p)
    BY DEF KeepInv, ExactInv, AllMidway, ClonesMade, MidwayAt
  <1> QED BY <1>1, RequestKeeps, LockingKeeps, CapturingKeeps, SnapshottingKeeps, RestoringKeeps,
             UnlockedKeeps, DerivingKeeps, FailingKeeps DEF Acts

LEMMA NextKeep ==
  ASSUME BaseInv, ExactInv, KeepInv, [Next]_vars
  PROVE  KeepInv'
  <1>1. ASSUME NEW p \in Procs, Acts(p) PROVE KeepInv'
    <2>1. Keeps(p) /\ AheadAt(p)'
      BY <1>1, ActKeeps
    <2>2. ASSUME NEW q \in Procs PROVE AheadAt(q)'
      BY <1>1, <2>1, OthersAhead DEF KeepInv, ExactInv
    <2> QED BY <2>1, <2>2 DEF KeepInv, Keeps
  <1>2. ASSUME UNCHANGED <<disk, pc, req, mem>> PROVE KeepInv'
    BY <1>2 DEF disk, KeepInv, DiskSound, AheadAt, Ahead, Home
  <1>3. ASSUME NEW c \in Contexts, LockAges(c) PROVE KeepInv'
    BY <1>2, <1>3 DEF LockAges
  <1>4. CASE UNCHANGED vars
    BY <1>2, <1>4 DEF vars, disk
  <1> QED BY <1>1, <1>3, <1>4 DEF Next, Acts

\* All of it together, kept by every step.
THEOREM KeptInvariance ==
  ASSUME Calm
  PROVE  Spec => [](BaseInv /\ ExactInv /\ KeepInv)
  <1>1. Init => KeepInv
    BY InitKeep
  <1>2. BaseInv /\ ExactInv /\ KeepInv /\ [Next]_vars => KeepInv'
    BY NextKeep
  <1> QED BY <1>1, <1>2, StoreInvariance, PTL DEF Spec

\* What must be kept stays listed, but for a collection that had looked before it
\* had to be kept: the commands that rewrite an index write back what they read,
\* and no other command has written in between.
THEOREM SnapshotsAreKept ==
  ASSUME Calm
  PROVE  Spec => SnapshotsKept
  <1>1. BaseInv /\ ExactInv /\ KeepInv /\ [Next]_vars =>
          [\A c \in Contexts : ~Regenerated(c) =>
             \A s \in MustKeep(c) \ Items(c)' :
               \E p \in Procs : pc[p] = "collect" /\ Home(p) = c /\ s \notin mem[p].spared]_vars
    <2> SUFFICES ASSUME BaseInv, ExactInv, KeepInv, Next, NEW c \in Contexts, ~Regenerated(c),
                        NEW s \in MustKeep(c), s \notin Items(c)'
                 PROVE  \E p \in Procs : pc[p] = "collect" /\ Home(p) = c /\ s \notin mem[p].spared
      OBVIOUS
    <2>1. s \in Items(c)
      BY DEF MustKeep
    <2>2. Items(c) = Listed(index[c]) /\ Items(c)' = Listed(index'[c])
      BY DEF Items, Listed
    <2>3. ASSUME NEW p \in Procs, Acts(p)
          PROVE  pc[p] = "collect" /\ Home(p) = c /\ s \notin mem[p].spared
      <3>1. Keeps(p)
        BY <2>3, ActKeeps
      <3>2. ~Replaced(p, c)
        <4>1. SUFFICES ASSUME Replaced(p, c) PROVE FALSE
          OBVIOUS
        <4>2. pc[p] # "idle" /\ req[p].dest = c
          BY <4>1 DEF Replaced
        <4>3. req[p].op # "derive"
          BY <4>2 DEF Regenerated
        <4>4. pc[p] = "clone_record"
          BY <4>1, <4>2, <4>3, WorkFacts, OpsTable DEF Replaced
        <4>5. index[c].items = <<>>
          BY <4>2, <4>4 DEF KeepInv, AheadAt
        <4> QED BY <2>1, <4>5 DEF Items
      <3>3. IndexKept(p, c)
        BY <3>1, <3>2 DEF Keeps
      <3> QED BY <2>1, <2>2, <3>3 DEF IndexKept
    <2>4. ASSUME NEW d \in Contexts, LockAges(d) PROVE FALSE
      <3>1. index' = index
        BY <2>4 DEF LockAges, disk
      <3> QED BY <2>1, <3>1 DEF Items
    <2> QED BY <2>3, <2>4 DEF Next, Acts
  <1> QED BY <1>1, KeptInvariance, PTL DEF Spec, SnapshotsKept

-----------------------------------------------------------------------------
(* The history of a context, in its directory or aside.                     *)

LEMMA ContinuesSub ==
  ASSUME NEW g \in Seq(HistoryEntries), NEW h \in Seq(HistoryEntries), Continues(g, h)
  PROVE  Len(h) <= Len(g) /\ SubSeq(g, 1, Len(h)) = h
  <1>1. Len(h) <= Len(g) /\ \A i \in 1..Len(h) : g[i] = h[i]
    BY DEF Continues
  <1>2. SubSeq(g, 1, Len(h)) \in Seq(HistoryEntries) /\ Len(SubSeq(g, 1, Len(h))) = Len(h)
        /\ \A i \in 1..Len(h) : SubSeq(g, 1, Len(h))[i] = g[i]
    BY <1>1, SubSeqProperties
  <1> QED BY <1>1, <1>2, SeqEqual

LEMMA SingleChoice == \A S, q : S = {q} => (CHOOSE x \in S : TRUE) = q
  OBVIOUS

\* A derivation between its renames is the only one there.
LEMMA PlacingAlone ==
  ASSUME BaseInv, Exclusion, NEW p \in Procs, NEW c \in Contexts, Replaced(p, c)
  PROVE  Placing(c) \subseteq {p}
  <1> SUFFICES ASSUME NEW q \in Placing(c), q # p PROVE FALSE
    OBVIOUS
  <1>1. q \in Procs /\ Replaced(q, c)
    BY DEF Placing, Replaced
  <1>2. <<c, "manifest">> \in Rewrites(req[p]) /\ <<c, "manifest">> \in Rewrites(req[q])
    BY <1>1, ReplacedAlone
  <1>3. Rewrites(req[p]) \cap Rewrites(req[q]) = {}
    BY <1>1, ReplacedAlone, Alone
  <1> QED BY <1>2, <1>3

LEMMA PastType ==
  ASSUME BaseInv, NEW c \in Contexts
  PROVE  Past(c) \in Seq(HistoryEntries)
  <1>1. CASE Placing(c) = {}
    BY <1>1 DEF Past, BaseInv, DiskTables, Manifests
  <1>2. CASE Placing(c) # {}
    <2> DEFINE q == CHOOSE p \in Placing(c) : TRUE
    <2>1. q \in Placing(c)
      BY <1>2
    <2>2. q \in Procs
      BY <2>1 DEF Placing
    <2>3. Past(c) = mem[q].aside.manifest.history
      BY <1>2 DEF Past
    <2> HIDE DEF q
    <2> QED BY <2>2, <2>3 DEF BaseInv, Processes, Memories, Directories, Manifests
  <1> QED BY <1>1, <1>2

\* Where a derivation stands between its renames.
LEMMA ToPlace ==
  ASSUME BaseInv, NEW p \in Procs, Acts(p), pc'[p] = "place"
  PROVE  Displace(p)
  <1>1. ~Request(p)
    <2> SUFFICES ASSUME Request(p) PROVE FALSE
      OBVIOUS
    <2>1. ASSUME NEW label \in {"lock", "clone_import", "attach", "retain", "collect", "source"},
                 NEW r, Start(p, label, r)
          PROVE  FALSE
      BY <2>1 DEF Start, Goto, BaseInv, Processes
    <2>2. ASSUME NEW r, StartLocked(p, r) PROVE FALSE
      BY <2>1, <2>2, Zenon DEF StartLocked
    <2>3. ASSUME NEW c, NEW n, NEW d, CloneStart(p, c, n, d) PROVE FALSE
      BY <2>1, <2>3, Zenon DEF CloneStart
    <2>4. ASSUME NEW c, NEW b, AttachStart(p, c, b) PROVE FALSE
      BY <2>1, <2>4, Zenon DEF AttachStart
    <2>5. ASSUME NEW c, RetainStart(p, c) PROVE FALSE
      BY <2>1, <2>5, Zenon DEF RetainStart
    <2>6. ASSUME NEW c, NEW n, CollectStart(p, c, n) PROVE FALSE
      BY <2>1, <2>6, Zenon DEF CollectStart, CollectChosen
    <2>7. ASSUME NEW c, NEW d, DeriveStart(p, c, d) PROVE FALSE
      BY <2>1, <2>7, Zenon DEF DeriveStart
    <2> QED BY <2>2, <2>3, <2>4, <2>5, <2>6, <2>7, Zenon DEF Request, CaptureStart,
               SessionStart, PublishStart, SnapshotStart, RestoreStart
  <1>2. ~Locking(p)
    <2> SUFFICES ASSUME Locking(p) PROVE FALSE
      OBVIOUS
    <2>1. CASE Acquire(p)
      <3>1. pc[p] = "lock" /\ pc'[p] = FirstStep(p)
        BY <2>1 DEF Acquire, Goto, BaseInv, Processes
      <3>2. req[p].op \in LockedOps \cup {"derive"}
        BY <3>1, WorkFacts, OpsTable
      <3> QED BY <3>1, <3>2 DEF FirstStep, LockedOps
    <2> QED BY <2>1 DEF Locking, SeeStale, RemoveStale, TimeOut, Unlock, Exit, Goto, BaseInv,
               Processes
  <1>3. ~Capturing(p) /\ ~Snapshotting(p) /\ ~Restoring(p)
    BY DEF Capturing, Copy, Copied, MoveAside, Install, Sweep, Write, Rename, Record, Snapshotting,
       SnapIndex, SnapExport, SnapManifest, SnapList, Restoring, Select, Stage, SwapOut, SwapIn,
       Restored, Goto, BaseInv, Processes
  <1>4. ~Unlocked(p) /\ ~Source(p) /\ ~Prior(p) /\ ~Place(p)
    BY DEF Unlocked, CloneImport, CloneRecord, Attach, Collect, Prune, SetRetention,
       Source, Prior, Place, Exit, Goto, BaseInv, Processes
  <1>5. ~Failing(p)
    BY DEF Failing, CommandFails, CaptureFails, SwapFails, CloneFails, PlaceFails, Crash, Error,
       Exit, Goto, BaseInv, Processes
  <1> QED BY <1>1, <1>2, <1>3, <1>4, <1>5 DEF Acts, Deriving

\* The steps of a derivation at its second rename.
LEMMA FromPlace ==
  ASSUME BaseInv, NEW p \in Procs, Acts(p), pc[p] = "place"
  PROVE  Place(p) \/ PlaceFails(p) \/ Crash(p)
  <1>1. ~Request(p)
    BY DEF Request, CaptureStart, SessionStart, PublishStart, SnapshotStart, RestoreStart,
       CloneStart, AttachStart, RetainStart, CollectStart, CollectChosen, DeriveStart,
       StartLocked, Start
  <1>2. ~Locking(p) /\ ~Unlocked(p)
    BY DEF Locking, Acquire, SeeStale, RemoveStale, TimeOut, Unlock, Unlocked, CloneImport,
       CloneRecord, Attach, Collect, Prune, SetRetention
  <1>3. ~Capturing(p) /\ ~Snapshotting(p) /\ ~Restoring(p)
    BY DEF Capturing, Copy, Copied, MoveAside, Install, Sweep, Write, Rename, Record, Snapshotting,
       SnapIndex, SnapExport, SnapManifest, SnapList, Restoring, Select, Stage, SwapOut, SwapIn,
       Restored
  <1>4. ~Source(p) /\ ~Prior(p) /\ ~Displace(p)
    BY DEF Source, Prior, Displace
  <1>5. ~CommandFails(p) /\ ~CaptureFails(p) /\ ~SwapFails(p) /\ ~CloneFails(p)
    BY DEF CommandFails, CaptureFails, SwapFails, CloneFails
  <1> QED BY <1>1, <1>2, <1>3, <1>4, <1>5 DEF Acts, Deriving, Failing

LEMMA FromDisplace ==
  ASSUME BaseInv, NEW p \in Procs, Acts(p), pc[p] = "displace"
  PROVE  Displace(p) \/ UNCHANGED disk
  <1>1. ~Unlocked(p)
    BY DEF Unlocked, CloneImport, CloneRecord, Attach, Collect, Prune, SetRetention
  <1>2. ~Capturing(p) /\ ~Snapshotting(p) /\ ~Restoring(p)
    BY DEF Capturing, Copy, Copied, MoveAside, Install, Sweep, Write, Rename, Record, Snapshotting,
       SnapIndex, SnapExport, SnapManifest, SnapList, Restoring, Select, Stage, SwapOut, SwapIn,
       Restored
  <1>3. Source(p) \/ Prior(p) \/ CommandFails(p) \/ Crash(p) => UNCHANGED disk
    BY DEF Source, Prior, CommandFails, Crash
  <1>4. ~Place(p) /\ ~CaptureFails(p) /\ ~SwapFails(p) /\ ~CloneFails(p) /\ ~PlaceFails(p)
    BY DEF Place, CaptureFails, SwapFails, CloneFails, PlaceFails
  <1> QED BY <1>1, <1>2, <1>3, <1>4, RequestTouches, LockingTouches DEF Acts, Deriving, Failing

\* One step, of the history of one context.
LEMMA PastStep ==
  ASSUME BaseInv, ExactInv, KeepInv, NEW p \in Procs, Acts(p), NEW c \in Contexts,
         ~(pc[p] = "clone_record" /\ req[p].dest = c),
         ~(p \in Placing(c) /\ pc'[p] = "idle" /\ crashes' # crashes)
  PROVE  Continues(Past(c)', Past(c))
  <1>1. /\ Len(Past(c)) \in Nat
        /\ \A h : h = Past(c) => Continues(h, Past(c))
    BY PastType, ContinuesFacts
  <1>2. ASSUME NEW q \in Procs, q # p PROVE q \in Placing(c)' <=> q \in Placing(c)
    BY <1>2, ActsTouch DEF Others, Placing
  <1>3. CASE ~Replaced(p, c)
    <2>1. p \notin Placing(c)
      BY <1>3 DEF Placing, Replaced
    <2>2. p \notin Placing(c)'
      <3>1. SUFFICES ASSUME pc'[p] = "place", req'[p].dest = c PROVE FALSE
        BY DEF Placing
      <3>2. Displace(p)
        BY <3>1, ToPlace
      <3>3. pc[p] = "displace" /\ req'[p] = req[p]
        BY <3>2 DEF Displace
      <3> QED BY <1>3, <3>1, <3>3 DEF Replaced
    <2>3. Placing(c)' = Placing(c)
      <3>1. Placing(c) \subseteq Procs /\ Placing(c)' \subseteq Procs
        BY DEF Placing
      <3> QED BY <1>2, <2>1, <2>2, <3>1
    <2>4. CASE Placing(c) = {}
      <3>1. Past(c) = manifest[c].history /\ Past(c)' = manifest'[c].history
        BY <2>3, <2>4 DEF Past
      <3>2. ManifestKept(c)
        BY <1>3, ActKeeps DEF Keeps
      <3> QED BY <3>1, <3>2 DEF ManifestKept
    <2>5. CASE Placing(c) # {}
      <3> DEFINE q == CHOOSE r \in Placing(c) : TRUE
      <3>1. q \in Placing(c) /\ q \in Procs /\ q # p
        <4>1. q \in Placing(c)
          BY <2>5
        <4> HIDE DEF q
        <4> QED BY <2>1, <4>1 DEF Placing
      <3>2. Past(c) = mem[q].aside.manifest.history /\ Past(c)' = mem'[q].aside.manifest.history
        BY <2>3, <2>5 DEF Past
      <3> HIDE DEF q
      <3>3. mem'[q] = mem[q]
        BY <3>1, ActsTouch DEF Others
      <3> QED BY <1>1, <3>2, <3>3
    <2> QED BY <2>4, <2>5
  <1>4. ASSUME Replaced(p, c)
        PROVE  /\ pc[p] \in {"displace", "place"} /\ pc[p] # "idle" /\ req[p].op = "derive"
               /\ Home(p) = c /\ Placing(c) \subseteq {p} /\ Placing(c)' \subseteq {p}
    <2>1. pc[p] \in {"displace", "place"} /\ pc[p] # "idle" /\ req[p].dest = c
      BY <1>4 DEF Replaced
    <2>2. req[p].op = "derive"
      BY <2>1, WorkFacts, OpsTable
    <2>3. Placing(c) \subseteq {p}
      BY <1>4, PlacingAlone DEF ExactInv
    <2>4. Placing(c)' \subseteq {p}
      <3>1. Placing(c)' \subseteq Procs
        BY DEF Placing
      <3> QED BY <1>2, <2>3, <3>1
    <2> QED BY <2>1, <2>2, <2>3, <2>4 DEF Home
  <1>5. CASE Replaced(p, c) /\ pc[p] = "displace"
    <2>1. Placing(c) = {}
      BY <1>4, <1>5 DEF Placing
    <2>2. Past(c) = manifest[c].history
      BY <2>1 DEF Past
    <2>3. CASE pc'[p] = "place"
      <3>1. mem' = [mem EXCEPT ![p] = [mem[p] EXCEPT !.aside = Directory(c)]]
            /\ manifest' = [manifest EXCEPT ![c] = NoDir.manifest] /\ req'[p] = req[p]
        BY <1>4, <1>5, <2>3, ToPlace DEF Displace, Recall, InstallDirectory
      <3>2. mem'[p].aside.manifest = manifest[c]
        BY <3>1 DEF BaseInv, Processes, Memories, Directory
      <3>3. manifest'[c] = NoManifest
        BY <3>1, SoundValues DEF BaseInv, DiskTables
      <3>4. CASE manifest[c].live
        <4>1. Placing(c)' = {p}
          BY <1>4, <1>5, <2>3, <3>1, <3>2, <3>4 DEF Placing, Replaced
        <4>2. Past(c)' = mem'[p].aside.manifest.history
          BY <4>1, SingleChoice DEF Past
        <4> QED BY <1>1, <2>2, <3>2, <4>2
      <3>5. CASE ~manifest[c].live
        <4>1. Placing(c)' = {}
          BY <1>4, <1>5, <3>2, <3>5 DEF Placing
        <4>2. Past(c)' = NoManifest.history
          BY <3>3, <4>1 DEF Past
        <4>3. Past(c) = <<>> /\ NoManifest.history = <<>>
          BY <2>2, <3>5 DEF KeepInv, DiskSound, SoundFiles, NoManifest
        <4> QED BY <1>1, <4>2, <4>3
      <3> QED BY <3>4, <3>5
    <2>4. CASE pc'[p] # "place"
      <3>1. Placing(c)' = {}
        BY <1>4, <1>5, <2>4 DEF Placing
      <3>2. Past(c)' = manifest'[c].history
        BY <3>1 DEF Past
      <3>3. manifest' = manifest
        <4>1. ~Displace(p)
          BY <2>4 DEF Displace, Goto, BaseInv, Processes
        <4> QED BY <1>5, <4>1, FromDisplace DEF disk
      <3> QED BY <1>1, <2>2, <3>2, <3>3
    <2> QED BY <2>3, <2>4
  <1>6. CASE Replaced(p, c) /\ pc[p] = "place"
    <2>1. /\ mem[p].aside.manifest.history = mem[p].manifest.history
          /\ manifest[c] = NoManifest /\ Sound(mem[p].aside)
      BY <1>4, <1>6 DEF KeepInv, AheadAt, Ahead
    <2>2. Past(c) = mem[p].aside.manifest.history
      <3>1. CASE mem[p].aside.manifest.live
        <4>1. Placing(c) = {p}
          BY <1>4, <1>6, <3>1 DEF Placing, Replaced
        <4> QED BY <4>1, SingleChoice DEF Past
      <3>2. CASE ~mem[p].aside.manifest.live
        <4>1. Placing(c) = {}
          BY <1>4, <1>6, <3>2 DEF Placing
        <4>2. Past(c) = NoManifest.history
          BY <2>1, <4>1 DEF Past
        <4> QED BY <2>1, <3>2, <4>2 DEF Sound, SoundFiles, NoManifest
      <3> QED BY <3>1, <3>2
    <2>3. Place(p) \/ PlaceFails(p) \/ Crash(p)
      BY <1>6, FromPlace
    <2>4. pc'[p] \in {"lock", "idle"}
      BY <2>3 DEF Place, PlaceFails, Crash, Error, Exit, Goto, BaseInv, Processes
    <2>5. Placing(c)' = {}
      BY <1>4, <1>6, <2>4 DEF Placing
    <2>6. Past(c)' = manifest'[c].history
      BY <2>5 DEF Past
    <2>7. CASE Place(p)
      <3> DEFINE m == [mem[p].manifest EXCEPT !.live = TRUE, !.attached = FALSE]
                 dir == [NoDir EXCEPT !.tree = mem[p].staged, !.manifest = m]
      <3>1. m.history = mem[p].manifest.history
        BY ManifestParts DEF BaseInv, Processes, Memories
      <3>2. InstallDirectory(c, dir)
        BY <1>4, <1>6, <2>7 DEF Place
      <3> HIDE DEF m
      <3>3. dir.manifest = m
        BY DEF NoDir
      <3> HIDE DEF dir
      <3>4. manifest'[c] = m
        BY <3>2, <3>3 DEF InstallDirectory, BaseInv, DiskTables
      <3> QED BY <1>1, <2>1, <2>2, <2>6, <3>1, <3>4
    <2>8. CASE PlaceFails(p)
      <3>1. manifest'[c] = mem[p].aside.manifest
        BY <1>4, <1>6, <2>8 DEF PlaceFails, InstallDirectory, BaseInv, DiskTables
      <3> QED BY <1>1, <2>2, <2>6, <3>1
    <2>9. CASE Crash(p)
      <3>1. pc'[p] = "idle" /\ manifest' = manifest /\ crashes' # crashes
        BY <2>9 DEF Crash, Exit, Goto, disk, BaseInv, Processes, Counters
      <3>2. Placing(c) = {}
        BY <1>4, <1>6, <3>1
      <3>3. Past(c) = manifest[c].history
        BY <3>2 DEF Past
      <3> QED BY <1>1, <2>6, <3>1, <3>3
    <2> QED BY <2>3, <2>7, <2>8, <2>9
  <1> QED BY <1>3, <1>4, <1>5, <1>6

\* No entry of a history is ever lost to another command, whatever is written
\* back when; a regeneration that is killed between its renames apart, after which
\* there is no context.
THEOREM HistoryIsKept ==
  ASSUME Calm
  PROVE  Spec => HistoryKept
  <1> DEFINE Typed == \A c \in Contexts : Past(c) \in Seq(HistoryEntries)
  <1>0. BaseInv => Typed
    BY PastType
  <1> HIDE DEF Typed
  <1>1. Typed /\ Typed' /\ BaseInv /\ ExactInv /\ KeepInv /\ [Next]_vars =>
          [\A c \in Contexts :
             \/ \E p \in Procs : pc[p] = "clone_record" /\ req[p].dest = c
             \/ \E p \in Placing(c) : pc'[p] = "idle" /\ crashes' # crashes
             \/ /\ Len(Past(c)) <= Len(Past(c)')
                /\ SubSeq(Past(c)', 1, Len(Past(c))) = Past(c)]_vars
    <2> SUFFICES ASSUME Typed, Typed', BaseInv, ExactInv, KeepInv, Next, NEW c \in Contexts,
                        ~\E p \in Procs : pc[p] = "clone_record" /\ req[p].dest = c,
                        ~\E p \in Placing(c) : pc'[p] = "idle" /\ crashes' # crashes
                 PROVE  /\ Len(Past(c)) <= Len(Past(c)')
                        /\ SubSeq(Past(c)', 1, Len(Past(c))) = Past(c)
      OBVIOUS
    <2>1. Continues(Past(c)', Past(c))
      <3>1. ASSUME NEW p \in Procs, Acts(p) PROVE Continues(Past(c)', Past(c))
        BY <3>1, PastStep
      <3>2. ASSUME NEW d \in Contexts, LockAges(d) PROVE Continues(Past(c)', Past(c))
        <4>1. Past(c)' = Past(c)
          BY <3>2 DEF LockAges, disk, Past, Placing
        <4>2. Len(Past(c)) \in Nat
          BY PastType
        <4> QED BY <4>1, <4>2, ContinuesFacts
      <3> QED BY <3>1, <3>2 DEF Next, Acts
    <2>2. Past(c) \in Seq(HistoryEntries) /\ Past(c)' \in Seq(HistoryEntries)
      BY DEF Typed
    <2> HIDE DEF Past
    <2> QED BY <2>1, <2>2, ContinuesSub
  <1> QED BY <1>0, <1>1, KeptInvariance, PTL DEF Spec, HistoryKept
=============================================================================
