---------------------------- MODULE ArtifactStore ----------------------------
(* An artifacts context of the local store (artifacts.go): contextctl       *)
(* processes publish files into it, which are kept under their checksum and *)
(* listed by name and version, and others retrieve them. The files belong   *)
(* to an agent, which may rewrite them at any time. The source context and  *)
(* its revision are the concern of LocalStore.                              *)
EXTENDS Integers, Sequences

CONSTANTS
  Publishers, Readers,
  Files,            \* names of artifacts, of the files published under them
  Contents,         \* contents of a file, which stand for their checksums
  None, Torn,       \* no file; one that is incomplete or mixed: neither is a content
  MaxPublications, MaxReads, MaxEdits, MaxFaults  \* bounds; faults: errors and kills

VARIABLES
  input,     \* file -> its content in the workspace
  objects,   \* checksum -> artifacts/objects/<checksum>
  items,     \* file -> its versions in the last whole artifacts/index.json, in order of creation
  torn,      \* index.json is cut off: being written in place, or never written to the end
  manifest,  \* manifest.json
  lock,      \* the capture lock: "free", "held", or "old" (over five minutes)
  pc, work,  \* publishers: next step, and what they know
  reader,    \* readers: next step, the version selected, the output
  spoiled,   \* history: checksums whose copy was killed, or whose file changed under it
  publications, reads, edits, faults

content == <<objects, items, torn>>
publishing == <<input, content, manifest, lock, pc, work, spoiled>>
bounds == <<publications, reads, edits, faults>>
artifactVars == <<publishing, reader, bounds>>

NoManifest == [live |-> FALSE, current |-> None, history |-> <<>>]
NoWork == [manifest |-> NoManifest, items |-> [f \in Files |-> <<>>], todo |-> {},
           file |-> None, version |-> None]
NoRead == [step |-> "idle", version |-> None, out |-> None]

Versions(list, f) == {list[f][i] : i \in 1..Len(list[f])}
Last(s) == s[Len(s)]

\* The digest of the portable content: the index and the objects.
Revision == content

Init ==
  /\ input \in [Files -> Contents \cup {None}]
  /\ objects = [c \in Contents |-> None] /\ items = [f \in Files |-> <<>>] /\ torn = FALSE
  /\ manifest = NoManifest /\ lock = "free"
  /\ pc = [p \in Publishers |-> "idle"] /\ work = [p \in Publishers |-> NoWork]
  /\ reader = [q \in Readers |-> NoRead]
  /\ spoiled = {}
  /\ publications = MaxPublications /\ reads = MaxReads /\ edits = MaxEdits /\ faults = MaxFaults

Goto(p, step) == pc' = [pc EXCEPT ![p] = step]
Know(p, w) == work' = [work EXCEPT ![p] = w]
Exit(p) == Goto(p, "idle") /\ Know(p, NoWork)

-----------------------------------------------------------------------------
(* PublishArtifacts. The manifest is read, or the context created, before   *)
(* the lock is taken; the index is read under it.                           *)
Start(p, files) ==
  /\ pc[p] = "idle" /\ publications > 0
  /\ files # {} /\ \A f \in files : input[f] # None
  /\ publications' = publications - 1
  /\ Know(p, [NoWork EXCEPT !.manifest = manifest, !.todo = files])
  /\ Goto(p, IF manifest.live THEN "lock" ELSE "create")
  /\ UNCHANGED <<input, content, manifest, lock, spoiled, reader, reads, edits, faults>>

\* Another process may have created it meanwhile.
Create(p) ==
  /\ pc[p] = "create"
  /\ \/ /\ ~manifest.live
        /\ manifest' = [NoManifest EXCEPT !.live = TRUE]
        /\ Know(p, [work[p] EXCEPT !.manifest = manifest'])
        /\ Goto(p, "lock")
     \/ manifest.live /\ Exit(p) /\ UNCHANGED manifest
  /\ UNCHANGED <<input, content, lock, spoiled, reader, bounds>>

\* Mutant: the lock is taken whether it is there or not.
AcquireAnyway(p) ==
  /\ pc[p] = "lock"
  /\ lock' = "held"
  /\ Goto(p, "index")
  /\ UNCHANGED <<input, content, manifest, work, spoiled, reader, bounds>>

\* A stale lock is taken over (LocalStore has the steps of that).
Acquire(p) ==
  /\ pc[p] = "lock" /\ lock # "held"
  /\ lock' = "held"
  /\ Goto(p, "index")
  /\ UNCHANGED <<input, content, manifest, work, spoiled, reader, bounds>>

TimeOut(p) ==
  /\ pc[p] = "lock" /\ lock = "held"
  /\ Exit(p)
  /\ UNCHANGED <<input, content, manifest, lock, spoiled, reader, bounds>>

\* Mutant: an index that does not parse is taken for an empty one.
ReadIndexAnyway(p) ==
  /\ pc[p] = "index"
  /\ Know(p, [work[p] EXCEPT !.items = IF torn THEN NoWork.items ELSE items])
  /\ Goto(p, "files")
  /\ UNCHANGED <<input, content, manifest, lock, spoiled, reader, bounds>>

ReadIndex(p) ==
  /\ pc[p] = "index" /\ ~torn
  /\ Know(p, [work[p] EXCEPT !.items = items])
  /\ Goto(p, "files")
  /\ UNCHANGED <<input, content, manifest, lock, spoiled, reader, bounds>>

\* No publication succeeds once the index is cut off: nothing repairs it.
RefuseIndex(p) ==
  /\ pc[p] = "index" /\ torn
  /\ lock' = "free"
  /\ Exit(p)
  /\ UNCHANGED <<input, content, manifest, spoiled, reader, bounds>>

\* Mutant: a version that is listed is listed again.
ListingAgain(p, f, v) ==
  [work[p] EXCEPT !.todo = @ \ {f}, !.file = None, !.version = None,
                  !.items[f] = Append(@, v)]

Listing(p, f, v) ==
  [work[p] EXCEPT !.todo = @ \ {f}, !.file = None, !.version = None,
                  !.items[f] = IF v \in Versions(work[p].items, f) THEN @ ELSE Append(@, v)]

\* A version that is listed is left alone, an object that exists is kept.
Checksum(p, f) ==
  /\ pc[p] = "files" /\ f \in work[p].todo
  /\ LET v == input[f] IN
       IF v \in Versions(work[p].items, f) \/ objects[v] # None
       THEN Know(p, Listing(p, f, v)) /\ UNCHANGED pc
       ELSE /\ Know(p, [work[p] EXCEPT !.file = f, !.version = v])
            /\ Goto(p, "open")
  /\ UNCHANGED <<input, content, manifest, lock, spoiled, reader, bounds>>

\* copyArtifactFile creates the object under its final name, and fills it.
Open(p) ==
  /\ pc[p] = "open"
  /\ objects' = [objects EXCEPT ![work[p].version] = Torn]
  /\ Goto(p, "copy")
  /\ UNCHANGED <<input, items, torn, manifest, lock, work, spoiled, reader, bounds>>

Copy(p) ==
  /\ pc[p] = "copy"
  /\ LET v == work[p].version
         now == input[work[p].file]
     IN  /\ \E c \in {now} \cup (IF now = v THEN {} ELSE {Torn}) :
              objects' = [objects EXCEPT ![v] = c]
         /\ Know(p, Listing(p, work[p].file, v))
  /\ Goto(p, "files")
  /\ UNCHANGED <<input, items, torn, manifest, lock, spoiled, reader, bounds>>

\* writeJSONFile truncates index.json, and writes it.
Truncate(p) ==
  /\ pc[p] = "files" /\ work[p].todo = {}
  /\ torn' = TRUE
  /\ Goto(p, "fill")
  /\ UNCHANGED <<input, objects, items, manifest, lock, work, spoiled, reader, bounds>>

WriteIndex(p) ==
  /\ pc[p] = "fill"
  /\ items' = work[p].items /\ torn' = FALSE
  /\ Goto(p, "record")
  /\ UNCHANGED <<input, objects, manifest, lock, work, spoiled, reader, bounds>>

\* recordRevisionUnlocked on the manifest that was read before the lock.
Record(p) ==
  /\ pc[p] = "record"
  /\ LET m == work[p].manifest IN
       manifest' = IF m.current = Revision THEN m
                   ELSE [m EXCEPT !.current = Revision, !.history = Append(@, Revision)]
  /\ Goto(p, "unlock")
  /\ UNCHANGED <<input, content, lock, work, spoiled, reader, bounds>>

Unlock(p) ==
  /\ pc[p] = "unlock"
  /\ lock' = "free"
  /\ Exit(p)
  /\ UNCHANGED <<input, content, manifest, spoiled, reader, bounds>>

-----------------------------------------------------------------------------
Fault == faults > 0 /\ faults' = faults - 1 /\ UNCHANGED <<publications, reads, edits>>

\* Mutant: the object of a failed copy is left.
FailLeaving(p) ==
  /\ pc[p] \in {"index", "files", "open", "copy", "fill", "record"}
  /\ lock' = "free"
  /\ Exit(p) /\ Fault
  /\ UNCHANGED <<input, content, manifest, spoiled, reader>>

\* An error ends the publication; a copy that failed is removed, an index whose
\* write failed stays cut off.
Fail(p) ==
  /\ pc[p] \in {"index", "files", "open", "copy", "fill", "record"}
  /\ objects' = IF pc[p] = "copy" THEN [objects EXCEPT ![work[p].version] = None] ELSE objects
  /\ lock' = "free"
  /\ Exit(p) /\ Fault
  /\ UNCHANGED <<input, items, torn, manifest, spoiled, reader>>

Kill(p) ==
  /\ pc[p] # "idle"
  /\ spoiled' = IF pc[p] = "copy" THEN spoiled \cup {work[p].version} ELSE spoiled
  /\ Exit(p) /\ Fault
  /\ UNCHANGED <<input, content, manifest, lock, reader>>

Holding(p) == pc[p] \in {"index", "files", "open", "copy", "fill", "record", "unlock"}

\* Five minutes after its holder died.
LockAges ==
  /\ lock = "held" /\ \A p \in Publishers : ~Holding(p)
  /\ lock' = "old"
  /\ UNCHANGED <<input, content, manifest, pc, work, spoiled, reader, bounds>>

\* The agent writes a file, maybe one between its checksum and its copy.
Edit(f, c) ==
  /\ edits > 0 /\ edits' = edits - 1
  /\ input[f] # c
  /\ input' = [input EXCEPT ![f] = c]
  /\ spoiled' = spoiled \cup {work[p].version : p \in {q \in Publishers : work[q].file = f}}
  /\ UNCHANGED <<content, manifest, lock, pc, work, reader, publications, reads, faults>>

-----------------------------------------------------------------------------
(* GetArtifact: the version asked for, or the newest, copied and verified.  *)
Get(q, f, v) ==
  /\ reader[q].step = "idle" /\ reads > 0 /\ reads' = reads - 1
  /\ ~torn /\ v \in Versions(items, f)
  /\ reader' = [reader EXCEPT ![q] = [NoRead EXCEPT !.step = "copy", !.version = v]]
  /\ UNCHANGED <<publishing, publications, edits, faults>>

\* The index is read without the lock.
GetRefused(q) ==
  /\ reader[q].step = "idle" /\ reads > 0 /\ reads' = reads - 1
  /\ torn
  /\ reader' = [reader EXCEPT ![q] = [NoRead EXCEPT !.step = "failed"]]
  /\ UNCHANGED <<publishing, publications, edits, faults>>

GetCopy(q) ==
  /\ reader[q].step = "copy"
  /\ reader' = [reader EXCEPT ![q].step = "verify", ![q].out = objects[reader[q].version]]
  /\ UNCHANGED <<publishing, bounds>>

\* Mutant: the output is not verified.
GetAnything(q) ==
  /\ reader[q].step = "verify"
  /\ reader' = [reader EXCEPT ![q].step = "got"]
  /\ UNCHANGED <<publishing, bounds>>

GetVerify(q) ==
  /\ reader[q].step = "verify"
  /\ reader' = [reader EXCEPT ![q] = IF @.out = @.version THEN [@ EXCEPT !.step = "got"]
                                     ELSE [NoRead EXCEPT !.step = "failed"]]
  /\ UNCHANGED <<publishing, bounds>>

GetEnds(q) ==
  /\ reader[q].step \in {"got", "failed"}
  /\ reader' = [reader EXCEPT ![q] = NoRead]
  /\ UNCHANGED <<publishing, bounds>>

-----------------------------------------------------------------------------
Publishing(p) ==
  \/ \E files \in SUBSET Files : Start(p, files)
  \/ Create(p) \/ Acquire(p) \/ TimeOut(p) \/ ReadIndex(p) \/ RefuseIndex(p)
  \/ \E f \in Files : Checksum(p, f)
  \/ Open(p) \/ Copy(p) \/ Truncate(p) \/ WriteIndex(p)
  \/ Record(p) \/ Unlock(p) \/ Fail(p) \/ Kill(p)

Reading(q) ==
  \/ \E f \in Files, v \in Contents : Get(q, f, v)
  \/ GetRefused(q) \/ GetCopy(q) \/ GetVerify(q) \/ GetEnds(q)

Next ==
  \/ \E p \in Publishers : Publishing(p)
  \/ \E q \in Readers : Reading(q)
  \/ \E f \in Files, c \in Contents : Edit(f, c)
  \/ LockAges

Spec == Init /\ [][Next]_artifactVars

-----------------------------------------------------------------------------
\* The types of the state; the manifest's current revision is the last it lists.
TypeOK ==
  /\ input \in [Files -> Contents \cup {None}]
  /\ objects \in [Contents -> Contents \cup {None, Torn}]
  /\ \A f \in Files : Versions(items, f) \subseteq Contents
                      /\ \A i, j \in 1..Len(items[f]) : items[f][i] = items[f][j] => i = j
  /\ torn \in BOOLEAN /\ manifest.live \in BOOLEAN
  /\ manifest.current = IF manifest.history = <<>> THEN None ELSE Last(manifest.history)
  /\ lock \in {"free", "held", "old"}
  /\ pc \in [Publishers -> {"idle", "create", "lock", "index", "files", "open", "copy", "fill",
                           "record", "unlock"}]
  /\ spoiled \subseteq Contents

\* Whenever the index can be read, it lists what it has ever listed, in the same
\* order: NAME@VERSION is not lost to another publication, nor to one that comes
\* after an index was cut off, which it refuses rather than takes for an empty one
\* (PublishArtifacts reads and writes the whole index under the lock).
VersionsStay ==
  [][\A f \in Files : Len(items[f]) <= Len(items'[f])
                      /\ SubSeq(items'[f], 1, Len(items[f])) = items[f]]_artifactVars

\* Every listed version has an object, and the object holds what its name says,
\* also after publications that failed or were killed anywhere else: only a kill
\* within the copy, or a file that changed between its checksum and the end of its
\* copy, leaves another content under a checksum.
ObjectsExplained ==
  /\ \A f \in Files : \A v \in Versions(items, f) : objects[v] # None
  /\ \A v \in Contents : objects[v] \in {None, v} \/ v \in spoiled
                         \/ \E p \in Publishers : pc[p] = "copy" /\ work[p].version = v

\* The index can be read except while it is written, until an error or a kill: one
\* within the write leaves it cut off, which no step of the code makes up for.
IndexReadable == torn => faults < MaxFaults \/ \E p \in Publishers : pc[p] = "fill"

\* A retrieval that succeeds gives the bytes of the version it selected, whatever
\* the object has become (GetArtifact verifies the copy, not the object).
RetrievedExact == \A q \in Readers : reader[q].step = "got" => reader[q].out = reader[q].version

\* Between publications the manifest names the content as its current revision,
\* although every publication writes back a manifest it read before it had the
\* lock; crashes and errors apart, which may leave files without a revision.
ManifestNamesContent ==
  lock = "free" /\ faults = MaxFaults /\ (\E f \in Files : items[f] # <<>>)
    => manifest.current = Revision
=============================================================================
