-------------------------- MODULE MaterializeHelper --------------------------
(* The upload helper (cmd/context-service): a process in a pod of its own   *)
(* that unpacks a bundle into the volume of a Context and installs it under *)
(* the digest of its content. The service runs one helper per volume, but a *)
(* pod it has lost goes on beside the next one, and any may be killed. What *)
(* a helper unpacks is one directory, which it renames twice; a helper that *)
(* removes it as a leftover has it open, and follows it to its new names.   *)
EXTENDS Naturals

CONSTANTS
  Helpers,  \* pods, one per upload
  Bundles,  \* what is uploaded: each has two groups of files
  None,
  Calm,     \* TRUE: a helper the service has lost is not cleaning up
  MaxKills  \* bound: pods killed

Groups == {"early", "late"}  \* in the order of the bundle

VARIABLES
  step, bundle,  \* helpers: next step, what they were sent
  attended,      \* helpers the service still waits for, or has got an answer from
  cleaning,      \* helpers: leftovers listed, the one that is open, what is to be unlinked in it
  files,         \* helper -> the files of its bundle that are in its directory
  where,         \* helper -> its directory is .context-import-*, upload-<pod>, or has a digest
  revision,      \* helper -> digest it computed
  named,         \* digest -> the helper whose directory has that name
  followed,      \* history: helpers whose directory was renamed under one that removes it
  verifying,     \* digest -> its .capture.lock: "free", "held", or "old"
  kills

directories == <<files, where, named, followed>>
helperVars == <<step, bundle, attended, cleaning, directories, revision, verifying, kills>>

\* Files of a bundle, which stand for their digest.
Files(b, groups) == [of |-> b, groups |-> groups]
Trees == [of : Bundles, groups : SUBSET Groups]

NotCleaning == [list |-> {}, dir |-> None, left |-> {}]
Clearing(g, h) == cleaning[g].dir = h /\ cleaning[g].left # {}
Cleared(h) == \E g \in Helpers : Clearing(g, h)

Init ==
  /\ step = [h \in Helpers |-> "new"] /\ bundle = [h \in Helpers |-> None]
  /\ attended = [h \in Helpers |-> FALSE] /\ cleaning = [h \in Helpers |-> NotCleaning]
  /\ files = [h \in Helpers |-> {}] /\ where = [h \in Helpers |-> "none"]
  /\ revision = [h \in Helpers |-> None]
  /\ named = [t \in Trees |-> None] /\ followed = {}
  /\ verifying = [t \in Trees |-> "free"] /\ kills = MaxKills

Goto(h, s) == step' = [step EXCEPT ![h] = s]
Ended(h) == step[h] \in {"new", "done", "failed", "killed"}

(* UploadContext holds the lock of the volume while it waits for a helper.  *)
Start(h, b) ==
  /\ step[h] = "new"
  /\ \A g \in Helpers : attended[g] => Ended(g)
  /\ attended' = [attended EXCEPT ![h] = TRUE]
  /\ bundle' = [bundle EXCEPT ![h] = b]
  /\ Goto(h, "clean")
  /\ UNCHANGED <<cleaning, directories, revision, verifying, kills>>

\* The stream is lost, or the service restarts: nobody waits for the helper.
Abandon(h) ==
  /\ attended[h] /\ ~Ended(h)
  /\ Calm => step[h] \notin {"clean", "remove"}
  /\ attended' = [attended EXCEPT ![h] = FALSE]
  /\ UNCHANGED <<step, bundle, cleaning, directories, revision, verifying, kills>>

-----------------------------------------------------------------------------
(* cleanupUploadStaging takes every staging directory for a leftover.       *)
List(h) ==
  /\ step[h] = "clean"
  /\ cleaning' = [cleaning EXCEPT ![h].list = {g \in Helpers : where[g] = "staging"}]
  /\ Goto(h, "remove")
  /\ UNCHANGED <<bundle, attended, directories, revision, verifying, kills>>

\* RemoveAll opens the next, and reads the names that are in it, or some that are
\* added meanwhile; it may be gone by now.
OpenDir(h) ==
  /\ step[h] = "remove" /\ cleaning[h].dir = None
  /\ \E g \in cleaning[h].list :
       \/ /\ where[g] = "staging"
          /\ \E names \in SUBSET Groups :
               /\ files[g] \subseteq names
               /\ cleaning' = [cleaning EXCEPT ![h] = [list |-> @.list \ {g}, dir |-> g, left |-> names]]
       \/ where[g] # "staging" /\ cleaning' = [cleaning EXCEPT ![h].list = @ \ {g}]
  /\ UNCHANGED <<step, bundle, attended, directories, revision, verifying, kills>>

\* It unlinks them in the open directory, whatever its name is by now; a lock in it
\* may go with them.
Unlink(h) ==
  /\ step[h] = "remove" /\ cleaning[h].dir # None
  /\ \E x \in cleaning[h].left :
       /\ files' = [files EXCEPT ![cleaning[h].dir] = @ \ {x}]
       /\ cleaning' = [cleaning EXCEPT ![h].left = @ \ {x}]
  /\ \/ \E t \in Trees : named[t] = cleaning[h].dir /\ verifying' = [verifying EXCEPT ![t] = "free"]
     \/ UNCHANGED verifying
  /\ UNCHANGED <<step, bundle, attended, where, named, followed, revision, kills>>

\* The directory itself goes by its old name, if it has that still and is empty;
\* others that have it open find nothing in it any more.
RemoveDir(h) ==
  /\ step[h] = "remove" /\ cleaning[h].dir # None /\ cleaning[h].left = {}
  /\ LET g == cleaning[h].dir
         there == where[g] = "staging"
     IN  /\ there => files[g] = {}
         /\ where' = IF there THEN [where EXCEPT ![g] = "none"] ELSE where
         /\ cleaning' = [c \in Helpers |->
              IF c = h THEN [cleaning[h] EXCEPT !.dir = None]
              ELSE IF there /\ cleaning[c].dir = g THEN [cleaning[c] EXCEPT !.left = {}]
              ELSE cleaning[c]]
  /\ UNCHANGED <<step, bundle, attended, files, named, followed, revision, verifying, kills>>

\* The import begins with a staging directory of its own.
Cleaned(h) ==
  /\ step[h] = "remove" /\ cleaning[h].list = {} /\ cleaning[h].dir = None
  /\ where' = [where EXCEPT ![h] = "staging"]
  /\ Goto(h, "early")
  /\ UNCHANGED <<bundle, attended, cleaning, files, named, followed, revision, verifying, kills>>

-----------------------------------------------------------------------------
\* Files are written one by one, and their directories made again if missing.
Unpack(h) ==
  /\ step[h] \in Groups
  /\ files' = [files EXCEPT ![h] = @ \cup {step[h]}]
  /\ where' = [where EXCEPT ![h] = "staging"]
  /\ Goto(h, IF step[h] = "early" THEN "late" ELSE "install")
  /\ UNCHANGED <<bundle, attended, cleaning, named, followed, revision, verifying, kills>>

\* The end of the import: checksums.json is read back, and only that.
Install(h) ==
  /\ step[h] = "install" /\ where[h] = "staging"
  /\ where' = [where EXCEPT ![h] = "upload"]
  /\ followed' = IF Cleared(h) THEN followed \cup {h} ELSE followed
  /\ Goto(h, "hash")
  /\ UNCHANGED <<bundle, attended, cleaning, files, named, revision, verifying, kills>>

\* Mutant: the revision is what the bundle says it is.
HashDeclared(h) ==
  /\ step[h] = "hash"
  /\ LET d == Files(bundle[h], Groups)
     IN  /\ revision' = [revision EXCEPT ![h] = d]
         /\ Goto(h, IF named[d] = None THEN "place" ELSE "lock")
  /\ UNCHANGED <<bundle, attended, cleaning, directories, verifying, kills>>

\* store.Revision of the unpacked files decides the name. Files that are unlinked
\* meanwhile are in it or not, and one that is missed ends the walk of its directory.
Hash(h) ==
  /\ step[h] = "hash"
  /\ \E groups \in SUBSET files[h] :
       /\ groups = files[h] \/ Cleared(h)
       /\ LET d == Files(bundle[h], groups)
          IN  /\ revision' = [revision EXCEPT ![h] = d]
              /\ Goto(h, IF named[d] = None THEN "place" ELSE "lock")
  /\ UNCHANGED <<bundle, attended, cleaning, directories, verifying, kills>>

\* Renamed into place, also over a directory that was emptied, or one is found there.
Place(h) ==
  /\ step[h] = "place"
  /\ LET there == named[revision[h]]
     IN  \/ /\ there = None \/ (there \in followed /\ files[there] = {})
            /\ named' = [named EXCEPT ![revision[h]] = h]
            /\ where' = [g \in Helpers |-> IF g = h THEN "revision"
                                           ELSE IF g = there THEN "none" ELSE where[g]]
            /\ Goto(h, "exit")
         \/ there # None /\ Goto(h, "lock") /\ UNCHANGED <<named, where>>
  /\ UNCHANGED <<bundle, attended, cleaning, files, followed, revision, verifying, kills>>

\* verifyMaterializedRevision hashes the directory under its capture lock.
Lock(h) ==
  /\ step[h] = "lock" /\ verifying[revision[h]] # "held"
  /\ verifying' = [verifying EXCEPT ![revision[h]] = "held"]
  /\ Goto(h, "verify")
  /\ UNCHANGED <<bundle, attended, cleaning, directories, revision, kills>>

\* A directory that is being removed may still have been read whole, and one that
\* was may lack its manifest. The own one is removed.
Verify(h) ==
  /\ step[h] = "verify"
  /\ LET there == named[revision[h]]
         exact == files[there] = revision[h].groups
     IN  \/ (exact \/ Cleared(there)) /\ Goto(h, "exit")
         \/ (~exact \/ there \in followed) /\ Goto(h, "failed")
  /\ verifying' = [verifying EXCEPT ![revision[h]] = "free"]
  /\ where' = [where EXCEPT ![h] = "none"] /\ files' = [files EXCEPT ![h] = {}]
  /\ UNCHANGED <<bundle, attended, cleaning, named, followed, revision, kills>>

\* The result goes to stdout, and the process ends with status 0.
Exit(h) ==
  /\ step[h] = "exit"
  /\ Goto(h, "done")
  /\ UNCHANGED <<bundle, attended, cleaning, directories, revision, verifying, kills>>

\* A leftover that cannot be removed, as when files are added to it; a stream that
\* ends early, a limit, a bundle of another type, files that are gone, the lock after
\* thirty seconds: what was unpacked is removed.
Fails(h) ==
  /\ \/ step[h] \in Groups \cup {"clean", "remove", "install", "hash", "place"}
     \/ step[h] = "lock" /\ verifying[revision[h]] = "held"
  /\ where' = [where EXCEPT ![h] = "none"] /\ files' = [files EXCEPT ![h] = {}]
  /\ cleaning' = [cleaning EXCEPT ![h] = NotCleaning]
  /\ Goto(h, "failed")
  /\ UNCHANGED <<bundle, attended, named, followed, revision, verifying, kills>>

\* Also one that has placed its revision, before it ends.
Kill(h) ==
  /\ ~Ended(h) /\ kills > 0
  /\ kills' = kills - 1
  /\ cleaning' = [cleaning EXCEPT ![h] = NotCleaning]
  /\ Goto(h, "killed")
  /\ UNCHANGED <<bundle, attended, directories, revision, verifying>>

\* Five minutes after its holder died.
LockAges(t) ==
  /\ verifying[t] = "held" /\ \A h \in Helpers : ~(step[h] = "verify" /\ revision[h] = t)
  /\ verifying' = [verifying EXCEPT ![t] = "old"]
  /\ UNCHANGED <<step, bundle, attended, cleaning, directories, revision, kills>>

Cleaning(h) == List(h) \/ OpenDir(h) \/ Unlink(h) \/ RemoveDir(h) \/ Cleaned(h)

Next ==
  \/ \E h \in Helpers :
       \/ \E b \in Bundles : Start(h, b)
       \/ Abandon(h) \/ Cleaning(h) \/ Unpack(h) \/ Install(h) \/ Hash(h) \/ Place(h)
       \/ Lock(h) \/ Verify(h) \/ Exit(h) \/ Fails(h) \/ Kill(h)
  \/ \E t \in Trees : LockAges(t)

Spec == Init /\ [][Next]_helperVars

-----------------------------------------------------------------------------
\* The types of the state; a helper has what its next step needs.
TypeOK ==
  /\ \A h \in Helpers :
       /\ step[h] \in Groups \cup {"new", "clean", "remove", "install", "hash", "place", "lock",
                                   "verify", "exit", "done", "failed", "killed"}
       /\ step[h] # "new" <=> bundle[h] \in Bundles
       /\ cleaning[h] \in [list : SUBSET Helpers, dir : Helpers \cup {None}, left : SUBSET Groups]
       /\ files[h] \subseteq Groups /\ where[h] \in {"none", "staging", "upload", "revision"}
       /\ revision[h] \in Trees \cup {None}
       /\ step[h] \in {"place", "lock", "verify"} => revision[h] # None /\ where[h] = "upload"
       /\ step[h] \in {"lock", "verify"} => named[revision[h]] # None
  /\ named \in [Trees -> Helpers \cup {None}] /\ followed \subseteq Helpers
  /\ attended \in [Helpers -> BOOLEAN]
  /\ verifying \in [Trees -> {"free", "held", "old"}]
  /\ kills \in 0..MaxKills

\* The directory of that name holds exactly what the name says.
Exact(t) == named[t] # None /\ Files(bundle[named[t]], files[named[t]]) = t

\* A directory that bears the name of a revision holds exactly that content, also
\* when a later helper cleaned the files of a lost one away under it, or helpers were
\* killed at any point: unless it was renamed under a helper that was removing it,
\* which goes on in it. If no helper is lost while it removes leftovers (Calm), a
\* revision the service gets from a helper it waited for is the whole bundle it
\* sent, and stays there, whatever helpers come after.
MaterializedExact ==
  /\ \A t \in Trees : named[t] # None => Exact(t) \/ named[t] \in followed
  /\ \A h \in Helpers : attended[h] /\ step[h] = "done" =>
       revision[h] = Files(bundle[h], Groups) /\ Exact(revision[h])
=============================================================================
