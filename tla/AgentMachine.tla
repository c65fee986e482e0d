---------------------------- MODULE AgentMachine ----------------------------
(* What goes on between the agent and the store of one machine: the times   *)
(* at which the backup worker runs, which captures set (BackupSchedule),    *)
(* restores of captured sessions into the harness (NativeRestore), and      *)
(* publications of the agent's files (ArtifactStore). They share nothing,   *)
(* so a behaviour has one of them, chosen at the start.                     *)
EXTENDS BackupSchedule, FiniteSets

CONSTANTS
  Contexts, Sessions, Restorers, Transcripts, Calm, MaxRestores, MaxTurns,  \* NativeRestore
  Publishers, Readers, Files, FileContents, MaxPublications, MaxReads, MaxEdits,  \* ArtifactStore
  None, Torn, MaxFaults  \* both

\* No name and no content is None, no content is half written.
ASSUME MachineAssumption ==
  /\ None # Torn /\ {None, Torn} \cap (Transcripts \cup FileContents) = {}
  /\ None \notin Contexts \cup Sessions \cup Files
  /\ {MaxRestores, MaxTurns, MaxPublications, MaxReads, MaxEdits, MaxFaults} \subseteq Nat

VARIABLES
  harness, links, captured, native, at, job, restores, turns, faults,  \* NativeRestore
  input, objects, items, torn, manifest, lock, pc, work, reader, spoiled,  \* ArtifactStore
  publications, reads, edits,
  part  \* "schedule", "restore" or "publish"

restoring == <<harness, links, captured, native, at, job, restores, turns>>
publishing == <<input, objects, items, torn, manifest, lock, pc, work, reader, spoiled,
                publications, reads, edits>>
machineVars == <<vars, restoring, publishing, faults, part>>

Native == INSTANCE NativeRestore WITH Versions <- Transcripts
Artifacts == INSTANCE ArtifactStore WITH Contents <- FileContents

Parts == Init /\ Native!Init /\ Artifacts!Init /\ part \in {"schedule", "restore", "publish"}

PartsNext ==
  /\ \/ part = "schedule" /\ Next /\ UNCHANGED <<restoring, publishing, faults>>
     \/ part = "restore" /\ Native!Next /\ UNCHANGED <<vars, publishing>>
     \/ part = "publish" /\ Artifacts!Next /\ UNCHANGED <<vars, restoring>>
  /\ UNCHANGED part

MachineSpec == Parts /\ [][PartsNext]_machineVars

-----------------------------------------------------------------------------
\* The types of the parts.
HarnessTypeOK == TypeOK /\ Native!TypeOK /\ Artifacts!TypeOK

\* What a restore into a harness answers (see NativeRestore).
RestoreHonest == Native!RestoreHonest

\* Artifacts are what their versions say, the manifest names them as its current
\* revision, and the index can be read (see ArtifactStore).
ArtifactsExact ==
  /\ Artifacts!ObjectsExplained /\ Artifacts!RetrievedExact
  /\ Artifacts!ManifestNamesContent /\ Artifacts!IndexReadable

\* No restore replaces a session of the harness, and no publication drops a version
\* from the index.
NothingReplaced == Native!NativeKept /\ Artifacts!VersionsStay
=============================================================================
