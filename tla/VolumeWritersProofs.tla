-------------------------- MODULE VolumeWritersProofs --------------------------
(* The inductive invariants of ContextSync and MaterializeHelper, and what  *)
(* follows from them for the volume, for every number of users, readers,    *)
(* helpers, contents, pushes, faults and kills.                             *)
EXTENDS VolumeWriters, FiniteSetTheorems, TLAPS

-----------------------------------------------------------------------------
(* The strengthening for ContextSync.                                       *)

Labels == {"idle", "manifest", "export", "upload", "verify", "await", "publish", "records",
           "check", "read", "write"}
Pushes == [label : MaybeContent, bundle : MaybeContent, records : MaybeContent, version : Nat]
Readings == [step : {"idle", "pull", "query", "pulled", "answered"},
             seen : MaybeContent, got : MaybeContent]

Types ==
  /\ local \in [Pushers -> Contents] /\ recorded \in [Pushers -> MaybeContent]
  /\ drifted \subseteq Contents
  /\ pc \in [Pushers -> Labels] /\ push \in [Pushers -> Pushes]
  /\ incoming \in [Pushers -> MaybeContent \cup {Torn}]
  /\ script \in [Pushers -> {"none", "move", "point", "done"}]
  /\ objects \in [Contents -> MaybeContent \cup {Torn}] /\ current \in MaybeContent
  /\ published \in MaybeContent
  /\ index \in [revision : MaybeContent, records : MaybeContent, version : Nat]
  /\ reader \in [Readers -> Readings]
  /\ pushes \in [Pushers -> 0..MaxPushes]
  /\ faults \in 0..MaxFaults

\* The script runs for the push that verified the bundle, and for no later one:
\* what it moves is what it names, and what it points at was moved.
ScriptOK(p) ==
  /\ pc[p] \in {"manifest", "export", "upload", "verify"} => script[p] \notin {"move", "point"}
  /\ pc[p] \notin {"idle", "manifest", "export"} => push[p].bundle \in Contents
  /\ script[p] \in {"move", "point"} => push[p].bundle \in Contents
  /\ script[p] = "move" => incoming[p] = push[p].bundle
  /\ script[p] = "point" => objects[push[p].bundle] = push[p].bundle

\* What a push has read of a context is its label, unless that drifted.
PushOK(p) ==
  /\ pc[p] \notin {"idle", "manifest"} => push[p].label \in Contents
  /\ pc[p] \in {"export", "upload", "verify", "await", "publish", "records"} =>
       local[p] = push[p].label \/ push[p].label \in drifted
  /\ pc[p] \in {"check", "read", "write"} =>
       /\ push[p].records \in Contents
       /\ push[p].records = push[p].label \/ push[p].label \in drifted

Placed == \A c \in Contents : objects[c] \in {None, c}
Pointed(c) == c # None => objects[c] = c
IndexOK == index.records = index.revision \/ index.revision \in drifted

ReaderOK(q) ==
  /\ reader[q].step = "pull" => reader[q].seen # None /\ Pointed(reader[q].seen)
  /\ reader[q].got # None => reader[q].got = reader[q].seen \/ reader[q].seen \in drifted

IInv ==
  /\ Types
  /\ \A p \in Pushers : ScriptOK(p) /\ PushOK(p)
  /\ Placed /\ Pointed(current) /\ IndexOK
  /\ \A q \in Readers : ReaderOK(q)

-----------------------------------------------------------------------------
(* The initial state and every step.                                        *)

\* The invariant holds before the first push.
LEMMA InitIInv == Init => IInv
  BY SyncAssumption DEF Init, NoPush, NoIndex, NoRead, IInv, Types, Labels, Pushes, Readings,
     MaybeContent, ScriptOK, PushOK, Placed, Pointed, IndexOK, ReaderOK

\* Every step of a push, of its script and of what cuts them short keeps it.
LEMMA PushingKeepsIInv ==
  ASSUME IInv, NEW p \in Pushers, Pushing(p)
  PROVE  IInv'
  <1> USE SyncAssumption DEF IInv, Types, Labels, Pushes, Readings, MaybeContent, NoPush, NoRead,
          context, volume, service, Goto, Fault
  <1>1. ASSUME NEW c \in Contents, Change(p, c)
        PROVE  IInv'
    <2> USE <1>1 DEF Change
    <2>1. Types'
      <3>1. drifted' \subseteq Contents
        BY DEF PushOK
      <3>2. pushes' \in [Pushers -> 0..MaxPushes] /\ local' \in [Pushers -> Contents]
        OBVIOUS
      <3> QED BY <3>1, <3>2
    <2>2. ASSUME NEW o \in Pushers PROVE ScriptOK(o)' /\ PushOK(o)'
      BY DEF ScriptOK, PushOK
    <2>3. Placed' /\ Pointed(current)' /\ IndexOK'
      BY DEF ScriptOK, PushOK, Placed, Pointed, IndexOK
    <2>4. ASSUME NEW o \in Readers PROVE ReaderOK(o)'
      BY DEF Placed, Pointed, ReaderOK, IndexOK
    <2> QED BY <2>1, <2>2, <2>3, <2>4
  <1>2. ASSUME Start(p)
        PROVE  IInv'
    <2> USE <1>2 DEF Start
    <2>1. Types'
      BY DEF ScriptOK
    <2>2. ASSUME NEW o \in Pushers PROVE ScriptOK(o)' /\ PushOK(o)'
      BY DEF ScriptOK, PushOK
    <2>3. Placed' /\ Pointed(current)' /\ IndexOK'
      BY DEF ScriptOK, PushOK, Placed, Pointed, IndexOK
    <2>4. ASSUME NEW o \in Readers PROVE ReaderOK(o)'
      BY DEF Placed, Pointed, ReaderOK, IndexOK
    <2> QED BY <2>1, <2>2, <2>3, <2>4
  <1>3. ASSUME Export(p)
        PROVE  IInv'
    <2> USE <1>3 DEF Export
    <2> DEFINE r == [label |-> push[p].label, bundle |-> local[p],
                     records |-> push[p].records, version |-> push[p].version]
    <2>1. Types'
      <3>1. push[p] \in Pushes
        OBVIOUS
      <3>2. r \in Pushes
        OBVIOUS
      <3>3. [push[p] EXCEPT !.bundle = local[p]] = r
        BY <3>1 DEF Pushes
      <3>4. push' = [push EXCEPT ![p] = r]
        BY <3>3
      <3>5. push' \in [Pushers -> Pushes]
        <4> HIDE DEF r, Pushes
        <4> QED BY <3>2, <3>4
      <3>6. incoming' \in [Pushers -> MaybeContent \cup {Torn}]
        OBVIOUS
      <3> HIDE DEF Pushes
      <3> QED BY <3>5, <3>6
    <2>2. ASSUME NEW o \in Pushers PROVE ScriptOK(o)' /\ PushOK(o)'
      BY DEF ScriptOK, PushOK
    <2>3. Placed' /\ Pointed(current)' /\ IndexOK'
      BY DEF ScriptOK, PushOK, Placed, Pointed, IndexOK
    <2>4. ASSUME NEW o \in Readers PROVE ReaderOK(o)'
      BY DEF Placed, Pointed, ReaderOK, IndexOK
    <2> QED BY <2>1, <2>2, <2>3, <2>4
  <1>4. ASSUME Upload(p)
        PROVE  IInv'
    <2> USE <1>4 DEF Upload
    <2>1. Types'
      <3>1. \E got \in {push[p].bundle, Torn, None} : incoming' = [incoming EXCEPT ![p] = got]
        OBVIOUS
      <3>2. push[p].bundle \in Contents
        BY DEF ScriptOK
      <3>3. incoming' \in [Pushers -> MaybeContent \cup {Torn}]
        BY <3>1, <3>2
      <3> QED BY <3>3
    <2>2. ASSUME NEW o \in Pushers PROVE ScriptOK(o)' /\ PushOK(o)'
      BY DEF ScriptOK, PushOK
    <2>3. Placed' /\ Pointed(current)' /\ IndexOK'
      BY DEF ScriptOK, PushOK, Placed, Pointed, IndexOK
    <2>4. ASSUME NEW o \in Readers PROVE ReaderOK(o)'
      BY DEF Placed, Pointed, ReaderOK, IndexOK
    <2> QED BY <2>1, <2>2, <2>3, <2>4
  <1>5. ASSUME Verify(p)
        PROVE  IInv'
    <2> USE <1>5 DEF Verify
    <2>1. Types'
      BY DEF ScriptOK
    <2>2. ASSUME NEW o \in Pushers PROVE ScriptOK(o)' /\ PushOK(o)'
      BY DEF ScriptOK, PushOK
    <2>3. Placed' /\ Pointed(current)' /\ IndexOK'
      BY DEF ScriptOK, PushOK, Placed, Pointed, IndexOK
    <2>4. ASSUME NEW o \in Readers PROVE ReaderOK(o)'
      BY DEF Placed, Pointed, ReaderOK, IndexOK
    <2> QED BY <2>1, <2>2, <2>3, <2>4
  <1>6. ASSUME Move(p)
        PROVE  IInv'
    <2> USE <1>6 DEF Move
    <2>1. Types'
      BY DEF ScriptOK
    <2>2. ASSUME NEW o \in Pushers PROVE ScriptOK(o)' /\ PushOK(o)'
      BY DEF ScriptOK, PushOK
    <2>3. Placed' /\ Pointed(current)' /\ IndexOK'
      BY DEF ScriptOK, PushOK, Placed, Pointed, IndexOK
    <2>4. ASSUME NEW o \in Readers PROVE ReaderOK(o)'
      <3>1. \A c \in MaybeContent : Pointed(c) => Pointed(c)'
        BY DEF Pointed, ScriptOK
      <3> QED BY <3>1 DEF ReaderOK
    <2> QED BY <2>1, <2>2, <2>3, <2>4
  <1>7. ASSUME Point(p)
        PROVE  IInv'
    <2> USE <1>7 DEF Point
    <2>1. Types'
      BY DEF ScriptOK
    <2>2. ASSUME NEW o \in Pushers PROVE ScriptOK(o)' /\ PushOK(o)'
      BY DEF ScriptOK, PushOK
    <2>3. Placed' /\ Pointed(current)' /\ IndexOK'
      BY DEF ScriptOK, PushOK, Placed, Pointed, IndexOK
    <2>4. ASSUME NEW o \in Readers PROVE ReaderOK(o)'
      BY DEF Placed, Pointed, ReaderOK, IndexOK
    <2> QED BY <2>1, <2>2, <2>3, <2>4
  <1>8. ASSUME ScriptDies(p)
        PROVE  IInv'
    <2> USE <1>8 DEF ScriptDies
    <2>1. Types'
      BY DEF ScriptOK
    <2>2. ASSUME NEW o \in Pushers PROVE ScriptOK(o)' /\ PushOK(o)'
      BY DEF ScriptOK, PushOK
    <2>3. Placed' /\ Pointed(current)' /\ IndexOK'
      BY DEF ScriptOK, PushOK, Placed, Pointed, IndexOK
    <2>4. ASSUME NEW o \in Readers PROVE ReaderOK(o)'
      BY DEF Placed, Pointed, ReaderOK, IndexOK
    <2> QED BY <2>1, <2>2, <2>3, <2>4
  <1>9. ASSUME Await(p)
        PROVE  IInv'
    <2> USE <1>9 DEF Await
    <2>1. Types'
      BY DEF ScriptOK
    <2>2. ASSUME NEW o \in Pushers PROVE ScriptOK(o)' /\ PushOK(o)'
      BY DEF ScriptOK, PushOK
    <2>3. Placed' /\ Pointed(current)' /\ IndexOK'
      BY DEF ScriptOK, PushOK, Placed, Pointed, IndexOK
    <2>4. ASSUME NEW o \in Readers PROVE ReaderOK(o)'
      BY DEF Placed, Pointed, ReaderOK, IndexOK
    <2> QED BY <2>1, <2>2, <2>3, <2>4
  <1>10. ASSUME ClientStops(p)
        PROVE  IInv'
    <2> USE <1>10 DEF ClientStops
    <2>1. Types'
      BY DEF ScriptOK
    <2>2. ASSUME NEW o \in Pushers PROVE ScriptOK(o)' /\ PushOK(o)'
      BY DEF ScriptOK, PushOK
    <2>3. Placed' /\ Pointed(current)' /\ IndexOK'
      BY DEF ScriptOK, PushOK, Placed, Pointed, IndexOK
    <2>4. ASSUME NEW o \in Readers PROVE ReaderOK(o)'
      BY DEF Placed, Pointed, ReaderOK, IndexOK
    <2> QED BY <2>1, <2>2, <2>3, <2>4
  <1>11. ASSUME Publish(p)
        PROVE  IInv'
    <2> USE <1>11 DEF Publish
    <2>1. Types'
      BY DEF ScriptOK
    <2>2. ASSUME NEW o \in Pushers PROVE ScriptOK(o)' /\ PushOK(o)'
      BY DEF ScriptOK, PushOK
    <2>3. Placed' /\ Pointed(current)' /\ IndexOK'
      BY DEF ScriptOK, PushOK, Placed, Pointed, IndexOK
    <2>4. ASSUME NEW o \in Readers PROVE ReaderOK(o)'
      BY DEF Placed, Pointed, ReaderOK, IndexOK
    <2> QED BY <2>1, <2>2, <2>3, <2>4
  <1>12. ASSUME Records(p)
        PROVE  IInv'
    <2> USE <1>12 DEF Records
    <2> DEFINE r == [label |-> push[p].label, bundle |-> push[p].bundle,
                     records |-> local[p], version |-> push[p].version]
    <2>1. Types'
      <3>1. push[p] \in Pushes
        OBVIOUS
      <3>2. r \in Pushes
        OBVIOUS
      <3>3. [push[p] EXCEPT !.records = local[p]] = r
        BY <3>1 DEF Pushes
      <3>4. push' = [push EXCEPT ![p] = r]
        BY <3>3
      <3>5. push' \in [Pushers -> Pushes]
        <4> HIDE DEF r, Pushes
        <4> QED BY <3>2, <3>4
      <3> HIDE DEF Pushes
      <3> QED BY <3>5
    <2>2. ASSUME NEW o \in Pushers PROVE ScriptOK(o)' /\ PushOK(o)'
      BY DEF ScriptOK, PushOK
    <2>3. Placed' /\ Pointed(current)' /\ IndexOK'
      BY DEF ScriptOK, PushOK, Placed, Pointed, IndexOK
    <2>4. ASSUME NEW o \in Readers PROVE ReaderOK(o)'
      BY DEF Placed, Pointed, ReaderOK, IndexOK
    <2> QED BY <2>1, <2>2, <2>3, <2>4
  <1>13. ASSUME Check(p)
        PROVE  IInv'
    <2> USE <1>13 DEF Check
    <2>1. Types'
      BY DEF ScriptOK
    <2>2. ASSUME NEW o \in Pushers PROVE ScriptOK(o)' /\ PushOK(o)'
      BY DEF ScriptOK, PushOK
    <2>3. Placed' /\ Pointed(current)' /\ IndexOK'
      BY DEF ScriptOK, PushOK, Placed, Pointed, IndexOK
    <2>4. ASSUME NEW o \in Readers PROVE ReaderOK(o)'
      BY DEF Placed, Pointed, ReaderOK, IndexOK
    <2> QED BY <2>1, <2>2, <2>3, <2>4
  <1>14. ASSUME Read(p)
        PROVE  IInv'
    <2> USE <1>14 DEF Read
    <2> DEFINE r == [label |-> push[p].label, bundle |-> push[p].bundle,
                     records |-> push[p].records, version |-> index.version]
    <2>1. Types'
      <3>1. push[p] \in Pushes
        OBVIOUS
      <3>2. r \in Pushes
        OBVIOUS
      <3>3. [push[p] EXCEPT !.version = index.version] = r
        BY <3>1 DEF Pushes
      <3>4. push' = [push EXCEPT ![p] = r]
        BY <3>3
      <3>5. push' \in [Pushers -> Pushes]
        <4> HIDE DEF r, Pushes
        <4> QED BY <3>2, <3>4
      <3> HIDE DEF Pushes
      <3> QED BY <3>5
    <2>2. ASSUME NEW o \in Pushers PROVE ScriptOK(o)' /\ PushOK(o)'
      BY DEF ScriptOK, PushOK
    <2>3. Placed' /\ Pointed(current)' /\ IndexOK'
      BY DEF ScriptOK, PushOK, Placed, Pointed, IndexOK
    <2>4. ASSUME NEW o \in Readers PROVE ReaderOK(o)'
      BY DEF Placed, Pointed, ReaderOK, IndexOK
    <2> QED BY <2>1, <2>2, <2>3, <2>4
  <1>15. ASSUME Write(p)
        PROVE  IInv'
    <2> USE <1>15 DEF Write
    <2>1. Types'
      BY DEF ScriptOK
    <2>2. ASSUME NEW o \in Pushers PROVE ScriptOK(o)' /\ PushOK(o)'
      BY DEF ScriptOK, PushOK
    <2>3. Placed' /\ Pointed(current)' /\ IndexOK'
      BY DEF ScriptOK, PushOK, Placed, Pointed, IndexOK
    <2>4. ASSUME NEW o \in Readers PROVE ReaderOK(o)'
      BY DEF Placed, Pointed, ReaderOK, IndexOK
    <2> QED BY <2>1, <2>2, <2>3, <2>4
  <1>16. ASSUME Record(p)
        PROVE  IInv'
    <2> USE <1>16 DEF Record
    <2>1. Types'
      BY DEF ScriptOK
    <2>2. ASSUME NEW o \in Pushers PROVE ScriptOK(o)' /\ PushOK(o)'
      BY DEF ScriptOK, PushOK
    <2>3. Placed' /\ Pointed(current)' /\ IndexOK'
      BY DEF ScriptOK, PushOK, Placed, Pointed, IndexOK
    <2>4. ASSUME NEW o \in Readers PROVE ReaderOK(o)'
      BY DEF Placed, Pointed, ReaderOK, IndexOK
    <2> QED BY <2>1, <2>2, <2>3, <2>4
  <1>17. ASSUME ReadManifest(p)
        PROVE  IInv'
    <2> USE <1>17 DEF ReadManifest
    <2> DEFINE r == [label |-> recorded[p], bundle |-> push[p].bundle,
                     records |-> push[p].records, version |-> push[p].version]
    <2>1. Types'
      <3>1. push[p] \in Pushes
        OBVIOUS
      <3>2. r \in Pushes
        OBVIOUS
      <3>3. [push[p] EXCEPT !.label = recorded[p]] = r
        BY <3>1 DEF Pushes
      <3>4. push' = [push EXCEPT ![p] = r]
        BY <3>3
      <3>5. push' \in [Pushers -> Pushes]
        <4> HIDE DEF r, Pushes
        <4> QED BY <3>2, <3>4
      <3>6. drifted' \subseteq Contents
        OBVIOUS
      <3> HIDE DEF Pushes
      <3> QED BY <3>5, <3>6
    <2>2. ASSUME NEW o \in Pushers PROVE ScriptOK(o)' /\ PushOK(o)'
      BY DEF ScriptOK, PushOK
    <2>3. Placed' /\ Pointed(current)' /\ IndexOK'
      BY DEF ScriptOK, PushOK, Placed, Pointed, IndexOK
    <2>4. ASSUME NEW o \in Readers PROVE ReaderOK(o)'
      BY DEF Placed, Pointed, ReaderOK, IndexOK
    <2> QED BY <2>1, <2>2, <2>3, <2>4
  <1>18. ASSUME PublishLocal(p)
        PROVE  IInv'
    BY <1>16, <1>18 DEF PublishLocal
  <1> QED BY <1>1, <1>2, <1>3, <1>4, <1>5, <1>6, <1>7, <1>8, <1>9, <1>10, <1>11, <1>12, <1>13,
             <1>14, <1>15, <1>16, <1>17, <1>18 DEF Pushing

\* What is read when a query is answered.
LEMMA AnsweredReading ==
  ASSUME NEW w \in Readings, NEW got \in MaybeContent
  PROVE  [w EXCEPT !.step = "answered", !.got = got] \in Readings
  BY DEF Readings

\* Every step of a reader keeps it.
LEMMA ReadingKeepsIInv ==
  ASSUME IInv, NEW q \in Readers, Reading(q)
  PROVE  IInv'
  <1> USE SyncAssumption DEF IInv, Types, Labels, Pushes, Readings, MaybeContent, NoPush, NoRead,
          context, volume, service, Goto, Fault
  <1>1. ASSUME PullStart(q)
        PROVE  IInv'
    <2> USE <1>1 DEF PullStart
    <2> DEFINE r == [NoRead EXCEPT !.step = "pull", !.seen = current]
    <2>1. Types'
      <3>1. r \in Readings
        OBVIOUS
      <3>2. reader' = [reader EXCEPT ![q] = r]
        BY DEF ReaderOK, Pointed
      <3>3. reader' \in [Readers -> Readings]
        <4>1. reader \in [Readers -> Readings]
          OBVIOUS
        <4> HIDE DEF r, Readings
        <4> QED BY ONLY <3>1, <3>2, <4>1
      <3> HIDE DEF r, Readings
      <3> QED BY <3>3
    <2>2. ASSUME NEW o \in Pushers PROVE ScriptOK(o)' /\ PushOK(o)'
      BY DEF ScriptOK, PushOK
    <2>3. Placed' /\ Pointed(current)' /\ IndexOK'
      BY DEF ScriptOK, PushOK, Placed, Pointed, IndexOK
    <2>4. ASSUME NEW o \in Readers PROVE ReaderOK(o)'
      BY DEF Placed, Pointed, ReaderOK, IndexOK
    <2> QED BY <2>1, <2>2, <2>3, <2>4
  <1>2. ASSUME Pull(q)
        PROVE  IInv'
    <2> USE <1>2 DEF Pull
    <2> DEFINE r == [reader[q] EXCEPT !.step = "pulled"]
    <2>1. Types'
      <3>1. r \in Readings
        OBVIOUS
      <3>2. reader' = [reader EXCEPT ![q] = r]
        BY DEF ReaderOK, Pointed
      <3>3. reader' \in [Readers -> Readings]
        <4>1. reader \in [Readers -> Readings]
          OBVIOUS
        <4> HIDE DEF r, Readings
        <4> QED BY ONLY <3>1, <3>2, <4>1
      <3> HIDE DEF r, Readings
      <3> QED BY <3>3
    <2>2. ASSUME NEW o \in Pushers PROVE ScriptOK(o)' /\ PushOK(o)'
      BY DEF ScriptOK, PushOK
    <2>3. Placed' /\ Pointed(current)' /\ IndexOK'
      BY DEF ScriptOK, PushOK, Placed, Pointed, IndexOK
    <2>4. ASSUME NEW o \in Readers PROVE ReaderOK(o)'
      BY DEF Placed, Pointed, ReaderOK, IndexOK
    <2> QED BY <2>1, <2>2, <2>3, <2>4
  <1>3. ASSUME QueryStart(q)
        PROVE  IInv'
    <2> USE <1>3 DEF QueryStart
    <2> DEFINE r == [NoRead EXCEPT !.step = "query", !.seen = published]
    <2>1. Types'
      <3>1. r \in Readings
        OBVIOUS
      <3>2. reader' = [reader EXCEPT ![q] = r]
        BY DEF ReaderOK, Pointed
      <3>3. reader' \in [Readers -> Readings]
        <4>1. reader \in [Readers -> Readings]
          OBVIOUS
        <4> HIDE DEF r, Readings
        <4> QED BY ONLY <3>1, <3>2, <4>1
      <3> HIDE DEF r, Readings
      <3> QED BY <3>3
    <2>2. ASSUME NEW o \in Pushers PROVE ScriptOK(o)' /\ PushOK(o)'
      BY DEF ScriptOK, PushOK
    <2>3. Placed' /\ Pointed(current)' /\ IndexOK'
      BY DEF ScriptOK, PushOK, Placed, Pointed, IndexOK
    <2>4. ASSUME NEW o \in Readers PROVE ReaderOK(o)'
      BY DEF Placed, Pointed, ReaderOK, IndexOK
    <2> QED BY <2>1, <2>2, <2>3, <2>4
  <1>4. ASSUME Query(q)
        PROVE  IInv'
    <2> USE <1>4 DEF Query
    <2> DEFINE got == IF index.revision = reader[q].seen THEN index.records ELSE None
               r == [reader[q] EXCEPT !.step = "answered", !.got = got]
    <2>1. Types'
      <3>1. r \in Readings
        <4>1. got \in MaybeContent /\ reader[q] \in Readings
          OBVIOUS
        <4> HIDE DEF got, Readings, MaybeContent
        <4> QED BY ONLY <4>1, AnsweredReading, Zenon
      <3>2. reader' = [reader EXCEPT ![q] = r]
        OBVIOUS
      <3>3. reader' \in [Readers -> Readings]
        <4>1. reader \in [Readers -> Readings]
          OBVIOUS
        <4> HIDE DEF r, Readings
        <4> QED BY ONLY <3>1, <3>2, <4>1
      <3> HIDE DEF r, Readings
      <3> QED BY <3>3
    <2>2. ASSUME NEW o \in Pushers PROVE ScriptOK(o)' /\ PushOK(o)'
      BY DEF ScriptOK, PushOK
    <2>3. Placed' /\ Pointed(current)' /\ IndexOK'
      BY DEF ScriptOK, PushOK, Placed, Pointed, IndexOK
    <2>4. ASSUME NEW o \in Readers PROVE ReaderOK(o)'
      BY DEF Placed, Pointed, ReaderOK, IndexOK
    <2> QED BY <2>1, <2>2, <2>3, <2>4
  <1>5. ASSUME ReadEnds(q)
        PROVE  IInv'
    <2> USE <1>5 DEF ReadEnds
    <2> DEFINE r == NoRead
    <2>1. Types'
      <3>1. r \in Readings
        OBVIOUS
      <3>2. reader' = [reader EXCEPT ![q] = r]
        BY DEF ReaderOK, Pointed
      <3>3. reader' \in [Readers -> Readings]
        <4>1. reader \in [Readers -> Readings]
          OBVIOUS
        <4> HIDE DEF r, Readings
        <4> QED BY ONLY <3>1, <3>2, <4>1
      <3> HIDE DEF r, Readings
      <3> QED BY <3>3
    <2>2. ASSUME NEW o \in Pushers PROVE ScriptOK(o)' /\ PushOK(o)'
      BY DEF ScriptOK, PushOK
    <2>3. Placed' /\ Pointed(current)' /\ IndexOK'
      BY DEF ScriptOK, PushOK, Placed, Pointed, IndexOK
    <2>4. ASSUME NEW o \in Readers PROVE ReaderOK(o)'
      BY DEF Placed, Pointed, ReaderOK, IndexOK
    <2> QED BY <2>1, <2>2, <2>3, <2>4
  <1> QED BY <1>1, <1>2, <1>3, <1>4, <1>5 DEF Reading

\* A step that changes nothing keeps it.
LEMMA StutterKeepsIInv == ASSUME IInv, UNCHANGED vars PROVE IInv'
  BY DEF vars, context, volume, service, IInv, Types, ScriptOK, PushOK, Placed, Pointed, IndexOK, ReaderOK

-----------------------------------------------------------------------------
(* Results.                                                                 *)

\* The inductive invariant holds in every behaviour.
THEOREM Invariance == Spec => []IInv
  <1>1. IInv /\ [Next]_vars => IInv'
    BY PushingKeepsIInv, ReadingKeepsIInv, StutterKeepsIInv DEF Next
  <1> QED BY <1>1, InitIInv, PTL DEF Spec

-----------------------------------------------------------------------------
(* The version of the index counts pushes that have ended, so it is bounded *)
(* by the pushes there can be.                                              *)

AllPushes == Pushers \X (1..MaxPushes)
\* The pushes of a user are numbered down; the last begun may be under way.
Ended == {s \in AllPushes : /\ s[2] > pushes[s[1]]
                            /\ ~(pc[s[1]] # "idle" /\ s[2] = pushes[s[1]] + 1)}
Begun == \A p \in Pushers : pc[p] # "idle" => pushes[p] < MaxPushes
Counted == Begun /\ index.version <= Cardinality(Ended)

\* There are MaxPushes pushes of each user.
LEMMA AllPushesCount ==
  ASSUME IsFiniteSet(Pushers)
  PROVE  IsFiniteSet(AllPushes) /\ Cardinality(AllPushes) = Cardinality(Pushers) * MaxPushes
  <1>1. MaxPushes \in Nat
    BY SyncAssumption
  <1>2. IsFiniteSet(1..MaxPushes) /\ Cardinality(1..MaxPushes) = MaxPushes
    BY <1>1, FS_Interval
  <1> QED BY <1>2, FS_Product DEF AllPushes

\* A step begins a push, or ends one, which may raise the version by one, or
\* leaves both alone.
LEMMA PushCounts ==
  ASSUME IInv, [Next]_vars
  PROVE  /\ \A p \in Pushers :
              \/ pushes'[p] = pushes[p] /\ (pc[p] = "idle" => pc'[p] = "idle")
              \/ /\ pushes[p] > 0 /\ pushes'[p] = pushes[p] - 1
                 /\ (pc[p] = "idle" /\ pc'[p] # "idle") \/ pc'[p] = pc[p]
         /\ \/ index'.version = index.version
            \/ \E p \in Pushers : pc[p] # "idle" /\ pc'[p] = "idle" /\ pushes' = pushes
                                   /\ index'.version = index.version + 1
  <1> USE DEF IInv, Types, Goto, context, volume, service
  <1>1. CASE UNCHANGED vars
    BY <1>1 DEF vars
  <1>2. CASE \E q \in Readers : Reading(q)
    BY <1>2 DEF Reading, PullStart, Pull, QueryStart, Query, ReadEnds
  <1>3. ASSUME NEW p \in Pushers, Start(p)
        PROVE  /\ pc[p] = "idle" /\ pc' = [pc EXCEPT ![p] = "manifest"] /\ pushes[p] > 0
               /\ pushes' = [pushes EXCEPT ![p] = @ - 1] /\ UNCHANGED index
    BY <1>3 DEF Start
  <1>4. ASSUME NEW p \in Pushers, Write(p)
        PROVE  /\ pc[p] # "idle" /\ pc' = [pc EXCEPT ![p] = "idle"] /\ UNCHANGED pushes
               /\ index'.version \in {index.version, index.version + 1}
    BY <1>4 DEF Write
  <1>5. ASSUME NEW p \in Pushers, NEW c \in Contents, Change(p, c)
        PROVE  /\ pushes[p] > 0 /\ pushes' = [pushes EXCEPT ![p] = @ - 1] /\ UNCHANGED <<pc, index>>
    BY <1>5 DEF Change
  <1>6. ASSUME NEW p \in Pushers, Pushing(p), ~Start(p), ~Write(p), ~(\E c \in Contents : Change(p, c))
        PROVE  UNCHANGED <<pushes, index>> /\ \A o \in Pushers : pc[o] = "idle" => pc'[o] = "idle"
    BY <1>6 DEF Pushing, Record, PublishLocal, ReadManifest, Export, Upload, Verify, Move, Point, ScriptDies, Await, ClientStops,
                Publish, Records, Check, Read
  <1> QED BY <1>1, <1>2, <1>3, <1>4, <1>5, <1>6 DEF Next

\* Every step keeps the count.
LEMMA StepKeepsCount ==
  ASSUME IsFiniteSet(Pushers), IInv, IInv', Counted, [Next]_vars
  PROVE  Counted'
  <1> USE SyncAssumption
  <1>1. Begun'
    BY PushCounts DEF IInv, Types, Counted, Begun
  <1>2. IsFiniteSet(AllPushes)
    BY AllPushesCount
  <1>3. Ended \subseteq Ended' /\ Ended' \subseteq AllPushes
    <2>1. ASSUME NEW s \in Ended PROVE s \in Ended'
      BY PushCounts DEF IInv, Types, Ended, AllPushes
    <2> QED BY <2>1 DEF Ended
  <1>4. IsFiniteSet(Ended') /\ Cardinality(Ended) <= Cardinality(Ended')
    BY <1>2, <1>3, FS_Subset
  <1>5. IsFiniteSet(Ended) /\ Cardinality(Ended) \in Nat /\ Cardinality(Ended') \in Nat
    BY <1>3, <1>4, FS_Subset, FS_CardinalityType
  <1>6. CASE index'.version = index.version
    BY <1>1, <1>4, <1>5, <1>6 DEF IInv, Types, Counted
  <1>7. ASSUME NEW p \in Pushers, pc[p] # "idle", pc'[p] = "idle", pushes' = pushes,
               index'.version = index.version + 1
        PROVE  Counted'
    <2> DEFINE s == <<p, pushes[p] + 1>>
    <2>1. s \in Ended' /\ s \notin Ended
      BY <1>7 DEF IInv, Types, Counted, Begun, Ended, AllPushes
    <2>2. Cardinality(Ended \cup {s}) = Cardinality(Ended) + 1
      BY <1>5, <2>1, FS_AddElement
    <2>3. Cardinality(Ended \cup {s}) <= Cardinality(Ended')
      BY <1>3, <1>4, <2>1, FS_Subset
    <2> HIDE DEF s
    <2> QED BY <1>1, <1>5, <1>7, <2>2, <2>3 DEF IInv, Types, Counted
  <1> QED BY <1>6, <1>7, PushCounts

\* Every variable keeps its type and a push has read what its next step needs,
\* for any finite number of users.
THEOREM SyncTypeCorrect == IsFiniteSet(Pushers) => (Spec => []TypeOK)
  <1> SUFFICES ASSUME IsFiniteSet(Pushers) PROVE Spec => []TypeOK
    OBVIOUS
  <1> USE SyncAssumption
  <1>1. Init => Counted
    <2> SUFFICES ASSUME Init PROVE Counted
      OBVIOUS
    <2>1. IsFiniteSet(Ended)
      BY AllPushesCount, FS_Subset DEF Ended
    <2> QED BY <2>1, FS_CardinalityType DEF Init, NoIndex, Counted, Begun
  <1>2. IInv /\ Counted /\ [Next]_vars /\ IInv' => Counted'
    BY StepKeepsCount
  <1>3. IInv /\ Counted => TypeOK
    <2> SUFFICES ASSUME IInv, Counted PROVE TypeOK
      OBVIOUS
    <2>1. index.version <= MaxPushes * Cardinality(Pushers)
      <3>1. IsFiniteSet(AllPushes) /\ Cardinality(AllPushes) = Cardinality(Pushers) * MaxPushes
        BY AllPushesCount
      <3>2. Cardinality(Ended) <= Cardinality(AllPushes)
        BY <3>1, FS_Subset DEF Ended
      <3>3. /\ Cardinality(Ended) \in Nat /\ Cardinality(Pushers) \in Nat
            /\ Cardinality(AllPushes) \in Nat
        BY <3>1, FS_Subset, FS_CardinalityType DEF Ended
      <3> QED BY <3>1, <3>2, <3>3 DEF Counted, IInv, Types
    <2> QED BY <2>1 DEF IInv, Types, Labels, Readings, MaybeContent, ScriptOK, PushOK, TypeOK
  <1> QED BY <1>1, <1>2, <1>3, Invariance, PTL DEF Spec

-----------------------------------------------------------------------------
(* What the volume and the index promise.                                   *)

\* The pointer of the volume names a complete object whose checksum is its
\* name and no pull is refused, whatever replies are lost and scripts go on or
\* die, for any number of users and readers.
THEOREM PointerIsComplete == Spec => []PointerComplete
  <1>1. IInv => PointerComplete
    BY DEF IInv, Types, Readings, Pointed, PointerComplete
  <1> QED BY <1>1, Invariance, PTL

\* Answers are made of records of the revision the query read, unless that was
\* pushed while the local context was another: a derivation had died before it
\* recorded its revision, or the content changed during the push.
THEOREM AnswersCurrent == Spec => []AnswersAreCurrent
  <1>1. IInv => AnswersAreCurrent
    BY DEF IInv, ReaderOK, AnswersAreCurrent
  <1> QED BY <1>1, Invariance, PTL

\* An object that was placed is never replaced by other content, so what a
\* reader saw the pointer name can be pulled for ever.
THEOREM ObjectsStay == Spec => [][\A c \in Contents : objects[c] # None => objects'[c] = objects[c]]_objects
  <1>1. IInv /\ [Next]_vars => [\A c \in Contents : objects[c] # None => objects'[c] = objects[c]]_objects
    <2> SUFFICES ASSUME IInv, NEW p \in Pushers, Move(p)
                 PROVE  \A c \in Contents : objects[c] # None => objects'[c] = objects[c]
      BY DEF Next, vars, context, volume, service, Pushing, Reading, Change, Record, Start, PublishLocal,
             ReadManifest, Export, Upload, Verify, Point, ScriptDies,
             Await, ClientStops, Publish, Records, Check, Read, Write,
             PullStart, Pull, QueryStart, Query, ReadEnds
    <2> QED BY DEF IInv, Types, ScriptOK, Placed, Move
  <1> QED BY <1>1, Invariance, PTL DEF Spec

-----------------------------------------------------------------------------
(* The strengthening for MaterializeHelper.                                 *)

HelperSteps == {"new", "clean", "remove", "early", "late", "install", "hash", "place", "lock",
                "verify", "exit", "done", "failed", "killed"}
OptTree == Helper!Trees \cup {None}
Removals == [list : SUBSET Helpers, dir : Helpers \cup {None}, left : SUBSET Helper!Groups]

FunctionsOK ==
  /\ step \in [Helpers -> HelperSteps] /\ bundle \in [Helpers -> Contents \cup {None}]
  /\ attended \in [Helpers -> BOOLEAN] /\ cleaning \in [Helpers -> Removals]
  /\ files \in [Helpers -> SUBSET Helper!Groups]
  /\ where \in [Helpers -> {"none", "staging", "upload", "revision"}]
  /\ revision \in [Helpers -> OptTree]
  /\ named \in [Helper!Trees -> Helpers \cup {None}] /\ followed \subseteq Helpers
  /\ verifying \in [Helper!Trees -> {"free", "held", "old"}]
  /\ kills \in 0..MaxKills

\* A helper removes leftovers before it does anything else.
HelperOK(h) ==
  /\ step[h] = "new" <=> bundle[h] = None
  /\ step[h] = "new" => ~attended[h]
  /\ step[h] # "remove" => cleaning[h] = Helper!NotCleaning
  /\ cleaning[h].dir = None => cleaning[h].left = {}

\* Where its directory is at each step, and that it has no files when it is gone.
DirectoryOK(h) ==
  /\ where[h] = "none" => files[h] = {}
  /\ where[h] = "staging" => step[h] \in {"early", "late", "install", "killed"}
  /\ where[h] = "upload" => step[h] \in {"hash", "place", "lock", "verify", "killed"}
  /\ where[h] = "revision" => step[h] \in {"exit", "done", "killed"}
  /\ step[h] \in {"hash", "place", "lock", "verify"} => where[h] = "upload"

\* When it has computed a digest, and found or made a directory of that name.
RevisionOK(h) ==
  /\ revision[h] # None => revision[h].of = bundle[h]
  /\ where[h] = "staging" \/ step[h] \in {"new", "clean", "remove", "early", "late", "install", "hash"} =>
       revision[h] = None
  /\ step[h] \in {"place", "lock", "verify", "exit", "done"} => revision[h] # None
  /\ step[h] \in {"lock", "verify", "exit", "done"} => named[revision[h]] # None

Named == \A t \in Helper!Trees :
  named[t] # None => where[named[t]] = "revision" /\ revision[named[t]] = t

\* A directory that was not renamed under a helper that removes it is not removed
\* later either, and its digest is that of its files.
Kept(h) == h \notin followed =>
  /\ where[h] \in {"upload", "revision"} => ~Helper!Cleared(h)
  /\ step[h] = "place" \/ where[h] = "revision" =>
       revision[h] # None /\ files[h] = revision[h].groups

\* The service waits for one helper at a time, and one that removes leftovers is
\* that one.
OneAttended ==
  /\ \A g, h \in Helpers : attended[g] /\ attended[h] /\ ~Helper!Ended(g) /\ ~Helper!Ended(h) => g = h
  /\ Calm => \A h \in Helpers : step[h] \in {"clean", "remove"} => attended[h]

\* What the helper that is waited for has of its bundle at each step.
Progress(h) ==
  /\ step[h] = "early" => files[h] = {}
  /\ step[h] = "late" => files[h] = {"early"}
  /\ step[h] \in {"install", "hash", "place"} => files[h] = Helper!Groups
  /\ step[h] \in {"place", "lock", "verify", "exit", "done"} => revision[h] = WholeName(bundle[h])
  /\ step[h] \in {"exit", "done"} => /\ files[named[revision[h]]] = Helper!Groups
                                     /\ ~Helper!Cleared(named[revision[h]])

WholeBundles == Calm => \A h \in Helpers : attended[h] => Progress(h)

HelperInv ==
  /\ FunctionsOK
  /\ \A h \in Helpers : HelperOK(h) /\ DirectoryOK(h) /\ RevisionOK(h) /\ Kept(h)
  /\ Named /\ OneAttended /\ WholeBundles

-----------------------------------------------------------------------------
(* The initial state and every step.                                        *)

\* Some files of a bundle are a directory, and not None.
LEMMA FilesAreTrees ==
  ASSUME NEW b \in Contents, NEW groups \in SUBSET Helper!Groups
  PROVE  /\ Helper!Files(b, groups) \in Helper!Trees /\ Helper!Files(b, groups) # None
         /\ Helper!Files(b, groups).of = b /\ Helper!Files(b, groups).groups = groups
  <1>1. /\ Helper!Files(b, groups) \in Helper!Trees
        /\ Helper!Files(b, groups).of = b /\ Helper!Files(b, groups).groups = groups
    BY DEF Helper!Files, Helper!Trees
  <1> QED BY <1>1, WriterAssumption

\* The invariant holds before the first helper.
LEMMA HelperInit == Helper!Init => HelperInv
  BY WriterAssumption, SyncAssumption
     DEF Helper!Init, Helper!NotCleaning, HelperInv, FunctionsOK, HelperSteps, OptTree, Removals,
         HelperOK, DirectoryOK, RevisionOK, Kept, Named, OneAttended, Helper!Ended, WholeBundles, Progress

\* A directory that no helper has open is opened only while it is a staging directory.
LEMMA ClearedBefore ==
  ASSUME FunctionsOK, [Helper!Next]_(Helper!helperVars), NEW g \in Helpers, Helper!Cleared(g)'
  PROVE  Helper!Cleared(g) \/ where[g] = "staging"
  <1>1. PICK c \in Helpers : cleaning'[c].dir = g /\ cleaning'[c].left # {}
    BY DEF Helper!Cleared, Helper!Clearing
  <1>2. CASE cleaning'[c] = cleaning[c]
    BY <1>1, <1>2 DEF Helper!Cleared, Helper!Clearing
  <1>3. CASE cleaning'[c] = Helper!NotCleaning
    BY <1>1, <1>3, WriterAssumption DEF Helper!NotCleaning
  <1>4. ASSUME NEW h \in Helpers, Helper!List(h), cleaning'[c] # cleaning[c]
        PROVE  Helper!Cleared(g)
    BY <1>1, <1>4 DEF Helper!List, FunctionsOK, Removals, Helper!Cleared, Helper!Clearing
  <1>5. ASSUME NEW h \in Helpers, Helper!OpenDir(h), cleaning'[c] # cleaning[c]
        PROVE  Helper!Cleared(g) \/ where[g] = "staging"
    BY <1>1, <1>5 DEF Helper!OpenDir, FunctionsOK, Removals, Helper!Cleared, Helper!Clearing
  <1>6. ASSUME NEW h \in Helpers, Helper!Unlink(h), cleaning'[c] # cleaning[c]
        PROVE  Helper!Cleared(g)
    BY <1>1, <1>6 DEF Helper!Unlink, FunctionsOK, Removals, Helper!Cleared, Helper!Clearing
  <1>7. ASSUME NEW h \in Helpers, Helper!RemoveDir(h), cleaning'[c] # cleaning[c]
        PROVE  FALSE
    BY <1>1, <1>7, WriterAssumption DEF Helper!RemoveDir, FunctionsOK, Removals
  <1>8. ASSUME NEW h \in Helpers, Helper!Fails(h) \/ Helper!Kill(h), cleaning'[c] # cleaning[c]
        PROVE  cleaning'[c] = Helper!NotCleaning
    BY <1>8 DEF Helper!Fails, Helper!Kill, FunctionsOK
  <1>9. CASE UNCHANGED cleaning
    BY <1>2, <1>9
  <1> QED
    BY <1>2, <1>3, <1>4, <1>5, <1>6, <1>7, <1>8, <1>9
       DEF Helper!Next, Helper!helperVars, Helper!Cleaning, Helper!Start, Helper!Abandon, Helper!Cleaned, Helper!Unpack, Helper!Install,
           Helper!Hash, Helper!Place, Helper!Lock, Helper!Verify, Helper!Exit, Helper!LockAges

\* While the service waits for a helper that has removed the leftovers, no other
\* removes any.
LEMMA NoneCleared ==
  ASSUME HelperInv, Calm, NEW h \in Helpers, attended[h], ~Helper!Ended(h),
         step[h] \notin {"clean", "remove"}, NEW g \in Helpers
  PROVE  ~Helper!Cleared(g)
  <1> SUFFICES ASSUME NEW c \in Helpers, cleaning[c].dir = g, cleaning[c].left # {}
               PROVE  FALSE
    BY DEF Helper!Cleared, Helper!Clearing
  <1>1. step[c] = "remove"
    BY DEF HelperInv, HelperOK, Helper!NotCleaning
  <1> QED BY <1>1 DEF HelperInv, OneAttended, Helper!Ended

\* Every step of a helper, of the service that waits for it and of the clock
\* keeps the invariant.
LEMMA HelperNext ==
  ASSUME HelperInv, [Helper!Next]_(Helper!helperVars)
  PROVE  HelperInv'
  <1> USE WriterAssumption, SyncAssumption DEF HelperInv, FunctionsOK, HelperSteps, OptTree, Helper!Groups, Helper!Goto,
          Helper!directories
  <1>c. ASSUME NEW g \in Helpers, where[g] # "staging", ~Helper!Cleared(g)
        PROVE  ~Helper!Cleared(g)'
    BY <1>c, ClearedBefore
  <1>1. ASSUME NEW h \in Helpers, NEW b \in Contents, Helper!Start(h, b)
        PROVE  HelperInv'
    <2> USE <1>1 DEF Helper!Start
    <2>1. FunctionsOK'
      BY DEF HelperOK, RevisionOK, Removals
    <2>2. ASSUME NEW g \in Helpers PROVE HelperOK(g)'
      BY DEF HelperOK, Removals, Helper!NotCleaning
    <2>3. ASSUME NEW g \in Helpers PROVE DirectoryOK(g)'
      BY DEF DirectoryOK
    <2>4. ASSUME NEW g \in Helpers PROVE RevisionOK(g)'
      BY DEF RevisionOK, DirectoryOK
    <2>5. Named'
      BY DEF Named, DirectoryOK
    <2>6. ASSUME NEW g \in Helpers PROVE Kept(g)'
      BY <1>c DEF Kept, DirectoryOK
    <2>7. OneAttended'
      BY DEF OneAttended, Helper!Ended, HelperOK
    <2>8. ASSUME Calm, NEW g \in Helpers, attended'[g] PROVE Progress(g)'
      BY <2>8, <1>c DEF WholeBundles, Progress, HelperOK, RevisionOK, Named
    <2> QED BY <2>1, <2>2, <2>3, <2>4, <2>5, <2>6, <2>7, <2>8 DEF WholeBundles
  <1>2. ASSUME NEW h \in Helpers, Helper!Abandon(h)
        PROVE  HelperInv'
    <2> USE <1>2 DEF Helper!Abandon
    <2>1. FunctionsOK'
      BY DEF HelperOK, RevisionOK, Removals
    <2>2. ASSUME NEW g \in Helpers PROVE HelperOK(g)'
      BY DEF HelperOK, Removals, Helper!NotCleaning
    <2>3. ASSUME NEW g \in Helpers PROVE DirectoryOK(g)'
      BY DEF DirectoryOK
    <2>4. ASSUME NEW g \in Helpers PROVE RevisionOK(g)'
      BY DEF RevisionOK, DirectoryOK
    <2>5. Named'
      BY DEF Named, DirectoryOK
    <2>6. ASSUME NEW g \in Helpers PROVE Kept(g)'
      BY <1>c DEF Kept, DirectoryOK
    <2>7. OneAttended'
      BY DEF OneAttended, Helper!Ended, HelperOK
    <2>8. ASSUME Calm, NEW g \in Helpers, attended'[g] PROVE Progress(g)'
      BY <2>8, <1>c DEF WholeBundles, Progress, HelperOK, RevisionOK, Named
    <2> QED BY <2>1, <2>2, <2>3, <2>4, <2>5, <2>6, <2>7, <2>8 DEF WholeBundles
  <1>3. ASSUME NEW h \in Helpers, Helper!List(h)
        PROVE  HelperInv'
    <2> USE <1>3 DEF Helper!List
    <2>1. FunctionsOK'
      BY DEF HelperOK, RevisionOK, Removals
    <2>2. ASSUME NEW g \in Helpers PROVE HelperOK(g)'
      BY DEF HelperOK, Removals, Helper!NotCleaning
    <2>3. ASSUME NEW g \in Helpers PROVE DirectoryOK(g)'
      BY DEF DirectoryOK
    <2>4. ASSUME NEW g \in Helpers PROVE RevisionOK(g)'
      BY DEF RevisionOK, DirectoryOK
    <2>5. Named'
      BY DEF Named, DirectoryOK
    <2>6. ASSUME NEW g \in Helpers PROVE Kept(g)'
      BY <1>c DEF Kept, DirectoryOK
    <2>7. OneAttended'
      BY DEF OneAttended, Helper!Ended, HelperOK
    <2>8. ASSUME Calm, NEW g \in Helpers, attended'[g] PROVE Progress(g)'
      BY <2>8, <1>c DEF WholeBundles, Progress, HelperOK, RevisionOK, Named
    <2> QED BY <2>1, <2>2, <2>3, <2>4, <2>5, <2>6, <2>7, <2>8 DEF WholeBundles
  <1>4. ASSUME NEW h \in Helpers, Helper!OpenDir(h)
        PROVE  HelperInv'
    <2> USE <1>4 DEF Helper!OpenDir
    <2>1. FunctionsOK'
      BY DEF HelperOK, RevisionOK, Removals
    <2>2. ASSUME NEW g \in Helpers PROVE HelperOK(g)'
      <3>1. CASE g # h
        BY <3>1 DEF HelperOK
      <3>2. cleaning[h] \in Removals /\ cleaning[h].dir = None /\ cleaning[h].left = {}
        BY DEF HelperOK
      <3>3. ASSUME NEW x \in cleaning[h].list, NEW names \in SUBSET Helper!Groups,
                   cleaning' = [cleaning EXCEPT ![h] = [list |-> @.list \ {x}, dir |-> x, left |-> names]]
            PROVE  cleaning'[h].dir # None
        <4>1. x \in Helpers
          BY <3>2 DEF Removals
        <4>2. cleaning'[h] = [list |-> cleaning[h].list \ {x}, dir |-> x, left |-> names]
          BY <3>3
        <4> QED BY <4>1, <4>2
      <3>4. ASSUME NEW x \in cleaning[h].list, cleaning' = [cleaning EXCEPT ![h].list = @ \ {x}]
            PROVE  cleaning'[h].left = {}
        BY <3>2, <3>4 DEF Removals
      <3>5. cleaning'[h].dir = None => cleaning'[h].left = {}
        BY <3>3, <3>4
      <3>6. step[h] = "remove" /\ UNCHANGED <<step, bundle, attended>>
        OBVIOUS
      <3> QED BY <3>1, <3>5, <3>6 DEF HelperOK
    <2>3. ASSUME NEW g \in Helpers PROVE DirectoryOK(g)'
      BY DEF DirectoryOK
    <2>4. ASSUME NEW g \in Helpers PROVE RevisionOK(g)'
      BY DEF RevisionOK, DirectoryOK
    <2>5. Named'
      BY DEF Named, DirectoryOK
    <2>6. ASSUME NEW g \in Helpers PROVE Kept(g)'
      BY <1>c DEF Kept, DirectoryOK
    <2>7. OneAttended'
      BY DEF OneAttended, Helper!Ended, HelperOK
    <2>8. ASSUME Calm, NEW g \in Helpers, attended'[g] PROVE Progress(g)'
      BY <2>8, <1>c DEF WholeBundles, Progress, HelperOK, RevisionOK, Named
    <2> QED BY <2>1, <2>2, <2>3, <2>4, <2>5, <2>6, <2>7, <2>8 DEF WholeBundles
  <1>5. ASSUME NEW h \in Helpers, Helper!Unlink(h)
        PROVE  HelperInv'
    <2> USE <1>5 DEF Helper!Unlink
    <2>1. FunctionsOK'
      BY DEF HelperOK, RevisionOK, Removals
    <2>2. ASSUME NEW g \in Helpers PROVE HelperOK(g)'
      <3>1. CASE g # h
        BY <3>1 DEF HelperOK
      <3>2. cleaning'[h].dir # None
        BY DEF Removals
      <3>3. step[h] = "remove" /\ UNCHANGED <<step, bundle, attended>>
        OBVIOUS
      <3> QED BY <3>1, <3>2, <3>3 DEF HelperOK
    <2>3. ASSUME NEW g \in Helpers PROVE DirectoryOK(g)'
      BY DEF DirectoryOK
    <2>4. ASSUME NEW g \in Helpers PROVE RevisionOK(g)'
      BY DEF RevisionOK, DirectoryOK
    <2>5. Named'
      BY DEF Named, DirectoryOK
    <2>c. Helper!Cleared(cleaning[h].dir) /\ cleaning[h].dir \in Helpers
      BY DEF Helper!Cleared, Helper!Clearing, Removals
    <2>f. \A g \in Helpers : g # cleaning[h].dir => files'[g] = files[g]
      OBVIOUS
    <2>6. ASSUME NEW g \in Helpers PROVE Kept(g)'
      <3>1. CASE g = cleaning[h].dir
        BY <2>c, <3>1 DEF Kept, DirectoryOK
      <3>2. CASE g # cleaning[h].dir
        <4>1. files'[g] = files[g] /\ UNCHANGED <<step, where, revision, followed>>
          BY <2>f, <3>2
        <4> QED BY <1>c, <4>1 DEF Kept
      <3> QED BY <3>1, <3>2
    <2>7. OneAttended'
      BY DEF OneAttended, Helper!Ended, HelperOK
    <2>8. ASSUME Calm, NEW g \in Helpers, attended'[g] PROVE Progress(g)'
      <3>1. attended[g] /\ Progress(g) /\ UNCHANGED <<step, bundle, revision, named, where>>
        BY <2>8 DEF WholeBundles
      <3>2. step[g] \in {"early", "late", "install", "hash", "place", "lock", "verify", "exit"} => FALSE
        BY <2>8, <3>1 DEF OneAttended, Helper!Ended
      <3>3. ASSUME step[g] = "done"
            PROVE  /\ named[revision[g]] \in Helpers /\ where[named[revision[g]]] = "revision"
                   /\ named[revision[g]] # cleaning[h].dir
        BY <2>c, <3>1, <3>3 DEF RevisionOK, Named, Progress
      <3>4. CASE step[g] = "done"
        BY <1>c, <2>f, <3>1, <3>3, <3>4 DEF Progress, WholeName, Helper!Files
      <3> QED BY <3>1, <3>2, <3>4 DEF Progress
    <2> QED BY <2>1, <2>2, <2>3, <2>4, <2>5, <2>6, <2>7, <2>8 DEF WholeBundles
  <1>6. ASSUME NEW h \in Helpers, Helper!RemoveDir(h)
        PROVE  HelperInv'
    <2> USE <1>6 DEF Helper!RemoveDir
    <2>1. FunctionsOK'
      BY DEF HelperOK, RevisionOK, Removals
    <2>2. ASSUME NEW g \in Helpers PROVE HelperOK(g)'
      <3>1. step[h] = "remove" /\ cleaning[h].left = {} /\ UNCHANGED <<step, bundle, attended>>
        OBVIOUS
      <3>2. CASE g = h
        <4>1. cleaning'[h] = [cleaning[h] EXCEPT !.dir = None]
          OBVIOUS
        <4>2. cleaning'[h].left = {}
          BY <3>1, <4>1 DEF Removals
        <4> QED BY <3>1, <3>2, <4>2 DEF HelperOK
      <3>3. CASE g # h /\ cleaning'[g] = cleaning[g]
        BY <3>1, <3>3 DEF HelperOK
      <3>4. CASE g # h /\ cleaning[g].dir = cleaning[h].dir /\ cleaning'[g] = [cleaning[g] EXCEPT !.left = {}]
        <4>1. cleaning'[g].left = {}
          BY <3>4 DEF Removals
        <4>2. step[g] = "remove"
          BY <3>4 DEF HelperOK, Helper!NotCleaning
        <4> QED BY <3>1, <4>1, <4>2 DEF HelperOK
      <3> QED BY <3>2, <3>3, <3>4
    <2>3. ASSUME NEW g \in Helpers PROVE DirectoryOK(g)'
      BY DEF DirectoryOK
    <2>4. ASSUME NEW g \in Helpers PROVE RevisionOK(g)'
      BY DEF RevisionOK, DirectoryOK
    <2>5. Named'
      BY DEF Named, DirectoryOK
    <2>6. ASSUME NEW g \in Helpers PROVE Kept(g)'
      BY <1>c DEF Kept, DirectoryOK
    <2>7. OneAttended'
      BY DEF OneAttended, Helper!Ended, HelperOK
    <2>8. ASSUME Calm, NEW g \in Helpers, attended'[g] PROVE Progress(g)'
      BY <2>8, <1>c DEF WholeBundles, Progress, HelperOK, RevisionOK, Named
    <2> QED BY <2>1, <2>2, <2>3, <2>4, <2>5, <2>6, <2>7, <2>8 DEF WholeBundles
  <1>7. ASSUME NEW h \in Helpers, Helper!Cleaned(h)
        PROVE  HelperInv'
    <2> USE <1>7 DEF Helper!Cleaned
    <2>1. FunctionsOK'
      BY DEF HelperOK, RevisionOK, Removals
    <2>2. ASSUME NEW g \in Helpers PROVE HelperOK(g)'
      BY DEF HelperOK, Removals, Helper!NotCleaning
    <2>3. ASSUME NEW g \in Helpers PROVE DirectoryOK(g)'
      BY DEF DirectoryOK
    <2>4. ASSUME NEW g \in Helpers PROVE RevisionOK(g)'
      BY DEF RevisionOK, DirectoryOK
    <2>5. Named'
      BY DEF Named, DirectoryOK
    <2>6. ASSUME NEW g \in Helpers PROVE Kept(g)'
      BY <1>c DEF Kept, DirectoryOK
    <2>7. OneAttended'
      BY DEF OneAttended, Helper!Ended, HelperOK
    <2>8. ASSUME Calm, NEW g \in Helpers, attended'[g] PROVE Progress(g)'
      BY <2>8, <1>c DEF WholeBundles, Progress, DirectoryOK, RevisionOK, Named
    <2> QED BY <2>1, <2>2, <2>3, <2>4, <2>5, <2>6, <2>7, <2>8 DEF WholeBundles
  <1>8. ASSUME NEW h \in Helpers, Helper!Unpack(h)
        PROVE  HelperInv'
    <2> USE <1>8 DEF Helper!Unpack
    <2>1. FunctionsOK'
      BY DEF HelperOK, RevisionOK, Removals
    <2>2. ASSUME NEW g \in Helpers PROVE HelperOK(g)'
      BY DEF HelperOK, Removals, Helper!NotCleaning
    <2>3. ASSUME NEW g \in Helpers PROVE DirectoryOK(g)'
      BY DEF DirectoryOK
    <2>4. ASSUME NEW g \in Helpers PROVE RevisionOK(g)'
      BY DEF RevisionOK, DirectoryOK
    <2>5. Named'
      BY DEF Named, DirectoryOK
    <2>6. ASSUME NEW g \in Helpers PROVE Kept(g)'
      BY <1>c DEF Kept, DirectoryOK
    <2>7. OneAttended'
      BY DEF OneAttended, Helper!Ended, HelperOK
    <2>8. ASSUME Calm, NEW g \in Helpers, attended'[g] PROVE Progress(g)'
      BY <2>8, <1>c DEF WholeBundles, Progress, HelperOK, RevisionOK, Named
    <2> QED BY <2>1, <2>2, <2>3, <2>4, <2>5, <2>6, <2>7, <2>8 DEF WholeBundles
  <1>9. ASSUME NEW h \in Helpers, Helper!Install(h)
        PROVE  HelperInv'
    <2> USE <1>9 DEF Helper!Install
    <2>1. FunctionsOK'
      BY DEF HelperOK, RevisionOK, Removals
    <2>2. ASSUME NEW g \in Helpers PROVE HelperOK(g)'
      BY DEF HelperOK, Removals, Helper!NotCleaning
    <2>3. ASSUME NEW g \in Helpers PROVE DirectoryOK(g)'
      BY DEF DirectoryOK
    <2>4. ASSUME NEW g \in Helpers PROVE RevisionOK(g)'
      BY DEF RevisionOK, DirectoryOK
    <2>5. Named'
      BY DEF Named, DirectoryOK
    <2>6. ASSUME NEW g \in Helpers PROVE Kept(g)'
      <3>1. Helper!Cleared(g)' <=> Helper!Cleared(g)
        BY DEF Helper!Cleared, Helper!Clearing
      <3> QED BY <3>1 DEF Kept, DirectoryOK
    <2>7. OneAttended'
      BY DEF OneAttended, Helper!Ended, HelperOK
    <2>8. ASSUME Calm, NEW g \in Helpers, attended'[g] PROVE Progress(g)'
      BY <2>8, <1>c DEF WholeBundles, Progress, HelperOK, RevisionOK, Named
    <2> QED BY <2>1, <2>2, <2>3, <2>4, <2>5, <2>6, <2>7, <2>8 DEF WholeBundles
  <1>10. ASSUME NEW h \in Helpers, Helper!Hash(h)
        PROVE  HelperInv'
    <2> USE <1>10 DEF Helper!Hash
    <2>p. PICK groups \in SUBSET files[h] :
            /\ groups = files[h] \/ Helper!Cleared(h)
            /\ revision' = [revision EXCEPT ![h] = Helper!Files(bundle[h], groups)]
            /\ step' = [step EXCEPT ![h] = IF named[Helper!Files(bundle[h], groups)] = None
                                           THEN "place" ELSE "lock"]
      OBVIOUS
    <2> DEFINE d == Helper!Files(bundle[h], groups)
    <2>d. d \in Helper!Trees /\ d # None /\ d.of = bundle[h] /\ d.groups = groups
      <3>1. bundle[h] \in Contents /\ groups \in SUBSET Helper!Groups
        BY DEF HelperOK
      <3> QED BY <3>1, FilesAreTrees
    <2>u. /\ step[h] = "hash" /\ revision' = [revision EXCEPT ![h] = d]
          /\ step' = [step EXCEPT ![h] = IF named[d] = None THEN "place" ELSE "lock"]
          /\ UNCHANGED <<bundle, attended, cleaning, files, where, named, followed, verifying, kills>>
      BY <2>p
    <2> HIDE DEF d
    <2> HIDE <1>10
    <2>1. FunctionsOK'
      BY <2>d, <2>u
    <2>2. ASSUME NEW g \in Helpers PROVE HelperOK(g)'
      BY <2>u DEF HelperOK
    <2>3. ASSUME NEW g \in Helpers PROVE DirectoryOK(g)'
      BY <2>u DEF DirectoryOK
    <2>4. ASSUME NEW g \in Helpers PROVE RevisionOK(g)'
      BY <2>d, <2>u DEF RevisionOK, DirectoryOK
    <2>5. Named'
      BY <2>u DEF Named, DirectoryOK
    <2>6. ASSUME NEW g \in Helpers PROVE Kept(g)'
      <3>1. CASE g # h
        BY <1>c, <2>u, <3>1 DEF Kept
      <3>2. CASE g = h
        <4>1. h \notin followed => groups = files[h] /\ ~Helper!Cleared(h)
          BY <2>p, <2>u DEF Kept, DirectoryOK
        <4>2. where[h] = "upload"
          BY <2>u DEF DirectoryOK
        <4> QED BY <1>c, <2>d, <2>u, <3>2, <4>1, <4>2 DEF Kept
      <3> QED BY <3>1, <3>2
    <2>7. OneAttended'
      BY <2>u DEF OneAttended, Helper!Ended, HelperOK
    <2>8. ASSUME Calm, NEW g \in Helpers, attended'[g] PROVE Progress(g)'
      <3>1. attended[g] /\ Progress(g) /\ UNCHANGED <<bundle, files, named, where>>
        BY <2>u, <2>8 DEF WholeBundles
      <3>2. CASE g # h
        BY <1>c, <2>u, <3>1, <3>2 DEF Progress, RevisionOK, Named, WholeName, Helper!Files
      <3>3. CASE g = h
        <4>1. ~Helper!Cleared(h) /\ files[h] = Helper!Groups
          BY <2>u, <2>8, <3>1, <3>3, NoneCleared DEF Helper!Ended, Progress
        <4>2. d = WholeName(bundle[h])
          BY <2>p, <4>1 DEF d, WholeName
        <4>3. revision'[h] = WholeName(bundle[h])' /\ step'[h] \in {"place", "lock"}
          BY <2>u, <4>2 DEF WholeName, Helper!Files
        <4> QED BY <2>u, <3>1, <3>3, <4>1, <4>3 DEF Progress
      <3> QED BY <3>2, <3>3
    <2> QED BY <2>1, <2>2, <2>3, <2>4, <2>5, <2>6, <2>7, <2>8 DEF WholeBundles
  <1>11. ASSUME NEW h \in Helpers, Helper!Place(h)
        PROVE  HelperInv'
    <2> USE <1>11 DEF Helper!Place
    <2> DEFINE there == named[revision[h]]
    <2>r. /\ revision[h] \in Helper!Trees /\ there \in Helpers \cup {None} /\ where[h] = "upload"
          /\ there # None => where[there] = "revision" /\ revision[there] = revision[h] /\ there # h
      BY DEF RevisionOK, DirectoryOK, Named
    <2>a. CASE /\ there = None \/ (there \in followed /\ files[there] = {})
               /\ named' = [named EXCEPT ![revision[h]] = h]
               /\ where' = [g \in Helpers |-> IF g = h THEN "revision"
                                              ELSE IF g = there THEN "none" ELSE where[g]]
               /\ Helper!Goto(h, "exit")
      <3> HIDE <1>11
      <3>u. /\ step[h] = "place" /\ step' = [step EXCEPT ![h] = "exit"]
            /\ UNCHANGED <<bundle, attended, cleaning, files, followed, revision, verifying, kills>>
        BY <1>11, <2>a
      <3>1. FunctionsOK'
        BY <2>r, <2>a, <3>u
      <3>2. ASSUME NEW g \in Helpers PROVE HelperOK(g)'
        BY <3>u DEF HelperOK, Removals, Helper!NotCleaning
      <3>w. /\ where'[h] = "revision" /\ (there # None => where'[there] = "none" /\ files[there] = {})
            /\ \A g \in Helpers : g # h /\ g # there => where'[g] = where[g]
        BY <2>r, <2>a
      <3>n. named'[revision[h]] = h /\ \A t \in Helper!Trees : t # revision[h] => named'[t] = named[t]
        BY <2>r, <2>a
      <3> HIDE DEF there
      <3> HIDE <2>a
      <3>3. ASSUME NEW g \in Helpers PROVE DirectoryOK(g)'
        BY <2>r, <3>u, <3>w DEF DirectoryOK
      <3>4. ASSUME NEW g \in Helpers PROVE RevisionOK(g)'
        BY <2>r, <3>u, <3>w, <3>n DEF RevisionOK
      <3>5. Named'
        <4> SUFFICES ASSUME NEW t \in Helper!Trees, named'[t] # None
                     PROVE  where'[named'[t]] = "revision" /\ revision'[named'[t]] = t
          BY DEF Named
        <4>1. CASE t = revision[h]
          BY <3>u, <3>w, <3>n, <4>1
        <4>2. CASE t # revision[h]
          <5>1. named'[t] = named[t] /\ where[named[t]] = "revision" /\ revision[named[t]] = t /\ named[t] \in Helpers
            BY <3>n, <4>2 DEF Named
          <5>2. named[t] # h /\ named[t] # there
            BY <2>r, <4>2, <5>1 DEF there
          <5> QED BY <3>u, <3>w, <5>1, <5>2
        <4> QED BY <4>1, <4>2
      <3>6. ASSUME NEW g \in Helpers PROVE Kept(g)'
        BY <1>c, <2>r, <3>u, <3>w DEF Kept
      <3>7. OneAttended'
        BY <3>u DEF OneAttended, Helper!Ended
      <3>8. ASSUME Calm, NEW g \in Helpers, attended'[g] PROVE Progress(g)'
        <4>1. attended[g] /\ Progress(g)
          BY <3>u, <3>8 DEF WholeBundles
        <4>2. CASE g = h
          <5>1. ~Helper!Cleared(h) /\ files[h] = Helper!Groups /\ revision[h] = WholeName(bundle[h])
            BY <3>u, <3>8, <4>1, <4>2, NoneCleared DEF Helper!Ended, Progress
          <5>2. ~Helper!Cleared(h)'
            BY <1>c, <2>r, <5>1
          <5> QED BY <3>u, <3>n, <4>2, <5>1, <5>2 DEF Progress, WholeName, Helper!Files
        <4>3. CASE g # h /\ step[g] \in {"exit", "done"}
          <5> DEFINE r == revision[g]
          <5>1. /\ r \in Helper!Trees /\ named[r] \in Helpers /\ where[named[r]] = "revision"
                /\ files[named[r]] = Helper!Groups /\ ~Helper!Cleared(named[r]) /\ r = WholeName(bundle[g])
            BY <4>1, <4>3 DEF RevisionOK, Named, Progress
          <5>2. ASSUME r = revision[h] PROVE FALSE
            <6>1. there = named[r]
              BY <5>2 DEF there
            <6>2. there \in Helpers /\ files[there] = Helper!Groups
              BY <5>1, <6>1
            <6>3. files[there] = {}
              BY <3>w, <6>2, WriterAssumption
            <6> QED BY <6>2, <6>3 DEF Helper!Groups
          <5>3. named'[r] = named[r]
            BY <3>n, <5>1, <5>2
          <5>4. PICK d \in Helpers : d = named[r]
            BY <5>1
          <5>5. where[d] # "staging" /\ ~Helper!Cleared(d)
            BY <5>1, <5>4
          <5>6. ~Helper!Cleared(d)'
            BY <1>c, <5>5
          <5> QED BY <3>u, <4>1, <4>3, <5>1, <5>3, <5>4, <5>6 DEF Progress, WholeName, Helper!Files
        <4>4. CASE g # h /\ step[g] \notin {"exit", "done"}
          BY <3>u, <4>1, <4>4 DEF Progress, WholeName, Helper!Files
        <4> QED BY <4>2, <4>3, <4>4
      <3> QED BY <3>1, <3>2, <3>3, <3>4, <3>5, <3>6, <3>7, <3>8 DEF WholeBundles
    <2>b. CASE there # None /\ Helper!Goto(h, "lock") /\ UNCHANGED <<named, where>>
      <3> HIDE <1>11
      <3>u. /\ step[h] = "place" /\ step' = [step EXCEPT ![h] = "lock"] /\ UNCHANGED <<named, where>>
            /\ UNCHANGED <<bundle, attended, cleaning, files, followed, revision, verifying, kills>>
        BY <1>11, <2>b
      <3>1. FunctionsOK'
        BY <3>u
      <3>2. ASSUME NEW g \in Helpers PROVE HelperOK(g)'
        BY <3>u DEF HelperOK, Removals, Helper!NotCleaning
      <3>3. ASSUME NEW g \in Helpers PROVE DirectoryOK(g)'
        BY <3>u DEF DirectoryOK
      <3>4. ASSUME NEW g \in Helpers PROVE RevisionOK(g)'
        BY <2>b, <3>u DEF RevisionOK
      <3>5. Named'
        BY <3>u DEF Named
      <3>6. ASSUME NEW g \in Helpers PROVE Kept(g)'
        BY <1>c, <3>u DEF Kept
      <3>7. OneAttended'
        BY <3>u DEF OneAttended, Helper!Ended
      <3>8. ASSUME Calm, NEW g \in Helpers, attended'[g] PROVE Progress(g)'
        <4>1. attended[g] /\ Progress(g)
          BY <3>u, <3>8 DEF WholeBundles
        <4> QED BY <1>c, <3>u, <4>1 DEF Progress, RevisionOK, Named, WholeName, Helper!Files
      <3> QED BY <3>1, <3>2, <3>3, <3>4, <3>5, <3>6, <3>7, <3>8 DEF WholeBundles
    <2> QED BY <2>a, <2>b
  <1>12. ASSUME NEW h \in Helpers, Helper!Lock(h)
        PROVE  HelperInv'
    <2> USE <1>12 DEF Helper!Lock
    <2>1. FunctionsOK'
      BY DEF HelperOK, RevisionOK, Removals
    <2>2. ASSUME NEW g \in Helpers PROVE HelperOK(g)'
      BY DEF HelperOK, Removals, Helper!NotCleaning
    <2>3. ASSUME NEW g \in Helpers PROVE DirectoryOK(g)'
      BY DEF DirectoryOK
    <2>4. ASSUME NEW g \in Helpers PROVE RevisionOK(g)'
      BY DEF RevisionOK, DirectoryOK
    <2>5. Named'
      BY DEF Named, DirectoryOK
    <2>6. ASSUME NEW g \in Helpers PROVE Kept(g)'
      BY <1>c DEF Kept, DirectoryOK
    <2>7. OneAttended'
      BY DEF OneAttended, Helper!Ended, HelperOK
    <2>8. ASSUME Calm, NEW g \in Helpers, attended'[g] PROVE Progress(g)'
      BY <2>8, <1>c DEF WholeBundles, Progress, HelperOK, RevisionOK, Named
    <2> QED BY <2>1, <2>2, <2>3, <2>4, <2>5, <2>6, <2>7, <2>8 DEF WholeBundles
  <1>13. ASSUME NEW h \in Helpers, Helper!Verify(h)
        PROVE  HelperInv'
    <2> USE <1>13 DEF Helper!Verify
    <2>1. FunctionsOK'
      BY DEF HelperOK, RevisionOK, Removals
    <2>2. ASSUME NEW g \in Helpers PROVE HelperOK(g)'
      BY DEF HelperOK, Removals, Helper!NotCleaning
    <2>3. ASSUME NEW g \in Helpers PROVE DirectoryOK(g)'
      BY DEF DirectoryOK
    <2>4. ASSUME NEW g \in Helpers PROVE RevisionOK(g)'
      BY DEF RevisionOK, DirectoryOK
    <2>5. Named'
      BY DEF Named, DirectoryOK
    <2>6. ASSUME NEW g \in Helpers PROVE Kept(g)'
      BY <1>c DEF Kept, DirectoryOK
    <2>7. OneAttended'
      BY DEF OneAttended, Helper!Ended, HelperOK
    <2>8. ASSUME Calm, NEW g \in Helpers, attended'[g] PROVE Progress(g)'
      <3> HIDE <1>13
      <3>u. /\ step[h] = "verify" /\ step' = [step EXCEPT ![h] = step'[h]] /\ step'[h] \in {"exit", "failed"}
            /\ step'[h] = "exit" => \/ files[named[revision[h]]] = revision[h].groups
                                    \/ Helper!Cleared(named[revision[h]])
            /\ files' = [files EXCEPT ![h] = {}] /\ UNCHANGED <<bundle, attended, cleaning, named, revision>>
        BY <1>13
      <3>1. attended[g] /\ Progress(g) /\ where[h] = "upload"
        BY <3>u, <2>8 DEF WholeBundles, DirectoryOK
      <3>2. ASSUME step'[g] \in {"exit", "done"}
            PROVE  /\ revision[g] \in Helper!Trees /\ named[revision[g]] \in Helpers \ {h}
                   /\ where[named[revision[g]]] = "revision"
        BY <3>u, <3>1, <3>2 DEF RevisionOK, Named
      <3>3. CASE g # h
        BY <1>c, <3>u, <3>1, <3>2, <3>3 DEF Progress, WholeName, Helper!Files
      <3>4. CASE g = h /\ step'[h] = "exit"
        <4>1. revision[h] = WholeName(bundle[h]) /\ ~Helper!Cleared(named[revision[h]])
          BY <3>u, <2>8, <3>1, <3>2, <3>4, NoneCleared DEF Helper!Ended, Progress
        <4>2. revision[h].groups = Helper!Groups
          <5>1. bundle[h] \in Contents
            BY <3>u DEF HelperOK
          <5> QED BY <4>1, <5>1, FilesAreTrees DEF WholeName
        <4>3. files'[named[revision[h]]] = Helper!Groups /\ ~Helper!Cleared(named[revision[h]])'
          BY <1>c, <3>u, <3>2, <3>4, <4>1, <4>2
        <4> QED BY <3>u, <3>4, <4>1, <4>3 DEF Progress, WholeName, Helper!Files
      <3>5. CASE g = h /\ step'[h] = "failed"
        BY <3>5 DEF Progress
      <3> QED BY <3>u, <3>3, <3>4, <3>5
    <2> QED BY <2>1, <2>2, <2>3, <2>4, <2>5, <2>6, <2>7, <2>8 DEF WholeBundles
  <1>14. ASSUME NEW h \in Helpers, Helper!Exit(h)
        PROVE  HelperInv'
    <2> USE <1>14 DEF Helper!Exit
    <2>1. FunctionsOK'
      BY DEF HelperOK, RevisionOK, Removals
    <2>2. ASSUME NEW g \in Helpers PROVE HelperOK(g)'
      BY DEF HelperOK, Removals, Helper!NotCleaning
    <2>3. ASSUME NEW g \in Helpers PROVE DirectoryOK(g)'
      BY DEF DirectoryOK
    <2>4. ASSUME NEW g \in Helpers PROVE RevisionOK(g)'
      BY DEF RevisionOK, DirectoryOK
    <2>5. Named'
      BY DEF Named, DirectoryOK
    <2>6. ASSUME NEW g \in Helpers PROVE Kept(g)'
      BY <1>c DEF Kept, DirectoryOK
    <2>7. OneAttended'
      BY DEF OneAttended, Helper!Ended, HelperOK
    <2>8. ASSUME Calm, NEW g \in Helpers, attended'[g] PROVE Progress(g)'
      BY <2>8, <1>c DEF WholeBundles, Progress, HelperOK, RevisionOK, Named
    <2> QED BY <2>1, <2>2, <2>3, <2>4, <2>5, <2>6, <2>7, <2>8 DEF WholeBundles
  <1>15. ASSUME NEW h \in Helpers, Helper!Fails(h)
        PROVE  HelperInv'
    <2> USE <1>15 DEF Helper!Fails
    <2>1. FunctionsOK'
      <3>1. Helper!NotCleaning \in Removals
        BY DEF Helper!NotCleaning, Removals
      <3>2. cleaning' \in [Helpers -> Removals]
        BY <3>1
      <3>3. step' \in [Helpers -> HelperSteps] /\ kills' \in 0..MaxKills
        OBVIOUS
      <3>4. files' \in [Helpers -> SUBSET Helper!Groups]
        OBVIOUS
      <3>5. where' \in [Helpers -> {"none", "staging", "upload", "revision"}]
        OBVIOUS
      <3> QED BY <3>2, <3>3, <3>4, <3>5
    <2>2. ASSUME NEW g \in Helpers PROVE HelperOK(g)'
      BY DEF HelperOK, Removals, Helper!NotCleaning
    <2>3. ASSUME NEW g \in Helpers PROVE DirectoryOK(g)'
      BY DEF DirectoryOK
    <2>4. ASSUME NEW g \in Helpers PROVE RevisionOK(g)'
      BY DEF RevisionOK, DirectoryOK
    <2>5. Named'
      BY DEF Named, DirectoryOK
    <2>6. ASSUME NEW g \in Helpers PROVE Kept(g)'
      BY <1>c DEF Kept, DirectoryOK
    <2>7. OneAttended'
      BY DEF OneAttended, Helper!Ended, HelperOK
    <2>8. ASSUME Calm, NEW g \in Helpers, attended'[g] PROVE Progress(g)'
      <3> HIDE <1>15
      <3>u. /\ step' = [step EXCEPT ![h] = "failed"] /\ files' = [files EXCEPT ![h] = {}]
            /\ UNCHANGED <<bundle, attended, named, revision>> /\ where[h] # "revision"
        BY <1>15 DEF DirectoryOK
      <3>1. attended[g] /\ Progress(g)
        BY <3>u, <2>8 DEF WholeBundles
      <3>2. ASSUME step'[g] \in {"exit", "done"}
            PROVE  /\ revision[g] \in Helper!Trees /\ named[revision[g]] \in Helpers \ {h}
                   /\ where[named[revision[g]]] = "revision"
        BY <3>u, <3>1, <3>2 DEF RevisionOK, Named
      <3>3. CASE g # h
        BY <1>c, <3>u, <3>1, <3>2, <3>3 DEF Progress, WholeName, Helper!Files
      <3>4. CASE g = h
        BY <3>u, <3>4 DEF Progress
      <3> QED BY <3>3, <3>4
    <2> QED BY <2>1, <2>2, <2>3, <2>4, <2>5, <2>6, <2>7, <2>8 DEF WholeBundles
  <1>16. ASSUME NEW h \in Helpers, Helper!Kill(h)
        PROVE  HelperInv'
    <2> USE <1>16 DEF Helper!Kill
    <2>1. FunctionsOK'
      <3>1. Helper!NotCleaning \in Removals
        BY DEF Helper!NotCleaning, Removals
      <3>2. cleaning' \in [Helpers -> Removals]
        BY <3>1
      <3>3. step' \in [Helpers -> HelperSteps] /\ kills' \in 0..MaxKills
        OBVIOUS
      <3>4. files' \in [Helpers -> SUBSET Helper!Groups]
        OBVIOUS
      <3>5. where' \in [Helpers -> {"none", "staging", "upload", "revision"}]
        OBVIOUS
      <3> QED BY <3>2, <3>3, <3>4, <3>5
    <2>2. ASSUME NEW g \in Helpers PROVE HelperOK(g)'
      <3>1. CASE g # h
        BY <3>1 DEF HelperOK
      <3>2. CASE g = h
        BY <3>2 DEF HelperOK, Helper!NotCleaning, Helper!Ended
      <3> QED BY <3>1, <3>2
    <2>3. ASSUME NEW g \in Helpers PROVE DirectoryOK(g)'
      BY DEF DirectoryOK
    <2>4. ASSUME NEW g \in Helpers PROVE RevisionOK(g)'
      BY DEF RevisionOK, DirectoryOK
    <2>5. Named'
      BY DEF Named, DirectoryOK
    <2>6. ASSUME NEW g \in Helpers PROVE Kept(g)'
      BY <1>c DEF Kept, DirectoryOK
    <2>7. OneAttended'
      BY DEF OneAttended, Helper!Ended, HelperOK
    <2>8. ASSUME Calm, NEW g \in Helpers, attended'[g] PROVE Progress(g)'
      BY <2>8, <1>c DEF WholeBundles, Progress, HelperOK, RevisionOK, Named
    <2> QED BY <2>1, <2>2, <2>3, <2>4, <2>5, <2>6, <2>7, <2>8 DEF WholeBundles
  <1>17. ASSUME NEW t \in Helper!Trees, Helper!LockAges(t)
        PROVE  HelperInv'
    <2> USE <1>17 DEF Helper!LockAges
    <2>1. FunctionsOK'
      BY DEF HelperOK, RevisionOK, Removals
    <2>2. ASSUME NEW g \in Helpers PROVE HelperOK(g)'
      BY DEF HelperOK, Removals, Helper!NotCleaning
    <2>3. ASSUME NEW g \in Helpers PROVE DirectoryOK(g)'
      BY DEF DirectoryOK
    <2>4. ASSUME NEW g \in Helpers PROVE RevisionOK(g)'
      BY DEF RevisionOK, DirectoryOK
    <2>5. Named'
      BY DEF Named, DirectoryOK
    <2>6. ASSUME NEW g \in Helpers PROVE Kept(g)'
      BY <1>c DEF Kept, DirectoryOK
    <2>7. OneAttended'
      BY DEF OneAttended, Helper!Ended, HelperOK
    <2>8. ASSUME Calm, NEW g \in Helpers, attended'[g] PROVE Progress(g)'
      BY <2>8, <1>c DEF WholeBundles, Progress, HelperOK, RevisionOK, Named
    <2> QED BY <2>1, <2>2, <2>3, <2>4, <2>5, <2>6, <2>7, <2>8 DEF WholeBundles
  <1>18. CASE UNCHANGED Helper!helperVars
    BY <1>18 DEF Helper!helperVars, Helper!directories, Removals, HelperOK, DirectoryOK, RevisionOK, Named, Kept,
       Helper!Cleared, Helper!Clearing, OneAttended, WholeBundles, Progress, Helper!Ended, WholeName, Helper!Files
  <1> QED BY <1>1, <1>2, <1>3, <1>4, <1>5, <1>6, <1>7, <1>8, <1>9, <1>10, <1>11, <1>12, <1>13, <1>14, <1>15, <1>16, <1>17, <1>18 DEF Helper!Next, Helper!Cleaning

-----------------------------------------------------------------------------
(* What the directories of the helpers promise.                             *)

\* The inductive invariant holds in every behaviour of the helpers.
THEOREM HelperInvariance == Helper!Spec => []HelperInv
  <1>1. Helper!Init => HelperInv
    BY HelperInit
  <1>2. HelperInv /\ [Helper!Next]_(Helper!helperVars) => HelperInv'
    BY HelperNext
  <1> QED BY <1>1, <1>2, PTL DEF Helper!Spec

\* Every helper has the directory its next step needs, for any number of them.
THEOREM HelperTypeCorrect == Helper!Spec => []Helper!TypeOK
  <1>1. HelperInv => Helper!TypeOK
    BY WriterAssumption, SyncAssumption
       DEF HelperInv, FunctionsOK, HelperOK, DirectoryOK, RevisionOK, Helper!TypeOK, HelperSteps, OptTree,
           Removals, Helper!Groups
  <1> QED BY <1>1, HelperInvariance, PTL

\* A directory under the digest of a named tree has that content.
LEMMA NamedAreExact ==
  ASSUME HelperInv, NEW t \in Helper!Trees, named[t] # None
  PROVE  Helper!Exact(t) \/ named[t] \in followed
  <1>1. /\ named[t] \in Helpers /\ where[named[t]] = "revision" /\ revision[named[t]] = t
        /\ t.of = bundle[named[t]]
    BY WriterAssumption DEF HelperInv, FunctionsOK, Named, RevisionOK
  <1>2. named[t] \notin followed => t.groups = files[named[t]]
    BY <1>1 DEF HelperInv, Kept
  <1>3. t = [of |-> t.of, groups |-> t.groups]
    BY DEF Helper!Trees
  <1> QED BY <1>1, <1>2, <1>3 DEF Helper!Exact, Helper!Files

\* A directory is never under the name of other content, whatever helpers are lost
\* or killed, and remove leftovers beside each other: but for one that was renamed
\* under a helper that had begun to remove it (MaterializedExact, its first half).
THEOREM NamesAreDigests ==
  Helper!Spec => [](\A t \in Helper!Trees : named[t] # None => Helper!Exact(t) \/ named[t] \in followed)
  <1>1. HelperInv => \A t \in Helper!Trees : named[t] # None => Helper!Exact(t) \/ named[t] \in followed
    BY NamedAreExact
  <1> QED BY <1>1, HelperInvariance, PTL

\* What is in place stays: no step removes or replaces a directory with a digest
\* or a file in it, except in one that was renamed under a helper that removes it,
\* and there remains a directory of that name even then.
THEOREM PlacedStays ==
  Helper!Spec =>
    [][\A t \in Helper!Trees : named[t] # None =>
         /\ named'[t] # None
         /\ named[t] \notin followed => named'[t] = named[t] /\ files'[named[t]] = files[named[t]]
      ]_<<named, files>>
  <1> DEFINE Stays == \A t \in Helper!Trees : named[t] # None =>
                /\ named'[t] # None
                /\ named[t] \notin followed => named'[t] = named[t] /\ files'[named[t]] = files[named[t]]
  <1>1. ASSUME HelperInv, [Helper!Next]_(Helper!helperVars) PROVE [Stays]_<<named, files>>
    <2> USE <1>1, WriterAssumption DEF HelperInv, FunctionsOK, Helper!directories
    <2>1. ASSUME NEW t \in Helper!Trees, named[t] # None
          PROVE  /\ named[t] \in Helpers /\ where[named[t]] = "revision"
                 /\ step[named[t]] \in {"exit", "done", "killed"}
                 /\ named[t] \notin followed => ~Helper!Cleared(named[t])
      BY <2>1 DEF Named, DirectoryOK, Kept
    <2>2. ASSUME NEW h \in Helpers, Helper!Unlink(h) PROVE Stays
      <3>1. /\ files' = [files EXCEPT ![cleaning[h].dir] = files'[cleaning[h].dir]]
            /\ Helper!Cleared(cleaning[h].dir) /\ UNCHANGED named
        BY <2>2 DEF Helper!Unlink, Removals, Helper!Cleared, Helper!Clearing
      <3> QED BY <2>1, <3>1
    <2>3. ASSUME NEW h \in Helpers,
                 Helper!Unpack(h) \/ Helper!Verify(h) \/ Helper!Fails(h)
          PROVE  Stays
      <3>1. /\ files' = [files EXCEPT ![h] = files'[h]] /\ UNCHANGED named
            /\ step[h] \notin {"exit", "done", "killed"}
        BY <2>3 DEF Helper!Unpack, Helper!Verify, Helper!Fails, Helper!Groups
      <3> QED BY <2>1, <3>1
    <2>4. ASSUME NEW h \in Helpers, Helper!Place(h) PROVE Stays
      <3>1. UNCHANGED files
        BY <2>4 DEF Helper!Place
      <3>2. CASE UNCHANGED named
        BY <3>1, <3>2
      <3>3. CASE /\ named[revision[h]] = None \/ named[revision[h]] \in followed
                 /\ named' = [named EXCEPT ![revision[h]] = h]
        BY <3>1, <3>3
      <3> QED BY <2>4, <3>2, <3>3 DEF Helper!Place
    <2>5. CASE UNCHANGED <<named, files>>
      BY <2>5
    <2> QED BY <2>2, <2>3, <2>4, <2>5
         DEF Helper!Next, Helper!helperVars, Helper!Cleaning, Helper!Start, Helper!Abandon, Helper!List, Helper!OpenDir,
             Helper!RemoveDir, Helper!Cleaned, Helper!Install, Helper!Hash, Helper!Lock, Helper!Exit, Helper!Kill,
             Helper!LockAges
  <1> HIDE DEF Stays
  <1>2. HelperInv /\ [Helper!Next]_(Helper!helperVars) => [Stays]_<<named, files>>
    BY <1>1
  <1>3. Helper!Spec => [][Stays]_<<named, files>>
    BY <1>2, HelperInvariance, PTL DEF Helper!Spec
  <1> QED BY <1>3 DEF Stays

-----------------------------------------------------------------------------
(* A helper is one step of ContextUpload.                                   *)

\* A step of one helper moves its pod, and no other.
LEMMA PodOf ==
  ASSUME FunctionsOK, NEW h \in Helpers, NEW pod,
         \A g \in Helpers \ {h} : /\ step'[g] = step[g] /\ revision'[g] = revision[g]
                                  /\ bundle'[g] = bundle[g],
         HelperPods'[h] = pod
  PROVE  HelperPods' = [HelperPods EXCEPT ![h] = pod]
  <1>1. /\ HelperPods = [g \in Helpers |-> HelperPods[g]]
        /\ HelperPods' = [g \in Helpers |-> HelperPods'[g]]
    BY DEF HelperPods
  <1>2. \A g \in Helpers \ {h} : HelperPods'[g] = HelperPods[g]
    BY DEF HelperPods, Phase, Whole, WholeName, Helper!Files
  <1>3. HelperPods' = [g \in Helpers |-> IF g = h THEN pod ELSE HelperPods[g]]
    BY <1>1, <1>2
  <1> QED BY <1>1, <1>3

\* The name of a whole bundle is a digest.
LEMMA WholeNames ==
  ASSUME NEW c \in Contents
  PROVE  /\ WholeName(c) \in Helper!Trees /\ WholeName(c) # None
         /\ WholeName(c).of = c /\ WholeName(c).groups = Helper!Groups
  BY FilesAreTrees DEF WholeName

\* What a helper has written does not change when another one works, although its
\* directory may be removed or replaced.
LEMMA WroteOf ==
  ASSUME HelperInv, [Helper!Next]_(Helper!helperVars), NEW g \in Helpers,
         step'[g] = step[g], bundle'[g] = bundle[g], revision'[g] = revision[g]
  PROVE  Wrote(g)' <=> Wrote(g)
  <1> USE WriterAssumption, SyncAssumption DEF HelperInv, FunctionsOK, Helper!directories, Helper!Goto
  <1>1. (Whole(g))' <=> Whole(g)
    BY DEF Whole, WholeName, Helper!Files
  <1>2. CASE where'[g] = where[g]
    BY <1>1, <1>2 DEF Wrote
  <1>3. CASE where[g] = "staging"
    <2>1. bundle[g] \in Contents /\ revision[g] = None
      BY <1>3 DEF HelperOK, DirectoryOK, RevisionOK
    <2>2. ~Whole(g)
      BY <2>1, WholeNames DEF Whole
    <2> QED BY <1>1, <2>2 DEF Wrote
  <1>4. CASE where[g] = "revision" /\ where'[g] = "none"
    BY <1>1, <1>4 DEF Wrote
  <1>5. CASE step[g] \notin {"exit", "done", "killed"}
    BY <1>5 DEF Wrote
  <1>6. ASSUME NEW h \in Helpers, Helper!RemoveDir(h) PROVE where'[g] = where[g] \/ where[g] = "staging"
    BY <1>6 DEF Helper!RemoveDir
  <1>7. ASSUME NEW h \in Helpers, Helper!Place(h), step[g] \in {"exit", "done", "killed"}
        PROVE  where'[g] = where[g] \/ (where[g] = "revision" /\ where'[g] = "none")
    <2>1. g # h
      BY <1>7 DEF Helper!Place
    <2>2. revision[h] \in Helper!Trees
      BY <1>7 DEF Helper!Place, RevisionOK, OptTree
    <2> QED BY <1>7, <2>1, <2>2 DEF Helper!Place, Named
  <1>8. ASSUME NEW h \in Helpers, where' = [where EXCEPT ![h] = where'[h]],
               step[h] \notin {"exit", "done", "killed"}, step[g] \in {"exit", "done", "killed"}
        PROVE  where'[g] = where[g]
    BY <1>8
  <1>9. CASE UNCHANGED where
    BY <1>2, <1>9
  <1>10. ASSUME NEW h \in Helpers,
                Helper!Cleaned(h) \/ Helper!Unpack(h) \/ Helper!Install(h) \/ Helper!Verify(h) \/ Helper!Fails(h)
         PROVE  where' = [where EXCEPT ![h] = where'[h]] /\ step[h] \notin {"exit", "done", "killed"}
    BY <1>10 DEF Helper!Cleaned, Helper!Unpack, Helper!Install, Helper!Verify, Helper!Fails, Helper!Groups
  <1> QED
    BY <1>2, <1>3, <1>4, <1>5, <1>6, <1>7, <1>8, <1>9, <1>10
       DEF Helper!Next, Helper!helperVars, Helper!Cleaning, Helper!Start, Helper!Abandon, Helper!List, Helper!OpenDir,
           Helper!Unlink, Helper!Hash, Helper!Lock, Helper!Exit, Helper!Kill, Helper!LockAges

\* Every step of the helpers is one of ContextUpload, or none.
LEMMA StepAtOnce ==
  ASSUME HelperInv, [Helper!Next]_(Helper!helperVars)
  PROVE  [\E h \in Helpers : \/ Sent(h) \/ Service!HelperWorks(h)
                             \/ Service!HelperRejects(h) \/ Service!PodKilled(h)
         ]_<<HelperPods, Volume, Written>>
  <1> DEFINE Moves == [\E h \in Helpers : \/ Sent(h) \/ Service!HelperWorks(h)
                                          \/ Service!HelperRejects(h) \/ Service!PodKilled(h)
                      ]_<<HelperPods, Volume, Written>>
             Busy == {"clean", "remove", "early", "late", "install", "hash", "place", "lock", "verify"}
             Pod(h, phase) == [phase |-> phase, kind |-> "upload", mount |-> 1, rev |-> bundle[h], cap |-> h]
             Gone == [phase |-> "none", kind |-> "upload", mount |-> 0, rev |-> None, cap |-> None]
             Others(h) == \A g \in Helpers \ {h} : /\ step'[g] = step[g] /\ bundle'[g] = bundle[g]
                                                   /\ revision'[g] = revision[g]
  <1> USE DEF HelperInv, FunctionsOK, HelperSteps, Helper!Groups, Helper!Goto, Helper!directories
  <1>1. ASSUME NEW h \in Helpers, step[h] \in Busy
        PROVE  HelperPods[h] = Pod(h, "working") /\ ~Wrote(h) /\ bundle[h] \in Contents
    BY <1>1 DEF HelperPods, Phase, Wrote, HelperOK
  <1>w. ASSUME NEW h \in Helpers, Others(h) PROVE \A g \in Helpers \ {h} : Wrote(g)' <=> Wrote(g)
    BY <1>w, WroteOf
  \* A step within the work of a helper.
  <1>2. ASSUME NEW h \in Helpers, step[h] \in Busy, step'[h] \in Busy, Others(h), UNCHANGED <<bundle, named>>
        PROVE  Moves
    <2>1. HelperPods'[h] = HelperPods[h] /\ ~Wrote(h)'
      BY <1>2 DEF HelperPods, Phase, Wrote
    <2>2. HelperPods' = [HelperPods EXCEPT ![h] = HelperPods[h]]
      BY <1>2, <2>1, PodOf
    <2>3. HelperPods' = HelperPods
      BY <2>2 DEF HelperPods
    <2>4. \A g \in Helpers : Wrote(g)' <=> Wrote(g)
      BY <1>1, <1>2, <1>w, <2>1
    <2>5. Volume' = Volume /\ Written' = Written
      BY <1>2, <2>4 DEF Volume, Written, WholeName, Helper!Files
    <2> QED BY <2>3, <2>5
  <1>3. ASSUME NEW h \in Helpers, NEW c \in Contents, Helper!Start(h, c) PROVE Sent(h)
    <2>1. /\ step[h] = "new" /\ step' = [step EXCEPT ![h] = "clean"] /\ bundle' = [bundle EXCEPT ![h] = c]
          /\ UNCHANGED <<revision, named>> /\ Others(h)
      BY <1>3 DEF Helper!Start
    <2>2. HelperPods[h] = Pod(h, "running") /\ ~Wrote(h) /\ ~Wrote(h)'
          /\ HelperPods'[h] = [phase |-> "working", kind |-> "upload", mount |-> 1, rev |-> c, cap |-> h]
      BY <2>1 DEF HelperPods, Phase, Wrote
    <2>3. HelperPods' = [HelperPods EXCEPT ![h] = [phase |-> "working", kind |-> "upload", mount |-> 1, rev |-> c, cap |-> h]]
      BY <2>1, <2>2, PodOf
    <2>4. HelperPods' = [HelperPods EXCEPT ![h].phase = "working", ![h].rev = c]
      BY <2>2, <2>3 DEF HelperPods
    <2>5. \A g \in Helpers : Wrote(g)' <=> Wrote(g)
      BY <1>w, <2>1, <2>2
    <2>6. UNCHANGED <<Volume, Written>>
      BY <2>1, <2>5 DEF Volume, Written, WholeName, Helper!Files
    <2>7. HelperPods[h].phase = "running"
      BY <2>2
    <2> QED BY <2>4, <2>6, <2>7 DEF Sent
  \* The end of a helper that has placed nothing the service asked for.
  <1>4. ASSUME NEW h \in Helpers, step[h] \in Busy, step' = [step EXCEPT ![h] = step'[h]],
               step'[h] = "failed" \/ (step'[h] = "exit" /\ ~Whole(h)),
               UNCHANGED <<bundle, revision>>, Volume' = Volume
        PROVE  Service!HelperRejects(h)
    <2>1. HelperPods'[h] = Pod(h, "rejected") /\ ~Wrote(h)' /\ Others(h)
      BY <1>4 DEF HelperPods, Phase, Wrote, Whole, WholeName, Helper!Files
    <2>2. HelperPods' = [HelperPods EXCEPT ![h] = Pod(h, "rejected")]
      BY <1>4, <2>1, PodOf
    <2>3. HelperPods' = [HelperPods EXCEPT ![h].phase = "rejected"]
      BY <1>1, <1>4, <2>2 DEF HelperPods
    <2>4. \A g \in Helpers : Wrote(g)' <=> Wrote(g)
      BY <1>1, <1>4, <1>w, <2>1
    <2>5. Written' = Written
      BY <2>4 DEF Written
    <2>6. HelperPods[h].phase = "working"
      <3>1. HelperPods[h] = Pod(h, "working")
        BY <1>1, <1>4
      <3> QED BY <3>1
    <2> QED BY <1>4, <2>3, <2>5, <2>6 DEF Service!HelperRejects, Service!cluster, Service!ghosts
  \* The step that leaves the whole bundle in place.
  <1>5. ASSUME NEW h \in Helpers, step[h] \in Busy, step' = [step EXCEPT ![h] = "exit"],
               Whole(h), UNCHANGED <<bundle, revision>>,
               Volume' = [u \in {1} |-> Volume[1] \cup {bundle[h]}]
        PROVE  Service!HelperWorks(h)
    <2>1. HelperPods'[h] = Pod(h, "done") /\ Wrote(h)' /\ Others(h)
      BY <1>5 DEF HelperPods, Phase, Wrote, Whole, WholeName, Helper!Files
    <2>2. HelperPods' = [HelperPods EXCEPT ![h] = Pod(h, "done")]
      BY <1>5, <2>1, PodOf
    <2>3. HelperPods' = [HelperPods EXCEPT ![h].phase = "done"]
      BY <1>1, <1>5, <2>2 DEF HelperPods
    <2>4. \A g \in Helpers : Wrote(g)' <=> (Wrote(g) \/ g = h)
      BY <1>w, <2>1
    <2>5. Written' = Written \cup {<<h, 1>>}
      BY <2>4 DEF Written
    <2>6. Volume' = [Volume EXCEPT ![1] = @ \cup {bundle[h]}]
      BY <1>5 DEF Volume
    <2>7. /\ HelperPods[h].phase = "working" /\ HelperPods[h].kind = "upload"
          /\ HelperPods[h].mount = 1 /\ HelperPods[h].rev = bundle[h] /\ HelperPods[h].cap = h
      <3>1. HelperPods[h] = Pod(h, "working")
        BY <1>1, <1>5
      <3> QED BY <3>1
    <2> QED BY <2>3, <2>5, <2>6, <2>7 DEF Service!HelperWorks
  \* Killed before its revision is there, or after.
  <1>6. ASSUME NEW h \in Helpers, Helper!Kill(h) PROVE Moves
    <2>1. /\ step[h] \in Busy \cup {"exit"} /\ step' = [step EXCEPT ![h] = "killed"] /\ Others(h)
          /\ UNCHANGED <<bundle, revision, named, where>>
      BY <1>6 DEF Helper!Kill, Helper!Ended
    <2>2. HelperPods'[h] = Gone
      BY <2>1 DEF HelperPods
    <2>3. HelperPods' = [HelperPods EXCEPT ![h] = Gone]
      BY <2>1, <2>2, PodOf
    <2>4. Wrote(h)' <=> Wrote(h)
      <3>1. (Whole(h))' <=> Whole(h)
        BY <2>1 DEF Whole, WholeName, Helper!Files
      <3>2. CASE step[h] = "exit"
        BY <2>1, <3>1, <3>2 DEF Wrote, DirectoryOK
      <3>3. CASE step[h] \in Busy
        <4>1. Whole(h) => revision[h] # None
          BY <1>1, <3>3, WholeNames DEF Whole
        <4>2. Whole(h) => where[h] = "upload"
          BY <3>3, <4>1 DEF RevisionOK, DirectoryOK
        <4> QED BY <1>1, <2>1, <3>1, <3>3, <4>2 DEF Wrote
      <3> QED BY <2>1, <3>2, <3>3
    <2>5. \A g \in Helpers : Wrote(g)' <=> Wrote(g)
      BY <1>w, <2>1, <2>4
    <2>6. UNCHANGED <<Volume, Written>>
      BY <2>1, <2>5 DEF Volume, Written, WholeName, Helper!Files
    <2>7. HelperPods[h].phase # "none"
      BY <2>1 DEF HelperPods, Phase
    <2>8. Service!PodKilled(h)
      BY <2>3, <2>6, <2>7 DEF Service!PodKilled, Service!cluster, Service!NoPod
    <2> QED BY <2>8
  <1>7. ASSUME NEW h \in Helpers, Helper!Place(h) PROVE Moves
    <2>1. /\ step[h] = "place" /\ UNCHANGED <<bundle, revision>> /\ revision[h] \in Helper!Trees
          /\ revision[h].of = bundle[h] /\ bundle[h] \in Contents
      BY <1>7, WriterAssumption DEF Helper!Place, HelperOK, RevisionOK, OptTree
    <2>2. CASE step' = [step EXCEPT ![h] = "lock"] /\ UNCHANGED named
      BY <1>2, <2>1, <2>2
    <2>3. CASE named' = [named EXCEPT ![revision[h]] = h] /\ step' = [step EXCEPT ![h] = "exit"]
      <3>1. ASSUME NEW c \in Contents
            PROVE  /\ WholeName(c) \in Helper!Trees
                   /\ WholeName(c) = revision[h] <=> c = bundle[h] /\ Whole(h)
        BY <2>1, WholeNames DEF Whole
      <3>2. h # None
        BY WriterAssumption
      <3>3. CASE Whole(h)
        <4>1. Volume' = [u \in {1} |-> Volume[1] \cup {bundle[h]}]
          BY <2>1, <2>3, <3>1, <3>2, <3>3 DEF Volume, WholeName, Helper!Files
        <4> QED BY <1>5, <2>1, <2>3, <3>3, <4>1
      <3>4. CASE ~Whole(h)
        <4>1. Volume' = Volume
          BY <2>1, <2>3, <3>1, <3>4 DEF Volume, WholeName, Helper!Files
        <4> QED BY <1>4, <2>1, <2>3, <3>4, <4>1
      <3> QED BY <3>3, <3>4
    <2> QED BY <1>7, <2>2, <2>3 DEF Helper!Place
  <1>8. ASSUME NEW h \in Helpers, Helper!Verify(h) PROVE Moves
    <2>1. /\ step[h] = "verify" /\ UNCHANGED <<bundle, revision, named>>
          /\ step' = [step EXCEPT ![h] = step'[h]] /\ step'[h] \in {"exit", "failed"}
      BY <1>8 DEF Helper!Verify
    <2>2. Volume' = Volume
      BY <2>1 DEF Volume, WholeName, Helper!Files
    <2>3. CASE step'[h] = "exit" /\ Whole(h)
      <3>1. bundle[h] \in Contents /\ named[revision[h]] # None
        BY <2>1 DEF HelperOK, RevisionOK
      <3>2. Volume' = [u \in {1} |-> Volume[1] \cup {bundle[h]}]
        BY <2>2, <2>3, <3>1 DEF Volume, Whole
      <3>3. step' = [step EXCEPT ![h] = "exit"]
        BY <2>1, <2>3
      <3> QED BY <1>5, <2>1, <2>3, <3>2, <3>3
    <2>4. CASE ~(step'[h] = "exit" /\ Whole(h))
      BY <1>4, <2>1, <2>2, <2>4
    <2> QED BY <2>3, <2>4
  <1>9. ASSUME NEW h \in Helpers, Helper!Exit(h) PROVE Moves
    <2>1. /\ step[h] = "exit" /\ step' = [step EXCEPT ![h] = "done"] /\ Others(h)
          /\ UNCHANGED <<bundle, revision, named>>
      BY <1>9 DEF Helper!Exit
    <2>2. HelperPods'[h] = HelperPods[h] /\ (Wrote(h)' <=> Wrote(h))
      BY <2>1 DEF HelperPods, Phase, Wrote, Whole, WholeName, Helper!Files
    <2>3. HelperPods' = [HelperPods EXCEPT ![h] = HelperPods[h]]
      BY <2>1, <2>2, PodOf
    <2>4. HelperPods' = HelperPods
      BY <2>3 DEF HelperPods
    <2>5. \A g \in Helpers : Wrote(g)' <=> Wrote(g)
      BY <1>w, <2>1, <2>2
    <2>6. Volume' = Volume /\ Written' = Written
      BY <2>1, <2>5 DEF Volume, Written, WholeName, Helper!Files
    <2> QED BY <2>4, <2>6
  <1>10. ASSUME NEW h \in Helpers, Helper!Fails(h) PROVE Moves
    <2>1. /\ step[h] \in Busy /\ step' = [step EXCEPT ![h] = "failed"] /\ UNCHANGED <<bundle, revision, named>>
      BY <1>10 DEF Helper!Fails
    <2>2. Volume' = Volume
      BY <2>1 DEF Volume, WholeName, Helper!Files
    <2>3. step' = [step EXCEPT ![h] = step'[h]] /\ step'[h] = "failed"
      BY <2>1
    <2> QED BY <1>4, <2>1, <2>2, <2>3
  <1>11. ASSUME NEW h \in Helpers, Helper!Hash(h) PROVE Moves
    <2>1. /\ step[h] \in Busy /\ step'[h] \in Busy /\ Others(h) /\ UNCHANGED <<bundle, named>>
      BY <1>11 DEF Helper!Hash
    <2> QED BY <1>2, <2>1
  <1>12. ASSUME NEW h \in Helpers,
                Helper!Cleaning(h) \/ Helper!Unpack(h) \/ Helper!Install(h) \/ Helper!Lock(h)
         PROVE  Moves
    <2>1. /\ step[h] \in Busy /\ step'[h] \in Busy /\ Others(h) /\ UNCHANGED <<bundle, named>>
      BY <1>12 DEF Helper!Cleaning, Helper!List, Helper!OpenDir, Helper!Unlink, Helper!RemoveDir, Helper!Cleaned,
                   Helper!Unpack, Helper!Install, Helper!Lock
    <2> QED BY <1>2, <2>1
  <1>13. ASSUME UNCHANGED <<step, bundle, revision, named, where>> PROVE Moves
    BY <1>13 DEF HelperPods, Phase, Whole, Wrote, Volume, Written, WholeName, Helper!Files
  <1>14. ASSUME NEW h \in Helpers, Helper!Abandon(h)
         PROVE  UNCHANGED <<step, bundle, revision, named, where>>
    BY <1>14 DEF Helper!Abandon
  <1>15. ASSUME NEW t \in Helper!Trees, Helper!LockAges(t)
         PROVE  UNCHANGED <<step, bundle, revision, named, where>>
    BY <1>15 DEF Helper!LockAges
  <1> HIDE DEF Moves
  <1>16. ASSUME NEW h \in Helpers, NEW c \in Contents, Helper!Start(h, c) PROVE Moves
    BY <1>3, <1>16 DEF Moves
  <1>17. Moves
    BY <1>6, <1>7, <1>8, <1>9, <1>10, <1>11, <1>12, <1>13, <1>14, <1>15, <1>16
       DEF Helper!Next, Helper!helperVars
  <1> QED BY <1>17 DEF Moves

\* The service may count on a helper as on one step, whatever other helpers do to
\* the files meanwhile: HelperWorks of ContextUpload when the revision is there,
\* and then PodKilled if it is killed before it has answered.
THEOREM HelpersAreAtomic == Helper!Spec => HelpersWorkAtOnce
  <1>1. HelperInv /\ [Helper!Next]_(Helper!helperVars) =>
          [\E h \in Helpers : \/ Sent(h) \/ Service!HelperWorks(h)
                              \/ Service!HelperRejects(h) \/ Service!PodKilled(h)
          ]_<<HelperPods, Volume, Written>>
    BY StepAtOnce
  <1> QED BY <1>1, HelperInvariance, PTL DEF Helper!Spec, HelpersWorkAtOnce

-----------------------------------------------------------------------------
(* The volume: each part behaves by its own specification.                  *)

\* While the other one writes, a part stutters.
LEMMA WritersImplementParts == WriterSpec => Spec /\ Helper!Spec
  <1>1. Parts => Init /\ Helper!Init
    BY DEF Parts
  <1>2. [PartsNext]_<<vars, unpacking, writer>> => [Next]_vars
    BY DEF PartsNext
  <1>3. [PartsNext]_<<vars, unpacking, writer>> => [Helper!Next]_(Helper!helperVars)
    BY DEF PartsNext, unpacking, Helper!helperVars, Helper!directories
  <1> QED BY <1>1, <1>2, <1>3, PTL DEF WriterSpec, Spec, Helper!Spec

\* Every variable of the volume keeps its type, a push has read and a helper has
\* what its next step needs, for any number of helpers and finitely many users.
THEOREM VolumeTypeCorrect == IsFiniteSet(Pushers) => (WriterSpec => []VolumeTypeOK)
  <1> SUFFICES ASSUME IsFiniteSet(Pushers) PROVE WriterSpec => []VolumeTypeOK
    OBVIOUS
  <1>1. TypeOK /\ Helper!TypeOK => VolumeTypeOK
    BY DEF VolumeTypeOK
  <1>2. Spec => []TypeOK
    BY SyncTypeCorrect
  <1> QED BY <1>1, <1>2, WritersImplementParts, HelperTypeCorrect, PTL

\* What a digest names on the volume is exactly that content, unless it was renamed
\* under a helper that removes it; and, if no helper is lost while it removes
\* leftovers, what the service gets from a helper it waited for is the whole bundle
\* it sent, and stays there: at any number of helpers, lost or killed later.
THEOREM DigestsAreExact == Calm => (WriterSpec => []MaterializedExact)
  <1> SUFFICES ASSUME Calm PROVE WriterSpec => []MaterializedExact
    OBVIOUS
  <1>1. ASSUME HelperInv, NEW h \in Helpers, attended[h], step[h] = "done"
        PROVE  revision[h] = Helper!Files(bundle[h], Helper!Groups) /\ Helper!Exact(revision[h])
    <2>1. /\ revision[h] = WholeName(bundle[h]) /\ bundle[h] \in Contents
          /\ files[named[revision[h]]] = Helper!Groups /\ named[revision[h]] # None
      BY <1>1 DEF HelperInv, FunctionsOK, WholeBundles, Progress, HelperOK, RevisionOK
    <2>2. revision[h] \in Helper!Trees /\ revision[h].of = bundle[h]
      BY <2>1, WholeNames
    <2>3. bundle[named[revision[h]]] = bundle[h]
      BY <1>1, <2>1, <2>2, WriterAssumption DEF HelperInv, FunctionsOK, Named, RevisionOK
    <2> QED BY <2>1, <2>3 DEF WholeName, Helper!Exact
  <1>2. HelperInv => MaterializedExact
    BY <1>1, NamedAreExact DEF Helper!MaterializedExact, MaterializedExact
  <1> QED BY <1>2, WritersImplementParts, HelperInvariance, PTL
=============================================================================
