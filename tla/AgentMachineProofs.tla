------------------------- MODULE AgentMachineProofs -------------------------
(* Proofs about the parts of AgentMachine, for any number of contexts,      *)
(* sessions, files and processes, any schedule and any number of steps. Each*)
(* part has an inductive invariant, that all of its actions keep; at the end*)
(* they are put together for the machine.                                   *)
EXTENDS AgentMachine, Sequences, SequenceTheorems, TLAPS

\* The polls left and the polls passed add up; an attempt that is due runs at
\* once; an event that no poll has seen yet has waited for none.
Bookkeeping ==
  /\ phase # "attempt" => due > 0
  /\ phase # "attempt" /\ ~seen => idle + due = Pause
  /\ phase = "attempt" /\ unserved => unseen
  /\ phase # "attempt" /\ unserved => IF unseen THEN quiet = 0 ELSE quiet + due <= Debounce + 1

IInv == TypeOK /\ Bookkeeping
-----------------------------------------------------------------------------
(* NativeRestore: types.                                                    *)

Data == Transcripts \cup {Torn, None}

Jobs ==
  [ctx : Contexts \cup {None}, todo : SUBSET Sessions, session : Sessions \cup {None},
   found : SUBSET Native!Places, same : BOOLEAN, plan : [Sessions -> Data],
   restored : SUBSET Sessions, touched : SUBSET Sessions]

RestoreSteps ==
  {"idle", "lock", "check", "plan", "archive", "compare", "fill", "done", "refused"}

NativeTypes ==
  /\ harness \in Native!Harnesses /\ links \in BOOLEAN
  /\ captured \in [Contexts -> [Sessions -> Data]]
  /\ native \in [Sessions -> [Native!Places -> Data]]
  /\ at \in [Restorers -> RestoreSteps] /\ job \in [Restorers -> Jobs]
  /\ restores \in Nat /\ turns \in Nat

\* What each step knows, and that nothing is written before the plan is complete.
JobOK(p) ==
  /\ at[p] = "idle" => job[p] = Native!NoJob
  /\ at[p] \notin {"idle", "refused"} => job[p].ctx \in Contexts
  /\ at[p] \in {"archive", "compare"} => job[p].session \in job[p].todo
  /\ at[p] \in {"archive", "compare"} => harness \in {"codex", "pi"}
  /\ at[p] # "compare" => job[p].same = FALSE
  /\ at[p] \in {"check", "fill", "done"} => job[p].todo = {}
  /\ at[p] = "fill" => job[p].session \in Native!Planned(p)
  /\ at[p] = "done" => Native!Planned(p) = {}
  /\ at[p] \in {"lock", "check", "archive", "compare", "refused"} \/ job[p].todo # {} =>
       job[p].restored = {}
  /\ at[p] \in {"lock", "check", "refused"} => Native!Planned(p) = {}

\* A file that is being filled has one writer, and nobody else touches it.
FillOK ==
  \A p \in Restorers : at[p] = "fill" =>
    /\ harness = "claude" \/ (harness \in {"codex", "pi"} /\ ~links)
    /\ native[job[p].session]["here"] = Torn
    /\ \A q \in Restorers : at[q] = "fill" /\ job[q].session = job[p].session => q = p

\* Where files appear whole, no half of one is found, captured or restored.
Whole(f) == harness # "claude" /\ links => \A s \in Sessions : f[s] # Torn
WholeOK ==
  /\ \A x \in Native!Places : Whole([s \in Sessions |-> native[s][x]])
  /\ \A c \in Contexts : Whole(captured[c])
  /\ \A p \in Restorers : Whole(job[p].plan)

\* Only Codex has other places than the one a restore writes.
HereOnly ==
  harness # "codex" =>
    \A s \in Sessions : native[s]["named"] = None /\ native[s]["archived"] = None

\* A session that is planned has no copy but where it will be written; the
\* comparison has found all others.
PlacesOK(p) ==
  /\ \A s \in Native!Planned(p) \ job[p].touched : Native!CopiesOf(s) \subseteq {"here"}
  /\ at[p] = "archive" /\ job[p].session \notin job[p].touched =>
       Native!CopiesOf(job[p].session) \subseteq job[p].found \cup {"here", "archived"}
  /\ at[p] = "compare" /\ job[p].session \notin job[p].touched =>
       job[p].same \/ Native!CopiesOf(job[p].session) \subseteq job[p].found \cup {"here"}

\* One import at a time: what is planned is still not there.
Importing == Calm /\ harness = "opencode"
OneImport == Importing => \A p, q \in Restorers : at[p] # "idle" /\ at[q] # "idle" => p = q
ImportOK(p) == Importing => \A s \in Native!Planned(p) : Native!CopiesOf(s) = {}

\* A session is there as captured, and nobody is writing it.
Settled(p, s) ==
  \E x \in Native!Places :
    native[s][x] = Native!Source(p)[s] /\ (x = "here" => ~Native!BeingFilled(s))

\* Every captured session is still to be looked at, planned, or settled.
SettledOK(p) ==
  /\ at[p] \notin {"idle", "lock", "refused"} =>
       \A s \in Sessions : job[p].plan[s] \in {None, Native!Source(p)[s]}
  /\ at[p] \in {"plan", "archive", "compare", "fill", "done"} =>
       \A s \in Native!CapturedIn(job[p].ctx) \ job[p].touched :
         s \in job[p].todo \/ s \in Native!Planned(p) \/ Settled(p, s)
  /\ at[p] = "compare" /\ job[p].same /\ job[p].session \notin job[p].touched =>
       Settled(p, job[p].session)
  /\ at[p] \in {"plan", "archive", "compare"} =>
       job[p].todo \subseteq Native!CapturedIn(job[p].ctx)

NativeInv ==
  /\ NativeTypes
  /\ FillOK /\ WholeOK /\ HereOnly /\ OneImport
  /\ \A p \in Restorers : JobOK(p) /\ PlacesOK(p) /\ ImportOK(p)
  /\ Calm => \A p \in Restorers : SettledOK(p)

-----------------------------------------------------------------------------
(* ArtifactStore: types.                                                    *)

Objects == [FileContents -> FileContents \cup {None, Torn}]
Lists == [Files -> Seq(FileContents)]
Revisions == Objects \X Lists \X BOOLEAN
Manifests == [live : BOOLEAN, current : Revisions \cup {None}, history : Seq(Revisions)]
Works ==
  [manifest : Manifests, items : Lists, todo : SUBSET Files, file : Files \cup {None},
   version : FileContents \cup {None}]
Reads ==
  [step : {"idle", "copy", "verify", "got", "failed"}, version : FileContents \cup {None},
   out : FileContents \cup {None, Torn}]
PublishSteps ==
  {"idle", "create", "lock", "index", "files", "open", "copy", "fill", "record", "unlock"}

ArtifactTypes ==
  /\ input \in [Files -> FileContents \cup {None}] /\ objects \in Objects /\ items \in Lists
  /\ torn \in BOOLEAN /\ manifest \in Manifests /\ lock \in {"free", "held", "old"}
  /\ pc \in [Publishers -> PublishSteps] /\ work \in [Publishers -> Works]
  /\ reader \in [Readers -> Reads] /\ spoiled \subseteq FileContents
  /\ publications \in Nat /\ reads \in Nat /\ edits \in Nat

\* No version is listed twice; the current revision is the last.
Distinct(list) ==
  \A f \in Files : \A i, j \in 1..Len(list[f]) : list[f][i] = list[f][j] => i = j
CurrentIsLast(m) == m.current = IF m.history = <<>> THEN None ELSE Artifacts!Last(m.history)

Wellformed ==
  /\ Distinct(items) /\ CurrentIsLast(manifest)
  /\ \A p \in Publishers : Distinct(work[p].items) /\ CurrentIsLast(work[p].manifest)

\* What each step knows.
WorkOK(p) ==
  /\ IF pc[p] \in {"open", "copy"} THEN work[p].file # None /\ work[p].version # None
                                   ELSE work[p].file = None /\ work[p].version = None
  /\ \A f \in work[p].todo : input[f] # None
  /\ work[p].file # None => input[work[p].file] # None
  /\ pc[p] \notin {"idle", "create"} => work[p].manifest.live /\ manifest.live
  /\ pc[p] \in {"open", "copy"} => input[work[p].file] = work[p].version
                                   \/ work[p].version \in spoiled

\* The lock has one holder, who alone changes the content.
LockOK ==
  /\ \A p \in Publishers : Artifacts!Holding(p) => lock = "held"
  /\ \A p, q \in Publishers : Artifacts!Holding(p) /\ Artifacts!Holding(q) => p = q

Extends(longer, list) ==
  \A f \in Files : Len(list[f]) <= Len(longer[f])
                   /\ \A i \in 1..Len(list[f]) : longer[f][i] = list[f][i]
Present(list) == \A f \in Files : \A v \in Artifacts!Versions(list, f) : objects[v] # None
Unlisted(list, v) == \A f \in Files : v \notin Artifacts!Versions(list, f)

\* What the holder will write lists what is listed, and versions that have an
\* object; the object it is about to copy is listed nowhere. It has read the whole
\* index, which is cut off again only while it writes it.
HolderOK(p) ==
  /\ pc[p] \in {"files", "open", "copy", "record", "unlock"} => ~torn
  /\ pc[p] \in {"files", "open", "copy", "fill"} => Extends(work[p].items, items) /\ Present(work[p].items)
  /\ pc[p] = "open" => objects[work[p].version] = None
  /\ pc[p] = "copy" => Unlisted(items, work[p].version) /\ Unlisted(work[p].items, work[p].version)
  /\ pc[p] = "unlock" => manifest.current = Artifacts!Revision

\* Without faults: whoever took the lock is there, and the last to have had it
\* has recorded the content.
RecordedOK ==
  /\ faults \in 0..MaxFaults
  /\ (\E f \in Files : items[f] # <<>>) => manifest.live
  /\ faults = MaxFaults =>
       /\ lock # "free" => \E p \in Publishers : Artifacts!Holding(p)
       /\ Artifacts!ManifestNamesContent
  /\ Artifacts!IndexReadable

\* A retrieval that is under way selected a version; one that is done verified it.
ReadOK(r) ==
  /\ r.step \in {"copy", "verify"} => r.version # None
  /\ r.step = "got" => r.out = r.version

ArtifactInv ==
  /\ ArtifactTypes /\ Wellformed /\ LockOK /\ RecordedOK
  /\ \A p \in Publishers : WorkOK(p) /\ HolderOK(p)
  /\ Artifacts!ObjectsExplained
  /\ \A q \in Readers : ReadOK(reader[q])

MachineInv == IInv /\ NativeInv /\ ArtifactInv

-----------------------------------------------------------------------------
(* The delay after n failures (retryDelay in cmd/contextctl/backup.go) is   *)
(* positive and exceeds neither the interval nor the cap.                   *)
LEMMA RetryDelayBounds ==
  ASSUME NEW n \in Nat \ {0}
  PROVE  RetryDelay(n) \in 1..Interval /\ RetryDelay(n) <= RetryCap
<1> DEFINE m == Least(n, 5)
           factor == <<1, 2, 4, 8, 16>>[m]
           delay == RetryBase * factor
<1>1. m \in 1..5
  BY DEF Least
<1>2. factor \in Nat \ {0}
  BY <1>1
<1>3. delay \in Nat \ {0}
  <2> HIDE DEF factor
  <2> QED BY <1>2, ScheduleAssumption
<1>4. RetryDelay(n) = Least(Interval, Least(RetryCap, delay))
  BY DEF RetryDelay
<1> HIDE DEF delay
<1> QED
  BY <1>3, <1>4, ScheduleAssumption DEF Least

(* The delay does not shrink while failures follow one another.             *)
THEOREM RetryDelayGrows ==
  ASSUME NEW n \in Nat \ {0}
  PROVE  RetryDelay(n) <= RetryDelay(n + 1)
<1> DEFINE f(k) == <<1, 2, 4, 8, 16>>[Least(k, 5)]
<1>1. Least(n, 5) \in 1..5 /\ Least(n + 1, 5) \in 1..5 /\ Least(n, 5) <= Least(n + 1, 5)
  BY DEF Least
<1>2. f(n) \in Nat /\ f(n + 1) \in Nat /\ f(n) <= f(n + 1)
  BY <1>1
<1>3. /\ RetryDelay(n) = Least(Interval, Least(RetryCap, RetryBase * f(n)))
      /\ RetryDelay(n + 1) = Least(Interval, Least(RetryCap, RetryBase * f(n + 1)))
  BY DEF RetryDelay
<1> HIDE DEF f
<1>4. RetryBase * f(n) \in Nat /\ RetryBase * f(n + 1) \in Nat
  BY <1>2, ScheduleAssumption
<1>5. RetryBase * f(n) <= RetryBase * f(n + 1)
  BY <1>2, ScheduleAssumption
<1> DEFINE a == RetryBase * f(n)
           b == RetryBase * f(n + 1)
<1> HIDE DEF a, b
<1> QED
  <2>1. a \in Nat /\ b \in Nat /\ a <= b
    BY <1>4, <1>5 DEF a, b
  <2>2. /\ RetryDelay(n) = Least(Interval, Least(RetryCap, a))
        /\ RetryDelay(n + 1) = Least(Interval, Least(RetryCap, b))
    BY <1>3 DEF a, b
  <2> QED BY <2>1, <2>2, ScheduleAssumption DEF Least

(* The pause after an attempt is positive and never longer than the         *)
(* interval.                                                                *)
LEMMA PauseBounds ==
  ASSUME NEW n \in 0..5
  PROVE  (IF n = 0 THEN Interval ELSE RetryDelay(n)) \in 1..Interval
BY RetryDelayBounds, ScheduleAssumption

-----------------------------------------------------------------------------
(* The first attempt, whatever status.json remembers.                       *)
LEMMA InitIInv == Init => IInv
<1> SUFFICES ASSUME Init PROVE IInv
  OBVIOUS
<1>1. due \in Pauses /\ failures \in 0..5 /\ length \in 0..MaxDuration
  BY ScheduleAssumption DEF Init, Pauses
<1>2. idle \in 0..MaxIdle /\ quiet \in 0..MaxIdle
  BY ScheduleAssumption DEF Init
<1>3. phase = "attempt" /\ unseen = FALSE /\ unserved = FALSE /\ seen = FALSE
  BY DEF Init
<1>4. TypeOK
  BY <1>1, <1>2, <1>3 DEF TypeOK
<1>5. Bookkeeping
  BY <1>3 DEF Bookkeeping
<1> QED
  BY <1>4, <1>5 DEF IInv

(* The end of an attempt sets next to the pause that fits its outcome.      *)
LEMMA EndIInv ==
  ASSUME IInv, NEW failed \in BOOLEAN, AttemptEnds(failed)
  PROVE  IInv'
<1>1. failures' \in 0..5 /\ failures' = IF failed THEN Least(failures + 1, 5) ELSE 0
  BY DEF AttemptEnds, Least, IInv, TypeOK
<1>2. failed => RetryDelay(failures + 1) = RetryDelay(failures')
  BY <1>1 DEF RetryDelay, Least
<1>3. due' = Pause'
  <2>1. CASE failed
    <3>1. failures' # 0
      BY <1>1, <2>1 DEF Least, IInv, TypeOK
    <3> QED BY <1>2, <2>1, <3>1 DEF AttemptEnds, Pause
  <2>2. CASE ~failed
    BY <1>1, <2>2 DEF AttemptEnds, Pause
  <2> QED BY <2>1, <2>2
<1>4. due' \in 1..Interval
  BY <1>1, <1>3, PauseBounds DEF Pause
<1>5. due' \in Pauses /\ due' > 0
  BY <1>4, ScheduleAssumption DEF Pauses
<1>6. length' = 0 /\ idle' = 0 /\ quiet' = 0
  BY DEF AttemptEnds
<1>7. length' \in 0..MaxDuration /\ idle' \in 0..MaxIdle /\ quiet' \in 0..MaxIdle
  BY <1>6, ScheduleAssumption
<1>8. phase' \in {"wait", "ready"} /\ seen' = FALSE /\ unseen' = unseen /\ unserved' = unserved
  BY DEF AttemptEnds
<1>9. unserved => unseen
  BY DEF AttemptEnds, IInv, Bookkeeping
<1>10. TypeOK'
  BY <1>1, <1>5, <1>7, <1>8 DEF IInv, TypeOK
<1>11. idle' + due' = Pause'
  <2>1. due' \in Int
    BY <1>4, ScheduleAssumption
  <2>2. idle' \in Int /\ idle' = 0
    BY <1>6
  <2>3. \A m, n \in Int : m = 0 => m + n = n
    OBVIOUS
  <2> QED BY <1>3, <2>1, <2>2, <2>3, Zenon
<1>12. Bookkeeping'
  BY <1>5, <1>6, <1>8, <1>9, <1>11 DEF Bookkeeping
<1> QED
  BY <1>10, <1>12 DEF IInv

(* One poll takes one from what is left and adds one to what has passed.    *)
LEMMA PollIInv ==
  ASSUME IInv, Poll
  PROVE  IInv'
<1> USE DEF IInv, TypeOK, Bookkeeping
<1>1. Pause' = Pause /\ Pause \in 1..Interval
  BY PauseBounds DEF Poll, Pause
<1>2. /\ due' = IF unseen THEN Debounce ELSE IF phase = "wait" THEN due - 1 ELSE due
      /\ idle' = IF phase = "wait" THEN Count(idle) ELSE idle
      /\ quiet' = IF phase = "wait" /\ unserved THEN Count(quiet) ELSE quiet
  BY DEF Poll, DueAfterPoll, Less, Pauses
<1>3. due' \in Pauses
  BY <1>2, ScheduleAssumption DEF Pauses
<1>4. idle' \in 0..MaxIdle /\ quiet' \in 0..MaxIdle
  BY <1>2, ScheduleAssumption DEF Count, Least
<1>5. TypeOK'
  BY <1>3, <1>4 DEF Poll
<1>6. phase' # "attempt" => due' > 0
  BY DEF Poll
<1>7. phase' # "attempt" /\ ~seen' => idle' + due' = Pause'
  <2> SUFFICES ASSUME phase' # "attempt", ~seen' PROVE idle' + due' = Pause
    BY <1>1
  <2>1. ~seen /\ ~unseen /\ phase \in {"wait", "ready"}
    BY DEF Poll
  <2>2. idle + due = Pause /\ due > 0
    BY <2>1
  <2>3. due \in Int /\ idle \in Int /\ Pause \in Int /\ idle + 1 <= MaxIdle
    BY <1>1, <2>2, ScheduleAssumption DEF Pauses
  <2>4. CASE phase = "wait"
    <3>1. due' = due - 1 /\ idle' = Count(idle)
      BY <1>2, <2>1, <2>4
    <3>2. Count(idle) = idle + 1
      BY <2>3 DEF Count, Least
    <3> QED BY <2>2, <2>3, <3>1, <3>2
  <2>5. CASE phase = "ready"
    BY <1>2, <2>1, <2>2, <2>5
  <2> QED BY <2>1, <2>4, <2>5
<1>8. phase' = "attempt" /\ unserved' => unseen'
  BY DEF Poll
<1>9. phase' # "attempt" /\ unserved' => quiet' + due' <= Debounce + 1
  <2> SUFFICES ASSUME phase' # "attempt", unserved'
               PROVE  quiet' + due' <= Debounce + 1
    OBVIOUS
  <2>1. unserved /\ due' > 0 /\ phase \in {"wait", "ready"}
    BY DEF Poll
  <2>2. CASE unseen
    <3>1. due' = Debounce /\ quiet = 0
      BY <1>2, <2>1, <2>2
    <3>2. quiet' = 0 \/ quiet' = 1
      BY <1>2, <3>1, ScheduleAssumption DEF Count, Least
    <3>3. Debounce \in Int
      BY ScheduleAssumption
    <3>4. CASE quiet' = 0
      BY <3>1, <3>3, <3>4
    <3>5. CASE quiet' = 1
      BY <3>1, <3>3, <3>5
    <3> QED BY <3>2, <3>4, <3>5
  <2>3. CASE ~unseen
    <3>1. quiet + due <= Debounce + 1 /\ due > 0
      BY <2>1, <2>3
    <3>2. CASE phase = "wait"
      <4>1. due' = due - 1 /\ quiet' = Count(quiet)
        BY <1>2, <2>1, <2>3, <3>2
      <4>2. Count(quiet) <= quiet + 1 /\ Count(quiet) \in Int
        BY ScheduleAssumption DEF Count, Least
      <4>3. due \in Int /\ quiet \in Int /\ quiet' <= quiet + 1 /\ quiet' \in Int
        BY <4>1, <4>2, ScheduleAssumption DEF Pauses
      <4> QED BY <3>1, <4>1, <4>3, ScheduleAssumption
    <3>3. CASE phase = "ready"
      BY <1>2, <2>3, <3>1, <3>3
    <3> QED BY <2>1, <3>2, <3>3
  <2> QED BY <2>2, <2>3
<1>10. unseen' = FALSE
  BY DEF Poll
<1> QED
  BY <1>5, <1>6, <1>7, <1>8, <1>9, <1>10

(* Every step keeps the bookkeeping.                                        *)
LEMMA NextIInv == IInv /\ [Next]_vars => IInv'
<1> SUFFICES ASSUME IInv, [Next]_vars PROVE IInv'
  OBVIOUS
<1>1. CASE Event
  BY <1>1, ScheduleAssumption DEF IInv, TypeOK, Bookkeeping, Event, Pause
<1>2. CASE AttemptLasts
  BY <1>2, ScheduleAssumption DEF IInv, TypeOK, Bookkeeping, AttemptLasts, Pause
<1>3. ASSUME NEW failed \in BOOLEAN, AttemptEnds(failed) PROVE IInv'
  BY <1>3, EndIInv
<1>4. CASE Poll
  BY <1>4, PollIInv
<1>5. CASE UNCHANGED vars
  BY <1>5 DEF IInv, TypeOK, Bookkeeping, Pause, vars
<1> QED
  BY <1>1, <1>2, <1>3, <1>4, <1>5 DEF Next

(* The bookkeeping holds in every state.                                    *)
THEOREM Invariance == Spec => []IInv
BY InitIInv, NextIInv, PTL DEF Spec

(* Types, for every schedule.                                               *)
THEOREM ScheduleTypeCorrect == Spec => []TypeOK
<1>1. IInv => TypeOK
  BY DEF IInv
<1> QED BY <1>1, Invariance, PTL

(* A capture event followed by quiet is served within the debounce and one  *)
(* poll, for every debounce, interval and delay.                            *)
THEOREM CaptureServed == Spec => []EventsServed
<1>1. IInv => EventsServed
  BY ScheduleAssumption DEF IInv, TypeOK, Bookkeeping, EventsServed, Pauses
<1> QED BY <1>1, Invariance, PTL

(* Without events the worker waits exactly its interval or its delay.       *)
THEOREM PauseKept == Spec => []ScheduleKept
<1>1. IInv => ScheduleKept
  BY DEF IInv, Bookkeeping, ScheduleKept
<1> QED BY <1>1, Invariance, PTL
-----------------------------------------------------------------------------
(* Proofs about NativeRestore.                                              *)

\* At the start nobody restores, and no content is half written.
LEMMA NativeInit == Native!Init => NativeInv
<1> SUFFICES ASSUME Native!Init PROVE NativeInv
  OBVIOUS
<1>1. NativeTypes
  <2>1. Native!NoJob \in Jobs
    BY DEF Native!NoJob, Jobs, Data
  <2>2. native \in [Sessions -> [Native!Places -> Data]]
    BY DEF Native!Init, Data
  <2>3. restores \in Nat /\ turns \in Nat
    BY MachineAssumption DEF Native!Init
  <2>4. captured \in [Contexts -> [Sessions -> Data]]
    BY DEF Native!Init, Data
  <2>5. harness \in Native!Harnesses /\ links \in BOOLEAN
    <3>1. CASE harness \in {"codex", "pi"}
      BY <3>1 DEF Native!Init
    <3>2. CASE harness \notin {"codex", "pi"}
      <4>1. links \in {TRUE}
        BY <3>2 DEF Native!Init
      <4> QED BY <4>1 DEF Native!Init
    <3> QED BY <3>1, <3>2
  <2>6. at \in [Restorers -> RestoreSteps] /\ job \in [Restorers -> Jobs]
    BY <2>1 DEF Native!Init, RestoreSteps
  <2> QED
    BY <2>2, <2>3, <2>4, <2>5, <2>6 DEF NativeTypes
<1>2. \A p \in Restorers : at[p] = "idle" /\ job[p] = Native!NoJob
  BY DEF Native!Init
<1>3. \A p \in Restorers :
        Native!Planned(p) = {} /\ job[p].todo = {} /\ job[p].same = FALSE
  BY <1>2 DEF Native!Planned, Native!NoJob
<1>4. FillOK /\ OneImport
  BY <1>2 DEF FillOK, OneImport
<1>5. WholeOK
  <2>1. \A s \in Sessions, x \in Native!Places : native[s][x] \in Transcripts \cup {None}
    BY DEF Native!Init
  <2>2. \A c \in Contexts, s \in Sessions : captured[c][s] \in Transcripts \cup {None}
    BY DEF Native!Init
  <2>3. \A p \in Restorers, s \in Sessions : job[p].plan[s] = None
    BY <1>2 DEF Native!NoJob
  <2> QED
    BY <2>1, <2>2, <2>3, MachineAssumption DEF WholeOK, Whole
<1>6. HereOnly
  BY DEF Native!Init, HereOnly, Native!PlacesOf, Native!Places, Native!Live
<1>7. ASSUME NEW p \in Restorers PROVE JobOK(p) /\ PlacesOK(p) /\ ImportOK(p) /\ SettledOK(p)
  BY <1>2, <1>3 DEF JobOK, PlacesOK, ImportOK, SettledOK
<1> QED
  BY <1>1, <1>4, <1>5, <1>6, <1>7 DEF NativeInv

(* A step of one restore that writes nothing: what it does to the others    *)
(* is nothing, so its own knowledge is all there is to check.               *)
LEMMA Private ==
  ASSUME NativeInv, NEW p \in Restorers, NEW step \in RestoreSteps, NEW j \in Jobs,
         at' = [at EXCEPT ![p] = step], job' = [job EXCEPT ![p] = j], step # "fill",
         UNCHANGED <<harness, links, captured, native, turns>>, restores' \in Nat,
         JobOK(p)', PlacesOK(p)', ImportOK(p)', Whole(j.plan), Calm => SettledOK(p)',
         Importing /\ at[p] = "idle" /\ step # "idle" => \A q \in Restorers : at[q] = "idle"
  PROVE  NativeInv'
<1>1. NativeTypes'
  BY DEF NativeInv, NativeTypes
<1>2. \A q \in Restorers : q # p => at'[q] = at[q] /\ job'[q] = job[q]
  BY DEF NativeInv, NativeTypes
<1>3. at'[p] = step /\ job'[p] = j
  BY DEF NativeInv, NativeTypes
<1>4. FillOK'
  BY <1>2, <1>3 DEF NativeInv, FillOK
<1>5. WholeOK'
  BY <1>2, <1>3 DEF NativeInv, WholeOK, Whole
<1>6. HereOnly'
  BY DEF NativeInv, HereOnly
<1>7. OneImport'
  BY <1>2, <1>3 DEF NativeInv, OneImport, Importing
<1>8. ASSUME NEW q \in Restorers PROVE JobOK(q)' /\ PlacesOK(q)' /\ ImportOK(q)'
  <2>1. CASE q = p
    BY <2>1
  <2>2. CASE q # p
    <3>1. JobOK(q) /\ PlacesOK(q) /\ ImportOK(q)
      BY DEF NativeInv
    <3>2. at'[q] = at[q] /\ job'[q] = job[q]
      BY <1>2, <2>2
    <3>3. JobOK(q)'
      BY <3>1, <3>2 DEF JobOK, Native!Planned, Native!NoJob
    <3>4. PlacesOK(q)'
      BY <3>1, <3>2 DEF PlacesOK, Native!Planned, Native!CopiesOf
    <3>5. ImportOK(q)'
      BY <3>1, <3>2 DEF ImportOK, Importing, Native!Planned, Native!CopiesOf
    <3> QED BY <3>3, <3>4, <3>5
  <2> QED BY <2>1, <2>2
<1>9. ASSUME Calm, NEW q \in Restorers PROVE SettledOK(q)'
  <2>1. CASE q = p
    BY <2>1, <1>9
  <2>2. CASE q # p
    <3>1. SettledOK(q)
      BY <1>9 DEF NativeInv
    <3>2. at'[q] = at[q] /\ job'[q] = job[q]
      BY <1>2, <2>2
    <3>3. \A s \in Sessions : Settled(q, s) => Settled(q, s)'
      BY <1>2, <1>3, <3>2 DEF Settled, Native!Source, Native!BeingFilled
    <3>4. Native!CapturedIn(job[q].ctx)' = Native!CapturedIn(job[q].ctx)
      BY <3>2 DEF Native!CapturedIn
    <3>5. Native!CapturedIn(job[q].ctx) \subseteq Sessions
      BY DEF Native!CapturedIn
    <3>6. Native!Planned(q)' = Native!Planned(q) /\ Native!Source(q)' = Native!Source(q)
      BY <3>2 DEF Native!Planned, Native!Source
    <3>7. at'[q] = "compare" => job[q].session \in Sessions
      <4>1. JobOK(q) /\ job[q] \in Jobs
        BY DEF NativeInv, NativeTypes
      <4> QED BY <3>2, <4>1 DEF JobOK, Jobs
    <3> QED
      BY <3>1, <3>2, <3>3, <3>4, <3>5, <3>6, <3>7 DEF SettledOK
  <2> QED BY <2>1, <2>2
<1> QED
  BY <1>1, <1>4, <1>5, <1>6, <1>7, <1>8, <1>9 DEF NativeInv

-----------------------------------------------------------------------------
(* The steps of a restore that write nothing.                               *)

\* What every step of a restore has at hand.
LEMMA AtHand ==
  ASSUME NativeInv, NEW p \in Restorers
  PROVE  /\ job[p] \in Jobs /\ JobOK(p) /\ PlacesOK(p) /\ ImportOK(p) /\ Whole(job[p].plan)
         /\ Calm => SettledOK(p)
         /\ Importing /\ at[p] # "idle" => \A q \in Restorers : q # p => at[q] = "idle"
         /\ Native!Planned(p) \subseteq Sessions
BY DEF NativeInv, NativeTypes, WholeOK, OneImport, Native!Planned

\* An idle process has the type of a restore.
LEMMA NoJobIsJob == Native!NoJob \in Jobs
BY DEF Native!NoJob, Jobs, Data

(* A restore that ends or is stopped knows nothing.                         *)
LEMMA ExitInv ==
  ASSUME NativeInv, NEW p \in Restorers, Native!Exit(p),
         UNCHANGED <<harness, links, captured, native, turns>>, restores' \in Nat
  PROVE  NativeInv'
<1>1. at' = [at EXCEPT ![p] = "idle"] /\ job' = [job EXCEPT ![p] = Native!NoJob]
  BY DEF Native!Exit, Native!Goto, Native!Know
<1>2. at'[p] = "idle" /\ job'[p] = Native!NoJob
  BY <1>1 DEF NativeInv, NativeTypes
<1>3. Native!Planned(p)' = {}
  BY <1>2 DEF Native!Planned, Native!NoJob
<1>4. JobOK(p)' /\ PlacesOK(p)' /\ ImportOK(p)' /\ SettledOK(p)'
  <2>1. job'[p].todo = {} /\ job'[p].same = FALSE
    BY <1>2 DEF Native!NoJob
  <2> QED BY <1>2, <1>3, <2>1 DEF JobOK, PlacesOK, ImportOK, SettledOK
<1>5. Whole(Native!NoJob.plan)
  BY MachineAssumption DEF Whole, Native!NoJob
<1> QED
  BY <1>1, <1>4, <1>5, NoJobIsJob, Private DEF RestoreSteps

(* A refusal keeps what was restored: nothing.                              *)
LEMMA RefuseInv ==
  ASSUME NativeInv, NEW p \in Restorers, Native!Refuse(p), job[p].restored = {}, at[p] # "idle",
         UNCHANGED <<harness, links, captured, native, turns>>, restores' \in Nat
  PROVE  NativeInv'
<1> DEFINE j == [Native!NoJob EXCEPT !.restored = job[p].restored]
<1>1. at' = [at EXCEPT ![p] = "refused"] /\ job' = [job EXCEPT ![p] = j]
  BY DEF Native!Refuse, Native!Goto, Native!Know
<1>2. j \in Jobs
  BY NoJobIsJob DEF Jobs
<1>3. j.plan = [s \in Sessions |-> None] /\ j.restored = {} /\ j.todo = {}
      /\ j.same = FALSE
  BY DEF Native!NoJob
<1> HIDE DEF j
<1>4. at'[p] = "refused" /\ job'[p] = j
  BY <1>1 DEF NativeInv, NativeTypes
<1>5. Native!Planned(p)' = {}
  BY <1>3, <1>4 DEF Native!Planned
<1>6. JobOK(p)' /\ PlacesOK(p)' /\ ImportOK(p)' /\ SettledOK(p)'
  BY <1>3, <1>4, <1>5 DEF JobOK, PlacesOK, ImportOK, SettledOK
<1>7. Whole(j.plan)
  BY <1>3, MachineAssumption DEF Whole
<1> QED
  BY <1>1, <1>2, <1>6, <1>7, Private DEF RestoreSteps

\* OpenCode sessions are restored by one process at a time.
LEMMA BeginInv ==
  ASSUME NativeInv, NEW p \in Restorers, NEW c \in Contexts, Native!Begin(p, c)
  PROVE  NativeInv'
<1> DEFINE j == [Native!NoJob EXCEPT !.ctx = c]
           step == IF harness = "claude" THEN "check" ELSE "lock"
<1>1. at' = [at EXCEPT ![p] = step] /\ job' = [job EXCEPT ![p] = j]
  BY DEF Native!Begin, Native!Goto, Native!Know
<1>2. UNCHANGED <<harness, links, captured, native, turns>> /\ restores' \in Nat
  BY DEF Native!Begin, Native!setting, NativeInv, NativeTypes
<1>3. Importing => \A q \in Restorers : at[q] = "idle"
  BY DEF Native!Begin, Importing
<1>4. j \in Jobs /\ j.plan = [s \in Sessions |-> None] /\ j.restored = {} /\ j.todo = {} /\ j.ctx = c
      /\ j.same = FALSE
  BY NoJobIsJob DEF Jobs, Native!NoJob
<1>5. step \in {"check", "lock"}
  OBVIOUS
<1> HIDE DEF j, step
<1>6. at'[p] = step /\ job'[p] = j
  BY <1>1 DEF NativeInv, NativeTypes
<1>7. Native!Planned(p)' = {}
  BY <1>4, <1>6 DEF Native!Planned
<1>8. JobOK(p)' /\ PlacesOK(p)' /\ ImportOK(p)'
  BY <1>4, <1>5, <1>6, <1>7 DEF JobOK, PlacesOK, ImportOK
<1>9. SettledOK(p)'
  BY <1>4, <1>5, <1>6, <1>7 DEF SettledOK
<1>10. Whole(j.plan)
  BY <1>4, MachineAssumption DEF Whole
<1> QED
  BY <1>1, <1>2, <1>3, <1>4, <1>5, <1>8, <1>9, <1>10, Private DEF RestoreSteps

\* All captured sessions are still to be looked at.
LEMMA ListInv ==
  ASSUME NativeInv, NEW p \in Restorers, Native!List(p)
  PROVE  NativeInv'
<1> DEFINE j == [job[p] EXCEPT !.todo = Native!CapturedIn(job[p].ctx)]
<1>1. at' = [at EXCEPT ![p] = "plan"] /\ job' = [job EXCEPT ![p] = j]
  BY DEF Native!List, Native!Goto, Native!Know
<1>2. UNCHANGED <<harness, links, captured, native, turns, restores>> /\ at[p] = "lock"
  BY DEF Native!List, Native!setting, Native!bounds
<1>3. j \in Jobs /\ j.plan = job[p].plan /\ j.restored = job[p].restored /\ j.ctx = job[p].ctx
      /\ j.todo = Native!CapturedIn(job[p].ctx) /\ j.same = job[p].same
  BY AtHand DEF Jobs, Native!CapturedIn
<1> HIDE DEF j
<1>4. at'[p] = "plan" /\ job'[p] = j
  BY <1>1 DEF NativeInv, NativeTypes
<1>5. job[p].restored = {} /\ Native!Planned(p) = {} /\ job[p].ctx \in Contexts
      /\ job[p].same = FALSE
  BY <1>2, AtHand DEF JobOK
<1>6. Native!Planned(p)' = {}
  BY <1>3, <1>4, <1>5 DEF Native!Planned
<1>7. JobOK(p)' /\ PlacesOK(p)' /\ ImportOK(p)'
  BY <1>3, <1>4, <1>5, <1>6 DEF JobOK, PlacesOK, ImportOK
<1>8. Native!CapturedIn(job[p].ctx)' = job'[p].todo
  BY <1>2, <1>3, <1>4 DEF Native!CapturedIn
<1>9. SettledOK(p)'
  BY <1>3, <1>4, <1>5, <1>6, <1>8 DEF SettledOK, Native!Planned
<1>10. Whole(j.plan)
  BY <1>3, AtHand
<1>11. restores' \in Nat
  BY <1>2 DEF NativeInv, NativeTypes
<1> QED
  BY <1>1, <1>2, <1>3, <1>7, <1>9, <1>10, <1>11, Private DEF RestoreSteps

\* Claude's project is empty, so every captured session is missing and planned.
LEMMA CheckProjectInv ==
  ASSUME NativeInv, NEW p \in Restorers, Native!CheckProject(p)
  PROVE  NativeInv'
<1>1. UNCHANGED <<harness, links, captured, native, turns, restores>> /\ at[p] = "check"
  BY DEF Native!CheckProject, Native!setting, Native!bounds
<1>2. restores' \in Nat
  BY <1>1 DEF NativeInv, NativeTypes
<1>3. job[p].restored = {} /\ job[p].ctx \in Contexts /\ job[p].same = FALSE
  BY <1>1, AtHand DEF JobOK
<1>4. CASE Native!Refuse(p)
  BY <1>1, <1>2, <1>3, <1>4, RefuseInv
<1>5. CASE ~Native!Refuse(p)
  <2> DEFINE j == [job[p] EXCEPT !.plan = Native!Source(p)]
  <2>1. at' = [at EXCEPT ![p] = "plan"] /\ job' = [job EXCEPT ![p] = j]
        /\ \A s \in Sessions : Native!CopiesOf(s) = {}
    BY <1>5 DEF Native!CheckProject, Native!Goto, Native!Know
  <2>2. j \in Jobs /\ j.plan = Native!Source(p) /\ j.restored = {} /\ j.ctx = job[p].ctx
        /\ j.todo = job[p].todo /\ j.same = job[p].same
    BY <1>3, AtHand DEF Jobs, Native!Source, NativeInv, NativeTypes
  <2> HIDE DEF j
  <2>3. at'[p] = "plan" /\ job'[p] = j
    BY <2>1 DEF NativeInv, NativeTypes
  <2>4. Native!Planned(p)' \subseteq Sessions
    BY DEF Native!Planned
  <2>5. \A s \in Sessions : Native!CopiesOf(s)' = {}
    BY <1>1, <2>1 DEF Native!CopiesOf
  <2>6. JobOK(p)' /\ PlacesOK(p)' /\ ImportOK(p)'
    BY <1>3, <2>2, <2>3, <2>4, <2>5 DEF JobOK, PlacesOK, ImportOK
  <2>7. Native!Source(p)' = j.plan
    BY <1>1, <2>2, <2>3 DEF Native!Source
  <2>8. Native!CapturedIn(job[p].ctx)' = Native!Planned(p)'
    BY <1>1, <2>2, <2>3 DEF Native!CapturedIn, Native!Planned, Native!Source
  <2>9. job[p].todo = {}
    BY <1>1, AtHand DEF JobOK
  <2>10. SettledOK(p)'
    BY <2>2, <2>3, <2>7, <2>8, <2>9 DEF SettledOK
  <2>11. Whole(j.plan)
    BY <1>3, <2>2 DEF Native!Source, NativeInv, WholeOK
  <2> QED
    BY <1>1, <1>2, <2>1, <2>2, <2>6, <2>10, <2>11, Private DEF RestoreSteps
<1> QED BY <1>4, <1>5

\* What a restore has planned or restored, as a step leaves it.
Kept(p, j) ==
  /\ j.plan = job[p].plan /\ j.restored = job[p].restored /\ j.ctx = job[p].ctx
  /\ j.touched = job[p].touched

\* The live copies that are there are found.
LEMMA FindInv ==
  ASSUME NativeInv, NEW p \in Restorers, NEW s \in Sessions, Native!Find(p, s)
  PROVE  NativeInv'
<1> DEFINE found == IF harness = "pi" THEN {"here"} ELSE Native!Live \cap Native!CopiesOf(s)
           j == [job[p] EXCEPT !.session = s, !.same = FALSE, !.found = found]
           step == IF harness = "pi" THEN "compare" ELSE "archive"
<1>1. at' = [at EXCEPT ![p] = step] /\ job' = [job EXCEPT ![p] = j]
  BY DEF Native!Find, Native!Goto, Native!Know
<1>2. /\ UNCHANGED <<harness, links, captured, native, turns, restores>>
      /\ at[p] = "plan" /\ s \in job[p].todo /\ harness \in {"codex", "pi"}
  BY DEF Native!Find, Native!setting, Native!bounds
<1>3. found \subseteq Native!Places
  BY DEF Native!Places, Native!Live
<1>4. /\ Native!CopiesOf(s) \subseteq found \cup {"here", "archived"}
      /\ step = "compare" => Native!CopiesOf(s) \subseteq found \cup {"here"}
  BY DEF Native!CopiesOf, Native!Places, Native!Live, NativeInv, HereOnly
<1>5. /\ j \in Jobs /\ Kept(p, j) /\ j.todo = job[p].todo
      /\ j.session = s /\ j.same = FALSE /\ j.found = found
  <2> HIDE DEF found
  <2> QED BY <1>3, AtHand DEF Jobs, Kept
<1>6. step \in {"compare", "archive"}
  OBVIOUS
<1> HIDE DEF j, step, found
<1>7. at'[p] = step /\ job'[p] = j
  BY <1>1 DEF NativeInv, NativeTypes
<1>8. job[p].restored = {} /\ job[p].ctx \in Contexts
  BY <1>2, AtHand DEF JobOK
<1>9. Native!Planned(p)' = Native!Planned(p) /\ \A r : Native!CopiesOf(r)' = Native!CopiesOf(r)
  BY <1>2, <1>5, <1>7 DEF Native!Planned, Native!CopiesOf, Kept
<1>10. JobOK(p)'
  BY <1>2, <1>5, <1>6, <1>7, <1>8 DEF JobOK, Kept
<1>11. PlacesOK(p)'
  BY <1>4, <1>5, <1>6, <1>7, <1>9, AtHand DEF PlacesOK, Kept
<1>12. ImportOK(p)'
  BY <1>2, <1>9, AtHand DEF ImportOK, Importing
<1>13. ASSUME Calm PROVE SettledOK(p)'
  <2>1. SettledOK(p)
    BY <1>13, AtHand
  <2>2. Native!Source(p)' = Native!Source(p)
        /\ Native!CapturedIn(job[p].ctx)' = Native!CapturedIn(job[p].ctx)
    BY <1>2, <1>5, <1>7 DEF Native!Source, Native!CapturedIn, Kept
  <2>3. \A r : Settled(p, r) => Settled(p, r)'
    BY <1>1, <1>2, <1>6, <1>7, <2>2 DEF Settled, Native!BeingFilled, NativeInv, NativeTypes
  <2> QED
    BY <1>2, <1>5, <1>6, <1>7, <1>9, <2>1, <2>2, <2>3 DEF SettledOK, Kept
<1>14. Whole(j.plan)
  BY <1>5, AtHand DEF Kept
<1>15. restores' \in Nat
  BY <1>2 DEF NativeInv, NativeTypes
<1> QED
  BY <1>1, <1>2, <1>5, <1>6, <1>10, <1>11, <1>12, <1>13, <1>14, <1>15, Private DEF RestoreSteps

\* The archived copy is found as well, and counts if it is there.
LEMMA FindArchivedInv ==
  ASSUME NativeInv, NEW p \in Restorers, Native!FindArchived(p)
  PROVE  NativeInv'
<1> DEFINE s == job[p].session
           found == job[p].found \cup ({"archived"} \cap Native!CopiesOf(s))
           j == [job[p] EXCEPT !.found = found]
<1>1. at' = [at EXCEPT ![p] = "compare"] /\ job' = [job EXCEPT ![p] = j]
  BY AtHand DEF Native!FindArchived, Native!Goto, Native!Know, Jobs
<1>2. /\ UNCHANGED <<harness, links, captured, native, turns, restores>>
      /\ at[p] = "archive"
  BY DEF Native!FindArchived, Native!setting, Native!bounds
<1>3. found \subseteq Native!Places
  BY AtHand DEF Native!Places, Native!Live, Jobs
<1>4. s \notin job[p].touched => Native!CopiesOf(s) \subseteq found \cup {"here"}
  BY <1>2, AtHand DEF PlacesOK
<1>5. /\ j \in Jobs /\ Kept(p, j) /\ j.todo = job[p].todo
      /\ j.session = s /\ j.same = job[p].same /\ j.found = found
  <2> HIDE DEF found
  <2> QED BY <1>3, AtHand DEF Jobs, Kept
<1> HIDE DEF j, found
<1>6. at'[p] = "compare" /\ job'[p] = j
  BY <1>1 DEF NativeInv, NativeTypes
<1>7. Native!Planned(p)' = Native!Planned(p) /\ \A r : Native!CopiesOf(r)' = Native!CopiesOf(r)
  BY <1>2, <1>5, <1>6 DEF Native!Planned, Native!CopiesOf, Kept
<1>8. JobOK(p)'
  BY <1>2, <1>5, <1>6, AtHand DEF JobOK, Kept
<1>9. PlacesOK(p)'
  BY <1>4, <1>5, <1>6, <1>7, AtHand DEF PlacesOK, Kept
<1>10. ImportOK(p)'
  BY <1>2, <1>7, AtHand DEF ImportOK, Importing
<1>11. ASSUME Calm PROVE SettledOK(p)'
  <2>1. SettledOK(p) /\ ~job[p].same
    BY <1>2, <1>11, AtHand DEF JobOK
  <2>2. Native!Source(p)' = Native!Source(p)
        /\ Native!CapturedIn(job[p].ctx)' = Native!CapturedIn(job[p].ctx)
    BY <1>2, <1>5, <1>6 DEF Native!Source, Native!CapturedIn, Kept
  <2>3. \A r : Settled(p, r) => Settled(p, r)'
    BY <1>1, <1>2, <1>6, <2>2 DEF Settled, Native!BeingFilled, NativeInv, NativeTypes
  <2> QED
    BY <1>2, <1>5, <1>6, <1>7, <2>1, <2>2, <2>3 DEF SettledOK, Kept
<1>12. Whole(j.plan)
  BY <1>5, AtHand DEF Kept
<1>13. restores' \in Nat
  BY <1>2 DEF NativeInv, NativeTypes
<1> QED
  BY <1>1, <1>2, <1>5, <1>8, <1>9, <1>10, <1>11, <1>12, <1>13, Private DEF RestoreSteps

\* A copy that is as captured settles the session; a missing one was touched.
LEMMA CompareInv ==
  ASSUME NativeInv, NEW p \in Restorers, NEW x \in Native!Places, Native!Compare(p, x)
  PROVE  NativeInv'
<1> DEFINE s == job[p].session
<1>1. /\ UNCHANGED <<harness, links, captured, native, turns, restores>>
      /\ at[p] = "compare" /\ x \in job[p].found
  BY DEF Native!Compare, Native!setting, Native!bounds
<1>2. restores' \in Nat
  BY <1>1 DEF NativeInv, NativeTypes
<1>3. job[p].restored = {} /\ job[p].ctx \in Contexts /\ s \in job[p].todo /\ s \in Sessions
  BY <1>1, AtHand DEF JobOK, Jobs
<1>4. CASE Native!Refuse(p)
  BY <1>1, <1>2, <1>3, <1>4, RefuseInv
<1>5. CASE ~Native!Refuse(p)
  <2> DEFINE found == job[p].found \ {x}
             same == job[p].same \/ native[s][x] # None
             j == [job[p] EXCEPT !.found = found, !.same = same]
  <2>1. /\ native[s][x] = None
           \/ (native[s][x] = Native!Source(p)[s] /\ ~Native!BeingFilled(s))
        /\ job' = [job EXCEPT ![p] = [job[p] EXCEPT !.found = @ \ {x}, !.same = @ \/ native[s][x] # None]]
        /\ at' = at
    BY <1>5 DEF Native!Compare, Native!Know
  <2>2. /\ j \in Jobs /\ Kept(p, j) /\ j.todo = job[p].todo
        /\ j.session = s /\ j.same = same /\ j.found = found
    <3>1. found \subseteq Native!Places /\ same \in BOOLEAN
      BY AtHand DEF Jobs
    <3> HIDE DEF found, same
    <3> QED BY <3>1, AtHand DEF Jobs, Kept
  <2>3. job' = [job EXCEPT ![p] = j] /\ at' = [at EXCEPT ![p] = "compare"]
    BY <1>1, <2>1, AtHand DEF Jobs, NativeInv, NativeTypes
  <2>4. same = (job[p].same \/ native[s][x] # None)
    OBVIOUS
  <2>5. found = job[p].found \ {x}
    OBVIOUS
  <2> HIDE DEF found, same, j
  <2>6. at'[p] = "compare" /\ job'[p] = j
    BY <2>3 DEF NativeInv, NativeTypes
  <2>7. Native!Planned(p)' = Native!Planned(p) /\ \A r : Native!CopiesOf(r)' = Native!CopiesOf(r)
    BY <1>1, <2>2, <2>6 DEF Native!Planned, Native!CopiesOf, Kept
  <2>8. JobOK(p)'
    BY <1>1, <2>2, <2>6, AtHand DEF JobOK, Kept
  <2>9. s \notin job[p].touched => same \/ Native!CopiesOf(s) \subseteq found \cup {"here"}
    BY <1>1, <2>4, <2>5, AtHand DEF PlacesOK, Native!CopiesOf
  <2>10. PlacesOK(p)'
    BY <2>2, <2>6, <2>7, <2>9, AtHand DEF PlacesOK, Kept
  <2>11. ImportOK(p)'
    BY <1>1, <2>7, AtHand DEF ImportOK, Importing
  <2>12. ASSUME Calm PROVE SettledOK(p)'
    <3>1. SettledOK(p)
      BY <2>12, AtHand
    <3>2. Native!Source(p)' = Native!Source(p)
          /\ Native!CapturedIn(job[p].ctx)' = Native!CapturedIn(job[p].ctx)
      BY <1>1, <2>2, <2>6 DEF Native!Source, Native!CapturedIn, Kept
    <3>3. \A r : Settled(p, r) => Settled(p, r)'
      BY <1>1, <2>3, <2>6, <3>2 DEF Settled, Native!BeingFilled, NativeInv, NativeTypes
    <3>4. same /\ s \notin job[p].touched => Settled(p, s)
      BY <1>1, <2>1, <2>4, <3>1 DEF SettledOK, Settled
    <3> QED
      BY <1>1, <2>2, <2>6, <2>7, <3>1, <3>2, <3>3, <3>4 DEF SettledOK, Kept
  <2>13. Whole(j.plan)
    BY <2>2, AtHand DEF Kept
  <2> QED
    BY <1>1, <1>2, <2>2, <2>3, <2>8, <2>10, <2>11, <2>12, <2>13, Private DEF RestoreSteps
<1> QED BY <1>4, <1>5

(* A session is left alone where it is, and planned where it is not.        *)
LEMMA PlanningInv ==
  ASSUME NativeInv, NEW p \in Restorers, NEW s \in Sessions,
         at[p] \in {"plan", "compare"}, s \in job[p].todo,
         at[p] = "compare" => s = job[p].session,
         at' = [at EXCEPT ![p] = "plan"],
         job' = [job EXCEPT ![p] = Native!Planning(p, s)],
         UNCHANGED <<harness, links, captured, native, turns, restores>>,
         ~job[p].same /\ s \notin job[p].touched => Native!CopiesOf(s) \subseteq {"here"},
         ~job[p].same /\ Importing => Native!CopiesOf(s) = {}
  PROVE  NativeInv'
<1> DEFINE plan == [job[p].plan EXCEPT ![s] = IF job[p].same THEN None ELSE Native!Source(p)[s]]
           j == Native!Planning(p, s)
<1>1. job[p].ctx \in Contexts /\ job[p].restored = {}
  BY AtHand DEF JobOK
<1>2. Native!Source(p) \in [Sessions -> Data]
  BY <1>1 DEF NativeInv, NativeTypes, Native!Source
<1>3. plan \in [Sessions -> Data]
  BY <1>2, AtHand DEF Jobs, Data
<1>4. /\ j \in Jobs /\ j.todo = job[p].todo \ {s} /\ j.session = None /\ j.same = FALSE
      /\ j.plan = plan /\ j.restored = job[p].restored /\ j.ctx = job[p].ctx
      /\ j.touched = job[p].touched
  <2>1. job[p] \in Jobs
    BY AtHand
  <2>2. j = [job[p] EXCEPT !.todo = job[p].todo \ {s}, !.session = None, !.same = FALSE, !.plan = plan]
    BY <2>1 DEF Native!Planning, Jobs
  <2> HIDE DEF j, plan
  <2> QED BY <1>3, <2>1, <2>2 DEF Jobs
<1>5. /\ \A r \in Sessions \ {s} : plan[r] = job[p].plan[r]
      /\ plan[s] = IF job[p].same THEN None ELSE Native!Source(p)[s]
  BY AtHand DEF Jobs
<1> HIDE DEF plan, j
<1>6. job' = [job EXCEPT ![p] = j]
  BY DEF j
<1>7. at'[p] = "plan" /\ job'[p] = j
  BY <1>6 DEF NativeInv, NativeTypes
<1>8. \A r \in Native!Planned(p)' : (r = s /\ ~job[p].same) \/ r \in Native!Planned(p)
  BY <1>4, <1>5, <1>7 DEF Native!Planned
<1>9. \A r : Native!CopiesOf(r)' = Native!CopiesOf(r)
  BY DEF Native!CopiesOf
<1>10. JobOK(p)'
  BY <1>1, <1>4, <1>7 DEF JobOK
<1>11. PlacesOK(p)'
  BY <1>4, <1>7, <1>8, <1>9, AtHand DEF PlacesOK
<1>12. ImportOK(p)'
  BY <1>8, <1>9, AtHand DEF ImportOK, Importing
<1>13. ASSUME Calm PROVE SettledOK(p)'
  <2>1. SettledOK(p)
    BY <1>13, AtHand
  <2>2. Native!Source(p)' = Native!Source(p)
        /\ Native!CapturedIn(job[p].ctx)' = Native!CapturedIn(job[p].ctx)
    BY <1>4, <1>7 DEF Native!Source, Native!CapturedIn
  <2>3. \A r : Settled(p, r) => Settled(p, r)'
    BY <1>6, <1>7, <2>2 DEF Settled, Native!BeingFilled, NativeInv, NativeTypes
  <2>4. job[p].same /\ s \notin job[p].touched => Settled(p, s)
    BY <2>1, AtHand DEF SettledOK, JobOK
  <2>5. ~job[p].same => s \in Native!Planned(p)'
    <3>1. s \in Native!CapturedIn(job[p].ctx)
      BY <2>1 DEF SettledOK
    <3>2. Native!Source(p)[s] # None
      BY <3>1 DEF Native!CapturedIn, Native!Source
    <3> QED BY <1>4, <1>5, <1>7, <3>2 DEF Native!Planned
  <2>6. \A r \in Native!Planned(p) : r # s => r \in Native!Planned(p)'
    BY <1>4, <1>5, <1>7 DEF Native!Planned
  <2>7. \A r \in Native!CapturedIn(job[p].ctx) \ job[p].touched :
          r \in job'[p].todo \/ r \in Native!Planned(p)' \/ Settled(p, r)'
    BY <1>4, <1>7, <2>1, <2>3, <2>4, <2>5, <2>6 DEF SettledOK
  <2>8. \A r \in Sessions : job'[p].plan[r] \in {None, Native!Source(p)[r]}
    BY <1>4, <1>5, <1>7, <2>1 DEF SettledOK
  <2> QED
    BY <1>4, <1>7, <2>1, <2>2, <2>7, <2>8 DEF SettledOK
<1>14. Whole(j.plan)
  BY <1>1, <1>4, <1>5, MachineAssumption, AtHand DEF Whole, NativeInv, WholeOK, Native!Source
<1>15. restores' \in Nat
  BY DEF NativeInv, NativeTypes
<1>16. Importing => at[p] # "idle"
  OBVIOUS
<1> QED
  BY <1>4, <1>6, <1>10, <1>11, <1>12, <1>13, <1>14, <1>15, <1>16, Private DEF RestoreSteps

\* All found copies are compared: the session is settled, or has none.
LEMMA DecideInv ==
  ASSUME NativeInv, NEW p \in Restorers, Native!Decide(p)
  PROVE  NativeInv'
<1>1. /\ at[p] = "compare" /\ job[p].found = {}
      /\ at' = [at EXCEPT ![p] = "plan"]
      /\ job' = [job EXCEPT ![p] = Native!Planning(p, job[p].session)]
      /\ UNCHANGED <<harness, links, captured, native, turns, restores>>
  BY DEF Native!Decide, Native!Goto, Native!Know, Native!setting, Native!bounds
<1>2. job[p].session \in job[p].todo /\ job[p].session \in Sessions /\ harness \in {"codex", "pi"}
  BY <1>1, AtHand DEF JobOK, Jobs
<1>3. ~job[p].same /\ job[p].session \notin job[p].touched =>
        Native!CopiesOf(job[p].session) \subseteq {"here"}
  BY <1>1, AtHand DEF PlacesOK
<1> QED
  BY <1>1, <1>2, <1>3, PlanningInv DEF Importing

\* An OpenCode session is planned when it is not there.
LEMMA AskOpenCodeInv ==
  ASSUME NativeInv, NEW p \in Restorers, NEW s \in Sessions, Native!AskOpenCode(p, s)
  PROVE  NativeInv'
<1>1. /\ at[p] = "plan" /\ s \in job[p].todo
      /\ UNCHANGED <<harness, links, captured, native, turns, restores>>
  BY DEF Native!AskOpenCode, Native!setting, Native!bounds
<1>2. CASE Native!CopiesOf(s) = {}
  <2>1. job' = [job EXCEPT ![p] = Native!Planning(p, s)] /\ at' = at
    BY <1>2 DEF Native!AskOpenCode, Native!Know
  <2>2. at' = [at EXCEPT ![p] = "plan"]
    BY <1>1, <2>1 DEF NativeInv, NativeTypes
  <2> QED BY <1>1, <1>2, <2>1, <2>2, PlanningInv
<1>3. CASE Native!CopiesOf(s) # {}
  <2>1. Native!Refuse(p)
    BY <1>3 DEF Native!AskOpenCode
  <2>2. job[p].restored = {}
    BY <1>1, AtHand DEF JobOK
  <2> QED
    BY <1>1, <2>1, <2>2, RefuseInv DEF NativeInv, NativeTypes
<1> QED BY <1>2, <1>3

\* A refusal comes before the first write.
LEMMA RefuseFileInv ==
  ASSUME NativeInv, NEW p \in Restorers, NEW s \in Sessions, Native!RefuseFile(p, s)
  PROVE  NativeInv'
<1>1. /\ at[p] = "plan" /\ s \in job[p].todo /\ Native!Refuse(p)
      /\ UNCHANGED <<harness, links, captured, native, turns, restores>>
  BY DEF Native!RefuseFile, Native!setting
<1>2. job[p].restored = {}
  BY <1>1, AtHand DEF JobOK
<1> QED
  BY <1>1, <1>2, RefuseInv DEF NativeInv, NativeTypes

\* Nothing is left to look at or to write.
LEMMA ReportInv ==
  ASSUME NativeInv, NEW p \in Restorers, Native!Report(p)
  PROVE  NativeInv'
<1>1. /\ at[p] = "plan" /\ job[p].todo = {} /\ Native!Planned(p) = {}
      /\ at' = [at EXCEPT ![p] = "done"] /\ job' = job
      /\ UNCHANGED <<harness, links, captured, native, turns, restores>>
  BY DEF Native!Report, Native!Ready, Native!Goto, Native!setting, Native!bounds
<1>2. job' = [job EXCEPT ![p] = job[p]]
  BY <1>1 DEF NativeInv, NativeTypes
<1>3. at'[p] = "done" /\ job'[p] = job[p]
  BY <1>1 DEF NativeInv, NativeTypes
<1>4. Native!Planned(p)' = {}
  BY <1>1 DEF Native!Planned
<1>5. job[p].ctx \in Contexts /\ job[p].same = FALSE
  BY <1>1, AtHand DEF JobOK
<1>6. JobOK(p)' /\ PlacesOK(p)' /\ ImportOK(p)'
  BY <1>1, <1>3, <1>4, <1>5 DEF JobOK, PlacesOK, ImportOK
<1>7. ASSUME Calm PROVE SettledOK(p)'
  <2>1. SettledOK(p)
    BY <1>7, AtHand
  <2>2. Native!Source(p)' = Native!Source(p)
        /\ Native!CapturedIn(job[p].ctx)' = Native!CapturedIn(job[p].ctx)
    BY <1>1 DEF Native!Source, Native!CapturedIn
  <2>3. \A r : Settled(p, r) => Settled(p, r)'
    BY <1>1, <2>2 DEF Settled, Native!BeingFilled, NativeInv, NativeTypes
  <2> QED
    BY <1>1, <1>3, <1>4, <2>1, <2>2, <2>3 DEF SettledOK
<1>8. job[p] \in Jobs /\ Whole(job[p].plan) /\ restores' \in Nat
  BY <1>1, AtHand DEF NativeInv, NativeTypes
<1> QED
  BY <1>1, <1>2, <1>6, <1>7, <1>8, Private DEF RestoreSteps

\* The other ends of a restore write nothing.
LEMMA ExitsInv ==
  ASSUME NativeInv, NEW p \in Restorers,
         Native!LockTimeout(p) \/ Native!End(p) \/ Native!Stop(p)
  PROVE  NativeInv'
<1>1. Native!Exit(p) /\ UNCHANGED <<harness, links, captured, native, turns, restores>>
  BY DEF Native!LockTimeout, Native!End, Native!Stop, Native!setting, Native!bounds
<1> QED
  BY <1>1, ExitInv DEF NativeInv, NativeTypes

-----------------------------------------------------------------------------
(* The steps that write a session. Where none was, or the writer alone      *)
(* fills, no other restore had found the copy it needs.                     *)
LEMMA Write ==
  ASSUME NativeInv, NEW p \in Restorers, NEW s \in Sessions, NEW v \in Data,
         NEW step \in RestoreSteps, NEW j \in Jobs,
         at' = [at EXCEPT ![p] = step], job' = [job EXCEPT ![p] = j],
         native' = [native EXCEPT ![s]["here"] = v],
         UNCHANGED <<harness, links, captured, restores, turns>>,
         at[p] # "idle",
         \/ native[s]["here"] = None
         \/ at[p] = "fill" /\ job[p].session = s
         \/ harness = "opencode",
         step = "fill" => /\ harness = "claude" \/ (harness \in {"codex", "pi"} /\ ~links)
                          /\ v = Torn /\ j.session = s /\ native[s]["here"] = None,
         harness # "claude" /\ links => v # Torn,
         JobOK(p)', PlacesOK(p)', ImportOK(p)', Whole(j.plan), Calm => SettledOK(p)'
  PROVE  NativeInv'
<1>1. /\ \A q \in Restorers : q # p => at'[q] = at[q] /\ job'[q] = job[q]
      /\ at'[p] = step /\ job'[p] = j
  BY DEF NativeInv, NativeTypes
<1>2. /\ native' \in [Sessions -> [Native!Places -> Data]] /\ native'[s]["here"] = v
      /\ \A r \in Sessions, x \in Native!Places : r # s \/ x # "here" => native'[r][x] = native[r][x]
  BY DEF NativeInv, NativeTypes, Native!Places, Native!Live
<1>3. NativeTypes'
  BY <1>2 DEF NativeInv, NativeTypes
<1>4. \A r \in Sessions : Native!CopiesOf(r)' \subseteq Native!CopiesOf(r) \cup {"here"}
  BY <1>2 DEF Native!CopiesOf
<1>5. \A q \in Restorers : q # p /\ at[q] = "fill" => job[q].session # s
  <2> SUFFICES ASSUME NEW q \in Restorers, q # p, at[q] = "fill", job[q].session = s PROVE FALSE
    OBVIOUS
  <2>1. native[s]["here"] = Torn /\ harness # "opencode"
        /\ ~(at[p] = "fill" /\ job[p].session = s)
    BY DEF NativeInv, FillOK
  <2> QED BY <2>1, MachineAssumption
<1>6. \A q \in Restorers : at[q] = "fill" => job[q].session \in Sessions
  <2> TAKE q \in Restorers
  <2> QED BY AtHand DEF JobOK
<1>7. FillOK'
  BY <1>1, <1>2, <1>5, <1>6, MachineAssumption DEF NativeInv, FillOK, Native!Places, Native!Live
<1>8. WholeOK'
  <2>1. \A x \in Native!Places : Whole([r \in Sessions |-> native[r][x]])'
    <3> SUFFICES ASSUME NEW x \in Native!Places, harness # "claude", links, NEW r \in Sessions
                 PROVE  native'[r][x] # Torn
      BY DEF Whole
    <3>1. native[r][x] # Torn
      BY DEF NativeInv, WholeOK, Whole
    <3> QED BY <1>2, <3>1
  <2>2. \A c \in Contexts : Whole(captured[c])'
    BY DEF NativeInv, WholeOK, Whole
  <2>3. \A q \in Restorers : Whole(job[q].plan)'
    BY <1>1 DEF NativeInv, WholeOK, Whole
  <2> QED BY <2>1, <2>2, <2>3 DEF WholeOK
<1>9. HereOnly'
  BY <1>2 DEF NativeInv, HereOnly, Native!Places, Native!Live
<1>10. OneImport'
  BY <1>1 DEF NativeInv, OneImport, Importing
<1>11. ASSUME NEW q \in Restorers, q # p
       PROVE  JobOK(q)' /\ PlacesOK(q)' /\ ImportOK(q)' /\ (Calm => SettledOK(q)')
  <2>1. JobOK(q) /\ PlacesOK(q) /\ ImportOK(q) /\ job[q] \in Jobs /\ (Calm => SettledOK(q))
        /\ Native!Planned(q) \subseteq Sessions
    BY AtHand
  <2>2. at'[q] = at[q] /\ job'[q] = job[q]
    BY <1>1, <1>11
  <2>3. Native!Planned(q)' = Native!Planned(q)
    BY <2>2 DEF Native!Planned
  <2>4. JobOK(q)'
    BY <2>1, <2>2, <2>3 DEF JobOK, Native!NoJob
  <2>5. at[q] \in {"archive", "compare"} => job[q].session \in Sessions
    BY <2>1 DEF JobOK, Jobs
  <2>6. PlacesOK(q)'
    BY <1>4, <2>1, <2>2, <2>3, <2>5 DEF PlacesOK
  <2>7. Importing => at[q] = "idle" /\ Native!Planned(q) = {}
    <3>1. Importing => at[q] = "idle"
      BY <1>11, AtHand
    <3>2. at[q] = "idle" => Native!Planned(q) = {}
      BY <2>1 DEF JobOK, Native!NoJob, Native!Planned
    <3> QED BY <3>1, <3>2
  <2>8. ImportOK(q)'
    BY <2>3, <2>7 DEF ImportOK, Importing
  <2>9. ASSUME Calm PROVE SettledOK(q)'
    <3>1. SettledOK(q)
      BY <2>1, <2>9
    <3>2. Native!Source(q)' = Native!Source(q)
          /\ Native!CapturedIn(job[q].ctx)' = Native!CapturedIn(job[q].ctx)
      BY <2>2 DEF Native!Source, Native!CapturedIn
    <3>3. CASE at[q] = "idle"
      BY <2>2, <3>3 DEF SettledOK
    <3>4. CASE at[q] # "idle"
      <4>1. native[s]["here"] = None \/ (at[p] = "fill" /\ job[p].session = s)
        BY <2>7, <2>9, <3>4 DEF Importing
      <4>2. ASSUME NEW r \in Native!CapturedIn(job[q].ctx), Settled(q, r)
            PROVE  Settled(q, r)'
        <5>1. r \in Sessions /\ Native!Source(q)[r] # None
          BY DEF Native!CapturedIn, Native!Source
        <5>2. PICK x \in Native!Places :
                native[r][x] = Native!Source(q)[r] /\ (x = "here" => ~Native!BeingFilled(r))
          BY <4>2 DEF Settled
        <5>3. r # s \/ x # "here"
          BY <4>1, <5>1, <5>2 DEF Native!BeingFilled
        <5>4. native'[r][x] = native[r][x]
          BY <1>2, <5>1, <5>3
        <5>5. x = "here" => ~Native!BeingFilled(r)'
          BY <1>1, <5>2, <5>3 DEF Native!BeingFilled
        <5> QED BY <3>2, <5>2, <5>4, <5>5 DEF Settled
      <4>3. at[q] = "compare" => job[q].session \in Native!CapturedIn(job[q].ctx)
        BY <2>1, <3>1 DEF SettledOK, JobOK
      <4> QED
        BY <2>2, <2>3, <3>1, <3>2, <4>2, <4>3 DEF SettledOK
    <3> QED BY <3>3, <3>4
  <2> QED BY <2>4, <2>6, <2>8, <2>9
<1>12. \A q \in Restorers : JobOK(q)' /\ PlacesOK(q)' /\ ImportOK(q)' /\ (Calm => SettledOK(q)')
  BY <1>11
<1> QED
  BY <1>3, <1>7, <1>8, <1>9, <1>10, <1>12 DEF NativeInv

\* A session is written as it was planned.
LEMMA WrittenInv ==
  ASSUME NativeInv, NEW p \in Restorers, NEW s \in Native!Planned(p), NEW v \in Data,
         at[p] \in {"plan", "fill"}, job[p].todo = {},
         at[p] = "fill" => job[p].session = s,
         at' = [at EXCEPT ![p] = "plan"],
         job' = [job EXCEPT ![p] = Native!Written(p, s)],
         native' = [native EXCEPT ![s]["here"] = v],
         UNCHANGED <<harness, links, captured, restores, turns>>,
         native[s]["here"] = None \/ at[p] = "fill" \/ harness = "opencode",
         v \in {job[p].plan[s], native[s]["here"]}, Calm => v = job[p].plan[s]
  PROVE  NativeInv'
<1> DEFINE plan == [job[p].plan EXCEPT ![s] = None]
           j == Native!Written(p, s)
<1>1. s \in Sessions /\ job[p].plan[s] # None
  BY DEF Native!Planned
<1>2. plan \in [Sessions -> Data]
  BY AtHand DEF Jobs, Data
<1>3. /\ j \in Jobs /\ j.todo = job[p].todo /\ j.session = None /\ j.same = job[p].same
      /\ j.plan = plan /\ j.ctx = job[p].ctx /\ j.touched = job[p].touched
  <2>1. job[p] \in Jobs
    BY AtHand
  <2>2. j = [job[p] EXCEPT !.plan = plan, !.session = None, !.restored = job[p].restored \cup {s}]
    BY <2>1 DEF Native!Written, Jobs
  <2> HIDE DEF j, plan
  <2> QED BY <1>1, <1>2, <2>1, <2>2 DEF Jobs
<1>4. plan[s] = None /\ \A r \in Sessions \ {s} : plan[r] = job[p].plan[r]
  BY <1>1, AtHand DEF Jobs
<1> HIDE DEF plan, j
<1>5. job' = [job EXCEPT ![p] = j]
  BY DEF j
<1>6. /\ at'[p] = "plan" /\ job'[p] = j
      /\ \A q \in Restorers : q # p => at'[q] = at[q] /\ job'[q] = job[q]
  BY <1>5 DEF NativeInv, NativeTypes
<1>7. Native!Planned(p)' = Native!Planned(p) \ {s}
  BY <1>3, <1>4, <1>6 DEF Native!Planned
<1>8. /\ native'[s]["here"] = v
      /\ \A r \in Sessions, x \in Native!Places : r # s => native'[r][x] = native[r][x]
  BY <1>1 DEF NativeInv, NativeTypes, Native!Places, Native!Live
<1>9. \A r \in Sessions : r # s => Native!CopiesOf(r)' = Native!CopiesOf(r)
  BY <1>8 DEF Native!CopiesOf
<1>10. job[p].ctx \in Contexts /\ job[p].same = FALSE
  BY AtHand DEF JobOK
<1>11. JobOK(p)'
  BY <1>3, <1>6, <1>10 DEF JobOK
<1>12. PlacesOK(p)'
  BY <1>3, <1>6, <1>7, <1>9, AtHand DEF PlacesOK
<1>13. ImportOK(p)'
  BY <1>7, <1>9, AtHand DEF ImportOK, Importing
<1>14. ASSUME Calm PROVE SettledOK(p)'
  <2>1. SettledOK(p)
    BY <1>14, AtHand
  <2>2. Native!Source(p)' = Native!Source(p)
        /\ Native!CapturedIn(job[p].ctx)' = Native!CapturedIn(job[p].ctx)
    BY <1>3, <1>6 DEF Native!Source, Native!CapturedIn
  <2>3. ASSUME NEW r \in Sessions, r # s, Settled(p, r) PROVE Settled(p, r)'
    <3>1. Native!BeingFilled(r)' => Native!BeingFilled(r)
      BY <1>6 DEF Native!BeingFilled
    <3> QED BY <1>8, <2>2, <2>3, <3>1 DEF Settled
  <2>4. v = Native!Source(p)[s]
    BY <1>1, <1>14, <2>1 DEF SettledOK
  <2>5. ~Native!BeingFilled(s)'
    <3> SUFFICES ASSUME NEW q \in Restorers, q # p, at[q] = "fill", job[q].session = s PROVE FALSE
      BY <1>6 DEF Native!BeingFilled
    <3>1. native[s]["here"] = Torn /\ harness # "opencode" /\ ~(at[p] = "fill" /\ job[p].session = s)
      BY DEF NativeInv, FillOK
    <3> QED BY <3>1, MachineAssumption
  <2>6. Settled(p, s)'
    BY <1>8, <2>2, <2>4, <2>5 DEF Settled, Native!Places, Native!Live
  <2>7. \A r \in Sessions : job'[p].plan[r] \in {None, Native!Source(p)[r]}
    BY <1>3, <1>4, <1>6, <2>1 DEF SettledOK
  <2>8. \A r \in Native!CapturedIn(job[p].ctx) \ job[p].touched :
          r \in Native!Planned(p)' \/ Settled(p, r)'
    <3> TAKE r \in Native!CapturedIn(job[p].ctx) \ job[p].touched
    <3>1. r \in Sessions
      BY DEF Native!CapturedIn
    <3>2. r \in Native!Planned(p) \/ Settled(p, r)
      BY <2>1 DEF SettledOK
    <3> QED BY <1>7, <2>3, <2>6, <3>1, <3>2
  <2> QED
    BY <1>3, <1>6, <2>2, <2>7, <2>8 DEF SettledOK
<1>15. harness # "claude" /\ links => v # Torn
  BY <1>1, AtHand DEF NativeInv, WholeOK, Whole, Native!Places, Native!Live
<1>16. Whole(j.plan)
  BY <1>3, <1>4, MachineAssumption, AtHand DEF Whole
<1> QED
  BY <1>1, <1>3, <1>5, <1>11, <1>12, <1>13, <1>14, <1>15, <1>16, Write DEF RestoreSteps

\* The whole file appears where none was.
LEMMA LinkInv ==
  ASSUME NativeInv, NEW p \in Restorers, NEW s \in Sessions, Native!Link(p, s)
  PROVE  NativeInv'
<1>1. /\ at[p] = "plan" /\ job[p].todo = {} /\ s \in Native!Planned(p)
      /\ UNCHANGED <<harness, links, captured, restores, turns>>
  BY DEF Native!Link, Native!Ready, Native!setting, Native!bounds
<1>2. CASE native[s]["here"] = None
  <2>1. /\ native' = [native EXCEPT ![s]["here"] = job[p].plan[s]]
        /\ job' = [job EXCEPT ![p] = Native!Written(p, s)] /\ at' = at
    BY <1>2 DEF Native!Link, Native!Know
  <2>2. at' = [at EXCEPT ![p] = "plan"] /\ job[p].plan[s] \in Data
    BY <1>1, <2>1, AtHand DEF NativeInv, NativeTypes, Jobs
  <2> QED BY <1>1, <1>2, <2>1, <2>2, WrittenInv
<1>3. CASE native[s]["here"] # None
  <2>1. Native!Exit(p) /\ UNCHANGED native
    BY <1>3 DEF Native!Link
  <2> QED BY <1>1, <2>1, ExitInv DEF NativeInv, NativeTypes
<1> QED BY <1>2, <1>3

\* The only writer of the file completes it.
LEMMA FillInv ==
  ASSUME NativeInv, NEW p \in Restorers, Native!Fill(p)
  PROVE  NativeInv'
<1> DEFINE s == job[p].session
<1>1. /\ at[p] = "fill" /\ at' = [at EXCEPT ![p] = "plan"]
      /\ native' = [native EXCEPT ![s]["here"] = job[p].plan[s]]
      /\ job' = [job EXCEPT ![p] = Native!Written(p, s)]
      /\ UNCHANGED <<harness, links, captured, restores, turns>>
  BY DEF Native!Fill, Native!Goto, Native!Know, Native!setting, Native!bounds
<1>2. job[p].todo = {} /\ s \in Native!Planned(p)
  BY <1>1, AtHand DEF JobOK
<1>3. job[p].plan[s] \in Data
  BY <1>2, AtHand DEF Jobs
<1> HIDE DEF s
<1> QED BY <1>1, <1>2, <1>3, WrittenInv DEF s

\* The import of a session that is still not there.
LEMMA ImportInv ==
  ASSUME NativeInv, NEW p \in Restorers, NEW s \in Sessions, Native!Import(p, s)
  PROVE  NativeInv'
<1>1. /\ at[p] = "plan" /\ job[p].todo = {} /\ s \in Native!Planned(p) /\ harness = "opencode"
      /\ at' = at /\ job' = [job EXCEPT ![p] = Native!Written(p, s)]
      /\ UNCHANGED <<harness, links, captured, restores, turns>>
  BY DEF Native!Import, Native!Ready, Native!Know, Native!setting, Native!bounds
<1>2. PICK v \in {job[p].plan[s]} \cup (IF Native!CopiesOf(s) = {} THEN {} ELSE {native[s]["here"]}) :
        native' = [native EXCEPT ![s]["here"] = v]
  BY DEF Native!Import
<1>3. v \in {job[p].plan[s], native[s]["here"]}
  OBVIOUS
<1>4. Calm => v = job[p].plan[s]
  <2>1. Calm => Native!CopiesOf(s) = {}
    BY <1>1, AtHand DEF ImportOK, Importing
  <2> QED BY <2>1
<1>5. at' = [at EXCEPT ![p] = "plan"] /\ v \in Data
  BY <1>1, <1>3, AtHand DEF NativeInv, NativeTypes, Jobs, Native!Places, Native!Live
<1> QED BY <1>1, <1>2, <1>3, <1>4, <1>5, WrittenInv

\* The file appears half written where none was, and has one writer.
LEMMA CreateInv ==
  ASSUME NativeInv, NEW p \in Restorers, NEW s \in Sessions, Native!Create(p, s)
  PROVE  NativeInv'
<1> DEFINE data == IF harness = "claude" THEN Native!Source(p)[s] ELSE job[p].plan[s]
<1>1. /\ at[p] = "plan" /\ job[p].todo = {} /\ s \in Native!Planned(p)
      /\ harness = "claude" \/ (harness \in {"codex", "pi"} /\ ~links)
      /\ UNCHANGED <<harness, links, captured, restores, turns>>
  BY DEF Native!Create, Native!Ready, Native!setting, Native!bounds
<1>2. CASE ~(native[s]["here"] = None /\ data # None)
  <2>1. Native!Exit(p) /\ UNCHANGED native
    BY <1>2 DEF Native!Create
  <2> QED BY <1>1, <2>1, ExitInv DEF NativeInv, NativeTypes
<1>3. CASE native[s]["here"] = None /\ data # None
  <2> DEFINE plan == [job[p].plan EXCEPT ![s] = data]
             j == [job[p] EXCEPT !.session = s, !.plan = plan]
  <2>1. /\ native' = [native EXCEPT ![s]["here"] = Torn]
        /\ job' = [job EXCEPT ![p] = [job[p] EXCEPT !.session = s, !.plan[s] = data]]
        /\ at' = [at EXCEPT ![p] = "fill"]
    BY <1>3 DEF Native!Create, Native!Goto, Native!Know
  <2>2. job[p].ctx \in Contexts /\ job[p].same = FALSE
    BY <1>1, AtHand DEF JobOK
  <2>3. data \in Data
    BY <2>2, AtHand DEF Jobs, NativeInv, NativeTypes, Native!Source
  <2> HIDE DEF data
  <2>4. plan \in [Sessions -> Data] /\ plan[s] = data
        /\ \A r \in Sessions \ {s} : plan[r] = job[p].plan[r]
    BY <2>3, AtHand DEF Jobs
  <2>5. job' = [job EXCEPT ![p] = j]
    BY <2>1, AtHand DEF Jobs
  <2> HIDE DEF plan
  <2>6. /\ j \in Jobs /\ j.session = s /\ j.plan = plan /\ j.todo = job[p].todo
        /\ j.same = job[p].same /\ j.ctx = job[p].ctx /\ j.touched = job[p].touched
    BY <2>4, AtHand DEF Jobs
  <2> HIDE DEF j
  <2>7. /\ at'[p] = "fill" /\ job'[p] = j
        /\ \A q \in Restorers : q # p => at'[q] = at[q] /\ job'[q] = job[q]
    BY <2>1, <2>5 DEF NativeInv, NativeTypes
  <2>8. Native!Planned(p)' = Native!Planned(p)
    BY <1>1, <1>3, <2>4, <2>6, <2>7 DEF Native!Planned
  <2>9. \A r \in Sessions : Native!CopiesOf(r)' \subseteq Native!CopiesOf(r) \cup {"here"}
    BY <2>1 DEF Native!CopiesOf, NativeInv, NativeTypes, Native!Places, Native!Live
  <2>10. JobOK(p)'
    BY <1>1, <2>2, <2>6, <2>7, <2>8 DEF JobOK
  <2>11. PlacesOK(p)'
    BY <2>6, <2>7, <2>8, <2>9, AtHand DEF PlacesOK
  <2>12. ImportOK(p)'
    BY <1>1 DEF ImportOK, Importing
  <2>13. ASSUME Calm PROVE SettledOK(p)'
    <3>1. SettledOK(p)
      BY <2>13, AtHand
    <3>2. Native!Source(p)' = Native!Source(p)
          /\ Native!CapturedIn(job[p].ctx)' = Native!CapturedIn(job[p].ctx)
      BY <1>1, <2>6, <2>7 DEF Native!Source, Native!CapturedIn
    <3>3. data = Native!Source(p)[s]
      BY <1>1, <3>1 DEF data, SettledOK, Native!Planned
    <3>4. \A r \in Sessions : job'[p].plan[r] \in {None, Native!Source(p)[r]}
      BY <1>1, <2>4, <2>6, <2>7, <3>1, <3>3 DEF SettledOK
    <3>5. ASSUME NEW r \in Native!CapturedIn(job[p].ctx), Settled(p, r)
          PROVE  Settled(p, r)' \/ r \in Native!Planned(p)
      <4>1. r \in Sessions /\ Native!Source(p)[r] # None
        BY DEF Native!CapturedIn, Native!Source
      <4>2. CASE r = s
        BY <1>1, <4>2
      <4>3. CASE r # s
        <5>1. Native!BeingFilled(r)' => Native!BeingFilled(r)
          BY <2>6, <2>7, <4>3 DEF Native!BeingFilled
        <5>2. \A x \in Native!Places : native'[r][x] = native[r][x]
          BY <2>1, <4>1, <4>3 DEF NativeInv, NativeTypes
        <5> QED BY <3>2, <3>5, <5>1, <5>2 DEF Settled
      <4> QED BY <4>2, <4>3
    <3> QED
      BY <1>1, <2>6, <2>7, <2>8, <3>1, <3>2, <3>4, <3>5 DEF SettledOK
  <2>14. Whole(j.plan)
    BY <1>1 DEF Whole
  <2> QED
    BY <1>1, <1>3, <2>1, <2>5, <2>6, <2>10, <2>11, <2>12, <2>13, <2>14, Write DEF RestoreSteps, Data
<1> QED BY <1>2, <1>3

\* The failed file is removed, or left half written without a writer.
LEMMA FillFailsInv ==
  ASSUME NativeInv, NEW p \in Restorers, Native!FillFails(p)
  PROVE  NativeInv'
<1> DEFINE s == job[p].session
           j == Native!NoJob
<1>1. /\ at[p] = "fill" /\ at' = [at EXCEPT ![p] = "idle"] /\ job' = [job EXCEPT ![p] = j]
      /\ native' = IF harness = "claude" THEN native ELSE [native EXCEPT ![s]["here"] = None]
      /\ UNCHANGED <<harness, links, captured, restores, turns>>
  BY DEF Native!FillFails, Native!Exit, Native!Goto, Native!Know, Native!setting
<1>2. CASE harness = "claude"
  <2>1. Native!Exit(p) /\ UNCHANGED native
    BY <1>1, <1>2 DEF Native!FillFails
  <2> QED BY <1>1, <2>1, ExitInv DEF NativeInv, NativeTypes
<1>3. CASE harness # "claude"
  <2>1. s \in Sessions
    BY <1>1, AtHand DEF JobOK
  <2>2. /\ j \in Jobs /\ j.todo = {} /\ j.same = FALSE /\ j.restored = {}
        /\ j.plan = [r \in Sessions |-> None]
    BY NoJobIsJob DEF Native!NoJob
  <2>3. at'[p] = "idle" /\ job'[p] = Native!NoJob
    BY <1>1 DEF NativeInv, NativeTypes
  <2> HIDE DEF j
  <2>4. Native!Planned(p)' = {}
    BY <2>2, <2>3 DEF Native!Planned, j
  <2>5. JobOK(p)' /\ PlacesOK(p)' /\ ImportOK(p)' /\ SettledOK(p)'
    BY <2>2, <2>3, <2>4 DEF JobOK, PlacesOK, ImportOK, SettledOK, j
  <2>6. Whole(j.plan)
    BY <2>2, MachineAssumption DEF Whole
  <2> HIDE DEF s
  <2>7. job[p].session = s /\ native' = [native EXCEPT ![s]["here"] = None]
    BY <1>1, <1>3 DEF s
  <2> QED
    BY <1>1, <2>1, <2>2, <2>5, <2>6, <2>7, MachineAssumption, Write DEF RestoreSteps, Data
<1> QED BY <1>2, <1>3

-----------------------------------------------------------------------------
(* The steps of the harness. A session it used counts as touched for every  *)
(* restore under way, so nothing is claimed of it any more.                 *)
LEMMA TouchInv ==
  ASSUME NativeInv, NEW s \in Sessions, NEW g \in [Native!Places -> Data],
         native' = [native EXCEPT ![s] = g], Native!Touch(s), ~Native!BeingFilled(s),
         Native!CopiesOf(s) # {}, Native!Turn, UNCHANGED <<captured, at>>,
         harness # "codex" => g["named"] = None /\ g["archived"] = None,
         harness # "claude" /\ links => \A x \in Native!Places : g[x] # Torn
  PROVE  NativeInv'
<1>1. UNCHANGED <<harness, links, restores>> /\ turns' \in Nat
  BY DEF Native!Turn, Native!setting, NativeInv, NativeTypes
<1>2. /\ native' \in [Sessions -> [Native!Places -> Data]] /\ native'[s] = g
      /\ \A r \in Sessions : r # s => native'[r] = native[r]
  BY DEF NativeInv, NativeTypes
<1>3. \A p \in Restorers : IF at[p] = "idle" THEN job'[p] = job[p]
                           ELSE job'[p] = [job[p] EXCEPT !.touched = @ \cup {s}]
  BY DEF Native!Touch
<1>4. \A p \in Restorers : job[p] \in Jobs
  BY AtHand
<1>5. \A p \in Restorers :
        /\ job'[p] \in Jobs /\ job'[p].plan = job[p].plan /\ job'[p].todo = job[p].todo
        /\ job'[p].session = job[p].session /\ job'[p].restored = job[p].restored
        /\ job'[p].ctx = job[p].ctx /\ job'[p].found = job[p].found /\ job'[p].same = job[p].same
        /\ job'[p].touched = IF at[p] = "idle" THEN job[p].touched ELSE job[p].touched \cup {s}
  <2> TAKE p \in Restorers
  <2>1. CASE at[p] = "idle"
    BY <1>3, <1>4, <2>1
  <2>2. CASE at[p] # "idle"
    <3>1. job'[p] = [job[p] EXCEPT !.touched = @ \cup {s}] /\ job[p] \in Jobs
      BY <1>3, <1>4, <2>2
    <3> QED BY <2>2, <3>1 DEF Jobs
  <2> QED BY <2>1, <2>2
<1>6. job' \in [Restorers -> Jobs]
  BY <1>5 DEF Native!Touch
<1>7. NativeTypes'
  BY <1>1, <1>2, <1>6 DEF NativeInv, NativeTypes
<1>8. FillOK'
  <2>1. \A p \in Restorers : at[p] = "fill" => job[p].session # s /\ job[p].session \in Sessions
    BY AtHand DEF Native!BeingFilled, JobOK
  <2>2. \A p \in Restorers : job'[p].session = job[p].session
    BY <1>5
  <2> QED BY <1>1, <1>2, <2>1, <2>2 DEF NativeInv, FillOK
<1>9. WholeOK'
  <2>1. \A x \in Native!Places : Whole([r \in Sessions |-> native[r][x]])'
    <3> SUFFICES ASSUME NEW x \in Native!Places, harness # "claude", links, NEW r \in Sessions
                 PROVE  native'[r][x] # Torn
      BY <1>1 DEF Whole
    <3>1. native[r][x] # Torn
      BY DEF NativeInv, WholeOK, Whole
    <3> QED BY <1>2, <3>1
  <2>2. \A c \in Contexts : Whole(captured[c])'
    BY <1>1 DEF NativeInv, WholeOK, Whole
  <2>3. ASSUME NEW p \in Restorers PROVE Whole(job[p].plan)'
    <3>1. job'[p].plan = job[p].plan
      BY <1>5
    <3> QED BY <1>1, <3>1, AtHand DEF Whole
  <2> QED BY <2>1, <2>2, <2>3 DEF WholeOK
<1>10. HereOnly'
  BY <1>1, <1>2 DEF NativeInv, HereOnly
<1>11. OneImport'
  BY <1>1 DEF NativeInv, OneImport, Importing
<1>12. ASSUME NEW p \in Restorers
       PROVE  JobOK(p)' /\ PlacesOK(p)' /\ ImportOK(p)' /\ (Calm => SettledOK(p)')
  <2>1. Native!Planned(p)' = Native!Planned(p)
    <3>1. job'[p].plan = job[p].plan
      BY <1>5
    <3> QED BY <3>1 DEF Native!Planned
  <2>2. JobOK(p)'
    <3>1. JobOK(p)
      BY AtHand
    <3>2. at[p] = "idle" => job'[p] = job[p] /\ Native!NoJob' = Native!NoJob
      BY <1>3 DEF Native!NoJob
    <3> QED BY <1>1, <1>5, <2>1, <3>1, <3>2 DEF JobOK
  <2>3. \A r : r # s /\ r \in Sessions => Native!CopiesOf(r)' = Native!CopiesOf(r)
    BY <1>2 DEF Native!CopiesOf
  <2>4. at[p] = "idle" => Native!Planned(p) = {}
    <3>1. at[p] = "idle" => job[p] = Native!NoJob
      BY AtHand DEF JobOK
    <3>2. Native!NoJob.plan = [r \in Sessions |-> None]
      BY DEF Native!NoJob
    <3> QED BY <3>1, <3>2 DEF Native!Planned
  <2>5. at[p] # "idle" => s \in job'[p].touched
    BY <1>5
  <2>6. at[p] \in {"archive", "compare"} => job[p].session \in Sessions
    BY AtHand DEF JobOK, Jobs
  <2>7. PlacesOK(p)'
    <3>1. PlacesOK(p) /\ Native!Planned(p) \subseteq Sessions
      BY AtHand
    <3>2. /\ job'[p].session = job[p].session /\ job'[p].found = job[p].found
          /\ job'[p].same = job[p].same /\ at'[p] = at[p]
      BY <1>5
    <3>3. CASE at[p] = "idle"
      BY <2>1, <2>4, <3>2, <3>3 DEF PlacesOK
    <3>4. CASE at[p] # "idle"
      <4>1. job'[p].touched = job[p].touched \cup {s}
        BY <1>5, <3>4
      <4> QED BY <2>1, <2>3, <2>6, <3>1, <3>2, <4>1 DEF PlacesOK
    <3> QED BY <3>3, <3>4
  <2>8. ImportOK(p)'
    <3>1. Importing => s \notin Native!Planned(p)
      BY AtHand DEF ImportOK
    <3> QED BY <1>1, <2>1, <2>3, <3>1, AtHand DEF ImportOK, Importing
  <2>9. ASSUME Calm PROVE SettledOK(p)'
    <3>1. SettledOK(p)
      BY <2>9, AtHand
    <3>2. Native!Source(p)' = Native!Source(p)
          /\ Native!CapturedIn(job[p].ctx)' = Native!CapturedIn(job[p].ctx)
      <4>1. job'[p].ctx = job[p].ctx
        BY <1>5
      <4> QED BY <4>1 DEF Native!Source, Native!CapturedIn
    <3>3. ASSUME NEW r \in Sessions, r # s, Settled(p, r) PROVE Settled(p, r)'
      <4>1. Native!BeingFilled(r)' => Native!BeingFilled(r)
        BY <1>5 DEF Native!BeingFilled
      <4> QED BY <1>2, <3>2, <3>3, <4>1 DEF Settled
    <3>4. Native!CapturedIn(job[p].ctx) \subseteq Sessions
      BY DEF Native!CapturedIn
    <3>5. at[p] # "idle" => \A r \in Sessions : r \notin job'[p].touched => r # s /\ r \notin job[p].touched
      BY <1>5
    <3>6. \A r \in Sessions : job'[p].plan[r] = job[p].plan[r]
      BY <1>5
    <3>7. CASE at[p] = "idle"
      BY <3>7 DEF SettledOK
    <3>8. CASE at[p] # "idle"
      <4>1. /\ job'[p].ctx = job[p].ctx /\ job'[p].todo = job[p].todo /\ job'[p].same = job[p].same
            /\ job'[p].session = job[p].session /\ at'[p] = at[p]
        BY <1>5
      <4> QED
        BY <2>1, <2>6, <3>1, <3>2, <3>3, <3>4, <3>5, <3>6, <3>8, <4>1 DEF SettledOK
    <3> QED BY <3>7, <3>8
  <2> QED BY <2>2, <2>7, <2>8, <2>9
<1> QED
  BY <1>7, <1>8, <1>9, <1>10, <1>11, <1>12 DEF NativeInv

\* A capture copies what is there, under the lock that a restore holds.
LEMMA CaptureInv ==
  ASSUME NativeInv, NEW c \in Contexts, NEW s \in Sessions, NEW x \in Native!Places,
         Native!Capture(c, s, x)
  PROVE  NativeInv'
<1> DEFINE content == IF harness = "claude" THEN [r \in Sessions |-> native[r]["here"]]
                      ELSE [captured[c] EXCEPT ![s] = native[s][x]]
<1>1. /\ captured' = [captured EXCEPT ![c] = content] /\ Native!LockFree(c)
      /\ Calm /\ harness = "claude" => \A p \in Restorers : job[p].ctx # c
      /\ UNCHANGED <<harness, links, native, at, job, restores>> /\ turns' \in Nat
  BY DEF Native!Capture, Native!Turn, Native!setting, NativeInv, NativeTypes
<1>2. content \in [Sessions -> Data]
  BY DEF NativeInv, NativeTypes, Native!Places, Native!Live
<1>3. harness # "claude" /\ links => \A r \in Sessions : content[r] # Torn
  BY DEF NativeInv, NativeTypes, WholeOK, Whole
<1> HIDE DEF content
<1>4. NativeTypes'
  BY <1>1, <1>2 DEF NativeInv, NativeTypes
<1>5. FillOK' /\ HereOnly' /\ OneImport'
  BY <1>1 DEF NativeInv, FillOK, HereOnly, OneImport, Importing
<1>6. WholeOK'
  BY <1>1, <1>3 DEF NativeInv, NativeTypes, WholeOK, Whole
<1>7. ASSUME NEW p \in Restorers
      PROVE  JobOK(p)' /\ PlacesOK(p)' /\ ImportOK(p)' /\ (Calm => SettledOK(p)')
  <2>1. Native!Planned(p)' = Native!Planned(p) /\ \A r : Native!CopiesOf(r)' = Native!CopiesOf(r)
    BY <1>1 DEF Native!Planned, Native!CopiesOf
  <2>2. JobOK(p)' /\ PlacesOK(p)' /\ ImportOK(p)'
    <3>1. JobOK(p) /\ PlacesOK(p) /\ ImportOK(p)
      BY AtHand
    <3>2. UNCHANGED <<harness, links, native, at, job>>
      BY <1>1
    <3>3. JobOK(p)'
      BY <2>1, <3>1, <3>2 DEF JobOK, Native!NoJob
    <3>4. PlacesOK(p)'
      BY <2>1, <3>1, <3>2 DEF PlacesOK
    <3>5. ImportOK(p)'
      BY <2>1, <3>1, <3>2 DEF ImportOK, Importing
    <3> QED BY <3>3, <3>4, <3>5
  <2>3. ASSUME Calm PROVE SettledOK(p)'
    <3>1. CASE at[p] \in {"idle", "lock", "refused"}
      BY <1>1, <3>1 DEF SettledOK
    <3>2. CASE at[p] \notin {"idle", "lock", "refused"}
      <4>1. job[p].ctx # c
        BY <1>1, <2>3, <3>2 DEF Native!LockFree, Native!Holds
      <4>2. job[p].ctx \in Contexts
        BY <3>2, AtHand DEF JobOK
      <4>3. Native!Source(p)' = Native!Source(p)
            /\ Native!CapturedIn(job[p].ctx)' = Native!CapturedIn(job[p].ctx)
        BY <1>1, <4>1, <4>2 DEF Native!Source, Native!CapturedIn, NativeInv, NativeTypes
      <4>4. \A r : Settled(p, r) => Settled(p, r)'
        BY <1>1, <4>3 DEF Settled, Native!BeingFilled
      <4>5. SettledOK(p)
        BY <2>3, AtHand
      <4> QED
        BY <1>1, <2>1, <4>3, <4>4, <4>5 DEF SettledOK
    <3> QED BY <3>1, <3>2
  <2> QED BY <2>2, <2>3
<1> QED
  BY <1>4, <1>5, <1>6, <1>7 DEF NativeInv

\* The harness moves and changes only what nobody fills.
LEMMA HarnessInv ==
  ASSUME NativeInv, Native!HarnessStep
  PROVE  NativeInv'
<1>1. PICK s \in Sessions, x \in Native!Places :
        \/ \E v \in Transcripts : Native!Continue(s, x, v)
        \/ \E y \in Native!Places : Native!Archive(s, x, y)
        \/ Native!Remove(s, x)
        \/ \E c \in Contexts : Native!Capture(c, s, x)
  BY DEF Native!HarnessStep
<1>2. /\ native[s] \in [Native!Places -> Data] /\ "here" \in Native!Places
      /\ "named" \in Native!Places /\ "archived" \in Native!Places
  BY DEF NativeInv, NativeTypes, Native!Places, Native!Live
<1>3. harness # "codex" => native[s]["named"] = None /\ native[s]["archived"] = None
  BY DEF NativeInv, HereOnly
<1>4. harness # "claude" /\ links => \A y \in Native!Places : native[s][y] # Torn
  BY DEF NativeInv, WholeOK, Whole
<1>5. native[s][x] # None => Native!CopiesOf(s) # {}
  BY DEF Native!CopiesOf
<1>6. ASSUME NEW v \in Transcripts, Native!Continue(s, x, v) PROVE NativeInv'
  <2> DEFINE g == [native[s] EXCEPT ![x] = v]
  <2>1. /\ native' = [native EXCEPT ![s] = g] /\ native[s][x] # None
        /\ ~Native!BeingFilled(s) /\ Native!Touch(s) /\ Native!Turn /\ UNCHANGED <<captured, at>>
    BY <1>6, <1>2 DEF Native!Continue, NativeInv, NativeTypes
  <2>2. g \in [Native!Places -> Data]
    BY <1>2 DEF Data
  <2>3. harness # "codex" => g["named"] = None /\ g["archived"] = None
    BY <1>2, <1>3, <2>1
  <2>4. harness # "claude" /\ links => \A y \in Native!Places : g[y] # Torn
    BY <1>2, <1>4, MachineAssumption
  <2> HIDE DEF g
  <2> QED BY <1>5, <2>1, <2>2, <2>3, <2>4, TouchInv
<1>7. ASSUME NEW y \in Native!Places, Native!Archive(s, x, y) PROVE NativeInv'
  <2> DEFINE g == [native[s] EXCEPT ![x] = None, ![y] = native[s][x]]
  <2>1. /\ native' = [native EXCEPT ![s] = g] /\ native[s][x] # None /\ harness = "codex"
        /\ ~Native!BeingFilled(s) /\ Native!Touch(s) /\ Native!Turn /\ UNCHANGED <<captured, at>>
    BY <1>7, <1>2 DEF Native!Archive, NativeInv, NativeTypes
  <2>2. g \in [Native!Places -> Data]
    BY <1>2 DEF Data
  <2>3. harness # "claude" /\ links => \A z \in Native!Places : g[z] # Torn
    BY <1>2, <1>4, MachineAssumption
  <2> HIDE DEF g
  <2> QED BY <1>5, <2>1, <2>2, <2>3, TouchInv
<1>8. CASE Native!Remove(s, x)
  <2> DEFINE g == [native[s] EXCEPT ![x] = None]
  <2>1. /\ native' = [native EXCEPT ![s] = g] /\ native[s][x] # None
        /\ ~Native!BeingFilled(s) /\ Native!Touch(s) /\ Native!Turn /\ UNCHANGED <<captured, at>>
    BY <1>8, <1>2 DEF Native!Remove, NativeInv, NativeTypes
  <2>2. g \in [Native!Places -> Data]
    BY <1>2 DEF Data
  <2>3. harness # "codex" => g["named"] = None /\ g["archived"] = None
    BY <1>2, <1>3
  <2>4. harness # "claude" /\ links => \A y \in Native!Places : g[y] # Torn
    BY <1>2, <1>4, MachineAssumption
  <2> HIDE DEF g
  <2> QED BY <1>5, <2>1, <2>2, <2>3, <2>4, TouchInv
<1>9. ASSUME NEW c \in Contexts, Native!Capture(c, s, x) PROVE NativeInv'
  BY <1>9, CaptureInv
<1> QED BY <1>1, <1>6, <1>7, <1>8, <1>9

\* Every step of a restore keeps the invariant.
LEMMA RestoreInv ==
  ASSUME NativeInv, NEW p \in Restorers, Native!RestoreStep(p)
  PROVE  NativeInv'
<1>1. ASSUME NEW c \in Contexts, Native!Begin(p, c) PROVE NativeInv'
  BY <1>1, BeginInv
<1>2. ASSUME NEW s \in Sessions,
             \/ Native!Find(p, s) \/ Native!RefuseFile(p, s) \/ Native!AskOpenCode(p, s)
             \/ Native!Link(p, s) \/ Native!Create(p, s) \/ Native!Import(p, s)
      PROVE  NativeInv'
  BY <1>2, FindInv, RefuseFileInv, AskOpenCodeInv, LinkInv, CreateInv, ImportInv
<1>3. ASSUME NEW x \in Native!Places, Native!Compare(p, x) PROVE NativeInv'
  BY <1>3, CompareInv
<1>4. CASE Native!List(p) \/ Native!CheckProject(p) \/ Native!FindArchived(p) \/ Native!Decide(p)
  BY <1>4, ListInv, CheckProjectInv, FindArchivedInv, DecideInv
<1>5. CASE Native!Fill(p) \/ Native!FillFails(p) \/ Native!Report(p)
  BY <1>5, FillInv, FillFailsInv, ReportInv
<1>6. CASE Native!LockTimeout(p) \/ Native!End(p) \/ Native!Stop(p)
  BY <1>6, ExitsInv
<1> QED
  BY <1>1, <1>2, <1>3, <1>4, <1>5, <1>6 DEF Native!RestoreStep

(* Every step of a restore or of the harness keeps the invariant.           *)
LEMMA NativeNext == NativeInv /\ Native!Next => NativeInv'
BY RestoreInv, HarnessInv DEF Native!Next

-----------------------------------------------------------------------------
(* What the invariant gives.                                                *)

\* When all is looked at and written, every captured session is settled.
LEMMA HonestLocally == NativeInv /\ Calm => Native!RestoreHonest
<1> SUFFICES ASSUME NativeInv, Calm, NEW p \in Restorers
             PROVE  /\ at[p] = "refused" => job[p].restored = {}
                    /\ at[p] = "done" =>
                         \A s \in Native!CapturedIn(job[p].ctx) \ job[p].touched :
                           \E x \in Native!Places : native[s][x] = Native!Source(p)[s]
  BY DEF Native!RestoreHonest
<1>1. JobOK(p) /\ SettledOK(p)
  BY AtHand
<1>2. ASSUME at[p] = "done", NEW s \in Native!CapturedIn(job[p].ctx) \ job[p].touched
      PROVE  \E x \in Native!Places : native[s][x] = Native!Source(p)[s]
  <2>1. s \notin job[p].todo /\ s \notin Native!Planned(p)
    BY <1>1, <1>2 DEF JobOK
  <2>2. Settled(p, s)
    BY <1>1, <1>2, <2>1 DEF SettledOK
  <2> QED BY <2>2 DEF Settled
<1> QED BY <1>1, <1>2 DEF JobOK

\* What a step may do to a session at a place.
Keeps(s, x) ==
  \/ native'[s][x] = native[s][x] \/ Native!BeingFilled(s)
  \/ /\ Native!CopiesOf(s) = {} \/ \E p \in Restorers : s \in job[p].touched
     /\ native[s][x] = None
     /\ native'[s][x] = Torn => harness = "claude" \/ ~links

\* A session that is planned, and not there, is nowhere, unless it was touched.
LEMMA WritingKeeps ==
  ASSUME NativeInv, NEW p \in Restorers, NEW r \in Native!Planned(p), NEW v \in Data,
         native[r]["here"] = None, native' = [native EXCEPT ![r]["here"] = v],
         v = Torn => harness = "claude" \/ ~links,
         NEW s \in Sessions, NEW x \in Native!Places
  PROVE  Keeps(s, x)
<1>1. CASE s = r /\ x = "here"
  <2>1. native'[s][x] = v
    BY <1>1 DEF NativeInv, NativeTypes
  <2>2. s \notin job[p].touched => Native!CopiesOf(s) \subseteq {"here"}
    BY <1>1, AtHand DEF PlacesOK
  <2>3. "here" \notin Native!CopiesOf(s)
    BY <1>1 DEF Native!CopiesOf
  <2> QED BY <1>1, <2>1, <2>2, <2>3 DEF Keeps
<1>2. CASE ~(s = r /\ x = "here")
  <2>1. native'[s][x] = native[s][x]
    BY <1>2 DEF NativeInv, NativeTypes
  <2> QED BY <2>1 DEF Keeps
<1> QED BY <1>1, <1>2

\* No step of a restore touches a session that is there.
LEMMA RestoreKeeps ==
  ASSUME NativeInv, Calm, NEW p \in Restorers, Native!RestoreStep(p),
         NEW s \in Sessions, NEW x \in Native!Places
  PROVE  Keeps(s, x)
<1>1. CASE UNCHANGED native
  BY <1>1 DEF Keeps
<1>2. ASSUME NEW r \in Sessions, Native!Link(p, r), native' # native PROVE Keeps(s, x)
  <2>1. /\ r \in Native!Planned(p) /\ links /\ harness \in {"codex", "pi"}
        /\ native[r]["here"] = None /\ native' = [native EXCEPT ![r]["here"] = job[p].plan[r]]
    BY <1>2 DEF Native!Link
  <2>2. job[p].plan[r] \in Data /\ job[p].plan[r] # Torn
    BY <2>1, AtHand DEF Jobs, Whole
  <2> QED BY <2>1, <2>2, WritingKeeps
<1>3. ASSUME NEW r \in Sessions, Native!Create(p, r), native' # native PROVE Keeps(s, x)
  <2>1. /\ r \in Native!Planned(p) /\ (harness = "claude" \/ ~links)
        /\ native[r]["here"] = None /\ native' = [native EXCEPT ![r]["here"] = Torn]
    BY <1>3 DEF Native!Create
  <2> QED BY <2>1, WritingKeeps DEF Data
<1>4. CASE Native!Fill(p) \/ Native!FillFails(p)
  <2>1. /\ at[p] = "fill"
        /\ \/ native' = native \/ \E v : native' = [native EXCEPT ![job[p].session]["here"] = v]
    BY <1>4 DEF Native!Fill, Native!FillFails
  <2>2. CASE s = job[p].session
    BY <2>1, <2>2 DEF Keeps, Native!BeingFilled
  <2>3. CASE s # job[p].session
    <3>1. native'[s][x] = native[s][x]
      BY <2>1, <2>3 DEF NativeInv, NativeTypes
    <3> QED BY <3>1 DEF Keeps
  <2> QED BY <2>2, <2>3
<1>5. ASSUME NEW r \in Sessions, Native!Import(p, r) PROVE Keeps(s, x)
  <2>1. r \in Native!Planned(p) /\ harness = "opencode"
    BY <1>5 DEF Native!Import
  <2>2. Native!CopiesOf(r) = {}
    BY <2>1, AtHand DEF ImportOK, Importing
  <2>3. native' = [native EXCEPT ![r]["here"] = job[p].plan[r]]
    BY <1>5, <2>2 DEF Native!Import
  <2>4. native[r]["here"] = None
    BY <2>2 DEF Native!CopiesOf, Native!Places, Native!Live
  <2>5. job[p].plan[r] \in Data /\ (job[p].plan[r] = Torn => ~links)
    BY <2>1, AtHand DEF Jobs, Whole
  <2> QED BY <2>1, <2>3, <2>4, <2>5, WritingKeeps
<1>6. \/ UNCHANGED native \/ Native!Fill(p) \/ Native!FillFails(p)
      \/ \E r \in Sessions : Native!Link(p, r) \/ Native!Create(p, r) \/ Native!Import(p, r)
  <2>1. (\E c \in Contexts : Native!Begin(p, c)) => UNCHANGED native
    BY DEF Native!Begin
  <2>2. Native!List(p) \/ Native!LockTimeout(p) \/ Native!CheckProject(p) => UNCHANGED native
    BY DEF Native!List, Native!LockTimeout, Native!CheckProject
  <2>3. Native!FindArchived(p) \/ Native!Decide(p) \/ Native!Report(p) => UNCHANGED native
    BY DEF Native!FindArchived, Native!Decide, Native!Report
  <2>4. Native!End(p) \/ Native!Stop(p) => UNCHANGED native
    BY DEF Native!End, Native!Stop
  <2>5. ASSUME NEW r \in Sessions
        PROVE  Native!Find(p, r) \/ Native!RefuseFile(p, r) \/ Native!AskOpenCode(p, r) =>
                 UNCHANGED native
    BY DEF Native!Find, Native!RefuseFile, Native!AskOpenCode
  <2>6. (\E y \in Native!Places : Native!Compare(p, y)) => UNCHANGED native
    BY DEF Native!Compare
  <2> QED
    BY <2>1, <2>2, <2>3, <2>4, <2>5, <2>6 DEF Native!RestoreStep
<1> QED
  BY <1>1, <1>2, <1>3, <1>4, <1>5, <1>6

\* Without a turn of the harness only restores step.
LEMMA NativeKeptStep ==
  ASSUME NativeInv, Calm, Native!Next, turns' = turns
  PROVE  \A s \in Sessions, x \in Native!Places : Keeps(s, x)
<1>1. ~Native!HarnessStep
  <2>1. Native!HarnessStep => Native!Turn
    BY DEF Native!HarnessStep, Native!Continue, Native!Archive, Native!Remove, Native!Capture
  <2>2. ~Native!Turn
    BY DEF Native!Turn, NativeInv, NativeTypes
  <2> QED BY <2>1, <2>2
<1> QED BY <1>1, RestoreKeeps DEF Native!Next

\* The types of the module, which bound the faults as well.
LEMMA NativeTypeLocally == NativeInv /\ faults \in Nat => Native!TypeOK
<1> SUFFICES ASSUME NativeInv, faults \in Nat PROVE Native!TypeOK
  OBVIOUS
<1>1. \A p \in Restorers :
        /\ job[p].ctx \in Contexts \cup {None} /\ job[p].session \in Sessions \cup {None}
        /\ job[p].todo \cup job[p].restored \cup job[p].touched \subseteq Sessions
        /\ job[p].found \subseteq Native!Places /\ job[p].same \in BOOLEAN
        /\ job[p].plan \in [Sessions -> Native!Contents \cup {None}]
  <2>1. Data = Native!Contents \cup {None}
    BY DEF Data, Native!Contents
  <2> TAKE p \in Restorers
  <2>2. job[p] \in Jobs
    BY AtHand
  <2> QED BY <2>1, <2>2 DEF Jobs
<1>2. Data = Native!Contents \cup {None}
  BY DEF Data, Native!Contents
<1> QED
  BY <1>1, <1>2 DEF Native!TypeOK, NativeInv, NativeTypes

-----------------------------------------------------------------------------
(* Proofs about ArtifactStore.                                              *)

\* At the start there is no content, and no publication.
LEMMA ArtifactInit == Artifacts!Init => ArtifactInv
<1> SUFFICES ASSUME Artifacts!Init PROVE ArtifactInv
  OBVIOUS
<1>1. \A f \in Files : items[f] = <<>>
  BY DEF Artifacts!Init
<1>2. \A p \in Publishers : pc[p] = "idle" /\ work[p] = Artifacts!NoWork
  BY DEF Artifacts!Init
<1>3. Artifacts!NoManifest \in Manifests /\ CurrentIsLast(Artifacts!NoManifest)
  BY DEF Artifacts!NoManifest, Manifests, CurrentIsLast
<1>4. [f \in Files |-> <<>>] \in Lists /\ Distinct([f \in Files |-> <<>>])
  BY DEF Lists, Distinct
<1>5. Artifacts!NoWork \in Works
  BY <1>3, <1>4 DEF Artifacts!NoWork, Works
<1>6. /\ Artifacts!NoWork.items = [f \in Files |-> <<>>] /\ Artifacts!NoWork.todo = {}
      /\ Artifacts!NoWork.manifest = Artifacts!NoManifest
      /\ Artifacts!NoWork.file = None /\ Artifacts!NoWork.version = None
  BY DEF Artifacts!NoWork
<1>7. ArtifactTypes
  <2>1. Artifacts!NoRead \in Reads
    BY DEF Artifacts!NoRead, Reads
  <2>2. objects \in Objects /\ items \in Lists /\ spoiled \subseteq FileContents
    BY <1>4 DEF Artifacts!Init, Objects
  <2>3. publications \in Nat /\ reads \in Nat /\ edits \in Nat
    BY MachineAssumption DEF Artifacts!Init
  <2> QED
    BY <1>3, <1>5, <2>1, <2>2, <2>3 DEF ArtifactTypes, Artifacts!Init, PublishSteps
<1>8. Wellformed
  BY <1>2, <1>3, <1>4, <1>6 DEF Wellformed, Artifacts!Init
<1>9. \A p \in Publishers : ~Artifacts!Holding(p)
  BY <1>2 DEF Artifacts!Holding
<1>10. LockOK
  BY <1>9 DEF LockOK
<1>11. RecordedOK
  BY <1>1, MachineAssumption
     DEF RecordedOK, Artifacts!ManifestNamesContent, Artifacts!IndexReadable, Artifacts!Init
<1>12. \A p \in Publishers : WorkOK(p) /\ HolderOK(p)
  BY <1>2, <1>6 DEF WorkOK, HolderOK
<1>13. Artifacts!ObjectsExplained
  BY <1>1 DEF Artifacts!ObjectsExplained, Artifacts!Versions, Artifacts!Init
<1>14. \A q \in Readers : ReadOK(reader[q])
  BY DEF ReadOK, Artifacts!Init, Artifacts!NoRead
<1> QED
  BY <1>7, <1>8, <1>10, <1>11, <1>12, <1>13, <1>14 DEF ArtifactInv

Hold == {"index", "files", "open", "copy", "fill", "record", "unlock"}

\* What a publication has at hand.
LEMMA PublisherFacts ==
  ASSUME ArtifactInv, NEW p \in Publishers
  PROVE  /\ work[p] \in Works /\ WorkOK(p) /\ HolderOK(p) /\ pc[p] \in PublishSteps
         /\ Distinct(work[p].items) /\ CurrentIsLast(work[p].manifest)
         /\ Artifacts!Holding(p) <=> pc[p] \in Hold
         /\ pc[p] \in Hold => lock = "held" /\ \A q \in Publishers : q # p => pc[q] \notin Hold
         /\ pc[p] \in {"files", "open", "copy", "record", "unlock"} => ~torn
BY DEF ArtifactInv, ArtifactTypes, Wellformed, LockOK, Artifacts!Holding, HolderOK, Hold

(* A step of one publication. The content changes under the lock only, the  *)
(* manifest there or where it is created, so that no other is disturbed.    *)
LEMMA PublisherStep ==
  ASSUME ArtifactInv, NEW p \in Publishers, NEW step \in PublishSteps, NEW w \in Works,
         pc' = [pc EXCEPT ![p] = step], work' = [work EXCEPT ![p] = w],
         UNCHANGED <<input, reader, reads, edits>>, publications' \in Nat,
         objects' \in Objects, items' \in Lists, torn' \in BOOLEAN, manifest' \in Manifests,
         lock' \in {"free", "held", "old"}, spoiled \subseteq spoiled', spoiled' \subseteq FileContents,
         Distinct(items)', CurrentIsLast(manifest)', Distinct(w.items), CurrentIsLast(w.manifest),
         manifest.live => manifest'.live,
         pc[p] \in Hold \/ (UNCHANGED <<objects, items, torn>> /\ (manifest.live => UNCHANGED manifest)),
         IF step \in Hold THEN lock' = "held" /\ (pc[p] \in Hold \/ lock # "held")
                          ELSE lock' = lock \/ pc[p] \in Hold,
         WorkOK(p)', HolderOK(p)', RecordedOK', Artifacts!ObjectsExplained'
  PROVE  ArtifactInv'
<1>1. /\ pc'[p] = step /\ work'[p] = w
      /\ \A q \in Publishers : q # p => pc'[q] = pc[q] /\ work'[q] = work[q]
  BY DEF ArtifactInv, ArtifactTypes
<1>2. ArtifactTypes'
  BY DEF ArtifactInv, ArtifactTypes
<1>3. Wellformed'
  <2>1. ASSUME NEW q \in Publishers PROVE Distinct(work[q].items)' /\ CurrentIsLast(work[q].manifest)'
    <3>1. CASE q = p
      BY <1>1, <3>1 DEF Distinct, CurrentIsLast
    <3>2. CASE q # p
      BY <1>1, <3>2, PublisherFacts DEF Distinct, CurrentIsLast
    <3> QED BY <3>1, <3>2
  <2> QED BY <2>1 DEF Wellformed
<1>4. LockOK'
  <2>1. \A q \in Publishers : Artifacts!Holding(q)' <=> pc'[q] \in Hold
    BY DEF Artifacts!Holding, Hold
  <2>2. \A q \in Publishers : q # p /\ pc[q] \in Hold => lock = "held" /\ pc[p] \notin Hold
    BY PublisherFacts
  <2>3. ASSUME NEW q \in Publishers, pc'[q] \in Hold PROVE lock' = "held"
    BY <1>1, <2>2, <2>3
  <2>4. ASSUME NEW q \in Publishers, NEW r \in Publishers, pc'[q] \in Hold, pc'[r] \in Hold
        PROVE  q = r
    BY <1>1, <2>2, <2>4, PublisherFacts
  <2> QED
    BY <2>1, <2>3, <2>4 DEF LockOK
<1>5. ASSUME NEW q \in Publishers, q # p PROVE WorkOK(q)' /\ HolderOK(q)'
  <2>1. WorkOK(q) /\ HolderOK(q) /\ pc'[q] = pc[q] /\ work'[q] = work[q]
    BY <1>1, <1>5, PublisherFacts
  <2>2. WorkOK(q)'
    BY <2>1 DEF WorkOK
  <2>3. CASE pc[q] \notin Hold
    <3>1. pc'[q] \notin {"files", "open", "copy", "fill", "record", "unlock"}
      BY <2>1, <2>3 DEF Hold
    <3> QED BY <2>2, <3>1 DEF HolderOK
  <2>4. CASE pc[q] \in Hold
    <3>1. pc[p] \notin Hold /\ manifest.live
      BY <1>5, <2>1, <2>4, PublisherFacts DEF WorkOK, Hold
    <3>2. UNCHANGED <<objects, items, torn, manifest>>
      BY <3>1
    <3>3. Artifacts!Revision' = Artifacts!Revision
      BY <3>2 DEF Artifacts!Revision, Artifacts!content
    <3>4. Extends(work[q].items, items) => Extends(work[q].items, items)'
      BY <2>1, <3>2 DEF Extends
    <3>5. Present(work[q].items) => Present(work[q].items)'
      BY <2>1, <3>2 DEF Present, Artifacts!Versions
    <3>6. /\ Unlisted(items, work[q].version) => Unlisted(items, work[q].version)'
          /\ Unlisted(work[q].items, work[q].version) => Unlisted(work[q].items, work[q].version)'
      BY <2>1, <3>2 DEF Unlisted, Artifacts!Versions
    <3> QED
      BY <2>1, <2>2, <3>2, <3>3, <3>4, <3>5, <3>6 DEF HolderOK
  <2> QED BY <2>2, <2>3, <2>4
<1>6. \A q \in Readers : ReadOK(reader[q])'
  BY DEF ArtifactInv, ReadOK
<1> QED
  BY <1>2, <1>3, <1>4, <1>5, <1>6 DEF ArtifactInv

\* Where the content stays and p copies nothing, the objects stay explained.
LEMMA StillExplained ==
  ASSUME ArtifactInv, NEW p \in Publishers, pc[p] # "copy",
         \A q \in Publishers : q # p => pc'[q] = pc[q] /\ work'[q] = work[q],
         UNCHANGED <<objects, items, torn>>, spoiled \subseteq spoiled'
  PROVE  Artifacts!ObjectsExplained'
<1>1. Artifacts!ObjectsExplained
  BY DEF ArtifactInv
<1>2. \A f \in Files : \A v \in Artifacts!Versions(items, f)' : objects'[v] # None
  BY <1>1 DEF Artifacts!ObjectsExplained, Artifacts!Versions
<1>3. \A v \in FileContents : objects'[v] \in {None, v} \/ v \in spoiled'
                          \/ \E q \in Publishers : pc'[q] = "copy" /\ work'[q].version = v
  BY <1>1 DEF Artifacts!ObjectsExplained
<1> QED BY <1>2, <1>3 DEF Artifacts!ObjectsExplained

\* While p holds the lock, the manifest may lag behind.
LEMMA RecordedHeld ==
  ASSUME ArtifactInv, NEW p \in Publishers, pc'[p] \in Hold, lock' = "held", faults' = faults,
         (\E f \in Files : items'[f] # <<>>) => manifest'.live,
         torn' => pc'[p] = "fill" \/ faults < MaxFaults
  PROVE  RecordedOK'
<1>1. Artifacts!Holding(p)'
  BY DEF Artifacts!Holding, Hold
<1> QED
  BY <1>1 DEF ArtifactInv, RecordedOK, Artifacts!ManifestNamesContent, Artifacts!IndexReadable

\* A step that leaves content, lock and index alone, and whoever holds the lock there.
LEMMA RecordedSame ==
  ASSUME ArtifactInv, UNCHANGED <<objects, items, torn, lock, faults>>,
         manifest.live => UNCHANGED manifest,
         \A q \in Publishers : pc[q] \in Hold => pc'[q] \in Hold,
         \A q \in Publishers : pc[q] = "fill" => pc'[q] = "fill"
  PROVE  RecordedOK'
<1>1. RecordedOK
  BY DEF ArtifactInv
<1>2. (\E f \in Files : items[f] # <<>>) => UNCHANGED manifest
  BY <1>1 DEF RecordedOK
<1>3. \A q \in Publishers : Artifacts!Holding(q) => Artifacts!Holding(q)'
  BY DEF Artifacts!Holding, Hold
<1>4. Artifacts!Revision' = Artifacts!Revision
  BY DEF Artifacts!Revision, Artifacts!content
<1>5. Artifacts!ManifestNamesContent => Artifacts!ManifestNamesContent'
  BY <1>2, <1>4 DEF Artifacts!ManifestNamesContent
<1>6. Artifacts!IndexReadable => Artifacts!IndexReadable'
  BY DEF Artifacts!IndexReadable
<1> QED
  BY <1>1, <1>2, <1>3, <1>5, <1>6 DEF RecordedOK

\* What a version does to the list it is put on.
LEMMA ListingFacts ==
  ASSUME NEW p \in Publishers, work[p] \in Works, Distinct(work[p].items),
         NEW f \in Files, NEW v \in FileContents, NEW w, w = Artifacts!Listing(p, f, v)
  PROVE  /\ w \in Works /\ w.manifest = work[p].manifest /\ w.todo = work[p].todo \ {f}
         /\ w.file = None /\ w.version = None /\ Distinct(w.items)
         /\ Extends(w.items, work[p].items)
         /\ \A g \in Files : \A u \in Artifacts!Versions(w.items, g) :
              u = v \/ u \in Artifacts!Versions(work[p].items, g)
<1> DEFINE old == work[p].items
           list == [old EXCEPT ![f] = IF v \in Artifacts!Versions(old, f) THEN old[f]
                                      ELSE Append(old[f], v)]
<1>1. old \in Lists /\ \A g \in Files : old[g] \in Seq(FileContents)
  BY DEF Works, Lists
<1>2. list \in Lists
  BY <1>1 DEF Lists
<1>3. \A g \in Files : list[g] = old[g] \/ (g = f /\ v \notin Artifacts!Versions(old, f)
                                            /\ list[g] = Append(old[f], v))
  BY <1>1 DEF Lists
<1>4. w.items = list
  BY <1>1 DEF Artifacts!Listing, Works
<1>5. w \in Works /\ w.manifest = work[p].manifest /\ w.todo = work[p].todo \ {f}
      /\ w.file = None /\ w.version = None
  <2> HIDE DEF list
  <2> QED BY <1>2, <1>4 DEF Artifacts!Listing, Works
<1> HIDE DEF list
<1>6. Distinct(list)
  <2> SUFFICES ASSUME NEW g \in Files, NEW i \in 1..Len(list[g]), NEW k \in 1..Len(list[g]),
                      list[g][i] = list[g][k]
               PROVE  i = k
    BY DEF Distinct
  <2>1. CASE list[g] = old[g]
    BY <2>1 DEF Distinct
  <2>2. CASE g = f /\ v \notin Artifacts!Versions(old, f) /\ list[g] = Append(old[f], v)
    BY <1>1, <2>2 DEF Distinct, Artifacts!Versions
  <2> QED BY <1>3, <2>1, <2>2
<1>7. Extends(list, old)
  <2> SUFFICES ASSUME NEW g \in Files
               PROVE  Len(old[g]) <= Len(list[g]) /\ \A i \in 1..Len(old[g]) : list[g][i] = old[g][i]
    BY DEF Extends
  <2> QED BY <1>1, <1>3
<1>8. ASSUME NEW g \in Files, NEW u \in Artifacts!Versions(list, g)
      PROVE  u = v \/ u \in Artifacts!Versions(old, g)
  <2>1. CASE list[g] = old[g]
    BY <2>1 DEF Artifacts!Versions
  <2>2. CASE list[g] = Append(old[g], v)
    <3>1. PICK i \in 1..Len(list[g]) : u = list[g][i]
      BY DEF Artifacts!Versions
    <3>2. CASE i \in 1..Len(old[g])
      BY <1>1, <2>2, <3>1, <3>2 DEF Artifacts!Versions
    <3>3. CASE i \notin 1..Len(old[g])
      BY <1>1, <2>2, <3>1, <3>3
    <3> QED BY <3>2, <3>3
  <2> QED BY <1>3, <2>1, <2>2
<1> QED BY <1>4, <1>5, <1>6, <1>7, <1>8

\* What is as it was.
LEMMA StillTyped ==
  ArtifactInv =>
    /\ objects \in Objects /\ items \in Lists /\ torn \in BOOLEAN /\ manifest \in Manifests
    /\ lock \in {"free", "held", "old"} /\ spoiled \subseteq FileContents
    /\ Distinct(items) /\ CurrentIsLast(manifest) /\ publications \in Nat
BY DEF ArtifactInv, ArtifactTypes, Wellformed

\* What a publication knows that has not begun.
LEMMA NoWorkFacts ==
  /\ Artifacts!NoWork \in Works /\ Distinct(Artifacts!NoWork.items)
  /\ CurrentIsLast(Artifacts!NoWork.manifest) /\ Artifacts!NoWork.todo = {}
  /\ Artifacts!NoWork.file = None /\ Artifacts!NoWork.version = None
  /\ Artifacts!NoWork.items = [f \in Files |-> <<>>]
  /\ Artifacts!NoManifest \in Manifests /\ Artifacts!NoManifest.current = None
  /\ Artifacts!NoManifest.history = <<>>
<1>1. /\ Artifacts!NoManifest \in Manifests /\ CurrentIsLast(Artifacts!NoManifest)
      /\ Artifacts!NoManifest.current = None /\ Artifacts!NoManifest.history = <<>>
  BY DEF Artifacts!NoManifest, Manifests, CurrentIsLast
<1>2. [f \in Files |-> <<>>] \in Lists /\ Distinct([f \in Files |-> <<>>])
  BY DEF Lists, Distinct
<1> QED
  BY <1>1, <1>2 DEF Artifacts!NoWork, Works

\* A publication begins with what the agent has put there.
LEMMA StartInv ==
  ASSUME ArtifactInv, NEW p \in Publishers, NEW files \in SUBSET Files, Artifacts!Start(p, files)
  PROVE  ArtifactInv'
<1> DEFINE w == [Artifacts!NoWork EXCEPT !.manifest = manifest, !.todo = files]
           step == IF manifest.live THEN "lock" ELSE "create"
<1>1. /\ pc' = [pc EXCEPT ![p] = step] /\ work' = [work EXCEPT ![p] = w] /\ pc[p] = "idle"
      /\ \A f \in files : input[f] # None
      /\ UNCHANGED <<input, objects, items, torn, manifest, lock, spoiled, reader, reads, edits, faults>>
      /\ publications' \in Nat
  BY DEF Artifacts!Start, Artifacts!Goto, Artifacts!Know, Artifacts!content, ArtifactInv, ArtifactTypes
<1>2. /\ w \in Works /\ w.manifest = manifest /\ w.items = [f \in Files |-> <<>>]
      /\ w.todo = files /\ w.file = None /\ w.version = None
  BY NoWorkFacts, StillTyped DEF Works
<1>3. step \in {"lock", "create"} /\ (step = "lock" => manifest.live)
  OBVIOUS
<1> HIDE DEF w, step
<1>4. pc'[p] = step /\ work'[p] = w /\ \A q \in Publishers : q # p => pc'[q] = pc[q] /\ work'[q] = work[q]
  BY <1>1 DEF ArtifactInv, ArtifactTypes
<1>5. WorkOK(p)' /\ HolderOK(p)'
  BY <1>1, <1>2, <1>3, <1>4 DEF WorkOK, HolderOK
<1>6. Distinct(w.items) /\ CurrentIsLast(w.manifest) /\ CurrentIsLast(manifest)' /\ Distinct(items)'
  BY <1>1, <1>2 DEF Distinct, CurrentIsLast, ArtifactInv, Wellformed
<1>7. RecordedOK'
  BY <1>1, <1>4, RecordedSame DEF Hold
<1>8. Artifacts!ObjectsExplained'
  BY <1>1, <1>4, StillExplained
<1>9. /\ objects \in Objects /\ items \in Lists /\ torn \in BOOLEAN /\ manifest \in Manifests
      /\ lock \in {"free", "held", "old"} /\ spoiled \subseteq FileContents
  BY DEF ArtifactInv, ArtifactTypes
<1>10. step \in PublishSteps /\ step \notin Hold
  BY <1>3 DEF PublishSteps, Hold
<1> QED
  BY <1>1, <1>2, <1>5, <1>6, <1>7, <1>8, <1>9, <1>10, PublisherStep

\* A publication that ends knows nothing.
LEMMA ExitArtifact ==
  ASSUME ArtifactInv, NEW p \in Publishers, Artifacts!Exit(p)
  PROVE  /\ pc' = [pc EXCEPT ![p] = "idle"] /\ work' = [work EXCEPT ![p] = Artifacts!NoWork]
         /\ pc'[p] = "idle" /\ work'[p] = Artifacts!NoWork
         /\ \A q \in Publishers : q # p => pc'[q] = pc[q] /\ work'[q] = work[q]
         /\ WorkOK(p)' /\ HolderOK(p)'
<1>1. pc' = [pc EXCEPT ![p] = "idle"] /\ work' = [work EXCEPT ![p] = Artifacts!NoWork]
  BY DEF Artifacts!Exit, Artifacts!Goto, Artifacts!Know
<1>2. pc'[p] = "idle" /\ work'[p] = Artifacts!NoWork
      /\ \A q \in Publishers : q # p => pc'[q] = pc[q] /\ work'[q] = work[q]
  BY <1>1 DEF ArtifactInv, ArtifactTypes
<1> QED BY <1>1, <1>2, NoWorkFacts DEF WorkOK, HolderOK

\* Whoever does not get the lock has written nothing.
LEMMA TimeOutInv ==
  ASSUME ArtifactInv, NEW p \in Publishers, Artifacts!TimeOut(p)
  PROVE  ArtifactInv'
<1>1. /\ pc[p] = "lock" /\ Artifacts!Exit(p)
      /\ UNCHANGED <<input, objects, items, torn, manifest, lock, spoiled, reader, publications, reads,
                     edits, faults>>
  BY DEF Artifacts!TimeOut, Artifacts!content, Artifacts!bounds
<1>2. RecordedOK'
  BY <1>1, RecordedSame, ExitArtifact DEF Hold
<1>3. Artifacts!ObjectsExplained'
  BY <1>1, ExitArtifact, StillExplained
<1>4. Distinct(items)' /\ CurrentIsLast(manifest)'
  BY <1>1, StillTyped DEF Distinct, CurrentIsLast
<1>5. "idle" \in PublishSteps /\ "idle" \notin Hold
  BY DEF PublishSteps, Hold
<1> QED
  BY <1>1, <1>2, <1>3, <1>4, <1>5, NoWorkFacts, ExitArtifact, StillTyped, PublisherStep

\* The first publication makes the context; later ones find it.
LEMMA CreateContextInv ==
  ASSUME ArtifactInv, NEW p \in Publishers, Artifacts!Create(p)
  PROVE  ArtifactInv'
<1>1. /\ pc[p] = "create"
      /\ UNCHANGED <<input, objects, items, torn, lock, spoiled, reader, publications, reads, edits, faults>>
  BY DEF Artifacts!Create, Artifacts!content, Artifacts!bounds
<1>2. CASE manifest.live
  <2>1. Artifacts!Exit(p) /\ UNCHANGED manifest
    BY <1>2 DEF Artifacts!Create
  <2>2. RecordedOK'
    BY <1>1, <2>1, RecordedSame, ExitArtifact DEF Hold
  <2>3. Artifacts!ObjectsExplained'
    BY <1>1, <2>1, ExitArtifact, StillExplained
  <2>4. Distinct(items)' /\ CurrentIsLast(manifest)'
    BY <1>1, <2>1, StillTyped DEF Distinct, CurrentIsLast
  <2>5. "idle" \in PublishSteps /\ "idle" \notin Hold
    BY DEF PublishSteps, Hold
  <2> QED
    BY <1>1, <2>1, <2>2, <2>3, <2>4, <2>5, NoWorkFacts, ExitArtifact, StillTyped, PublisherStep
<1>3. CASE ~manifest.live
  <2> DEFINE new == [Artifacts!NoManifest EXCEPT !.live = TRUE]
             w == [work[p] EXCEPT !.manifest = new]
  <2>1. /\ manifest' = new /\ pc' = [pc EXCEPT ![p] = "lock"] /\ work' = [work EXCEPT ![p] = w]
    BY <1>3 DEF Artifacts!Create, Artifacts!Goto, Artifacts!Know
  <2>2. new \in Manifests /\ new.live /\ CurrentIsLast(new)
    BY NoWorkFacts DEF Manifests, CurrentIsLast
  <2> HIDE DEF new
  <2>3. /\ w \in Works /\ w.manifest = new /\ w.items = work[p].items /\ w.todo = work[p].todo
        /\ w.file = work[p].file /\ w.version = work[p].version
    BY <2>2, PublisherFacts DEF Works
  <2> HIDE DEF w
  <2>4. pc'[p] = "lock" /\ work'[p] = w /\ \A q \in Publishers : q # p => pc'[q] = pc[q] /\ work'[q] = work[q]
    BY <2>1 DEF ArtifactInv, ArtifactTypes
  <2>5. WorkOK(p)' /\ HolderOK(p)'
    BY <1>1, <2>1, <2>2, <2>3, <2>4, PublisherFacts DEF WorkOK, HolderOK
  <2>6. Distinct(w.items) /\ CurrentIsLast(w.manifest) /\ CurrentIsLast(manifest)' /\ Distinct(items)'
    <3>1. Distinct(w.items)
      BY <2>3, PublisherFacts
    <3>2. CurrentIsLast(w.manifest) /\ CurrentIsLast(manifest)'
      BY <2>1, <2>2, <2>3 DEF CurrentIsLast
    <3>3. Distinct(items)'
      BY <1>1, StillTyped DEF Distinct
    <3> QED BY <3>1, <3>2, <3>3
  <2>7. RecordedOK'
    BY <1>1, <1>3, <2>4, RecordedSame DEF Hold
  <2>8. Artifacts!ObjectsExplained'
    BY <1>1, <2>4, StillExplained
  <2>9. "lock" \in PublishSteps /\ "lock" \notin Hold
    BY DEF PublishSteps, Hold
  <2> QED
    BY <1>1, <1>3, <2>1, <2>2, <2>3, <2>5, <2>6, <2>7, <2>8, <2>9, StillTyped, PublisherStep
<1> QED BY <1>2, <1>3

\* The lock is free, or old and its holder gone: there is one holder again.
LEMMA AcquireInv ==
  ASSUME ArtifactInv, NEW p \in Publishers, Artifacts!Acquire(p)
  PROVE  ArtifactInv'
<1>1. /\ pc[p] = "lock" /\ lock # "held" /\ lock' = "held"
      /\ pc' = [pc EXCEPT ![p] = "index"] /\ work' = work
      /\ UNCHANGED <<input, objects, items, torn, manifest, spoiled, reader, publications, reads,
                     edits, faults>>
  BY DEF Artifacts!Acquire, Artifacts!Goto, Artifacts!content, Artifacts!bounds
<1>2. work' = [work EXCEPT ![p] = work[p]] /\ work'[p] = work[p] /\ pc'[p] = "index"
      /\ \A q \in Publishers : q # p => pc'[q] = pc[q]
  BY <1>1 DEF ArtifactInv, ArtifactTypes
<1>3. WorkOK(p)' /\ HolderOK(p)'
  BY <1>1, <1>2, PublisherFacts DEF WorkOK, HolderOK
<1>4. Distinct(items)' /\ CurrentIsLast(manifest)'
  BY <1>1, StillTyped DEF Distinct, CurrentIsLast
<1>5. RecordedOK'
  <2>1. RecordedOK
    BY DEF ArtifactInv
  <2>2. torn' => faults < MaxFaults
    <3>1. ASSUME torn, faults = MaxFaults PROVE FALSE
      <4>1. PICK q \in Publishers : pc[q] = "fill"
        BY <2>1, <3>1, MachineAssumption DEF RecordedOK, Artifacts!IndexReadable
      <4> QED BY <1>1, <4>1, PublisherFacts DEF Hold
    <3>2. faults \in 0..MaxFaults /\ MaxFaults \in Nat
      BY <2>1, MachineAssumption DEF RecordedOK
    <3> QED BY <1>1, <3>1, <3>2
  <2> QED BY <1>1, <1>2, <2>1, <2>2, RecordedHeld DEF Hold, RecordedOK
<1>6. Artifacts!ObjectsExplained'
  BY <1>1, <1>2, StillExplained
<1>7. "index" \in PublishSteps /\ "index" \in Hold
  BY DEF PublishSteps, Hold
<1> QED
  BY <1>1, <1>2, <1>3, <1>4, <1>5, <1>6, <1>7, StillTyped, PublisherFacts, PublisherStep

\* The holder reads what is listed.
LEMMA ReadIndexInv ==
  ASSUME ArtifactInv, NEW p \in Publishers, Artifacts!ReadIndex(p)
  PROVE  ArtifactInv'
<1> DEFINE w == [work[p] EXCEPT !.items = items]
<1>1. /\ pc[p] = "index" /\ ~torn
      /\ pc' = [pc EXCEPT ![p] = "files"] /\ work' = [work EXCEPT ![p] = w]
      /\ UNCHANGED <<input, objects, items, torn, manifest, lock, spoiled, reader, publications,
                     reads, edits, faults>>
  BY DEF Artifacts!ReadIndex, Artifacts!Goto, Artifacts!Know, Artifacts!content, Artifacts!bounds
<1>2. /\ w \in Works /\ w.manifest = work[p].manifest /\ w.items = items /\ w.todo = work[p].todo
      /\ w.file = work[p].file /\ w.version = work[p].version
  BY PublisherFacts, StillTyped DEF Works
<1> HIDE DEF w
<1>3. pc'[p] = "files" /\ work'[p] = w /\ \A q \in Publishers : q # p => pc'[q] = pc[q] /\ work'[q] = work[q]
  BY <1>1 DEF ArtifactInv, ArtifactTypes
<1>4. WorkOK(p)' /\ pc[p] \in Hold /\ lock = "held"
  BY <1>1, <1>2, <1>3, PublisherFacts DEF WorkOK, Hold
<1>5. HolderOK(p)'
  <2>1. Extends(w.items, items)
    BY <1>2, StillTyped DEF Extends, Lists
  <2>2. Present(w.items)
    BY <1>2 DEF Present, ArtifactInv, Artifacts!ObjectsExplained
  <2>3. Extends(work[p].items, items)' /\ Present(work[p].items)'
    BY <1>1, <1>3, <2>1, <2>2 DEF Extends, Present, Artifacts!Versions
  <2> QED BY <1>1, <1>3, <2>3 DEF HolderOK
<1>6. Distinct(w.items) /\ CurrentIsLast(w.manifest) /\ CurrentIsLast(manifest)' /\ Distinct(items)'
  BY <1>1, <1>2, StillTyped, PublisherFacts DEF Distinct, CurrentIsLast
<1>7. RecordedOK'
  BY <1>1, <1>3, RecordedSame DEF Hold
<1>8. Artifacts!ObjectsExplained'
  BY <1>1, <1>3, StillExplained
<1>9. "files" \in PublishSteps /\ "files" \in Hold
  BY DEF PublishSteps, Hold
<1> QED
  BY <1>1, <1>2, <1>4, <1>5, <1>6, <1>7, <1>8, <1>9, StillTyped, PublisherStep

\* A publication that finds the index cut off ends, and was not the one to cut it.
LEMMA RefuseIndexInv ==
  ASSUME ArtifactInv, NEW p \in Publishers, Artifacts!RefuseIndex(p)
  PROVE  ArtifactInv'
<1>1. /\ pc[p] = "index" /\ torn /\ lock' = "free" /\ Artifacts!Exit(p)
      /\ UNCHANGED <<input, objects, items, torn, manifest, spoiled, reader, publications, reads,
                     edits, faults>>
  BY DEF Artifacts!RefuseIndex, Artifacts!content, Artifacts!bounds
<1>2. pc[p] \in Hold
  BY <1>1 DEF Hold
<1>3. RecordedOK'
  <2>1. RecordedOK /\ MaxFaults \in Nat
    BY MachineAssumption DEF ArtifactInv
  <2>2. \A q \in Publishers : pc[q] # "fill"
    BY <1>1, <1>2, PublisherFacts DEF Hold
  <2>3. faults < MaxFaults
    BY <1>1, <2>1, <2>2 DEF RecordedOK, Artifacts!IndexReadable
  <2>4. faults \in Nat
    BY <2>1 DEF RecordedOK
  <2>5. Artifacts!IndexReadable' /\ faults' # MaxFaults
    BY <1>1, <2>1, <2>3, <2>4 DEF Artifacts!IndexReadable
  <2> QED BY <1>1, <2>1, <2>5 DEF RecordedOK
<1>4. Artifacts!ObjectsExplained'
  BY <1>1, ExitArtifact, StillExplained
<1>5. Distinct(items)' /\ CurrentIsLast(manifest)'
  BY <1>1, StillTyped DEF Distinct, CurrentIsLast
<1>6. "idle" \in PublishSteps /\ "idle" \notin Hold
  BY DEF PublishSteps, Hold
<1> QED
  BY <1>1, <1>2, <1>3, <1>4, <1>5, <1>6, NoWorkFacts, ExitArtifact, StillTyped, PublisherStep

\* The holder puts a version that has an object on its list.
LEMMA ListingHolds ==
  ASSUME ArtifactInv, NEW p \in Publishers, NEW f \in Files, NEW v \in FileContents,
         pc[p] \in {"files", "copy"}, pc'[p] = "files", work'[p] = Artifacts!Listing(p, f, v),
         UNCHANGED <<input, items, torn, manifest>>, spoiled \subseteq spoiled',
         objects'[v] # None, \A u \in FileContents : u # v => objects'[u] = objects[u]
  PROVE  WorkOK(p)' /\ HolderOK(p)'
<1> DEFINE w == Artifacts!Listing(p, f, v)
<1>1. /\ w.manifest = work[p].manifest /\ w.todo = work[p].todo \ {f} /\ w \in Works
      /\ w.file = None /\ w.version = None /\ Extends(w.items, work[p].items)
      /\ \A g \in Files : \A u \in Artifacts!Versions(w.items, g) :
           u = v \/ u \in Artifacts!Versions(work[p].items, g)
  BY PublisherFacts, ListingFacts
<1>2. work'[p] = w
  OBVIOUS
<1> HIDE DEF w
<1>3. WorkOK(p)'
  BY <1>1, <1>2, PublisherFacts DEF WorkOK
<1>4. Extends(work[p].items, items) /\ Present(work[p].items)
  BY PublisherFacts DEF HolderOK
<1>5. Extends(w.items, items)
  <2> SUFFICES ASSUME NEW g \in Files
               PROVE  Len(items[g]) <= Len(w.items[g])
                      /\ \A i \in 1..Len(items[g]) : w.items[g][i] = items[g][i]
    BY DEF Extends
  <2>1. /\ Len(items[g]) <= Len(work[p].items[g]) /\ Len(work[p].items[g]) <= Len(w.items[g])
        /\ \A i \in 1..Len(items[g]) : work[p].items[g][i] = items[g][i]
        /\ \A i \in 1..Len(work[p].items[g]) : w.items[g][i] = work[p].items[g][i]
    BY <1>1, <1>4 DEF Extends
  <2>2. Len(items[g]) \in Nat /\ Len(work[p].items[g]) \in Nat /\ Len(w.items[g]) \in Nat
    <3>1. items \in Lists /\ work[p].items \in Lists /\ w.items \in Lists
      BY <1>1, PublisherFacts, StillTyped DEF Works
    <3>2. items[g] \in Seq(FileContents) /\ work[p].items[g] \in Seq(FileContents) /\ w.items[g] \in Seq(FileContents)
      BY <3>1 DEF Lists
    <3> QED BY <3>2, LenProperties
  <2>3. Len(items[g]) <= Len(w.items[g])
    BY <2>1, <2>2
  <2>4. ASSUME NEW i \in 1..Len(items[g]) PROVE w.items[g][i] = items[g][i]
    <3>1. i \in 1..Len(work[p].items[g])
      BY <2>1, <2>2
    <3> QED BY <2>1, <3>1
  <2> QED BY <2>3, <2>4
<1>6. \A g \in Files : \A u \in Artifacts!Versions(w.items, g) : u \in FileContents
  BY <1>1 DEF Works, Lists, Artifacts!Versions
<1>7. \A g \in Files : \A u \in Artifacts!Versions(w.items, g) : objects'[u] # None
  BY <1>1, <1>4, <1>6 DEF Present
<1>8. Extends(work[p].items, items)'
  BY <1>2, <1>5 DEF Extends
<1>9. Present(work[p].items)'
  BY <1>2, <1>7 DEF Present, Artifacts!Versions
<1> QED
  BY <1>3, <1>8, <1>9, PublisherFacts DEF HolderOK

\* A version that is listed, or has an object, needs no copy.
LEMMA ChecksumInv ==
  ASSUME ArtifactInv, NEW p \in Publishers, NEW f \in Files, Artifacts!Checksum(p, f)
  PROVE  ArtifactInv'
<1> DEFINE v == input[f]
<1>1. /\ pc[p] = "files" /\ f \in work[p].todo
      /\ UNCHANGED <<input, objects, items, torn, manifest, lock, spoiled, reader, publications, reads,
                     edits, faults>>
  BY DEF Artifacts!Checksum, Artifacts!content, Artifacts!bounds
<1>2. v \in FileContents /\ pc[p] \in Hold /\ lock = "held"
  <2>1. v # None /\ pc[p] \in Hold /\ lock = "held"
    BY <1>1, PublisherFacts DEF WorkOK, Hold
  <2> QED BY <2>1 DEF ArtifactInv, ArtifactTypes
<1>3. Distinct(items)' /\ CurrentIsLast(manifest)'
  BY <1>1, StillTyped DEF Distinct, CurrentIsLast
<1>4. CASE v \in Artifacts!Versions(work[p].items, f) \/ objects[v] # None
  <2> DEFINE w == Artifacts!Listing(p, f, v)
  <2>1. work' = [work EXCEPT ![p] = w] /\ pc' = pc
    BY <1>4 DEF Artifacts!Checksum, Artifacts!Know
  <2>2. /\ w \in Works /\ w.manifest = work[p].manifest /\ Distinct(w.items)
    BY <1>2, PublisherFacts, ListingFacts
  <2> HIDE DEF w
  <2>3. pc'[p] = "files" /\ work'[p] = w /\ pc' = [pc EXCEPT ![p] = "files"]
        /\ \A q \in Publishers : q # p => pc'[q] = pc[q] /\ work'[q] = work[q]
    BY <1>1, <2>1 DEF ArtifactInv, ArtifactTypes
  <2>4. objects[v] # None
    BY <1>1, <1>4, PublisherFacts DEF HolderOK, Present
  <2>5. WorkOK(p)' /\ HolderOK(p)'
    BY <1>1, <1>2, <2>3, <2>4, ListingHolds DEF w
  <2>6. CurrentIsLast(w.manifest)
    BY <2>2, PublisherFacts DEF CurrentIsLast
  <2>7. RecordedOK'
    BY <1>1, <2>1, RecordedSame
  <2>8. Artifacts!ObjectsExplained'
    BY <1>1, <2>3, StillExplained
  <2>9. "files" \in PublishSteps /\ "files" \in Hold
    BY DEF PublishSteps, Hold
  <2> QED
    BY <1>1, <1>2, <1>3, <2>1, <2>2, <2>3, <2>5, <2>6, <2>7, <2>8, <2>9, StillTyped, PublisherStep
<1>5. CASE ~(v \in Artifacts!Versions(work[p].items, f) \/ objects[v] # None)
  <2> DEFINE w == [work[p] EXCEPT !.file = f, !.version = v]
  <2>1. work' = [work EXCEPT ![p] = w] /\ pc' = [pc EXCEPT ![p] = "open"]
    BY <1>5 DEF Artifacts!Checksum, Artifacts!Know, Artifacts!Goto
  <2>2. /\ w \in Works /\ w.manifest = work[p].manifest /\ w.items = work[p].items
        /\ w.todo = work[p].todo /\ w.file = f /\ w.version = v
    BY <1>2, PublisherFacts DEF Works
  <2>3. Distinct(w.items) /\ CurrentIsLast(w.manifest)
    BY <2>2, PublisherFacts
  <2> HIDE DEF w
  <2>4. pc'[p] = "open" /\ work'[p] = w
        /\ \A q \in Publishers : q # p => pc'[q] = pc[q] /\ work'[q] = work[q]
    BY <2>1 DEF ArtifactInv, ArtifactTypes
  <2>5. WorkOK(p)'
    BY <1>1, <1>2, <2>2, <2>4, MachineAssumption, PublisherFacts DEF WorkOK
  <2>6. HolderOK(p)'
    <3>1. Extends(work[p].items, items) /\ Present(work[p].items)
      BY <1>1, PublisherFacts DEF HolderOK
    <3>2. Extends(work[p].items, items)' /\ Present(work[p].items)'
      BY <1>1, <2>2, <2>4, <3>1 DEF Extends, Present, Artifacts!Versions
    <3> QED BY <1>1, <1>5, <2>2, <2>4, <3>2, PublisherFacts DEF HolderOK
  <2>7. RecordedOK'
    BY <1>1, <2>4, RecordedSame DEF Hold
  <2>8. Artifacts!ObjectsExplained'
    BY <1>1, <2>4, StillExplained
  <2>9. "open" \in PublishSteps /\ "open" \in Hold
    BY DEF PublishSteps, Hold
  <2> QED
    BY <1>1, <1>2, <1>3, <2>1, <2>2, <2>3, <2>5, <2>6, <2>7, <2>8, <2>9, StillTyped, PublisherStep
<1> QED BY <1>4, <1>5

\* The object appears, half written, of a version nobody lists.
LEMMA OpenInv ==
  ASSUME ArtifactInv, NEW p \in Publishers, Artifacts!Open(p)
  PROVE  ArtifactInv'
<1> DEFINE v == work[p].version
<1>1. /\ pc[p] = "open" /\ objects' = [objects EXCEPT ![v] = Torn]
      /\ pc' = [pc EXCEPT ![p] = "copy"] /\ work' = work
      /\ UNCHANGED <<input, items, torn, manifest, lock, spoiled, reader, publications, reads, edits, faults>>
  BY DEF Artifacts!Open, Artifacts!Goto, Artifacts!bounds
<1>2. v \in FileContents /\ objects[v] = None /\ pc[p] \in Hold /\ lock = "held"
  <2>1. v # None /\ v \in FileContents \cup {None} /\ objects[v] = None /\ pc[p] \in Hold /\ lock = "held"
    BY <1>1, PublisherFacts DEF WorkOK, HolderOK, Hold, Works
  <2> QED BY <2>1
<1>3. work' = [work EXCEPT ![p] = work[p]] /\ work'[p] = work[p] /\ pc'[p] = "copy"
      /\ \A q \in Publishers : q # p => pc'[q] = pc[q]
  BY <1>1 DEF ArtifactInv, ArtifactTypes
<1>4. objects' \in Objects /\ objects'[v] = Torn /\ \A u \in FileContents : u # v => objects'[u] = objects[u]
  BY <1>1, <1>2, StillTyped DEF Objects
<1>5. /\ Artifacts!ObjectsExplained /\ Extends(work[p].items, items) /\ Present(work[p].items)
  BY <1>1, PublisherFacts DEF HolderOK, ArtifactInv
<1>6. Unlisted(items, v) /\ Unlisted(work[p].items, v)
  BY <1>2, <1>5 DEF Unlisted, Present, Artifacts!ObjectsExplained
<1> HIDE DEF v
<1>7. \A g \in Files : Artifacts!Versions(items, g) \subseteq FileContents
                       /\ Artifacts!Versions(work[p].items, g) \subseteq FileContents
  BY StillTyped, PublisherFacts DEF Artifacts!Versions, Lists, Works
<1>8. WorkOK(p)'
  BY <1>1, <1>3, PublisherFacts DEF WorkOK
<1>9. HolderOK(p)'
  <2>1. Extends(work[p].items, items)'
    BY <1>1, <1>5 DEF Extends
  <2>2. Present(work[p].items)'
    BY <1>1, <1>4, <1>5, <1>6, <1>7 DEF Present, Unlisted, Artifacts!Versions
  <2>3. Unlisted(items, work[p].version)' /\ Unlisted(work[p].items, work[p].version)'
    BY <1>1, <1>6 DEF v, Unlisted, Artifacts!Versions
  <2> QED BY <1>1, <1>3, <2>1, <2>2, <2>3, PublisherFacts DEF HolderOK
<1>10. RecordedOK'
  BY <1>1, <1>2, <1>3, RecordedHeld, PublisherFacts DEF Hold, ArtifactInv, RecordedOK
<1>11. Artifacts!ObjectsExplained'
  <2>1. \A g \in Files : \A u \in Artifacts!Versions(items, g)' : objects'[u] # None
    BY <1>1, <1>4, <1>5, <1>7, MachineAssumption DEF Artifacts!ObjectsExplained, Artifacts!Versions
  <2>2. ASSUME NEW u \in FileContents
        PROVE  objects'[u] \in {None, u} \/ u \in spoiled'
               \/ \E q \in Publishers : pc'[q] = "copy" /\ work'[q].version = u
    <3>1. CASE u = v
      BY <1>3, <3>1 DEF v
    <3>2. CASE u # v
      BY <1>1, <1>3, <1>4, <1>5, <3>2 DEF Artifacts!ObjectsExplained
    <3> QED BY <3>1, <3>2
  <2> QED BY <2>1, <2>2 DEF Artifacts!ObjectsExplained
<1>12. Distinct(items)' /\ CurrentIsLast(manifest)'
  BY <1>1, StillTyped DEF Distinct, CurrentIsLast
<1>13. "copy" \in PublishSteps /\ "copy" \in Hold
  BY DEF PublishSteps, Hold
<1> QED
  BY <1>1, <1>2, <1>3, <1>4, <1>8, <1>9, <1>10, <1>11, <1>12, <1>13, StillTyped, PublisherFacts,
     PublisherStep

\* The object holds its version, or the file changed meanwhile.
LEMMA CopyInv ==
  ASSUME ArtifactInv, NEW p \in Publishers, Artifacts!Copy(p)
  PROVE  ArtifactInv'
<1> DEFINE v == work[p].version
           f == work[p].file
           w == Artifacts!Listing(p, f, v)
           now == input[f]
<1>1. /\ pc[p] = "copy" /\ pc' = [pc EXCEPT ![p] = "files"] /\ work' = [work EXCEPT ![p] = w]
      /\ UNCHANGED <<input, items, torn, manifest, lock, spoiled, reader, publications, reads, edits, faults>>
  BY DEF Artifacts!Copy, Artifacts!Goto, Artifacts!Know, Artifacts!bounds
<1>2. PICK c \in {now} \cup (IF now = v THEN {} ELSE {Torn}) : objects' = [objects EXCEPT ![v] = c]
  BY DEF Artifacts!Copy
<1>3. /\ v \in FileContents /\ f \in Files /\ now \in FileContents /\ pc[p] \in Hold /\ lock = "held"
      /\ now = v \/ v \in spoiled
  <2>1. /\ v # None /\ f # None /\ now # None /\ work[p] \in Works /\ pc[p] \in Hold /\ lock = "held"
        /\ now = v \/ v \in spoiled
    BY <1>1, PublisherFacts DEF WorkOK, Hold
  <2>2. v \in FileContents /\ f \in Files
    BY <2>1 DEF Works
  <2> QED BY <2>1, <2>2 DEF ArtifactInv, ArtifactTypes
<1>4. c \in FileContents \cup {Torn} /\ c # None /\ (c = v \/ v \in spoiled)
  BY <1>2, <1>3, MachineAssumption
<1>5. objects' \in Objects /\ objects'[v] = c /\ \A u \in FileContents : u # v => objects'[u] = objects[u]
  BY <1>2, <1>3, <1>4, StillTyped DEF Objects
<1>6. w \in Works /\ w.manifest = work[p].manifest /\ Distinct(w.items)
  BY <1>3, PublisherFacts, ListingFacts
<1> HIDE DEF w
<1>7. /\ pc'[p] = "files" /\ work'[p] = w
      /\ \A q \in Publishers : q # p => pc'[q] = pc[q] /\ work'[q] = work[q]
  BY <1>1 DEF ArtifactInv, ArtifactTypes
<1>8. WorkOK(p)' /\ HolderOK(p)'
  BY <1>1, <1>3, <1>4, <1>5, <1>7, ListingHolds DEF w
<1>9. RecordedOK'
  BY <1>1, <1>3, <1>7, RecordedHeld, PublisherFacts DEF Hold, ArtifactInv, RecordedOK
<1>10. Artifacts!ObjectsExplained'
  <2>1. Artifacts!ObjectsExplained
    BY DEF ArtifactInv
  <2>2. \A g \in Files : \A u \in Artifacts!Versions(items, g) : u \in FileContents /\ objects'[u] # None
    <3>1. \A g \in Files : Artifacts!Versions(items, g) \subseteq FileContents
      BY StillTyped DEF Artifacts!Versions, Lists
    <3> QED BY <1>4, <1>5, <2>1, <3>1 DEF Artifacts!ObjectsExplained
  <2>3. \A g \in Files : \A u \in Artifacts!Versions(items, g)' : objects'[u] # None
    BY <1>1, <2>2 DEF Artifacts!Versions
  <2>4. ASSUME NEW u \in FileContents
        PROVE  objects'[u] \in {None, u} \/ u \in spoiled'
               \/ \E q \in Publishers : pc'[q] = "copy" /\ work'[q].version = u
    <3>1. CASE u = v
      BY <1>1, <1>4, <1>5, <3>1
    <3>2. CASE u # v
      <4>1. objects[u] \in {None, u} \/ u \in spoiled
            \/ \E q \in Publishers : pc[q] = "copy" /\ work[q].version = u
        BY <2>1 DEF Artifacts!ObjectsExplained
      <4>2. \A q \in Publishers : pc[q] = "copy" /\ work[q].version = u => q # p
        BY <3>2
      <4> QED BY <1>1, <1>5, <1>7, <3>2, <4>1, <4>2
    <3> QED BY <3>1, <3>2
  <2> QED BY <2>3, <2>4 DEF Artifacts!ObjectsExplained
<1>11. Distinct(items)' /\ CurrentIsLast(manifest)' /\ CurrentIsLast(w.manifest)
  BY <1>1, <1>6, StillTyped, PublisherFacts DEF Distinct, CurrentIsLast
<1>12. "files" \in PublishSteps /\ "files" \in Hold
  BY DEF PublishSteps, Hold
<1> QED
  BY <1>1, <1>3, <1>5, <1>6, <1>8, <1>9, <1>10, <1>11, <1>12, StillTyped, PublisherStep

\* The index is cut off while it is written.
LEMMA TruncateInv ==
  ASSUME ArtifactInv, NEW p \in Publishers, Artifacts!Truncate(p)
  PROVE  ArtifactInv'
<1>1. /\ pc[p] = "files" /\ torn' = TRUE
      /\ pc' = [pc EXCEPT ![p] = "fill"] /\ work' = work
      /\ UNCHANGED <<input, objects, items, manifest, lock, spoiled, reader, publications, reads,
                     edits, faults>>
  BY DEF Artifacts!Truncate, Artifacts!Goto, Artifacts!bounds
<1>2. work' = [work EXCEPT ![p] = work[p]] /\ work'[p] = work[p] /\ pc'[p] = "fill"
      /\ \A q \in Publishers : q # p => pc'[q] = pc[q]
  BY <1>1 DEF ArtifactInv, ArtifactTypes
<1>3. pc[p] \in Hold /\ lock = "held" /\ manifest.live
  BY <1>1, PublisherFacts DEF Hold, WorkOK
<1>4. WorkOK(p)'
  BY <1>1, <1>2, PublisherFacts DEF WorkOK
<1>5. HolderOK(p)'
  <2>1. Extends(work[p].items, items) /\ Present(work[p].items)
    BY <1>1, PublisherFacts DEF HolderOK
  <2>2. Extends(work[p].items, items)' /\ Present(work[p].items)'
    BY <1>1, <2>1 DEF Extends, Present, Artifacts!Versions
  <2> QED BY <1>2, <2>2 DEF HolderOK
<1>6. RecordedOK'
  BY <1>1, <1>2, <1>3, RecordedHeld DEF Hold
<1>7. Artifacts!ObjectsExplained'
  <2>1. Artifacts!ObjectsExplained
    BY DEF ArtifactInv
  <2>2. \A g \in Files : Artifacts!Versions(items, g)' = Artifacts!Versions(items, g)
    BY <1>1 DEF Artifacts!Versions
  <2>3. \A q \in Publishers : pc[q] = "copy" => pc'[q] = "copy"
    BY <1>1, <1>2
  <2> QED BY <1>1, <2>1, <2>2, <2>3 DEF Artifacts!ObjectsExplained
<1>8. Distinct(items)' /\ CurrentIsLast(manifest)'
  BY <1>1, StillTyped DEF Distinct, CurrentIsLast
<1>9. "fill" \in PublishSteps /\ "fill" \in Hold
  BY DEF PublishSteps, Hold
<1> QED
  BY <1>1, <1>2, <1>3, <1>4, <1>5, <1>6, <1>7, <1>8, <1>9, StillTyped, PublisherFacts, PublisherStep

\* The index lists versions whose objects are all there.
LEMMA WriteIndexInv ==
  ASSUME ArtifactInv, NEW p \in Publishers, Artifacts!WriteIndex(p)
  PROVE  ArtifactInv'
<1>1. /\ pc[p] = "fill" /\ items' = work[p].items /\ torn' = FALSE
      /\ pc' = [pc EXCEPT ![p] = "record"] /\ work' = work
      /\ UNCHANGED <<input, objects, manifest, lock, spoiled, reader, publications, reads, edits,
                     faults>>
  BY DEF Artifacts!WriteIndex, Artifacts!Goto, Artifacts!bounds
<1>2. work' = [work EXCEPT ![p] = work[p]] /\ work'[p] = work[p] /\ pc'[p] = "record"
      /\ \A q \in Publishers : q # p => pc'[q] = pc[q]
  BY <1>1 DEF ArtifactInv, ArtifactTypes
<1>3. pc[p] \in Hold /\ lock = "held" /\ Present(work[p].items) /\ items' \in Lists /\ Distinct(items)'
      /\ manifest.live
  BY <1>1, PublisherFacts DEF Hold, HolderOK, WorkOK, Works, Distinct
<1>4. WorkOK(p)' /\ HolderOK(p)'
  BY <1>1, <1>2, PublisherFacts DEF WorkOK, HolderOK
<1>5. RecordedOK'
  BY <1>1, <1>2, <1>3, RecordedHeld DEF Hold
<1>6. Artifacts!ObjectsExplained'
  <2>1. Artifacts!ObjectsExplained
    BY DEF ArtifactInv
  <2>2. \A g \in Files : \A u \in Artifacts!Versions(items, g)' : objects'[u] # None
    BY <1>1, <1>3 DEF Present, Artifacts!Versions
  <2>3. \A q \in Publishers : pc[q] = "copy" => pc'[q] = "copy"
    BY <1>1, <1>2
  <2> QED BY <1>1, <2>1, <2>2, <2>3 DEF Artifacts!ObjectsExplained
<1>7. CurrentIsLast(manifest)'
  BY <1>1, StillTyped DEF CurrentIsLast
<1>8. "record" \in PublishSteps /\ "record" \in Hold
  BY DEF PublishSteps, Hold
<1> QED
  BY <1>1, <1>2, <1>3, <1>4, <1>5, <1>6, <1>7, <1>8, StillTyped, PublisherFacts, PublisherStep

\* The manifest names the content under the lock.
LEMMA RecordInv ==
  ASSUME ArtifactInv, NEW p \in Publishers, Artifacts!Record(p)
  PROVE  ArtifactInv'
<1> DEFINE m == work[p].manifest
           r == Artifacts!Revision
<1>1. /\ pc[p] = "record"
      /\ manifest' = IF m.current = r THEN m
                     ELSE [m EXCEPT !.current = r, !.history = Append(m.history, r)]
      /\ pc' = [pc EXCEPT ![p] = "unlock"] /\ work' = work
      /\ UNCHANGED <<input, objects, items, torn, lock, spoiled, reader, publications, reads, edits, faults>>
  <2>1. work[p].manifest \in Manifests
    BY PublisherFacts DEF Works
  <2> QED BY <2>1 DEF Artifacts!Record, Artifacts!Goto, Artifacts!content, Artifacts!bounds, Manifests
<1>2. work' = [work EXCEPT ![p] = work[p]] /\ work'[p] = work[p] /\ pc'[p] = "unlock"
      /\ \A q \in Publishers : q # p => pc'[q] = pc[q]
  BY <1>1 DEF ArtifactInv, ArtifactTypes
<1>3. pc[p] \in Hold /\ lock = "held" /\ m \in Manifests /\ m.live /\ CurrentIsLast(m)
  BY <1>1, PublisherFacts DEF Hold, WorkOK, Works
<1>4. r \in Revisions
  BY StillTyped DEF Artifacts!Revision, Artifacts!content, Revisions
<1>5. r' = r
  BY <1>1 DEF Artifacts!Revision, Artifacts!content
<1> HIDE DEF m, r
<1>6. manifest' \in Manifests /\ manifest'.live /\ manifest'.current = r /\ CurrentIsLast(manifest)'
  <2>1. CASE m.current = r
    BY <1>1, <1>3, <2>1 DEF CurrentIsLast
  <2>2. CASE m.current # r
    <3>1. /\ manifest' \in Manifests /\ manifest'.live /\ manifest'.current = r
          /\ manifest'.history = Append(m.history, r)
      <4> DEFINE h == Append(m.history, r)
      <4>1. h \in Seq(Revisions) /\ m.live \in BOOLEAN
        BY <1>3, <1>4 DEF Manifests
      <4>2. manifest' = [m EXCEPT !.current = r, !.history = h]
        BY <1>1, <2>2
      <4> HIDE DEF h
      <4>3. /\ manifest' \in Manifests /\ manifest'.live = m.live /\ manifest'.current = r
            /\ manifest'.history = h
        BY <1>3, <1>4, <4>1, <4>2 DEF Manifests
      <4> QED BY <1>3, <4>3 DEF h
    <3>2. Append(m.history, r) # <<>> /\ Artifacts!Last(Append(m.history, r)) = r
      BY <1>3, <1>4 DEF Manifests, Artifacts!Last
    <3> QED BY <3>1, <3>2 DEF CurrentIsLast, Artifacts!Last
  <2> QED BY <2>1, <2>2
<1>7. WorkOK(p)'
  BY <1>1, <1>2, <1>6, PublisherFacts DEF WorkOK
<1>8. HolderOK(p)'
  BY <1>1, <1>2, <1>5, <1>6, PublisherFacts DEF r, HolderOK
<1>9. RecordedOK'
  BY <1>1, <1>2, <1>3, <1>6, RecordedHeld, PublisherFacts DEF Hold
<1>10. Artifacts!ObjectsExplained'
  BY <1>1, <1>2, StillExplained
<1>11. Distinct(items)'
  BY <1>1, StillTyped DEF Distinct
<1>12. "unlock" \in PublishSteps /\ "unlock" \in Hold
  BY DEF PublishSteps, Hold
<1> QED
  BY <1>1, <1>2, <1>3, <1>6, <1>7, <1>8, <1>9, <1>10, <1>11, <1>12, StillTyped, PublisherFacts,
     PublisherStep

\* The last holder has recorded the content.
LEMMA UnlockInv ==
  ASSUME ArtifactInv, NEW p \in Publishers, Artifacts!Unlock(p)
  PROVE  ArtifactInv'
<1>1. /\ pc[p] = "unlock" /\ lock' = "free" /\ Artifacts!Exit(p)
      /\ UNCHANGED <<input, objects, items, torn, manifest, spoiled, reader, publications, reads, edits,
                     faults>>
  BY DEF Artifacts!Unlock, Artifacts!content, Artifacts!bounds
<1>2. pc[p] \in Hold /\ manifest.current = Artifacts!Revision
  BY <1>1, PublisherFacts DEF Hold, HolderOK
<1>3. RecordedOK'
  <2>1. RecordedOK
    BY DEF ArtifactInv
  <2>2. manifest'.current = Artifacts!Revision'
    BY <1>1, <1>2 DEF Artifacts!Revision, Artifacts!content
  <2>3. ~torn'
    BY <1>1, PublisherFacts DEF HolderOK
  <2> QED
    BY <1>1, <2>1, <2>2, <2>3 DEF RecordedOK, Artifacts!ManifestNamesContent, Artifacts!IndexReadable
<1>4. Artifacts!ObjectsExplained'
  BY <1>1, ExitArtifact, StillExplained
<1>5. Distinct(items)' /\ CurrentIsLast(manifest)'
  BY <1>1, StillTyped DEF Distinct, CurrentIsLast
<1>6. "idle" \in PublishSteps /\ "idle" \notin Hold
  BY DEF PublishSteps, Hold
<1> QED
  BY <1>1, <1>2, <1>3, <1>4, <1>5, <1>6, NoWorkFacts, ExitArtifact, StillTyped, PublisherStep

\* After an error or a kill nothing is said of the manifest.
LEMMA RecordedAfterFault ==
  ASSUME ArtifactInv, Artifacts!Fault, UNCHANGED <<items, manifest>>
  PROVE  RecordedOK'
<1>1. faults' \in 0..MaxFaults /\ faults' < MaxFaults
  BY MachineAssumption DEF ArtifactInv, RecordedOK, Artifacts!Fault
<1>2. Artifacts!IndexReadable'
  BY <1>1 DEF Artifacts!IndexReadable
<1> QED
  BY <1>1, <1>2 DEF ArtifactInv, RecordedOK

\* A publication that fails has taken a fault, and gives the lock back.
LEMMA FailInv ==
  ASSUME ArtifactInv, NEW p \in Publishers, Artifacts!Fail(p)
  PROVE  ArtifactInv'
<1> DEFINE v == work[p].version
<1>1. /\ pc[p] \in {"index", "files", "open", "copy", "fill", "record"} /\ lock' = "free" /\ Artifacts!Exit(p)
      /\ Artifacts!Fault
      /\ objects' = IF pc[p] = "copy" THEN [objects EXCEPT ![v] = None] ELSE objects
      /\ UNCHANGED <<input, items, torn, manifest, spoiled, reader, publications, reads, edits>>
  BY DEF Artifacts!Fail, Artifacts!Fault
<1>2. pc[p] \in Hold
  BY <1>1 DEF Hold
<1>3. RecordedOK'
  BY <1>1, RecordedAfterFault
<1>4. Distinct(items)' /\ CurrentIsLast(manifest)'
  BY <1>1, StillTyped DEF Distinct, CurrentIsLast
<1>5. "idle" \in PublishSteps /\ "idle" \notin Hold
  BY DEF PublishSteps, Hold
<1>6. objects' \in Objects /\ Artifacts!ObjectsExplained'
  <2>1. CASE pc[p] # "copy"
    <3>1. UNCHANGED objects
      BY <1>1, <2>1
    <3> QED BY <1>1, <2>1, <3>1, ExitArtifact, StillExplained, StillTyped
  <2>2. CASE pc[p] = "copy"
    <3>1. v \in FileContents /\ Unlisted(items, v)
      <4>1. v # None /\ Unlisted(items, v) /\ work[p] \in Works
        BY <2>2, PublisherFacts DEF WorkOK, HolderOK
      <4> QED BY <4>1 DEF Works
    <3>2. objects' \in Objects /\ objects'[v] = None /\ \A u \in FileContents : u # v => objects'[u] = objects[u]
      BY <1>1, <2>2, <3>1, StillTyped DEF Objects
    <3>3. Artifacts!ObjectsExplained
      BY DEF ArtifactInv
    <3>4. \A g \in Files : Artifacts!Versions(items, g) \subseteq FileContents
      BY StillTyped DEF Artifacts!Versions, Lists
    <3>5. \A g \in Files : \A u \in Artifacts!Versions(items, g)' : objects'[u] # None
      BY <1>1, <3>1, <3>2, <3>3, <3>4 DEF Artifacts!ObjectsExplained, Artifacts!Versions, Unlisted
    <3>6. ASSUME NEW u \in FileContents
          PROVE  objects'[u] \in {None, u} \/ u \in spoiled'
                 \/ \E q \in Publishers : pc'[q] = "copy" /\ work'[q].version = u
      <4>1. CASE u = v
        BY <3>2, <4>1
      <4>2. CASE u # v
        <5>1. objects[u] \in {None, u} \/ u \in spoiled
              \/ \E q \in Publishers : pc[q] = "copy" /\ work[q].version = u
          BY <3>3 DEF Artifacts!ObjectsExplained
        <5>2. \A q \in Publishers : pc[q] = "copy" /\ work[q].version = u => q # p
          BY <4>2
        <5> QED BY <1>1, <3>2, <4>2, <5>1, <5>2, ExitArtifact
      <4> QED BY <4>1, <4>2
    <3> QED BY <3>2, <3>5, <3>6 DEF Artifacts!ObjectsExplained
  <2> QED BY <2>1, <2>2
<1> HIDE DEF v
<1> QED
  BY <1>1, <1>2, <1>3, <1>4, <1>5, <1>6, NoWorkFacts, ExitArtifact, StillTyped, PublisherStep

\* One that is killed has taken a fault; what it half wrote is spoiled.
LEMMA KillInv ==
  ASSUME ArtifactInv, NEW p \in Publishers, Artifacts!Kill(p)
  PROVE  ArtifactInv'
<1> DEFINE v == work[p].version
<1>1. /\ pc[p] # "idle" /\ Artifacts!Exit(p) /\ Artifacts!Fault
      /\ spoiled' = IF pc[p] = "copy" THEN spoiled \cup {v} ELSE spoiled
      /\ UNCHANGED <<input, objects, items, torn, manifest, lock, reader, publications, reads, edits>>
  BY DEF Artifacts!Kill, Artifacts!Fault, Artifacts!content
<1>2. RecordedOK'
  BY <1>1, RecordedAfterFault
<1>3. Distinct(items)' /\ CurrentIsLast(manifest)'
  BY <1>1, StillTyped DEF Distinct, CurrentIsLast
<1>4. "idle" \in PublishSteps /\ "idle" \notin Hold
  BY DEF PublishSteps, Hold
<1>5. spoiled \subseteq spoiled' /\ spoiled' \subseteq FileContents
  <2>1. pc[p] = "copy" => v \in FileContents
    <3>1. pc[p] = "copy" => v # None
      BY PublisherFacts DEF WorkOK
    <3> QED BY <3>1, PublisherFacts DEF Works
  <2> QED BY <1>1, <2>1, StillTyped
<1>6. Artifacts!ObjectsExplained'
  <2>1. CASE pc[p] # "copy"
    BY <1>1, <1>5, <2>1, ExitArtifact, StillExplained
  <2>2. CASE pc[p] = "copy"
    <3>1. Artifacts!ObjectsExplained /\ v \in spoiled'
      BY <1>1, <2>2 DEF ArtifactInv
    <3>2. \A g \in Files : \A u \in Artifacts!Versions(items, g)' : objects'[u] # None
      BY <1>1, <3>1 DEF Artifacts!ObjectsExplained, Artifacts!Versions
    <3>3. ASSUME NEW u \in FileContents
          PROVE  objects'[u] \in {None, u} \/ u \in spoiled'
                 \/ \E q \in Publishers : pc'[q] = "copy" /\ work'[q].version = u
      <4>1. CASE u = v
        BY <3>1, <4>1
      <4>2. CASE u # v
        <5>1. objects[u] \in {None, u} \/ u \in spoiled
              \/ \E q \in Publishers : pc[q] = "copy" /\ work[q].version = u
          BY <3>1 DEF Artifacts!ObjectsExplained
        <5>2. \A q \in Publishers : pc[q] = "copy" /\ work[q].version = u => q # p
          BY <4>2
        <5> QED BY <1>1, <1>5, <5>1, <5>2, ExitArtifact
      <4> QED BY <4>1, <4>2
    <3> QED BY <3>2, <3>3 DEF Artifacts!ObjectsExplained
  <2> QED BY <2>1, <2>2
<1> HIDE DEF v
<1> QED
  BY <1>1, <1>2, <1>3, <1>4, <1>5, <1>6, NoWorkFacts, ExitArtifact, StillTyped, PublisherStep

(* Steps that touch neither the content nor a publication.                  *)
LEMMA Undisturbed ==
  ASSUME ArtifactInv, UNCHANGED <<objects, items, torn, manifest, lock, pc, work, faults>>,
         spoiled \subseteq spoiled'
  PROVE  /\ Wellformed' /\ LockOK' /\ RecordedOK' /\ Artifacts!ObjectsExplained'
         /\ \A p \in Publishers : HolderOK(p)'
<1>1. Wellformed'
  BY DEF ArtifactInv, Wellformed, Distinct, CurrentIsLast
<1>2. LockOK'
  BY DEF ArtifactInv, LockOK, Artifacts!Holding
<1>3. RecordedOK'
  BY RecordedSame
<1>4. Artifacts!ObjectsExplained'
  <2>1. Artifacts!ObjectsExplained
    BY DEF ArtifactInv
  <2>2. \A f \in Files : \A v \in Artifacts!Versions(items, f)' : objects'[v] # None
    BY <2>1 DEF Artifacts!ObjectsExplained, Artifacts!Versions
  <2>3. \A v \in FileContents : objects'[v] \in {None, v} \/ v \in spoiled'
                            \/ \E p \in Publishers : pc'[p] = "copy" /\ work'[p].version = v
    BY <2>1 DEF Artifacts!ObjectsExplained
  <2> QED BY <2>2, <2>3 DEF Artifacts!ObjectsExplained
<1>5. ASSUME NEW p \in Publishers PROVE HolderOK(p)'
  <2>1. HolderOK(p)
    BY PublisherFacts
  <2>2. Artifacts!Revision' = Artifacts!Revision
    BY DEF Artifacts!Revision, Artifacts!content
  <2>3. Extends(work[p].items, items) => Extends(work[p].items, items)'
    BY DEF Extends
  <2>4. Present(work[p].items) => Present(work[p].items)'
    BY DEF Present, Artifacts!Versions
  <2>5. /\ Unlisted(items, work[p].version) => Unlisted(items, work[p].version)'
        /\ Unlisted(work[p].items, work[p].version) => Unlisted(work[p].items, work[p].version)'
    BY DEF Unlisted, Artifacts!Versions
  <2> QED BY <2>1, <2>2, <2>3, <2>4, <2>5 DEF HolderOK
<1> QED BY <1>1, <1>2, <1>3, <1>4, <1>5

\* A lock ages whose holder is gone.
LEMMA LockAgesInv ==
  ASSUME ArtifactInv, Artifacts!LockAges
  PROVE  ArtifactInv'
<1>1. /\ lock = "held" /\ lock' = "old" /\ \A p \in Publishers : ~Artifacts!Holding(p)
      /\ UNCHANGED <<input, objects, items, torn, manifest, pc, work, spoiled, reader, publications, reads,
                     edits, faults>>
  BY DEF Artifacts!LockAges, Artifacts!content, Artifacts!bounds
<1>2. ArtifactTypes'
  BY <1>1 DEF ArtifactInv, ArtifactTypes
<1>3. Wellformed'
  BY <1>1 DEF ArtifactInv, Wellformed, Distinct, CurrentIsLast
<1>4. LockOK'
  BY <1>1 DEF LockOK, Artifacts!Holding
<1>5. RecordedOK'
  <2>1. faults # MaxFaults
    BY <1>1 DEF ArtifactInv, RecordedOK
  <2>2. Artifacts!IndexReadable'
    BY <1>1 DEF ArtifactInv, RecordedOK, Artifacts!IndexReadable
  <2> QED BY <1>1, <2>1, <2>2 DEF ArtifactInv, RecordedOK
<1>6. ASSUME NEW p \in Publishers PROVE WorkOK(p)' /\ HolderOK(p)'
  <2>1. pc[p] \notin Hold /\ WorkOK(p) /\ pc'[p] = pc[p]
    BY <1>1, PublisherFacts
  <2>2. WorkOK(p)'
    BY <1>1, <2>1 DEF WorkOK
  <2>3. pc'[p] \notin {"files", "open", "copy", "fill", "record", "unlock"}
    BY <2>1 DEF Hold
  <2>4. HolderOK(p)'
    BY <2>3 DEF HolderOK
  <2> QED BY <2>2, <2>4
<1>7. \A r \in Readers : ReadOK(reader[r])'
  BY <1>1 DEF ArtifactInv, ReadOK
<1>8. Artifacts!ObjectsExplained'
  <2>1. Artifacts!ObjectsExplained
    BY DEF ArtifactInv
  <2>2. \A f \in Files : \A v \in Artifacts!Versions(items, f)' : objects'[v] # None
    BY <1>1, <2>1 DEF Artifacts!ObjectsExplained, Artifacts!Versions
  <2> QED BY <1>1, <2>1, <2>2 DEF Artifacts!ObjectsExplained
<1> QED BY <1>2, <1>3, <1>4, <1>5, <1>6, <1>7, <1>8 DEF ArtifactInv

\* What the agent changes, copies under way no longer vouch for.
LEMMA EditInv ==
  ASSUME ArtifactInv, NEW f \in Files, NEW c \in FileContents, Artifacts!Edit(f, c)
  PROVE  ArtifactInv'
<1> DEFINE hit == {work[p].version : p \in {q \in Publishers : work[q].file = f}}
<1>1. /\ input' = [input EXCEPT ![f] = c] /\ spoiled' = spoiled \cup hit
      /\ UNCHANGED <<objects, items, torn, manifest, lock, pc, work, reader, publications, reads, faults>>
      /\ edits' \in Nat
  BY DEF Artifacts!Edit, Artifacts!content, ArtifactInv, ArtifactTypes
<1>2. hit \subseteq FileContents
  <2> SUFFICES ASSUME NEW p \in Publishers, work[p].file = f PROVE work[p].version \in FileContents
    OBVIOUS
  <2>1. work[p].version # None /\ work[p] \in Works
    BY MachineAssumption, PublisherFacts DEF WorkOK
  <2> QED BY <2>1 DEF Works
<1>3. /\ input' \in [Files -> FileContents \cup {None}] /\ input'[f] = c
      /\ \A g \in Files : g # f => input'[g] = input[g]
  BY <1>1 DEF ArtifactInv, ArtifactTypes
<1>4. \A p \in Publishers : work[p].file = f => work[p].version \in spoiled'
  BY <1>1
<1> HIDE DEF hit
<1>5. ArtifactTypes'
  BY <1>1, <1>2, <1>3 DEF ArtifactInv, ArtifactTypes
<1>6. Wellformed' /\ LockOK' /\ RecordedOK' /\ Artifacts!ObjectsExplained'
      /\ \A p \in Publishers : HolderOK(p)'
  BY <1>1, Undisturbed
<1>7. ASSUME NEW p \in Publishers PROVE WorkOK(p)'
  <2>1. WorkOK(p) /\ work[p] \in Works
    BY PublisherFacts
  <2>2. work[p].todo \subseteq Files /\ work[p].file \in Files \cup {None}
    BY <2>1 DEF Works
  <2>3. \A g \in Files : input[g] # None => input'[g] # None
    BY <1>3, MachineAssumption
  <2>4. pc[p] \in {"open", "copy"} => input'[work[p].file] = work[p].version
                                      \/ work[p].version \in spoiled'
    <3>1. CASE work[p].file = f
      BY <1>4, <3>1
    <3>2. CASE work[p].file # f
      BY <1>1, <1>3, <2>1, <2>2, <3>2 DEF WorkOK
    <3> QED BY <3>1, <3>2
  <2> QED BY <1>1, <2>1, <2>2, <2>3, <2>4 DEF WorkOK
<1>8. \A r \in Readers : ReadOK(reader[r])'
  BY <1>1 DEF ArtifactInv, ReadOK
<1> QED BY <1>5, <1>6, <1>7, <1>8 DEF ArtifactInv

\* A retrieval writes nothing and verifies what it copied.
LEMMA ReadingInv ==
  ASSUME ArtifactInv, NEW q \in Readers, Artifacts!Reading(q)
  PROVE  ArtifactInv'
<1>1. /\ UNCHANGED <<input, objects, items, torn, manifest, lock, pc, work, spoiled, publications, edits,
                     faults>>
      /\ reads' \in Nat
  <2>1. ASSUME NEW f \in Files, NEW v \in FileContents, Artifacts!Get(q, f, v)
        PROVE  /\ UNCHANGED <<input, objects, items, torn, manifest, lock, pc, work, spoiled, publications,
                               edits, faults>>
               /\ reads' \in Nat
    BY <2>1 DEF Artifacts!Get, Artifacts!publishing, Artifacts!content, ArtifactInv, ArtifactTypes
  <2>3. CASE Artifacts!GetRefused(q)
    BY <2>3 DEF Artifacts!GetRefused, Artifacts!publishing, Artifacts!content, ArtifactInv, ArtifactTypes
  <2>2. CASE Artifacts!GetCopy(q) \/ Artifacts!GetVerify(q) \/ Artifacts!GetEnds(q)
    <3>1. UNCHANGED Artifacts!publishing /\ UNCHANGED Artifacts!bounds
      BY <2>2 DEF Artifacts!GetCopy, Artifacts!GetVerify, Artifacts!GetEnds
    <3>2. UNCHANGED <<input, objects, items, torn, manifest, lock, pc, work, spoiled>>
      BY <3>1 DEF Artifacts!publishing, Artifacts!content
    <3>3. UNCHANGED <<publications, reads, edits, faults>>
      BY <3>1 DEF Artifacts!bounds
    <3> QED BY <3>2, <3>3 DEF ArtifactInv, ArtifactTypes
  <2> QED BY <2>1, <2>2, <2>3 DEF Artifacts!Reading
<1>2. reader[q] \in Reads /\ Artifacts!NoRead \in Reads
  BY DEF ArtifactInv, ArtifactTypes, Artifacts!NoRead, Reads
<1>3. PICK r \in Reads : reader' = [reader EXCEPT ![q] = r] /\ ReadOK(r)
  <2>1. ASSUME NEW f \in Files, NEW v \in FileContents, Artifacts!Get(q, f, v)
        PROVE  \E r \in Reads : reader' = [reader EXCEPT ![q] = r] /\ ReadOK(r)
    <3> DEFINE r == [Artifacts!NoRead EXCEPT !.step = "copy", !.version = v]
    <3>1. reader' = [reader EXCEPT ![q] = r]
      BY <2>1 DEF Artifacts!Get
    <3>2. r \in Reads /\ ReadOK(r)
      BY <1>2, MachineAssumption DEF Reads, ReadOK
    <3> HIDE DEF r
    <3> QED BY <3>1, <3>2
  <2>2. CASE Artifacts!GetCopy(q)
    <3> DEFINE r == [reader[q] EXCEPT !.step = "verify", !.out = objects[reader[q].version]]
    <3>1. reader' = [reader EXCEPT ![q] = r]
      BY <1>2, <2>2 DEF Artifacts!GetCopy, ArtifactInv, ArtifactTypes, Reads
    <3>2. reader[q].version \in FileContents
      BY <1>2, <2>2 DEF ArtifactInv, ReadOK, Reads, Artifacts!GetCopy
    <3>3. r \in Reads /\ ReadOK(r)
      BY <1>2, <3>2, MachineAssumption, StillTyped DEF Reads, ReadOK, Objects
    <3> HIDE DEF r
    <3> QED BY <3>1, <3>3
  <2>3. CASE Artifacts!GetVerify(q)
    <3> DEFINE r == IF reader[q].out = reader[q].version THEN [reader[q] EXCEPT !.step = "got"]
                    ELSE [Artifacts!NoRead EXCEPT !.step = "failed"]
    <3>1. reader' = [reader EXCEPT ![q] = r]
      BY <2>3 DEF Artifacts!GetVerify, ArtifactInv, ArtifactTypes
    <3>2. r \in Reads /\ ReadOK(r)
      <4>1. CASE reader[q].out = reader[q].version
        <5>1. r = [reader[q] EXCEPT !.step = "got"] /\ reader[q].version # None
          BY <2>3, <4>1 DEF Artifacts!GetVerify, ArtifactInv, ReadOK
        <5> QED BY <1>2, <4>1, <5>1 DEF Reads, ReadOK
      <4>2. CASE reader[q].out # reader[q].version
        <5>1. r = [Artifacts!NoRead EXCEPT !.step = "failed"]
          BY <4>2
        <5> QED BY <1>2, <5>1 DEF Reads, ReadOK
      <4> QED BY <4>1, <4>2
    <3> HIDE DEF r
    <3> QED BY <3>1, <3>2
  <2>4. CASE Artifacts!GetEnds(q)
    <3>1. ReadOK(Artifacts!NoRead)
      BY DEF ReadOK, Artifacts!NoRead
    <3> QED BY <1>2, <2>4, <3>1 DEF Artifacts!GetEnds
  <2>5. CASE Artifacts!GetRefused(q)
    <3> DEFINE r == [Artifacts!NoRead EXCEPT !.step = "failed"]
    <3>1. reader' = [reader EXCEPT ![q] = r]
      BY <2>5 DEF Artifacts!GetRefused
    <3>2. r \in Reads /\ ReadOK(r)
      BY <1>2 DEF Reads, ReadOK
    <3> HIDE DEF r
    <3> QED BY <3>1, <3>2
  <2> QED BY <2>1, <2>2, <2>3, <2>4, <2>5 DEF Artifacts!Reading
<1>4. ArtifactTypes'
  BY <1>1, <1>3 DEF ArtifactInv, ArtifactTypes
<1>5. Wellformed' /\ LockOK' /\ RecordedOK' /\ Artifacts!ObjectsExplained'
      /\ \A p \in Publishers : HolderOK(p)'
  BY <1>1, Undisturbed
<1>6. ASSUME NEW p \in Publishers PROVE WorkOK(p)'
  BY <1>1, PublisherFacts DEF WorkOK
<1>7. \A u \in Readers : ReadOK(reader[u])'
  BY <1>3 DEF ArtifactInv, ArtifactTypes, ReadOK
<1> QED BY <1>4, <1>5, <1>6, <1>7 DEF ArtifactInv

\* Every step of a publication keeps the invariant.
LEMMA PublishingInv ==
  ASSUME ArtifactInv, NEW p \in Publishers, Artifacts!Publishing(p)
  PROVE  ArtifactInv'
<1>1. ASSUME NEW files \in SUBSET Files, Artifacts!Start(p, files) PROVE ArtifactInv'
  BY <1>1, StartInv
<1>2. ASSUME NEW f \in Files, Artifacts!Checksum(p, f) PROVE ArtifactInv'
  BY <1>2, ChecksumInv
<1>3. CASE Artifacts!Create(p) \/ Artifacts!Acquire(p) \/ Artifacts!TimeOut(p)
           \/ Artifacts!ReadIndex(p) \/ Artifacts!RefuseIndex(p)
  BY <1>3, CreateContextInv, AcquireInv, TimeOutInv, ReadIndexInv, RefuseIndexInv
<1>4. CASE Artifacts!Open(p) \/ Artifacts!Copy(p) \/ Artifacts!Truncate(p) \/ Artifacts!WriteIndex(p)
  BY <1>4, OpenInv, CopyInv, TruncateInv, WriteIndexInv
<1>5. CASE Artifacts!Record(p) \/ Artifacts!Unlock(p) \/ Artifacts!Fail(p) \/ Artifacts!Kill(p)
  BY <1>5, RecordInv, UnlockInv, FailInv, KillInv
<1> QED
  BY <1>1, <1>2, <1>3, <1>4, <1>5 DEF Artifacts!Publishing

(* Every step of a publication, a retrieval or the agent keeps the          *)
(* invariant.                                                               *)
LEMMA ArtifactNext == ArtifactInv /\ Artifacts!Next => ArtifactInv'
BY PublishingInv, ReadingInv, EditInv, LockAgesInv DEF Artifacts!Next

\* The types of the module, with the index and the manifest well formed.
LEMMA ArtifactTypeLocally == ArtifactInv => Artifacts!TypeOK
<1> SUFFICES ASSUME ArtifactInv PROVE Artifacts!TypeOK
  OBVIOUS
<1>1. \A f \in Files : Artifacts!Versions(items, f) \subseteq FileContents
                      /\ \A i, j \in 1..Len(items[f]) : items[f][i] = items[f][j] => i = j
  BY StillTyped DEF Lists, Distinct, Artifacts!Versions
<1>2. manifest.live \in BOOLEAN
      /\ manifest.current = IF manifest.history = <<>> THEN None ELSE Artifacts!Last(manifest.history)
  BY StillTyped DEF Manifests, CurrentIsLast
<1>3. input \in [Files -> FileContents \cup {None}] /\ objects \in [FileContents -> FileContents \cup {None, Torn}]
  BY DEF ArtifactInv, ArtifactTypes, Objects
<1>4. /\ lock \in {"free", "held", "old"} /\ torn \in BOOLEAN /\ spoiled \subseteq FileContents
      /\ pc \in [Publishers -> PublishSteps]
  BY DEF ArtifactInv, ArtifactTypes
<1>5. pc \in [Publishers -> {"idle", "create", "lock", "index", "files", "open", "copy", "fill",
                            "record", "unlock"}]
  BY <1>4 DEF PublishSteps
<1> QED
  BY <1>1, <1>2, <1>3, <1>4, <1>5 DEF Artifacts!TypeOK

\* Objects are explained, what was verified is what was asked for, and the index is
\* whole until a fault.
LEMMA ExactLocally ==
  ArtifactInv => Artifacts!ObjectsExplained /\ Artifacts!RetrievedExact /\ Artifacts!IndexReadable
BY DEF ArtifactInv, RecordedOK, ReadOK, Artifacts!RetrievedExact

(* The manifest, without faults; with them nothing is claimed.              *)
LEMMA NamesContentLocally == ArtifactInv => Artifacts!ManifestNamesContent
<1> SUFFICES ASSUME ArtifactInv, faults = MaxFaults PROVE Artifacts!ManifestNamesContent
  BY DEF Artifacts!ManifestNamesContent
<1> QED BY DEF ArtifactInv, RecordedOK

(* Only the holder of the lock writes the index, which only grows.          *)
LEMMA VersionsStayStep ==
  ASSUME ArtifactInv, Artifacts!Next \/ UNCHANGED items
  PROVE  \A f \in Files : Len(items[f]) <= Len(items'[f])
                          /\ SubSeq(items'[f], 1, Len(items[f])) = items[f]
<1>1. UNCHANGED items \/ \E p \in Publishers : Artifacts!WriteIndex(p)
  <2>1. ASSUME NEW p \in Publishers, Artifacts!Publishing(p), ~Artifacts!WriteIndex(p)
        PROVE  UNCHANGED items
    <3>1. ASSUME NEW files \in SUBSET Files, Artifacts!Start(p, files) PROVE UNCHANGED items
      BY <3>1 DEF Artifacts!Start, Artifacts!content
    <3>2. ASSUME NEW f \in Files, Artifacts!Checksum(p, f) PROVE UNCHANGED items
      BY <3>2 DEF Artifacts!Checksum, Artifacts!content
    <3>3. CASE Artifacts!Create(p) \/ Artifacts!Acquire(p) \/ Artifacts!TimeOut(p)
               \/ Artifacts!ReadIndex(p) \/ Artifacts!RefuseIndex(p)
      BY <3>3 DEF Artifacts!Create, Artifacts!Acquire, Artifacts!TimeOut, Artifacts!ReadIndex,
                  Artifacts!RefuseIndex, Artifacts!content
    <3>4. CASE Artifacts!Open(p) \/ Artifacts!Copy(p) \/ Artifacts!Truncate(p)
      BY <3>4 DEF Artifacts!Open, Artifacts!Copy, Artifacts!Truncate
    <3>5. CASE Artifacts!Record(p) \/ Artifacts!Unlock(p) \/ Artifacts!Fail(p) \/ Artifacts!Kill(p)
      BY <3>5 DEF Artifacts!Record, Artifacts!Unlock, Artifacts!Fail, Artifacts!Kill, Artifacts!content
    <3> QED
      BY <2>1, <3>1, <3>2, <3>3, <3>4, <3>5 DEF Artifacts!Publishing
  <2>2. ASSUME NEW q \in Readers, Artifacts!Reading(q) PROVE UNCHANGED items
    <3>1. UNCHANGED Artifacts!publishing
      <4>1. ASSUME NEW f \in Files, NEW v \in FileContents, Artifacts!Get(q, f, v)
            PROVE  UNCHANGED Artifacts!publishing
        BY <4>1 DEF Artifacts!Get
      <4>2. CASE Artifacts!GetRefused(q) \/ Artifacts!GetCopy(q) \/ Artifacts!GetVerify(q)
                 \/ Artifacts!GetEnds(q)
        BY <4>2 DEF Artifacts!GetRefused, Artifacts!GetCopy, Artifacts!GetVerify, Artifacts!GetEnds
      <4> QED BY <2>2, <4>1, <4>2 DEF Artifacts!Reading
    <3> QED BY <3>1 DEF Artifacts!publishing, Artifacts!content
  <2>3. ASSUME NEW f \in Files, NEW c \in FileContents, Artifacts!Edit(f, c) PROVE UNCHANGED items
    BY <2>3 DEF Artifacts!Edit, Artifacts!content
  <2>4. CASE Artifacts!LockAges
    BY <2>4 DEF Artifacts!LockAges, Artifacts!content
  <2> QED BY <2>1, <2>2, <2>3, <2>4 DEF Artifacts!Next
<1>2. Extends(items', items) /\ items' \in Lists
  <2>1. CASE UNCHANGED items
    BY <2>1, StillTyped DEF Extends, Lists
  <2>2. ASSUME NEW p \in Publishers, Artifacts!WriteIndex(p)
        PROVE  Extends(items', items) /\ items' \in Lists
    BY <2>2, PublisherFacts DEF Artifacts!WriteIndex, HolderOK, Works
  <2> QED BY <1>1, <2>1, <2>2
<1> SUFFICES ASSUME NEW f \in Files
             PROVE  Len(items[f]) <= Len(items'[f]) /\ SubSeq(items'[f], 1, Len(items[f])) = items[f]
  OBVIOUS
<1> DEFINE s == items[f]
           t == items'[f]
<1>3. s \in Seq(FileContents) /\ t \in Seq(FileContents) /\ Len(s) \in Nat /\ Len(t) \in Nat
      /\ Len(s) <= Len(t) /\ \A i \in 1..Len(s) : t[i] = s[i]
  BY <1>2, StillTyped DEF Lists, Extends
<1> HIDE DEF s, t
<1>4. \A i \in 1..Len(s) : t[i] \in FileContents
  BY <1>3
<1>5. SubSeq(t, 1, Len(s)) \in Seq(FileContents) /\ Len(SubSeq(t, 1, Len(s))) = Len(s)
      /\ \A i \in 1..Len(s) : SubSeq(t, 1, Len(s))[i] = t[i]
  BY <1>3, <1>4, SubSeqProperties
<1>6. SubSeq(t, 1, Len(s)) = s
  BY <1>3, <1>5, SeqEqual
<1> QED BY <1>3, <1>6 DEF s, t

-----------------------------------------------------------------------------
(* The machine: the part that a behaviour has keeps its own invariant, and  *)
(* the others stand still.                                                  *)

\* The faults that are left are all that two parts have in common.
Spends == faults' = faults \/ (faults > 0 /\ faults' = faults - 1)

\* A restore knows nothing of the faults.
LEMMA RestoringSame == NativeInv /\ UNCHANGED restoring => NativeInv'
<1> SUFFICES ASSUME NativeInv, UNCHANGED restoring PROVE NativeInv'
  OBVIOUS
<1>1. UNCHANGED <<harness, links, captured, native, at, job, restores, turns>>
  BY DEF restoring
<1>2. NativeTypes' /\ FillOK' /\ WholeOK' /\ HereOnly' /\ OneImport'
  BY <1>1 DEF NativeInv, NativeTypes, FillOK, WholeOK, Whole, HereOnly, OneImport, Importing
<1>3. ASSUME NEW p \in Restorers PROVE JobOK(p)' /\ PlacesOK(p)' /\ ImportOK(p)'
  <2>1. JobOK(p) /\ PlacesOK(p) /\ ImportOK(p)
    BY DEF NativeInv
  <2>2. Native!Planned(p)' = Native!Planned(p) /\ \A s : Native!CopiesOf(s)' = Native!CopiesOf(s)
    BY <1>1 DEF Native!Planned, Native!CopiesOf
  <2> QED BY <1>1, <2>1, <2>2 DEF JobOK, PlacesOK, ImportOK, Importing
<1>4. ASSUME Calm, NEW p \in Restorers PROVE SettledOK(p)'
  <2>1. SettledOK(p)
    BY <1>4 DEF NativeInv
  <2>2. /\ Native!Planned(p)' = Native!Planned(p) /\ Native!Source(p)' = Native!Source(p)
        /\ \A c : Native!CapturedIn(c)' = Native!CapturedIn(c)
        /\ \A s : Settled(p, s)' = Settled(p, s)
    BY <1>1 DEF Native!Planned, Native!Source, Native!CapturedIn, Settled, Native!BeingFilled
  <2> QED BY <1>1, <2>1, <2>2 DEF SettledOK
<1> QED BY <1>2, <1>3, <1>4 DEF NativeInv

\* The content of a context knows that there may be fewer faults left.
LEMMA PublishingSame ==
  ASSUME ArtifactInv, UNCHANGED publishing, Spends
  PROVE  ArtifactInv'
<1>1. /\ UNCHANGED <<input, objects, items, torn, manifest, lock, pc, work, reader, spoiled>>
      /\ UNCHANGED <<publications, reads, edits>>
  BY DEF publishing
<1>2. ArtifactTypes' /\ Wellformed' /\ LockOK'
  BY <1>1 DEF ArtifactInv, ArtifactTypes, Wellformed, LockOK, CurrentIsLast, Distinct, Artifacts!Last,
              Artifacts!Holding
<1>3. ASSUME NEW p \in Publishers PROVE WorkOK(p)' /\ HolderOK(p)'
  <2>1. WorkOK(p) /\ HolderOK(p)
    BY DEF ArtifactInv
  <2>2. WorkOK(p)'
    BY <1>1, <2>1 DEF WorkOK
  <2>3. HolderOK(p)'
    BY <1>1, <2>1 DEF HolderOK, Extends, Present, Unlisted, Artifacts!Versions, Artifacts!Revision,
                     Artifacts!content
  <2> QED BY <2>2, <2>3
<1>4. Artifacts!ObjectsExplained'
  BY <1>1 DEF ArtifactInv, Artifacts!ObjectsExplained, Artifacts!Versions
<1>5. RecordedOK'
  <2>1. RecordedOK /\ MaxFaults \in Nat
    BY MachineAssumption DEF ArtifactInv
  <2>2. faults' \in 0..MaxFaults /\ (faults' = MaxFaults => faults = MaxFaults)
    BY <2>1 DEF RecordedOK, Spends
  <2>3. /\ \A p \in Publishers : Artifacts!Holding(p)' = Artifacts!Holding(p)
        /\ Artifacts!Revision' = Artifacts!Revision
    BY <1>1 DEF Artifacts!Holding, Artifacts!Revision, Artifacts!content
  <2>4. faults = MaxFaults /\ Artifacts!ManifestNamesContent => Artifacts!ManifestNamesContent'
    BY <1>1, <2>3 DEF Artifacts!ManifestNamesContent
  <2>5. Artifacts!IndexReadable'
    BY <1>1, <2>1, <2>2 DEF RecordedOK, Artifacts!IndexReadable
  <2> QED BY <1>1, <2>1, <2>2, <2>3, <2>4, <2>5 DEF RecordedOK
<1>6. \A q \in Readers : ReadOK(reader[q])'
  BY <1>1 DEF ArtifactInv, ReadOK
<1> QED BY <1>2, <1>3, <1>4, <1>5, <1>6 DEF ArtifactInv

\* A step of a restore or of the harness takes one fault at most.
LEMMA NativeSpends == Native!Next => Spends
<1> USE DEF Spends, Native!bounds
<1>1. ASSUME NEW p \in Restorers, Native!RestoreStep(p) PROVE Spends
  <2>1. ASSUME NEW c \in Contexts, Native!Begin(p, c) PROVE Spends
    BY <2>1 DEF Native!Begin
  <2>2. CASE Native!List(p) \/ Native!LockTimeout(p) \/ Native!CheckProject(p)
    BY <2>2 DEF Native!List, Native!LockTimeout, Native!CheckProject
  <2>3. CASE Native!FindArchived(p) \/ Native!Decide(p) \/ Native!Fill(p) \/ Native!FillFails(p)
    BY <2>3 DEF Native!FindArchived, Native!Decide, Native!Fill, Native!FillFails
  <2>4. CASE Native!Report(p) \/ Native!End(p) \/ Native!Stop(p)
    BY <2>4 DEF Native!Report, Native!End, Native!Stop
  <2>5. ASSUME NEW s \in Sessions, Native!Find(p, s) \/ Native!RefuseFile(p, s) \/ Native!AskOpenCode(p, s)
        PROVE  Spends
    BY <2>5 DEF Native!Find, Native!RefuseFile, Native!AskOpenCode
  <2>6. ASSUME NEW s \in Sessions, Native!Link(p, s) \/ Native!Create(p, s) \/ Native!Import(p, s)
        PROVE  Spends
    BY <2>6 DEF Native!Link, Native!Create, Native!Import
  <2>7. ASSUME NEW x \in Native!Places, Native!Compare(p, x) PROVE Spends
    BY <2>7 DEF Native!Compare
  <2> QED
    BY <1>1, <2>1, <2>2, <2>3, <2>4, <2>5, <2>6, <2>7 DEF Native!RestoreStep
<1>2. CASE Native!HarnessStep
  BY <1>2 DEF Native!HarnessStep, Native!Continue, Native!Archive, Native!Remove, Native!Capture,
              Native!Turn
<1> QED BY <1>1, <1>2 DEF Native!Next

\* The parts begin in their own initial states.
LEMMA MachineInit == Parts => MachineInv
BY InitIInv, NativeInit, ArtifactInit DEF Parts, MachineInv

\* One part steps, or none.
LEMMA MachineNext == MachineInv /\ [PartsNext]_machineVars => MachineInv'
<1> SUFFICES ASSUME MachineInv, [PartsNext]_machineVars PROVE MachineInv'
  OBVIOUS
<1> USE DEF MachineInv
<1>1. CASE Next /\ UNCHANGED <<restoring, publishing, faults>>
  BY <1>1, NextIInv, RestoringSame, PublishingSame DEF Spends
<1>2. CASE Native!Next /\ UNCHANGED <<vars, publishing>>
  BY <1>2, NextIInv, NativeNext, NativeSpends, PublishingSame
<1>3. CASE Artifacts!Next /\ UNCHANGED <<vars, restoring>>
  BY <1>3, NextIInv, ArtifactNext, RestoringSame
<1>4. CASE UNCHANGED machineVars
  BY <1>4, NextIInv, RestoringSame, PublishingSame DEF machineVars, Spends
<1> QED BY <1>1, <1>2, <1>3, <1>4 DEF PartsNext

(* The invariants of the three parts hold in every state of the machine.    *)
THEOREM MachineInvariance == MachineSpec => []MachineInv
BY MachineInit, MachineNext, PTL DEF MachineSpec

(* The worker's schedule, the restores and the content of a context keep    *)
(* their types; no version is ever listed twice, and the manifest's current *)
(* revision is the last of its history.                                     *)
THEOREM MachineTypeCorrect == MachineSpec => []HarnessTypeOK
<1>1. MachineInv => HarnessTypeOK
  <2>1. ArtifactInv => faults \in Nat
    BY MachineAssumption DEF ArtifactInv, RecordedOK
  <2> QED BY <2>1, NativeTypeLocally, ArtifactTypeLocally DEF MachineInv, IInv, HarnessTypeOK
<1> QED BY <1>1, MachineInvariance, PTL

(* What a restore into a harness answers is so, for every number of         *)
(* sessions, captures and restores at once: a refused one has written       *)
(* nothing, and after one that is done every captured session that nobody   *)
(* moved meanwhile is there as captured.                                    *)
THEOREM RestoresAreHonest ==
  ASSUME Calm
  PROVE  MachineSpec => []RestoreHonest
<1>1. MachineInv => RestoreHonest
  BY HonestLocally DEF MachineInv, RestoreHonest
<1> QED BY <1>1, MachineInvariance, PTL

(* Listed versions have objects that hold what they say, a retrieval        *)
(* answers with the content of its version, and the manifest of a free      *)
(* context names what the index lists, after no fault. The index can be     *)
(* read unless it is being written, or a fault came first.                  *)
THEOREM ArtifactsAreExact == MachineSpec => []ArtifactsExact
<1>1. MachineInv => ArtifactsExact
  BY ExactLocally, NamesContentLocally DEF MachineInv, ArtifactsExact
<1> QED BY <1>1, MachineInvariance, PTL

(* Whenever the index can be read, it lists the versions it has ever        *)
(* listed, in the same order: what a publication writes extends what was    *)
(* last written whole, and none comes after an index that was cut off. That *)
(* it can be read after an error or a kill is not claimed, nor is it so:    *)
(* one within the write makes every version unlistable.                     *)
THEOREM VersionsAreKept == MachineSpec => Artifacts!VersionsStay
<1>1. MachineInv /\ [PartsNext]_machineVars =>
        [\A f \in Files : Len(items[f]) <= Len(items'[f])
                          /\ SubSeq(items'[f], 1, Len(items[f])) = items[f]]_(Artifacts!artifactVars)
  <2> SUFFICES ASSUME MachineInv, [PartsNext]_machineVars
               PROVE  \A f \in Files : Len(items[f]) <= Len(items'[f])
                                       /\ SubSeq(items'[f], 1, Len(items[f])) = items[f]
    OBVIOUS
  <2>1. Artifacts!Next \/ UNCHANGED items
    BY DEF PartsNext, machineVars, publishing
  <2> QED BY <2>1, VersionsStayStep DEF MachineInv
<1> QED BY <1>1, MachineInvariance, PTL DEF MachineSpec, Artifacts!VersionsStay

(* No restore changes, removes or doubles a session that the harness has,   *)
(* whatever came up since it looked, or shows one half written where hard   *)
(* links exist. And no index that can be read lacks a version that one      *)
(* listed before it (VersionsAreKept).                                      *)
THEOREM NothingIsReplaced ==
  ASSUME Calm
  PROVE  MachineSpec => NothingReplaced
<1> DEFINE AllKept == \A s \in Sessions, x \in Native!Places : Keeps(s, x)
<1>1. MachineInv /\ [PartsNext]_machineVars => [turns' = turns => AllKept]_(Native!nativeVars)
  <2> SUFFICES ASSUME MachineInv, [PartsNext]_machineVars, turns' = turns PROVE AllKept
    OBVIOUS
  <2>1. Native!Next \/ UNCHANGED native
    BY DEF PartsNext, machineVars, restoring
  <2>2. CASE UNCHANGED native
    BY <2>2 DEF Keeps
  <2> QED BY <2>1, <2>2, NativeKeptStep DEF MachineInv
<1>2. MachineInv /\ [PartsNext]_machineVars =>
        [turns' = turns =>
           \A s \in Sessions, x \in Native!Places :
             native'[s][x] = native[s][x] \/ Native!BeingFilled(s)
             \/ /\ Native!CopiesOf(s) = {} \/ \E p \in Restorers : s \in job[p].touched
                /\ native[s][x] = None
                /\ native'[s][x] = Torn => harness = "claude" \/ ~links]_(Native!nativeVars)
  BY <1>1 DEF Keeps
<1>3. MachineSpec => Native!NativeKept
  BY <1>2, MachineInvariance, PTL DEF MachineSpec, Native!NativeKept
<1> QED BY <1>3, VersionsAreKept DEF NothingReplaced
=============================================================================
