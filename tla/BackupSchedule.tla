--------------------------- MODULE BackupSchedule ---------------------------
(* When the backup worker of one local Context runs: the loop of runBackup, *)
(* its interval, the debounce of capture events and the delay after         *)
(* failures (cmd/contextctl/backup.go). Time is counted in polls of the     *)
(* ticker, as what is left and what has passed, never as a date.            *)
EXTENDS Integers

CONSTANTS
  Interval,    \* config.Interval()
  Debounce,    \* config.Debounce()
  RetryBase,   \* 5 seconds
  RetryCap,    \* one minute
  MaxDuration, \* bound: polls an attempt lasts
  MaxIdle      \* bound: the counters of waiting stop here

ASSUME ScheduleAssumption ==
  /\ Interval \in Nat \ {0} /\ Debounce \in Nat
  /\ RetryBase \in Nat \ {0} /\ RetryCap \in Nat \ {0}
  /\ MaxDuration \in Nat /\ MaxIdle \in Nat /\ MaxIdle > Interval + Debounce + 1

VARIABLES
  phase,    \* "wait" for the ticker, "ready" when it ticked meanwhile, "attempt"
  due,      \* polls until next
  failures, \* status.ConsecutiveFailures, of which five are as good as more
  unseen,   \* the trigger file is newer than lastTrigger
  length,   \* polls the attempt has lasted
  idle,     \* history: polls since an attempt ended
  quiet,    \* history: polls since the last event not backed up, or the attempt in its way
  unserved, \* history: an event has come since an attempt began
  seen      \* history: an event was polled since an attempt ended

vars == <<phase, due, failures, unseen, length, idle, quiet, unserved, seen>>

Least(m, n) == IF m <= n THEN m ELSE n
Count(n) == Least(n + 1, MaxIdle)
Less(n) == IF n = 0 THEN 0 ELSE n - 1

\* Mutant: the delay keeps doubling.
RetryUncapped(n) == RetryBase * <<1, 2, 4, 8, 16>>[Least(n, 5)]

\* retryDelay, of at least one failure.
RetryDelay(n) ==
  Least(Interval, Least(RetryCap, RetryBase * <<1, 2, 4, 8, 16>>[Least(n, 5)]))

Pause == IF failures = 0 THEN Interval ELSE RetryDelay(failures)
Pauses == 0..(Interval + Debounce)

TypeOK ==
  /\ phase \in {"wait", "ready", "attempt"}
  /\ due \in Pauses /\ failures \in 0..5 /\ length \in 0..MaxDuration
  /\ idle \in 0..MaxIdle /\ quiet \in 0..MaxIdle
  /\ unseen \in BOOLEAN /\ unserved \in BOOLEAN /\ seen \in BOOLEAN

\* The first attempt is due at once; status.json may remember failures.
Init ==
  /\ phase = "attempt" /\ due = 0 /\ failures \in 0..5 /\ length = 0
  /\ unseen = FALSE /\ idle = 0 /\ quiet = 0 /\ unserved = FALSE /\ seen = FALSE

-----------------------------------------------------------------------------
\* Trigger, after a harness hook captured something.
Event ==
  /\ unseen' = TRUE /\ unserved' = TRUE /\ quiet' = 0
  /\ UNCHANGED <<phase, due, failures, length, idle, seen>>

AttemptLasts ==
  /\ phase = "attempt" /\ length < MaxDuration
  /\ length' = length + 1
  /\ UNCHANGED <<phase, due, failures, unseen, idle, quiet, unserved, seen>>

\* Mutant: a failure leaves next where it was.
AttemptEndsAtOnce(failed) ==
  /\ phase = "attempt"
  /\ failures' = IF failed THEN Least(failures + 1, 5) ELSE 0
  /\ due' = IF failed THEN due ELSE Interval
  /\ phase' = IF length = 0 THEN "wait" ELSE "ready"
  /\ length' = 0 /\ idle' = 0 /\ quiet' = 0 /\ seen' = FALSE
  /\ UNCHANGED <<unseen, unserved>>

\* backupAttempt returns and next is set.
AttemptEnds(failed) ==
  /\ phase = "attempt"
  /\ failures' = IF failed THEN Least(failures + 1, 5) ELSE 0
  /\ due' = IF failed THEN RetryDelay(failures + 1) ELSE Interval
  /\ phase' = IF length = 0 THEN "wait" ELSE "ready"
  /\ length' = 0 /\ idle' = 0 /\ quiet' = 0 /\ seen' = FALSE
  /\ UNCHANGED <<unseen, unserved>>

\* Mutant: an event only ever moves next forward.
DueLater(left) == IF unseen /\ left < Debounce THEN Debounce ELSE left

\* An event replaces next, whatever it was.
DueAfterPoll(left) == IF unseen THEN Debounce ELSE left

\* One turn of the select and the test of next that follows it.
Poll ==
  /\ phase \in {"wait", "ready"}
  /\ LET ticked == phase = "wait"
     IN  /\ due' = DueAfterPoll(IF ticked THEN Less(due) ELSE due)
         /\ idle' = IF ticked THEN Count(idle) ELSE idle
         /\ quiet' = IF ticked /\ unserved THEN Count(quiet) ELSE quiet
  /\ unseen' = FALSE /\ seen' = (seen \/ unseen)
  /\ \/ due' = 0 /\ phase' = "attempt" /\ unserved' = FALSE
     \/ due' > 0 /\ phase' = "wait" /\ UNCHANGED unserved
  /\ UNCHANGED <<failures, length>>

Next == Event \/ AttemptLasts \/ (\E failed \in BOOLEAN : AttemptEnds(failed)) \/ Poll

Spec == Init /\ [][Next]_vars

-----------------------------------------------------------------------------
(* Properties.                                                              *)

(* A capture event that is the last for a while is followed by an attempt   *)
(* within the debounce and one poll, of the event or of the attempt that    *)
(* was in its way; a retry or the interval never puts it off.               *)
EventsServed == phase # "attempt" /\ unserved => quiet <= Debounce

(* With no event polled the worker waits exactly the interval after a       *)
(* success and the retry delay after failures: it neither hammers a target  *)
(* that fails nor misses a periodic scan.                                   *)
ScheduleKept == phase # "attempt" /\ ~seen => idle + due = Pause
=============================================================================
