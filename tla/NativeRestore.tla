---------------------------- MODULE NativeRestore ----------------------------
(* Restores of captured sessions into the native state of a harness         *)
(* (internal/localcontext/harness_restore.go, RestoreClaude in store.go).   *)
(* Codex and Pi: a plan that compares every session with the local copies,  *)
(* then files that never replace one. OpenCode: through its own import.     *)
(* Claude: the whole project, where there is none. Meanwhile the harness is *)
(* used, its sessions are captured, and other contexts, clones maybe, are   *)
(* restored into the same state.                                            *)
EXTENDS Naturals, FiniteSets

CONSTANTS
  Contexts, Sessions,
  Restorers,  \* contextctl processes that restore
  Versions,   \* contents of a session
  None,       \* no content, no session
  Torn,       \* a file written in part
  Calm,       \* TRUE: no capture replaces the project that RestoreClaude copies, and
               \* OpenCode sessions are restored by one process at a time
  MaxRestores, MaxTurns, MaxFaults  \* bounds: restores, steps of the harness, faults

Harnesses == {"claude", "codex", "opencode", "pi"}
Contents == Versions \cup {Torn}

VARIABLES
  harness, links,  \* the harness; whether its file system has hard links
  captured,        \* context -> session -> captured content
  native,          \* session -> place -> content
  at, job,         \* the restores: next step, and what they know
  restores, turns, faults

nativeVars == <<harness, links, captured, native, at, job, restores, turns, faults>>
setting == <<harness, links>>
bounds == <<restores, turns, faults>>

(* Where a session may be: "here" is where a restore writes it. Codex names *)
(* its files by local time and a restore by UTC, so that one may be "named" *)
(* otherwise, or "archived". A compressed copy is one that differs.         *)
Live == {"here", "named"}
Places == Live \cup {"archived"}
PlacesOf(h) == IF h = "codex" THEN Places ELSE {"here"}
CopiesOf(s) == {x \in Places : native[s][x] # None}

CapturedIn(c) == {s \in Sessions : captured[c][s] # None}

\* A restore; touched, the sessions the harness used meanwhile, is history.
NoJob == [ctx |-> None, todo |-> {}, session |-> None, found |-> {}, same |-> FALSE,
          plan |-> [s \in Sessions |-> None], restored |-> {}, touched |-> {}]
Planned(p) == {s \in Sessions : job[p].plan[s] # None}
Source(p) == captured[job[p].ctx]

BeingFilled(s) == \E p \in Restorers : at[p] = "fill" /\ job[p].session = s

-----------------------------------------------------------------------------
(* Any captured sessions, from here or elsewhere, and local ones alike.     *)
Init ==
  /\ harness \in Harnesses /\ links \in (IF harness \in {"codex", "pi"} THEN BOOLEAN ELSE {TRUE})
  /\ captured \in [Contexts -> [Sessions -> Versions \cup {None}]]
  /\ native \in [Sessions -> {[x \in Places |-> IF x = y THEN v ELSE None] :
                                y \in PlacesOf(harness), v \in Versions \cup {None}}]
  /\ at = [p \in Restorers |-> "idle"]
  /\ job = [p \in Restorers |-> NoJob]
  /\ restores = MaxRestores /\ turns = MaxTurns /\ faults = MaxFaults

Goto(p, step) == at' = [at EXCEPT ![p] = step]
Know(p, j) == job' = [job EXCEPT ![p] = j]
Ended == {"idle", "done", "refused"}
Holds(p, c) == job[p].ctx = c /\ harness # "claude" /\ at[p] \notin {"idle", "lock"}
LockFree(c) == \A p \in Restorers : ~Holds(p, c)

\* The call returns an error, or the process ends: the lock is released.
Exit(p) == Goto(p, "idle") /\ Know(p, NoJob)
Refuse(p) == Goto(p, "refused") /\ Know(p, [NoJob EXCEPT !.restored = job[p].restored])

Begin(p, c) ==
  /\ at[p] = "idle" /\ restores > 0
  /\ CapturedIn(c) # {}
  /\ (Calm /\ harness = "opencode") => \A q \in Restorers : at[q] = "idle"
  /\ Know(p, [NoJob EXCEPT !.ctx = c])
  /\ Goto(p, IF harness = "claude" THEN "check" ELSE "lock")
  /\ restores' = restores - 1
  /\ UNCHANGED <<setting, captured, native, turns, faults>>

(* The capture lock is held to the end (LocalStore has its steps); that of  *)
(* a killed process is taken over.                                          *)
List(p) ==
  /\ at[p] = "lock" /\ LockFree(job[p].ctx)
  /\ Know(p, [job[p] EXCEPT !.todo = CapturedIn(job[p].ctx)])
  /\ Goto(p, "plan")
  /\ UNCHANGED <<setting, captured, native, bounds>>

LockTimeout(p) ==
  /\ at[p] = "lock" /\ ~LockFree(job[p].ctx)
  /\ Exit(p)
  /\ UNCHANGED <<setting, captured, native, bounds>>

-----------------------------------------------------------------------------
(* The plan of Codex and Pi: the local copies of a session are found, in    *)
(* Codex first the live and then the archived ones, and compared one by one *)
(* with the captured content. A copy gone since it was found does not count.*)
Find(p, s) ==
  /\ at[p] = "plan" /\ harness \in {"codex", "pi"} /\ s \in job[p].todo
  /\ Know(p, [job[p] EXCEPT !.session = s, !.same = FALSE,
                            !.found = IF harness = "pi" THEN {"here"} ELSE Live \cap CopiesOf(s)])
  /\ Goto(p, IF harness = "pi" THEN "compare" ELSE "archive")
  /\ UNCHANGED <<setting, captured, native, bounds>>

FindArchived(p) ==
  /\ at[p] = "archive"
  /\ Know(p, [job[p] EXCEPT !.found = @ \cup ({"archived"} \cap CopiesOf(job[p].session))])
  /\ Goto(p, "compare")
  /\ UNCHANGED <<setting, captured, native, bounds>>

Compare(p, x) ==
  /\ at[p] = "compare" /\ x \in job[p].found
  /\ LET s == job[p].session IN
       IF native[s][x] = None \/ (native[s][x] = Source(p)[s] /\ ~BeingFilled(s))
       THEN /\ Know(p, [job[p] EXCEPT !.found = @ \ {x}, !.same = @ \/ native[s][x] # None])
            /\ UNCHANGED at
       ELSE Refuse(p)
  /\ UNCHANGED <<setting, captured, native, bounds>>

\* Unchanged where a copy is, planned where none is.
Planning(p, s) ==
  [job[p] EXCEPT !.todo = @ \ {s}, !.session = None, !.same = FALSE,
                 !.plan[s] = IF job[p].same THEN None ELSE Source(p)[s]]

Decide(p) ==
  /\ at[p] = "compare" /\ job[p].found = {}
  /\ Know(p, Planning(p, job[p].session))
  /\ Goto(p, "plan")
  /\ UNCHANGED <<setting, captured, native, bounds>>

\* A captured file without a valid record, or a destination not confined to the root.
RefuseFile(p, s) ==
  /\ at[p] = "plan" /\ harness # "claude" /\ s \in job[p].todo
  /\ \/ Source(p)[s] = Torn /\ UNCHANGED faults
     \/ faults > 0 /\ faults' = faults - 1
  /\ Refuse(p)
  /\ UNCHANGED <<setting, captured, native, restores, turns>>

(* The plan of OpenCode: no session may be there, the same one neither.     *)
AskOpenCode(p, s) ==
  /\ at[p] = "plan" /\ harness = "opencode" /\ s \in job[p].todo
  /\ IF CopiesOf(s) = {}
     THEN Know(p, Planning(p, s)) /\ UNCHANGED at
     ELSE Refuse(p)
  /\ UNCHANGED <<setting, captured, native, bounds>>

(* The check of Claude: the directory of the project is empty. Its files    *)
(* are then listed without the lock, and read as they are copied.           *)
CheckProject(p) ==
  /\ at[p] = "check"
  /\ IF \A s \in Sessions : CopiesOf(s) = {}
     THEN /\ Know(p, [job[p] EXCEPT !.plan = Source(p)])
          /\ Goto(p, "plan")
     ELSE Refuse(p)
  /\ UNCHANGED <<setting, captured, native, bounds>>

-----------------------------------------------------------------------------
(* Writing, once the plan is complete: a file appeared since is an error.   *)
Ready(p) == at[p] = "plan" /\ job[p].todo = {}
Written(p, s) == [job[p] EXCEPT !.plan[s] = None, !.session = None, !.restored = @ \cup {s}]

\* Mutant: the temporary is renamed over what is there.
LinkReplacing(p, s) ==
  /\ Ready(p) /\ harness \in {"codex", "pi"} /\ links /\ s \in Planned(p)
  /\ native' = [native EXCEPT ![s]["here"] = job[p].plan[s]]
  /\ Know(p, Written(p, s)) /\ UNCHANGED at
  /\ UNCHANGED <<setting, captured, bounds>>

\* Mutant: a session is written as soon as it is planned.
LinkEarly(p, s) ==
  /\ at[p] = "plan" /\ harness \in {"codex", "pi"} /\ links /\ s \in Planned(p)
  /\ IF native[s]["here"] = None
     THEN /\ native' = [native EXCEPT ![s]["here"] = job[p].plan[s]]
          /\ Know(p, Written(p, s)) /\ UNCHANGED at
     ELSE Exit(p) /\ UNCHANGED native
  /\ UNCHANGED <<setting, captured, bounds>>

\* writeConfinedFile: a whole temporary, linked where no file is.
Link(p, s) ==
  /\ Ready(p) /\ harness \in {"codex", "pi"} /\ links /\ s \in Planned(p)
  /\ IF native[s]["here"] = None
     THEN /\ native' = [native EXCEPT ![s]["here"] = job[p].plan[s]]
          /\ Know(p, Written(p, s)) /\ UNCHANGED at
     ELSE Exit(p) /\ UNCHANGED native
  /\ UNCHANGED <<setting, captured, bounds>>

\* createExclusive where links are not supported, and copyFile for Claude.
Create(p, s) ==
  /\ Ready(p) /\ s \in Planned(p)
  /\ harness = "claude" \/ (harness \in {"codex", "pi"} /\ ~links)
  /\ LET data == IF harness = "claude" THEN Source(p)[s] ELSE job[p].plan[s] IN
       IF native[s]["here"] = None /\ data # None
       THEN /\ native' = [native EXCEPT ![s]["here"] = Torn]
            /\ Know(p, [job[p] EXCEPT !.session = s, !.plan[s] = data])
            /\ Goto(p, "fill")
       ELSE Exit(p) /\ UNCHANGED native
  /\ UNCHANGED <<setting, captured, bounds>>

Fill(p) ==
  /\ at[p] = "fill"
  /\ LET s == job[p].session IN
       /\ native' = [native EXCEPT ![s]["here"] = job[p].plan[s]]
       /\ Know(p, Written(p, s))
  /\ Goto(p, "plan")
  /\ UNCHANGED <<setting, captured, bounds>>

\* A failed write: createExclusive removes its file, copyFile leaves it.
FillFails(p) ==
  /\ at[p] = "fill" /\ faults > 0 /\ faults' = faults - 1
  /\ native' = IF harness = "claude" THEN native
               ELSE [native EXCEPT ![job[p].session]["here"] = None]
  /\ Exit(p)
  /\ UNCHANGED <<setting, captured, restores, turns>>

\* What `opencode import` makes of a session that came up since is its own affair.
Import(p, s) ==
  /\ Ready(p) /\ harness = "opencode" /\ s \in Planned(p)
  /\ native' \in {[native EXCEPT ![s]["here"] = v] : v \in {job[p].plan[s]} \cup
                    (IF CopiesOf(s) = {} THEN {} ELSE {native[s]["here"]})}
  /\ Know(p, Written(p, s)) /\ UNCHANGED at
  /\ UNCHANGED <<setting, captured, bounds>>

Report(p) ==
  /\ Ready(p) /\ Planned(p) = {}
  /\ Goto(p, "done")
  /\ UNCHANGED <<setting, captured, native, job, bounds>>

End(p) ==
  /\ at[p] \in {"done", "refused"}
  /\ Exit(p)
  /\ UNCHANGED <<setting, captured, native, bounds>>

\* A file cannot be read or written, a directory link appears, an import
\* fails, or the process is killed, anywhere: what it has written stays.
Stop(p) ==
  /\ at[p] \notin Ended /\ faults > 0 /\ faults' = faults - 1
  /\ Exit(p)
  /\ UNCHANGED <<setting, captured, native, restores, turns>>

-----------------------------------------------------------------------------
(* The harness and its captures.                                            *)
Turn == turns > 0 /\ turns' = turns - 1 /\ UNCHANGED <<setting, restores, faults>>
Touch(s) ==
  job' = [p \in Restorers |-> IF at[p] = "idle" THEN job[p]
                              ELSE [job[p] EXCEPT !.touched = @ \cup {s}]]

\* A session goes on.
Continue(s, x, v) ==
  /\ native[s][x] \notin {None, v} /\ ~BeingFilled(s)
  /\ native' = [native EXCEPT ![s][x] = v]
  /\ Touch(s) /\ Turn /\ UNCHANGED <<captured, at>>

\* Codex archives a thread or takes it back.
Archive(s, x, y) ==
  /\ harness = "codex" /\ "archived" \in {x, y}
  /\ native[s][x] # None /\ native[s][y] = None /\ ~BeingFilled(s)
  /\ native' = [native EXCEPT ![s][x] = None, ![s][y] = native[s][x]]
  /\ Touch(s) /\ Turn /\ UNCHANGED <<captured, at>>

\* The user deletes a session.
Remove(s, x) ==
  /\ native[s][x] # None /\ ~BeingFilled(s)
  /\ native' = [native EXCEPT ![s][x] = None]
  /\ Touch(s) /\ Turn /\ UNCHANGED <<captured, at>>

\* The lock is free, and a session captured; of Claude the whole project.
Capture(c, s, x) ==
  /\ native[s][x] # None /\ LockFree(c)
  /\ (Calm /\ harness = "claude") => \A p \in Restorers : job[p].ctx # c
  /\ captured' = [captured EXCEPT ![c] = IF harness = "claude"
                                         THEN [r \in Sessions |-> native[r]["here"]]
                                         ELSE [@ EXCEPT ![s] = native[s][x]]]
  /\ Turn /\ UNCHANGED <<native, at, job>>

HarnessStep ==
  \E s \in Sessions, x \in Places :
    \/ \E v \in Versions : Continue(s, x, v)
    \/ \E y \in Places : Archive(s, x, y)
    \/ Remove(s, x)
    \/ \E c \in Contexts : Capture(c, s, x)

RestoreStep(p) ==
  \/ \E c \in Contexts : Begin(p, c)
  \/ List(p) \/ LockTimeout(p) \/ CheckProject(p) \/ FindArchived(p) \/ Decide(p)
  \/ Fill(p) \/ FillFails(p) \/ Report(p) \/ End(p) \/ Stop(p)
  \/ \E s \in Sessions :
       \/ Find(p, s) \/ RefuseFile(p, s) \/ AskOpenCode(p, s)
       \/ Link(p, s) \/ Create(p, s) \/ Import(p, s)
  \/ \E x \in Places : Compare(p, x)

Next == HarnessStep \/ \E p \in Restorers : RestoreStep(p)

Spec == Init /\ [][Next]_nativeVars

-----------------------------------------------------------------------------
TypeOK ==
  /\ harness \in Harnesses /\ links \in BOOLEAN
  /\ captured \in [Contexts -> [Sessions -> Contents \cup {None}]]
  /\ native \in [Sessions -> [Places -> Contents \cup {None}]]
  /\ \A p \in Restorers :
       /\ job[p].ctx \in Contexts \cup {None} /\ job[p].session \in Sessions \cup {None}
       /\ job[p].todo \cup job[p].restored \cup job[p].touched \subseteq Sessions
       /\ job[p].found \subseteq Places /\ job[p].same \in BOOLEAN
       /\ job[p].plan \in [Sessions -> Contents \cup {None}]
  /\ {restores, turns, faults} \subseteq Nat

(* No restore changes or removes a local session, whatever came up since it *)
(* looked ("writes new files without replacing any that appear              *)
(* concurrently", harness_restore.go:195-197), puts a copy beside another,  *)
(* unless the harness moved that one meanwhile, or shows one half written,  *)
(* unless hard links are missing.                                           *)
NativeKept ==
  [][turns' = turns =>
       \A s \in Sessions, x \in Places :
         native'[s][x] = native[s][x] \/ BeingFilled(s)
         \/ /\ CopiesOf(s) = {} \/ \E p \in Restorers : s \in job[p].touched
            /\ native[s][x] = None
            /\ native'[s][x] = Torn => harness = "claude" \/ ~links]_nativeVars

(* What a restore answers is so. Refused: nothing was written, for none of  *)
(* the sessions ("so a refusal leaves local state untouched",               *)
(* docs/harness-attachments.md:67-68). Done: every captured session is      *)
(* there as captured, but those the harness used meanwhile.                 *)
RestoreHonest ==
  \A p \in Restorers :
    /\ at[p] = "refused" => job[p].restored = {}
    /\ at[p] = "done" =>
         \A s \in CapturedIn(job[p].ctx) \ job[p].touched :
           \E x \in Places : native[s][x] = Source(p)[s]
=============================================================================
