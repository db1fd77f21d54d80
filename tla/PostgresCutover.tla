---------------------------- MODULE PostgresCutover ----------------------------
(***************************************************************************)
(* cutover_postgres --execute: writers stop, a frozen backup is copied to  *)
(* the operator's PC, the database is restored on a new volume, and the    *)
(* old volume is never served again once the new one may have writes.      *)
(* Every call may fail, and the program may be killed, at every step. The  *)
(* volumes hold sets of numbered writes.                                   *)
(***************************************************************************)
EXTENDS Backups

CONSTANTS
    Job, Legacy, Replacement,   \* Timescale's jobs; 2 is replaced by 3
    MaxAttempts,    \* bound: runs with --execute
    MaxWrites       \* bound: writes, of the application and of the jobs

ASSUME CutoverAssumption ==
    /\ {Legacy, Replacement} \subseteq Job /\ Legacy # Replacement
    /\ MaxAttempts \in Nat /\ MaxWrites \in Nat /\ MaxBackups # 0
    /\ \A S \in SUBSET (1..MaxWrites) : S # None
    /\ None # "passed"

Volume == {"old", "new"}
Write == 1..MaxWrites

VARIABLES
    step,       \* of the run under way
    web,        \* taxi-web: stopped, on the private network, or exposed
    tasks,      \* do taxi-worker and taxi-beat run
    served,     \* the volume taxi-postgres serves
    data,       \* writes each volume holds; None before the volume is made
    jobs,       \* Timescale's jobs in each: scheduled, paused, absent
    running,    \* jobs that run now
    run,        \* what the run remembers: its flags, files and job states
    outcome,    \* what the last run printed
    attempts,
    chosen,     \* history: the job states before any run
    abandoned,  \* history: a run ended without putting back what it stopped
    content,    \* history: writes in each archive
    byApp       \* history: writes of the application

services == <<web, tasks, served>>
database == <<data, jobs, running, byApp>>
history == <<chosen, abandoned, content>>
cutover == <<step, run, outcome, attempts>>
vars == <<backupVars, services, database, history, cutover>>

Forward == {"stop tasks", "stop web", "backup", "receipt", "pause", "finish jobs",
            "rehearse", "volume", "database", "verify", "private web", "inspect", "commit",
            "resume", "expose", "start tasks"}
Rollback == {"undo web", "undo database", "undo jobs", "undo services"}
JobState == [Job -> {"scheduled", "paused", "absent"}]

Run == [committed : BOOLEAN, attempted : BOOLEAN, fresh : Archive \cup {None},
        original : JobState, dump : SUBSET Write]

NewRun == [committed |-> FALSE, attempted |-> FALSE, fresh |-> None,
           original |-> jobs["old"], dump |-> {}]

CutoverTypeOK ==
    /\ step \in {"idle", "failed"} \cup Forward \cup Rollback
    /\ web \in {"stopped", "private", "exposed"}
    /\ tasks \in BOOLEAN
    /\ served \in Volume
    /\ data \in [Volume -> (SUBSET Write) \cup {None}]
    /\ jobs \in [Volume -> JobState]
    /\ running \subseteq {j \in Job : jobs[served][j] # "absent"}
    /\ web = "private" => served = "new"
    /\ run \in Run
    /\ outcome \in {None, "passed", "aborted", "review", "died"}
    /\ attempts \in 0..MaxAttempts
    /\ chosen \in JobState /\ abandoned \in BOOLEAN
    /\ content \in [Archive -> SUBSET Write] /\ byApp \subseteq Write

TypeOK == BackupsTypeOK /\ CutoverTypeOK

\* The backup that was reviewed is there, its receipt too.
Init ==
    /\ now = 0 /\ faults = 0 /\ pulling = None
    /\ backup = [a \in Archive |-> IF a = 1 THEN "done" ELSE "idle"]
    /\ \E size \in Sizes :
        archive = [a \in Archive |->
                    IF a = 1 THEN [at |-> 0, whole |-> TRUE, size |-> size] ELSE None]
    /\ sidecar = [a \in Archive |-> IF a = 1 THEN [at |-> 0, whole |-> TRUE] ELSE None]
    /\ receipt = [a \in Archive |-> IF a = 1 THEN [at |-> 0, frozen |-> FALSE] ELSE None]
    /\ copies = {1} /\ proofs = {1}
    /\ step = "idle" /\ outcome = None /\ attempts = 0
    /\ web = "exposed" /\ tasks = TRUE /\ served = "old"
    /\ data = [v \in Volume |-> IF v = "old" THEN {} ELSE None]
    /\ chosen \in {s \in JobState : \A j \in Job :
                        s[j] = "absent" <=> j = Replacement}
    /\ jobs = [v \in Volume |-> IF v = "old" THEN chosen
                                ELSE [j \in Job |-> "absent"]]
    /\ running = {}
    /\ run = NewRun
    /\ abandoned = FALSE
    /\ content = [a \in Archive |-> {}] /\ byApp = {}

-------------------------------------------------------------------------------
(* Writers *)

At(s) == step = s

Written == data["old"] \cup (IF data["new"] = None THEN {} ELSE data["new"])
NewWrite == Min(Write \ Written)

Writes(w) ==
    /\ Written # Write
    /\ data' = [data EXCEPT ![served] = @ \cup {w}]

AppWrites ==
    /\ web = "exposed" \/ tasks
    /\ Writes(NewWrite)
    /\ byApp' = byApp \cup {NewWrite}
    /\ UNCHANGED <<backupVars, services, jobs, running, history, cutover>>

JobStarts(j) ==
    /\ jobs[served][j] = "scheduled" /\ j \notin running
    /\ running' = running \cup {j}
    /\ UNCHANGED <<backupVars, services, data, jobs, byApp, history, cutover>>

\* A job writes as it ends.
JobEnds(j) ==
    /\ j \in running
    /\ running' = running \ {j}
    /\ Writes(NewWrite) \/ UNCHANGED data
    /\ UNCHANGED <<backupVars, services, jobs, byApp, history, cutover>>

\* The PC is told FROZEN_BACKUP_READY. Bound: it is quiet otherwise (Backups).
PCIsAsked == At("receipt")

PCPulls ==
    /\ PCIsAsked
    /\ PullGoesOn \/ PullIsInterrupted \/ PullBegins(run.fresh)
    /\ UNCHANGED <<services, database, history, cutover>>

BackupRuns(a) ==
    /\ BackupGoesOn(a)
    /\ UNCHANGED <<services, database, history, cutover>>

BackupStops(a) ==
    /\ BackupDies(a)
    /\ UNCHANGED <<services, database, history, cutover>>

Running == web # "stopped" \/ tasks

Publish(a, frozen) ==
    /\ PCIsAsked
    /\ frozen => ~Running
    /\ PublishReceipt(a, frozen)
    /\ UNCHANGED <<services, database, history, cutover>>

-------------------------------------------------------------------------------
(* The run *)

Goes(s) == step' = s
Keeps == UNCHANGED <<backupVars, chosen, abandoned, attempts, outcome>>

\* Less than an hour old, both.
HasReceipt(a) == receipt[a] # None /\ receipt[a].at = now
IsReviewed(a) == IsPaired(a) /\ archive[a].at = now /\ HasReceipt(a)

Precheck ==
    /\ At("idle") /\ attempts < MaxAttempts
    /\ served = "old" /\ data["new"] = None
    /\ \E a \in Archive : IsReviewed(a)
    /\ Goes("stop tasks")
    /\ run' = NewRun
    /\ outcome' = None /\ attempts' = attempts + 1
    /\ UNCHANGED <<backupVars, services, database, history>>

StopTasks ==
    /\ At("stop tasks") /\ Goes("stop web")
    /\ tasks' = FALSE
    /\ Keeps /\ UNCHANGED <<web, served, database, content, run>>

StopWeb ==
    /\ At("stop web") /\ Goes("backup")
    /\ web' = "stopped"
    /\ Keeps /\ UNCHANGED <<tasks, served, database, content, run>>

FrozenBackup(a) ==
    /\ At("backup") /\ run.fresh = None
    /\ BackupBegins(a)
    /\ content' = [content EXCEPT ![a] = data[served]]
    /\ run' = [run EXCEPT !.fresh = a]
    /\ UNCHANGED <<services, database, chosen, abandoned, step, outcome, attempts>>

BackupIsMade ==
    /\ At("backup") /\ run.fresh # None
    /\ backup[run.fresh] = "done"
    /\ Goes("receipt")
    /\ Keeps /\ UNCHANGED <<services, database, content, run>>

\* Mutant: a receipt of another archive will do.
HasFrozenReceiptOfAny(a) == \E b \in Archive : HasReceipt(b)

HasFrozenReceipt(a) == IsReviewed(a) /\ receipt[a].frozen

ReceiptArrives ==
    /\ At("receipt") /\ HasFrozenReceipt(run.fresh)
    /\ Goes("pause")
    /\ Keeps /\ UNCHANGED <<services, database, content, run>>

Scheduled(v) == {j \in Job : jobs[v][j] = "scheduled"}

\* wait_no_jobs
JobsHaveFinished == running = {}

PauseJob(j) ==
    /\ At("pause") /\ j \in Scheduled("old")
    /\ jobs' = [jobs EXCEPT !["old"][j] = "paused"]
    /\ Keeps /\ UNCHANGED <<services, data, running, byApp, content, step, run>>

JobsArePaused ==
    /\ \/ At("pause") /\ Scheduled("old") = {} /\ Goes("finish jobs")
       \/ At("finish jobs") /\ JobsHaveFinished /\ Goes("rehearse")
    /\ Keeps /\ UNCHANGED <<services, database, content, run>>

\* test_postgres_upgrade restores a dump on clones and compares each with it.
Rehearse ==
    /\ At("rehearse") /\ Goes("volume")
    /\ run' = [run EXCEPT !.dump = data["old"]]
    /\ Keeps /\ UNCHANGED <<services, database, content>>

Successor(j) == IF j = Legacy THEN Replacement ELSE j

\* Mutant: job 3 is not known to replace job 2.
DesiredById(original) ==
    [j \in Job |-> CASE j = Legacy -> "absent"
                     [] j = Replacement -> "paused"
                     [] OTHER -> original[j]]

\* desired_job_state
Desired(original) ==
    [j \in Job |-> IF \E i \in Job : Successor(i) = j /\ original[i] # "absent"
                   THEN original[CHOOSE i \in Job : /\ Successor(i) = j
                                                    /\ original[i] # "absent"]
                   ELSE "absent"]

\* The clone, whose authentication was tried, has its jobs paused.
CloneJobs(original) ==
    [j \in Job |-> IF Desired(original)[j] = "absent" THEN "absent" ELSE "paused"]

MakeVolume ==
    /\ At("volume") /\ data["new"] = None
    /\ data' = [data EXCEPT !["new"] = {}]
    /\ Keeps /\ UNCHANGED <<services, jobs, running, byApp, content, step, run>>

FillVolume ==
    /\ At("volume") /\ data["new"] # None
    /\ Goes("database")
    /\ data' = [data EXCEPT !["new"] = run.dump]
    /\ jobs' = [jobs EXCEPT !["new"] = CloneJobs(run.original)]
    /\ Keeps /\ UNCHANGED <<services, running, byApp, content, run>>

StartDatabase ==
    /\ At("database") /\ Goes("verify")
    /\ served' = "new" /\ running' = {}
    /\ Keeps /\ UNCHANGED <<web, tasks, data, jobs, byApp, content, run>>

\* The evidence is the source's.
VerifyDatabase ==
    /\ At("verify") /\ Goes("private web")
    /\ data["new"] = run.dump
    /\ run' = [run EXCEPT !.attempted = TRUE]
    /\ Keeps /\ UNCHANGED <<services, database, content>>

\* Nothing but an override keeps the web off the site's network.
StartPrivateWeb ==
    /\ At("private web") /\ Goes("inspect")
    /\ web' \in {"private", "exposed"}
    /\ Keeps /\ UNCHANGED <<tasks, served, database, content, run>>

InspectWeb ==
    /\ At("inspect")
    /\ IF web = "exposed"
       THEN Goes("failed") /\ run' = [run EXCEPT !.committed = TRUE]
       ELSE Goes("commit") /\ UNCHANGED run
    /\ Keeps /\ UNCHANGED <<services, database, content>>

Commit ==
    /\ At("commit") /\ Goes("resume")
    /\ run' = [run EXCEPT !.committed = TRUE]
    /\ Keeps /\ UNCHANGED <<services, database, content>>

\* set_jobs, one call for each
SetJob(v, wanted, j) ==
    /\ jobs[v][j] # wanted[j]
    /\ jobs' = [jobs EXCEPT ![v][j] = wanted[j]]
    /\ Keeps /\ UNCHANGED <<services, data, running, byApp, content, step, run>>

ResumeJob(j) == At("resume") /\ SetJob("new", Desired(run.original), j)

JobsAreResumed ==
    /\ At("resume") /\ jobs["new"] = Desired(run.original)
    /\ Goes("expose")
    /\ Keeps /\ UNCHANGED <<services, database, content, run>>

Expose ==
    /\ At("expose") /\ Goes("start tasks")
    /\ web' = "exposed"
    /\ Keeps /\ UNCHANGED <<tasks, served, database, content, run>>

Ends(what) == Goes("idle") /\ outcome' = what

StartTasks ==
    /\ At("start tasks") /\ Ends("passed")
    /\ tasks' = TRUE
    /\ UNCHANGED <<backupVars, web, served, database, history, run, attempts>>

-------------------------------------------------------------------------------
(* Failures *)

\* A call raises, before its effect or after it: the effect is a step of its own.
CallFails ==
    /\ step \in Forward
    /\ Fault
    /\ Goes("failed")
    /\ UNCHANGED <<now, server, pc, services, database, history, run, outcome,
                   attempts>>

\* Mutant: waits for the PC without a deadline.
WaitsTooLongForJobs == At("finish jobs") /\ ~JobsHaveFinished

WaitsTooLong == At("receipt") \/ (At("finish jobs") /\ ~JobsHaveFinished)

\* No backup was made, or a wait ends.
GivesUp ==
    /\ \/ At("backup") /\ run.fresh # None /\ backup[run.fresh] = "died"
       \/ At("backup") /\ run.fresh = None /\ \A a \in Archive : backup[a] # "idle"
       \/ WaitsTooLong
    /\ Goes("failed")
    /\ Keeps /\ UNCHANGED <<services, database, content, run>>

\* Mutant: only the flag, which is set after the network is inspected.
MayRevertByFlag(exposed) == ~run.committed

MayRevert(exposed) == ~run.committed /\ (run.attempted => ~exposed)

\* An inspection that fails counts as an exposure.
Decide ==
    /\ At("failed")
    /\ \/ MayRevert(web = "exposed") /\ Goes("undo web") /\ UNCHANGED <<outcome, faults>>
       \/ ~MayRevert(web = "exposed") /\ Ends("review") /\ UNCHANGED faults
       \/ run.attempted /\ ~run.committed /\ Ends("review") /\ Fault
    /\ UNCHANGED <<now, server, pc, services, database, history, run, attempts>>

UndoWeb ==
    /\ At("undo web") /\ Goes("undo database")
    /\ web' = "stopped"
    /\ Keeps /\ UNCHANGED <<tasks, served, database, content, run>>

UndoDatabase ==
    /\ At("undo database") /\ Goes("undo jobs")
    /\ served' = "old" /\ running' = {}
    /\ Keeps /\ UNCHANGED <<web, tasks, data, jobs, byApp, content, run>>

UndoJob(j) == At("undo jobs") /\ SetJob("old", run.original, j)

JobsAreUndone ==
    /\ At("undo jobs") /\ jobs["old"] = run.original
    /\ Goes("undo services")
    /\ Keeps /\ UNCHANGED <<services, database, content, run>>

UndoServices ==
    /\ At("undo services") /\ Ends("aborted")
    /\ web' = "exposed" /\ tasks' = TRUE
    /\ UNCHANGED <<backupVars, served, database, history, run, attempts>>

\* Killed, or a second failure: an inspection that times out, a rollback.
Dies ==
    /\ ~At("idle")
    /\ Fault
    /\ Ends("died")
    /\ abandoned' = TRUE
    /\ UNCHANGED <<now, server, pc, services, database, chosen, content, run,
                   attempts>>

GoesOn ==
    \/ StopTasks \/ StopWeb \/ BackupIsMade \/ ReceiptArrives \/ JobsArePaused
    \/ \E a \in Archive : FrozenBackup(a)
    \/ \E j \in Job : PauseJob(j) \/ ResumeJob(j) \/ UndoJob(j)
    \/ Rehearse \/ MakeVolume \/ FillVolume \/ StartDatabase \/ VerifyDatabase
    \/ StartPrivateWeb \/ InspectWeb \/ Commit
    \/ JobsAreResumed \/ Expose \/ StartTasks
    \/ GivesUp \/ Decide
    \/ UndoWeb \/ UndoDatabase \/ JobsAreUndone \/ UndoServices

Next ==
    \/ AppWrites
    \/ \E j \in Job : JobStarts(j) \/ JobEnds(j)
    \/ \E a \in Archive : BackupRuns(a) \/ BackupStops(a)
    \/ PCPulls
    \/ \E a \in Archive, frozen \in BOOLEAN : Publish(a, frozen)
    \/ Precheck \/ GoesOn \/ CallFails \/ Dies

Spec == Init /\ [][Next]_vars

\* The programs go on until they end.
FairSpec ==
    /\ Spec
    /\ WF_vars(GoesOn)
    /\ WF_vars(\E a \in Archive : BackupRuns(a))

-------------------------------------------------------------------------------
(* Properties *)

\* "Never automatically revert to the old volume after it, even if a later
\* step fails." The volume that is served holds every write made so far, by the
\* application or by a job, on whichever volume it was made.
NoWriteIsLost == data[served] # None /\ Written \subseteq data[served]

\* While the new volume is prepared, and until it is exposed, the PC holds an
\* archive with every write of the application: losing the server loses nothing.
FrozenCopyIsComplete ==
    step \in {"pause", "finish jobs", "rehearse", "volume", "database", "verify",
              "private web", "inspect", "commit"} /\ web # "exposed"
    => /\ run.fresh \in copies \cap proofs
       /\ byApp \subseteq content[run.fresh]

\* A run that passed or was rolled back leaves every job as it was before, a
\* replaced one by its successor, unless an earlier run was abandoned: the next
\* one then takes the paused jobs for the original ones.
JobsAsChosen ==
    step = "idle" /\ outcome \in {"passed", "aborted"} /\ ~abandoned
    => \A j \in Job : chosen[j] # "absent"
            => jobs[served][IF served = "new" THEN Successor(j) ELSE j] = chosen[j]

\* A stopped web is exposed again, on one volume or the other, unless the run
\* died or ended in a review.
ServiceComesBack ==
    web = "stopped" ~> web = "exposed" \/ abandoned \/ outcome = "review"
===============================================================================
