-------------------------- MODULE PostgresCutoverProofs --------------------------
(***************************************************************************)
(* Theorems about Backups, for any number of archives and any interruption *)
(* of a backup or of a pull, and about PostgresCutover, which composes it, *)
(* for any number of failures, of runs, of writes and of jobs.             *)
(***************************************************************************)
EXTENDS PostgresCutover, TLAPS, WellFoundedInduction

(***************************************************************************)
(* The archives and the PC, without a cutover.                             *)
(***************************************************************************)

USE BackupsAssumption

\* What a pull does not have to transfer is already on the PC.
KeepsOrTransfers ==
    pulling # None => pulling.rows \ pulling.transfer \subseteq copies

BackupsInv == BackupsTypeOK /\ KeepsOrTransfers /\ ReceiptsAreTrue

\* A server without archives, and a PC without copies, satisfy it.
LEMMA BackupsInvInit == BackupsInit => BackupsInv
<1> SUFFICES ASSUME BackupsInit PROVE BackupsInv
  OBVIOUS
<1>1. BackupsTypeOK
  BY DEF BackupsInit, BackupsTypeOK, Time
<1>2. KeepsOrTransfers /\ ReceiptsAreTrue
  BY DEF BackupsInit, KeepsOrTransfers, ReceiptsAreTrue
<1> QED
  BY <1>1, <1>2 DEF BackupsInv

\* The server's own steps touch neither the PC nor a receipt, but to remove it.
LEMMA ServerStep ==
    ASSUME BackupsInv, NEW a \in Archive, BackupBegins(a) \/ BackupGoesOn(a) \/ BackupDies(a)
    PROVE  BackupsInv'
<1> USE DEF BackupsInv, BackupsTypeOK
<1>0. \A at \in Time, whole \in BOOLEAN : [at |-> at, whole |-> whole] \in File
  BY DEF File
<1>f. \A at \in Time, whole \in BOOLEAN : \A size \in Sizes \cup {0} :
        [at |-> at, whole |-> whole, size |-> size] \in ArchiveFile
  BY DEF ArchiveFile
<1>1. UNCHANGED pc
  BY DEF BackupBegins, BackupGoesOn, Encrypted, WriteProof, Unlink, BackupEnds, BackupDies
<1>2. KeepsOrTransfers'
  BY <1>1 DEF KeepsOrTransfers, pc
<1>3. /\ receipt' \in [Archive -> [at : Time, frozen : BOOLEAN] \cup {None}]
      /\ \A b \in Archive : receipt'[b] \in {receipt[b], None}
  BY DEF BackupBegins, BackupGoesOn, Encrypted, WriteProof, Unlink, BackupEnds, BackupDies
<1>4. ReceiptsAreTrue'
  BY <1>1, <1>3 DEF ReceiptsAreTrue, pc
<1>5. BackupsTypeOK'
  <2>1. now' = now /\ faults' \in 0..MaxFaults
    BY DEF BackupBegins, BackupGoesOn, Encrypted, WriteProof, Unlink, BackupEnds, BackupDies, Fault
  <2>2. backup' \in [Archive -> {"idle", "encrypt", "prove", "rotate", "done", "died"}]
    BY DEF BackupBegins, BackupGoesOn, Encrypted, WriteProof, Unlink, BackupEnds, BackupDies
  <2>3. archive' \in [Archive -> ArchiveFile \cup {None}]
    <3>1. CASE BackupBegins(a) \/ Encrypted(a)
      <4>1. PICK whole \in BOOLEAN, size \in Sizes \cup {0} :
              archive' = [archive EXCEPT ![a] = [at |-> now, whole |-> whole, size |-> size]]
        BY <3>1 DEF BackupBegins, Encrypted
      <4> QED
        BY <1>f, <4>1
    <3>2. CASE WriteProof(a) \/ BackupEnds(a) \/ BackupDies(a)
      BY <3>2 DEF WriteProof, BackupEnds, BackupDies
    <3>3. CASE Unlink(a)
      BY <3>3 DEF Unlink
    <3> QED
      BY <3>1, <3>2, <3>3 DEF BackupGoesOn
  <2>4. sidecar' \in [Archive -> File \cup {None}]
    <3>1. CASE BackupBegins(a) \/ Encrypted(a)
      BY <3>1 DEF BackupBegins, Encrypted
    <3>2. CASE BackupEnds(a) \/ BackupDies(a)
      BY <1>0, <3>2 DEF BackupEnds, BackupDies
    <3>3. CASE WriteProof(a)
      BY <1>0, <3>3 DEF WriteProof
    <3>4. CASE Unlink(a)
      BY <3>4 DEF Unlink
    <3> QED
      BY <3>1, <3>2, <3>3, <3>4 DEF BackupGoesOn
  <2> QED
    BY <1>1, <1>3, <2>1, <2>2, <2>3, <2>4 DEF pc
<1> QED
  BY <1>2, <1>4, <1>5

\* A pull adds to the PC only, and an archive before its proof.
LEMMA PullStep ==
    ASSUME BackupsInv, PullBeginsOnce \/ PullGoesOn \/ PullIsInterrupted
    PROVE  BackupsInv'
<1> USE DEF BackupsInv
<1>0. ASSUME pulling # None PROVE pulling \in Pull
  BY <1>0 DEF BackupsTypeOK
<1>1. CASE PullBeginsOnce
  <2> PICK wanted \in Archive \cup {None} : PullBegins(wanted)
    BY <1>1 DEF PullBeginsOnce
  <2>1. pulling' \in Pull
    BY DEF PullBegins, Pull, Rows, ToTransfer
  <2>2. BackupsTypeOK'
    BY <2>1 DEF PullBegins, BackupsTypeOK, server
  <2>3. KeepsOrTransfers'
    BY DEF PullBegins, KeepsOrTransfers, ToTransfer, Known
  <2> QED
    BY <2>2, <2>3 DEF PullBegins, ReceiptsAreTrue, server
<1>2. ASSUME NEW a \in Archive, ReceiveArchive(a)
      PROVE  BackupsInv'
  <2>1. pulling \in Pull
    BY <1>0, <1>2 DEF ReceiveArchive, NextRow
  <2>2. pulling' \in Pull
    BY <1>2, <2>1 DEF ReceiveArchive, Pull
  <2>3. BackupsTypeOK'
    BY <1>2, <2>2 DEF ReceiveArchive, BackupsTypeOK, server
  <2>4. KeepsOrTransfers'
    BY <1>2, <2>1 DEF ReceiveArchive, NextRow, KeepsOrTransfers, Pull
  <2> QED
    BY <1>2, <2>3, <2>4 DEF ReceiveArchive, ReceiptsAreTrue, server
<1>3. ASSUME NEW a \in Archive, ReceiveProof(a)
      PROVE  BackupsInv'
  <2>1. pulling \in Pull
    BY <1>0, <1>3 DEF ReceiveProof, NextRow
  <2>2. pulling' \in Pull
    BY <1>3, <2>1 DEF ReceiveProof, Pull
  <2>3. a \in copies
    BY <1>3 DEF ReceiveProof, NextRow, KeepsOrTransfers
  <2>4. BackupsTypeOK'
    BY <1>3, <2>2, <2>3 DEF ReceiveProof, BackupsTypeOK, server
  <2>5. KeepsOrTransfers'
    BY <1>3, <2>1 DEF ReceiveProof, NextRow, KeepsOrTransfers, Pull
  <2> QED
    BY <1>3, <2>4, <2>5 DEF ReceiveProof, ReceiptsAreTrue, server
<1>4. ASSUME PullRaises \/ PullEnds \/ ReceiptIsRefused \/ PullIsInterrupted
      PROVE  BackupsInv'
  <2>1. pulling' = None /\ UNCHANGED <<now, server, copies, proofs>> /\ faults' \in 0..MaxFaults
    BY <1>4 DEF PullRaises, PullEnds, ReceiptIsRefused, PullIsInterrupted, Fault, BackupsTypeOK
  <2> QED
    BY <2>1 DEF BackupsTypeOK, KeepsOrTransfers, ReceiptsAreTrue, server
<1> QED
  BY <1>1, <1>2, <1>3, <1>4 DEF PullGoesOn

\* A receipt is published for what was verified.
LEMMA PublishStep ==
    ASSUME BackupsInv, NEW a \in Archive, NEW frozen \in BOOLEAN, PublishReceipt(a, frozen)
    PROVE  BackupsInv'
<1> USE DEF BackupsInv
<1>1. [at |-> now, frozen |-> frozen] \in [at : Time, frozen : BOOLEAN]
  BY DEF BackupsTypeOK
<1>2. BackupsTypeOK'
  BY <1>1 DEF PublishReceipt, BackupsTypeOK
<1>3. ReceiptsAreTrue'
  BY DEF PublishReceipt, CopyIsVerified, ReceiptsAreTrue, BackupsTypeOK
<1> QED
  BY <1>2, <1>3 DEF PublishReceipt, KeepsOrTransfers

\* Every step of the server or of the PC, and every interruption, keeps it.
LEMMA BackupsInvStep == BackupsInv /\ [BackupsNext]_backupVars => BackupsInv'
<1> SUFFICES ASSUME BackupsInv, [BackupsNext]_backupVars PROVE BackupsInv'
  OBVIOUS
<1>1. CASE Tick
  <2>1. now' \in Time
    BY <1>1 DEF Tick, BackupsInv, BackupsTypeOK, Time
  <2> QED
    BY <1>1, <2>1 DEF Tick, BackupsInv, BackupsTypeOK, KeepsOrTransfers, ReceiptsAreTrue,
           server, pc
<1>2. ASSUME NEW a \in Archive, DailyBackup(a) \/ BackupGoesOn(a) \/ BackupDies(a)
      PROVE  BackupsInv'
  BY <1>2, ServerStep DEF DailyBackup
<1>3. CASE UNCHANGED backupVars
  BY <1>3 DEF backupVars, BackupsInv, BackupsTypeOK, KeepsOrTransfers, ReceiptsAreTrue,
         server, pc
<1> QED
  BY <1>1, <1>2, <1>3, PullStep, PublishStep DEF BackupsNext

\* The invariant the two results below are read from.
THEOREM BackupsInvHolds == BackupsSpec => []BackupsInv
BY BackupsInvInit, BackupsInvStep, PTL DEF BackupsSpec

\* Types hold; in particular the PC holds no proof without its archive, which
\* is what copy_backup relies on after a pull.
THEOREM BackupsTypeCorrect == BackupsSpec => []BackupsTypeOK
<1>1. BackupsInv => BackupsTypeOK
  BY DEF BackupsInv
<1> QED
  BY <1>1, BackupsInvHolds, PTL

\* A receipt on the server always stands for a copy and a proof on the PC.
THEOREM ReceiptsCorrect == BackupsSpec => []ReceiptsAreTrue
<1>1. BackupsInv => ReceiptsAreTrue
  BY DEF BackupsInv
<1> QED
  BY <1>1, BackupsInvHolds, PTL

HIDE BackupsAssumption

(***************************************************************************)
(* The cutover.                                                            *)
(***************************************************************************)

Preparing == {"backup", "receipt", "pause", "finish jobs", "rehearse", "volume", "database"}
Unexposed == {"verify", "private web", "inspect", "commit"}
Committed == {"resume", "expose", "start tasks"}

\* What the step of the run tells of its flags and of the services.
StepsInOrder ==
    /\ step \in {"stop tasks", "stop web"} \cup Preparing
       => served = "old" /\ ~run.attempted /\ ~run.committed
    /\ step \in {"stop web"} \cup Preparing \cup Unexposed => ~tasks
    /\ step \in Preparing \cup {"verify", "private web"} => web = "stopped"
    /\ step \in Unexposed \cup Committed => served = "new"
    /\ step \in {"private web", "inspect", "commit"} \cup Committed => run.attempted
    /\ step \in Committed => run.committed
    /\ step = "inspect" => web # "stopped"
    /\ step = "commit" => web = "private"
    /\ step = "failed" /\ (run.attempted \/ run.committed) => served = "new"
    /\ served = "new" /\ ~run.attempted => web = "stopped"
    /\ step = "undo web" /\ served = "new" => web # "exposed"
    /\ step \in {"undo web", "undo database"} => ~run.committed
    /\ step \in {"undo database", "undo jobs", "undo services"} => web = "stopped"
    /\ step \in {"undo jobs", "undo services"} => served = "old"

\* Nothing but the application and the jobs writes, and both rest.
AtRest ==
    /\ step \in {"finish jobs", "rehearse", "volume", "database"} => Scheduled("old") = {}
    /\ step \in {"rehearse", "volume", "database"} => running = {}
    /\ step = "database" => Scheduled("new") = {}
    /\ served = "new" /\ web # "exposed" /\ ~run.committed
       => ~tasks /\ running = {} /\ Scheduled("new") = {}

\* The new volume is behind the old one until it is served, level with it until
\* it is exposed, and ahead of it afterwards.
VolumesInStep ==
    /\ data["old"] # None /\ run.dump \subseteq data["old"]
    /\ data["new"] # None /\ served = "old" => data["new"] \subseteq data["old"]
    /\ served = "new" => data["new"] # None /\ data["old"] \subseteq data["new"]
    /\ step \in {"volume", "database"} => data["old"] = run.dump
    /\ step = "database" => data["new"] = run.dump
    /\ served = "new" /\ web # "exposed" /\ ~run.committed
       => data["new"] \subseteq data["old"]

\* A job is absent where its upgrade made it so.
JobsAreKnown ==
    /\ \A j \in Job : jobs["old"][j] = "absent" <=> run.original[j] = "absent"
    /\ step \in {"database", "resume"} \cup Unexposed
       => \A j \in Job : jobs["new"][j] = "absent" <=> Desired(run.original)[j] = "absent"

\* The job states go through the run as they were before any.
JobsAreKept ==
    /\ chosen[Replacement] = "absent"
    /\ ~abandoned /\ step # "idle" => run.original = chosen
    /\ ~abandoned /\ step = "idle" /\ served = "old" => jobs["old"] = chosen
    /\ step = "undo services" => jobs["old"] = run.original
    /\ step \in {"expose", "start tasks"} => jobs["new"] = Desired(run.original)
    /\ step = "idle" /\ outcome = "aborted" => served = "old"
    /\ step = "idle" /\ outcome = "passed" /\ ~abandoned
       => served = "new" /\ jobs["new"] = Desired(chosen)

\* The frozen archive holds what the application wrote, then the PC holds it.
CopyIsFrozen ==
    /\ byApp \subseteq data[served]
    /\ step \in {"stop tasks", "stop web"} => run.fresh = None
    /\ step = "backup" /\ run.fresh # None => byApp \subseteq content[run.fresh]
    /\ step \in (Preparing \ {"backup"}) \cup Unexposed /\ web # "exposed"
       => run.fresh \in Archive /\ byApp \subseteq content[run.fresh]
    /\ step \in (Preparing \ {"backup", "receipt"}) \cup Unexposed
       => run.fresh \in copies \cap proofs

Inv ==
    /\ CutoverTypeOK /\ BackupsInv
    /\ StepsInOrder /\ AtRest /\ VolumesInStep
    /\ JobsAreKnown /\ JobsAreKept /\ CopyIsFrozen

-------------------------------------------------------------------------------
(* Writes *)

\* The least number of a set of numbers is one of them.
LEMMA MinIsIn ==
    ASSUME NEW S \in SUBSET Nat, S # {}
    PROVE  Min(S) \in S
<1>1. \E x \in S : \A y \in S : ~ (<<y, x>> \in OpToRel(<, Nat))
  <2>1. S \subseteq Nat
    OBVIOUS
  <2> HIDE DEF OpToRel
  <2> QED
    BY <2>1, WFMin, NatLessThanWellFounded, Zenon
<1>2. \A x, y \in S : x < y => <<x, y>> \in OpToRel(<, Nat)
  BY DEF OpToRel
<1>3. \E x \in S : \A y \in S : x <= y
  <2>1. PICK x \in S : \A y \in S : ~ (y < x)
    BY <1>1, <1>2
  <2>2. \A y \in S : x <= y
    BY <2>1
  <2> QED
    BY <2>2
<1> QED
  BY <1>3 DEF Min

\* A write is new, goes to the volume that is served, and to no other.
LEMMA WriteIsAdded ==
    ASSUME CutoverTypeOK, VolumesInStep, Writes(NewWrite)
    PROVE  /\ NewWrite \in Write
           /\ data' \in [Volume -> (SUBSET Write) \cup {None}]
           /\ data'[served] = data[served] \cup {NewWrite} /\ data'[served] # None
           /\ \A v \in Volume \ {served} : data'[v] = data[v]
<1> USE CutoverAssumption
<1>1. served \in Volume /\ data \in [Volume -> (SUBSET Write) \cup {None}]
  BY DEF CutoverTypeOK
<1>2. data[served] # None
  BY <1>1 DEF VolumesInStep, Volume
<1>3. Written \subseteq Write
  <2>1. data["old"] \in SUBSET Write /\ data["new"] \in (SUBSET Write) \cup {None}
    BY <1>1 DEF VolumesInStep, Volume
  <2> QED
    BY <2>1 DEF Written
<1>4. Write \ Written # {} /\ Write \ Written \in SUBSET Nat
  <2>1. Written # Write
    BY DEF Writes
  <2>2. Write \in SUBSET Nat
    BY DEF Write
  <2> QED
    BY <1>3, <2>1, <2>2
<1>5. NewWrite \in Write \ Written
  BY <1>4, MinIsIn DEF NewWrite
<1>6. data[served] \in SUBSET Write
  BY <1>1, <1>2
<1>7. data[served] \cup {NewWrite} \in SUBSET Write
  BY <1>5, <1>6
<1>8. data[served] \cup {NewWrite} # None
  BY <1>7 DEF Write
<1>9. data' = [data EXCEPT ![served] = data[served] \cup {NewWrite}]
  BY DEF Writes
<1> QED
  BY <1>1, <1>5, <1>7, <1>8, <1>9

\* _desired_new_job_states gives every job of the new release a state.
LEMMA DesiredIsJobState ==
    ASSUME NEW original \in JobState
    PROVE  Desired(original) \in JobState
BY DEF Desired, JobState

\* Every step, forward, back or killed, leaves the flags and services as the step says.
LEMMA StepsStayInOrder ==
    ASSUME Inv, [Next]_vars
    PROVE  StepsInOrder'
<1> USE DEF StepsInOrder, Preparing, Unexposed, Committed, Goes, Keeps, Ends, At
<1>0. /\ run \in Run /\ web \in {"stopped", "private", "exposed"} /\ served \in Volume
      /\ tasks \in BOOLEAN /\ StepsInOrder
  BY DEF Inv, CutoverTypeOK
<1>1. CASE AppWrites
  BY <1>0, <1>1 DEF AppWrites, services, history, cutover, database, Run
<1>2. CASE Precheck
  BY <1>0, <1>2 DEF Precheck, services, history, database, NewRun, Run
<1>3. CASE StopTasks
  BY <1>0, <1>3 DEF StopTasks, services, database, Run
<1>4. CASE StopWeb
  BY <1>0, <1>4 DEF StopWeb, services, database, Run
<1>5. CASE BackupIsMade
  BY <1>0, <1>5 DEF BackupIsMade, services, database, Run
<1>6. CASE ReceiptArrives
  BY <1>0, <1>6 DEF ReceiptArrives, services, database, Run
<1>7. CASE JobsArePaused
  BY <1>0, <1>7 DEF JobsArePaused, services, database, Run
<1>8. CASE Rehearse
  BY <1>0, <1>8 DEF Rehearse, services, database, Run
<1>9. CASE MakeVolume
  BY <1>0, <1>9 DEF MakeVolume, services, database, Run
<1>10. CASE FillVolume
  BY <1>0, <1>10 DEF FillVolume, services, database, Run
<1>11. CASE StartDatabase
  BY <1>0, <1>11 DEF StartDatabase, services, database, Run
<1>12. CASE VerifyDatabase
  BY <1>0, <1>12 DEF VerifyDatabase, services, database, Run
<1>13. CASE StartPrivateWeb
  BY <1>0, <1>13 DEF StartPrivateWeb, services, database, Run
<1>14. CASE InspectWeb
  <2>1. CASE web = "exposed"
    <3>1. /\ step = "inspect" /\ step' = "failed" /\ UNCHANGED <<web, tasks, served>>
          /\ run'.attempted = run.attempted
      BY <1>0, <1>14, <2>1 DEF InspectWeb, services, Run
    <3> QED
      BY <1>0, <2>1, <3>1
  <2>2. CASE web # "exposed"
    <3>1. step = "inspect" /\ step' = "commit" /\ UNCHANGED <<web, tasks, served, run>>
      BY <1>14, <2>2 DEF InspectWeb, services
    <3> QED
      BY <1>0, <2>2, <3>1
  <2> QED
    BY <2>1, <2>2
<1>15. CASE Commit
  BY <1>0, <1>15 DEF Commit, services, database, Run
<1>16. CASE JobsAreResumed
  BY <1>0, <1>16 DEF JobsAreResumed, services, database, Run
<1>17. CASE Expose
  BY <1>0, <1>17 DEF Expose, services, database, Run
<1>18. CASE StartTasks
  BY <1>0, <1>18 DEF StartTasks, services, history, database, Run
<1>19. CASE GivesUp
  BY <1>0, <1>19 DEF GivesUp, services, database, Run, WaitsTooLong
<1>20. CASE Decide
  BY <1>0, <1>20 DEF Decide, services, history, database, Run, MayRevert
<1>21. CASE UndoWeb
  BY <1>0, <1>21 DEF UndoWeb, services, database, Run
<1>22. CASE UndoDatabase
  BY <1>0, <1>22 DEF UndoDatabase, services, database, Run
<1>23. CASE JobsAreUndone
  BY <1>0, <1>23 DEF JobsAreUndone, services, database, Run
<1>24. CASE UndoServices
  BY <1>0, <1>24 DEF UndoServices, services, history, database, Run
<1>25. CASE CallFails
  BY <1>0, <1>25 DEF CallFails, services, history, database, Run, Forward
<1>26. CASE Dies
  BY <1>0, <1>26 DEF Dies, services, database, Run
<1>27. ASSUME NEW j \in Job, JobStarts(j)
      PROVE  StepsInOrder'
  BY <1>0, <1>27 DEF JobStarts, services, history, cutover, database, Run
<1>28. ASSUME NEW j \in Job, JobEnds(j)
      PROVE  StepsInOrder'
  BY <1>0, <1>28 DEF JobEnds, services, history, cutover, database, Run
<1>29. ASSUME NEW j \in Job, PauseJob(j)
      PROVE  StepsInOrder'
  BY <1>0, <1>29 DEF PauseJob, services, database, Run
<1>30. ASSUME NEW j \in Job, ResumeJob(j)
      PROVE  StepsInOrder'
  BY <1>0, <1>30 DEF ResumeJob, services, database, Run, SetJob
<1>31. ASSUME NEW j \in Job, UndoJob(j)
      PROVE  StepsInOrder'
  BY <1>0, <1>31 DEF UndoJob, services, database, Run, SetJob
<1>32. ASSUME NEW a \in Archive, FrozenBackup(a)
      PROVE  StepsInOrder'
  BY <1>0, <1>32 DEF FrozenBackup, services, database, Run
<1>33. CASE \/ \E a \in Archive : BackupRuns(a) \/ BackupStops(a)
            \/ \E a \in Archive, frozen \in BOOLEAN : Publish(a, frozen)
            \/ PCPulls \/ UNCHANGED vars
  <2>1. UNCHANGED <<services, database, history, cutover>>
    BY <1>33 DEF BackupRuns, BackupStops, Publish, PCPulls, vars
  <2> QED
    BY <1>0, <2>1 DEF services, database, history, cutover
<1> QED
  BY <1>1, <1>2, <1>3, <1>4, <1>5, <1>6, <1>7, <1>8, <1>9, <1>10, <1>11, <1>12,
         <1>13, <1>14, <1>15, <1>16, <1>17, <1>18, <1>19, <1>20, <1>21, <1>22, <1>23, <1>24,
         <1>25, <1>26, <1>27, <1>28, <1>29, <1>30, <1>31, <1>32, <1>33 DEF Next, GoesOn

\* No step lets a writer start while a copy of the volume must not age.
LEMMA WritersStayAtRest ==
    ASSUME Inv, [Next]_vars
    PROVE  AtRest'
<1> USE DEF AtRest, Goes, Keeps, Ends, At
<1>0. /\ run \in Run /\ web \in {"stopped", "private", "exposed"} /\ served \in Volume
      /\ jobs \in [Volume -> JobState] /\ StepsInOrder /\ AtRest
  BY DEF Inv, CutoverTypeOK
<1>1. CASE AppWrites
  BY <1>0, <1>1 DEF AppWrites, StepsInOrder, Preparing, Unexposed, Committed,
         services, database, history, cutover, Run, Scheduled, JobState, Volume
<1>2. CASE Precheck
  BY <1>0, <1>2 DEF Precheck, StepsInOrder, Preparing, Unexposed, Committed,
         services, database, history, Run, NewRun, Scheduled, JobState, Volume
<1>3. CASE StopTasks
  BY <1>0, <1>3 DEF StopTasks, StepsInOrder, Preparing, Unexposed, Committed,
         services, database, Run, Scheduled, JobState, Volume
<1>4. CASE StopWeb
  BY <1>0, <1>4 DEF StopWeb, StepsInOrder, Preparing, Unexposed, Committed, services,
         database, Run, Scheduled, JobState, Volume
<1>5. CASE BackupIsMade
  BY <1>0, <1>5 DEF BackupIsMade, StepsInOrder, Preparing, Unexposed, Committed,
         services, database, Run, Scheduled, JobState, Volume
<1>6. CASE ReceiptArrives
  BY <1>0, <1>6 DEF ReceiptArrives, StepsInOrder, Preparing, Unexposed, Committed,
         services, database, Run, Scheduled, JobState, Volume
<1>7. CASE JobsArePaused
  BY <1>0, <1>7 DEF JobsArePaused, StepsInOrder, Preparing, Unexposed, Committed,
         services, database, Run, Scheduled, JobState, Volume, JobsHaveFinished
<1>8. CASE Rehearse
  BY <1>0, <1>8 DEF Rehearse, StepsInOrder, Preparing, Unexposed, Committed,
         services, database, Run, Scheduled, JobState, Volume
<1>9. CASE MakeVolume
  BY <1>0, <1>9 DEF MakeVolume, StepsInOrder, Preparing, Unexposed, Committed,
         services, database, Run, Scheduled, JobState, Volume
<1>10. CASE FillVolume
  BY <1>0, <1>10 DEF FillVolume, StepsInOrder, Preparing, Unexposed, Committed,
         services, database, Run, Scheduled, JobState, Volume, CloneJobs
<1>11. CASE StartDatabase
  BY <1>0, <1>11 DEF StartDatabase, StepsInOrder, Preparing, Unexposed, Committed,
         services, database, Run, Scheduled, JobState, Volume
<1>12. CASE VerifyDatabase
  <2>1. /\ step = "verify" /\ step' = "private web" /\ run'.committed = run.committed
        /\ UNCHANGED <<web, tasks, served, running, jobs>>
    BY <1>0, <1>12 DEF VerifyDatabase, services, database, Run
  <2> QED
    BY <1>0, <2>1 DEF Scheduled
<1>13. CASE StartPrivateWeb
  BY <1>0, <1>13 DEF StartPrivateWeb, StepsInOrder, Preparing, Unexposed, Committed,
         services, database, Run, Scheduled, JobState, Volume
<1>14. CASE InspectWeb
  BY <1>0, <1>14 DEF InspectWeb, StepsInOrder, Preparing, Unexposed, Committed,
         services, database, Run, Scheduled, JobState, Volume
<1>15. CASE Commit
  BY <1>0, <1>15 DEF Commit, StepsInOrder, Preparing, Unexposed, Committed, services,
         database, Run, Scheduled, JobState, Volume
<1>16. CASE JobsAreResumed
  BY <1>0, <1>16 DEF JobsAreResumed, StepsInOrder, Preparing, Unexposed, Committed,
         services, database, Run, Scheduled, JobState, Volume
<1>17. CASE Expose
  BY <1>0, <1>17 DEF Expose, StepsInOrder, Preparing, Unexposed, Committed, services,
         database, Run, Scheduled, JobState, Volume
<1>18. CASE StartTasks
  BY <1>0, <1>18 DEF StartTasks, StepsInOrder, Preparing, Unexposed, Committed,
         services, database, history, Run, Scheduled, JobState, Volume
<1>19. CASE GivesUp
  BY <1>0, <1>19 DEF GivesUp, StepsInOrder, Preparing, Unexposed, Committed,
         services, database, Run, WaitsTooLong, Scheduled, JobState, Volume,
         JobsHaveFinished
<1>20. CASE Decide
  BY <1>0, <1>20 DEF Decide, StepsInOrder, Preparing, Unexposed, Committed, services,
         database, history, Run, MayRevert, Scheduled, JobState, Volume
<1>21. CASE UndoWeb
  BY <1>0, <1>21 DEF UndoWeb, StepsInOrder, Preparing, Unexposed, Committed,
         services, database, Run, Scheduled, JobState, Volume
<1>22. CASE UndoDatabase
  BY <1>0, <1>22 DEF UndoDatabase, StepsInOrder, Preparing, Unexposed, Committed,
         services, database, Run, Scheduled, JobState, Volume
<1>23. CASE JobsAreUndone
  BY <1>0, <1>23 DEF JobsAreUndone, StepsInOrder, Preparing, Unexposed, Committed,
         services, database, Run, Scheduled, JobState, Volume
<1>24. CASE UndoServices
  BY <1>0, <1>24 DEF UndoServices, StepsInOrder, Preparing, Unexposed, Committed,
         services, database, history, Run, Scheduled, JobState, Volume
<1>25. CASE CallFails
  BY <1>0, <1>25 DEF CallFails, StepsInOrder, Preparing, Unexposed, Committed,
         services, database, history, Run, Forward, Scheduled, JobState, Volume
<1>26. CASE Dies
  BY <1>0, <1>26 DEF Dies, StepsInOrder, Preparing, Unexposed, Committed, services,
         database, Run, Scheduled, JobState, Volume
<1>27. ASSUME NEW j \in Job, JobStarts(j)
      PROVE  AtRest'
  BY <1>0, <1>27 DEF JobStarts, StepsInOrder, Preparing, Unexposed, Committed,
         services, database, history, cutover, Run, Scheduled, JobState, Volume
<1>28. ASSUME NEW j \in Job, JobEnds(j)
      PROVE  AtRest'
  BY <1>0, <1>28 DEF JobEnds, StepsInOrder, Preparing, Unexposed, Committed,
         services, database, history, cutover, Run, Scheduled, JobState, Volume
<1>29. ASSUME NEW j \in Job, PauseJob(j)
      PROVE  AtRest'
  BY <1>0, <1>29 DEF PauseJob, StepsInOrder, Preparing, Unexposed, Committed,
         services, database, Run, Scheduled, JobState, Volume
<1>30. ASSUME NEW j \in Job, ResumeJob(j)
      PROVE  AtRest'
  BY <1>0, <1>30 DEF ResumeJob, StepsInOrder, Preparing, Unexposed, Committed,
         services, database, Run, Scheduled, JobState, Volume, SetJob
<1>31. ASSUME NEW j \in Job, UndoJob(j)
      PROVE  AtRest'
  BY <1>0, <1>31 DEF UndoJob, StepsInOrder, Preparing, Unexposed, Committed,
         services, database, Run, Scheduled, JobState, Volume, SetJob
<1>32. ASSUME NEW a \in Archive, FrozenBackup(a)
      PROVE  AtRest'
  BY <1>0, <1>32 DEF FrozenBackup, StepsInOrder, Preparing, Unexposed, Committed,
         services, database, Run, Scheduled, JobState, Volume
<1>33. CASE \/ \E a \in Archive : BackupRuns(a) \/ BackupStops(a)
            \/ \E a \in Archive, frozen \in BOOLEAN : Publish(a, frozen)
            \/ PCPulls \/ UNCHANGED vars
  <2>1. UNCHANGED <<services, database, history, cutover>>
    BY <1>33 DEF BackupRuns, BackupStops, Publish, PCPulls, vars
  <2> QED
    BY <1>0, <2>1 DEF services, database, history, cutover, Scheduled
<1> QED
  BY <1>1, <1>2, <1>3, <1>4, <1>5, <1>6, <1>7, <1>8, <1>9, <1>10, <1>11, <1>12,
         <1>13, <1>14, <1>15, <1>16, <1>17, <1>18, <1>19, <1>20, <1>21, <1>22, <1>23, <1>24,
         <1>25, <1>26, <1>27, <1>28, <1>29, <1>30, <1>31, <1>32, <1>33 DEF Next, GoesOn

\* No step puts the volume that is served behind the other one.
LEMMA VolumesStayInStep ==
    ASSUME Inv, [Next]_vars
    PROVE  VolumesInStep'
<1> USE DEF VolumesInStep, Goes, Keeps, Ends, At
<1>0. /\ run \in Run /\ web \in {"stopped", "private", "exposed"} /\ served \in Volume
      /\ data \in [Volume -> (SUBSET Write) \cup {None}]
      /\ StepsInOrder /\ AtRest /\ VolumesInStep
  BY DEF Inv, CutoverTypeOK
<1>1. CASE AppWrites
  <2>1. /\ UNCHANGED <<step, web, tasks, served, run>>
        /\ \/ Writes(NewWrite)
           \/ UNCHANGED data
    BY <1>1 DEF AppWrites, services, cutover
  <2>2. CASE Writes(NewWrite)
    <3>1. ~(step \in {"volume", "database"}) /\ (served = "new" => web = "exposed" \/ run.committed)
      BY <1>0, <1>1 DEF AppWrites, StepsInOrder, AtRest, Preparing, Unexposed
    <3>2. data["old"] \subseteq data'["old"] /\ data'["old"] # None
      BY <1>0, <2>2, WriteIsAdded DEF Volume, Inv
    <3>3. /\ served = "old" => data'["new"] = data["new"]
          /\ served = "new" => /\ data'["old"] = data["old"]
                              /\ data["new"] \subseteq data'["new"] /\ data'["new"] # None
      BY <1>0, <2>2, WriteIsAdded DEF Volume, Inv
    <3> QED
      BY <1>0, <2>1, <3>1, <3>2, <3>3 DEF Volume
  <2> QED
    BY <1>0, <2>1, <2>2
<1>2. CASE Precheck
  BY <1>0, <1>2 DEF Precheck, StepsInOrder, AtRest, Preparing, Unexposed, Committed,
         services, database, history, Run, NewRun, Volume
<1>3. CASE StopTasks
  BY <1>0, <1>3 DEF StopTasks, StepsInOrder, AtRest, Preparing, Unexposed, Committed,
         services, database, Run, Volume
<1>4. CASE StopWeb
  BY <1>0, <1>4 DEF StopWeb, StepsInOrder, AtRest, Preparing, Unexposed, Committed,
         services, database, Run, Volume
<1>5. CASE BackupIsMade
  BY <1>0, <1>5 DEF BackupIsMade, StepsInOrder, AtRest, Preparing, Unexposed,
         Committed, services, database, Run, Volume
<1>6. CASE ReceiptArrives
  BY <1>0, <1>6 DEF ReceiptArrives, StepsInOrder, AtRest, Preparing, Unexposed,
         Committed, services, database, Run, Volume
<1>7. CASE JobsArePaused
  BY <1>0, <1>7 DEF JobsArePaused, StepsInOrder, AtRest, Preparing, Unexposed,
         Committed, services, database, Run, Volume
<1>8. CASE Rehearse
  BY <1>0, <1>8 DEF Rehearse, StepsInOrder, AtRest, Preparing, Unexposed, Committed,
         services, database, Run, Volume
<1>9. CASE MakeVolume
  BY <1>0, <1>9 DEF MakeVolume, StepsInOrder, AtRest, Preparing, Unexposed,
         Committed, services, database, Run, Volume
<1>10. CASE FillVolume
  BY <1>0, <1>10 DEF FillVolume, StepsInOrder, AtRest, Preparing, Unexposed,
         Committed, services, database, Run, Volume
<1>11. CASE StartDatabase
  BY <1>0, <1>11 DEF StartDatabase, StepsInOrder, AtRest, Preparing, Unexposed,
         Committed, services, database, Run, Volume
<1>12. CASE VerifyDatabase
  BY <1>0, <1>12 DEF VerifyDatabase, StepsInOrder, AtRest, Preparing, Unexposed,
         Committed, services, database, Run, Volume
<1>13. CASE StartPrivateWeb
  BY <1>0, <1>13 DEF StartPrivateWeb, StepsInOrder, AtRest, Preparing, Unexposed,
         Committed, services, database, Run, Volume
<1>14. CASE InspectWeb
  BY <1>0, <1>14 DEF InspectWeb, StepsInOrder, AtRest, Preparing, Unexposed,
         Committed, services, database, Run, Volume
<1>15. CASE Commit
  BY <1>0, <1>15 DEF Commit, StepsInOrder, AtRest, Preparing, Unexposed, Committed,
         services, database, Run, Volume
<1>16. CASE JobsAreResumed
  BY <1>0, <1>16 DEF JobsAreResumed, StepsInOrder, AtRest, Preparing, Unexposed,
         Committed, services, database, Run, Volume
<1>17. CASE Expose
  BY <1>0, <1>17 DEF Expose, StepsInOrder, AtRest, Preparing, Unexposed, Committed,
         services, database, Run, Volume
<1>18. CASE StartTasks
  BY <1>0, <1>18 DEF StartTasks, StepsInOrder, AtRest, Preparing, Unexposed,
         Committed, services, database, history, Run, Volume
<1>19. CASE GivesUp
  BY <1>0, <1>19 DEF GivesUp, StepsInOrder, AtRest, Preparing, Unexposed, Committed,
         services, database, Run, WaitsTooLong, Volume
<1>20. CASE Decide
  BY <1>0, <1>20 DEF Decide, StepsInOrder, AtRest, Preparing, Unexposed, Committed,
         services, database, history, Run, MayRevert, Volume
<1>21. CASE UndoWeb
  BY <1>0, <1>21 DEF UndoWeb, StepsInOrder, AtRest, Preparing, Unexposed, Committed,
         services, database, Run, Volume
<1>22. CASE UndoDatabase
  BY <1>0, <1>22 DEF UndoDatabase, StepsInOrder, AtRest, Preparing, Unexposed,
         Committed, services, database, Run, Volume
<1>23. CASE JobsAreUndone
  BY <1>0, <1>23 DEF JobsAreUndone, StepsInOrder, AtRest, Preparing, Unexposed,
         Committed, services, database, Run, Volume
<1>24. CASE UndoServices
  BY <1>0, <1>24 DEF UndoServices, StepsInOrder, AtRest, Preparing, Unexposed,
         Committed, services, database, history, Run, Volume
<1>25. CASE CallFails
  BY <1>0, <1>25 DEF CallFails, StepsInOrder, AtRest, Preparing, Unexposed,
         Committed, services, database, history, Run, Forward, Volume
<1>26. CASE Dies
  BY <1>0, <1>26 DEF Dies, StepsInOrder, AtRest, Preparing, Unexposed, Committed,
         services, database, Run, Volume
<1>27. ASSUME NEW j \in Job, JobStarts(j)
      PROVE  VolumesInStep'
  BY <1>0, <1>27 DEF JobStarts, StepsInOrder, AtRest, Preparing, Unexposed,
         Committed, services, database, history, cutover, Run, Volume
<1>28. ASSUME NEW j \in Job, JobEnds(j)
      PROVE  VolumesInStep'
  <2>1. /\ UNCHANGED <<step, web, tasks, served, run>>
        /\ \/ Writes(NewWrite)
           \/ UNCHANGED data
    BY <1>28 DEF JobEnds, services, cutover
  <2>2. CASE Writes(NewWrite)
    <3>1. ~(step \in {"volume", "database"}) /\ (served = "new" => web = "exposed" \/ run.committed)
      BY <1>0, <1>28 DEF JobEnds, StepsInOrder, AtRest, Preparing, Unexposed
    <3>2. data["old"] \subseteq data'["old"] /\ data'["old"] # None
      BY <1>0, <2>2, WriteIsAdded DEF Volume, Inv
    <3>3. /\ served = "old" => data'["new"] = data["new"]
          /\ served = "new" => /\ data'["old"] = data["old"]
                              /\ data["new"] \subseteq data'["new"] /\ data'["new"] # None
      BY <1>0, <2>2, WriteIsAdded DEF Volume, Inv
    <3> QED
      BY <1>0, <2>1, <3>1, <3>2, <3>3 DEF Volume
  <2> QED
    BY <1>0, <2>1, <2>2
<1>29. ASSUME NEW j \in Job, PauseJob(j)
      PROVE  VolumesInStep'
  BY <1>0, <1>29 DEF PauseJob, StepsInOrder, AtRest, Preparing, Unexposed, Committed,
         services, database, Run, Volume
<1>30. ASSUME NEW j \in Job, ResumeJob(j)
      PROVE  VolumesInStep'
  BY <1>0, <1>30 DEF ResumeJob, StepsInOrder, AtRest, Preparing, Unexposed,
         Committed, services, database, Run, Volume, SetJob
<1>31. ASSUME NEW j \in Job, UndoJob(j)
      PROVE  VolumesInStep'
  BY <1>0, <1>31 DEF UndoJob, StepsInOrder, AtRest, Preparing, Unexposed, Committed,
         services, database, Run, Volume, SetJob
<1>32. ASSUME NEW a \in Archive, FrozenBackup(a)
      PROVE  VolumesInStep'
  BY <1>0, <1>32 DEF FrozenBackup, StepsInOrder, AtRest, Preparing, Unexposed,
         Committed, services, database, Run, Volume
<1>33. CASE \/ \E a \in Archive : BackupRuns(a) \/ BackupStops(a)
            \/ \E a \in Archive, frozen \in BOOLEAN : Publish(a, frozen)
            \/ PCPulls \/ UNCHANGED vars
  <2>1. UNCHANGED <<services, database, history, cutover>>
    BY <1>33 DEF BackupRuns, BackupStops, Publish, PCPulls, vars
  <2> QED
    BY <1>0, <2>1 DEF services, database, history, cutover
<1> QED
  BY <1>1, <1>2, <1>3, <1>4, <1>5, <1>6, <1>7, <1>8, <1>9, <1>10, <1>11, <1>12,
         <1>13, <1>14, <1>15, <1>16, <1>17, <1>18, <1>19, <1>20, <1>21, <1>22, <1>23, <1>24,
         <1>25, <1>26, <1>27, <1>28, <1>29, <1>30, <1>31, <1>32, <1>33 DEF Next, GoesOn

\* No step adds or removes a job but those that make, or remake, a volume.
LEMMA JobsStayKnown ==
    ASSUME Inv, [Next]_vars
    PROVE  JobsAreKnown'
<1> USE DEF JobsAreKnown, Goes, Keeps, Ends, At
<1>0. /\ run \in Run /\ served \in Volume /\ jobs \in [Volume -> JobState]
      /\ StepsInOrder /\ JobsAreKnown
  BY DEF Inv, CutoverTypeOK
<1>1. CASE AppWrites
  BY <1>0, <1>1 DEF AppWrites, StepsInOrder, Preparing, Unexposed, Committed,
         services, database, history, cutover, Run, Volume, JobState
<1>2. CASE Precheck
  BY <1>0, <1>2 DEF Precheck, StepsInOrder, Preparing, Unexposed, Committed,
         services, database, history, Run, NewRun, Volume, JobState
<1>3. CASE StopTasks
  BY <1>0, <1>3 DEF StopTasks, StepsInOrder, Preparing, Unexposed, Committed,
         services, database, Run, Volume, JobState
<1>4. CASE StopWeb
  BY <1>0, <1>4 DEF StopWeb, StepsInOrder, Preparing, Unexposed, Committed, services,
         database, Run, Volume, JobState
<1>5. CASE BackupIsMade
  BY <1>0, <1>5 DEF BackupIsMade, StepsInOrder, Preparing, Unexposed, Committed,
         services, database, Run, Volume, JobState
<1>6. CASE ReceiptArrives
  BY <1>0, <1>6 DEF ReceiptArrives, StepsInOrder, Preparing, Unexposed, Committed,
         services, database, Run, Volume, JobState
<1>7. CASE JobsArePaused
  BY <1>0, <1>7 DEF JobsArePaused, StepsInOrder, Preparing, Unexposed, Committed,
         services, database, Run, Volume, JobState, Scheduled
<1>8. CASE Rehearse
  BY <1>0, <1>8 DEF Rehearse, StepsInOrder, Preparing, Unexposed, Committed,
         services, database, Run, Volume, JobState
<1>9. CASE MakeVolume
  BY <1>0, <1>9 DEF MakeVolume, StepsInOrder, Preparing, Unexposed, Committed,
         services, database, Run, Volume, JobState
<1>10. CASE FillVolume
  BY <1>0, <1>10 DEF FillVolume, StepsInOrder, Preparing, Unexposed, Committed,
         services, database, Run, Volume, JobState, CloneJobs
<1>11. CASE StartDatabase
  BY <1>0, <1>11 DEF StartDatabase, StepsInOrder, Preparing, Unexposed, Committed,
         services, database, Run, Volume, JobState
<1>12. CASE VerifyDatabase
  <2>1. jobs' = jobs /\ run'.original = run.original /\ step = "verify"
    BY <1>0, <1>12 DEF VerifyDatabase, Run, database
  <2> QED
    BY <1>0, <2>1 DEF Unexposed
<1>13. CASE StartPrivateWeb
  <2>1. jobs' = jobs /\ run'.original = run.original /\ step = "private web"
    BY <1>0, <1>13 DEF StartPrivateWeb, Run, database
  <2> QED
    BY <1>0, <2>1 DEF Unexposed
<1>14. CASE InspectWeb
  <2>1. jobs' = jobs /\ run'.original = run.original /\ step = "inspect"
    BY <1>0, <1>14 DEF InspectWeb, Run, database
  <2> QED
    BY <1>0, <2>1 DEF Unexposed
<1>15. CASE Commit
  <2>1. jobs' = jobs /\ run'.original = run.original /\ step = "commit"
    BY <1>0, <1>15 DEF Commit, Run, database
  <2> QED
    BY <1>0, <2>1 DEF Unexposed
<1>16. CASE JobsAreResumed
  BY <1>0, <1>16 DEF JobsAreResumed, StepsInOrder, Preparing, Unexposed, Committed,
         services, database, Run, Volume, JobState
<1>17. CASE Expose
  BY <1>0, <1>17 DEF Expose, StepsInOrder, Preparing, Unexposed, Committed, services,
         database, Run, Volume, JobState
<1>18. CASE StartTasks
  BY <1>0, <1>18 DEF StartTasks, StepsInOrder, Preparing, Unexposed, Committed,
         services, database, history, Run, Volume, JobState
<1>19. CASE GivesUp
  BY <1>0, <1>19 DEF GivesUp, StepsInOrder, Preparing, Unexposed, Committed,
         services, database, Run, WaitsTooLong, Volume, JobState
<1>20. CASE Decide
  BY <1>0, <1>20 DEF Decide, StepsInOrder, Preparing, Unexposed, Committed, services,
         database, history, Run, MayRevert, Volume, JobState
<1>21. CASE UndoWeb
  BY <1>0, <1>21 DEF UndoWeb, StepsInOrder, Preparing, Unexposed, Committed,
         services, database, Run, Volume, JobState
<1>22. CASE UndoDatabase
  BY <1>0, <1>22 DEF UndoDatabase, StepsInOrder, Preparing, Unexposed, Committed,
         services, database, Run, Volume, JobState
<1>23. CASE JobsAreUndone
  BY <1>0, <1>23 DEF JobsAreUndone, StepsInOrder, Preparing, Unexposed, Committed,
         services, database, Run, Volume, JobState
<1>24. CASE UndoServices
  BY <1>0, <1>24 DEF UndoServices, StepsInOrder, Preparing, Unexposed, Committed,
         services, database, history, Run, Volume, JobState
<1>25. CASE CallFails
  BY <1>0, <1>25 DEF CallFails, StepsInOrder, Preparing, Unexposed, Committed,
         services, database, history, Run, Forward, Volume, JobState
<1>26. CASE Dies
  BY <1>0, <1>26 DEF Dies, StepsInOrder, Preparing, Unexposed, Committed, services,
         database, Run, Volume, JobState
<1>27. ASSUME NEW j \in Job, JobStarts(j)
      PROVE  JobsAreKnown'
  BY <1>0, <1>27 DEF JobStarts, StepsInOrder, Preparing, Unexposed, Committed,
         services, database, history, cutover, Run, Volume, JobState
<1>28. ASSUME NEW j \in Job, JobEnds(j)
      PROVE  JobsAreKnown'
  BY <1>0, <1>28 DEF JobEnds, StepsInOrder, Preparing, Unexposed, Committed,
         services, database, history, cutover, Run, Volume, JobState
<1>29. ASSUME NEW j \in Job, PauseJob(j)
      PROVE  JobsAreKnown'
  BY <1>0, <1>29 DEF PauseJob, StepsInOrder, Preparing, Unexposed, Committed,
         services, database, Run, Volume, JobState, Scheduled
<1>30. ASSUME NEW j \in Job, ResumeJob(j)
      PROVE  JobsAreKnown'
  BY <1>0, <1>30 DEF ResumeJob, StepsInOrder, Preparing, Unexposed, Committed,
         services, database, Run, Volume, SetJob, JobState
<1>31. ASSUME NEW j \in Job, UndoJob(j)
      PROVE  JobsAreKnown'
  BY <1>0, <1>31 DEF UndoJob, StepsInOrder, Preparing, Unexposed, Committed,
         services, database, Run, Volume, SetJob, JobState
<1>32. ASSUME NEW a \in Archive, FrozenBackup(a)
      PROVE  JobsAreKnown'
  BY <1>0, <1>32 DEF FrozenBackup, StepsInOrder, Preparing, Unexposed, Committed,
         services, database, Run, Volume, JobState
<1>33. CASE \/ \E a \in Archive : BackupRuns(a) \/ BackupStops(a)
            \/ \E a \in Archive, frozen \in BOOLEAN : Publish(a, frozen)
            \/ PCPulls \/ UNCHANGED vars
  <2>1. UNCHANGED <<services, database, history, cutover>>
    BY <1>33 DEF BackupRuns, BackupStops, Publish, PCPulls, vars
  <2> QED
    BY <1>0, <2>1 DEF services, database, history, cutover
<1> QED
  BY <1>1, <1>2, <1>3, <1>4, <1>5, <1>6, <1>7, <1>8, <1>9, <1>10, <1>11, <1>12,
         <1>13, <1>14, <1>15, <1>16, <1>17, <1>18, <1>19, <1>20, <1>21, <1>22, <1>23, <1>24,
         <1>25, <1>26, <1>27, <1>28, <1>29, <1>30, <1>31, <1>32, <1>33 DEF Next, GoesOn

\* No step loses how a job was scheduled before any run.
LEMMA JobsStayKept ==
    ASSUME Inv, [Next]_vars
    PROVE  JobsAreKept'
<1> USE DEF JobsAreKept, Goes, Keeps, Ends, At
<1>0. /\ run \in Run /\ served \in Volume /\ jobs \in [Volume -> JobState] /\ abandoned \in BOOLEAN
      /\ StepsInOrder /\ JobsAreKept
  BY DEF Inv, CutoverTypeOK
<1>1. CASE AppWrites
  BY <1>0, <1>1 DEF AppWrites, StepsInOrder, Preparing, Unexposed, Committed,
         services, database, history, cutover, Run, Volume
<1>2. CASE Precheck
  BY <1>0, <1>2 DEF Precheck, StepsInOrder, Preparing, Unexposed, Committed,
         services, database, history, Run, NewRun, Volume
<1>3. CASE StopTasks
  BY <1>0, <1>3 DEF StopTasks, StepsInOrder, Preparing, Unexposed, Committed,
         services, database, Run, Volume
<1>4. CASE StopWeb
  BY <1>0, <1>4 DEF StopWeb, StepsInOrder, Preparing, Unexposed, Committed, services,
         database, Run, Volume
<1>5. CASE BackupIsMade
  BY <1>0, <1>5 DEF BackupIsMade, StepsInOrder, Preparing, Unexposed, Committed,
         services, database, Run, Volume
<1>6. CASE ReceiptArrives
  BY <1>0, <1>6 DEF ReceiptArrives, StepsInOrder, Preparing, Unexposed, Committed,
         services, database, Run, Volume
<1>7. CASE JobsArePaused
  BY <1>0, <1>7 DEF JobsArePaused, StepsInOrder, Preparing, Unexposed, Committed,
         services, database, Run, Volume
<1>8. CASE Rehearse
  BY <1>0, <1>8 DEF Rehearse, StepsInOrder, Preparing, Unexposed, Committed,
         services, database, Run, Volume
<1>9. CASE MakeVolume
  BY <1>0, <1>9 DEF MakeVolume, StepsInOrder, Preparing, Unexposed, Committed,
         services, database, Run, Volume
<1>10. CASE FillVolume
  BY <1>0, <1>10 DEF FillVolume, StepsInOrder, Preparing, Unexposed, Committed,
         services, database, Run, Volume
<1>11. CASE StartDatabase
  BY <1>0, <1>11 DEF StartDatabase, StepsInOrder, Preparing, Unexposed, Committed,
         services, database, Run, Volume
<1>12. CASE VerifyDatabase
  BY <1>0, <1>12 DEF VerifyDatabase, StepsInOrder, Preparing, Unexposed, Committed,
         services, database, Run, Volume
<1>13. CASE StartPrivateWeb
  BY <1>0, <1>13 DEF StartPrivateWeb, StepsInOrder, Preparing, Unexposed, Committed,
         services, database, Run, Volume
<1>14. CASE InspectWeb
  BY <1>0, <1>14 DEF InspectWeb, StepsInOrder, Preparing, Unexposed, Committed,
         services, database, Run, Volume
<1>15. CASE Commit
  BY <1>0, <1>15 DEF Commit, StepsInOrder, Preparing, Unexposed, Committed, services,
         database, Run, Volume
<1>16. CASE JobsAreResumed
  BY <1>0, <1>16 DEF JobsAreResumed, StepsInOrder, Preparing, Unexposed, Committed,
         services, database, Run, Volume
<1>17. CASE Expose
  BY <1>0, <1>17 DEF Expose, StepsInOrder, Preparing, Unexposed, Committed, services,
         database, Run, Volume
<1>18. CASE StartTasks
  BY <1>0, <1>18 DEF StartTasks, StepsInOrder, Preparing, Unexposed, Committed,
         services, database, history, Run, Volume
<1>19. CASE GivesUp
  BY <1>0, <1>19 DEF GivesUp, StepsInOrder, Preparing, Unexposed, Committed,
         services, database, Run, WaitsTooLong, Volume
<1>20. CASE Decide
  BY <1>0, <1>20 DEF Decide, StepsInOrder, Preparing, Unexposed, Committed, services,
         database, history, Run, MayRevert, Volume
<1>21. CASE UndoWeb
  BY <1>0, <1>21 DEF UndoWeb, StepsInOrder, Preparing, Unexposed, Committed,
         services, database, Run, Volume
<1>22. CASE UndoDatabase
  BY <1>0, <1>22 DEF UndoDatabase, StepsInOrder, Preparing, Unexposed, Committed,
         services, database, Run, Volume
<1>23. CASE JobsAreUndone
  BY <1>0, <1>23 DEF JobsAreUndone, StepsInOrder, Preparing, Unexposed, Committed,
         services, database, Run, Volume
<1>24. CASE UndoServices
  BY <1>0, <1>24 DEF UndoServices, StepsInOrder, Preparing, Unexposed, Committed,
         services, database, history, Run, Volume
<1>25. CASE CallFails
  BY <1>0, <1>25 DEF CallFails, StepsInOrder, Preparing, Unexposed, Committed,
         services, database, history, Run, Forward, Volume
<1>26. CASE Dies
  BY <1>0, <1>26 DEF Dies, StepsInOrder, Preparing, Unexposed, Committed, services,
         database, Run, Volume
<1>27. ASSUME NEW j \in Job, JobStarts(j)
      PROVE  JobsAreKept'
  BY <1>0, <1>27 DEF JobStarts, StepsInOrder, Preparing, Unexposed, Committed,
         services, database, history, cutover, Run, Volume
<1>28. ASSUME NEW j \in Job, JobEnds(j)
      PROVE  JobsAreKept'
  BY <1>0, <1>28 DEF JobEnds, StepsInOrder, Preparing, Unexposed, Committed,
         services, database, history, cutover, Run, Volume
<1>29. ASSUME NEW j \in Job, PauseJob(j)
      PROVE  JobsAreKept'
  BY <1>0, <1>29 DEF PauseJob, StepsInOrder, Preparing, Unexposed, Committed,
         services, database, Run, Volume
<1>30. ASSUME NEW j \in Job, ResumeJob(j)
      PROVE  JobsAreKept'
  BY <1>0, <1>30 DEF ResumeJob, StepsInOrder, Preparing, Unexposed, Committed,
         services, database, Run, Volume, SetJob
<1>31. ASSUME NEW j \in Job, UndoJob(j)
      PROVE  JobsAreKept'
  BY <1>0, <1>31 DEF UndoJob, StepsInOrder, Preparing, Unexposed, Committed,
         services, database, Run, Volume, SetJob
<1>32. ASSUME NEW a \in Archive, FrozenBackup(a)
      PROVE  JobsAreKept'
  BY <1>0, <1>32 DEF FrozenBackup, StepsInOrder, Preparing, Unexposed, Committed,
         services, database, Run, Volume
<1>33. CASE \/ \E a \in Archive : BackupRuns(a) \/ BackupStops(a)
            \/ \E a \in Archive, frozen \in BOOLEAN : Publish(a, frozen)
            \/ PCPulls \/ UNCHANGED vars
  <2>1. UNCHANGED <<services, database, history, cutover>>
    BY <1>33 DEF BackupRuns, BackupStops, Publish, PCPulls, vars
  <2> QED
    BY <1>0, <2>1 DEF services, database, history, cutover
<1> QED
  BY <1>1, <1>2, <1>3, <1>4, <1>5, <1>6, <1>7, <1>8, <1>9, <1>10, <1>11, <1>12,
         <1>13, <1>14, <1>15, <1>16, <1>17, <1>18, <1>19, <1>20, <1>21, <1>22, <1>23, <1>24,
         <1>25, <1>26, <1>27, <1>28, <1>29, <1>30, <1>31, <1>32, <1>33 DEF Next, GoesOn

\* No step writes what the frozen archive, or its copy on the PC, lacks.
LEMMA CopyStaysFrozen ==
    ASSUME Inv, [Next]_vars
    PROVE  CopyIsFrozen'
<1> USE DEF CopyIsFrozen, Goes, Keeps, Ends, At
<1>0. /\ run \in Run /\ web \in {"stopped", "private", "exposed"} /\ served \in Volume
      /\ data \in [Volume -> (SUBSET Write) \cup {None}]
      /\ content \in [Archive -> SUBSET Write]
      /\ StepsInOrder /\ VolumesInStep /\ CopyIsFrozen
  BY DEF Inv, CutoverTypeOK
<1>1. CASE AppWrites
  <2>1. /\ UNCHANGED <<step, web, tasks, served, run, content, copies, proofs>>
        /\ Writes(NewWrite) /\ byApp' = byApp \cup {NewWrite}
        /\ web = "exposed" \/ tasks
    BY <1>1 DEF AppWrites, services, history, cutover, backupVars, pc
  <2>2. data'[served] = data[served] \cup {NewWrite}
    BY <2>1, WriteIsAdded DEF Inv
  <2>3. ~(step = "backup") /\ (step \in Preparing \cup Unexposed => web = "exposed")
    BY <1>0, <2>1 DEF StepsInOrder, Preparing, Unexposed
  <2> QED
    BY <1>0, <2>1, <2>2, <2>3 DEF Preparing, Unexposed
<1>2. CASE Precheck
  BY <1>0, <1>2 DEF Precheck, StepsInOrder, VolumesInStep, Preparing, Unexposed,
         Committed, services, database, history, backupVars, pc, Run, NewRun, Volume
<1>3. CASE StopTasks
  BY <1>0, <1>3 DEF StopTasks, StepsInOrder, VolumesInStep, Preparing, Unexposed,
         Committed, services, database, backupVars, pc, Run, Volume
<1>4. CASE StopWeb
  BY <1>0, <1>4 DEF StopWeb, StepsInOrder, VolumesInStep, Preparing, Unexposed,
         Committed, services, database, backupVars, pc, Run, Volume
<1>5. CASE BackupIsMade
  BY <1>0, <1>5 DEF BackupIsMade, StepsInOrder, VolumesInStep, Preparing, Unexposed,
         Committed, services, database, backupVars, pc, Run, Volume
<1>6. CASE ReceiptArrives
  <2>1. /\ step = "receipt" /\ step' = "pause" /\ receipt[run.fresh] # None
        /\ UNCHANGED <<web, served, run, byApp, data, content, copies, proofs>>
    BY <1>6 DEF ReceiptArrives, HasFrozenReceipt, IsReviewed, HasReceipt, services, database,
           backupVars, pc
  <2>2. web # "exposed"
    BY <1>0, <2>1 DEF StepsInOrder, Preparing
  <2>3. run.fresh \in Archive
    BY <1>0, <2>1, <2>2 DEF Preparing
  <2>4. run.fresh \in copies \cap proofs
    BY <2>1, <2>3 DEF Inv, BackupsInv, ReceiptsAreTrue
  <2> QED
    BY <1>0, <2>1, <2>2, <2>3, <2>4 DEF Preparing
<1>7. CASE JobsArePaused
  BY <1>0, <1>7 DEF JobsArePaused, StepsInOrder, VolumesInStep, Preparing, Unexposed,
         Committed, services, database, backupVars, pc, Run, Volume
<1>8. CASE Rehearse
  BY <1>0, <1>8 DEF Rehearse, StepsInOrder, VolumesInStep, Preparing, Unexposed,
         Committed, services, database, backupVars, pc, Run, Volume
<1>9. CASE MakeVolume
  BY <1>0, <1>9 DEF MakeVolume, StepsInOrder, VolumesInStep, Preparing, Unexposed,
         Committed, services, database, backupVars, pc, Run, Volume
<1>10. CASE FillVolume
  BY <1>0, <1>10 DEF FillVolume, StepsInOrder, VolumesInStep, Preparing, Unexposed,
         Committed, services, database, backupVars, pc, Run, Volume
<1>11. CASE StartDatabase
  BY <1>0, <1>11 DEF StartDatabase, StepsInOrder, VolumesInStep, Preparing,
         Unexposed, Committed, services, database, backupVars, pc, Run, Volume
<1>12. CASE VerifyDatabase
  BY <1>0, <1>12 DEF VerifyDatabase, StepsInOrder, VolumesInStep, Preparing,
         Unexposed, Committed, services, database, backupVars, pc, Run, Volume
<1>13. CASE StartPrivateWeb
  BY <1>0, <1>13 DEF StartPrivateWeb, StepsInOrder, VolumesInStep, Preparing,
         Unexposed, Committed, services, database, backupVars, pc, Run, Volume
<1>14. CASE InspectWeb
  BY <1>0, <1>14 DEF InspectWeb, StepsInOrder, VolumesInStep, Preparing, Unexposed,
         Committed, services, database, backupVars, pc, Run, Volume
<1>15. CASE Commit
  BY <1>0, <1>15 DEF Commit, StepsInOrder, VolumesInStep, Preparing, Unexposed,
         Committed, services, database, backupVars, pc, Run, Volume
<1>16. CASE JobsAreResumed
  BY <1>0, <1>16 DEF JobsAreResumed, StepsInOrder, VolumesInStep, Preparing,
         Unexposed, Committed, services, database, backupVars, pc, Run, Volume
<1>17. CASE Expose
  BY <1>0, <1>17 DEF Expose, StepsInOrder, VolumesInStep, Preparing, Unexposed,
         Committed, services, database, backupVars, pc, Run, Volume
<1>18. CASE StartTasks
  BY <1>0, <1>18 DEF StartTasks, StepsInOrder, VolumesInStep, Preparing, Unexposed,
         Committed, services, database, history, backupVars, pc, Run, Volume
<1>19. CASE GivesUp
  BY <1>0, <1>19 DEF GivesUp, StepsInOrder, VolumesInStep, Preparing, Unexposed,
         Committed, services, database, backupVars, pc, Run, WaitsTooLong, Volume
<1>20. CASE Decide
  BY <1>0, <1>20 DEF Decide, StepsInOrder, VolumesInStep, Preparing, Unexposed,
         Committed, services, database, history, backupVars, pc, Run, MayRevert, Volume
<1>21. CASE UndoWeb
  BY <1>0, <1>21 DEF UndoWeb, StepsInOrder, VolumesInStep, Preparing, Unexposed,
         Committed, services, database, backupVars, pc, Run, Volume
<1>22. CASE UndoDatabase
  BY <1>0, <1>22 DEF UndoDatabase, StepsInOrder, VolumesInStep, Preparing, Unexposed,
         Committed, services, database, backupVars, pc, Run, Volume
<1>23. CASE JobsAreUndone
  BY <1>0, <1>23 DEF JobsAreUndone, StepsInOrder, VolumesInStep, Preparing,
         Unexposed, Committed, services, database, backupVars, pc, Run, Volume
<1>24. CASE UndoServices
  BY <1>0, <1>24 DEF UndoServices, StepsInOrder, VolumesInStep, Preparing, Unexposed,
         Committed, services, database, history, backupVars, pc, Run, Volume
<1>25. CASE CallFails
  BY <1>0, <1>25 DEF CallFails, StepsInOrder, VolumesInStep, Preparing, Unexposed,
         Committed, services, database, history, backupVars, pc, Run, Forward, Volume
<1>26. CASE Dies
  BY <1>0, <1>26 DEF Dies, StepsInOrder, VolumesInStep, Preparing, Unexposed,
         Committed, services, database, backupVars, pc, Run, Volume
<1>27. ASSUME NEW j \in Job, JobStarts(j)
      PROVE  CopyIsFrozen'
  BY <1>0, <1>27 DEF JobStarts, StepsInOrder, VolumesInStep, Preparing, Unexposed,
         Committed, services, database, history, cutover, backupVars, pc, Run, Volume
<1>28. ASSUME NEW j \in Job, JobEnds(j)
      PROVE  CopyIsFrozen'
  <2>1. /\ UNCHANGED <<step, web, tasks, served, run, byApp, content, copies, proofs>>
        /\ Writes(NewWrite) \/ UNCHANGED data
    BY <1>28 DEF JobEnds, services, history, cutover, backupVars, pc
  <2>2. data[served] \subseteq data'[served]
    BY <2>1, WriteIsAdded DEF Inv
  <2> QED
    BY <1>0, <2>1, <2>2
<1>29. ASSUME NEW j \in Job, PauseJob(j)
      PROVE  CopyIsFrozen'
  BY <1>0, <1>29 DEF PauseJob, StepsInOrder, VolumesInStep, Preparing, Unexposed,
         Committed, services, database, backupVars, pc, Run, Volume
<1>30. ASSUME NEW j \in Job, ResumeJob(j)
      PROVE  CopyIsFrozen'
  BY <1>0, <1>30 DEF ResumeJob, StepsInOrder, VolumesInStep, Preparing, Unexposed,
         Committed, services, database, backupVars, pc, Run, Volume, SetJob
<1>31. ASSUME NEW j \in Job, UndoJob(j)
      PROVE  CopyIsFrozen'
  BY <1>0, <1>31 DEF UndoJob, StepsInOrder, VolumesInStep, Preparing, Unexposed,
         Committed, services, database, backupVars, pc, Run, Volume, SetJob
<1>32. ASSUME NEW a \in Archive, FrozenBackup(a)
      PROVE  CopyIsFrozen'
  BY <1>0, <1>32 DEF FrozenBackup, StepsInOrder, VolumesInStep, Preparing, Unexposed,
         Committed, services, database, backupVars, pc, Run, Volume
<1>33. CASE \/ \E a \in Archive : BackupRuns(a) \/ BackupStops(a)
            \/ \E a \in Archive, frozen \in BOOLEAN : Publish(a, frozen)
            \/ PCPulls \/ UNCHANGED vars
  <2>1. UNCHANGED <<services, database, history, cutover>>
    BY <1>33 DEF BackupRuns, BackupStops, Publish, PCPulls, vars
  <2>2. copies \subseteq copies' /\ proofs \subseteq proofs'
    BY <1>33 DEF BackupRuns, BackupGoesOn, Encrypted, WriteProof, Unlink, BackupEnds,
           BackupStops, BackupDies, Publish, PublishReceipt, PCPulls, PullBegins, PullGoesOn,
           ReceiveArchive, ReceiveProof, PullRaises, PullEnds, ReceiptIsRefused,
           PullIsInterrupted, pc, vars, backupVars
  <2> QED
    BY <1>0, <2>1, <2>2 DEF services, database, history, cutover
<1> QED
  BY <1>1, <1>2, <1>3, <1>4, <1>5, <1>6, <1>7, <1>8, <1>9, <1>10, <1>11, <1>12,
         <1>13, <1>14, <1>15, <1>16, <1>17, <1>18, <1>19, <1>20, <1>21, <1>22, <1>23, <1>24,
         <1>25, <1>26, <1>27, <1>28, <1>29, <1>30, <1>31, <1>32, <1>33 DEF Next, GoesOn

\* A step that only sets states of jobs, of jobs that are there.
LEMMA JobsAlone ==
    ASSUME CutoverTypeOK,
           jobs' \in [Volume -> JobState],
           running \subseteq {j \in Job : jobs'[served][j] # "absent"},
           step' = step, web' = web, tasks' = tasks, served' = served, data' = data,
           running' = running, byApp' = byApp, run' = run, outcome' = outcome,
           attempts' = attempts, chosen' = chosen, abandoned' = abandoned,
           content' = content
    PROVE  CutoverTypeOK'
BY DEF CutoverTypeOK

\* Types are kept by every step of the server and of the run.
LEMMA TypesStay ==
    ASSUME Inv, [Next]_vars
    PROVE  CutoverTypeOK'
<1> USE DEF CutoverTypeOK, Goes, Keeps, Ends, At
<1>0. CutoverTypeOK /\ StepsInOrder /\ JobsAreKnown
  BY DEF Inv
<1>1. CASE AppWrites
  <2>1. /\ UNCHANGED <<step, web, tasks, served, jobs, run, outcome, attempts, chosen, abandoned, content>>
        /\ Writes(NewWrite) \/ UNCHANGED data
    BY <1>1 DEF AppWrites, services, history, cutover
  <2>2. data' \in [Volume -> (SUBSET Write) \cup {None}] /\ byApp' \subseteq Write
    BY <1>0, <1>1, <2>1, WriteIsAdded DEF AppWrites, Inv
  <2>3. running' \subseteq running
    BY <1>1 DEF AppWrites
  <2> QED
    BY <1>0, <2>1, <2>2, <2>3
<1>2. CASE Precheck
  <2>1. NewRun \in Run
    BY <1>0 DEF NewRun, Run, Volume
  <2>2. attempts' \in 0..MaxAttempts
    <3>1. attempts \in 0..MaxAttempts /\ attempts < MaxAttempts /\ attempts' = attempts + 1
      BY <1>0, <1>2 DEF Precheck
    <3> QED
      BY <3>1, CutoverAssumption
  <2> QED
    BY <1>0, <1>2, <2>1, <2>2 DEF Precheck, services, database, history, Forward
<1>3. CASE StopTasks
  BY <1>0, <1>3 DEF StopTasks, StepsInOrder, JobsAreKnown, Preparing, Unexposed,
         Committed, Rollback, Forward, services, database, backupVars, Run, JobState, Volume
<1>4. CASE StopWeb
  BY <1>0, <1>4 DEF StopWeb, StepsInOrder, JobsAreKnown, Preparing, Unexposed,
         Committed, Rollback, Forward, services, database, backupVars, Run, JobState, Volume
<1>5. CASE BackupIsMade
  BY <1>0, <1>5 DEF BackupIsMade, StepsInOrder, JobsAreKnown, Preparing, Unexposed,
         Committed, Rollback, Forward, services, database, backupVars, Run, JobState, Volume
<1>6. CASE ReceiptArrives
  BY <1>0, <1>6 DEF ReceiptArrives, StepsInOrder, JobsAreKnown, Preparing, Unexposed,
         Committed, Rollback, Forward, services, database, backupVars, Run, JobState, Volume
<1>7. CASE JobsArePaused
  BY <1>0, <1>7 DEF JobsArePaused, StepsInOrder, JobsAreKnown, Preparing, Unexposed,
         Committed, Rollback, Forward, services, database, backupVars, Run, JobState, Volume
<1>8. CASE Rehearse
  <2>1. data["old"] \in SUBSET Write
    BY <1>0 DEF Inv, VolumesInStep, Volume
  <2>2. run' \in Run
    BY <1>0, <1>8, <2>1 DEF Rehearse, Run
  <2> QED
    BY <1>0, <1>8, <2>2 DEF Rehearse, services, database, Forward
<1>9. CASE MakeVolume
  BY <1>0, <1>9 DEF MakeVolume, StepsInOrder, JobsAreKnown, Preparing, Unexposed,
         Committed, Rollback, Forward, services, database, backupVars, Run, JobState, Volume
<1>10. CASE FillVolume
  BY <1>0, <1>10 DEF FillVolume, StepsInOrder, JobsAreKnown, Preparing, Unexposed,
         Committed, Rollback, Forward, services, database, backupVars, Run, JobState,
         Volume, CloneJobs
<1>11. CASE StartDatabase
  BY <1>0, <1>11 DEF StartDatabase, StepsInOrder, JobsAreKnown, Preparing, Unexposed,
         Committed, Rollback, Forward, services, database, backupVars, Run, JobState, Volume
<1>12. CASE VerifyDatabase
  BY <1>0, <1>12 DEF VerifyDatabase, StepsInOrder, JobsAreKnown, Preparing,
         Unexposed, Committed, Rollback, Forward, services, database, backupVars, Run,
         JobState, Volume
<1>13. CASE StartPrivateWeb
  BY <1>0, <1>13 DEF StartPrivateWeb, StepsInOrder, JobsAreKnown, Preparing,
         Unexposed, Committed, Rollback, Forward, services, database, backupVars, Run,
         JobState, Volume
<1>14. CASE InspectWeb
  <2>1. run' \in Run
    BY <1>0, <1>14 DEF InspectWeb, Run
  <2>2. step' \in {"failed", "commit"}
    BY <1>14 DEF InspectWeb
  <2> QED
    BY <1>0, <1>14, <2>1, <2>2 DEF InspectWeb, services, database, Forward
<1>15. CASE Commit
  BY <1>0, <1>15 DEF Commit, StepsInOrder, JobsAreKnown, Preparing, Unexposed,
         Committed, Rollback, Forward, services, database, backupVars, Run, JobState, Volume
<1>16. CASE JobsAreResumed
  BY <1>0, <1>16 DEF JobsAreResumed, StepsInOrder, JobsAreKnown, Preparing,
         Unexposed, Committed, Rollback, Forward, services, database, backupVars, Run,
         JobState, Volume
<1>17. CASE Expose
  BY <1>0, <1>17 DEF Expose, StepsInOrder, JobsAreKnown, Preparing, Unexposed,
         Committed, Rollback, Forward, services, database, backupVars, Run, JobState, Volume
<1>18. CASE StartTasks
  BY <1>0, <1>18 DEF StartTasks, StepsInOrder, JobsAreKnown, Preparing, Unexposed,
         Committed, Rollback, Forward, services, database, history, backupVars, Run,
         JobState, Volume
<1>19. CASE GivesUp
  BY <1>0, <1>19 DEF GivesUp, StepsInOrder, JobsAreKnown, Preparing, Unexposed,
         Committed, Rollback, Forward, services, database, backupVars, Run, JobState,
         Volume, WaitsTooLong
<1>20. CASE Decide
  BY <1>0, <1>20 DEF Decide, StepsInOrder, JobsAreKnown, Preparing, Unexposed,
         Committed, Rollback, Forward, services, database, history, backupVars, Run,
         JobState, Volume, MayRevert
<1>21. CASE UndoWeb
  BY <1>0, <1>21 DEF UndoWeb, StepsInOrder, JobsAreKnown, Preparing, Unexposed,
         Committed, Rollback, Forward, services, database, backupVars, Run, JobState, Volume
<1>22. CASE UndoDatabase
  BY <1>0, <1>22 DEF UndoDatabase, StepsInOrder, JobsAreKnown, Preparing, Unexposed,
         Committed, Rollback, Forward, services, database, backupVars, Run, JobState, Volume
<1>23. CASE JobsAreUndone
  BY <1>0, <1>23 DEF JobsAreUndone, StepsInOrder, JobsAreKnown, Preparing, Unexposed,
         Committed, Rollback, Forward, services, database, backupVars, Run, JobState, Volume
<1>24. CASE UndoServices
  BY <1>0, <1>24 DEF UndoServices, StepsInOrder, JobsAreKnown, Preparing, Unexposed,
         Committed, Rollback, Forward, services, database, history, backupVars, Run,
         JobState, Volume
<1>25. CASE CallFails
  BY <1>0, <1>25 DEF CallFails, StepsInOrder, JobsAreKnown, Preparing, Unexposed,
         Committed, Rollback, Forward, services, database, history, backupVars, Run,
         JobState, Volume
<1>26. CASE Dies
  BY <1>0, <1>26 DEF Dies, StepsInOrder, JobsAreKnown, Preparing, Unexposed,
         Committed, Rollback, Forward, services, database, backupVars, Run, JobState, Volume
<1>27. ASSUME NEW j \in Job, JobStarts(j)
      PROVE  CutoverTypeOK'
  <2>1. /\ running' = running \cup {j} /\ jobs[served][j] = "scheduled"
        /\ UNCHANGED <<services, data, jobs, byApp, history, cutover>>
    BY <1>27 DEF JobStarts
  <2>2. running' \subseteq {i \in Job : jobs[served][i] # "absent"}
    BY <1>0, <2>1
  <2> QED
    BY <1>0, <2>1, <2>2 DEF services, history, cutover
<1>28. ASSUME NEW j \in Job, JobEnds(j)
      PROVE  CutoverTypeOK'
  <2>1. /\ UNCHANGED <<step, web, tasks, served, jobs, run, outcome, attempts, chosen, abandoned, content>>
        /\ Writes(NewWrite) \/ UNCHANGED data
    BY <1>28 DEF JobEnds, services, history, cutover
  <2>2. data' \in [Volume -> (SUBSET Write) \cup {None}] /\ byApp' \subseteq Write
    BY <1>0, <1>28, <2>1, WriteIsAdded DEF JobEnds, Inv
  <2>3. running' \subseteq running
    BY <1>28 DEF JobEnds
  <2> QED
    BY <1>0, <2>1, <2>2, <2>3
<1>29. ASSUME NEW j \in Job, PauseJob(j)
      PROVE  CutoverTypeOK'
  BY <1>0, <1>29 DEF PauseJob, StepsInOrder, JobsAreKnown, Preparing, Unexposed,
         Committed, Rollback, Forward, services, database, backupVars, Run, JobState, Volume
<1>30. ASSUME NEW j \in Job, ResumeJob(j)
      PROVE  CutoverTypeOK'
  <2>1. /\ step = "resume"
        /\ jobs' = [jobs EXCEPT !["new"][j] = Desired(run.original)[j]]
        /\ UNCHANGED <<services, data, running, byApp, history, cutover>>
    BY <1>30 DEF ResumeJob, SetJob, history, cutover
  <2>2. Desired(run.original) \in JobState
    BY <1>0, DesiredIsJobState DEF Run
  <2>3. jobs' \in [Volume -> JobState]
    BY <1>0, <2>1, <2>2 DEF JobState, Volume
  <2>4. served = "new"
    BY <1>0, <2>1 DEF StepsInOrder, Committed
  <2>5. jobs["new"][j] = "absent" <=> Desired(run.original)[j] = "absent"
    BY <1>0, <2>1 DEF JobsAreKnown
  <2>6. \A i \in Job : jobs'["new"][i] = "absent" <=> jobs["new"][i] = "absent"
    BY <1>0, <2>1, <2>5 DEF JobState, Volume
  <2>7. running \subseteq {i \in Job : jobs'["new"][i] # "absent"}
    BY <1>0, <2>4, <2>6
  <2>8. UNCHANGED <<step, web, tasks, served, data, running, byApp, run, outcome,
                    attempts, chosen, abandoned, content>>
    BY <2>1 DEF services, history, cutover
  <2>9. CutoverTypeOK
    BY <1>0
  <2> HIDE DEF CutoverTypeOK
  <2> QED
    BY <2>3, <2>4, <2>7, <2>8, <2>9, JobsAlone
<1>31. ASSUME NEW j \in Job, UndoJob(j)
      PROVE  CutoverTypeOK'
  <2>1. /\ step = "undo jobs" /\ jobs["old"][j] # run.original[j]
        /\ jobs' = [jobs EXCEPT !["old"][j] = run.original[j]]
        /\ UNCHANGED <<services, data, running, byApp, history, cutover>>
    BY <1>31 DEF UndoJob, SetJob, history, cutover
  <2>2. run.original \in JobState /\ jobs \in [Volume -> JobState]
    BY <1>0 DEF Run
  <2>3. jobs' \in [Volume -> JobState]
    BY <2>1, <2>2 DEF JobState, Volume
  <2>4. served = "old"
    BY <1>0, <2>1 DEF StepsInOrder
  <2>5. \A i \in Job : jobs["old"][i] = "absent" <=> run.original[i] = "absent"
    BY <1>0 DEF JobsAreKnown
  <2>6. \A i \in Job : jobs'["old"][i] = "absent" <=> jobs["old"][i] = "absent"
    BY <2>1, <2>2, <2>5 DEF JobState, Volume
  <2>7. running \subseteq {i \in Job : jobs'["old"][i] # "absent"}
    BY <1>0, <2>4, <2>6
  <2>8. UNCHANGED <<step, web, tasks, served, data, running, byApp, run, outcome,
                    attempts, chosen, abandoned, content>>
    BY <2>1 DEF services, history, cutover
  <2>9. CutoverTypeOK
    BY <1>0
  <2> HIDE DEF CutoverTypeOK
  <2> QED
    BY <2>3, <2>4, <2>7, <2>8, <2>9, JobsAlone
<1>32. ASSUME NEW a \in Archive, FrozenBackup(a)
      PROVE  CutoverTypeOK'
  <2>1. data[served] \in SUBSET Write
    BY <1>0 DEF Inv, VolumesInStep, Volume
  <2>2. content' \in [Archive -> SUBSET Write] /\ run' \in Run
    BY <1>0, <1>32, <2>1 DEF FrozenBackup, Run
  <2> QED
    BY <1>0, <1>32, <2>2 DEF FrozenBackup, services, database
<1>33. CASE \/ \E a \in Archive : BackupRuns(a) \/ BackupStops(a)
            \/ \E a \in Archive, frozen \in BOOLEAN : Publish(a, frozen)
            \/ PCPulls \/ UNCHANGED vars
  <2>1. UNCHANGED <<services, database, history, cutover>>
    BY <1>33 DEF BackupRuns, BackupStops, Publish, PCPulls, vars
  <2> QED
    BY <1>0, <2>1 DEF services, database, history, cutover
<1> QED
  BY <1>1, <1>2, <1>3, <1>4, <1>5, <1>6, <1>7, <1>8, <1>9, <1>10, <1>11, <1>12,
         <1>13, <1>14, <1>15, <1>16, <1>17, <1>18, <1>19, <1>20, <1>21, <1>22, <1>23, <1>24,
         <1>25, <1>26, <1>27, <1>28, <1>29, <1>30, <1>31, <1>32, <1>33 DEF Next, GoesOn

-------------------------------------------------------------------------------
(* The invariant *)

\* A cutover keeps what is shown above of the archives and of the PC.
LEMMA BackupsStayRight ==
    ASSUME Inv, [Next]_vars
    PROVE  BackupsInv'
<1>0. BackupsInv /\ run \in Run
  BY DEF Inv, CutoverTypeOK
<1>1. ASSUME NEW a \in Archive, FrozenBackup(a) \/ BackupRuns(a) \/ BackupStops(a)
      PROVE  BackupsInv'
  BY <1>0, <1>1, ServerStep DEF FrozenBackup, BackupRuns, BackupStops
<1>2. CASE PCPulls
  <2>1. run.fresh \in Archive \cup {None}
    BY <1>0 DEF Run
  <2> QED
    BY <1>0, <1>2, <2>1, PullStep DEF PCPulls, PullBeginsOnce
<1>3. ASSUME NEW a \in Archive, NEW frozen \in BOOLEAN, Publish(a, frozen)
      PROVE  BackupsInv'
  BY <1>0, <1>3, PublishStep DEF Publish
<1>4. CASE CallFails \/ Decide \/ Dies
  <2>1. UNCHANGED <<now, server, pc>> /\ faults' \in 0..MaxFaults
    <3>1. /\ UNCHANGED <<now, server, pc>>
          /\ faults' = faults \/ (faults < MaxFaults /\ faults' = faults + 1)
      BY <1>4 DEF CallFails, Decide, Dies, Goes, Ends, Fault
    <3>2. faults \in 0..MaxFaults
      BY <1>0 DEF BackupsInv, BackupsTypeOK
    <3> QED
      BY <3>1, <3>2, BackupsAssumption
  <2> QED
    BY <1>0, <2>1
    DEF BackupsInv, BackupsTypeOK, KeepsOrTransfers, ReceiptsAreTrue, server, pc
<1>5. CASE UNCHANGED backupVars
  BY <1>0, <1>5
  DEF backupVars, server, pc, BackupsInv, BackupsTypeOK, KeepsOrTransfers, ReceiptsAreTrue
<1>6. CASE AppWrites \/ (\E j \in Job : JobStarts(j) \/ JobEnds(j)) \/ Precheck
           \/ UNCHANGED vars
  BY <1>5, <1>6 DEF AppWrites, JobStarts, JobEnds, Precheck, vars
<1>7. ASSUME GoesOn, ~Decide, \A a \in Archive : ~FrozenBackup(a)
      PROVE  BackupsInv'
  <2>1. UNCHANGED backupVars
    BY <1>7 DEF GoesOn, Keeps, StopTasks, StopWeb, BackupIsMade, ReceiptArrives, JobsArePaused,
           PauseJob, ResumeJob, UndoJob, SetJob, Rehearse, MakeVolume, FillVolume,
           StartDatabase, VerifyDatabase, StartPrivateWeb, InspectWeb, Commit,
           JobsAreResumed, Expose, StartTasks, GivesUp, UndoWeb, UndoDatabase,
           JobsAreUndone, UndoServices
  <2> QED
    BY <1>5, <2>1
<1> QED
  BY <1>1, <1>2, <1>3, <1>4, <1>6, <1>7 DEF Next

\* The server starts before any cutover, on its old volume.
LEMMA InvInit == Init => Inv
<1> SUFFICES ASSUME Init PROVE Inv
  OBVIOUS
<1> USE DEF Init
<1>1. 1 \in Archive
  BY BackupsAssumption, CutoverAssumption DEF Archive
<1>2. BackupsInv
  <2>1. BackupsTypeOK
    <3>0. PICK size \in Sizes :
            archive = [a \in Archive |->
                        IF a = 1 THEN [at |-> 0, whole |-> TRUE, size |-> size] ELSE None]
      OBVIOUS
    <3>1. 0 \in Time
      BY BackupsAssumption DEF Time
    <3>3. [at |-> 0, whole |-> TRUE, size |-> size] \in ArchiveFile
      BY <3>1 DEF ArchiveFile
    <3>4. archive \in [Archive -> ArchiveFile \cup {None}]
      BY <3>0, <3>3
    <3>5. sidecar \in [Archive -> File \cup {None}]
      BY <3>1 DEF File
    <3>2. receipt \in [Archive -> [at : Time, frozen : BOOLEAN] \cup {None}]
      BY BackupsAssumption DEF Time
    <3>6. now \in Time /\ faults \in 0..MaxFaults
      BY <3>1, BackupsAssumption
    <3>7. /\ backup \in [Archive -> {"idle", "encrypt", "prove", "rotate", "done", "died"}]
          /\ copies \subseteq Archive /\ proofs \subseteq copies /\ pulling = None
      BY <1>1
    <3> HIDE DEF Init
    <3> QED
      BY <3>2, <3>4, <3>5, <3>6, <3>7 DEF BackupsTypeOK
  <2> QED
    BY <2>1 DEF BackupsInv, KeepsOrTransfers, ReceiptsAreTrue
<1>3. jobs["old"] = chosen /\ jobs["new"] = [j \in Job |-> "absent"] /\ chosen \in JobState
  BY DEF Volume
<1>4. run \in Run /\ run.original = chosen
  BY <1>3 DEF NewRun, Run
<1>5. CutoverTypeOK
  <2>1. jobs \in [Volume -> JobState]
    BY <1>3 DEF Volume, JobState
  <2>2. data \in [Volume -> (SUBSET Write) \cup {None}]
    OBVIOUS
  <2>3. attempts \in 0..MaxAttempts
    BY CutoverAssumption
  <2>4. content \in [Archive -> SUBSET Write] /\ byApp \subseteq Write
    OBVIOUS
  <2> QED
    BY <1>3, <1>4, <2>1, <2>2, <2>3, <2>4 DEF CutoverTypeOK, Volume
<1>6. StepsInOrder /\ AtRest
  BY DEF StepsInOrder, AtRest, Preparing, Unexposed, Committed
<1>7. VolumesInStep
  <2>1. data["old"] = {} /\ data["new"] = None /\ {} # None
    BY CutoverAssumption DEF Volume
  <2> QED
    BY <1>4, <2>1 DEF VolumesInStep, NewRun
<1>8. JobsAreKnown /\ JobsAreKept
  <2>1. chosen[Replacement] = "absent"
    BY CutoverAssumption
  <2>2. JobsAreKnown
    BY <1>3, <1>4 DEF JobsAreKnown, Unexposed
  <2>3. outcome # "passed" /\ served = "old" /\ step = "idle"
    BY CutoverAssumption
  <2> QED
    BY <1>3, <1>4, <2>1, <2>2, <2>3 DEF JobsAreKept
<1>9. CopyIsFrozen
  BY DEF CopyIsFrozen, Preparing, Unexposed
<1> QED
  BY <1>2, <1>5, <1>6, <1>7, <1>8, <1>9 DEF Inv

\* The invariant the four results below are read from.
THEOREM InvHolds == Spec => []Inv
<1>1. Inv /\ [Next]_vars => Inv'
  BY BackupsStayRight, TypesStay, StepsStayInOrder, WritersStayAtRest, VolumesStayInStep,
     JobsStayKnown, JobsStayKept, CopyStaysFrozen DEF Inv
<1> QED
  BY InvInit, <1>1, PTL DEF Spec

-------------------------------------------------------------------------------

\* Types hold, wherever a run fails or is killed.
THEOREM TypeCorrect == Spec => []TypeOK
<1>1. Inv => TypeOK
  BY DEF Inv, TypeOK, BackupsInv
<1> QED
  BY <1>1, InvHolds, PTL

\* The volume that is served always holds every write ever made: rolling back,
\* exposing and resuming jobs never step behind a write.
THEOREM WritesAreKept == Spec => []NoWriteIsLost
<1>1. Inv => NoWriteIsLost
  BY DEF Inv, CutoverTypeOK, VolumesInStep, NoWriteIsLost, Written, Volume
<1> QED
  BY <1>1, InvHolds, PTL

\* From the receipt until the new volume is exposed, the PC holds every write of
\* the application, with the proof of the archive they are in.
THEOREM FrozenCopyCorrect == Spec => []FrozenCopyIsComplete
<1>1. Inv => FrozenCopyIsComplete
  BY DEF Inv, CopyIsFrozen, FrozenCopyIsComplete, Preparing, Unexposed
<1> QED
  BY <1>1, InvHolds, PTL

\* Schedules of jobs survive a cutover, or its rollback, whatever their number.
THEOREM JobsCorrect == Spec => []JobsAsChosen
<1>1. ASSUME Inv PROVE JobsAsChosen
  <2>1. SUFFICES ASSUME step = "idle", outcome \in {"passed", "aborted"}, ~abandoned,
                        NEW j \in Job, chosen[j] # "absent"
                 PROVE  jobs[served][IF served = "new" THEN Successor(j) ELSE j] = chosen[j]
    BY DEF JobsAsChosen
  <2>2. CASE outcome = "aborted"
    BY <1>1, <2>1, <2>2 DEF Inv, JobsAreKept
  <2>3. CASE outcome = "passed"
    <3>1. served = "new" /\ jobs["new"] = Desired(chosen) /\ chosen[Replacement] = "absent"
      BY <1>1, <2>1, <2>3 DEF Inv, JobsAreKept
    <3>2. Successor(j) \in Job
      BY CutoverAssumption DEF Successor
    <3>3. \A i \in Job : Successor(i) = Successor(j) /\ chosen[i] # "absent" => i = j
      BY <2>1, <3>1 DEF Successor
    <3>4. Desired(chosen)[Successor(j)] = chosen[j]
      BY <2>1, <3>2, <3>3 DEF Desired
    <3> QED
      BY <3>1, <3>4
  <2> QED
    BY <2>1, <2>2, <2>3
<1> QED
  BY <1>1, InvHolds, PTL
================================================================================
