-------------------------------- MODULE Backups --------------------------------
(***************************************************************************)
(* The encrypted backups: backup_taxi_core writes an archive, then its     *)
(* proof beside it, then rotates; the operator's PC pulls what has a proof *)
(* and may publish a receipt of one copy back to the server. Archives are  *)
(* numbered in the order of their stamps.                                  *)
(***************************************************************************)
EXTENDS Integers, FiniteSets, FiniteSetsExt, Sums

CONSTANTS
    KEEP,           \* 14 days
    MAX_ARCHIVES,   \* 64, on either side
    MAX_ARCHIVE,    \* 512 MiB: an archive
    MAX_TOTAL,      \* 2 GiB: what one pull transfers
    Sizes,          \* environment: sizes of archives
    MaxBackups,     \* bound: backups ever begun
    MaxFaults,      \* bound: processes that die, calls that fail
    MaxTime,        \* bound: the clock
    None

ASSUME BackupsAssumption ==
    /\ KEEP \in Nat /\ MAX_ARCHIVES \in Nat \ {0}
    /\ MAX_ARCHIVE \in Nat /\ MAX_TOTAL \in Nat /\ Sizes \subseteq Nat \ {0}
    /\ MaxBackups \in Nat /\ MaxFaults \in Nat /\ MaxTime \in Nat

Archive == 1..MaxBackups
Time == 0..MaxTime

VARIABLES
    now,
    backup,     \* where the process that makes each archive is
    archive,    \* the file on the server: when last written, and if complete
    sidecar,    \* its proof, likewise
    receipt,    \* the PC's receipt on the server, likewise; writers_frozen
    copies,     \* archives on the PC, under their names
    proofs,     \* sidecars on the PC
    pulling,    \* the pull under way
    faults

server == <<backup, archive, sidecar, receipt>>
pc == <<copies, proofs, pulling>>
backupVars == <<now, server, pc, faults>>

\* An archive that is not whole has no size yet.
ArchiveFile == [at : Time, whole : BOOLEAN, size : Sizes \cup {0}]
File == [at : Time, whole : BOOLEAN]
Pull == [rows : SUBSET Archive, transfer : SUBSET Archive,
         wanted : Archive \cup {None}]

BackupsTypeOK ==
    /\ now \in Time
    /\ backup \in [Archive -> {"idle", "encrypt", "prove", "rotate", "done", "died"}]
    /\ archive \in [Archive -> ArchiveFile \cup {None}]
    /\ sidecar \in [Archive -> File \cup {None}]
    /\ receipt \in [Archive -> [at : Time, frozen : BOOLEAN] \cup {None}]
    /\ copies \subseteq Archive /\ proofs \subseteq copies
    /\ pulling \in Pull \cup {None}
    /\ faults \in 0..MaxFaults

BackupsInit ==
    /\ now = 0
    /\ backup = [a \in Archive |-> "idle"]
    /\ archive = [a \in Archive |-> None]
    /\ sidecar = archive /\ receipt = archive
    /\ copies = {} /\ proofs = {} /\ pulling = None
    /\ faults = 0

Fault == faults < MaxFaults /\ faults' = faults + 1

\* The unlinks of a rotation follow its reading of the clock at once.
Tick ==
    /\ now < MaxTime
    /\ \A a \in Archive : backup[a] # "rotate"
    /\ now' = now + 1
    /\ UNCHANGED <<server, pc, faults>>

-------------------------------------------------------------------------------
(* backup_taxi_core, a process for each archive *)

\* The dump is taken; age writes to the final name as it goes.
BackupBegins(a) ==
    /\ backup[a] = "idle"
    /\ \A b \in Archive : b < a => backup[b] # "idle"
    /\ backup' = [backup EXCEPT ![a] = "encrypt"]
    /\ archive' = [archive EXCEPT ![a] = [at |-> now, whole |-> FALSE, size |-> 0]]
    /\ UNCHANGED <<now, sidecar, receipt, pc, faults>>

Encrypted(a) ==
    /\ backup[a] = "encrypt"
    /\ backup' = [backup EXCEPT ![a] = "prove"]
    /\ \E size \in Sizes :
        archive' = [archive EXCEPT ![a] = [at |-> now, whole |-> TRUE, size |-> size]]
    /\ UNCHANGED <<now, sidecar, receipt, pc, faults>>

WriteProof(a) ==
    /\ backup[a] = "prove"
    /\ archive[a] # None
    /\ backup' = [backup EXCEPT ![a] = "rotate"]
    /\ sidecar' = [sidecar EXCEPT ![a] = [at |-> now, whole |-> TRUE]]
    /\ UNCHANGED <<now, archive, receipt, pc, faults>>

UnderWay(a) == backup[a] \in {"encrypt", "prove", "rotate"}

\* The write of the proof is not atomic.
BackupDies(a) ==
    /\ UnderWay(a)
    /\ Fault
    /\ backup' = [backup EXCEPT ![a] = "died"]
    /\ \/ UNCHANGED sidecar
       \/ /\ backup[a] = "prove"
          /\ sidecar' = [sidecar EXCEPT ![a] = [at |-> now, whole |-> FALSE]]
    /\ UNCHANGED <<now, archive, receipt, pc>>

\* Each file by its own date.
IsOld(file) == file # None /\ file.at < now - KEEP

Unlink(a) ==
    /\ backup[a] = "rotate"
    /\ \E b \in Archive :
        \/ /\ IsOld(archive[b])
           /\ archive' = [archive EXCEPT ![b] = None]
           /\ UNCHANGED <<sidecar, receipt>>
        \/ /\ IsOld(sidecar[b])
           /\ sidecar' = [sidecar EXCEPT ![b] = None]
           /\ UNCHANGED <<archive, receipt>>
        \/ /\ IsOld(receipt[b])
           /\ receipt' = [receipt EXCEPT ![b] = None]
           /\ UNCHANGED <<archive, sidecar>>
    /\ UNCHANGED <<now, backup, pc, faults>>

BackupEnds(a) ==
    /\ backup[a] = "rotate"
    /\ \A b \in Archive :
        ~IsOld(archive[b]) /\ ~IsOld(sidecar[b]) /\ ~IsOld(receipt[b])
    /\ backup' = [backup EXCEPT ![a] = "done"]
    /\ UNCHANGED <<now, archive, sidecar, receipt, pc, faults>>

BackupGoesOn(a) ==
    Encrypted(a) \/ WriteProof(a) \/ Unlink(a) \/ BackupEnds(a)

-------------------------------------------------------------------------------
(* pull_backups_to_operator, and the copy of one archive it serves *)

Rows == {a \in Archive : sidecar[a] # None}

IsPaired(a) ==
    /\ archive[a] # None /\ sidecar[a] # None
    /\ archive[a].whole /\ sidecar[a].whole

\* What the PC says it has.
Known ==
    {a \in copies : Cardinality({b \in copies : b > a}) < MAX_ARCHIVES}

\* Mutant: whatever the PC says it has.
ToTransferAll == Rows

\* What the server sends.
ToTransfer == Rows \ Known

Bytes(S) == SumOver([a \in S |-> archive[a].size], S)

\* What a pull may be long: in rows, and in bytes.
IsWithinLimits ==
    /\ \A a \in Rows : archive[a].size <= MAX_ARCHIVE
    /\ Cardinality(Rows) <= MAX_ARCHIVES
    /\ Bytes(ToTransfer) <= MAX_TOTAL

\* One bad row refuses them all, and so does one archive that is too large, or a
\* backlog; the PC checks the limits again.
ServerLists == Rows # {} /\ (\A a \in Rows : IsPaired(a)) /\ IsWithinLimits

\* wanted: the archive copy_backup is to certify, or None for the daily pull.
PullBegins(wanted) ==
    /\ pulling = None
    /\ ServerLists
    /\ pulling' = [rows |-> Rows, transfer |-> ToTransfer, wanted |-> wanted]
    /\ UNCHANGED <<now, server, copies, proofs, faults>>

NextRow(a) ==
    /\ pulling # None
    /\ a \in pulling.rows /\ \A b \in pulling.rows : a <= b

\* Published by a link once its digest is checked: a name already there is kept.
CanReceive(a) == archive[a] # None /\ a \notin copies

ReceiveArchive(a) ==
    /\ NextRow(a) /\ a \in pulling.transfer
    /\ CanReceive(a)
    /\ copies' = copies \cup {a}
    /\ pulling' = [pulling EXCEPT !.transfer = @ \ {a}]
    /\ UNCHANGED <<now, server, proofs, faults>>

ReceiveProof(a) ==
    /\ NextRow(a) /\ a \notin pulling.transfer
    /\ proofs' = proofs \cup {a}
    /\ pulling' = [pulling EXCEPT !.rows = @ \ {a}]
    /\ UNCHANGED <<now, server, copies, faults>>

PullRaises ==
    /\ \E a \in Archive : NextRow(a) /\ a \in pulling.transfer /\ ~CanReceive(a)
    /\ pulling' = None
    /\ UNCHANGED <<now, server, copies, proofs, faults>>

PullIsInterrupted ==
    /\ pulling # None
    /\ Fault
    /\ pulling' = None
    /\ UNCHANGED <<now, server, copies, proofs>>

PullIsDone == pulling # None /\ pulling.rows = {}

PullEnds ==
    /\ PullIsDone /\ pulling.wanted = None
    /\ pulling' = None
    /\ UNCHANGED <<now, server, copies, proofs, faults>>

\* Mutant: that the pull ended without error is taken for a copy.
CopyIsAssumed(a) == PullIsDone

\* The copy is there, has the digest of its sidecar, decrypts to the dump.
CopyIsVerified(a) == a \in copies /\ a \in proofs

\* The server checks its own files again before it takes the receipt.
PublishReceipt(a, frozen) ==
    /\ PullIsDone /\ pulling.wanted = a
    /\ CopyIsVerified(a)
    /\ IsPaired(a)
    /\ receipt' = [receipt EXCEPT ![a] = [at |-> now, frozen |-> frozen]]
    /\ pulling' = None
    /\ UNCHANGED <<now, backup, archive, sidecar, copies, proofs, faults>>

ReceiptIsRefused ==
    /\ PullIsDone /\ pulling.wanted # None
    /\ pulling' = None
    /\ UNCHANGED <<now, server, copies, proofs, faults>>

PullGoesOn ==
    \/ \E a \in Archive : ReceiveArchive(a) \/ ReceiveProof(a)
    \/ PullRaises \/ PullEnds \/ ReceiptIsRefused

\* Cron calls a wrapper that holds a lock.
DailyBackup(a) ==
    /\ \A b \in Archive : ~UnderWay(b) /\ (archive[b] # None => archive[b].at < now)
    /\ BackupBegins(a)

PullBeginsOnce == \E wanted \in Archive \cup {None} : PullBegins(wanted)

BackupsNext ==
    \/ Tick
    \/ \E a \in Archive : DailyBackup(a) \/ BackupGoesOn(a) \/ BackupDies(a)
    \/ PullBeginsOnce \/ PullGoesOn \/ PullIsInterrupted
    \/ \E a \in Archive : PublishReceipt(a, FALSE)

BackupsSpec == BackupsInit /\ [][BackupsNext]_backupVars

\* A timer starts the pull every day; what has begun goes on.
BackupsFairSpec ==
    /\ BackupsSpec
    /\ WF_backupVars(PullBeginsOnce)
    /\ WF_backupVars(PullGoesOn)
    /\ WF_backupVars(\E a \in Archive : BackupGoesOn(a))

-------------------------------------------------------------------------------
(* Properties *)

\* A receipt on the server is true: the PC holds that archive and its proof,
\* also if pulls were interrupted between the two, or files were rotated.
ReceiptsAreTrue ==
    \A a \in Archive : receipt[a] # None => a \in copies /\ a \in proofs

\* The server lists nothing that was copied more than MAX_ARCHIVES names ago.
ListsWhatIsKnown ==
    \A a \in Rows \cap copies : Cardinality({b \in copies : b > a}) < MAX_ARCHIVES

\* A finished backup reaches the PC with its proof, however often a pull is
\* interrupted between the two, unless it is rotated first or the server
\* refuses to list: for a proof without its archive or that it cannot read, for
\* an archive above its limit, or for more rows or bytes than a pull takes.
EveryBackupReachesThePC ==
    \A a \in Archive :
        IsPaired(a) ~> \/ a \in copies /\ a \in proofs
                       \/ ~IsPaired(a)
                       \/ ~ServerLists \/ ~ListsWhatIsKnown
===============================================================================
