---------------------------- MODULE PairReplace ----------------------------
(***************************************************************************)
(* internal/sync/sync.go, replacePair: the replacement of one certificate  *)
(* and private key pair in a destination directory, file system call by    *)
(* file system call, with failing calls and process crashes between any    *)
(* two of them.  Calls for one destination are serialized by               *)
(* replacementLocks, so the model has one call at a time; calls follow     *)
(* each other for ever, as syncs do.                                       *)
(*                                                                         *)
(* A directory is the set of its files.  A file has a kind (cert or key),  *)
(* the role its name gives it, and the bundle its bytes come from:         *)
(*   live    <target>.pem or <target>.key                                  *)
(*   stage   .<target>-cert-sync-*.tmp, written and fsynced beforehand     *)
(*   backup  .<target>-cert-backup-*.tmp of the call in progress           *)
(*   orphan  such a file whose name no running call remembers              *)
(***************************************************************************)
EXTENDS Naturals

CONSTANTS
    Bundles,     \* the certificate bundles a destination may hold
    Empty,       \* the content of a freshly created temporary file
    Wanted,      \* the bundles a sync may ask for
    FaultyOps,   \* the file system operations that may return an error
    MaxFaults,   \* bound: errors per behaviour
    MaxCrashes   \* bound: crashes per behaviour

Kinds == {"cert", "key"}
Roles == {"live", "stage", "backup", "orphan"}
Ops   == {"readDir", "createTemp", "lstat", "remove", "rename", "read", "syncDir"}

ASSUME ConstantsAssumption ==
    /\ Empty \notin Bundles
    /\ Wanted \subseteq Bundles
    /\ FaultyOps \subseteq Ops
    /\ MaxFaults \in Nat /\ MaxCrashes \in Nat

VARIABLES
    dir,         \* the files of the destination directory, as a process sees it
    unsynced,    \* the directories a crash may leave: every state since the last fsync
    pc,          \* the next file system call of replacePair
    at,          \* the kind the loop or helper at pc works on
    want,        \* certPEM, keyPEM: the bundle this call installs
    old,         \* certOld, keyOld: absent, kept (existed) or moved (backedUp)
    rollbackErr, \* failWithRollback met an error
    outcome,     \* what the last call returned
    before,      \* ghost: the live files when the call began
    owed,        \* ghost: the kind and bundle of the files that must not be lost
    faults, crashes

vars == <<dir, unsynced, pc, at, want, old, rollbackErr, outcome, before, owed,
          faults, crashes>>
disk == <<dir, unsynced>>
call == <<at, want, old, rollbackErr, before>>

----------------------------------------------------------------------------
(* Directories *)

File(k, r, b) == [kind |-> k, role |-> r, data |-> b]
Files         == [kind : Kinds, role : Roles, data : Bundles \cup {Empty}]
At(d, k, r)   == {e \in d : e.kind = k /\ e.role = r}
LiveIn(d)     == {e \in d : e.role = "live"}
Staged(d)     == {e \in d : e.role = "stage"}

\* readPairAt: both files are there and come from the bundle b.
Holds(d, b) == \A k \in Kinds : At(d, k, "live") = {File(k, "live", b)}

\* rename(2): the file takes the name's place, whatever had it before.
Rename(d, k, from, to) ==
    {e \in d : ~(e.kind = k /\ e.role \in {from, to})}
        \cup {File(k, to, e.data) : e \in At(d, k, from)}

Unlink(d, k, r) == d \ At(d, k, r)

\* When a call ends nobody remembers the names of its backups.
Retire(d) == {IF e.role = "backup" THEN File(e.kind, "orphan", e.data) ELSE e : e \in d}

\* The bytes of a live, backup or orphan file can still be recovered by hand.
Keeps(d, k, b) == \E e \in d : e.kind = k /\ e.data = b /\ e.role # "stage"

Contents(d) == {<<e.kind, e.data>> : e \in LiveIn(d)}

----------------------------------------------------------------------------
(* Steps shared by the actions *)

Succeed == UNCHANGED faults
Fail(op) == op \in FaultyOps /\ faults < MaxFaults /\ faults' = faults + 1

Change(d) == dir' = d /\ unsynced' = unsynced \cup {d}
Fsync     == dir' = dir /\ unsynced' = {dir}

Goto(p, k) == pc' = p /\ at' = k

\* An early return: only the deferred removal of the staging files is left.
Leave(o) == Goto("cleanup", "cert") /\ outcome' = o

\* Mutation: failWithRollback restores the private key only.
RollbackKey == Goto("restore", "key") /\ UNCHANGED outcome

\* failWithRollback begins with restoreEntry(certOld).
Rollback == Goto("restore", "cert") /\ UNCHANGED outcome

\* The certificate first, then the private key, then the step p.
Advance(here, p) ==
    /\ IF at = "cert" THEN Goto(here, "key") ELSE Goto(p, "cert")
    /\ UNCHANGED outcome

\* An error of prepareBackup: nothing is undone for the certificate.
BackupFailed == IF at = "cert" THEN Leave("failed") ELSE Rollback

----------------------------------------------------------------------------
(* replacePair *)

\* SyncMaterial calls replacePair for a valid bundle the destination does not
\* hold yet.  The bytes live now are owed from here on, if a crash leaves them: a
\* pair half installed by a call whose rollback failed may not be on the disk yet.
Start(b) ==
    /\ pc = "idle" /\ b \in Wanted /\ ~Holds(dir, b)
    /\ want' = b
    /\ old' = [k \in Kinds |-> "absent"]
    /\ rollbackErr' = FALSE
    /\ before' = LiveIn(dir)
    /\ owed' = owed \cup {o \in Contents(dir) : \A d \in unsynced : Keeps(d, o[1], o[2])}
    /\ Goto("clean", "cert") /\ outcome' = "running"
    /\ UNCHANGED <<disk, faults, crashes>>

\* Mutation: a staging file left by a crash makes the call fail.
CleanStagingRefuses ==
    /\ pc = "clean" /\ Succeed /\ UNCHANGED disk
    /\ IF Staged(dir) = {} THEN Goto("stage", "cert") /\ UNCHANGED outcome
                          ELSE Goto("idle", "cert") /\ outcome' = "failed"
    /\ UNCHANGED <<want, old, rollbackErr, before, owed, crashes>>

\* mkdirAll and cleanupStaging: on an error some files may be gone already, and
\* the call returns before it has anything to clean up.
CleanStaging ==
    /\ pc = "clean"
    /\ \/ /\ Change(dir \ Staged(dir)) /\ Succeed
          /\ Goto("stage", "cert") /\ UNCHANGED outcome
       \/ /\ Goto("idle", "cert") /\ outcome' = "failed"
          /\ \/ Fail("readDir") /\ UNCHANGED disk
             \/ \E gone \in SUBSET Staged(dir) :
                   gone # Staged(dir) /\ Change(dir \ gone) /\ Fail("remove")
    /\ UNCHANGED <<want, old, rollbackErr, before, owed, crashes>>

\* Mutation: the staged file stays empty.
StageEmpty ==
    /\ pc = "stage"
    /\ \/ /\ Change(dir \cup {File(at, "stage", Empty)}) /\ Succeed
          /\ Advance("stage", "inspect")
       \/ Fail("createTemp") /\ Leave("failed") /\ UNCHANGED disk
    /\ UNCHANGED <<want, old, rollbackErr, before, owed, crashes>>

\* writeTempFileFS: created, written, chmodded, fsynced and closed, or removed.
Stage ==
    /\ pc = "stage"
    /\ \/ /\ Change(dir \cup {File(at, "stage", want)}) /\ Succeed
          /\ Advance("stage", "inspect")
       \/ Fail("createTemp") /\ Leave("failed") /\ UNCHANGED disk
    /\ UNCHANGED <<want, old, rollbackErr, before, owed, crashes>>

\* prepareBackup, lstat of the live file.  An error other than ErrNotExist
\* returns with existed still false.
Inspect ==
    /\ pc = "inspect"
    /\ \/ /\ At(dir, at, "live") = {} /\ Succeed
          /\ Advance("inspect", "publish") /\ UNCHANGED old
       \/ /\ At(dir, at, "live") # {} /\ Succeed
          /\ Goto("reserve", at) /\ old' = [old EXCEPT ![at] = "kept"]
          /\ UNCHANGED outcome
       \/ Fail("lstat") /\ BackupFailed /\ UNCHANGED old
    /\ UNCHANGED <<disk, want, rollbackErr, before, owed, crashes>>

\* prepareBackup, createTemp: an empty file reserves the backup's name.
Reserve ==
    /\ pc = "reserve"
    /\ \/ /\ Change(dir \cup {File(at, "backup", Empty)}) /\ Succeed
          /\ Goto("unmark", at) /\ UNCHANGED outcome
       \/ Fail("createTemp") /\ BackupFailed /\ UNCHANGED disk
    /\ UNCHANGED <<want, old, rollbackErr, before, owed, crashes>>

\* prepareBackup, removal of the reserving file.
Unmark ==
    /\ pc = "unmark"
    /\ \/ /\ Change(Unlink(dir, at, "backup")) /\ Succeed
          /\ Goto("move", at) /\ UNCHANGED outcome
       \/ Fail("remove") /\ BackupFailed /\ UNCHANGED disk
    /\ UNCHANGED <<want, old, rollbackErr, before, owed, crashes>>

\* prepareBackup, rename of the live file to the backup's name.
MoveAside ==
    /\ pc = "move"
    /\ \/ /\ Change(Rename(dir, at, "live", "backup")) /\ Succeed
          /\ old' = [old EXCEPT ![at] = "moved"]
          /\ Advance("inspect", "publish")
       \/ Fail("rename") /\ BackupFailed /\ UNCHANGED <<disk, old>>
    /\ UNCHANGED <<want, rollbackErr, before, owed, crashes>>

\* Rename of the staged file to the live name.
Publish ==
    /\ pc = "publish"
    /\ \/ /\ Change(Rename(dir, at, "stage", "live")) /\ Succeed
          /\ Advance("publish", "verify")
       \/ Fail("rename") /\ Rollback /\ UNCHANGED disk
    /\ UNCHANGED <<want, old, rollbackErr, before, owed, crashes>>

\* Mutation: the backups go before the directory is synced.
VerifyOnly ==
    /\ pc = "verify"
    /\ \/ Holds(dir, want) /\ Succeed /\ Goto("drop", "cert") /\ UNCHANGED outcome
       \/ Holds(dir, want) /\ Fail("read") /\ Rollback
       \/ ~Holds(dir, want) /\ Succeed /\ Rollback
    /\ UNCHANGED <<disk, want, old, rollbackErr, before, owed, crashes>>

\* readPairAt of what was installed, and the comparison with expectedDigest.
Verify ==
    /\ pc = "verify"
    /\ \/ Holds(dir, want) /\ Succeed /\ Goto("sync", "cert") /\ UNCHANGED outcome
       \/ Holds(dir, want) /\ Fail("read") /\ Rollback
       \/ ~Holds(dir, want) /\ Succeed /\ Rollback
    /\ UNCHANGED <<disk, want, old, rollbackErr, before, owed, crashes>>

\* syncDir: from here on the new pair is what must not be lost.
SyncInstalled ==
    /\ pc = "sync"
    /\ \/ /\ Fsync /\ Succeed /\ Goto("drop", "cert") /\ UNCHANGED outcome
          /\ owed' = Contents(dir)
       \/ Fail("syncDir") /\ Rollback /\ UNCHANGED <<disk, owed>>
    /\ UNCHANGED <<want, old, rollbackErr, before, crashes>>

\* Removal of one backup; an error returns without a rollback.
DropBackup ==
    /\ pc = "drop"
    /\ \/ /\ Succeed /\ Advance("drop", "finalSync")
          /\ IF old[at] = "moved" THEN Change(Unlink(dir, at, "backup"))
                                  ELSE UNCHANGED disk
       \/ old[at] = "moved" /\ Fail("remove") /\ Leave("leftover") /\ UNCHANGED disk
    /\ UNCHANGED <<want, old, rollbackErr, before, owed, crashes>>

FinalSync ==
    /\ pc = "finalSync"
    /\ \/ Fsync /\ Succeed /\ Leave("ok")
       \/ Fail("syncDir") /\ Leave("leftover") /\ UNCHANGED disk
    /\ UNCHANGED <<want, old, rollbackErr, before, owed, crashes>>

----------------------------------------------------------------------------
(* failWithRollback *)

\* restoreEntry up to the removal of what is live now; a file that was not
\* moved is left alone, one that did not exist is removed.
RestoreRemove ==
    /\ pc = "restore"
    /\ \/ /\ old[at] = "kept" /\ Advance("restore", "rollSync") /\ Succeed
          /\ UNCHANGED <<disk, rollbackErr>>
       \/ /\ old[at] = "absent" /\ Advance("restore", "rollSync") /\ Succeed
          /\ Change(Unlink(dir, at, "live")) /\ UNCHANGED rollbackErr
       \/ /\ old[at] = "moved" /\ Goto("putback", at) /\ Succeed
          /\ Change(Unlink(dir, at, "live")) /\ UNCHANGED <<rollbackErr, outcome>>
       \/ /\ old[at] # "kept" /\ Advance("restore", "rollSync") /\ Fail("remove")
          /\ rollbackErr' = TRUE /\ UNCHANGED disk
    /\ UNCHANGED <<want, old, before, owed, crashes>>

\* restoreEntry, rename of the backup to the live name.
PutBack ==
    /\ pc = "putback" /\ Advance("restore", "rollSync")
    /\ \/ /\ Change(Rename(dir, at, "backup", "live")) /\ Succeed
          /\ old' = [old EXCEPT ![at] = "kept"] /\ UNCHANGED rollbackErr
       \/ /\ Fail("rename") /\ rollbackErr' = TRUE /\ UNCHANGED <<disk, old>>
    /\ UNCHANGED <<want, before, owed, crashes>>

RollbackSync ==
    /\ pc = "rollSync" /\ Goto("revalidate", "cert") /\ UNCHANGED outcome
    /\ \/ Fsync /\ Succeed /\ UNCHANGED rollbackErr
       \/ Fail("syncDir") /\ rollbackErr' = TRUE /\ UNCHANGED disk
    /\ UNCHANGED <<want, old, before, owed, crashes>>

\* The restored pair is read back when there was a pair; the returned error
\* says "failed" when the rollback was clean and "broken" when it was not.
Revalidate ==
    /\ pc = "revalidate"
    /\ LET readable == \E b \in Bundles : Holds(dir, b)
           checked  == \A k \in Kinds : old[k] # "absent"
       IN \/ /\ ~rollbackErr /\ (checked => readable) /\ Succeed
             /\ Leave("failed")
          \/ /\ rollbackErr \/ (checked /\ ~readable)
             /\ Succeed /\ Leave("broken")
          \/ /\ ~rollbackErr /\ checked /\ Fail("read") /\ Leave("broken")
    /\ UNCHANGED <<disk, want, old, rollbackErr, before, owed, crashes>>

----------------------------------------------------------------------------

\* The deferred removal of the staging files ignores errors; the call is over.
Finish ==
    /\ pc = "cleanup" /\ pc' = "idle"
    /\ \/ dir' = Retire(dir \ Staged(dir)) /\ Succeed
       \/ \E gone \in SUBSET Staged(dir) : dir' = Retire(dir \ gone) /\ Fail("remove")
    /\ unsynced' = {Retire(d) : d \in unsynced} \cup {dir'}
    /\ UNCHANGED <<call, outcome, owed, crashes>>

\* The process dies; the directory is one the file system may have made durable.
Crash ==
    /\ crashes < MaxCrashes /\ crashes' = crashes + 1
    /\ \E d \in unsynced : dir' = Retire(d)
    /\ unsynced' = {dir'}
    /\ pc' = "idle" /\ outcome' = "crashed"
    /\ UNCHANGED <<call, owed, faults>>

Init ==
    /\ \E c \in [Kinds -> Bundles \cup {Empty}] :  \* Empty: no such file
          dir = {File(k, "live", c[k]) : k \in {j \in Kinds : c[j] # Empty}}
    /\ unsynced = {dir}
    /\ pc = "idle" /\ at = "cert" /\ want = Empty /\ outcome = "none"
    /\ old = [k \in Kinds |-> "absent"] /\ rollbackErr = FALSE
    /\ before = {} /\ owed = Contents(dir)
    /\ faults = 0 /\ crashes = 0

Replace ==
    \/ CleanStaging \/ Stage \/ Inspect \/ Reserve \/ Unmark \/ MoveAside
    \/ Publish \/ Verify \/ SyncInstalled \/ DropBackup \/ FinalSync
    \/ RestoreRemove \/ PutBack \/ RollbackSync \/ Revalidate \/ Finish

Next == Replace \/ Crash \/ \E b \in Wanted : Start(b)

Spec == Init /\ [][Next]_vars

\* A call runs to its end unless the process dies, and a poller or an operator
\* starts another one as long as the wanted bundle is not installed.
FairSpec == Spec /\ WF_vars(Replace) /\ WF_vars(\E b \in Wanted : Start(b))

----------------------------------------------------------------------------
(* Properties *)

\* The state has the shape the code gives it.
TypeOK ==
    /\ dir \subseteq Files /\ unsynced \subseteq SUBSET Files /\ dir \in unsynced
    /\ pc \in {"idle", "clean", "stage", "inspect", "reserve", "unmark", "move",
               "publish", "verify", "sync", "drop", "finalSync", "restore",
               "putback", "rollSync", "revalidate", "cleanup"}
    /\ at \in Kinds /\ want \in Bundles \cup {Empty}
    /\ old \in [Kinds -> {"absent", "kept", "moved"}] /\ rollbackErr \in BOOLEAN
    /\ outcome \in {"none", "running", "ok", "leftover", "failed", "broken", "crashed"}
    /\ before \subseteq Files /\ owed \subseteq Kinds \X Bundles
    /\ faults \in 0..MaxFaults /\ crashes \in 0..MaxCrashes

\* Whatever fails and whenever the process dies, every byte of the pair that was
\* live stays on the disk, live or in a backup, until the new pair is durable.
NothingLost == \A d \in unsynced : \A o \in owed : Keeps(d, o[1], o[2])

\* After a failure whose rollback reports no error, and after one that happens
\* before anything live was touched, the live files are those of before the call.
FailureRestores == pc = "idle" /\ outcome = "failed" => LiveIn(dir) = before

\* What replacePair returns is what the directory holds: the old pair after a
\* failure, and the new pair, durably, after a success or an error of the last
\* clean-up only; a success leaves no staging file, hence no second key, behind.
ReportIsTrue ==
    /\ FailureRestores
    /\ pc = "idle" =>
        /\ outcome \in {"ok", "leftover"} => \A d \in unsynced : Holds(d, want)
        /\ outcome = "ok" => \A e \in dir : e.role \in {"live", "orphan"}

\* Once errors and crashes stop, call after call installs the bundle it wants: no
\* staging file, backup or half pair left behind makes the calls fail for ever.
Recovers == []<>(pc = "idle" /\ outcome = "ok")
=============================================================================
