---------------------------- MODULE DurableStore ----------------------------
(***************************************************************************)
(* internal/config/store.go, Store.Save, and internal/secretstore/         *)
(* secretstore.go, save: the same replacement of one file, file system     *)
(* call by file system call, with failing calls and crashes between any    *)
(* two of them.  The manager calls either under applyMu, so one save runs  *)
(* at a time.                                                              *)
(*                                                                         *)
(* A directory holds the file itself (path), the hard link to the former   *)
(* file (backup) and the links whose name no running save remembers        *)
(* (orphans).  A file is the data it was saved with; the temporary file is *)
(* complete and fsynced before anything else happens.                      *)
(***************************************************************************)
EXTENDS Naturals

CONSTANTS
    Data,        \* what may be saved
    None,        \* no such file
    FaultyOps,   \* the operations that may return an error
    MaxFaults,   \* bound: errors per behaviour
    MaxCrashes   \* bound: crashes per behaviour

Ops == {"stage", "stat", "link", "rename", "remove", "syncDir"}

ASSUME StoreAssumption ==
    /\ None \notin Data
    /\ FaultyOps \subseteq Ops
    /\ MaxFaults \in Nat /\ MaxCrashes \in Nat

VARIABLES
    dir,         \* the directory, as a process sees it
    unsynced,    \* the directories a crash may leave: every state since the last fsync
    pc,          \* the next step of the save
    want,        \* the data to save
    prev,        \* what path held when the save began; hadPrevious is prev # None
    base,        \* ghost: what a crash could leave at path when the save began
    outcome,     \* what the save returns
    faults, crashes

vars == <<dir, unsynced, pc, want, prev, base, outcome, faults, crashes>>
disk == <<dir, unsynced>>
call == <<want, prev, base>>

Values    == Data \cup {None}
Directory == [path : Values, backup : Values, orphans : SUBSET Data]

\* The values a reader finds at path in one of the directories ds.
Visible(ds) == {d.path : d \in ds}

\* The data can still be recovered from d, if by hand.
Keeps(d, x) == x \in {d.path, d.backup} \cup d.orphans

\* When a save ends nobody remembers the name of its backup.
Retire(d) == [d EXCEPT !.backup = None,
                       !.orphans = IF d.backup = None THEN @ ELSE @ \cup {d.backup}]

Succeed  == UNCHANGED faults
Fail(op) == op \in FaultyOps /\ faults < MaxFaults /\ faults' = faults + 1

Change(d) == dir' = d /\ unsynced' = unsynced \cup {d}
Fsync     == dir' = dir /\ unsynced' = {dir}

Goto(l)   == pc' = l /\ UNCHANGED outcome
Leave(o)  == pc' = "cleanup" /\ outcome' = o
Return(o) == pc' = "idle" /\ outcome' = o

----------------------------------------------------------------------------
(* Save *)

Begin(d) ==
    /\ pc = "idle" /\ pc' = "stage" /\ outcome' = "running"
    /\ want' = d /\ prev' = dir.path /\ base' = Visible(unsynced)
    /\ dir' = Retire(dir) /\ unsynced' = {Retire(u) : u \in unsynced}
    /\ UNCHANGED <<faults, crashes>>

\* Validation, CreateTemp, Chmod, Write, Sync, Close.
Stage ==
    /\ pc = "stage" /\ UNCHANGED <<disk, call, crashes>>
    /\ \/ Succeed /\ Goto("inspect")
       \/ Fail("stage") /\ Return("failed")

Inspect ==
    /\ pc = "inspect" /\ UNCHANGED <<disk, call, crashes>>
    /\ \/ Succeed /\ Goto(IF prev = None THEN "replace" ELSE "link")
       \/ Fail("stat") /\ Return("failed")

Link ==
    /\ pc = "link" /\ UNCHANGED <<call, crashes>>
    /\ \/ Succeed /\ Goto("syncBackup") /\ Change([dir EXCEPT !.backup = dir.path])
       \/ Fail("link") /\ Return("failed") /\ UNCHANGED disk

SyncBackup ==
    /\ pc = "syncBackup" /\ UNCHANGED <<call, crashes>>
    /\ \/ Succeed /\ Goto("replace") /\ Fsync
       \/ Fail("syncDir") /\ Leave("failed") /\ UNCHANGED disk

\* Mutation: the directory is not fsynced after the rename.
ReplaceUnsynced ==
    /\ pc = "replace" /\ UNCHANGED <<call, crashes>>
    /\ \/ /\ Succeed /\ Change([dir EXCEPT !.path = want])
          /\ IF prev = None THEN Leave("ok") ELSE Goto("drop")
       \/ Fail("rename") /\ Leave("failed") /\ UNCHANGED disk

\* Rename of the temporary file.
Replace ==
    /\ pc = "replace" /\ UNCHANGED <<call, crashes>>
    /\ \/ Succeed /\ Goto("sync") /\ Change([dir EXCEPT !.path = want])
       \/ Fail("rename") /\ Leave("failed") /\ UNCHANGED disk

SyncReplacedAlways ==   \* Mutation: a backup is dropped even if there was no former file.
    /\ pc = "sync" /\ UNCHANGED <<call, crashes>>
    /\ \/ Succeed /\ Fsync /\ Goto("drop")
       \/ Fail("syncDir") /\ Goto("restore") /\ UNCHANGED disk

SyncReplaced ==
    /\ pc = "sync" /\ UNCHANGED <<call, crashes>>
    /\ \/ /\ Succeed /\ Fsync
          /\ IF prev = None THEN Leave("ok") ELSE Goto("drop")
       \/ Fail("syncDir") /\ Goto("restore") /\ UNCHANGED disk

DropBackup ==
    /\ pc = "drop" /\ UNCHANGED <<call, crashes>>
    /\ \/ Succeed /\ Leave("ok") /\ Change([dir EXCEPT !.backup = None])
       \/ Fail("remove") /\ Goto("restore") /\ UNCHANGED disk

\* Mutation: keepBackup is forgotten.
RestoreForgets ==
    /\ pc = "restore" /\ UNCHANGED <<call, crashes>>
    /\ \/ /\ prev # None /\ Succeed /\ Goto("syncRestored")
          /\ Change([dir EXCEPT !.path = dir.backup, !.backup = None])
       \/ prev # None /\ Fail("rename") /\ Leave("retained") /\ UNCHANGED disk
       \/ /\ prev = None /\ Succeed /\ Goto("syncRestored")
          /\ Change([dir EXCEPT !.path = None])
       \/ prev = None /\ Fail("remove") /\ Leave("broken") /\ UNCHANGED disk

\* rollback: the former file is renamed back, or the new one removed.
Restore ==
    /\ pc = "restore" /\ UNCHANGED <<call, crashes>>
    /\ \/ /\ prev # None /\ Succeed /\ Goto("syncRestored")
          /\ Change([dir EXCEPT !.path = dir.backup, !.backup = None])
       \/ prev # None /\ Fail("rename") /\ Return("retained") /\ UNCHANGED disk
       \/ /\ prev = None /\ Succeed /\ Goto("syncRestored")
          /\ Change([dir EXCEPT !.path = None])
       \/ prev = None /\ Fail("remove") /\ Leave("broken") /\ UNCHANGED disk

SyncRestored ==
    /\ pc = "syncRestored" /\ UNCHANGED <<call, crashes>>
    /\ \/ Succeed /\ Leave("failed") /\ Fsync
       \/ Fail("syncDir") /\ Leave("broken") /\ UNCHANGED disk

\* The deferred removal of the backup, whose error is ignored.
Cleanup ==
    /\ pc = "cleanup" /\ Goto("idle") /\ UNCHANGED <<call, crashes>>
    /\ \/ Succeed /\ Change([dir EXCEPT !.backup = None])
       \/ dir.backup # None /\ Fail("remove") /\ UNCHANGED disk

\* The process dies; the directory is one the file system may have made durable.
Crash ==
    /\ crashes < MaxCrashes /\ crashes' = crashes + 1
    /\ dir' \in unsynced /\ unsynced' = {dir'}
    /\ Return("crashed") /\ UNCHANGED <<call, faults>>

Init ==
    /\ dir \in [path : Values, backup : {None}, orphans : {{}}]
    /\ unsynced = {dir}
    /\ pc = "idle" /\ outcome = "ok"
    /\ want = dir.path /\ prev = dir.path /\ base = Visible(unsynced)
    /\ faults = 0 /\ crashes = 0

Next ==
    \/ \E d \in Data : Begin(d)
    \/ Stage \/ Inspect \/ Link \/ SyncBackup \/ Replace \/ SyncReplaced
    \/ DropBackup \/ Restore \/ SyncRestored \/ Cleanup \/ Crash

Spec == Init /\ [][Next]_vars

----------------------------------------------------------------------------
(* Properties *)

\* The state has the shape the code gives it, and only a file that was there is
\* linked, and its link dropped.
TypeOK ==
    /\ dir \in Directory /\ unsynced \subseteq Directory /\ dir \in unsynced
    /\ pc \in {"idle", "stage", "inspect", "link", "syncBackup", "replace", "sync",
               "drop", "restore", "syncRestored", "cleanup"}
    /\ want \in Values /\ prev \in Values /\ base \subseteq Values
    /\ outcome \in {"running", "ok", "failed", "broken", "retained", "crashed"}
    /\ faults \in 0..MaxFaults /\ crashes \in 0..MaxCrashes
    /\ pc \in {"link", "syncBackup", "drop"} => prev # None

\* Until a save succeeds, former data that were durable are in the directory, at
\* path or in a backup, whatever fails and whichever state a crash leaves.
NothingLost ==
    outcome \notin {"ok", "crashed"} /\ prev # None /\ base = {prev} =>
        \A u \in unsynced : Keeps(u, prev)

\* A RollbackError that names a backup tells the truth: the former data are there,
\* durably.
BackupRetained ==
    pc = "idle" /\ outcome = "retained" => prev # None /\ \A u \in unsynced : u.backup = prev

\* The two stores are what the manager takes them for.
Abstract == INSTANCE AtomicFile WITH
    value  <- dir.path,
    maybe  <- Visible(unsynced),
    result <- IF pc # "idle" THEN "running"
              ELSE IF outcome = "retained" THEN "broken" ELSE outcome,
    goal   <- want

\* A save is atomic towards readers and crashes, success is durable, and a plain
\* error means that nothing has changed.
Implements == Abstract!Spec
=============================================================================
