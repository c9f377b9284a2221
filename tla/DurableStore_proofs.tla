------------------------ MODULE DurableStore_proofs ------------------------
(***************************************************************************)
(* Proofs about DurableStore, for every set of data, every set of failing  *)
(* operations and any number of failures and crashes: its type invariant,  *)
(* that no save loses durable data, that a retained backup is there, and   *)
(* that it implements AtomicFile.                                          *)
(***************************************************************************)
EXTENDS DurableStore, TLAPS

\* Where the save stands, and what the directory holds there.
Before == {"stage", "inspect", "link", "syncBackup", "replace"}

\* While a save runs, readers find the former data or the new ones.
Visibility ==
    pc # "idle" => /\ prev \in base /\ dir.path \in {prev, want}
                   /\ \A u \in unsynced : u.path \in base \cup {want}

\* Nothing has changed before the rename, nor after a plain error.
Untouched ==
    pc \in Before \/ (pc = "cleanup" /\ outcome = "failed") =>
        dir.path = prev /\ \A u \in unsynced : u.path \in base

\* Once it is synced, the new file is all there is.
Installed ==
    pc = "drop" \/ (pc = "cleanup" /\ outcome = "ok") =>
        dir.path = want /\ \A u \in unsynced : u.path = want

\* After either rename readers find what it put there.
Renamed ==
    /\ pc \in {"sync", "restore"} => dir.path = want
    /\ pc = "syncRestored" => dir.path = prev

\* From the fsync of the link to its removal, the backup is the former file.
BackedUp ==
    /\ pc = "syncBackup" => dir.backup = prev
    /\ prev # None /\ (pc \in {"replace", "sync", "drop", "restore"} \/ outcome = "retained") =>
          \A u \in unsynced : u.backup = prev
    /\ outcome = "retained" => prev # None

Outcomes ==
    /\ pc = "cleanup" => outcome \in {"ok", "failed", "broken"}
    /\ pc \notin {"cleanup", "idle"} => outcome = "running"
    /\ pc = "idle" => outcome # "running"

\* A save that cannot be undone leaves the former file, when there was one.
Undone == pc = "cleanup" /\ outcome = "broken" /\ prev # None => dir.path = prev

IInv == TypeOK /\ Visibility /\ Untouched /\ Installed /\ Renamed /\ BackedUp /\ Outcomes

----------------------------------------------------------------------------
(* Directories *)

\* Forgetting the name of a backup gives a directory with the same file at path.
LEMMA RetireType ==
    ASSUME NEW d \in Directory
    PROVE  Retire(d) \in Directory /\ Retire(d).path = d.path /\ Retire(d).backup = None
BY DEF Retire, Directory, Values

LEMMA InitHolds == Init => IInv
<1> SUFFICES ASSUME Init PROVE IInv
    OBVIOUS
<1>1. TypeOK
    BY StoreAssumption DEF Init, TypeOK, Directory, Values, Visible
<1> QED
    BY <1>1 DEF Init, IInv, Visibility, Untouched, Installed, Renamed, BackedUp, Outcomes, Before

\* The steps of the inductive invariant, action by action.
LEMMA StepHolds == IInv /\ [Next]_vars => IInv'
<1> SUFFICES ASSUME IInv, [Next]_vars PROVE IInv'
    OBVIOUS
<1> USE StoreAssumption DEF IInv, TypeOK, Visibility, Untouched, Installed, Renamed,
        BackedUp, Outcomes, Before
<1>1. ASSUME NEW d \in Data, Begin(d) PROVE IInv'
  <2>1. \A u \in unsynced : Retire(u) \in Directory /\ Retire(u).path = u.path /\ Retire(u).backup = None
      BY RetireType
  <2>2. dir' = Retire(dir) /\ unsynced' = {Retire(u) : u \in unsynced}
      BY <1>1 DEF Begin
  <2>3. TypeOK'
      BY <1>1, <2>1, <2>2 DEF Begin, Visible, Values, Directory
  <2>4. dir'.path = dir.path /\ \A u \in unsynced' : u.path \in base'
      BY <1>1, <2>1, <2>2 DEF Begin, Visible
  <2> QED
      BY <1>1, <2>3, <2>4 DEF Begin, Visible
<1>2. CASE Stage
    BY <1>2 DEF Stage, disk, call, Succeed, Fail, Goto, Return
<1>3. CASE Inspect
    BY <1>3 DEF Inspect, disk, call, Succeed, Fail, Goto, Return
<1>4. CASE Link
    BY <1>4 DEF Link, disk, call, Succeed, Fail, Goto, Return, Change, Directory, Values
<1>5. CASE SyncBackup
    BY <1>5 DEF SyncBackup, disk, call, Succeed, Fail, Goto, Leave, Fsync, Directory, Values
<1>6. CASE Replace
    BY <1>6 DEF Replace, disk, call, Succeed, Fail, Goto, Leave, Change, Directory, Values
<1>7. CASE SyncReplaced
  <2>1. TypeOK'
      BY <1>7 DEF SyncReplaced, disk, call, Succeed, Fail, Goto, Leave, Fsync
  <2>2. CASE Fsync /\ prev = None /\ Leave("ok")
      BY <1>7, <2>1, <2>2 DEF SyncReplaced, call, Leave, Fsync
  <2>3. CASE Fsync /\ prev # None /\ Goto("drop")
      BY <1>7, <2>1, <2>3 DEF SyncReplaced, call, Goto, Fsync
  <2>4. CASE Goto("restore") /\ UNCHANGED disk
      BY <1>7, <2>1, <2>4 DEF SyncReplaced, call, disk, Goto
  <2> QED
      BY <1>7, <2>2, <2>3, <2>4 DEF SyncReplaced
<1>8. CASE DropBackup
    BY <1>8 DEF DropBackup, disk, call, Succeed, Fail, Goto, Leave, Change, Directory, Values
<1>9. CASE Restore
  <2>1. CASE prev # None /\ Succeed /\ Goto("syncRestored")
             /\ Change([dir EXCEPT !.path = dir.backup, !.backup = None])
    <3>1. dir.backup = prev
        BY <1>9, <2>1 DEF Restore
    <3>2. dir'.path = prev /\ dir' \in Directory
        BY <2>1, <3>1 DEF Change, Directory, Values
    <3> QED
        BY <1>9, <2>1, <3>2 DEF Restore, call, Succeed, Goto, Change
  <2>2. CASE prev # None /\ Fail("rename") /\ Return("retained") /\ UNCHANGED disk
      BY <1>9, <2>2 DEF Restore, disk, call, Fail, Return
  <2>3. CASE prev = None /\ Succeed /\ Goto("syncRestored") /\ Change([dir EXCEPT !.path = None])
    <3>1. dir'.path = prev /\ dir' \in Directory
        BY <2>3 DEF Change, Directory, Values
    <3> QED
        BY <1>9, <2>3, <3>1 DEF Restore, call, Succeed, Goto, Change
  <2>4. CASE prev = None /\ Fail("remove") /\ Leave("broken") /\ UNCHANGED disk
      BY <1>9, <2>4 DEF Restore, disk, call, Fail, Leave
  <2> QED
      BY <1>9, <2>1, <2>2, <2>3, <2>4 DEF Restore
<1>10. CASE SyncRestored
    BY <1>10 DEF SyncRestored, disk, call, Succeed, Fail, Leave, Fsync, Directory, Values
<1>11. CASE Cleanup
    BY <1>11 DEF Cleanup, disk, call, Succeed, Fail, Goto, Change, Directory, Values
<1>12. CASE Crash
    BY <1>12 DEF Crash, call, Return
<1>13. CASE UNCHANGED vars
    BY <1>13 DEF vars
<1> QED
    BY <1>1, <1>2, <1>3, <1>4, <1>5, <1>6, <1>7, <1>8, <1>9, <1>10, <1>11, <1>12, <1>13 DEF Next

LEMMA Inductive == Spec => []IInv
BY InitHolds, StepHolds, PTL DEF Spec

----------------------------------------------------------------------------

\* The state always has the shape the code gives it, and only a file that was
\* there is linked, and its link dropped.
THEOREM Typing == Spec => []TypeOK
<1>1. IInv => TypeOK
    BY DEF IInv
<1> QED
    BY Inductive, <1>1, PTL

LEMMA InitKeeps == Init => NothingLost /\ Undone
BY DEF Init, NothingLost, Undone, Visible, Keeps, Directory, Values

\* Removing the backup of u loses nothing once u.path is the former file.
LEMMA StepKeeps == IInv /\ NothingLost /\ Undone /\ [Next]_vars => NothingLost' /\ Undone'
<1> SUFFICES ASSUME IInv, NothingLost, Undone, [Next]_vars PROVE NothingLost' /\ Undone'
    OBVIOUS
<1> USE StoreAssumption DEF IInv, TypeOK, Visibility, Untouched, Installed, Renamed,
        BackedUp, Outcomes, Before, NothingLost, Undone, Keeps
<1>1. ASSUME NEW d \in Data, Begin(d) PROVE NothingLost' /\ Undone'
  <2>1. \A u \in unsynced : Retire(u).path = u.path
      BY RetireType
  <2>2. \A u \in unsynced' : u.path \in base'
      BY <1>1, <2>1 DEF Begin, Visible
  <2> QED
      BY <1>1, <2>2 DEF Begin
<1>2. CASE Stage
    BY <1>2 DEF Stage, disk, call, Goto, Return
<1>3. CASE Inspect
    BY <1>3 DEF Inspect, disk, call, Goto, Return
<1>4. CASE Link
    BY <1>4 DEF Link, disk, call, Goto, Return, Change, Directory
<1>5. CASE SyncBackup
    BY <1>5 DEF SyncBackup, disk, call, Goto, Leave, Fsync
<1>6. CASE Replace
    BY <1>6 DEF Replace, disk, call, Goto, Leave, Change, Directory
<1>7. CASE SyncReplaced
    BY <1>7 DEF SyncReplaced, disk, call, Goto, Leave, Fsync
<1>8. CASE DropBackup
    BY <1>8 DEF DropBackup, disk, call, Goto, Leave, Change
<1>9. CASE Restore
    BY <1>9 DEF Restore, disk, call, Goto, Leave, Return, Change, Directory
<1>10. CASE SyncRestored
    BY <1>10 DEF SyncRestored, disk, call, Leave, Fsync
<1>11. CASE Cleanup
    BY <1>11 DEF Cleanup, disk, call, Goto, Change, Directory
<1>12. CASE Crash
    BY <1>12 DEF Crash, call, Return
<1>13. CASE UNCHANGED vars
    BY <1>13 DEF vars
<1> QED
    BY <1>1, <1>2, <1>3, <1>4, <1>5, <1>6, <1>7, <1>8, <1>9, <1>10, <1>11, <1>12, <1>13 DEF Next

\* Former data that were durable can be recovered until a save succeeds: no order
\* of link, fsync, rename and removal that Store.Save can go through loses them.
THEOREM Safekeeping == Spec => []NothingLost
BY Inductive, InitKeeps, StepKeeps, PTL DEF Spec

\* A RollbackError that names a backup tells the truth: Store.rollback and
\* secretstore.rollback keep the former data, durably.
THEOREM Retention == Spec => []BackupRetained
<1>1. IInv => BackupRetained
    BY DEF IInv, BackedUp, BackupRetained
<1> QED
    BY Inductive, <1>1, PTL

----------------------------------------------------------------------------
(* The implementation of AtomicFile *)

LEMMA InitImplements == Init => Abstract!Init
BY DEF Init, Abstract!Init, Abstract!Values, Visible, Values

\* Every step of a save is a step of the abstract save.
LEMMA StepImplements == IInv /\ [Next]_vars => [Abstract!Next]_(Abstract!vars)
<1> SUFFICES ASSUME IInv, [Next]_vars PROVE [Abstract!Next]_(Abstract!vars)
    OBVIOUS
<1> USE StoreAssumption DEF IInv, TypeOK, Visibility, Untouched, Installed, Renamed,
        BackedUp, Outcomes, Before, Visible, Abstract!Next
<1>1. ASSUME NEW d \in Data, Begin(d) PROVE Abstract!Begin(d)
  <2>1. \A u \in unsynced : Retire(u).path = u.path
      BY RetireType
  <2>2. dir'.path = dir.path /\ Visible(unsynced') = Visible(unsynced)
      BY <1>1, <2>1, RetireType DEF Begin
  <2> QED
      BY <1>1, <2>2 DEF Begin, Abstract!Begin
<1>2. CASE Stage
    BY <1>2 DEF Stage, disk, call, Goto, Return, Abstract!Work, Abstract!Fail
<1>3. CASE Inspect
    BY <1>3 DEF Inspect, disk, call, Goto, Return, Abstract!Work, Abstract!Fail
<1>4. CASE Link
    BY <1>4 DEF Link, disk, call, Goto, Return, Change, Directory, Abstract!Work, Abstract!Fail
<1>5. CASE SyncBackup
    BY <1>5 DEF SyncBackup, disk, call, Goto, Leave, Fsync, Abstract!Work
<1>6. CASE Replace
    BY <1>6 DEF Replace, disk, call, Goto, Leave, Change, Directory, Abstract!Work
<1>7. CASE SyncReplaced
    BY <1>7 DEF SyncReplaced, disk, call, Goto, Leave, Fsync, Abstract!Work
<1>8. CASE DropBackup
    BY <1>8 DEF DropBackup, disk, call, Goto, Leave, Change, Directory, Abstract!Work
<1>9. CASE Restore
    BY <1>9 DEF Restore, disk, call, Goto, Leave, Return, Change, Directory, Abstract!Work, Abstract!Break
<1>10. CASE SyncRestored
    BY <1>10 DEF SyncRestored, disk, call, Leave, Fsync, Abstract!Work
<1>11. CASE Cleanup
    BY <1>11 DEF Cleanup, disk, call, Goto, Change, Directory,
           Abstract!Succeed, Abstract!Fail, Abstract!Break
<1>12. CASE Crash
    BY <1>12 DEF Crash, call, Return, Abstract!Crash
<1>13. CASE UNCHANGED vars
    BY <1>13 DEF vars, Abstract!vars
<1> QED
    BY <1>1, <1>2, <1>3, <1>4, <1>5, <1>6, <1>7, <1>8, <1>9, <1>10, <1>11, <1>12, <1>13 DEF Next

\* Store.Save and secretstore.save are atomic towards readers and crashes, what
\* they report as saved is durable, and after a plain error nothing has changed.
THEOREM Refinement == Spec => Implements
BY Inductive, InitImplements, StepImplements, PTL DEF Spec, Implements, Abstract!Spec
=============================================================================
