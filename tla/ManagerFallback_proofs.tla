----------------------- MODULE ManagerFallback_proofs -----------------------
(***************************************************************************)
(* Proofs about the fallback.json files of Manager, without termination:   *)
(* while the process has not crashed and no apply has failed to undo       *)
(* itself, every file is what the active configuration asks for and, where *)
(* every fallback entry is enabled, every change of one is acknowledged or *)
(* has its warning.                                                        *)
(*                                                                         *)
(* The argument: whoever changes a file holds fallbackApplyMu, an apply    *)
(* alone or synchronizations together (Readers); a synchronization that    *)
(* publishes does so for an entry of the active configuration (IInv), and  *)
(* a valid configuration has one fallback entry per directory (Sound); an  *)
(* apply knows, by where it is, which directories are done (Following).    *)
(***************************************************************************)
EXTENDS ManagerState_proofs

----------------------------------------------------------------------------
(* Readers and the writer of fallbackApplyMu *)

\* A synchronization of a fallback entry, but no validation, is a reader of
\* fallbackApplyMu, which an activation holds alone.
Passing == {"begin", "fbRLock", "dest", "install", "ensure", "markSync", "record"}
Reader(p) ==
    /\ pc[p] \in Passing => job[p].kind # "validate"
    /\ pc[p] \in {"ensure", "markSync"} => job[p].cert.fallback /\ p \in reading
    /\ pc[p] \in SyncSteps \ {"begin", "fbRLock"} /\ job[p].kind # "validate" /\ job[p].cert.fallback =>
          p \in fbReaders
\* Readers exclude the writer, and whoever may change fallback.json is one of them.
Readers ==
    /\ fbWriter # None => fbReaders = {}
    /\ \A p \in Proc : Reader(p)

LEMMA ReadersHold ==
    ASSUME Core, Readers, [Next]_vars
    PROVE  Readers'
<1>0. /\ pc \in [Proc -> Steps] /\ job \in [Proc -> Jobs] /\ staged \in Applies
    BY DEF Core, TypeOK, ControlOK
<1>1. CASE Crash \/ \E p \in Proc : Exit(p)
    BY <1>1 DEF Crash, Exit, Shutdown, Readers, Reader, Passing, SyncSteps
<1>2. CASE UNCHANGED vars
    BY <1>2 DEF vars, locks, Readers, Reader
<1>3. ASSUME NEW p \in Proc, Apply(p) \/ Sync(p) \/ Other(p) \/ Arrive(p), ~Exit(p), Reader(p)',
             \/ fbReaders' \in {fbReaders, fbReaders \ {p}} /\ fbWriter' \in {fbWriter, None}
             \/ RLockFallbacks(p) \/ LockFallbacks(p),
             reading \ {p} \subseteq reading'
      PROVE  Readers'
  <2>1. \A q \in Proc \ {p} : pc'[q] = pc[q] /\ job'[q] = job[q]
      BY <1>3, Elsewhere DEF Core
  <2>2. fbReaders \ {p} \subseteq fbReaders' /\ (fbWriter' # None => fbReaders' = {})
      BY <1>3 DEF RLockFallbacks, LockFallbacks, Readers
  <2> QED
      BY <1>3, <2>1, <2>2 DEF Readers, Reader
<1>4. ASSUME NEW p \in Proc, pc'[p] \notin SyncSteps PROVE Reader(p)'
    BY <1>4 DEF Reader, Passing, SyncSteps
<1>5. ASSUME NEW p \in Proc, Apply(p) PROVE Readers'
  <2>1. ~Exit(p)
      BY <1>5, ApplyMoves DEF Core, Exit, At, Takes, GoesOn, Finishes, Calls, Rests, Holding, ApplySteps
  <2>2. Reader(p)'
      BY <1>4, <1>5, ApplyMoves DEF Core, Takes, GoesOn, Finishes, Calls, Rests, Holding, ApplySteps,
         Reader, Passing, SyncSteps
  <2>3. fbReaders' = fbReaders /\ (fbWriter' \in {fbWriter, None} \/ LockFallbacks(p))
      BY <1>5 DEF Apply, Acquire, SaveSecrets, Prepare, StartWatchers, Reconcile, LockFallbacks,
         SaveConfig, MarkChanged, RestoreConfig, Unreconcile, Abort, StopOld, StopWatchers,
         RestoreSecrets, ReadFlags, Activate, InitialSyncs, locks
  <2>4. reading' = reading
      BY <1>5 DEF Apply, Acquire, SaveSecrets, Prepare, StartWatchers, Reconcile, LockFallbacks,
         SaveConfig, MarkChanged, RestoreConfig, Unreconcile, Abort, StopOld, StopWatchers,
         RestoreSecrets, ReadFlags, Activate, InitialSyncs, locks
  <2> QED
      BY <1>3, <1>5, <2>1, <2>2, <2>3, <2>4
<1>6. ASSUME NEW p \in Proc, Sync(p) PROVE Readers'
  <2>1. ~Exit(p) /\ pc[p] \in SyncSteps
      BY <1>6 DEF Exit, At, Sync, Begin, RLockFallbacks, LockDestination, BeginFetch, EndFetch,
         Install, Ensure, MarkSync, Record, SyncSteps
  <2>9. reading \ {p} \subseteq reading'
      BY <1>6 DEF Sync, Begin, RLockFallbacks, LockDestination, BeginFetch, EndFetch,
         Install, Ensure, MarkSync, Record
  <2>2. ASSUME Return(p), fbWriter' = fbWriter PROVE Readers'
    <3>1. pc'[p] \notin SyncSteps /\ fbReaders' = fbReaders \ {p}
        BY <1>0, <2>2 DEF Return, Done, Goto, SyncSteps
    <3> QED
        BY <1>3, <1>4, <1>6, <2>1, <2>2, <2>9, <3>1
  <2>3. CASE Begin(p) /\ ~Return(p)
    <3> DEFINE e == cfg[job[p].name]
               j == [job[p] EXCEPT !.cert = e]
    <3>1. j.kind = job[p].kind /\ j.cert = e
        BY <1>0 DEF Jobs
    <3>2. job'[p] = j /\ pc'[p] = (IF e.fallback THEN "fbRLock" ELSE "dest") /\ pc[p] = "begin"
          /\ fbReaders' = fbReaders /\ fbWriter' = fbWriter
        BY <1>0, <2>3 DEF Begin, Assign, Goto, At
    <3> HIDE DEF j, e
    <3>3. Reader(p)'
        BY <3>1, <3>2 DEF Readers, Reader, Passing, SyncSteps
    <3> QED
        BY <1>3, <1>6, <2>1, <2>9, <3>2, <3>3
  <2>4. ASSUME job'[p].kind = job[p].kind, job'[p].cert = job[p].cert,
               fbReaders' = fbReaders \cup (IF RLockFallbacks(p) THEN {p} ELSE {}), fbWriter' = fbWriter,
               pc[p] # "fbRLock" \/ RLockFallbacks(p), pc[p] # "begin",
               pc'[p] \in SyncSteps \ {"begin", "fbRLock"} \/ pc'[p] = "recordV",
               pc'[p] \in Passing => pc[p] \in Passing \/ job[p].kind # "validate",
               pc'[p] \in {"ensure", "markSync"} => job[p].cert.fallback /\ p \in reading'
        PROVE  Readers'
    <3>1. Reader(p)'
        BY <2>1, <2>4 DEF Readers, Reader, Passing, SyncSteps
    <3> QED
        BY <1>3, <1>6, <2>1, <2>4, <2>9, <3>1
  <2>5. CASE (BeginFetch(p) \/ EndFetch(p)) /\ ~Return(p)
    <3>1. job'[p].kind = job[p].kind /\ job'[p].cert = job[p].cert
        BY <1>0, <2>5 DEF BeginFetch, EndFetch, Assign, Jobs
    <3> QED
        BY <1>0, <2>4, <2>5, <3>1 DEF BeginFetch, EndFetch, Goto, At, SyncSteps, Passing, RLockFallbacks
  <2>6. CASE (RLockFallbacks(p) \/ LockDestination(p) \/ Install(p) \/ Ensure(p) \/ MarkSync(p)) /\ ~Return(p)
    <3>1. job'[p].kind = job[p].kind /\ job'[p].cert = job[p].cert
        BY <1>0, <2>6 DEF RLockFallbacks, LockDestination, Install, Ensure, MarkSync, Result, Jobs
    <3>2. pc[p] \in Passing \ {"begin"} /\ pc'[p] \in (Passing \cup {"fetch"}) \ {"begin", "fbRLock"} /\ fbWriter' = fbWriter
      <4>1. CASE RLockFallbacks(p) \/ LockDestination(p)
          BY <1>0, <4>1 DEF RLockFallbacks, LockDestination, Goto, At, Passing
      <4>2. CASE Install(p) /\ ~Return(p)
          BY <1>0, <4>2 DEF Install, Goto, At, Passing
      <4>3. CASE Ensure(p) \/ MarkSync(p)
          BY <1>0, <4>3 DEF Ensure, MarkSync, Goto, At, Passing
      <4> QED
          BY <2>6, <4>1, <4>2, <4>3
    <3>3. fbReaders' = fbReaders \cup (IF RLockFallbacks(p) THEN {p} ELSE {})
          /\ (pc[p] # "fbRLock" \/ RLockFallbacks(p))
        BY <1>0, <2>6 DEF RLockFallbacks, LockDestination, Install, Ensure, MarkSync, At
    <3>4. pc'[p] \in {"ensure", "markSync"} => job[p].cert.fallback /\ p \in reading'
        BY <1>0, <2>6 DEF RLockFallbacks, LockDestination, Install, Ensure, MarkSync, Goto, At, Readers, Reader
    <3> QED
        BY <2>4, <3>1, <3>2, <3>3, <3>4 DEF Passing, SyncSteps
  <2> QED
      BY <1>6, <2>2, <2>3, <2>5, <2>6 DEF Sync, Begin, RLockFallbacks, LockDestination, BeginFetch,
         EndFetch, Install, Ensure, MarkSync, Record
<1>7. ASSUME NEW p \in Proc, Other(p), ~Exit(p) PROVE Readers'
  <2>1. Reader(p)'
      BY <1>4, <1>7, OtherMoves DEF Core, Rests, SyncSteps
  <2>2. UNCHANGED <<fbReaders, fbWriter, reading>>
      BY <1>7 DEF Other, RecordValidation, ClearFlags, Drain, StopWatchers, locks
  <2> QED
      BY <1>3, <1>7, <2>1, <2>2
<1>8. ASSUME NEW p \in Proc, Arrive(p), ~Exit(p) PROVE Readers'
  <2>1. UNCHANGED <<fbReaders, fbWriter, reading>>
      BY <1>8 DEF Arrive, Boot, Request, SyncNow, ValidateNow, Tick, Acknowledge, Terminate, locks
  <2>2. Reader(p)'
    <3>1. CASE \E n \in Name : ValidateNow(p, n)
      <4>1. pc'[p] \in {"fetch", "recordV"} /\ job'[p].kind = "validate"
          BY <1>0, <3>1 DEF ValidateNow, Goto, Assign, Idle
      <4> QED
          BY <4>1 DEF Reader, Passing
    <3>2. CASE \/ \E n \in Name : SyncNow(p, n)
               \/ \E w \in running : Tick(p, w)
      <4>1. pc'[p] = "begin" /\ job'[p].kind # "validate"
          BY <1>0, <3>2 DEF SyncNow, Tick, Goto, Assign, Idle
      <4> QED
          BY <4>1 DEF Reader, Passing
    <3>3. CASE Boot(p) \/ Acknowledge(p) \/ Terminate(p) \/ \E r \in Requests : Request(p, r)
      <4>1. pc'[p] \in {"saveSecrets", "clear", "drain", "wait", "idle"}
          BY <1>0, <3>3 DEF Boot, Acknowledge, Terminate, Request, Goto, At
      <4> QED
          BY <1>4, <4>1 DEF SyncSteps
    <3> QED
        BY <1>8, <3>1, <3>2, <3>3 DEF Arrive
  <2> QED
      BY <1>3, <1>8, <2>1, <2>2
<1> QED
    BY <1>1, <1>2, <1>5, <1>6, <1>7, <1>8 DEF Next

----------------------------------------------------------------------------
(* Starting up *)

\* Without termination a process exits only when its first apply has failed, and
\* nothing has been activated by then.
Booting ==
    /\ \A p \in Proc : /\ pc[p] # "drain"
                       /\ pc[p] = "wait" => phase = "serving"
                       /\ pc[p] = "exit" => phase = "boot" /\ applyMu = None /\ cfg = NoEntries
    /\ phase = "boot" /\ Stage \in Candidacy => cfg = NoEntries

LEMMA BootingHolds ==
    ASSUME "terminate" \notin Tasks, Core, Booting, [Next]_vars
    PROVE  Booting'
<1>0. /\ pc \in [Proc -> Steps] /\ staged \in Applies
    BY DEF Core, TypeOK, ControlOK
<1>1. CASE Crash \/ \E p \in Proc : Exit(p)
    BY <1>1 DEF Crash, Exit, Shutdown, Booting
<1>2. CASE UNCHANGED vars
    BY <1>2 DEF vars, memory, locks, rest, Booting, Stage
<1>3. ASSUME NEW p \in Proc, Apply(p) \/ Sync(p) \/ Other(p) \/ Arrive(p), ~Exit(p),
             phase = "boot" /\ applyMu = None => UNCHANGED <<phase, applyMu, cfg>>,
             phase = "serving" => phase' = "serving",
             pc'[p] # "drain", pc'[p] = "wait" => phase' = "serving",
             pc'[p] = "exit" => phase' = "boot" /\ applyMu' = None /\ cfg' = NoEntries,
             phase' = "boot" /\ Stage' \in Candidacy => cfg' = NoEntries
      PROVE  Booting'
  <2>1. \A q \in Proc \ {p} : pc'[q] = pc[q]
      BY <1>3, Elsewhere DEF Core
  <2>2. ASSUME NEW q \in Proc \ {p}, pc[q] = "exit"
        PROVE  phase' = "boot" /\ applyMu' = None /\ cfg' = NoEntries
    <3>1. phase = "boot" /\ applyMu = None /\ cfg = NoEntries
        BY <2>2 DEF Booting
    <3> QED
        BY <1>3, <3>1
  <2> QED
      BY <1>3, <2>1, <2>2 DEF Booting
<1>4. ASSUME NEW p \in Proc, Sync(p) \/ Other(p) \/ Arrive(p), ~Exit(p), ~Boot(p) PROVE Booting'
  <2>1. UNCHANGED held
      BY <1>4, OthersLeave
  <2>2. pc'[p] \notin {"drain", "exit"} /\ (pc'[p] = "wait" => phase = "serving")
    <3>1. CASE Sync(p)
        BY <3>1, SyncMoves DEF Core, Proceeds, Returns, Started, SyncSteps
    <3>2. CASE Other(p)
        BY <1>0, <1>4, <3>2 DEF Other, RecordValidation, ClearFlags, Drain, StopWatchers, Booting, Done, Goto, At
    <3>3. CASE Arrive(p)
        BY <1>0, <1>4, <3>3 DEF Arrive, Request, SyncNow, ValidateNow, Tick, Acknowledge, Terminate, Goto, At
    <3> QED
        BY <1>4, <3>1, <3>2, <3>3
  <2>3. Stage' \in Candidacy => Stage \in Candidacy
      BY <1>4, StageElsewhere DEF Candidacy, Holding, ApplySteps, SyncSteps
  <2> QED
      BY <1>3, <1>4, <2>1, <2>2, <2>3 DEF held, Booting
<1>5. ASSUME NEW p \in Proc, Boot(p) PROVE Booting'
  <2>1. phase = "down" /\ phase' = "boot" /\ cfg' = NoEntries /\ pc'[p] = "saveSecrets"
      BY <1>0, <1>5 DEF Boot, Goto, Core, Control, Fallow
  <2>2. \A q \in Proc : pc'[q] = IF q = p THEN "saveSecrets" ELSE "idle"
      BY <1>0, <1>5, FallowIdle DEF Boot, Goto, Core
  <2> QED
      BY <2>1, <2>2 DEF Booting
<1>6. ASSUME NEW p \in Proc, Apply(p) PROVE Booting'
  <2>0. None # p
      BY StageOf
  <2>1. CASE Acquire(p)
    <3>1. pc[p] = "wait" /\ pc'[p] \in {"saveSecrets", "idle"} /\ UNCHANGED <<cfg, phase>>
        BY <1>0, <2>1 DEF Acquire, At, Goto, Done, memory
    <3> QED
        BY <1>3, <1>6, <3>1 DEF Booting, Exit, At
  <2>2. CASE ~Acquire(p)
    <3>1. applyMu = p /\ Applying(p) /\ Stage = pc[p] /\ (applyMu' = None => Stage' = "none")
          /\ (applyMu' = p => Stage' = pc'[p])
        BY <1>6, <2>2, ApplyAlone, StageOf DEF Core, Stage, Control, Held
    <3>2. ~Exit(p) /\ pc'[p] \notin {"drain", "wait"}
        BY <1>6, <3>1, ApplyMoves DEF Core, Exit, At, Takes, GoesOn, Finishes, Calls, Rests, Applying,
           Holding, ApplySteps, SyncSteps
    <3>3. CASE Abandon(p) /\ UNCHANGED memory /\ phase' = phase /\ pc[p] \in {"saveSecrets", "restoreSecrets"}
      <4>1. pc'[p] = (IF phase = "boot" THEN "exit" ELSE "idle") /\ applyMu' = None /\ cfg' = cfg
          BY <1>0, <3>3 DEF Abandon, Goto, memory
      <4>2. phase = "boot" => cfg = NoEntries
          BY <3>1, <3>3 DEF Booting, Candidacy, Holding, ApplySteps
      <4> QED
          BY <1>3, <1>6, <2>0, <3>1, <3>2, <3>3, <4>1, <4>2 DEF Candidacy, Holding, ApplySteps
    <3>4. CASE Activate(p)
      <4>1. pc'[p] = "stopOld" /\ applyMu' = p /\ phase' = phase
          BY <1>0, <3>1, <3>4 DEF Activate, Goto
      <4> QED
          BY <1>3, <1>6, <2>0, <3>1, <3>2, <4>1 DEF Candidacy, Holding, ApplySteps
    <3>5. CASE InitialSyncs(p)
      <4>1. pc[p] = "initial" /\ pc'[p] \in {"idle", "begin"} /\ cfg' = cfg /\ phase' \in {phase, "serving"}
            /\ applyMu' \in {None, p}
          BY <1>0, <3>1, <3>5 DEF InitialSyncs, At, Goto, Done, memory
      <4> QED
          BY <1>3, <1>6, <2>0, <3>1, <3>2, <4>1 DEF Candidacy, Holding, ApplySteps
    <3>6. CASE Abort(p) \/ StopOld(p)
      <4>1. /\ cfg' = cfg /\ phase' = phase /\ applyMu' = applyMu
            /\ \/ pc[p] = "abort" /\ pc'[p] \in {"abort", "restoreSecrets"}
               \/ pc[p] = "stopOld" /\ pc'[p] \in {"stopOld", "initial"}
          BY <1>0, <3>6 DEF Abort, StopOld, StopWatchers, At, Goto, memory, locks
      <4> QED
          BY <1>3, <1>6, <2>0, <3>1, <3>2, <4>1 DEF Booting, Candidacy, Holding, ApplySteps
    <3>7. ASSUME cfg' = cfg, phase' = phase, applyMu' = applyMu, pc[p] \in Candidacy, pc'[p] \in Candidacy
          PROVE  Booting'
        BY <1>3, <1>6, <2>0, <3>1, <3>2, <3>7 DEF Booting, Candidacy, Holding, ApplySteps
    <3>8. CASE SaveSecrets(p) /\ ~Abandon(p)
        BY <1>0, <3>7, <3>8 DEF SaveSecrets, At, Goto, memory, Candidacy, Holding, ApplySteps
    <3>9. CASE Prepare(p) \/ StartWatchers(p) \/ LockFallbacks(p) \/ Reconcile(p) \/ SaveConfig(p)
        BY <1>0, <3>7, <3>9 DEF Prepare, StartWatchers, LockFallbacks, Reconcile, SaveConfig,
           At, Goto, memory, locks, Candidacy, Holding, ApplySteps
    <3>10. CASE MarkChanged(p) \/ RestoreConfig(p) \/ Unreconcile(p) \/ ReadFlags(p)
        BY <1>0, <3>7, <3>10 DEF MarkChanged, RestoreConfig, Unreconcile, ReadFlags,
           At, Goto, memory, locks, Candidacy, Holding, ApplySteps
    <3> QED
        BY <1>6, <2>2, <3>3, <3>4, <3>5, <3>6, <3>8, <3>9, <3>10 DEF Apply, SaveSecrets, RestoreSecrets, At
  <2> QED
      BY <2>1, <2>2
<1> QED
    BY <1>1, <1>2, <1>4, <1>5, <1>6 DEF Next

----------------------------------------------------------------------------
(* What a configuration asks for *)

\* fallback.json of d is what configuration c asks for; Sync Now may have made it
\* for a disabled entry.
Follows(c, d) ==
    \/ fallbackFile[d] = Desired(c, d)
    \/ /\ Desired(c, d) = None
       /\ \E n \in Entries(c) : /\ c[n].fallback /\ ~c[n].enabled
                                /\ c[n].dir = d /\ c[n].target = fallbackFile[d]
\* The directories that an apply may change, and where the files are the candidate's.
Involved == DirsOf(cfg) \cup DirsOf(staged.cand)
Reconciled == {"saveConfig", "mark", "flags", "activate"}
\* What the files say, by where the apply is: between applies, outside its directories,
\* while it changes them or changes them back, and once it has changed them all.
Following ==
    crashes = 0 /\ ~torn =>
        /\ fbWriter = None => \A d \in Dirs : Follows(cfg, d)
        /\ Stage \in Writing => \A d \in Dirs \ Involved : fallbackFile[d] = None
        /\ Stage \in {"reconcile", "unreconcile"} => staged.dirs \subseteq Involved
        /\ Stage = "reconcile" =>
              \A d \in Dirs \ staged.dirs : fallbackFile[d] = Desired(staged.cand, d)
        /\ Stage \in Reconciled => \A d \in Dirs : fallbackFile[d] = Desired(staged.cand, d)
        /\ Stage = "unreconcile" => \A d \in Dirs \ staged.dirs : fallbackFile[d] = Desired(cfg, d)

LEMMA StageWrites ==
    ASSUME Core
    PROVE  fbWriter = None <=> Stage \notin Writing
<1>1. /\ fbWriter \in Proc \cup {None} /\ applyMu \in Proc \cup {None} /\ None \notin Proc
      /\ \A p \in Proc : (fbWriter = p <=> pc[p] \in Writing) /\ (pc[p] \in Writing => applyMu = p)
    BY ManagerAssumption DEF Core, TypeOK, LocksOK, Control, Held, Applying, Writer, Writing, Holding, ApplySteps
<1> QED
    BY <1>1 DEF Stage, Writing

\* A directory without entries has no fallback.json.
LEMMA NothingDesired ==
    ASSUME NEW c, NEW d, d \notin DirsOf(c)
    PROVE  Desired(c, d) = None /\ (Follows(c, d) => fallbackFile[d] = None)
BY DEF Desired, Follows, DirsOf

\* The fallback entries of a valid configuration are alone in their directory.
LEMMA EntryDesired ==
    ASSUME NEW c, Valid(c), NEW n \in Entries(c), c[n].fallback
    PROVE  IF c[n].enabled THEN Desired(c, c[n].dir) = c[n].target ELSE Desired(c, c[n].dir) = None
<1> DEFINE chosen == {m \in Entries(c) : c[m].enabled /\ c[m].fallback /\ c[m].dir = c[n].dir}
<1>1. \A m \in chosen : m = n
    BY DEF Valid
<1>2. CASE c[n].enabled
  <2>1. chosen = {n}
      BY <1>1, <1>2
  <2> QED
      BY <1>2, <2>1 DEF Desired
<1>3. CASE ~c[n].enabled
  <2>1. chosen = {}
      BY <1>1, <1>3
  <2> QED
      BY <1>3, <2>1 DEF Desired
<1> QED
    BY <1>2, <1>3

LEMMA EnsureDoes ==
    ASSUME FilesOK, NEW d \in Dirs, NEW wanted, NEW changed \in BOOLEAN, NEW failed \in BOOLEAN,
           EnsureFallback(d, wanted, changed, failed)
    PROVE  /\ \A e \in Dirs \ {d} : fallbackFile'[e] = fallbackFile[e]
           /\ ~failed => fallbackFile'[d] = wanted
           /\ fallbackFile'[d] \in {fallbackFile[d], wanted}
           /\ ~changed => fallbackFile' = fallbackFile
BY DEF EnsureFallback, FilesOK, Fallbacks

\* What is not an apply changes a fallback.json only for a synchronization that
\* publishes the active configuration.
LEMMA EnsureFollows ==
    ASSUME Core, IInv, Readers, Sound, NEW p \in Proc, Ensure(p)
    PROVE  fbWriter = None /\ \A d \in Dirs : Follows(cfg, d) => Follows(cfg, d)'
<1> DEFINE e == job[p].cert
           n == job[p].name
<1>1. pc[p] = "ensure" /\ fbWriter = None /\ e.fallback
    BY DEF Ensure, At, Readers, Reader, SyncSteps, Passing
<1>2. n \in Entries(cfg) /\ cfg[n] = e /\ e.dir \in Dirs
  <2>1. Current(p) /\ n \in Name /\ e \in EntriesEver
      BY <1>1 DEF IInv, Publishing, Readers, Reader, Core, Control, Named, Started, SyncSteps
  <2> QED
      BY <1>1, <2>1, EntryParts DEF IInv, Fresh, Started, SyncSteps, Current, Entries
<1>3. /\ \A f \in Dirs \ {e.dir} : fallbackFile'[f] = fallbackFile[f]
      /\ fallbackFile'[e.dir] \in {fallbackFile[e.dir], e.target}
    BY <1>2, EnsureDoes DEF Ensure, Core, TypeOK
<1>4. cfg' = cfg
    BY DEF Ensure, memory
<1>5. IF e.enabled THEN Desired(cfg, e.dir) = e.target ELSE Desired(cfg, e.dir) = None
    BY <1>1, <1>2, EntryDesired DEF Sound
<1> HIDE DEF e, n
<1>6. ASSUME NEW d \in Dirs, Follows(cfg, d) PROVE Follows(cfg, d)'
  <2>1. CASE fallbackFile'[d] = fallbackFile[d]
      BY <1>4, <1>6, <2>1 DEF Follows
  <2>2. CASE d = e.dir /\ fallbackFile'[d] = e.target
      BY <1>1, <1>2, <1>4, <1>5, <2>2 DEF Follows
  <2> QED
      BY <1>3, <1>6, <2>1, <2>2
<1> QED
    BY <1>1, <1>6

\* What is not an apply.
LEMMA FollowingElsewhere ==
    ASSUME Core, IInv, Readers, Sound, Following, NEW p \in Proc,
           Sync(p) \/ Other(p) \/ Arrive(p), ~Exit(p), ~Boot(p)
    PROVE  Following'
<1>1. UNCHANGED held /\ crashes' = crashes
  <2>1. crashes' = crashes
      BY DEF Sync, Begin, RLockFallbacks, LockDestination, BeginFetch, EndFetch,
         Install, Ensure, MarkSync, Record, Other, RecordValidation, ClearFlags, Drain, StopWatchers,
         Arrive, Request, SyncNow, ValidateNow, Tick, Acknowledge, Terminate, rest
  <2> QED
      BY <2>1, OthersLeave
<1>2. Stage' = Stage \/ (Stage \notin Writing /\ Stage' \notin Writing)
    BY StageElsewhere DEF Writing, SyncSteps
<1>3. \/ fallbackFile' = fallbackFile
      \/ fbWriter = None /\ \A d \in Dirs : Follows(cfg, d) => Follows(cfg, d)'
  <2>1. CASE Ensure(p)
      BY <2>1, EnsureFollows
  <2>2. CASE ~Ensure(p)
      BY <2>2 DEF Sync, Begin, RLockFallbacks, LockDestination, BeginFetch, EndFetch,
         Install, MarkSync, Record, Other, RecordValidation, ClearFlags, Drain, StopWatchers,
         Arrive, Request, SyncNow, ValidateNow, Tick, Acknowledge, Terminate, files
  <2> QED
      BY <2>1, <2>2
<1>4. CASE fallbackFile' = fallbackFile
  <2>1. \A d \in Dirs : Follows(cfg, d) => Follows(cfg, d)'
      BY <1>1, <1>4 DEF Follows, held
  <2> QED
      BY <1>1, <1>2, <1>4, <2>1 DEF Following, Involved, held, Writing, Reconciled
<1>5. CASE fbWriter = None /\ \A d \in Dirs : Follows(cfg, d) => Follows(cfg, d)'
  <2>1. Stage \notin Writing
      BY <1>5, StageWrites
  <2> QED
      BY <1>1, <1>2, <1>5, <2>1 DEF Following, held, Writing, Reconciled
<1> QED
    BY <1>3, <1>4, <1>5

LEMMA FollowingApply ==
    ASSUME Core, Following, NEW p \in Proc, Apply(p)
    PROVE  Following'
<1>0. /\ pc \in [Proc -> Steps] /\ staged \in Applies /\ None # p /\ torn \in BOOLEAN /\ FilesOK
      /\ cfg \in Configs /\ staged.cand \in Configs /\ staged.dirs \subseteq Dirs
    BY StageOf DEF Core, TypeOK, ControlOK, FilesOK, MemoryOK, Applies
<1>1. ASSUME UNCHANGED <<cfg, fbWriter, fallbackFile, crashes>>, torn => torn',
             Stage \notin Writing, Stage' \notin Writing
      PROVE  Following'
  <2>1. \A d \in Dirs : Follows(cfg, d) => Follows(cfg, d)'
      BY <1>1 DEF Follows
  <2> QED
      BY <1>1, <2>1 DEF Following, Writing, Reconciled
<1>2. CASE Acquire(p)
  <2>1. /\ UNCHANGED <<cfg, fbWriter, fallbackFile, crashes, torn>>
        /\ applyMu = None /\ applyMu' \in {None, p} /\ pc'[p] \in {"saveSecrets", "idle"}
      BY <1>0, <1>2 DEF Acquire, Goto, Done, memory, files
  <2>2. Stage \notin Writing /\ Stage' \notin Writing
      BY <1>0, <2>1 DEF Stage, Writing
  <2> QED
      BY <1>1, <2>1, <2>2
<1>3. ASSUME ~Acquire(p)
      PROVE  applyMu = p /\ Stage = pc[p] /\ (applyMu' = None => Stage' = "none")
             /\ (applyMu' = p => Stage' = pc'[p])
    BY <1>3, ApplyAlone, StageOf DEF Core, Stage
<1>4. CASE SaveSecrets(p) \/ Prepare(p) \/ StartWatchers(p) \/ RestoreSecrets(p) \/ InitialSyncs(p)
  <2>1. /\ UNCHANGED <<cfg, fbWriter, fallbackFile, crashes>> /\ (torn => torn')
        /\ pc[p] \in {"saveSecrets", "prepare", "start", "restoreSecrets", "initial"}
      BY <1>0, <1>4 DEF SaveSecrets, Prepare, StartWatchers, RestoreSecrets, InitialSyncs, SaveFails,
         At, memory, locks, files
  <2>2. pc'[p] \notin Writing
      BY <1>0, <1>4 DEF SaveSecrets, Prepare, StartWatchers, RestoreSecrets, InitialSyncs, Abandon,
         Done, At, Goto, Writing
  <2>3. ~Acquire(p) /\ applyMu' \in {None, applyMu}
      BY <1>4, <2>1 DEF Acquire, At, SaveSecrets, Prepare, StartWatchers, RestoreSecrets, InitialSyncs,
         Abandon, locks
  <2> QED
      BY <1>0, <1>1, <1>3, <2>1, <2>2, <2>3 DEF Writing
<1>5. CASE Abort(p) \/ StopOld(p)
  <2>1. /\ UNCHANGED <<cfg, fbWriter, fallbackFile, crashes, torn, applyMu>>
        /\ pc[p] \in {"abort", "stopOld"} /\ pc'[p] \notin Writing
      BY <1>0, <1>5 DEF Abort, StopOld, StopWatchers, At, Goto, memory, locks, files, Writing
  <2> QED
      BY <1>0, <1>1, <1>3, <2>1 DEF Writing, Acquire, At
<1>6. CASE LockFallbacks(p)
  <2>1. /\ UNCHANGED <<cfg, fallbackFile, crashes, torn, applyMu>> /\ fbWriter = None /\ fbWriter' # None
        /\ pc[p] = "fbLock" /\ pc'[p] = "reconcile"
        /\ staged'.cand = staged.cand /\ staged'.dirs = Involved
      BY <1>0, <1>6 DEF LockFallbacks, At, Goto, memory, files, Applies, Involved
  <2>2. Stage' = "reconcile"
      BY <1>3, <2>1 DEF Acquire, At
  <2>3. ASSUME crashes = 0, ~torn, NEW d \in Dirs \ Involved
        PROVE  fallbackFile[d] = None /\ Desired(staged.cand, d) = None
    <3>1. Follows(cfg, d)
        BY <2>1, <2>3 DEF Following
    <3> QED
        BY <2>3, <3>1, NothingDesired DEF Involved
  <2> QED
      BY <2>1, <2>2, <2>3 DEF Following, Involved, Reconciled
<1>7. CASE Reconcile(p)
  <2>0. /\ UNCHANGED <<cfg, crashes, torn, applyMu, fbWriter>> /\ pc[p] = "reconcile" /\ Stage = "reconcile"
        /\ Stage' = pc'[p] /\ fbWriter # None
      BY <1>3, <1>7, StageWrites DEF Reconcile, At, memory, locks, Acquire, Writing
  <2>1. CASE staged.dirs = {} /\ pc'[p] = "saveConfig" /\ UNCHANGED <<fallbackFile, staged>>
      BY <2>0, <2>1 DEF Following, Reconciled, Involved, Writing
  <2>2. ASSUME NEW d \in staged.dirs, NEW changed \in BOOLEAN, NEW failed \in BOOLEAN,
               EnsureFallback(d, Desired(staged.cand, d), changed, failed),
               IF failed
               THEN /\ Goto(p, "unreconcile")
                    /\ staged' = [staged EXCEPT !.dirs = DirsOf(cfg) \cup DirsOf(staged.cand)]
               ELSE /\ staged' = [staged EXCEPT !.dirs = @ \ {d},
                                    !.changed = IF changed THEN @ \cup {d} ELSE @]
                    /\ UNCHANGED pc
        PROVE  Following'
    <3>1. staged'.cand = staged.cand /\ staged'.dirs = IF failed THEN Involved ELSE staged.dirs \ {d}
        BY <1>0, <2>2 DEF Applies, Involved
    <3>2. Stage' = IF failed THEN "unreconcile" ELSE "reconcile"
        BY <1>0, <2>0, <2>2 DEF Goto
    <3>3. /\ \A f \in Dirs \ {d} : fallbackFile'[f] = fallbackFile[f]
          /\ ~failed => fallbackFile'[d] = Desired(staged.cand, d)
        BY <1>0, <2>2, EnsureDoes
    <3>4. Involved' = Involved
        BY <2>0, <3>1 DEF Involved
    <3>5. ASSUME crashes = 0, ~torn
          PROVE  /\ \A f \in Dirs \ Involved : fallbackFile'[f] = None /\ Desired(cfg, f) = None
                 /\ \A f \in Dirs \ staged'.dirs : ~failed => fallbackFile'[f] = Desired(staged.cand, f)
                 /\ staged'.dirs \subseteq Involved
      <4>1. d \in Involved /\ staged.dirs \subseteq Involved
          BY <2>0, <2>2, <3>5 DEF Following
      <4>2. \A f \in Dirs \ Involved : fallbackFile'[f] = None
          BY <2>0, <3>3, <3>5, <4>1 DEF Following, Writing
      <4>3. \A f \in Dirs \ Involved : Desired(cfg, f) = None
          BY NothingDesired DEF Involved
      <4>4. \A f \in Dirs \ staged'.dirs : ~failed => fallbackFile'[f] = Desired(staged.cand, f)
          BY <2>0, <3>1, <3>3, <3>5 DEF Following
      <4> QED
          BY <3>1, <4>1, <4>2, <4>3, <4>4
    <3> QED
        BY <2>0, <3>1, <3>2, <3>4, <3>5 DEF Following, Writing, Reconciled
  <2> QED
      BY <1>0, <1>7, <2>0, <2>1, <2>2 DEF Reconcile, Goto
<1>8. CASE SaveConfig(p) \/ MarkChanged(p) \/ RestoreConfig(p) \/ ReadFlags(p)
  <2>1. /\ UNCHANGED <<cfg, crashes, applyMu, fbWriter, fallbackFile>> /\ (torn => torn')
        /\ staged'.cand = staged.cand
      BY <1>0, <1>8 DEF SaveConfig, MarkChanged, RestoreConfig, ReadFlags, SaveFails, memory, locks, files, Applies
  <2>2. \/ pc[p] \in Reconciled /\ pc'[p] \in Reconciled \cup {"restoreConfig"}
        \/ pc[p] \in {"saveConfig", "restoreConfig"} /\ pc'[p] = "unreconcile" /\ staged'.dirs = Involved
      BY <1>0, <1>8 DEF SaveConfig, MarkChanged, RestoreConfig, ReadFlags, At, Goto, Applies, Reconciled, Involved
  <2>3. Stage = pc[p] /\ Stage' = pc'[p] /\ Involved' = Involved /\ fbWriter # None
      BY <1>3, <2>1, <2>2, StageWrites DEF Reconciled, Acquire, At, Writing, Involved
  <2>4. \A d \in Dirs \ Involved : Desired(cfg, d) = None
      BY NothingDesired DEF Involved
  <2> QED
      BY <2>1, <2>2, <2>3, <2>4 DEF Following, Writing, Reconciled
<1>9. CASE Unreconcile(p)
  <2>0. /\ UNCHANGED <<cfg, crashes, applyMu>> /\ pc[p] = "unreconcile" /\ Stage = "unreconcile"
        /\ Stage' = pc'[p] /\ fbWriter # None
      BY <1>3, <1>9, StageWrites DEF Unreconcile, At, memory, Acquire, Writing
  <2>1. CASE staged.dirs = {} /\ pc'[p] = "abort" /\ fbWriter' = None /\ UNCHANGED <<fallbackFile, staged, torn>>
    <3>1. crashes = 0 /\ ~torn => \A d \in Dirs : Follows(cfg, d)'
        BY <2>0, <2>1 DEF Following, Follows
    <3> QED
        BY <2>0, <2>1, <3>1 DEF Following, Reconciled, Writing
  <2>2. ASSUME NEW d \in staged.dirs, NEW changed \in BOOLEAN, NEW failed \in BOOLEAN,
               EnsureFallback(d, Desired(cfg, d), changed, failed),
               staged' = [staged EXCEPT !.dirs = IF failed THEN {} ELSE @ \ {d}],
               torn' = (torn \/ failed), UNCHANGED <<pc, fbWriter>>
        PROVE  Following'
    <3>1. staged'.cand = staged.cand /\ (~failed => staged'.dirs = staged.dirs \ {d}) /\ Stage' = "unreconcile"
        BY <1>0, <2>0, <2>2 DEF Applies
    <3>2. /\ \A f \in Dirs \ {d} : fallbackFile'[f] = fallbackFile[f]
          /\ ~failed => fallbackFile'[d] = Desired(cfg, d)
        BY <1>0, <2>2, EnsureDoes
    <3>3. Involved' = Involved
        BY <2>0, <3>1 DEF Involved
    <3>4. CASE crashes = 0 /\ ~torn /\ ~failed
      <4>1. d \in Involved /\ staged'.dirs \subseteq Involved
          BY <2>0, <2>2, <3>1, <3>4 DEF Following
      <4>2. \A f \in Dirs \ Involved : fallbackFile'[f] = None
          BY <2>0, <3>2, <3>4, <4>1 DEF Following, Writing
      <4>3. \A f \in Dirs \ staged'.dirs : fallbackFile'[f] = Desired(cfg, f)
          BY <2>0, <3>1, <3>2, <3>4 DEF Following
      <4> QED
          BY <2>0, <2>2, <3>1, <3>3, <4>1, <4>2, <4>3 DEF Following, Writing, Reconciled
    <3>5. CASE ~(crashes = 0 /\ ~torn /\ ~failed)
        BY <2>0, <2>2, <3>5 DEF Following
    <3> QED
        BY <3>4, <3>5
  <2> QED
      BY <1>0, <1>9, <2>1, <2>2 DEF Unreconcile, Goto
<1>10. CASE Activate(p)
  <2>1. /\ UNCHANGED <<crashes, applyMu, torn, fallbackFile>> /\ cfg' = staged.cand
        /\ pc[p] = "activate" /\ pc'[p] = "stopOld"
      BY <1>0, <1>10 DEF Activate, At, Goto, files
  <2>2. Stage = "activate" /\ Stage' = "stopOld"
      BY <1>3, <2>1 DEF Acquire, At
  <2>3. crashes = 0 /\ ~torn => \A d \in Dirs : Follows(cfg, d)'
      BY <2>1, <2>2 DEF Following, Follows, Reconciled
  <2> QED
      BY <2>1, <2>2, <2>3 DEF Following, Reconciled, Writing
<1> QED
    BY <1>2, <1>4, <1>5, <1>6, <1>7, <1>8, <1>9, <1>10 DEF Apply

LEMMA FollowingHolds ==
    ASSUME Core, IInv, Readers, Sound, Booting, Following, [Next]_vars
    PROVE  Following'
<1>1. CASE Crash
  <2>1. crashes' # 0
      BY <1>1, ManagerAssumption DEF Crash, Core, TypeOK, FilesOK
  <2> QED
      BY <2>1 DEF Following
<1>2. ASSUME NEW p \in Proc, Exit(p) PROVE Following'
  <2>1. /\ cfg = NoEntries /\ cfg' = NoEntries /\ fbWriter = None
        /\ UNCHANGED <<fallbackFile, torn, crashes>> /\ Stage' = "none"
    <3>1. applyMu = None /\ cfg = NoEntries
        BY <1>2 DEF Exit, At, Booting
    <3>2. Stage \notin Writing
        BY <3>1 DEF Stage, Writing
    <3> QED
        BY <1>2, <3>1, <3>2, StageWrites DEF Exit, Shutdown, files, Stage
  <2>2. \A d \in Dirs : Follows(cfg, d) => Follows(cfg, d)'
      BY <2>1 DEF Follows
  <2> QED
      BY <2>1, <2>2 DEF Following, Writing, Reconciled
<1>3. CASE UNCHANGED vars
    BY <1>3 DEF vars, memory, locks, files, rest, Following, Follows, Stage, Involved
<1>4. ASSUME NEW p \in Proc, Boot(p) PROVE Following'
  <2>1. /\ UNCHANGED <<cfg, fbWriter, fallbackFile, torn, crashes>> /\ phase = "down"
        /\ applyMu' = p /\ pc'[p] = "saveSecrets" /\ p # None
      BY <1>4, StageOf DEF Boot, files, Goto, Core, TypeOK, ControlOK
  <2>2. Stage' = "saveSecrets"
      BY <2>1 DEF Stage
  <2>3. \A d \in Dirs : Follows(cfg, d) => Follows(cfg, d)'
      BY <2>1 DEF Follows
  <2> QED
      BY <2>1, <2>2, <2>3 DEF Following, Writing, Reconciled
<1> QED
    BY <1>1, <1>2, <1>3, <1>4, FollowingElsewhere, FollowingApply DEF Next

\* The invariant of the fallback files.
Follow == Readers /\ Sound /\ Booting /\ Following

LEMMA AlwaysFollow ==
    ASSUME "terminate" \notin Tasks
    PROVE  Spec => []Follow
<1>1. Init => Follow
  <2> SUFFICES ASSUME Init PROVE Follow
      OBVIOUS
  <2>1. Stage = "none" /\ cfg = NoEntries
      BY DEF Init, Stage
  <2>2. \A d \in Dirs : Follows(cfg, d)
      BY DEF Init, Follows, Desired, Entries, NoEntries
  <2> QED
      BY <2>1, <2>2, NothingValid DEF Init, Follow, Readers, Reader, Passing, SyncSteps, Sound, Preparing,
         Booting, Candidacy, Holding, ApplySteps, Following, Writing, Reconciled
<1>2. Core /\ IInv /\ Follow /\ [Next]_vars => Follow'
    BY ReadersHold, SoundHolds, BootingHolds, FollowingHolds DEF Follow
<1> QED
    BY Always, Inductive, <1>1, <1>2, PTL DEF Spec

\* Until the process crashes, every fallback.json names the enabled fallback entry of
\* the active configuration, or is one that Sync Now made for a disabled entry, after any
\* applies, refused or undone ones included, and any synchronizations between them:
\* fallbackApplyMu keeps a synchronization from changing a file under an apply.  A crash
\* between the change of a file and that of config.json leaves a file nobody asked for.
THEOREM FallbackIsFollowed ==
    ASSUME "terminate" \notin Tasks
    PROVE  Spec => [](crashes = 0 => FallbackFollowsConfig)
<1>1. Follow => (crashes = 0 => FallbackFollowsConfig)
    BY DEF Follow, Following, Follows, FallbackFollowsConfig
<1> QED
    BY AlwaysFollow, <1>1, PTL

----------------------------------------------------------------------------
(* Pending warnings *)

\* The pending directories are read before anything of them is written.
Loads ==
    /\ phase = "serving" => loaded
    /\ Stage \in (Holding \cup SyncSteps) \ {"saveSecrets", "prepare", "restoreSecrets"} => loaded

LEMMA LoadsHold ==
    ASSUME Core, Loads, [Next]_vars
    PROVE  Loads'
<1>0. /\ pc \in [Proc -> Steps]
    BY DEF Core, TypeOK, ControlOK
<1>1. CASE Crash \/ \E p \in Proc : Exit(p)
    BY <1>1 DEF Crash, Exit, Shutdown, Loads, Stage, Holding, ApplySteps, SyncSteps
<1>2. CASE UNCHANGED vars
    BY <1>2 DEF vars, locks, rest, Loads, Stage
<1>3. ASSUME NEW p \in Proc, Sync(p) \/ Other(p) \/ Arrive(p), ~Exit(p), ~Boot(p) PROVE Loads'
  <2>1. loaded' = loaded
      BY <1>3 DEF Sync, Begin, RLockFallbacks, LockDestination, BeginFetch, EndFetch,
         Install, Ensure, MarkSync, Record, Other, RecordValidation, ClearFlags, Drain, StopWatchers,
         Arrive, Request, SyncNow, ValidateNow, Tick, Acknowledge, Terminate, rest
  <2>2. phase' = phase
      BY <1>3, OthersLeave DEF held
  <2> QED
      BY <1>3, <2>1, <2>2, StageElsewhere DEF Loads, SyncSteps, Holding, ApplySteps
<1>4. ASSUME NEW p \in Proc, Boot(p) PROVE Loads'
  <2>1. Stage' = "saveSecrets" /\ phase' = "boot"
      BY <1>0, <1>4, StageOf DEF Boot, Goto, Stage
  <2> QED
      BY <2>1 DEF Loads
<1>5. ASSUME NEW p \in Proc, Apply(p) PROVE Loads'
  <2>0. None # p
      BY StageOf
  <2>1. CASE Acquire(p)
    <3>1. applyMu' \in {None, p} /\ pc'[p] \in {"saveSecrets", "idle"} /\ UNCHANGED <<phase, loaded>>
        BY <1>0, <2>1 DEF Acquire, Goto, Done
    <3> QED
        BY <2>0, <3>1 DEF Stage, Loads, Holding, ApplySteps, SyncSteps
  <2>2. CASE ~Acquire(p)
    <3>1. applyMu = p /\ Stage = pc[p] /\ (applyMu' = None => Stage' = "none")
          /\ (applyMu' = p => Stage' = pc'[p])
        BY <1>5, <2>2, ApplyAlone, StageOf DEF Core, Stage
    <3>2. CASE Prepare(p)
        BY <1>0, <3>1, <3>2 DEF Prepare, Goto, locks, Loads
    <3>3. CASE SaveSecrets(p) \/ RestoreSecrets(p)
      <4>1. phase' = phase /\ loaded' = loaded /\ (applyMu' = None \/ (applyMu' = p /\ pc'[p] = "prepare"))
          BY <1>0, <3>1, <3>3 DEF SaveSecrets, RestoreSecrets, Abandon, Goto
      <4> QED
          BY <3>1, <4>1 DEF Loads, Holding, ApplySteps, SyncSteps
    <3>4. ASSUME pc[p] \in Holding \ {"saveSecrets", "prepare", "restoreSecrets"}, loaded' = loaded PROVE Loads'
        BY <3>1, <3>4 DEF Loads
    <3>5. CASE Abort(p) \/ StopOld(p) \/ InitialSyncs(p)
        BY <3>4, <3>5 DEF Abort, StopOld, StopWatchers, InitialSyncs, At, Holding, ApplySteps
    <3>6. CASE StartWatchers(p) \/ LockFallbacks(p) \/ Reconcile(p) \/ SaveConfig(p) \/ MarkChanged(p)
               \/ RestoreConfig(p) \/ Unreconcile(p) \/ ReadFlags(p) \/ Activate(p)
        BY <3>4, <3>6 DEF StartWatchers, LockFallbacks, Reconcile, SaveConfig, MarkChanged, RestoreConfig,
           Unreconcile, ReadFlags, Activate, At, Holding, ApplySteps
    <3> QED
        BY <1>5, <2>2, <3>2, <3>3, <3>5, <3>6 DEF Apply
  <2> QED
      BY <2>1, <2>2
<1> QED
    BY <1>1, <1>2, <1>3, <1>4, <1>5 DEF Next

\* The change of fallback.json of d is acknowledged or marked.
Cover(f, d) == f[d] = acked[d] \/ (d \in diskPending /\ (loaded => d \in pending))
\* An apply changes the files before it marks what it has changed.
Changing == {"reconcile", "saveConfig", "mark"}
Marked   == {"flags", "activate"}
\* What is acknowledged or marked, by where the apply is: before its mark it knows what it
\* has changed, and what was there before was covered.
Covering ==
    crashes = 0 /\ ~torn =>
        /\ \A p \in Proc : pc[p] # "markSync"
        /\ fbWriter = None => \A d \in Dirs : Cover(fallbackFile, d)
        /\ Stage \in Writing => \A d \in Dirs : staged.before[d] = Desired(cfg, d)
        /\ Stage \in Writing \ Marked => \A d \in Dirs : Cover(staged.before, d)
        /\ Stage \in Changing =>
              \A d \in Dirs : d \in staged.changed \/ fallbackFile[d] = staged.before[d]
        /\ Stage \in Marked => \A d \in Dirs : Cover(fallbackFile, d)

\* No request turns a fallback entry off.
FallbacksEnabled == \A e \in EntriesEver : e.fallback => e.enabled

\* With no disabled fallback entry fallback.json is exactly what is asked for, and
\* a synchronization finds it so.
LEMMA Exactly ==
    ASSUME FallbacksEnabled, Core, Following, crashes = 0, ~torn, fbWriter = None, NEW d \in Dirs
    PROVE  fallbackFile[d] = Desired(cfg, d)
<1>1. \A n \in Entries(cfg) : cfg[n] \in EntriesEver
    BY DEF Core, TypeOK, MemoryOK, Configs, Entries
<1> QED
    BY <1>1 DEF Following, Follows, FallbacksEnabled

LEMMA EnsuredAlready ==
    ASSUME FallbacksEnabled, Core, IInv, Readers, Sound, Following, crashes = 0, ~torn, NEW p \in Proc, Ensure(p)
    PROVE  fallbackFile' = fallbackFile /\ pc'[p] = "record"
<1> DEFINE e == job[p].cert
           n == job[p].name
<1>1. pc[p] = "ensure" /\ fbWriter = None /\ e.fallback
    BY DEF Ensure, At, Readers, Reader, SyncSteps, Passing
<1>2. n \in Entries(cfg) /\ cfg[n] = e /\ e.dir \in Dirs /\ e \in EntriesEver
  <2>1. Current(p) /\ n \in Name /\ e \in EntriesEver
      BY <1>1 DEF IInv, Publishing, Readers, Reader, Core, Control, Named, Started, SyncSteps
  <2> QED
      BY <1>1, <2>1, EntryParts DEF IInv, Fresh, Started, SyncSteps, Current, Entries
<1>3. fallbackFile[e.dir] = e.target
    BY <1>1, <1>2, Exactly, EntryDesired DEF Sound, FallbacksEnabled
<1>4. pc \in [Proc -> Steps]
    BY DEF Core, TypeOK, ControlOK
<1> QED
    BY <1>3, <1>4 DEF Ensure, EnsureFallback, Goto

LEMMA CoveringApply ==
    ASSUME FallbacksEnabled, "syncRuntime" \notin FaultyOps,
           Core, Following, Loads, Covering, NEW p \in Proc, Apply(p)
    PROVE  Covering'
<1>0. /\ pc \in [Proc -> Steps] /\ staged \in Applies /\ None # p /\ torn \in BOOLEAN /\ FilesOK
      /\ cfg \in Configs /\ staged.cand \in Configs /\ staged.dirs \subseteq Dirs
    BY StageOf DEF Core, TypeOK, ControlOK, FilesOK, MemoryOK, Applies
<1>1. \A q \in Proc : pc[q] # "markSync" => pc'[q] # "markSync"
  <2>1. ~Exit(p) /\ pc'[p] # "markSync"
      BY ApplyMoves DEF Core, Exit, At, Takes, GoesOn, Finishes, Calls, Rests, Holding, ApplySteps
  <2> QED
      BY <2>1, Elsewhere DEF Core
<1>2. ASSUME ~Acquire(p)
      PROVE  applyMu = p /\ Stage = pc[p] /\ (applyMu' = None => Stage' = "none")
             /\ (applyMu' = p => Stage' = pc'[p])
    BY <1>2, ApplyAlone, StageOf DEF Core, Stage
<1>3. ASSUME UNCHANGED <<fbWriter, fallbackFile, acked, crashes>>, torn => torn',
             Stage \notin Writing, Stage' \notin Writing,
             \A f : \A d \in Dirs : Cover(f, d) => (f[d] = acked'[d] \/ (d \in diskPending' /\ (loaded' => d \in pending')))
      PROVE  Covering'
    BY <1>1, <1>3 DEF Covering, Cover, Writing, Changing, Marked
<1>4. CASE Acquire(p)
  <2>1. /\ UNCHANGED <<fbWriter, fallbackFile, acked, crashes, torn, pending, diskPending, loaded>>
        /\ applyMu = None /\ applyMu' \in {None, p} /\ pc'[p] \in {"saveSecrets", "idle"}
      BY <1>0, <1>4 DEF Acquire, Goto, Done, files
  <2>2. Stage \notin Writing /\ Stage' \notin Writing
      BY <1>0, <2>1 DEF Stage, Writing
  <2> QED
      BY <1>3, <2>1, <2>2 DEF Cover
<1>5. CASE SaveSecrets(p) \/ Prepare(p) \/ StartWatchers(p) \/ RestoreSecrets(p) \/ InitialSyncs(p)
  <2>1. /\ UNCHANGED <<fbWriter, fallbackFile, acked, crashes, diskPending>> /\ (torn => torn')
        /\ pc[p] \in {"saveSecrets", "prepare", "start", "restoreSecrets", "initial"}
      BY <1>0, <1>5 DEF SaveSecrets, Prepare, StartWatchers, RestoreSecrets, InitialSyncs, SaveFails,
         At, locks, files
  <2>2. pc'[p] \notin Writing
      BY <1>0, <1>5 DEF SaveSecrets, Prepare, StartWatchers, RestoreSecrets, InitialSyncs, Abandon,
         Done, At, Goto, Writing
  <2>3. ~Acquire(p) /\ applyMu' \in {None, applyMu}
      BY <1>5, <2>1 DEF Acquire, At, SaveSecrets, Prepare, StartWatchers, RestoreSecrets, InitialSyncs,
         Abandon, locks
  <2>4. UNCHANGED <<pending, loaded>> \/ pending' = (IF loaded THEN pending ELSE diskPending)
      BY <1>5 DEF SaveSecrets, Prepare, StartWatchers, RestoreSecrets, InitialSyncs
  <2>5. Stage \notin Writing /\ Stage' \notin Writing
      BY <1>0, <1>2, <2>1, <2>2, <2>3 DEF Writing
  <2>6. \A f : \A d \in Dirs : Cover(f, d) => (f[d] = acked'[d] \/ (d \in diskPending' /\ (loaded' => d \in pending')))
      BY <2>1, <2>4 DEF Cover
  <2> QED
      BY <1>3, <2>1, <2>5, <2>6
<1>6. CASE Abort(p) \/ StopOld(p)
  <2>1. /\ UNCHANGED <<fbWriter, fallbackFile, acked, crashes, torn, applyMu, pending, diskPending, loaded>>
        /\ pc[p] \in {"abort", "stopOld"} /\ pc'[p] \notin Writing
      BY <1>0, <1>6 DEF Abort, StopOld, StopWatchers, At, Goto, locks, files, Writing
  <2>2. Stage \notin Writing /\ Stage' \notin Writing
      BY <1>0, <1>2, <2>1 DEF Writing, Acquire, At
  <2> QED
      BY <1>3, <2>1, <2>2 DEF Cover
<1>7. CASE LockFallbacks(p)
  <2>1. /\ UNCHANGED <<cfg, fallbackFile, acked, crashes, torn, applyMu, pending, diskPending, loaded>>
        /\ fbWriter = None /\ fbWriter' # None
        /\ pc[p] = "fbLock" /\ pc'[p] = "reconcile" /\ staged'.before = fallbackFile
      BY <1>0, <1>7 DEF LockFallbacks, At, Goto, memory, files, Applies
  <2>2. Stage' = "reconcile"
      BY <1>2, <2>1 DEF Acquire, At
  <2>3. crashes = 0 /\ ~torn => \A d \in Dirs : fallbackFile[d] = Desired(cfg, d)
      BY <2>1, Exactly
  <2> QED
      BY <1>1, <2>1, <2>2, <2>3 DEF Covering, Cover, Writing, Changing, Marked
<1>8. CASE Reconcile(p)
  <2>0. /\ UNCHANGED <<cfg, crashes, torn, applyMu, fbWriter, acked, pending, diskPending, loaded>>
        /\ pc[p] = "reconcile" /\ Stage = "reconcile"
        /\ Stage' = pc'[p] /\ fbWriter # None
      BY <1>2, <1>8, StageWrites DEF Reconcile, At, memory, locks, Acquire, Writing
  <2>1. CASE staged.dirs = {} /\ pc'[p] = "saveConfig" /\ UNCHANGED <<fallbackFile, staged>>
      BY <1>1, <2>0, <2>1 DEF Covering, Cover, Writing, Changing, Marked
  <2>2. ASSUME NEW d \in staged.dirs, NEW changed \in BOOLEAN, NEW failed \in BOOLEAN,
               EnsureFallback(d, Desired(staged.cand, d), changed, failed),
               IF failed
               THEN /\ Goto(p, "unreconcile")
                    /\ staged' = [staged EXCEPT !.dirs = DirsOf(cfg) \cup DirsOf(staged.cand)]
               ELSE /\ staged' = [staged EXCEPT !.dirs = @ \ {d},
                                    !.changed = IF changed THEN @ \cup {d} ELSE @]
                    /\ UNCHANGED pc
        PROVE  Covering'
    <3>1. /\ staged'.before = staged.before
          /\ ~failed => staged'.changed = staged.changed \cup (IF changed THEN {d} ELSE {})
        BY <1>0, <2>2 DEF Applies
    <3>2. Stage' = IF failed THEN "unreconcile" ELSE "reconcile"
        BY <1>0, <2>0, <2>2 DEF Goto
    <3>3. /\ \A f \in Dirs \ {d} : fallbackFile'[f] = fallbackFile[f]
          /\ ~changed => fallbackFile' = fallbackFile
        BY <1>0, <2>2, EnsureDoes
    <3>4. ASSUME crashes = 0, ~torn, ~failed, NEW f \in Dirs
          PROVE  f \in staged'.changed \/ fallbackFile'[f] = staged.before[f]
        BY <2>0, <2>2, <3>1, <3>3, <3>4 DEF Covering, Changing
    <3> QED
        BY <1>1, <2>0, <3>1, <3>2, <3>4 DEF Covering, Cover, Writing, Changing, Marked
  <2> QED
      BY <1>0, <1>8, <2>0, <2>1, <2>2 DEF Reconcile, Goto
<1>9. CASE SaveConfig(p) \/ RestoreConfig(p) \/ ReadFlags(p)
  <2>1. /\ UNCHANGED <<cfg, crashes, applyMu, fbWriter, fallbackFile, acked, pending, diskPending, loaded>>
        /\ (torn => torn') /\ staged'.before = staged.before /\ staged'.changed = staged.changed
      BY <1>0, <1>9 DEF SaveConfig, RestoreConfig, ReadFlags, SaveFails, memory, locks, files, Applies
  <2>2. \/ pc[p] = "saveConfig" /\ pc'[p] \in {"mark", "unreconcile"}
        \/ pc[p] = "restoreConfig" /\ pc'[p] = "unreconcile"
        \/ pc[p] = "flags" /\ pc'[p] = "activate"
      BY <1>0, <1>9 DEF SaveConfig, RestoreConfig, ReadFlags, At, Goto
  <2>3. Stage = pc[p] /\ Stage' = pc'[p] /\ fbWriter # None
      BY <1>2, <2>1, <2>2, StageWrites DEF Acquire, At, Writing
  <2> QED
      BY <1>1, <2>1, <2>2, <2>3 DEF Covering, Cover, Writing, Changing, Marked
<1>10. CASE MarkChanged(p)
  <2>1. /\ UNCHANGED <<cfg, crashes, applyMu, fbWriter, fallbackFile, acked, loaded, torn, staged>>
        /\ pc[p] = "mark"
      BY <1>10 DEF MarkChanged, At, memory, locks, files
  <2>2. Stage = "mark" /\ Stage' = pc'[p] /\ fbWriter # None /\ loaded
      BY <1>2, <2>1, StageWrites DEF Acquire, At, Writing, Loads, Holding, ApplySteps
  <2>3. CASE pc'[p] = "restoreConfig" /\ UNCHANGED <<pending, diskPending>>
      BY <1>1, <2>1, <2>2, <2>3 DEF Covering, Cover, Writing, Changing, Marked
  <2>4. CASE pc'[p] = "flags" /\ UNCHANGED <<pending, diskPending>> /\ staged.changed = {}
      BY <1>1, <2>1, <2>2, <2>4 DEF Covering, Cover, Writing, Changing, Marked
  <2>5. CASE pc'[p] = "flags" /\ pending' = pending \cup staged.changed /\ diskPending' = pending'
      BY <1>1, <2>1, <2>2, <2>5 DEF Covering, Cover, Writing, Changing, Marked
  <2> QED
      BY <1>0, <1>10, <2>3, <2>4, <2>5 DEF MarkChanged, Goto, MarkPending, MarkPendingFails, SavePending,
         SavePendingFails, Fail
<1>11. CASE Unreconcile(p)
  <2>0. /\ UNCHANGED <<cfg, crashes, applyMu, acked, pending, diskPending, loaded>>
        /\ pc[p] = "unreconcile" /\ Stage = "unreconcile"
        /\ Stage' = pc'[p] /\ fbWriter # None
      BY <1>2, <1>11, StageWrites DEF Unreconcile, At, memory, Acquire, Writing
  <2>1. CASE staged.dirs = {} /\ pc'[p] = "abort" /\ fbWriter' = None /\ UNCHANGED <<fallbackFile, staged, torn>>
    <3>1. ASSUME crashes = 0, ~torn, NEW d \in Dirs
          PROVE  fallbackFile[d] = staged.before[d] /\ Cover(staged.before, d)
        BY <2>0, <2>1, <3>1 DEF Covering, Following, Writing, Marked
    <3> QED
        BY <1>1, <2>0, <2>1, <3>1 DEF Covering, Cover, Changing, Writing, Marked
  <2>2. CASE staged'.before = staged.before /\ (torn => torn') /\ UNCHANGED <<pc, fbWriter>>
      BY <1>1, <2>0, <2>2 DEF Covering, Cover, Writing, Changing, Marked
  <2> QED
      BY <1>0, <1>11, <2>1, <2>2 DEF Unreconcile, Goto, Applies
<1>12. CASE Activate(p)
  <2>1. /\ UNCHANGED <<crashes, applyMu, torn, fallbackFile, acked, pending, diskPending, loaded>>
        /\ pc[p] = "activate" /\ pc'[p] = "stopOld"
      BY <1>0, <1>12 DEF Activate, At, Goto, files
  <2>2. Stage = "activate" /\ Stage' = "stopOld"
      BY <1>2, <2>1 DEF Acquire, At
  <2> QED
      BY <1>1, <2>1, <2>2 DEF Covering, Cover, Writing, Changing, Marked
<1> QED
    BY <1>4, <1>5, <1>6, <1>7, <1>8, <1>9, <1>10, <1>11, <1>12 DEF Apply

LEMMA CoveringHolds ==
    ASSUME FallbacksEnabled, "terminate" \notin Tasks, "syncRuntime" \notin FaultyOps,
           Core, IInv, Readers, Sound, Booting, Following, Loads, Covering, [Next]_vars
    PROVE  Covering'
<1>0. pc \in [Proc -> Steps]
    BY DEF Core, TypeOK, ControlOK
<1>1. CASE Crash
  <2>1. crashes' # 0
      BY <1>1, ManagerAssumption DEF Crash, Core, TypeOK, FilesOK
  <2> QED
      BY <2>1 DEF Covering
<1>2. ASSUME NEW p \in Proc, Exit(p) PROVE Covering'
  <2>1. /\ UNCHANGED <<fallbackFile, torn, crashes, diskPending, acked>> /\ Stage' = "none"
        /\ ~loaded' /\ \A q \in Proc : pc'[q] = "idle"
      BY <1>2 DEF Exit, Shutdown, files, Stage
  <2>2. fbWriter = None
    <3>1. Stage \notin Writing
        BY <1>2 DEF Exit, At, Booting, Stage, Writing
    <3> QED
        BY <3>1, StageWrites
  <2> QED
      BY <2>1, <2>2 DEF Covering, Cover, Writing, Changing, Marked
<1>3. CASE UNCHANGED vars
    BY <1>3 DEF vars, memory, locks, files, rest, Covering, Cover, Stage
<1>4. ASSUME NEW p \in Proc, Boot(p) PROVE Covering'
  <2>1. /\ UNCHANGED <<fbWriter, fallbackFile, torn, crashes, acked, pending, diskPending, loaded>>
        /\ applyMu' = p /\ pc' = [pc EXCEPT ![p] = "saveSecrets"] /\ p # None
      BY <1>4, StageOf DEF Boot, files, Goto
  <2>2. Stage' = "saveSecrets"
      BY <1>0, <2>1 DEF Stage
  <2> QED
      BY <1>0, <2>1, <2>2 DEF Covering, Cover, Writing, Changing, Marked
<1>5. ASSUME NEW p \in Proc, Sync(p) \/ Other(p) \/ Arrive(p), ~Exit(p), ~Boot(p) PROVE Covering'
  <2>1. UNCHANGED <<cfg, staged, torn, fbWriter, phase, crashes, loaded>>
    <3>1. UNCHANGED <<crashes, loaded>>
        BY <1>5 DEF Sync, Begin, RLockFallbacks, LockDestination, BeginFetch, EndFetch,
           Install, Ensure, MarkSync, Record, Other, RecordValidation, ClearFlags, Drain, StopWatchers,
           Arrive, Request, SyncNow, ValidateNow, Tick, Acknowledge, Terminate, rest
    <3> QED
        BY <1>5, <3>1, OthersLeave DEF held
  <2>2. Stage' = Stage \/ (Stage \notin Writing /\ Stage' \notin Writing)
      BY <1>5, StageElsewhere DEF Writing, SyncSteps
  <2>3. CASE ~(crashes = 0 /\ ~torn)
      BY <2>1, <2>3 DEF Covering
  <2>4. CASE crashes = 0 /\ ~torn
    <3>1. ~MarkSync(p)
        BY <2>4 DEF MarkSync, At, Covering
    <3>2. fallbackFile' = fallbackFile /\ \A q \in Proc : pc'[q] # "markSync"
      <4>1. CASE Ensure(p)
          BY <1>5, <2>4, <4>1, EnsuredAlready, Elsewhere DEF Covering, Core
      <4>2. CASE ~Ensure(p)
        <5>1. fallbackFile' = fallbackFile
            BY <1>5, <3>1, <4>2 DEF Sync, Begin, RLockFallbacks, LockDestination, BeginFetch, EndFetch,
               Install, Record, Other, RecordValidation, ClearFlags, Drain, StopWatchers,
               Arrive, Request, SyncNow, ValidateNow, Tick, Acknowledge, Terminate, files
        <5>2. pc'[p] # "markSync"
          <6>1. CASE Sync(p)
              BY <1>0, <3>1, <4>2, <6>1 DEF Sync, Begin, RLockFallbacks, LockDestination, BeginFetch,
                 EndFetch, Install, Record, Return, Done, Goto, At
          <6>2. CASE Other(p) \/ Arrive(p)
              BY <1>5, <6>2, OtherMoves, ArriveMoves DEF Core, Rests, Works, Boots
          <6> QED
              BY <1>5, <6>1, <6>2
        <5> QED
            BY <1>5, <2>4, <5>1, <5>2, Elsewhere DEF Covering, Core
      <4> QED
          BY <4>1, <4>2
    <3>3. CASE Acknowledge(p)
      <4>1. CASE acked' = Settled /\ pending' = {} /\ diskPending' = {}
        <5>1. /\ fbWriter = None => acked' = fallbackFile
              /\ Stage \in Writing \ Marked => acked' = staged.before
              /\ Stage \in Marked => acked' = fallbackFile
          <6>1. Stage \in Writing => fbWriter = applyMu /\ fbWriter # None
              BY StageWrites, ManagerAssumption DEF Core, TypeOK, LocksOK, Writer, Stage, Writing
          <6> QED
              BY <4>1, <6>1 DEF Settled, Stage, Marked, Writing
        <5> QED
            BY <2>1, <2>2, <2>4, <3>2, <5>1 DEF Covering, Cover, Writing, Changing, Marked
      <4>2. CASE UNCHANGED <<acked, pending, diskPending>>
          BY <2>1, <2>2, <2>4, <3>2, <4>2 DEF Covering, Cover, Writing, Changing, Marked
      <4> QED
          BY <3>3, <4>1, <4>2 DEF Acknowledge, SavePending, SavePendingFails, Fail
    <3>4. CASE ~Acknowledge(p)
      <4>1. UNCHANGED <<acked, pending, diskPending>>
          BY <1>5, <3>1, <3>4 DEF Sync, Begin, RLockFallbacks, LockDestination, BeginFetch, EndFetch,
             Install, Ensure, Record, Other, RecordValidation, ClearFlags, Drain, StopWatchers,
             Arrive, Request, SyncNow, ValidateNow, Tick, Terminate, rest, files
      <4> QED
          BY <2>1, <2>2, <2>4, <3>2, <4>1 DEF Covering, Cover, Writing, Changing, Marked
    <3> QED
        BY <3>3, <3>4
  <2> QED
      BY <2>3, <2>4
<1> QED
    BY <1>1, <1>2, <1>3, <1>4, <1>5, CoveringApply DEF Next

\* Until the process crashes, every fallback.json that differs from what the operator has
\* acknowledged has its warning in memory and on the disk once the change is over, even
\* when the change is undone or marking it fails.  With a disabled fallback entry this is
\* not so: Sync Now can make its file and fail to mark it, and an apply that is undone
\* removes the file without a mark.  Nor is it when saving an acknowledgement fails after
\* the runtime file was replaced (syncRuntime).
THEOREM ChangesAreMarked ==
    ASSUME FallbacksEnabled, "terminate" \notin Tasks, "syncRuntime" \notin FaultyOps
    PROVE  Spec => [](crashes = 0 => PendingCovers)
<1>1. Init => Loads /\ Covering
    BY DEF Init, Loads, Covering, Cover, Stage, Writing, Changing, Marked, Holding, ApplySteps, SyncSteps
<1>2. Core /\ IInv /\ Follow /\ Loads /\ Covering /\ [Next]_vars => Loads' /\ Covering'
    BY LoadsHold, CoveringHolds DEF Follow
<1>3. Loads /\ Covering => (crashes = 0 => PendingCovers)
    BY DEF Loads, Covering, Cover, PendingCovers
<1> QED
    BY Always, Inductive, AlwaysFollow, <1>1, <1>2, <1>3, PTL DEF Spec
=============================================================================
