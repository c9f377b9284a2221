------------------------------ MODULE Manager ------------------------------
(***************************************************************************)
(* cmd/cert-sync/main.go: the manager that activates configurations and    *)
(* runs synchronizations.  Processes are goroutines: HTTP handlers,        *)
(* watcher and poller callbacks, and main itself at startup.  Every step   *)
(* ends where the code takes or releases a lock, does I/O, or waits.       *)
(*                                                                         *)
(* m.mu, destinationMu and fallbackMu are held within one step, except for *)
(* the read lock on m.mu that a synchronization keeps while it publishes   *)
(* (reading).  applyMu, fallbackApplyMu and the destination locks are held *)
(* across steps.  Saving a file is one step with the outcomes of AtomicFile *)
(* (see DurableStore), and the pair replacement of SyncMaterial is one     *)
(* step with those of PairReplace.                                         *)
(***************************************************************************)
EXTENDS Naturals, Configurations

CONSTANTS
    Proc,        \* goroutines
    Requests,    \* configuration requests of the HTTP API
    BootConfigs, \* the config.json files the plugin may be installed with
    Tasks,       \* what a run lets goroutines do besides configuration requests
    FaultyOps,   \* the operations that may fail
    MaxGen,      \* bound: configuration generations within one process life
    MaxFaults,   \* bound: failing operations
    MaxCrashes   \* bound: crashes of the process

AllTasks == {"sync", "validate", "ack", "watch", "terminate"}
AllOps   == {"saveSecrets", "saveConfig", "saveRuntime", "syncRuntime", "loadRuntime",
             "start", "ensure", "install", "resolve"}

ASSUME ManagerAssumption ==
    /\ None \notin Proc \cup Name
    /\ Tasks \subseteq AllTasks /\ FaultyOps \subseteq AllOps
    /\ MaxGen \in Nat /\ MaxFaults \in Nat /\ MaxCrashes \in Nat

VARIABLES
    phase,       \* down, boot (main before ListenAndServe) or serving
    cfg, secrets,                 \* m.cfg, m.secrets
    gen,                          \* m.generation
    watchers, running,            \* m.watchers, and the watcher loops that run
    checking, flag, shown,        \* m.states: InProgress, FallbackPendingRestart, SourceInfo
    pending, loaded,              \* m.fallbackPending, m.runtimeLoaded
    applyMu, fbWriter, fbReaders, \* applyMu and fallbackApplyMu
    destMu, reading,              \* destinationLocks and the readers of m.mu
    staged,                       \* locals of the apply that holds applyMu
    pc, job, stopping,            \* per goroutine: step, locals, watchers being stopped
    diskCfg, diskSecrets, diskPending, \* config.json, secrets.json, the runtime file
    fallbackFile, destFile,       \* fallback.json and the certificate pairs
    acked,                        \* ghost: fallback.json as last acknowledged
    torn,                         \* ghost: a step of an apply's own rollback failed
    faults, crashes

memory == <<cfg, secrets, gen, watchers, checking, flag, shown>>
locks  == <<applyMu, fbWriter, fbReaders, destMu, reading>>
files  == <<diskCfg, diskSecrets, diskPending, fallbackFile, destFile>>
rest   == <<pending, loaded, running, staged, stopping, phase, acked, torn, faults, crashes>>
vars   == <<memory, locks, files, rest, pc, job>>

----------------------------------------------------------------------------
(* Steps *)

Idle == [kind |-> "none", name |-> None, gen |-> 0, cert |-> None,
         keys |-> None, req |-> None, result |-> "none"]

\* cand to flags are variables of applyConfigLocked, dirs and todo the rest of its
\* loops; before is a ghost, fallback.json when fallbackApplyMu was taken.
NoApply == [cand |-> NoEntries, secrets |-> NoEntries, gen |-> 0, new |-> {},
            changed |-> {}, flags |-> {}, dirs |-> {}, todo |-> {}, before |-> None]

Goto(p, l)    == pc' = [pc EXCEPT ![p] = l]
At(p, l)      == pc[p] = l
Assign(p, j)  == job' = [job EXCEPT ![p] = j]
Result(p, r)  == job' = [job EXCEPT ![p].result = r]
Done(p)       == Goto(p, "idle") /\ Assign(p, Idle)

Ok       == UNCHANGED faults
Fail(op) == op \in FaultyOps /\ faults < MaxFaults /\ faults' = faults + 1

\* Taking m.mu for writing waits for the publishing synchronizations.
Exclusive == reading = {}

\* A result counts only for the entry and the generation it was computed for.
Current(p) == cfg[job[p].name] # None /\ gen = job[p].gen

\* EnsureFallback on directory d: the file is right already, or is changed; an
\* error comes before the change or, from syncDir, after it.
EnsureFallback(d, wanted, changed, failed) ==
    /\ IF failed THEN Fail("ensure") ELSE Ok
    /\ IF changed THEN fallbackFile[d] # wanted /\ fallbackFile' = [fallbackFile EXCEPT ![d] = wanted]
                  ELSE (failed \/ fallbackFile[d] = wanted) /\ UNCHANGED fallbackFile

\* saveRuntimeStateLocked: memory follows the file; an error comes before the file
\* is replaced or, from the directory's Sync, after it.
SavePending(dirs) == Ok /\ pending' = dirs /\ diskPending' = dirs
SavePendingFails(dirs) ==
    /\ UNCHANGED pending
    /\ \/ Fail("saveRuntime") /\ UNCHANGED diskPending
       \/ Fail("syncRuntime") /\ diskPending' = dirs

\* markFallbackPending
MarkPending(dirs)      == SavePending(pending \cup dirs)
MarkPendingFails(dirs) == SavePendingFails(pending \cup dirs)

\* config.Save and secretstore.Save that fail: the file is as before or, when their
\* own rollback fails too (RollbackError), may be the new one.
SaveFails(op, undone) == Fail(op) /\ torn' = (torn \/ ~undone)

\* A watcher's Stop cancels its loop and waits for its callbacks; stopWatchers
\* stops one after the other.
Watcher(n, g, r) == [name |-> n, gen |-> g, remote |-> r]
Serving(w) == \E p \in Proc :
    job[p].kind = "callback" /\ job[p].name = w.name /\ job[p].gen = w.gen

StopWatchers(p, from, to) ==
    /\ At(p, from)
    /\ \/ stopping[p] = {} /\ Goto(p, to) /\ UNCHANGED <<running, stopping>>
       \/ /\ stopping[p] \subseteq running
          /\ \E w \in stopping[p] : running' = running \ {w}
          /\ UNCHANGED <<pc, stopping>>
       \/ /\ \E w \in stopping[p] \ running :
                ~Serving(w) /\ stopping' = [stopping EXCEPT ![p] = @ \ {w}]
          /\ UNCHANGED <<pc, running>>
    /\ UNCHANGED <<memory, locks, files, job, pending, loaded, staged, phase, acked,
                   torn, faults, crashes>>

----------------------------------------------------------------------------
(* Activating a configuration *)

\* A handler of web/server.go asks for a configuration change and blocks on applyMu.
Request(p, r) ==
    /\ phase = "serving" /\ At(p, "idle") /\ r \in Requests
    /\ Assign(p, [Idle EXCEPT !.kind = "apply", !.req = r]) /\ Goto(p, "wait")
    /\ UNCHANGED <<memory, locks, files, rest>>

\* Mutation: the candidate is made without applyMu.
AcquireUnlocked(p) ==
    /\ At(p, "wait")
    /\ LET r    == job[p].req
           cand == Candidate(cfg, r)
           next == Prune(cand, Rekey(secrets, r))
       IN \/ /\ Accepts(cfg, r) /\ Credentialed(cand, next) /\ gen < MaxGen
             /\ applyMu' = p
             /\ staged' = [NoApply EXCEPT !.cand = cand, !.secrets = next]
             /\ Goto(p, "saveSecrets") /\ UNCHANGED job
          \/ Done(p) /\ UNCHANGED <<applyMu, staged>>
    /\ UNCHANGED <<memory, fbWriter, fbReaders, destMu, reading, files, pending, loaded,
                   running, stopping, phase, acked, torn, faults, crashes>>

\* MutateConfigAndCredentials and applyConfigAndSecretsLocked: the candidate is
\* made from the active configuration after applyMu is taken.  A refused or
\* cancelled request returns without effect.
Acquire(p) ==
    /\ At(p, "wait") /\ applyMu = None
    /\ LET r    == job[p].req
           cand == Candidate(cfg, r)
           next == Prune(cand, Rekey(secrets, r))
       IN \/ /\ Accepts(cfg, r) /\ Credentialed(cand, next) /\ gen < MaxGen
             /\ applyMu' = p
             /\ staged' = [NoApply EXCEPT !.cand = cand, !.secrets = next]
             /\ Goto(p, "saveSecrets") /\ UNCHANGED job
          \/ Done(p) /\ UNCHANGED <<applyMu, staged>>
    /\ UNCHANGED <<memory, fbWriter, fbReaders, destMu, reading, files, pending, loaded,
                   running, stopping, phase, acked, torn, faults, crashes>>

\* main: load both files and apply what they say to an empty manager; on a
\* configuration without its credentials the process exits at once.
Boot(p) ==
    /\ phase = "down" /\ phase' = "boot"
    /\ Credentialed(diskCfg, diskSecrets)
    /\ secrets' = diskSecrets
    /\ staged' = [NoApply EXCEPT !.cand = diskCfg, !.secrets = Prune(diskCfg, diskSecrets)]
    /\ applyMu' = p /\ Goto(p, "saveSecrets") /\ Assign(p, [Idle EXCEPT !.kind = "apply"])
    /\ UNCHANGED <<cfg, gen, watchers, checking, flag, shown, fbWriter, fbReaders, destMu,
                   reading, files, pending, loaded, running, stopping, acked, torn,
                   faults, crashes>>

\* Leaving an apply that failed: main exits, a handler reports the error.
Abandon(p) ==
    /\ applyMu' = None /\ staged' = NoApply /\ Assign(p, Idle)
    /\ Goto(p, IF phase = "boot" THEN "exit" ELSE "idle")

\* The credentials go to the disk before the configuration that needs them.
SaveSecrets(p) ==
    /\ At(p, "saveSecrets")
    /\ \/ /\ Ok /\ diskSecrets' = IF staged.secrets # secrets THEN staged.secrets ELSE diskSecrets
          /\ Goto(p, "prepare") /\ UNCHANGED <<applyMu, staged, job>>
          /\ UNCHANGED torn
       \/ /\ staged.secrets # secrets /\ Abandon(p)
          /\ diskSecrets' \in {diskSecrets, staged.secrets}
          /\ SaveFails("saveSecrets", diskSecrets' = diskSecrets)
    /\ UNCHANGED <<memory, fbWriter, fbReaders, destMu, reading, diskCfg, diskPending,
                   fallbackFile, destFile, pending, loaded, running, stopping, phase,
                   acked, crashes>>

\* applyConfigLocked up to reading the generation: validation, loadRuntimeState.
Prepare(p) ==
    /\ At(p, "prepare")
    /\ \/ /\ Valid(staged.cand) /\ Ok
          /\ loaded' = TRUE /\ pending' = IF loaded THEN pending ELSE diskPending
          /\ staged' = [staged EXCEPT !.gen = gen + 1]
          /\ Goto(p, "start")
       \/ /\ IF Valid(staged.cand) THEN Fail("loadRuntime") ELSE Ok
          /\ Goto(p, "restoreSecrets") /\ UNCHANGED <<loaded, pending, staged>>
    /\ UNCHANGED <<memory, locks, files, job, running, stopping, phase, acked, torn, crashes>>

\* The new watchers start before anything else changes; if one does not start,
\* or the request was cancelled meanwhile, all of them are stopped.
StartWatchers(p) ==
    /\ At(p, "start")
    /\ LET auto == {n \in Entries(staged.cand) : staged.cand[n].enabled /\ staged.cand[n].auto}
           new  == {Watcher(n, staged.gen, staged.cand[n].remote) : n \in auto}
       IN \/ /\ Ok /\ running' = running \cup new /\ Goto(p, "fbLock")
             /\ staged' = [staged EXCEPT !.new = new] /\ UNCHANGED stopping
          \/ /\ Fail("start") /\ Goto(p, "abort")
             /\ \E started \in SUBSET new : running' = running \cup started
             /\ stopping' = [stopping EXCEPT ![p] = new] /\ UNCHANGED staged
    /\ UNCHANGED <<memory, locks, files, job, pending, loaded, phase, acked, torn, crashes>>

\* fallbackApplyMu.Lock waits for the synchronizations of fallback entries.
LockFallbacks(p) ==
    /\ At(p, "fbLock") /\ fbWriter = None /\ fbReaders = {}
    /\ fbWriter' = p /\ Goto(p, "reconcile")
    /\ staged' = [staged EXCEPT !.dirs = DirsOf(cfg) \cup DirsOf(staged.cand),
                                !.before = fallbackFile]
    /\ UNCHANGED <<memory, applyMu, fbReaders, destMu, reading, files, job, pending, loaded,
                   running, stopping, phase, acked, torn, faults, crashes>>

\* reconcileFallbacks towards the candidate, one directory after the other.
Reconcile(p) ==
    /\ At(p, "reconcile")
    /\ \/ /\ staged.dirs = {} /\ Ok /\ Goto(p, "saveConfig")
          /\ UNCHANGED <<fallbackFile, staged>>
       \/ \E d \in staged.dirs, changed, failed \in BOOLEAN :
             /\ EnsureFallback(d, Desired(staged.cand, d), changed, failed)
             /\ IF failed
                THEN /\ Goto(p, "unreconcile")
                     /\ staged' = [staged EXCEPT !.dirs = DirsOf(cfg) \cup DirsOf(staged.cand)]
                ELSE /\ staged' = [staged EXCEPT !.dirs = @ \ {d},
                                     !.changed = IF changed THEN @ \cup {d} ELSE @]
                     /\ UNCHANGED pc
    /\ UNCHANGED <<memory, locks, diskCfg, diskSecrets, diskPending, destFile, job, pending,
                   loaded, running, stopping, phase, acked, torn, crashes>>

SaveConfigNoUndo(p) ==   \* Mutation: fallback.json is not put back when saving fails.
    /\ At(p, "saveConfig") /\ UNCHANGED staged
    /\ \/ /\ Ok /\ diskCfg' = staged.cand /\ Goto(p, "mark")
          /\ UNCHANGED <<fbWriter, stopping>>
       \/ /\ Fail("saveConfig") /\ Goto(p, "abort") /\ UNCHANGED diskCfg
          /\ fbWriter' = None /\ stopping' = [stopping EXCEPT ![p] = staged.new]
    /\ UNCHANGED <<memory, applyMu, fbReaders, destMu, reading, diskSecrets, diskPending,
                   fallbackFile, destFile, job, pending, loaded, running, phase, acked,
                   torn, crashes>>

\* config.json is replaced; if that fails, fallback.json is put back.
SaveConfig(p) ==
    /\ At(p, "saveConfig")
    /\ \/ /\ Ok /\ diskCfg' = staged.cand /\ Goto(p, "mark") /\ UNCHANGED <<staged, torn>>
       \/ /\ diskCfg' \in {diskCfg, staged.cand}
          /\ SaveFails("saveConfig", diskCfg' = diskCfg) /\ Goto(p, "unreconcile")
          /\ staged' = [staged EXCEPT !.dirs = DirsOf(cfg) \cup DirsOf(staged.cand)]
    /\ UNCHANGED <<memory, locks, diskSecrets, diskPending, fallbackFile, destFile, job,
                   pending, loaded, running, stopping, phase, acked, crashes>>

\* Mutation: the changes are not marked.
MarkNothing(p) ==
    /\ At(p, "mark") /\ Ok /\ UNCHANGED <<pending, diskPending>> /\ Goto(p, "flags")
    /\ UNCHANGED <<memory, locks, diskCfg, diskSecrets, fallbackFile, destFile, job, staged,
                   loaded, running, stopping, phase, acked, torn, crashes>>

\* markFallbackPending for the directories whose fallback.json changed.
MarkChanged(p) ==
    /\ At(p, "mark")
    /\ \/ /\ staged.changed = {} /\ Ok /\ UNCHANGED <<pending, diskPending>>
          /\ Goto(p, "flags")
       \/ staged.changed # {} /\ MarkPending(staged.changed) /\ Goto(p, "flags")
       \/ staged.changed # {} /\ MarkPendingFails(staged.changed) /\ Goto(p, "restoreConfig")
    /\ UNCHANGED <<memory, locks, diskCfg, diskSecrets, fallbackFile, destFile, job, staged,
                   loaded, running, stopping, phase, acked, torn, crashes>>

\* The configuration snapshot of before the apply is written back.
RestoreConfig(p) ==
    /\ At(p, "restoreConfig") /\ Goto(p, "unreconcile")
    /\ \/ Ok /\ diskCfg' = cfg /\ UNCHANGED torn
       \/ diskCfg' \in {diskCfg, cfg} /\ SaveFails("saveConfig", FALSE)
    /\ staged' = [staged EXCEPT !.dirs = DirsOf(cfg) \cup DirsOf(staged.cand)]
    /\ UNCHANGED <<memory, locks, diskSecrets, diskPending, fallbackFile, destFile, job,
                   pending, loaded, running, stopping, phase, acked, crashes>>

\* reconcileFallbacks back to the active configuration; it gives up at an error.
Unreconcile(p) ==
    /\ At(p, "unreconcile")
    /\ \/ /\ staged.dirs = {} /\ Ok /\ UNCHANGED <<fallbackFile, torn>>
          /\ fbWriter' = None /\ stopping' = [stopping EXCEPT ![p] = staged.new]
          /\ Goto(p, "abort") /\ UNCHANGED staged
       \/ \E d \in staged.dirs, changed, failed \in BOOLEAN :
             /\ EnsureFallback(d, Desired(cfg, d), changed, failed)
             /\ staged' = [staged EXCEPT !.dirs = IF failed THEN {} ELSE @ \ {d}]
             /\ torn' = (torn \/ failed)
             /\ UNCHANGED <<pc, fbWriter, stopping>>
    /\ UNCHANGED <<memory, applyMu, fbReaders, destMu, reading, diskCfg, diskSecrets,
                   diskPending, destFile, job, pending, loaded, running, phase, acked, crashes>>

Abort(p) == StopWatchers(p, "abort", "restoreSecrets")

\* Mutation: the credentials of the failed apply stay on the disk.
KeepNewSecrets(p) ==
    /\ At(p, "restoreSecrets") /\ Abandon(p) /\ Ok /\ UNCHANGED <<diskSecrets, torn>>
    /\ UNCHANGED <<memory, fbWriter, fbReaders, destMu, reading, diskCfg, diskPending,
                   fallbackFile, destFile, pending, loaded, running, stopping, phase,
                   acked, crashes>>

\* applyConfigAndSecretsLocked after a failed apply.
RestoreSecrets(p) ==
    /\ At(p, "restoreSecrets") /\ Abandon(p)
    /\ \/ /\ Ok /\ diskSecrets' = IF staged.secrets # secrets THEN secrets ELSE diskSecrets
          /\ UNCHANGED torn
       \/ /\ staged.secrets # secrets /\ diskSecrets' \in {diskSecrets, secrets}
          /\ SaveFails("saveSecrets", FALSE)
    /\ UNCHANGED <<memory, fbWriter, fbReaders, destMu, reading, diskCfg, diskPending,
                   fallbackFile, destFile, pending, loaded, running, stopping, phase,
                   acked, crashes>>

\* fallbackPendingFor for the states of the candidate, before m.mu is taken.
ReadFlags(p) ==
    /\ At(p, "flags") /\ Goto(p, "activate")
    /\ staged' = [staged EXCEPT !.flags = {n \in Entries(staged.cand) :
                     staged.cand[n].fallback /\ staged.cand[n].dir \in pending}]
    /\ UNCHANGED <<memory, locks, files, job, pending, loaded, running, stopping, phase,
                   acked, torn, faults, crashes>>

\* Mutation: the watchers of the former configuration go on.
ActivateOnly(p) ==
    /\ At(p, "activate") /\ Exclusive
    /\ cfg' = staged.cand /\ secrets' = staged.secrets /\ gen' = staged.gen
    /\ checking' = [n \in Name |-> FALSE]
    /\ flag' = [n \in Name |-> n \in staged.flags]
    /\ shown' = [n \in Name |-> None]
    /\ watchers' = staged.new
    /\ staged' = [staged EXCEPT !.todo = {n \in Entries(staged.cand) : staged.cand[n].enabled}]
    /\ fbWriter' = None /\ Goto(p, "stopOld")
    /\ UNCHANGED <<applyMu, fbReaders, destMu, reading, files, job, pending, loaded, running,
                   stopping, phase, acked, torn, faults, crashes>>

\* The candidate becomes the active configuration, all at once.
Activate(p) ==
    /\ At(p, "activate") /\ Exclusive
    /\ cfg' = staged.cand /\ secrets' = staged.secrets /\ gen' = staged.gen
    /\ checking' = [n \in Name |-> FALSE]
    /\ flag' = [n \in Name |-> n \in staged.flags]
    /\ shown' = [n \in Name |-> None]
    /\ stopping' = [stopping EXCEPT ![p] = watchers]
    /\ watchers' = staged.new
    /\ staged' = [staged EXCEPT !.todo = {n \in Entries(staged.cand) : staged.cand[n].enabled}]
    /\ fbWriter' = None /\ Goto(p, "stopOld")
    /\ UNCHANGED <<applyMu, fbReaders, destMu, reading, files, job, pending, loaded, running,
                   phase, acked, torn, faults, crashes>>

StopOld(p) == StopWatchers(p, "stopOld", "initial")

\* Every enabled entry is synchronized once under the new generation; then the
\* apply returns, and main begins to serve.
InitialSyncs(p) ==
    /\ At(p, "initial")
    /\ \/ /\ staged.todo = {} /\ Done(p)
          /\ applyMu' = None /\ staged' = NoApply /\ phase' = "serving"
       \/ \E n \in staged.todo :
             /\ staged' = [staged EXCEPT !.todo = @ \ {n}]
             /\ Assign(p, [job[p] EXCEPT !.kind = "initial", !.name = n, !.gen = staged.gen,
                                       !.result = "none"])
             /\ Goto(p, "begin") /\ UNCHANGED <<applyMu, phase>>
    /\ UNCHANGED <<memory, fbWriter, fbReaders, destMu, reading, files, pending, loaded,
                   running, stopping, acked, torn, faults, crashes>>

----------------------------------------------------------------------------
(* Synchronizing one certificate: syncGenerationContext *)

\* Mutation: the destination stays locked.
ReturnLocked(p) ==
    /\ UNCHANGED destMu /\ fbReaders' = fbReaders \ {p}
    /\ IF job[p].kind = "initial"
       THEN Goto(p, "initial") /\ Assign(p, [Idle EXCEPT !.kind = "apply"])
       ELSE Done(p)

\* The deferred unlocks; a synchronization made by an apply returns to it.
Return(p) ==
    /\ destMu' = [d \in DOMAIN destMu |-> IF destMu[d] = p THEN None ELSE destMu[d]]
    /\ fbReaders' = fbReaders \ {p}
    /\ IF job[p].kind = "initial"
       THEN Goto(p, "initial") /\ Assign(p, [Idle EXCEPT !.kind = "apply"])
       ELSE Done(p)

\* SyncCertificate: the handler reads the generation, then starts the sync.
SyncNow(p, n) ==
    /\ "sync" \in Tasks /\ phase = "serving" /\ At(p, "idle")
    /\ Assign(p, [Idle EXCEPT !.kind = "manual", !.name = n, !.gen = gen]) /\ Goto(p, "begin")
    /\ UNCHANGED <<memory, locks, files, rest>>

\* A watcher or poller calls back; a poller does not overlap its own calls.
Tick(p, w) ==
    /\ "watch" \in Tasks /\ At(p, "idle") /\ w \in running
    /\ w.remote => ~Serving(w)
    /\ Assign(p, [Idle EXCEPT !.kind = "callback", !.name = w.name, !.gen = w.gen])
    /\ Goto(p, "begin")
    /\ UNCHANGED <<memory, locks, files, rest>>

\* The state is read under m.mu: an unknown name is an error, another
\* generation a silent return.
Begin(p) ==
    /\ At(p, "begin")
    /\ IF Current(p)
       THEN LET e == cfg[job[p].name]
            IN /\ Assign(p, [job[p] EXCEPT !.cert = e])
               /\ Goto(p, IF e.fallback THEN "fbRLock" ELSE "dest")
               /\ UNCHANGED <<destMu, fbReaders>>
       ELSE Return(p)
    /\ UNCHANGED <<memory, applyMu, fbWriter, reading, files, rest>>

\* fallbackApplyMu.RLock, only for fallback entries.
RLockFallbacks(p) ==
    /\ At(p, "fbRLock") /\ fbWriter = None
    /\ fbReaders' = fbReaders \cup {p} /\ Goto(p, "dest")
    /\ UNCHANGED <<memory, applyMu, fbWriter, destMu, reading, files, rest, job>>

\* The destination is resolved, its lock taken and held until after recordSync.
LockDestination(p) ==
    /\ At(p, "dest")
    /\ LET e == job[p].cert
       IN \/ /\ destMu[Dest(e)] = None /\ Ok
             /\ destMu' = [destMu EXCEPT ![Dest(e)] = p]
             /\ Goto(p, IF e.remote THEN "fetch" ELSE "install") /\ UNCHANGED job
          \/ /\ Fail("resolve") /\ Result(p, "unresolved") /\ Goto(p, "record")
             /\ UNCHANGED destMu
    /\ UNCHANGED <<memory, applyMu, fbWriter, fbReaders, reading, files, pending, loaded,
                   running, staged, stopping, phase, acked, torn, crashes>>

\* fetchRemote, first part: the query is announced and its keys are read.
BeginFetch(p) ==
    /\ At(p, "fetch") /\ Exclusive
    /\ IF Current(p)
       THEN /\ checking' = [checking EXCEPT ![job[p].name] = TRUE]
            /\ Assign(p, [job[p] EXCEPT !.keys = secrets[job[p].name]])
            /\ Goto(p, "query") /\ UNCHANGED <<destMu, fbReaders>>
       ELSE Return(p) /\ UNCHANGED checking
    /\ UNCHANGED <<cfg, secrets, gen, watchers, flag, shown, applyMu, fbWriter, reading,
                   files, rest>>

\* Mutation: a query that fails is not noted.
EndFetchSilently(p) ==
    /\ At(p, "query") /\ Exclusive
    /\ \/ /\ job[p].keys = job[p].cert.source
          /\ checking' = IF Current(p) THEN [checking EXCEPT ![job[p].name] = FALSE] ELSE checking
          /\ Goto(p, IF job[p].kind = "validate" THEN "recordV" ELSE "install")
          /\ UNCHANGED <<job, destMu, fbReaders>>
       \/ Return(p) /\ UNCHANGED checking
    /\ UNCHANGED <<cfg, secrets, gen, watchers, flag, shown, applyMu, fbWriter, reading,
                   files, rest>>

\* fetchRemote, second part: the query fails, or has failed because no keys fit
\* the source, or returns a bundle; recordRemoteQuery notes its end.
EndFetch(p) ==
    /\ At(p, "query") /\ Exclusive
    /\ checking' = IF Current(p) THEN [checking EXCEPT ![job[p].name] = FALSE] ELSE checking
    /\ \/ /\ job[p].keys = job[p].cert.source
          /\ Goto(p, IF job[p].kind = "validate" THEN "recordV" ELSE "install")
          /\ UNCHANGED <<job, destMu, fbReaders>>
       \/ Return(p)
    /\ UNCHANGED <<cfg, secrets, gen, watchers, flag, shown, applyMu, fbWriter, reading,
                   files, rest>>

\* Mutation: the generation is not looked at again before publication.
InstallStale(p) ==
    /\ At(p, "install")
    /\ LET e == job[p].cert
       IN /\ Ok /\ destFile' = [destFile EXCEPT ![Dest(e)] = e.source]
          /\ IF e.fallback THEN reading' = reading \cup {p} /\ Goto(p, "ensure")
                           ELSE UNCHANGED reading /\ Goto(p, "record")
          /\ Result(p, "ok") /\ UNCHANGED <<destMu, fbReaders>>
    /\ UNCHANGED <<memory, applyMu, fbWriter, diskCfg, diskSecrets, diskPending, fallbackFile,
                   pending, loaded, running, staged, stopping, phase, acked, torn, crashes>>

\* Under the read lock on m.mu, if the generation is still active: syncFunc or
\* SyncMaterial up to the pair; the lock is kept while a fallback entry goes on.
\* A replacement that fails leaves the old pair, the new one or none.
Install(p) ==
    /\ At(p, "install")
    /\ LET e == job[p].cert
       IN \/ /\ ~Current(p) /\ Ok /\ Return(p) /\ UNCHANGED <<destFile, reading>>
          \/ /\ Current(p) /\ Ok
             /\ destFile' = [destFile EXCEPT ![Dest(e)] = e.source]
             /\ IF e.fallback THEN reading' = reading \cup {p} /\ Goto(p, "ensure")
                              ELSE UNCHANGED reading /\ Goto(p, "record")
             /\ Result(p, "ok") /\ UNCHANGED <<destMu, fbReaders>>
          \/ /\ Current(p) /\ UNCHANGED <<reading, destMu, fbReaders>> /\ Goto(p, "record")
             /\ \/ Ok /\ Result(p, "invalid") /\ UNCHANGED destFile
                \/ /\ Fail("install") /\ Result(p, "failed")
                   /\ \E left \in {destFile[Dest(e)], e.source, None} :
                         destFile' = [destFile EXCEPT ![Dest(e)] = left]
    /\ UNCHANGED <<memory, applyMu, fbWriter, diskCfg, diskSecrets, diskPending, fallbackFile,
                   pending, loaded, running, staged, stopping, phase, acked, torn, crashes>>

\* SyncMaterial, EnsureFallback; the read lock is given up unless a changed
\* file is to be marked.
Ensure(p) ==
    /\ At(p, "ensure")
    /\ \E changed, failed \in BOOLEAN :
         /\ EnsureFallback(job[p].cert.dir, job[p].cert.target, changed, failed)
         /\ Result(p, IF failed THEN "failed" ELSE "ok")
         /\ IF changed THEN Goto(p, "markSync") /\ UNCHANGED reading
                       ELSE Goto(p, "record") /\ reading' = reading \ {p}
    /\ UNCHANGED <<memory, applyMu, fbWriter, fbReaders, destMu, diskCfg, diskSecrets,
                   diskPending, destFile, pending, loaded, running, staged, stopping, phase,
                   acked, torn, crashes>>

\* Mutation: the target is marked instead of its directory.
MarkTarget(p) ==
    /\ At(p, "markSync") /\ reading' = reading \ {p} /\ Goto(p, "record")
    /\ \/ MarkPending({job[p].cert.target}) /\ UNCHANGED job
       \/ MarkPendingFails({job[p].cert.target}) /\ Result(p, "failed")
    /\ UNCHANGED <<memory, applyMu, fbWriter, fbReaders, destMu, diskCfg, diskSecrets,
                   fallbackFile, destFile, loaded, running, staged, stopping, phase, acked,
                   torn, crashes>>

\* Mutation: a synchronization that changed fallback.json does not mark it.
MarkSkipped(p) ==
    /\ At(p, "markSync") /\ reading' = reading \ {p} /\ Goto(p, "record") /\ Ok
    /\ UNCHANGED <<memory, applyMu, fbWriter, fbReaders, destMu, files, job, pending, loaded,
                   running, staged, stopping, phase, acked, torn, crashes>>

\* markFallbackPending, then the end of the read lock on m.mu.
MarkSync(p) ==
    /\ At(p, "markSync") /\ reading' = reading \ {p} /\ Goto(p, "record")
    /\ \/ MarkPending({job[p].cert.dir}) /\ UNCHANGED job
       \/ MarkPendingFails({job[p].cert.dir}) /\ Result(p, "failed")
    /\ UNCHANGED <<memory, applyMu, fbWriter, fbReaders, destMu, diskCfg, diskSecrets,
                   fallbackFile, destFile, loaded, running, staged, stopping, phase, acked,
                   torn, crashes>>

\* recordSync, and the end of the synchronization.
Record(p) ==
    /\ At(p, "record") /\ Exclusive
    /\ LET n == job[p].name
           e == job[p].cert
       IN IF Current(p)
          THEN /\ shown' = [shown EXCEPT ![n] =
                       IF job[p].result \in {"ok", "failed"} THEN e.source ELSE None]
               /\ flag' = [flag EXCEPT ![n] =
                       e.fallback /\ job[p].result # "unresolved" /\ e.dir \in pending]
          ELSE UNCHANGED <<shown, flag>>
    /\ Return(p)
    /\ UNCHANGED <<cfg, secrets, gen, watchers, checking, applyMu, fbWriter, reading, files, rest>>

----------------------------------------------------------------------------
(* Validation, acknowledgement, termination *)

\* ValidateCertificate: no destination lock; an unknown name is an error.
ValidateNow(p, n) ==
    /\ "validate" \in Tasks /\ phase = "serving" /\ At(p, "idle") /\ cfg[n] # None
    /\ Assign(p, [Idle EXCEPT !.kind = "validate", !.name = n, !.gen = gen, !.cert = cfg[n]])
    /\ Goto(p, IF cfg[n].remote THEN "fetch" ELSE "recordV")
    /\ UNCHANGED <<memory, locks, files, rest>>

\* Mutation: a validation is recorded whatever was activated meanwhile.
RecordAnyValidation(p) ==
    /\ At(p, "recordV") /\ Exclusive /\ Done(p)
    /\ \E seen \in {None, job[p].cert.source} : shown' = [shown EXCEPT ![job[p].name] = seen]
    /\ UNCHANGED <<cfg, secrets, gen, watchers, checking, flag, locks, files, rest>>

\* recordValidation of a valid or an invalid source.
RecordValidation(p) ==
    /\ At(p, "recordV") /\ Exclusive /\ Done(p)
    /\ IF Current(p) THEN \E seen \in {None, job[p].cert.source} :
                             shown' = [shown EXCEPT ![job[p].name] = seen]
                     ELSE UNCHANGED shown
    /\ UNCHANGED <<cfg, secrets, gen, watchers, checking, flag, locks, files, rest>>

\* The fallback.json files an operator can know of: not those of an apply that has
\* not marked its changes yet and may still undo them.
Settled == IF fbWriter # None /\ pc[fbWriter] \notin {"flags", "activate"}
           THEN staged.before ELSE fallbackFile

\* AcknowledgeFallbackRestart, under fallbackMu: the file, then the memory.
Acknowledge(p) ==
    /\ "ack" \in Tasks /\ phase = "serving" /\ At(p, "idle") /\ pending # {}
    /\ \/ /\ SavePending({}) /\ acked' = Settled
          /\ Assign(p, [Idle EXCEPT !.kind = "ack"]) /\ Goto(p, "clear")
       \/ SavePendingFails({}) /\ UNCHANGED <<acked, pc, job>>
    /\ UNCHANGED <<memory, locks, diskCfg, diskSecrets, fallbackFile, destFile, loaded,
                   running, staged, stopping, phase, torn, crashes>>

\* AcknowledgeFallbackRestart, under m.mu: the flags of the active states.
ClearFlags(p) ==
    /\ At(p, "clear") /\ Exclusive /\ Done(p)
    /\ flag' = [n \in Name |-> FALSE]
    /\ UNCHANGED <<cfg, secrets, gen, watchers, checking, shown, locks, files, rest>>

\* The handler of /term: stopWatchers takes m.mu but not applyMu.
Terminate(p) ==
    /\ "terminate" \in Tasks /\ phase = "serving" /\ At(p, "idle") /\ Exclusive
    /\ gen < MaxGen
    /\ Assign(p, [Idle EXCEPT !.kind = "terminate"]) /\ Goto(p, "drain")
    /\ gen' = gen + 1 /\ watchers' = {}
    /\ stopping' = [stopping EXCEPT ![p] = watchers]
    /\ UNCHANGED <<cfg, secrets, checking, flag, shown, locks, files, pending, loaded,
                   running, staged, phase, acked, torn, faults, crashes>>

Drain(p) == StopWatchers(p, "drain", "exit")

\* What a process loses when it ends.
Shutdown ==
    /\ phase' = "down"
    /\ cfg' = NoEntries /\ secrets' = NoEntries /\ gen' = 0
    /\ watchers' = {} /\ running' = {}
    /\ checking' = [n \in Name |-> FALSE] /\ flag' = [n \in Name |-> FALSE]
    /\ shown' = [n \in Name |-> None]
    /\ pending' = {} /\ loaded' = FALSE
    /\ applyMu' = None /\ fbWriter' = None /\ fbReaders' = {} /\ reading' = {}
    /\ destMu' = [d \in DOMAIN destMu |-> None]
    /\ staged' = NoApply /\ pc' = [p \in Proc |-> "idle"] /\ job' = [p \in Proc |-> Idle]
    /\ stopping' = [p \in Proc |-> {}]
    /\ UNCHANGED <<files, acked, torn, faults>>

\* os.Exit: after a failed startup, or 100 ms after /term was answered.
Exit(p) == At(p, "exit") /\ Shutdown /\ UNCHANGED crashes

\* The process dies between any two steps.
Crash ==
    /\ phase # "down" /\ crashes < MaxCrashes /\ crashes' = crashes + 1
    /\ Shutdown

----------------------------------------------------------------------------
(* The specification *)

Written == BootConfigs \cup {r.all : r \in {q \in Requests : q.op = "post"}}
EntriesEver == {r.cert : r \in {q \in Requests : q.op \in {"create", "update"}}}
                   \cup (UNION {{c[n] : n \in Entries(c)} : c \in Written})
Dirs == {e.dir : e \in EntriesEver}
Destinations == {Dest(e) : e \in EntriesEver}
Sources == {e.source : e \in EntriesEver}

\* Requests and files reach the manager decoded: encoding/json fills every field.
ASSUME RequestAssumption ==
    /\ None \notin EntriesEver
    /\ \A e \in EntriesEver : e.remote \in BOOLEAN
    /\ \A r \in Requests :
          /\ r.op \in {"create", "update", "delete", "post"}
          /\ r.op # "post" => r.name \in Name
          /\ r.op = "post" => r.all = [n \in Name |-> r.all[n]]
    /\ \A c \in BootConfigs : c = [n \in Name |-> c[n]]
    /\ None \notin Requests

\* The plugin is installed, with a config.json and the credentials it needs.
Init ==
    /\ phase = "down"
    /\ diskCfg \in BootConfigs
    /\ diskSecrets = [n \in Name |-> IF n \in Remotes(diskCfg) THEN diskCfg[n].source ELSE None]
    /\ diskPending = {}
    /\ fallbackFile = [d \in Dirs |-> None] /\ acked = fallbackFile
    /\ destFile = [d \in Destinations |-> None]
    /\ cfg = NoEntries /\ secrets = NoEntries /\ gen = 0
    /\ watchers = {} /\ running = {}
    /\ checking = [n \in Name |-> FALSE] /\ flag = [n \in Name |-> FALSE]
    /\ shown = [n \in Name |-> None]
    /\ pending = {} /\ loaded = FALSE
    /\ applyMu = None /\ fbWriter = None /\ fbReaders = {} /\ reading = {}
    /\ destMu = [d \in Destinations |-> None]
    /\ staged = NoApply /\ pc = [p \in Proc |-> "idle"] /\ job = [p \in Proc |-> Idle]
    /\ stopping = [p \in Proc |-> {}]
    /\ torn = FALSE /\ faults = 0 /\ crashes = 0

\* What a goroutine does once it has work.
Apply(p) ==
    \/ Acquire(p) \/ SaveSecrets(p) \/ Prepare(p) \/ StartWatchers(p)
    \/ LockFallbacks(p) \/ Reconcile(p) \/ SaveConfig(p) \/ MarkChanged(p)
    \/ RestoreConfig(p) \/ Unreconcile(p) \/ Abort(p) \/ RestoreSecrets(p)
    \/ ReadFlags(p) \/ Activate(p) \/ StopOld(p) \/ InitialSyncs(p)

Sync(p) ==
    \/ Begin(p) \/ RLockFallbacks(p) \/ LockDestination(p) \/ BeginFetch(p)
    \/ EndFetch(p) \/ Install(p) \/ Ensure(p) \/ MarkSync(p) \/ Record(p)

Other(p) == RecordValidation(p) \/ ClearFlags(p) \/ Drain(p) \/ Exit(p)

\* New work for an idle goroutine.
Arrive(p) ==
    \/ Boot(p)
    \/ \E r \in Requests : Request(p, r)
    \/ \E n \in Name : SyncNow(p, n) \/ ValidateNow(p, n)
    \/ \E w \in running : Tick(p, w)
    \/ Acknowledge(p) \/ Terminate(p)

Next == Crash \/ \E p \in Proc : Apply(p) \/ Sync(p) \/ Other(p) \/ Arrive(p)

Spec == Init /\ [][Next]_vars

\* A goroutine with work goes on: the network answers or times out (the client's
\* timeout), and the mutexes of Go serve every waiter in the end, readers and
\* writers alike, hence strong fairness.  Nothing makes new work arrive.
Work(p) == Apply(p) \/ Sync(p) \/ Other(p)
FairSpec == Spec /\ \A p \in Proc : SF_vars(Work(p))

----------------------------------------------------------------------------
(* Properties *)

ApplySteps == {"wait", "saveSecrets", "prepare", "start", "fbLock", "reconcile",
    "saveConfig", "mark", "restoreConfig", "unreconcile", "abort", "restoreSecrets",
    "flags", "activate", "stopOld", "initial"}
SyncSteps == {"begin", "fbRLock", "dest", "fetch", "query", "install", "ensure",
    "markSync", "record"}
Configs == [Name -> EntriesEver \cup {None}]
Keyrings == [Name -> Sources \cup {None}]
Fallbacks == [Dirs -> {e.target : e \in EntriesEver} \cup {None}]
Steps == ApplySteps \cup SyncSteps \cup {"idle", "recordV", "clear", "drain", "exit"}
Watches == [name : Name, gen : Nat, remote : BOOLEAN]
Jobs == [kind : {"none", "apply", "manual", "callback", "initial", "validate", "ack", "terminate"},
         name : Name \cup {None}, gen : Nat, cert : EntriesEver \cup {None},
         keys : Sources \cup {None}, req : Requests \cup {None},
         result : {"none", "ok", "invalid", "failed", "unresolved"}]
Applies == [cand : Configs, secrets : Keyrings, gen : Nat, new : SUBSET Watches,
            changed : SUBSET Dirs, flags : SUBSET Name, dirs : SUBSET Dirs,
            todo : SUBSET Name, before : Fallbacks \cup {None}]

MemoryOK ==
    /\ cfg \in Configs /\ secrets \in Keyrings /\ gen \in 0..(MaxGen + 1)
    /\ watchers \subseteq Watches /\ checking \in [Name -> BOOLEAN]
    /\ flag \in [Name -> BOOLEAN] /\ shown \in Keyrings
    /\ pending \subseteq Dirs /\ loaded \in BOOLEAN

LocksOK ==
    /\ applyMu \in Proc \cup {None} /\ fbWriter \in Proc \cup {None}
    /\ fbReaders \subseteq Proc /\ reading \subseteq Proc
    /\ destMu \in [Destinations -> Proc \cup {None}]

ControlOK ==
    /\ phase \in {"down", "boot", "serving"}
    /\ pc \in [Proc -> Steps] /\ job \in [Proc -> Jobs] /\ staged \in Applies
    /\ running \subseteq Watches /\ stopping \in [Proc -> SUBSET Watches]

FilesOK ==
    /\ diskCfg \in Configs /\ diskSecrets \in Keyrings /\ diskPending \subseteq Dirs
    /\ fallbackFile \in Fallbacks /\ acked \in Fallbacks
    /\ destFile \in [Destinations -> Sources \cup {None}]
    /\ torn \in BOOLEAN /\ faults \in 0..MaxFaults /\ crashes \in 0..MaxCrashes

\* The state has the shape the code gives it: what a goroutine reads has been
\* assigned, and what it writes belongs there.
TypeOK == MemoryOK /\ LocksOK /\ ControlOK /\ FilesOK

\* /term was called: its goroutine stops the watchers, without applyMu, until the
\* process exits.
Terminating == \E p \in Proc : pc[p] \in {"drain", "exit"} /\ job[p].kind = "terminate"

\* While a synchronization publishes, the configuration it started under is the
\* active one: activation cannot overtake publication.
PublishersCurrent ==
    \A p \in reading : Current(p) /\ cfg[job[p].name] = job[p].cert

\* A certificate pair is only ever written to the destination of an active entry,
\* and from that entry's source, however long its bundle took to arrive.
ActivePublished ==
    \A d \in Destinations : destFile'[d] \notin {destFile[d], None} =>
        \E n \in Entries(cfg) : Dest(cfg[n]) = d /\ cfg[n].source = destFile'[d]
PublishesActive == [][ActivePublished]_vars

\* No status shows the source of a configuration that is no longer active.
StatusOfActive == \A n \in Name : shown[n] # None => n \in Entries(cfg) /\ shown[n] = cfg[n].source

\* A configuration change is applied to the configuration it replaces: of two
\* concurrent changes neither is lost.
AppliesToLatest ==
    [][cfg' # cfg /\ phase = "serving" /\ phase' = "serving" =>
          \E p \in Proc : /\ applyMu = p /\ job[p].req # None
                         /\ cfg' = Candidate(cfg, job[p].req)]_vars

\* Whoever is served has a configuration whose remote entries have the keys that
\* were entered for their source, and between two applies the files say the same
\* as the memory, unless an apply failed to undo itself.
MemoryAndDiskAgree ==
    phase = "serving" =>
        /\ Credentialed(cfg, secrets)
        /\ applyMu = None /\ ~torn => diskCfg = cfg /\ diskSecrets = secrets

\* Every watcher that runs belongs to the active configuration, or to an apply
\* that is starting it or stopping it: none is leaked.
WatchersOwned ==
    \A w \in running : w \in watchers \/ w \in staged.new \/ \E p \in Proc : w \in stopping[p]

\* The UI's Checking state of an entry ends with its query.
CheckingHasQuery ==
    \A n \in Name : checking[n] => \E p \in Proc : At(p, "query") /\ job[p].name = n /\ Current(p)

\* Between applies every fallback.json names the enabled fallback entry of the
\* active configuration; where there is no such entry there is no file, but for one
\* that Sync Now made for a disabled fallback entry.
FallbackFollowsConfig ==
    phase = "serving" /\ fbWriter = None /\ ~torn =>
        \A d \in Dirs :
            \/ fallbackFile[d] = Desired(cfg, d)
            \/ /\ Desired(cfg, d) = None
               /\ \E n \in Entries(cfg) : /\ cfg[n].fallback /\ ~cfg[n].enabled
                                          /\ cfg[n].dir = d /\ cfg[n].target = fallbackFile[d]

\* Every fallback.json that differs from what the operator last acknowledged has
\* its pending warning, in memory and on the disk, as soon as the operation that
\* changed it is over.
PendingCovers ==
    phase = "serving" /\ fbWriter = None /\ ~torn =>
        \A d \in Dirs :
            \/ fallbackFile[d] = acked[d]
            \/ d \in pending \cap diskPending
            \/ \E p \in Proc : At(p, "markSync") /\ job[p].cert.dir = d

\* Starting the plugin does not change the operator's config.json.
BootKeepsConfig == [][phase = "boot" => diskCfg' = diskCfg]_vars

\* The request whose candidate is made and not yet active, and what the next start
\* would find; a generation of 0 means that nothing has been activated.
UnderWay ==
    IF gen = 0 \/ applyMu = None THEN None
    ELSE IF pc[applyMu] \in ApplySteps \ {"wait", "stopOld", "initial"} THEN job[applyMu].req
    ELSE None
Stored == IF gen = 0 THEN [cfg |-> diskCfg, keys |-> Prune(diskCfg, diskSecrets)]
                     ELSE [cfg |-> cfg, keys |-> secrets]

Abstract == INSTANCE ActivationService WITH
    up     <- gen # 0,
    active <- cfg,
    keys   <- IF gen = 0 THEN NoEntries ELSE secrets,
    change <- UnderWay,
    stored <- Stored,
    pair   <- destFile,
    shown  <- shown,
    damaged <- torn,
    ending <- Terminating

\* The manager does what ActivationService promises: requests, rollbacks, crashes and
\* restarts look like changes applied one after the other to the active
\* configuration, and what is published and shown is the active one's.
Implements == Abstract!Spec

\* Every piece of work ends: no deadlock between the five kinds of locks, the
\* stopping of watchers and their callbacks.
EveryJobEnds == \A p \in Proc : pc[p] # "idle" ~> pc[p] = "idle"
=============================================================================
