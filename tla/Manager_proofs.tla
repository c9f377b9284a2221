--------------------------- MODULE Manager_proofs ---------------------------
(***************************************************************************)
(* Proofs about Manager, for every set of goroutines, names, requests and  *)
(* failing operations, and for any number of generations, faults and       *)
(* crashes: activation does not overtake publication.  The lemmas are      *)
(* about every step but the one that begins a termination, the theorems    *)
(* about tasks without "terminate": with it they are false (see the run    *)
(* manager_reuse) while a process terminates, and true at every other time *)
(* (ManagerState_proofs).                                                  *)
(***************************************************************************)
EXTENDS Manager, TLAPS

\* Records and functions have the fields and the domains the code gives them.
IsJob(j) == j = [kind |-> j.kind, name |-> j.name, gen |-> j.gen, cert |-> j.cert,
                 keys |-> j.keys, req |-> j.req, result |-> j.result]
IsApply(s) == s = [cand |-> s.cand, secrets |-> s.secrets, gen |-> s.gen, new |-> s.new,
                   changed |-> s.changed, flags |-> s.flags, dirs |-> s.dirs,
                   todo |-> s.todo, before |-> s.before]
Shape ==
    /\ gen \in Nat /\ IsApply(staged)
    /\ pc = [p \in Proc |-> pc[p]] /\ job = [p \in Proc |-> job[p]]
    /\ \A p \in Proc : IsJob(job[p])

\* Applies exclude each other, those that wait for an initial sync included.
Holding == ApplySteps \ {"wait"}
Applying(p) == pc[p] \in Holding \/ (pc[p] \in SyncSteps /\ job[p].kind = "initial")
Mutex == \A p \in Proc : Applying(p) => applyMu = p

\* Nothing survives the end of the process.
Downtime == phase = "down" => running = {} /\ \A p \in Proc : pc[p] = "idle"

\* The generation an apply has prepared is the next one.
Preparing == {"start", "fbLock", "reconcile", "saveConfig", "mark", "flags", "activate"}
Ahead == \A p \in Proc : pc[p] \in Preparing => staged.gen = gen + 1

\* What a goroutine works on is no later than the active generation and, if it is
\* of that generation, the entry it works on is the active one.
Started == (SyncSteps \ {"begin"}) \cup {"recordV"}
Fresh ==
    \A p \in Proc : pc[p] \in Started =>
        /\ job[p].gen \in 0..gen
        /\ Current(p) => job[p].cert = cfg[job[p].name]

\* Whoever holds the read lock on m.mu is publishing, for the active generation.
Publishing == \A p \in reading : p \in Proc /\ pc[p] \in {"ensure", "markSync"} /\ Current(p)

IInv == Shape /\ Mutex /\ Downtime /\ Ahead /\ Fresh /\ Publishing

LEMMA InitHolds == Init => IInv
BY ManagerAssumption DEF Init, IInv, Shape, IsJob, IsApply, Idle, NoApply, Mutex, Applying,
   Holding, ApplySteps, SyncSteps, Downtime, Preparing, Ahead, Started, Fresh, Publishing

----------------------------------------------------------------------------
(* What a goroutine may do without touching the configuration *)

\* The holder of applyMu goes on.
LEMMA ApplyGoesOn ==
    ASSUME IInv, NEW p \in Proc, pc[p] \in Holding, NEW l \in Holding,
           pc' = [pc EXCEPT ![p] = l], IsApply(staged'),
           l \in Preparing => staged'.gen = gen + 1,
           UNCHANGED <<cfg, gen, applyMu, reading, job, phase>>
    PROVE  IInv'
<1> USE DEF IInv
<1>1. Shape'
    BY DEF Shape, IsJob
<1>2. Mutex' /\ Ahead'
    BY ManagerAssumption DEF Shape, Mutex, Applying, Ahead, Preparing, Holding, ApplySteps
<1>3. Downtime'
    BY DEF Downtime, Holding, ApplySteps, Shape
<1>4. Fresh' /\ Publishing'
    BY DEF Fresh, Publishing, Started, Current, Holding, ApplySteps, SyncSteps, Shape
<1> QED
    BY <1>1, <1>2, <1>3, <1>4

\* An apply returns and gives up applyMu.
LEMMA ApplyEnds ==
    ASSUME IInv, NEW p \in Proc, pc[p] \in Holding, NEW l \in {"idle", "exit"},
           pc' = [pc EXCEPT ![p] = l], job' = [job EXCEPT ![p] = Idle],
           applyMu' = None, staged' = NoApply, phase' \in {phase, "serving"},
           UNCHANGED <<cfg, gen, reading>>
    PROVE  IInv'
<1> USE DEF IInv
<1>1. Shape'
    BY DEF Shape, IsJob, IsApply, Idle, NoApply
<1>2. Mutex' /\ Ahead'
    BY ManagerAssumption DEF Shape, Mutex, Applying, Ahead, Preparing, Holding, ApplySteps, SyncSteps
<1>3. Downtime'
    BY DEF Downtime, Holding, ApplySteps, Shape
<1>4. Fresh' /\ Publishing'
    BY DEF Fresh, Publishing, Started, Current, Holding, ApplySteps, SyncSteps, Shape
<1> QED
    BY <1>1, <1>2, <1>3, <1>4

\* A synchronization or validation goes on with the entry it read.
LEMMA SyncGoesOn ==
    ASSUME IInv, NEW p \in Proc, pc[p] \in Started \ {"recordV"}, NEW l \in Started,
           pc' = [pc EXCEPT ![p] = l],
           NEW j, IsJob(j), job' = [job EXCEPT ![p] = j], j.kind = job[p].kind,
           j.name = job[p].name, j.gen = job[p].gen, j.cert = job[p].cert,
           reading' \subseteq reading \cup {p},
           p \in reading' => l \in {"ensure", "markSync"} /\ Current(p),
           UNCHANGED <<cfg, gen, applyMu, staged, running, phase>>
    PROVE  IInv'
<1> USE DEF IInv
<1>1. Shape'
    BY DEF Shape, IsJob
<1>2. Mutex'
    BY DEF Shape, Mutex, Applying, Started, Holding, ApplySteps, SyncSteps
<1>3. Ahead' /\ Downtime'
    BY DEF Shape, Ahead, Downtime, Preparing, Started, SyncSteps
<1>4. Fresh' /\ Publishing'
    BY DEF Shape, Fresh, Publishing, Current
<1> QED
    BY <1>1, <1>2, <1>3, <1>4

\* A synchronization or validation returns to its caller.
LEMMA SyncEnds ==
    ASSUME IInv, NEW p \in Proc, pc[p] \in SyncSteps \cup {"recordV"},
           pc[p] \notin {"ensure", "markSync"},
           IF pc[p] = "recordV" THEN Done(p) ELSE Return(p),
           UNCHANGED <<cfg, gen, applyMu, reading, staged, running, phase>>
    PROVE  IInv'
<1> USE DEF IInv
<1> DEFINE initial == pc[p] # "recordV" /\ job[p].kind = "initial"
           l == IF initial THEN "initial" ELSE "idle"
           j == IF initial THEN [Idle EXCEPT !.kind = "apply"] ELSE Idle
<1>1. pc' = [pc EXCEPT ![p] = l] /\ job' = [job EXCEPT ![p] = j]
    BY DEF Return, Done, Goto, Assign
<1>2. initial => applyMu = p
    BY DEF Mutex, Applying
<1>3. IsJob(j) /\ j.kind # "initial"
    BY DEF IsJob, Idle
<1>4. l \in {"initial", "idle"}
    OBVIOUS
<1>5. Mutex'
    BY <1>1, <1>2, <1>3 DEF Shape, Mutex, Applying, Holding, ApplySteps, SyncSteps
<1> HIDE DEF l, j
<1>6. Shape'
    BY <1>1, <1>3 DEF Shape, IsJob
<1>7. Ahead' /\ Downtime'
    BY <1>1, <1>4 DEF Shape, Ahead, Downtime, Preparing, SyncSteps
<1>8. Fresh'
    BY <1>1, <1>4 DEF Shape, Fresh, Current, Started, SyncSteps
<1>9. Publishing'
    BY <1>1 DEF Shape, Publishing, Current
<1> QED
    BY <1>5, <1>6, <1>7, <1>8, <1>9

\* An idle goroutine gets work that holds no lock yet, or a goroutine that is at
\* neither an apply nor a synchronization goes on.
LEMMA Arrives ==
    ASSUME IInv, NEW p \in Proc, pc[p] \in {"idle", "wait", "clear", "drain"},
           NEW l \in {"idle", "wait", "begin", "clear", "drain", "exit"},
           pc' = [pc EXCEPT ![p] = l],
           NEW j, IsJob(j), job' = [job EXCEPT ![p] = j], l = "begin" => j.kind # "initial",
           phase # "down",
           UNCHANGED <<cfg, gen, applyMu, reading, staged, phase>>
    PROVE  IInv'
<1> USE DEF IInv
<1>1. Shape'
    BY DEF Shape, IsJob
<1>2. Mutex'
    BY DEF Shape, Mutex, Applying, Holding, ApplySteps, SyncSteps
<1>3. Ahead' /\ Downtime'
    BY DEF Shape, Ahead, Downtime, Preparing
<1>4. Fresh' /\ Publishing'
    BY DEF Shape, Fresh, Publishing, Current, Started, SyncSteps
<1> QED
    BY <1>1, <1>2, <1>3, <1>4

----------------------------------------------------------------------------
(* The steps of the inductive invariant *)

\* An apply goes on or gives up.
LEMMA ApplyHolds ==
    ASSUME IInv, NEW p \in Proc, Apply(p)
    PROVE  IInv'
<1> USE DEF IInv
<1>1. CASE Acquire(p)
  <2>1. pc[p] = "wait" /\ phase # "down"
      BY <1>1 DEF Acquire, At, Downtime
  <2>2. CASE Done(p) /\ UNCHANGED <<applyMu, staged>>
      BY <1>1, <2>1, <2>2, Arrives DEF Acquire, Done, Goto, Assign, IsJob, Idle, memory
  <2>3. CASE ~(Done(p) /\ UNCHANGED <<applyMu, staged>>)
    <3>1. /\ applyMu = None /\ applyMu' = p /\ pc' = [pc EXCEPT ![p] = "saveSecrets"]
          /\ IsApply(staged') /\ UNCHANGED <<cfg, gen, reading, job, phase, running>>
        BY <1>1, <2>3 DEF Acquire, Goto, IsApply, NoApply, memory
    <3> QED
        BY <2>1, <3>1, ManagerAssumption DEF Shape, Mutex, Applying, Holding, ApplySteps,
           SyncSteps, Downtime, Ahead, Preparing, Fresh, Publishing, Started, Current
  <2> QED
      BY <2>2, <2>3
<1>2. CASE SaveSecrets(p)
    BY <1>2, ApplyGoesOn, ApplyEnds DEF SaveSecrets, At, Goto, Abandon, Assign, Shape, memory,
       Holding, ApplySteps, Preparing, Downtime
<1>3. CASE Prepare(p)
    BY <1>3, ApplyGoesOn DEF Prepare, At, Goto, Shape, IsApply, memory, locks,
       Holding, ApplySteps, Preparing
<1>4. CASE StartWatchers(p)
  <2>1. PICK l \in {"fbLock", "abort"} : pc' = [pc EXCEPT ![p] = l]
      BY <1>4 DEF StartWatchers, Goto
  <2>2. IsApply(staged') /\ staged'.gen = staged.gen
      BY <1>4 DEF StartWatchers, Shape, IsApply
  <2>3. pc[p] = "start" /\ UNCHANGED <<cfg, gen, applyMu, reading, job, phase>>
      BY <1>4 DEF StartWatchers, At, memory, locks
  <2> QED
      BY <2>1, <2>2, <2>3, ApplyGoesOn DEF Ahead, Holding, ApplySteps, Preparing
<1>5. CASE LockFallbacks(p)
  <2>1. IsApply(staged') /\ staged'.gen = staged.gen
      BY <1>5 DEF LockFallbacks, Shape, IsApply
  <2> QED
      BY <1>5, <2>1, ApplyGoesOn DEF LockFallbacks, At, Goto, Ahead, memory,
         Holding, ApplySteps, Preparing
<1>6. CASE Reconcile(p)
  <2>1. PICK l \in {"saveConfig", "reconcile", "unreconcile"} : pc' = [pc EXCEPT ![p] = l]
      BY <1>6 DEF Reconcile, At, Goto, Shape
  <2>2. IsApply(staged') /\ staged'.gen = staged.gen
      BY <1>6 DEF Reconcile, Shape, IsApply
  <2>3. pc[p] = "reconcile" /\ UNCHANGED <<cfg, gen, applyMu, reading, job, phase>>
      BY <1>6 DEF Reconcile, At, memory, locks
  <2> QED
      BY <2>1, <2>2, <2>3, ApplyGoesOn DEF Ahead, Holding, ApplySteps, Preparing
<1>7. CASE SaveConfig(p)
  <2>1. PICK l \in {"mark", "unreconcile"} : pc' = [pc EXCEPT ![p] = l]
      BY <1>7 DEF SaveConfig, Goto
  <2>2. IsApply(staged') /\ staged'.gen = staged.gen
      BY <1>7 DEF SaveConfig, Shape, IsApply
  <2>3. pc[p] = "saveConfig" /\ UNCHANGED <<cfg, gen, applyMu, reading, job, phase>>
      BY <1>7 DEF SaveConfig, At, memory, locks
  <2> QED
      BY <2>1, <2>2, <2>3, ApplyGoesOn DEF Ahead, Holding, ApplySteps, Preparing
<1>8. CASE MarkChanged(p)
  <2>1. PICK l \in {"flags", "restoreConfig"} : pc' = [pc EXCEPT ![p] = l]
      BY <1>8 DEF MarkChanged, Goto
  <2>2. pc[p] = "mark" /\ UNCHANGED <<cfg, gen, applyMu, reading, job, phase, staged>>
      BY <1>8 DEF MarkChanged, At, memory, locks
  <2> QED
      BY <2>1, <2>2, ApplyGoesOn DEF Shape, Ahead, Holding, ApplySteps, Preparing
<1>9. CASE RestoreConfig(p)
  <2>1. IsApply(staged')
      BY <1>9 DEF RestoreConfig, Shape, IsApply
  <2> QED
      BY <1>9, <2>1, ApplyGoesOn DEF RestoreConfig, At, Goto, memory, locks,
         Holding, ApplySteps, Preparing
<1>10. CASE Unreconcile(p)
  <2>1. PICK l \in {"abort", "unreconcile"} : pc' = [pc EXCEPT ![p] = l]
      BY <1>10 DEF Unreconcile, At, Goto, Shape
  <2>2. IsApply(staged')
      BY <1>10 DEF Unreconcile, Shape, IsApply
  <2>3. pc[p] = "unreconcile" /\ UNCHANGED <<cfg, gen, applyMu, reading, job, phase>>
      BY <1>10 DEF Unreconcile, At, memory
  <2> QED
      BY <2>1, <2>2, <2>3, ApplyGoesOn DEF Holding, ApplySteps, Preparing
<1>11. CASE Abort(p)
  <2>1. PICK l \in {"abort", "restoreSecrets"} : pc' = [pc EXCEPT ![p] = l]
      BY <1>11 DEF Abort, StopWatchers, At, Goto, Shape
  <2>2. pc[p] = "abort" /\ UNCHANGED <<cfg, gen, applyMu, reading, job, phase, staged>>
      BY <1>11 DEF Abort, StopWatchers, At, memory, locks
  <2> QED
      BY <2>1, <2>2, ApplyGoesOn DEF Shape, Holding, ApplySteps, Preparing
<1>12. CASE RestoreSecrets(p)
    BY <1>12, ApplyEnds DEF RestoreSecrets, At, Goto, Abandon, Assign, memory, Holding, ApplySteps
<1>13. CASE ReadFlags(p)
  <2>1. IsApply(staged') /\ staged'.gen = staged.gen
      BY <1>13 DEF ReadFlags, Shape, IsApply
  <2> QED
      BY <1>13, <2>1, ApplyGoesOn DEF ReadFlags, At, Goto, Ahead, memory, locks,
         Holding, ApplySteps, Preparing
<1>14. CASE Activate(p)
  <2>1. /\ pc[p] = "activate" /\ applyMu = p /\ gen' = gen + 1 /\ reading = {} /\ reading' = {}
        /\ pc' = [pc EXCEPT ![p] = "stopOld"] /\ phase # "down" /\ phase' = phase
        /\ UNCHANGED <<applyMu, job>>
      BY <1>14 DEF Activate, At, Goto, Exclusive, Mutex, Applying, Holding, ApplySteps,
         Ahead, Preparing, Downtime
  <2>2. IsApply(staged')
      BY <1>14 DEF Activate, Shape, IsApply
  <2>3. Shape'
    <3>1. gen' \in Nat
        BY <2>1 DEF Shape
    <3>2. /\ pc' = [r \in Proc |-> pc'[r]] /\ job' = [r \in Proc |-> job'[r]]
          /\ \A r \in Proc : IsJob(job[r])'
        BY <2>1 DEF Shape
    <3> QED
        BY <2>2, <3>1, <3>2 DEF Shape
  <2>4. Downtime' /\ Publishing'
      BY <2>1 DEF Downtime, Publishing
  <2>5. Mutex' /\ Ahead'
      BY <2>1 DEF Shape, Mutex, Applying, Holding, ApplySteps, Ahead, Preparing
  <2>6. Fresh'
      BY <2>1 DEF Shape, Fresh, Current, Started, SyncSteps
  <2> QED
      BY <2>3, <2>4, <2>5, <2>6
<1>15. CASE StopOld(p)
  <2>1. PICK l \in {"stopOld", "initial"} : pc' = [pc EXCEPT ![p] = l]
      BY <1>15 DEF StopOld, StopWatchers, At, Goto, Shape
  <2>2. pc[p] = "stopOld" /\ UNCHANGED <<cfg, gen, applyMu, reading, job, phase, staged>>
      BY <1>15 DEF StopOld, StopWatchers, At, memory, locks
  <2> QED
      BY <2>1, <2>2, ApplyGoesOn DEF Shape, Holding, ApplySteps, Preparing
<1>16. CASE InitialSyncs(p)
  <2>1. CASE Done(p) /\ applyMu' = None /\ staged' = NoApply /\ phase' = "serving"
      BY <1>16, <2>1, ApplyEnds DEF InitialSyncs, At, Done, Goto, Assign, memory, Holding, ApplySteps
  <2>2. CASE phase' = phase /\ pc' = [pc EXCEPT ![p] = "begin"]
    <3>1. PICK n \in staged.todo : Assign(p, [job[p] EXCEPT !.kind = "initial", !.name = n,
                                             !.gen = staged.gen, !.result = "none"])
        BY <1>16, <2>2 DEF InitialSyncs, Done, Goto, Shape, At
    <3>2. /\ pc[p] = "initial" /\ applyMu = p /\ phase # "down"
          /\ UNCHANGED <<cfg, gen, applyMu, reading, phase, running>>
        BY <1>16, <2>2 DEF InitialSyncs, At, Mutex, Applying, Holding, ApplySteps, Downtime, memory
    <3>3. IsApply(staged')
        BY <1>16 DEF InitialSyncs, Shape, IsApply, NoApply
    <3>4. Shape'
        BY <2>2, <3>1, <3>2, <3>3 DEF Shape, IsJob, Assign
    <3>5. Mutex' /\ Ahead' /\ Downtime'
        BY <2>2, <3>1, <3>2 DEF Shape, Assign, Mutex, Applying, Holding, ApplySteps, SyncSteps,
           Ahead, Preparing, Downtime
    <3>6. Fresh' /\ Publishing'
        BY <2>2, <3>1, <3>2 DEF Shape, Assign, Fresh, Publishing, Current, Started, SyncSteps
    <3> QED
        BY <3>4, <3>5, <3>6
  <2> QED
      BY <1>16, <2>1, <2>2 DEF InitialSyncs, Goto
<1> QED
    BY <1>1, <1>2, <1>3, <1>4, <1>5, <1>6, <1>7, <1>8, <1>9, <1>10, <1>11, <1>12, <1>13,
       <1>14, <1>15, <1>16 DEF Apply

\* A synchronization goes on or returns.
LEMMA SyncHolds ==
    ASSUME IInv, NEW p \in Proc, Sync(p)
    PROVE  IInv'
<1> USE DEF IInv
<1>1. CASE Begin(p)
  <2>1. pc[p] = "begin" /\ UNCHANGED <<cfg, gen, applyMu, reading, staged, running, phase>>
      BY <1>1 DEF Begin, At, memory, rest
  <2>2. CASE ~Current(p)
      BY <1>1, <2>1, <2>2, SyncEnds DEF Begin, SyncSteps
  <2>3. CASE Current(p)
    <3> DEFINE j == [job[p] EXCEPT !.cert = cfg[job[p].name]]
    <3>1. PICK l \in {"fbRLock", "dest"} : pc' = [pc EXCEPT ![p] = l]
        BY <1>1, <2>3 DEF Begin, Goto
    <3>2. job' = [job EXCEPT ![p] = j]
        BY <1>1, <2>3 DEF Begin, Assign
    <3>3. /\ IsJob(j) /\ j.kind = job[p].kind /\ j.name = job[p].name /\ j.gen = job[p].gen
          /\ j.cert = cfg[job[p].name]
        BY DEF Shape, IsJob
    <3> HIDE DEF j
    <3>4. Shape'
        BY <2>1, <3>1, <3>2, <3>3 DEF Shape
    <3>5. Mutex' /\ Ahead' /\ Downtime'
        BY <2>1, <3>1, <3>2, <3>3 DEF Shape, Mutex, Applying, Holding, ApplySteps, SyncSteps,
           Ahead, Preparing, Downtime
    <3>6. Fresh'
        BY <2>1, <2>3, <3>1, <3>2, <3>3 DEF Shape, Fresh, Current, Started, SyncSteps
    <3>7. Publishing'
        BY <2>1, <3>1, <3>2, <3>3 DEF Shape, Publishing, Current
    <3> QED
        BY <3>4, <3>5, <3>6, <3>7
  <2> QED
      BY <2>2, <2>3
<1>2. CASE RLockFallbacks(p)
    BY <1>2, SyncGoesOn DEF RLockFallbacks, At, Goto, Shape, Publishing, memory, rest,
       Started, SyncSteps
<1>3. ASSUME pc[p] \in Started \ {"recordV"}, NEW l \in Started, pc' = [pc EXCEPT ![p] = l],
             NEW r, job' = job \/ Result(p, r),
             reading' \subseteq reading \cup {p},
             p \in reading' => l \in {"ensure", "markSync"} /\ Current(p),
             UNCHANGED <<cfg, gen, applyMu, staged, running, phase>>
      PROVE  IInv'
  <2> DEFINE j == IF job' = job THEN job[p] ELSE [job[p] EXCEPT !.result = r]
  <2>1. job' = [job EXCEPT ![p] = j]
      BY <1>3 DEF Result, Shape
  <2>2. /\ IsJob(j) /\ j.kind = job[p].kind /\ j.name = job[p].name /\ j.gen = job[p].gen
        /\ j.cert = job[p].cert
      BY DEF Shape, IsJob
  <2> HIDE DEF j
  <2> QED
      BY <1>3, <2>1, <2>2, SyncGoesOn
<1>4. CASE LockDestination(p)
  <2>1. pc[p] = "dest" /\ UNCHANGED <<cfg, gen, applyMu, reading, staged, running, phase>>
      BY <1>4 DEF LockDestination, At, memory
  <2>2. PICK l \in {"fetch", "install", "record"} : pc' = [pc EXCEPT ![p] = l]
      BY <1>4 DEF LockDestination, Goto
  <2>3. job' = job \/ Result(p, "unresolved")
      BY <1>4 DEF LockDestination
  <2> QED
      BY <1>3, <2>1, <2>2, <2>3 DEF Publishing, Started, SyncSteps
<1>5. CASE BeginFetch(p)
  <2>1. pc[p] = "fetch" /\ UNCHANGED <<cfg, gen, applyMu, reading, staged, running, phase>>
      BY <1>5 DEF BeginFetch, At, rest
  <2>2. CASE Return(p)
      BY <2>1, <2>2, SyncEnds DEF SyncSteps
  <2>3. CASE pc' = [pc EXCEPT ![p] = "query"] /\ Assign(p, [job[p] EXCEPT !.keys = secrets[job[p].name]])
    <3> DEFINE j == [job[p] EXCEPT !.keys = secrets[job[p].name]]
    <3>1. /\ IsJob(j) /\ j.kind = job[p].kind /\ j.name = job[p].name /\ j.gen = job[p].gen
          /\ j.cert = job[p].cert /\ job' = [job EXCEPT ![p] = j]
        BY <2>3 DEF Shape, IsJob, Assign
    <3>2. p \notin reading /\ pc[p] \in Started \ {"recordV"} /\ "query" \in Started
        BY <2>1 DEF Publishing, Started, SyncSteps
    <3> HIDE DEF j
    <3> QED
        BY <2>1, <2>3, <3>1, <3>2, SyncGoesOn
  <2> QED
      BY <1>5, <2>2, <2>3 DEF BeginFetch, Goto
<1>6. CASE EndFetch(p)
  <2>1. pc[p] = "query" /\ UNCHANGED <<cfg, gen, applyMu, reading, staged, running, phase>>
      BY <1>6 DEF EndFetch, At, rest
  <2>2. CASE Return(p)
      BY <2>1, <2>2, SyncEnds DEF SyncSteps
  <2>3. CASE ~Return(p)
    <3>1. PICK l \in {"recordV", "install"} : pc' = [pc EXCEPT ![p] = l]
        BY <1>6, <2>3 DEF EndFetch, Goto
    <3>2. job' = job
        BY <1>6, <2>3 DEF EndFetch
    <3> QED
        BY <1>3, <2>1, <3>1, <3>2 DEF Publishing, Started, SyncSteps
  <2> QED
      BY <2>2, <2>3
<1>7. CASE Install(p)
  <2>1. pc[p] = "install" /\ UNCHANGED <<cfg, gen, applyMu, staged, running, phase>>
      BY <1>7 DEF Install, At, memory
  <2>2. CASE Return(p) /\ reading' = reading
      BY <2>1, <2>2, SyncEnds DEF SyncSteps
  <2>3. CASE ~(Return(p) /\ reading' = reading)
    <3>1. Current(p) /\ (Result(p, "ok") \/ Result(p, "invalid") \/ Result(p, "failed"))
        BY <1>7, <2>3 DEF Install
    <3>2. PICK l \in {"ensure", "record"} :
              /\ pc' = [pc EXCEPT ![p] = l] /\ reading' \subseteq reading \cup {p}
              /\ l = "record" => reading' = reading
        BY <1>7, <2>3 DEF Install, Goto
    <3>3. p \notin reading /\ pc[p] \in Started \ {"recordV"} /\ l \in Started
        BY <2>1 DEF Publishing, Started, SyncSteps
    <3>4. p \in reading' => l \in {"ensure", "markSync"} /\ Current(p)
        BY <3>1, <3>2, <3>3
    <3>5. PICK r : Result(p, r)
        BY <3>1
    <3> QED
        BY <1>3, <2>1, <3>2, <3>3, <3>4, <3>5
  <2> QED
      BY <2>2, <2>3
<1>8. CASE Ensure(p)
  <2>1. /\ pc[p] = "ensure" /\ UNCHANGED <<cfg, gen, applyMu, staged, running, phase>>
        /\ Result(p, "failed") \/ Result(p, "ok")
      BY <1>8 DEF Ensure, At, memory
  <2>2. PICK l \in {"markSync", "record"} :
            /\ pc' = [pc EXCEPT ![p] = l] /\ reading' \subseteq reading
            /\ l = "record" => p \notin reading'
      BY <1>8 DEF Ensure, Goto
  <2>3. (p \in reading => Current(p)) /\ pc[p] \in Started \ {"recordV"} /\ l \in Started
      BY <2>1 DEF Publishing, Started, SyncSteps
  <2>4. reading' \subseteq reading \cup {p} /\ (p \in reading' => l \in {"ensure", "markSync"} /\ Current(p))
      BY <2>2, <2>3
  <2>5. PICK r : Result(p, r)
      BY <2>1
  <2> QED
      BY <1>3, <2>1, <2>2, <2>3, <2>4, <2>5
<1>9. CASE MarkSync(p)
  <2>1. /\ pc[p] = "markSync" /\ UNCHANGED <<cfg, gen, applyMu, staged, running, phase>>
        /\ job' = job \/ Result(p, "failed")
        /\ pc' = [pc EXCEPT ![p] = "record"] /\ reading' = reading \ {p}
      BY <1>9 DEF MarkSync, At, Goto, memory
  <2> QED
      BY <1>3, <2>1 DEF Started, SyncSteps
<1>10. CASE Record(p)
    BY <1>10, SyncEnds DEF Record, At, SyncSteps, rest
<1> QED
    BY <1>1, <1>2, <1>4, <1>5, <1>6, <1>7, <1>8, <1>9, <1>10 DEF Sync

\* The end of the process, whatever was before.
LEMMA ShutdownHolds == Shutdown => IInv'
BY ManagerAssumption DEF Shutdown, IInv, Shape, IsJob, IsApply, Idle, NoApply,
   Mutex, Applying, Holding, ApplySteps, SyncSteps, Downtime, Ahead, Preparing, Fresh,
   Started, Publishing

\* The rest of what a goroutine does, and the end of the process.
LEMMA OtherHolds ==
    ASSUME IInv, NEW p \in Proc, Other(p)
    PROVE  IInv'
<1>1. CASE RecordValidation(p)
    BY <1>1, SyncEnds DEF RecordValidation, At, locks, rest
<1>2. CASE ClearFlags(p)
  <2>1. pc[p] = "clear" /\ phase # "down"
      BY <1>2 DEF ClearFlags, At, IInv, Downtime
  <2> QED
      BY <1>2, <2>1, Arrives DEF ClearFlags, Done, Goto, Assign, IsJob, Idle, locks, rest
<1>3. CASE Drain(p)
  <2>1. pc[p] = "drain" /\ phase # "down"
      BY <1>3 DEF Drain, StopWatchers, At, IInv, Downtime
  <2>2. PICK l \in {"drain", "exit"} : pc' = [pc EXCEPT ![p] = l]
      BY <1>3 DEF Drain, StopWatchers, At, Goto, IInv, Shape
  <2>3. job' = [job EXCEPT ![p] = job[p]] /\ IsJob(job[p])
      BY <1>3 DEF Drain, StopWatchers, IInv, Shape
  <2> QED
      BY <1>3, <2>1, <2>2, <2>3, Arrives DEF Drain, StopWatchers, memory, locks
<1>4. CASE Exit(p)
    BY <1>4, ShutdownHolds DEF Exit
<1> QED
    BY <1>1, <1>2, <1>3, <1>4 DEF Other

\* A job is made by setting fields of another one.
LEMMA JobEdits ==
    ASSUME NEW j, IsJob(j), NEW v
    PROVE  /\ IsJob([j EXCEPT !.kind = v]) /\ IsJob([j EXCEPT !.name = v])
           /\ IsJob([j EXCEPT !.gen = v]) /\ IsJob([j EXCEPT !.cert = v])
           /\ IsJob([j EXCEPT !.req = v])
           /\ [j EXCEPT !.kind = v].kind = v /\ [j EXCEPT !.name = v].name = v
           /\ [j EXCEPT !.gen = v].gen = v /\ [j EXCEPT !.cert = v].cert = v
           /\ [j EXCEPT !.req = v].kind = j.kind /\ [j EXCEPT !.name = v].kind = j.kind
           /\ [j EXCEPT !.gen = v].kind = j.kind /\ [j EXCEPT !.gen = v].name = j.name
           /\ [j EXCEPT !.cert = v].kind = j.kind /\ [j EXCEPT !.cert = v].name = j.name
           /\ [j EXCEPT !.cert = v].gen = j.gen
BY DEF IsJob

LEMMA IdleJob == IsJob(Idle)
BY DEF IsJob, Idle

NewJob(k, n, g) == [Idle EXCEPT !.kind = k, !.name = n, !.gen = g]

LEMMA NewJobFields ==
    ASSUME NEW k, NEW n, NEW g
    PROVE  /\ IsJob(NewJob(k, n, g)) /\ NewJob(k, n, g).kind = k
           /\ NewJob(k, n, g).name = n /\ NewJob(k, n, g).gen = g
<1> DEFINE a == [Idle EXCEPT !.kind = k]
           b == [a EXCEPT !.name = n]
           j == [b EXCEPT !.gen = g]
<1>1. IsJob(a) /\ a.kind = k
    BY IdleJob, JobEdits
<1> HIDE DEF a
<1>2. IsJob(b) /\ b.kind = k /\ b.name = n
    BY <1>1, JobEdits
<1> HIDE DEF b
<1>3. IsJob(j) /\ j.kind = k /\ j.name = n /\ j.gen = g
    BY <1>2, JobEdits
<1> QED
    BY <1>3 DEF a, b, NewJob

\* New work, but for a termination.
LEMMA ArriveHolds ==
    ASSUME IInv, NEW p \in Proc, Arrive(p), ~Terminate(p)
    PROVE  IInv'
<1> USE DEF IInv
<1>1. CASE Boot(p)
    BY <1>1, ManagerAssumption DEF Boot, Goto, Assign, Shape, IsJob, IsApply, Idle, NoApply,
       Mutex, Applying, Holding, ApplySteps, SyncSteps, Downtime, Ahead, Preparing, Fresh,
       Started, Publishing, Current
<1>2. ASSUME NEW r \in Requests, Request(p, r) PROVE IInv'
  <2> DEFINE j == [Idle EXCEPT !.kind = "apply", !.req = r]
  <2>1. IsJob(j)
      BY IdleJob, JobEdits
  <2> QED
      BY <1>2, <2>1, Arrives DEF Request, At, Goto, Assign, memory, locks, rest
<1>3. ASSUME NEW n \in Name, SyncNow(p, n) PROVE IInv'
  <2> DEFINE j == NewJob("manual", n, gen)
  <2>1. IsJob(j) /\ j.kind = "manual"
      BY NewJobFields
  <2>2. pc[p] = "idle" /\ pc' = [pc EXCEPT ![p] = "begin"] /\ job' = [job EXCEPT ![p] = j]
        /\ phase # "down" /\ UNCHANGED <<cfg, gen, applyMu, reading, staged, phase>>
      BY <1>3 DEF SyncNow, NewJob, At, Goto, Assign, memory, locks, rest
  <2> HIDE DEF j
  <2> QED
      BY <2>1, <2>2, Arrives
<1>4. ASSUME NEW n \in Name, ValidateNow(p, n) PROVE IInv'
  <2> DEFINE j == [Idle EXCEPT !.kind = "validate", !.name = n, !.gen = gen, !.cert = cfg[n]]
  <2>1. /\ pc[p] = "idle" /\ phase = "serving" /\ job' = [job EXCEPT ![p] = j]
        /\ UNCHANGED <<cfg, gen, applyMu, reading, staged, running, phase>>
      BY <1>4 DEF ValidateNow, At, Assign, memory, locks, rest
  <2>2. PICK l \in {"fetch", "recordV"} : pc' = [pc EXCEPT ![p] = l]
      BY <1>4 DEF ValidateNow, Goto
  <2>3. IsJob(j) /\ j.kind = "validate" /\ j.name = n /\ j.gen = gen /\ j.cert = cfg[n]
    <3> DEFINE i == NewJob("validate", n, gen)
    <3>1. IsJob(i) /\ i.kind = "validate" /\ i.name = n /\ i.gen = gen
        BY NewJobFields
    <3>2. j = [i EXCEPT !.cert = cfg[n]]
        BY DEF NewJob
    <3> HIDE DEF i, j
    <3> QED
        BY <3>1, <3>2, JobEdits
  <2> HIDE DEF j
  <2>4. Shape'
      BY <2>1, <2>2, <2>3 DEF Shape
  <2>5. Mutex' /\ Ahead' /\ Downtime'
      BY <2>1, <2>2, <2>3 DEF Shape, Mutex, Applying, Holding, ApplySteps, SyncSteps,
         Ahead, Preparing, Downtime
  <2>6. Fresh'
      BY <2>1, <2>2, <2>3 DEF Shape, Fresh, Current, Started, SyncSteps
  <2>7. Publishing'
      BY <2>1, <2>2, <2>3 DEF Shape, Publishing, Current
  <2> QED
      BY <2>4, <2>5, <2>6, <2>7
<1>5. ASSUME NEW w \in running, Tick(p, w) PROVE IInv'
  <2> DEFINE j == NewJob("callback", w.name, w.gen)
  <2>1. IsJob(j) /\ j.kind = "callback"
      BY NewJobFields
  <2>2. pc[p] = "idle" /\ pc' = [pc EXCEPT ![p] = "begin"] /\ job' = [job EXCEPT ![p] = j]
        /\ phase # "down" /\ UNCHANGED <<cfg, gen, applyMu, reading, staged, phase>>
      BY <1>5 DEF Tick, NewJob, At, Goto, Assign, memory, locks, rest, Downtime
  <2> HIDE DEF j
  <2> QED
      BY <2>1, <2>2, Arrives
<1>6. CASE Acknowledge(p)
  <2>1. pc[p] = "idle" /\ phase # "down" /\ IsJob(job[p])
      BY <1>6 DEF Acknowledge, At, Shape
  <2>2. CASE pc' = [pc EXCEPT ![p] = "clear"] /\ Assign(p, [Idle EXCEPT !.kind = "ack"])
    <3> DEFINE j == [Idle EXCEPT !.kind = "ack"]
    <3>1. IsJob(j) /\ job' = [job EXCEPT ![p] = j]
        BY <2>2, IdleJob, JobEdits DEF Assign
    <3>2. UNCHANGED <<cfg, gen, applyMu, reading, staged, phase>>
        BY <1>6 DEF Acknowledge, memory, locks
    <3> HIDE DEF j
    <3> QED
        BY <2>1, <2>2, <3>1, <3>2, Arrives
  <2>3. CASE UNCHANGED <<pc, job>>
    <3>1. pc' = [pc EXCEPT ![p] = "idle"] /\ job' = [job EXCEPT ![p] = job[p]]
        BY <2>1, <2>3 DEF Shape
    <3> QED
        BY <1>6, <2>1, <3>1, Arrives DEF Acknowledge, memory, locks
  <2> QED
      BY <1>6, <2>2, <2>3 DEF Acknowledge, Goto
<1> QED
    BY <1>1, <1>2, <1>3, <1>4, <1>5, <1>6 DEF Arrive

LEMMA StepHolds ==
    ASSUME IInv, [Next]_vars, ~\E p \in Proc : Terminate(p)
    PROVE  IInv'
<1>1. CASE Crash
    BY <1>1, ShutdownHolds DEF Crash
<1>2. CASE UNCHANGED vars
    BY <1>2 DEF vars, memory, locks, rest, IInv, Shape, Mutex, Applying, Downtime, Ahead, Fresh,
       Publishing, Current
<1> QED
    BY <1>1, <1>2, ApplyHolds, SyncHolds, OtherHolds, ArriveHolds DEF Next

----------------------------------------------------------------------------
(* The theorems *)

LEMMA Inductive ==
    ASSUME "terminate" \notin Tasks
    PROVE  Spec => []IInv
<1>1. IInv /\ [Next]_vars => IInv'
    BY StepHolds DEF Terminate
<1> QED
    BY InitHolds, <1>1, PTL DEF Spec

\* Activation does not overtake publication: the generation check under the read
\* lock of syncGenerationContext keeps the configuration a synchronization
\* publishes for, as long as stopWatchers does not bump the generation.
THEOREM Publication ==
    ASSUME "terminate" \notin Tasks
    PROVE  Spec => []PublishersCurrent
<1>1. IInv => PublishersCurrent
    BY DEF IInv, PublishersCurrent, Publishing, Fresh, Started, SyncSteps
<1> QED
    BY Inductive, <1>1, PTL

----------------------------------------------------------------------------
(* The status *)

Status == shown = [n \in Name |-> shown[n]] /\ StatusOfActive

LEMMA InitStatus == Init => Status
BY DEF Init, Status, StatusOfActive

\* A status is written for an entry and a generation, and forgotten with them.
LEMMA StatusHolds ==
    ASSUME IInv, Status, [Next]_vars
    PROVE  Status'
<1>1. ASSUME UNCHANGED <<cfg, shown>> PROVE Status'
    BY <1>1 DEF Status, StatusOfActive, Entries
<1>2. ASSUME shown' = [n \in Name |-> None] PROVE Status'
    BY <1>2 DEF Status, StatusOfActive
<1>3. ASSUME NEW p \in Proc, pc[p] \in {"record", "recordV"}, Current(p), cfg' = cfg,
             NEW seen \in {None, job[p].cert.source},
             shown' = [shown EXCEPT ![job[p].name] = seen]
      PROVE  Status'
  <2>1. cfg[job[p].name] # None /\ seen \in {None, cfg[job[p].name].source}
      BY <1>3 DEF IInv, Fresh, Started, SyncSteps, Current
  <2> QED
      BY <1>3, <2>1 DEF Status, StatusOfActive, Entries
<1>4. ASSUME NEW p \in Proc, Apply(p) PROVE Status'
  <2>1. CASE Activate(p)
      BY <1>2, <2>1 DEF Activate
  <2>2. CASE Acquire(p) \/ SaveSecrets(p) \/ Prepare(p) \/ StartWatchers(p) \/ LockFallbacks(p)
             \/ Reconcile(p) \/ SaveConfig(p) \/ MarkChanged(p)
      BY <1>1, <2>2 DEF memory, Acquire, SaveSecrets, Prepare, StartWatchers, LockFallbacks,
         Reconcile, SaveConfig, MarkChanged
  <2>3. CASE RestoreConfig(p) \/ Unreconcile(p) \/ Abort(p) \/ RestoreSecrets(p) \/ ReadFlags(p)
             \/ StopOld(p) \/ InitialSyncs(p)
      BY <1>1, <2>3 DEF memory, RestoreConfig, Unreconcile, Abort, StopOld, StopWatchers,
         RestoreSecrets, ReadFlags, InitialSyncs
  <2> QED
      BY <1>4, <2>1, <2>2, <2>3 DEF Apply
<1>5. ASSUME NEW p \in Proc, Sync(p) PROVE Status'
  <2>1. CASE Record(p)
    <3>1. CASE Current(p)
      <4>1. PICK seen \in {None, job[p].cert.source} : shown' = [shown EXCEPT ![job[p].name] = seen]
          BY <2>1, <3>1 DEF Record
      <4> QED
          BY <1>3, <2>1, <3>1, <4>1 DEF Record, At
    <3>2. CASE ~Current(p)
        BY <1>1, <2>1, <3>2 DEF Record
    <3> QED
        BY <3>1, <3>2
  <2>2. CASE Begin(p) \/ RLockFallbacks(p) \/ LockDestination(p) \/ BeginFetch(p) \/ EndFetch(p)
             \/ Install(p) \/ Ensure(p) \/ MarkSync(p)
      BY <1>1, <2>2 DEF memory, Begin, RLockFallbacks, LockDestination, BeginFetch, EndFetch,
         Install, Ensure, MarkSync
  <2> QED
      BY <1>5, <2>1, <2>2 DEF Sync
<1>6. ASSUME NEW p \in Proc, Other(p) PROVE Status'
  <2>1. CASE RecordValidation(p)
    <3>1. CASE Current(p)
      <4>1. PICK seen \in {None, job[p].cert.source} : shown' = [shown EXCEPT ![job[p].name] = seen]
          BY <2>1, <3>1 DEF RecordValidation
      <4> QED
          BY <1>3, <2>1, <3>1, <4>1 DEF RecordValidation, At
    <3>2. CASE ~Current(p)
        BY <1>1, <2>1, <3>2 DEF RecordValidation
    <3> QED
        BY <3>1, <3>2
  <2>2. CASE ClearFlags(p) \/ Drain(p)
      BY <1>1, <2>2 DEF memory, ClearFlags, Drain, StopWatchers
  <2>3. CASE Exit(p)
      BY <1>2, <2>3 DEF Exit, Shutdown
  <2> QED
      BY <1>6, <2>1, <2>2, <2>3 DEF Other
<1>7. ASSUME NEW p \in Proc, Arrive(p) PROVE Status'
    BY <1>1, <1>7 DEF memory, Arrive, Boot, Request, SyncNow, ValidateNow, Tick, Acknowledge, Terminate
<1>8. CASE Crash
    BY <1>2, <1>8 DEF Crash, Shutdown
<1>9. CASE UNCHANGED vars
    BY <1>1, <1>9 DEF vars, memory
<1> QED
    BY <1>4, <1>5, <1>6, <1>7, <1>8, <1>9 DEF Next

\* The generation check of recordSync and recordValidation keeps every status true
\* to the active configuration.
THEOREM StatusIsActive ==
    ASSUME "terminate" \notin Tasks
    PROVE  Spec => []StatusOfActive
<1>1. IInv /\ Status /\ [Next]_vars => Status'
    BY StatusHolds
<1>2. Status => StatusOfActive
    BY DEF Status
<1> QED
    BY Inductive, InitStatus, <1>1, <1>2, PTL DEF Spec
=============================================================================
