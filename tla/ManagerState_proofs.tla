------------------------ MODULE ManagerState_proofs ------------------------
(***************************************************************************)
(* Proofs about Manager for every value of its constants, termination,     *)
(* faults and crashes included, unless a theorem says otherwise: types,    *)
(* memory and disk, the requests that are applied, the watchers that run,  *)
(* what is published, the Checking state, what holds until /term is        *)
(* called, and that Manager implements ActivationService.                  *)
(*                                                                         *)
(* The argument: one goroutine at a time is applying, it alone changes the *)
(* configuration (Control, OthersLeave), and what it has done so far is    *)
(* told by where it is (Stage).  Core is the inductive invariant of all    *)
(* tasks; Pact and Owned are inductive on top of it.  IInv of              *)
(* Manager_proofs holds but while a process terminates, and the            *)
(* refinement takes all of these (Service).                                *)
(***************************************************************************)
EXTENDS Manager_proofs

----------------------------------------------------------------------------
(* Configurations, credentials and entries *)

Targets == {e.target : e \in EntriesEver}

LEMMA EntryParts ==
    ASSUME NEW e \in EntriesEver
    PROVE  /\ e # None /\ e.remote \in BOOLEAN /\ e.dir \in Dirs /\ e.source \in Sources
           /\ e.target \in Targets /\ Dest(e) \in Destinations
BY RequestAssumption DEF Dirs, Sources, Targets, Destinations

LEMMA NoEntriesTyped == NoEntries \in Configs /\ NoEntries \in Keyrings
BY DEF NoEntries, Configs, Keyrings

\* A configuration that is written somewhere is one of Configs.
LEMMA WrittenTyped ==
    ASSUME NEW c \in Written, c = [n \in Name |-> c[n]]
    PROVE  c \in Configs
<1>1. ASSUME NEW n \in Name PROVE c[n] \in EntriesEver \cup {None}
    BY <1>1 DEF EntriesEver, Entries
<1> QED
    BY <1>1 DEF Configs

LEMMA BootTyped == BootConfigs \subseteq Configs
BY WrittenTyped, RequestAssumption DEF Written

LEMMA CandidateTyped ==
    ASSUME NEW c \in Configs, NEW r \in Requests
    PROVE  Candidate(c, r) \in Configs
<1>1. CASE r.op = "post"
    BY <1>1, WrittenTyped, RequestAssumption DEF Written, Candidate
<1>2. CASE r.op = "delete"
    BY <1>2, RequestAssumption DEF Candidate, Configs
<1>3. CASE r.op \in {"create", "update"}
  <2>1. r.cert \in EntriesEver /\ r.name \in Name
      BY <1>3, RequestAssumption DEF EntriesEver
  <2> QED
      BY <1>3, <2>1 DEF Candidate, Configs
<1> QED
    BY <1>1, <1>2, <1>3, RequestAssumption

LEMMA RekeyTyped ==
    ASSUME NEW s \in Keyrings, NEW r \in Requests
    PROVE  Rekey(s, r) \in Keyrings
<1>1. CASE r.op = "post"
    BY <1>1 DEF Rekey
<1>2. CASE r.op = "delete" \/ (r.op # "post" /\ ~r.cert.remote)
    BY <1>2, RequestAssumption DEF Rekey, Keyrings
<1>3. CASE r.op \in {"create", "update"} /\ r.cert.remote
  <2>1. r.cert \in EntriesEver /\ r.name \in Name
      BY <1>3, RequestAssumption DEF EntriesEver
  <2> QED
      BY <1>3, <2>1, EntryParts DEF Rekey, Keyrings
<1> QED
    BY <1>1, <1>2, <1>3, RequestAssumption

LEMMA PruneTyped ==
    ASSUME NEW s \in Keyrings, NEW c
    PROVE  Prune(c, s) \in Keyrings
BY DEF Prune, Keyrings

LEMMA DesiredTyped ==
    ASSUME NEW c \in Configs, NEW d
    PROVE  Desired(c, d) \in Targets \cup {None}
<1> DEFINE chosen == {n \in Entries(c) : c[n].enabled /\ c[n].fallback /\ c[n].dir = d}
<1>1. CASE chosen # {}
  <2>1. (CHOOSE n \in chosen : TRUE) \in chosen
      BY <1>1
  <2> DEFINE n == CHOOSE n \in chosen : TRUE
  <2>2. c[n] \in EntriesEver
      BY <2>1 DEF Entries, Configs
  <2> QED
      BY <1>1, <2>2, EntryParts DEF Desired
<1>2. CASE chosen = {}
    BY <1>2 DEF Desired
<1> QED
    BY <1>1, <1>2

LEMMA DirsTyped ==
    ASSUME NEW c \in Configs
    PROVE  DirsOf(c) \subseteq Dirs
BY EntryParts DEF DirsOf, Entries, Configs

----------------------------------------------------------------------------
(* Where the goroutines are *)

LEMMA PcHolds ==
    ASSUME TypeOK, [Next]_vars
    PROVE  pc' \in [Proc -> Steps]
<1> USE DEF Goto, Done
<1>0. pc \in [Proc -> Steps]
    BY DEF TypeOK, ControlOK
<1>1. /\ {"idle", "recordV", "clear", "drain", "exit"} \subseteq Steps
      /\ {"wait", "saveSecrets", "prepare", "start", "fbLock", "reconcile", "saveConfig", "mark"} \subseteq Steps
      /\ {"restoreConfig", "unreconcile", "abort", "restoreSecrets", "flags", "activate", "stopOld", "initial"} \subseteq Steps
      /\ {"begin", "fbRLock", "dest", "fetch", "query", "install", "ensure", "markSync", "record"} \subseteq Steps
    BY DEF Steps, ApplySteps, SyncSteps
<1>2. ASSUME NEW p \in Proc, Apply(p) PROVE pc' \in [Proc -> Steps]
  <2>1. CASE Acquire(p) \/ SaveSecrets(p) \/ Prepare(p) \/ StartWatchers(p) \/ LockFallbacks(p)
             \/ Reconcile(p) \/ SaveConfig(p) \/ MarkChanged(p)
      BY <1>0, <1>1, <2>1 DEF Acquire, SaveSecrets, Prepare, StartWatchers, LockFallbacks,
         Reconcile, SaveConfig, MarkChanged, Abandon
  <2>2. CASE RestoreConfig(p) \/ Unreconcile(p) \/ Abort(p) \/ RestoreSecrets(p) \/ ReadFlags(p)
             \/ Activate(p) \/ StopOld(p) \/ InitialSyncs(p)
      BY <1>0, <1>1, <2>2 DEF RestoreConfig, Unreconcile, Abort, StopOld, StopWatchers, Activate,
         RestoreSecrets, ReadFlags, InitialSyncs, Abandon
  <2> QED
      BY <1>2, <2>1, <2>2 DEF Apply
<1>3. ASSUME NEW p \in Proc, Sync(p) PROVE pc' \in [Proc -> Steps]
    BY <1>0, <1>1, <1>3 DEF Sync, Begin, RLockFallbacks, LockDestination, BeginFetch, EndFetch,
         Install, Ensure, MarkSync, Record, Return
<1>4. ASSUME NEW p \in Proc, Other(p) PROVE pc' \in [Proc -> Steps]
    BY <1>0, <1>1, <1>4 DEF Other, RecordValidation, ClearFlags, Drain, StopWatchers, Exit, Shutdown
<1>5. ASSUME NEW p \in Proc, Arrive(p) PROVE pc' \in [Proc -> Steps]
    BY <1>0, <1>1, <1>5 DEF Arrive, Boot, Request, SyncNow, ValidateNow, Tick, Acknowledge, Terminate
<1>6. CASE Crash
    BY <1>1, <1>6 DEF Crash, Shutdown
<1>7. CASE UNCHANGED vars
    BY <1>0, <1>7 DEF vars
<1> QED
    BY <1>2, <1>3, <1>4, <1>5, <1>6, <1>7 DEF Next

----------------------------------------------------------------------------
(* What they work on *)

\* A goroutine that works on an entry has its name, and once it has begun the entry
\* itself; one that waits for applyMu has its request.
Named ==
    \A p \in Proc :
        /\ pc[p] \in SyncSteps \cup {"recordV"} => job[p].name \in Name
        /\ pc[p] \in Started => job[p].cert \in EntriesEver
        /\ pc[p] = "wait" => job[p].req \in Requests

\* The kinds and results of Jobs, and of Returns below.
Kinds == {"none", "apply", "manual", "callback", "initial", "validate", "ack", "terminate"}
Results == {"none", "ok", "invalid", "failed", "unresolved"}

LEMMA IdleTyped == Idle \in Jobs
BY DEF Idle, Jobs

LEMMA JobTyped ==
    ASSUME NEW j \in Jobs
    PROVE  /\ \A k \in Kinds : [j EXCEPT !.kind = k] \in Jobs
           /\ \A n \in Name : [j EXCEPT !.name = n] \in Jobs
           /\ \A g \in Nat : [j EXCEPT !.gen = g] \in Jobs
           /\ \A e \in EntriesEver \cup {None} : [j EXCEPT !.cert = e] \in Jobs
           /\ \A s \in Sources \cup {None} : [j EXCEPT !.keys = s] \in Jobs
           /\ \A r \in Requests : [j EXCEPT !.req = r] \in Jobs
           /\ \A r \in Results : [j EXCEPT !.result = r] \in Jobs
BY DEF Jobs, Kinds, Results

LEMMA WorkTyped ==
    ASSUME NEW k \in Kinds, NEW n \in Name, NEW g \in Nat
    PROVE  [Idle EXCEPT !.kind = k, !.name = n, !.gen = g] \in Jobs
BY DEF Jobs, Kinds, Idle

LEMMA JobHolds ==
    ASSUME TypeOK, Named, [Next]_vars
    PROVE  job' \in [Proc -> Jobs]
<1> DEFINE P == job' \in [Proc -> Jobs]
<1> USE DEF Assign, Result, Done
<1>0. /\ job \in [Proc -> Jobs] /\ staged \in Applies /\ cfg \in Configs /\ secrets \in Keyrings
      /\ gen \in Nat /\ running \subseteq Watches
    BY ManagerAssumption DEF TypeOK, MemoryOK, ControlOK
<1>1. ASSUME NEW p \in Proc, Apply(p) PROVE P
  <2>1. CASE InitialSyncs(p)
    <3>1. CASE Done(p)
        BY <1>0, <3>1, IdleTyped
    <3>2. ASSUME NEW n \in staged.todo,
                 Assign(p, [job[p] EXCEPT !.kind = "initial", !.name = n, !.gen = staged.gen,
                                       !.result = "none"])
          PROVE  P
      <4>1. n \in Name /\ staged.gen \in Nat
          BY <1>0, <3>2 DEF Applies
      <4>2. [job[p] EXCEPT !.kind = "initial", !.name = n, !.gen = staged.gen, !.result = "none"] \in Jobs
          BY <1>0, <4>1 DEF Jobs
      <4> QED
          BY <1>0, <3>2, <4>2
    <3> QED
        BY <2>1, <3>1, <3>2 DEF InitialSyncs
  <2>2. CASE Acquire(p) \/ SaveSecrets(p) \/ Prepare(p) \/ StartWatchers(p) \/ LockFallbacks(p)
             \/ Reconcile(p) \/ SaveConfig(p) \/ MarkChanged(p)
      BY <1>0, <2>2, IdleTyped DEF Acquire, SaveSecrets, Prepare, StartWatchers, LockFallbacks,
         Reconcile, SaveConfig, MarkChanged, Abandon
  <2>3. CASE RestoreConfig(p) \/ Unreconcile(p) \/ Abort(p) \/ RestoreSecrets(p) \/ ReadFlags(p)
             \/ Activate(p) \/ StopOld(p)
      BY <1>0, <2>3, IdleTyped DEF RestoreConfig, Unreconcile, Abort, StopOld, StopWatchers, Activate,
         RestoreSecrets, ReadFlags, Abandon
  <2> QED
      BY <1>1, <2>1, <2>2, <2>3 DEF Apply
<1>2. ASSUME NEW p \in Proc, Return(p) PROVE P
  <2>1. [Idle EXCEPT !.kind = "apply"] \in Jobs
      BY DEF Idle, Jobs
  <2> QED
      BY <1>0, <1>2, <2>1, IdleTyped DEF Return
<1>3. ASSUME NEW p \in Proc, Sync(p) PROVE P
  <2>1. CASE Begin(p)
    <3>1. CASE Current(p)
      <4>1. cfg[job[p].name] \in EntriesEver
          BY <1>0, <2>1, <3>1 DEF Begin, At, Named, SyncSteps, Current, Configs
      <4> QED
          BY <1>0, <2>1, <3>1, <4>1, JobTyped DEF Begin
    <3> QED
        BY <1>2, <2>1, <3>1 DEF Begin
  <2>2. CASE BeginFetch(p)
    <3>1. secrets[job[p].name] \in Sources \cup {None}
        BY <1>0, <2>2 DEF BeginFetch, At, Named, SyncSteps, Keyrings
    <3> QED
        BY <1>0, <1>2, <2>2, <3>1, JobTyped DEF BeginFetch
  <2>3. CASE EndFetch(p) \/ Record(p)
      BY <1>0, <1>2, <2>3 DEF EndFetch, Record
  <2>4. CASE RLockFallbacks(p) \/ LockDestination(p) \/ Install(p) \/ Ensure(p) \/ MarkSync(p)
    <3>1. {"ok", "invalid", "failed", "unresolved"} \subseteq Results
        BY DEF Results
    <3> QED
        BY <1>0, <1>2, <2>4, <3>1, JobTyped DEF RLockFallbacks, LockDestination, Install, Ensure, MarkSync
  <2> QED
      BY <1>3, <2>1, <2>2, <2>3, <2>4 DEF Sync
<1>4. ASSUME NEW p \in Proc, Other(p) PROVE P
    BY <1>0, <1>4, IdleTyped DEF Other, RecordValidation, ClearFlags, Drain, StopWatchers, Exit, Shutdown
<1>5. ASSUME NEW p \in Proc, Arrive(p) PROVE P
  <2>1. {"apply", "manual", "callback", "ack", "terminate", "validate"} \subseteq Kinds
      BY DEF Kinds
  <2>2. CASE Boot(p) \/ Acknowledge(p) \/ Terminate(p)
      BY <1>0, <2>1, <2>2, IdleTyped, JobTyped DEF Boot, Acknowledge, Terminate
  <2>3. ASSUME NEW r \in Requests, Request(p, r) PROVE P
    <3>1. [Idle EXCEPT !.kind = "apply", !.req = r] \in Jobs
        BY DEF Idle, Jobs
    <3> QED
        BY <1>0, <2>3, <3>1 DEF Request
  <2>4. ASSUME NEW n \in Name, SyncNow(p, n) PROVE P
      BY <1>0, <2>1, <2>4, WorkTyped DEF SyncNow
  <2>5. ASSUME NEW n \in Name, ValidateNow(p, n) PROVE P
    <3>1. cfg[n] \in EntriesEver
        BY <1>0, <2>5 DEF ValidateNow, Configs
    <3>2. [Idle EXCEPT !.kind = "validate", !.name = n, !.gen = gen, !.cert = cfg[n]] \in Jobs
        BY <1>0, <3>1 DEF Idle, Jobs
    <3> QED
        BY <1>0, <2>5, <3>2 DEF ValidateNow
  <2>6. ASSUME NEW w \in running, Tick(p, w) PROVE P
    <3>1. w.name \in Name /\ w.gen \in Nat
        BY <1>0 DEF Watches
    <3> QED
        BY <1>0, <2>1, <2>6, <3>1, WorkTyped DEF Tick
  <2> QED
      BY <1>5, <2>2, <2>3, <2>4, <2>5, <2>6 DEF Arrive
<1>6. CASE Crash
    BY <1>6, IdleTyped DEF Crash, Shutdown
<1>7. CASE UNCHANGED vars
    BY <1>0, <1>7 DEF vars
<1> QED
    BY <1>1, <1>3, <1>4, <1>5, <1>6, <1>7 DEF Next

----------------------------------------------------------------------------
(* How a goroutine moves *)

\* applyMu is held by the goroutine that is applying, and by no other.
Held == \A p \in Proc : applyMu = p <=> Applying(p)

\* A goroutine moves nobody but itself.
LEMMA Elsewhere ==
    ASSUME TypeOK, NEW p \in Proc, Apply(p) \/ Sync(p) \/ Other(p) \/ Arrive(p), ~Exit(p),
           NEW q \in Proc, q # p
    PROVE  pc'[q] = pc[q] /\ job'[q] = job[q] /\ stopping'[q] = stopping[q]
<1> USE DEF Goto, Assign, Result, rest
<1>0. job \in [Proc -> Jobs] /\ pc \in [Proc -> Steps] /\ stopping = [r \in Proc |-> stopping[r]]
    BY DEF TypeOK, ControlOK
<1>1. CASE Acquire(p) \/ SaveSecrets(p) \/ Prepare(p) \/ StartWatchers(p) \/ LockFallbacks(p)
             \/ Reconcile(p) \/ SaveConfig(p) \/ MarkChanged(p)
    BY <1>0, <1>1 DEF Acquire, SaveSecrets, Prepare, StartWatchers, LockFallbacks,
       Reconcile, SaveConfig, MarkChanged, Abandon, Done
<1>2. CASE RestoreConfig(p) \/ Unreconcile(p) \/ Abort(p) \/ RestoreSecrets(p) \/ ReadFlags(p)
             \/ Activate(p) \/ StopOld(p) \/ InitialSyncs(p)
    BY <1>0, <1>2 DEF RestoreConfig, Unreconcile, Abort, StopOld, StopWatchers, Activate,
       RestoreSecrets, ReadFlags, Abandon, InitialSyncs, Done
<1>3. CASE Sync(p)
    BY <1>0, <1>3 DEF Sync, Begin, RLockFallbacks, LockDestination, BeginFetch, EndFetch,
         Install, Ensure, MarkSync, Record, Return, Done
<1>4. CASE Other(p)
    BY <1>0, <1>4 DEF Other, RecordValidation, ClearFlags, Drain, StopWatchers, Done
<1>5. CASE Arrive(p)
    BY <1>0, <1>5 DEF Arrive, Boot, Request, SyncNow, ValidateNow, Tick, Acknowledge, Terminate
<1> QED
    BY <1>1, <1>2, <1>3, <1>4, <1>5 DEF Apply

\* What a step of p does to the locations: it takes applyMu, goes on applying or stops,
\* calls an initial sync, proceeds in a synchronization or returns from it, waits to end,
\* starts working, or is main starting the process.
Takes(p) ==
    /\ pc[p] = "wait" /\ pc'[p] = "saveSecrets" /\ applyMu = None /\ applyMu' = p
    /\ job'[p] = job[p]
GoesOn(p) ==
    /\ pc[p] \in Holding /\ pc'[p] \in Holding /\ applyMu' = applyMu
    /\ job'[p] = job[p]
Finishes(p) == pc[p] \in Holding /\ pc'[p] \in {"idle", "exit"} /\ applyMu' = None
Calls(p) ==
    /\ pc[p] = "initial" /\ pc'[p] = "begin" /\ applyMu' = applyMu
    /\ job'[p].kind = "initial" /\ job'[p].name \in Name
Proceeds(p) ==
    /\ pc[p] \in SyncSteps /\ pc'[p] \in Started /\ applyMu' = applyMu
    /\ job'[p].kind = job[p].kind /\ job'[p].name = job[p].name /\ job'[p].gen = job[p].gen
    /\ pc'[p] = "recordV" => job[p].kind = "validate"
    /\ job'[p].cert = IF pc[p] = "begin" THEN cfg[job[p].name] ELSE job[p].cert
    /\ pc[p] = "begin" => Current(p)
Returns(p) ==
    /\ pc[p] \in SyncSteps /\ applyMu' = applyMu
    /\ IF job[p].kind = "initial" THEN pc'[p] = "initial" ELSE pc'[p] = "idle"
Rests(p) ==
    /\ pc[p] \in {"idle", "wait", "recordV", "clear", "drain"} /\ applyMu' = applyMu
    /\ pc'[p] \in {"idle", "clear", "drain", "exit"}
    /\ pc[p] = "idle" => phase # "down"
Works(p) ==
    /\ pc[p] = "idle" /\ pc'[p] \in {"wait", "begin", "fetch", "recordV"} /\ applyMu' = applyMu
    /\ job'[p].kind # "initial"
    /\ IF pc'[p] = "wait" THEN job'[p].req \in Requests
                          ELSE job'[p].name \in Name
    /\ pc'[p] \in {"fetch", "recordV"} => job'[p].cert = cfg[job'[p].name] /\ job'[p].cert # None
Boots(p) == phase = "down" /\ phase' = "boot" /\ pc'[p] = "saveSecrets" /\ applyMu' = p

LEMMA ApplyMoves ==
    ASSUME TypeOK, NEW p \in Proc, Apply(p)
    PROVE  Takes(p) \/ GoesOn(p) \/ Finishes(p) \/ Calls(p) \/ Rests(p)
<1> USE DEF Goto, Assign, At
<1>0. job \in [Proc -> Jobs] /\ pc \in [Proc -> Steps] /\ staged \in Applies
    BY DEF TypeOK, ControlOK
<1>1. CASE Acquire(p)
    BY <1>0, <1>1 DEF Acquire, Done, Takes, Rests
<1>2. CASE InitialSyncs(p)
  <2>1. CASE Done(p) /\ applyMu' = None
      BY <1>0, <1>2, <2>1 DEF InitialSyncs, Done, Finishes, Holding, ApplySteps
  <2>2. ASSUME NEW n \in staged.todo,
               Assign(p, [job[p] EXCEPT !.kind = "initial", !.name = n, !.gen = staged.gen,
                                     !.result = "none"]),
               pc' = [pc EXCEPT ![p] = "begin"], applyMu' = applyMu
        PROVE  Calls(p)
    <3>1. n \in Name
        BY <1>0, <2>2 DEF Applies
    <3> DEFINE j == [job[p] EXCEPT !.kind = "initial", !.name = n, !.gen = staged.gen, !.result = "none"]
    <3>2. j.kind = "initial" /\ j.name = n
        BY <1>0 DEF Jobs
    <3> HIDE DEF j
    <3> QED
        BY <1>0, <1>2, <2>2, <3>1, <3>2 DEF InitialSyncs, Calls, j
  <2> QED
      BY <1>2, <2>1, <2>2 DEF InitialSyncs
<1>3. ASSUME NEW from \in Holding, NEW to \in Holding, StopWatchers(p, from, to)
      PROVE  GoesOn(p)
    BY <1>0, <1>3 DEF StopWatchers, locks, GoesOn
<1>4. CASE SaveSecrets(p) \/ Prepare(p) \/ StartWatchers(p) \/ LockFallbacks(p)
    BY <1>0, <1>4 DEF SaveSecrets, Prepare, StartWatchers, LockFallbacks, Abandon, locks,
       GoesOn, Finishes, Holding, ApplySteps
<1>5. CASE Reconcile(p) \/ SaveConfig(p) \/ MarkChanged(p) \/ RestoreConfig(p)
    BY <1>0, <1>5 DEF Reconcile, SaveConfig, MarkChanged, RestoreConfig, locks,
       GoesOn, Holding, ApplySteps
<1>6. CASE Unreconcile(p) \/ RestoreSecrets(p) \/ ReadFlags(p) \/ Activate(p)
    BY <1>0, <1>6 DEF Unreconcile, RestoreSecrets, ReadFlags, Activate, Abandon, locks,
       GoesOn, Finishes, Holding, ApplySteps
<1>7. CASE Abort(p) \/ StopOld(p)
    BY <1>3, <1>7 DEF Abort, StopOld, Holding, ApplySteps
<1> QED
    BY <1>1, <1>2, <1>4, <1>5, <1>6, <1>7 DEF Apply

LEMMA SyncMoves ==
    ASSUME TypeOK, NEW p \in Proc, Sync(p)
    PROVE  Proceeds(p) \/ Returns(p)
<1> USE DEF Goto, Assign, At
<1>0. job \in [Proc -> Jobs] /\ pc \in [Proc -> Steps]
    BY DEF TypeOK, ControlOK
<1>1. ASSUME pc[p] \in SyncSteps, applyMu' = applyMu, Return(p) PROVE Returns(p)
    BY <1>0, <1>1 DEF Return, Done, Returns
<1>2. CASE Begin(p)
  <2>1. CASE Current(p)
    <3> DEFINE j == [job[p] EXCEPT !.cert = cfg[job[p].name]]
    <3>1. j.kind = job[p].kind /\ j.name = job[p].name /\ j.gen = job[p].gen /\ j.cert = cfg[job[p].name]
        BY <1>0 DEF Jobs
    <3>2. pc[p] = "begin" /\ pc'[p] \in {"fbRLock", "dest"} /\ applyMu' = applyMu /\ job'[p] = j
        BY <1>0, <1>2, <2>1 DEF Begin
    <3> HIDE DEF j
    <3> QED
        BY <2>1, <3>1, <3>2 DEF Proceeds, Started, SyncSteps
  <2>2. CASE ~Current(p)
      BY <1>1, <1>2, <2>2 DEF Begin, SyncSteps
  <2> QED
      BY <2>1, <2>2
<1>3. ASSUME pc[p] \in SyncSteps \ {"begin"}, pc'[p] \in Started \ {"recordV"}, applyMu' = applyMu,
             NEW r, job' = job \/ Result(p, r)
      PROVE  Proceeds(p)
  <2>1. /\ job'[p].kind = job[p].kind /\ job'[p].name = job[p].name
        /\ job'[p].gen = job[p].gen /\ job'[p].cert = job[p].cert
      BY <1>0, <1>3 DEF Jobs, Result
  <2> QED
      BY <1>3, <2>1 DEF Proceeds
<1>4. CASE RLockFallbacks(p) \/ LockDestination(p) \/ Ensure(p) \/ MarkSync(p)
  <2>1. /\ pc[p] \in SyncSteps \ {"begin"} /\ pc'[p] \in Started \ {"recordV"} /\ applyMu' = applyMu
      BY <1>0, <1>4 DEF RLockFallbacks, LockDestination, Ensure, MarkSync, Started, SyncSteps
  <2>2. job' = job \/ Result(p, "unresolved") \/ Result(p, "failed") \/ Result(p, "ok")
      BY <1>4 DEF RLockFallbacks, LockDestination, Ensure, MarkSync
  <2> QED
      BY <1>3, <2>1, <2>2
<1>5. CASE Install(p)
  <2>1. pc[p] = "install" /\ applyMu' = applyMu
      BY <1>5 DEF Install
  <2>2. CASE Return(p)
      BY <1>1, <2>1, <2>2 DEF SyncSteps
  <2>3. CASE ~Return(p)
    <3>1. /\ pc'[p] \in {"ensure", "record"}
          /\ Result(p, "ok") \/ Result(p, "invalid") \/ Result(p, "failed")
        BY <1>0, <1>5, <2>3 DEF Install
    <3> QED
        BY <1>3, <2>1, <3>1 DEF Started, SyncSteps
  <2> QED
      BY <2>2, <2>3
<1>6. CASE BeginFetch(p)
  <2>1. pc[p] = "fetch" /\ applyMu' = applyMu
      BY <1>6 DEF BeginFetch
  <2>2. CASE Return(p)
      BY <1>1, <2>1, <2>2 DEF SyncSteps
  <2>3. CASE ~Return(p)
    <3> DEFINE j == [job[p] EXCEPT !.keys = secrets[job[p].name]]
    <3>1. j.kind = job[p].kind /\ j.name = job[p].name /\ j.gen = job[p].gen /\ j.cert = job[p].cert
        BY <1>0 DEF Jobs
    <3>2. pc'[p] = "query" /\ job'[p] = j
        BY <1>0, <1>6, <2>3 DEF BeginFetch
    <3> HIDE DEF j
    <3> QED
        BY <2>1, <3>1, <3>2 DEF Proceeds, Started, SyncSteps
  <2> QED
      BY <2>2, <2>3
<1>7. CASE EndFetch(p)
  <2>1. pc[p] = "query" /\ applyMu' = applyMu
      BY <1>7 DEF EndFetch
  <2>2. CASE Return(p)
      BY <1>1, <2>1, <2>2 DEF SyncSteps
  <2>3. CASE ~Return(p)
      BY <1>0, <1>7, <2>1, <2>3 DEF EndFetch, Proceeds, Started, SyncSteps
  <2> QED
      BY <2>2, <2>3
<1>8. CASE Record(p)
    BY <1>1, <1>8 DEF Record, SyncSteps
<1> QED
    BY <1>2, <1>4, <1>5, <1>6, <1>7, <1>8 DEF Sync

LEMMA OtherMoves ==
    ASSUME TypeOK, NEW p \in Proc, Other(p), ~Exit(p)
    PROVE  Rests(p)
BY DEF TypeOK, ControlOK, Other, RecordValidation, ClearFlags, Drain, StopWatchers, Done, Goto,
   Assign, At, locks, Rests

LEMMA ArriveMoves ==
    ASSUME TypeOK, NEW p \in Proc, Arrive(p)
    PROVE  Boots(p) \/ Works(p) \/ Rests(p)
<1> USE DEF Goto, Assign, At
<1>0. job \in [Proc -> Jobs] /\ pc \in [Proc -> Steps] /\ running \subseteq Watches
    BY DEF TypeOK, ControlOK
<1>1. CASE Boot(p)
    BY <1>0, <1>1 DEF Boot, Boots
<1>2. ASSUME NEW r \in Requests, Request(p, r) PROVE Works(p)
  <2>1. [Idle EXCEPT !.kind = "apply", !.req = r].req = r /\ [Idle EXCEPT !.kind = "apply", !.req = r].kind = "apply"
      BY DEF Idle
  <2> QED
      BY <1>0, <1>2, <2>1 DEF Request, Works, locks
<1>3. ASSUME NEW k \in {"manual", "callback"}, NEW n \in Name, NEW g, pc[p] = "idle",
             Assign(p, [Idle EXCEPT !.kind = k, !.name = n, !.gen = g]),
             Goto(p, "begin"), applyMu' = applyMu
      PROVE  Works(p)
  <2> DEFINE j == [Idle EXCEPT !.kind = k, !.name = n, !.gen = g]
  <2>1. j.kind = k /\ j.name = n
      BY DEF Idle
  <2> HIDE DEF j
  <2> QED
      BY <1>0, <1>3, <2>1 DEF Works, j
<1>4. ASSUME NEW n \in Name, SyncNow(p, n) PROVE Works(p)
    BY <1>3, <1>4 DEF SyncNow, locks
<1>5. ASSUME NEW w \in running, Tick(p, w) PROVE Works(p)
    BY <1>0, <1>3, <1>5 DEF Tick, locks, Watches
<1>6. ASSUME NEW n \in Name, ValidateNow(p, n) PROVE Works(p)
  <2> DEFINE j == [Idle EXCEPT !.kind = "validate", !.name = n, !.gen = gen, !.cert = cfg[n]]
  <2>1. j.kind = "validate" /\ j.name = n /\ j.cert = cfg[n]
      BY DEF Idle
  <2> HIDE DEF j
  <2>2. job'[p] = j /\ pc[p] = "idle" /\ pc'[p] \in {"fetch", "recordV"} /\ applyMu' = applyMu /\ cfg[n] # None
      BY <1>0, <1>6 DEF ValidateNow, locks, j
  <2> QED
      BY <2>1, <2>2 DEF Works
<1>7. CASE Acknowledge(p) \/ Terminate(p)
    BY <1>0, <1>7 DEF Acknowledge, Terminate, locks, Rests
<1> QED
    BY <1>1, <1>2, <1>4, <1>5, <1>6, <1>7 DEF Arrive

----------------------------------------------------------------------------
(* applyMu is held by the goroutine that applies *)

\* Nothing survives the end of the process, and it starts without a configuration.
Fallow ==
    phase = "down" =>
        /\ running = {} /\ watchers = {} /\ cfg = NoEntries /\ gen = 0
        /\ \A p \in Proc : pc[p] = "idle"

Control == Named /\ Held /\ Fallow

LEMMA FallowIdle ==
    ASSUME Control, phase = "down"
    PROVE  \A p \in Proc : pc[p] = "idle" /\ applyMu # p /\ ~Applying(p)
BY DEF Control, Fallow, Held, Applying, Holding, ApplySteps, SyncSteps

\* A step of one goroutine.
LEMMA MovesHold ==
    ASSUME TypeOK, Control, NEW p \in Proc, Apply(p) \/ Sync(p) \/ Other(p) \/ Arrive(p), ~Exit(p)
    PROVE  Named' /\ Held'
<1>0. /\ applyMu \in Proc \cup {None} /\ cfg \in Configs
      /\ pc[p] \in Steps /\ None \notin Proc
    BY ManagerAssumption DEF TypeOK, LocksOK, ControlOK, MemoryOK
<1>1. \/ Takes(p) \/ GoesOn(p) \/ Finishes(p) \/ Calls(p) \/ Rests(p)
      \/ Proceeds(p) \/ Returns(p) \/ Boots(p) \/ Works(p)
    BY ApplyMoves, SyncMoves, OtherMoves, ArriveMoves
<1>2. \A q \in Proc \ {p} : /\ pc'[q] = pc[q] /\ job'[q] = job[q]
                            /\ Applying(q)' <=> Applying(q)
    BY Elsewhere DEF Applying
<1>3. /\ pc'[p] \in SyncSteps \cup {"recordV"} => job'[p].name \in Name
      /\ pc'[p] \in Started => job'[p].cert \in EntriesEver
      /\ pc'[p] = "wait" => job'[p].req \in Requests
  <2>1. \A n \in Name : cfg[n] # None => cfg[n] \in EntriesEver
      BY <1>0 DEF Configs
  <2>2. CASE Takes(p) \/ GoesOn(p) \/ Finishes(p) \/ Rests(p) \/ Boots(p) \/ Returns(p)
      BY <2>2 DEF Takes, GoesOn, Finishes, Rests, Boots, Returns, Holding, ApplySteps, Started, SyncSteps
  <2>3. CASE Calls(p)
      BY <2>3 DEF Calls, Started, SyncSteps
  <2>4. CASE Proceeds(p)
      BY <2>1, <2>4 DEF Control, Named, Proceeds, Current, Started, SyncSteps
  <2>5. CASE Works(p)
      BY <2>1, <2>5 DEF Works, Started, SyncSteps
  <2> QED
      BY <1>1, <2>2, <2>3, <2>4, <2>5
<1>4. /\ applyMu' = p <=> Applying(p)'
      /\ applyMu' = applyMu \/ (applyMu \in {None, p} /\ applyMu' \in {None, p})
  <2>1. applyMu = p <=> Applying(p)
      BY DEF Control, Held
  <2>2. CASE Takes(p) \/ GoesOn(p) \/ Finishes(p) \/ Calls(p)
      BY <1>0, <2>1, <2>2 DEF Takes, GoesOn, Finishes, Calls, Applying, Holding, ApplySteps, SyncSteps
  <2>3. CASE Rests(p) \/ Works(p)
      BY <1>0, <2>1, <2>3 DEF Rests, Works, Applying, Holding, ApplySteps, SyncSteps
  <2>4. CASE Proceeds(p) \/ Returns(p)
      BY <1>0, <2>1, <2>4 DEF Proceeds, Returns, Applying, Started, Holding, ApplySteps, SyncSteps
  <2>5. CASE Boots(p)
      BY <1>0, <2>5, FallowIdle DEF Boots, Applying, Holding, ApplySteps
  <2> QED
      BY <1>1, <2>2, <2>3, <2>4, <2>5
<1>5. Named'
    BY <1>2, <1>3 DEF Control, Named
<1>6. Held'
    BY <1>0, <1>2, <1>4 DEF Control, Held
<1> QED
    BY <1>5, <1>6

----------------------------------------------------------------------------
(* Phases, memory and locks *)

\* Only main starts a process, and only Shutdown ends it.
LEMMA PhaseMoves ==
    ASSUME TypeOK, Control, NEW p \in Proc, Apply(p) \/ Sync(p) \/ Other(p) \/ Arrive(p), ~Exit(p)
    PROVE  /\ phase' # "down" /\ (phase = "down" => Boot(p))
           /\ phase' # phase => Boot(p) \/ InitialSyncs(p)
<1>1. CASE Boot(p)
    BY <1>1 DEF Boot
<1>2. CASE (Apply(p) /\ phase' = phase) \/ Sync(p) \/ Other(p)
  <2>1. pc[p] # "idle"
      BY <1>2 DEF Apply, Sync, Other, At, Acquire, SaveSecrets, Prepare, StartWatchers, LockFallbacks,
         Reconcile, SaveConfig, MarkChanged, RestoreConfig, Unreconcile, Abort, StopOld,
         StopWatchers, RestoreSecrets, ReadFlags, InitialSyncs, Activate, Begin, RLockFallbacks,
         LockDestination, BeginFetch, EndFetch, Install, Ensure, MarkSync, Record,
         RecordValidation, ClearFlags, Drain, Exit
  <2>2. phase' = phase
      BY <1>2 DEF Sync, Other, Begin, RLockFallbacks, LockDestination, BeginFetch, EndFetch,
         Install, Ensure, MarkSync, Record, RecordValidation, ClearFlags, Drain, StopWatchers, rest
  <2> QED
      BY <2>1, <2>2, FallowIdle
<1>3. CASE Apply(p) /\ phase' # phase
    BY <1>3, FallowIdle DEF Apply, At, Acquire, SaveSecrets, Prepare, StartWatchers, LockFallbacks,
         Reconcile, SaveConfig, MarkChanged, RestoreConfig, Unreconcile, Abort, StopOld,
         StopWatchers, RestoreSecrets, ReadFlags, InitialSyncs, Activate, rest
<1>4. CASE Arrive(p) /\ ~Boot(p)
    BY <1>4 DEF Arrive, Request, SyncNow, ValidateNow, Tick, Acknowledge, Terminate, rest, Control, Fallow
<1> QED
    BY <1>1, <1>2, <1>3, <1>4

LEMMA FallowHolds ==
    ASSUME TypeOK, Control, [Next]_vars
    PROVE  Fallow'
<1>1. CASE Crash \/ \E p \in Proc : Exit(p)
    BY <1>1 DEF Crash, Exit, Shutdown, Fallow
<1>2. CASE UNCHANGED vars
    BY <1>2 DEF vars, memory, rest, Control, Fallow
<1>3. ASSUME NEW p \in Proc, Apply(p) \/ Sync(p) \/ Other(p) \/ Arrive(p), ~Exit(p) PROVE Fallow'
    BY <1>3, PhaseMoves DEF Fallow
<1> QED
    BY <1>1, <1>2, <1>3 DEF Next

LEMMA ControlHolds ==
    ASSUME TypeOK, Control, [Next]_vars
    PROVE  Control'
<1>1. ASSUME Shutdown PROVE Named' /\ Held'
    BY <1>1, ManagerAssumption DEF Shutdown, Named, Held, Applying, Idle, Holding, ApplySteps,
       SyncSteps, Started
<1>2. ASSUME UNCHANGED vars PROVE Named' /\ Held'
    BY <1>2 DEF vars, locks, Control, Named, Held, Applying
<1>3. ASSUME NEW p \in Proc, Apply(p) \/ Sync(p) \/ Other(p) \/ Arrive(p), ~Exit(p)
      PROVE  Named' /\ Held'
    BY <1>3, MovesHold
<1>4. Named' /\ Held'
    BY <1>1, <1>2, <1>3 DEF Next, Crash, Exit
<1> QED
    BY <1>4, FallowHolds DEF Control

\* Nothing is applied beyond the bound on generations.
Bounded ==
    /\ staged.gen <= MaxGen + 1
    /\ \A p \in Proc : pc[p] \in {"saveSecrets", "prepare"} => gen <= MaxGen

LEMMA MemoryHolds ==
    ASSUME TypeOK, Control, Bounded, [Next]_vars
    PROVE  MemoryOK'
<1>0. /\ MemoryOK /\ staged \in Applies /\ job \in [Proc -> Jobs] /\ pc \in [Proc -> Steps]
      /\ diskSecrets \in Keyrings /\ diskPending \subseteq Dirs
    BY DEF TypeOK, ControlOK, FilesOK
<1>1. ASSUME UNCHANGED <<memory, pending, loaded>> PROVE MemoryOK'
    BY <1>0, <1>1 DEF memory, MemoryOK
<1>2. ASSUME Shutdown PROVE MemoryOK'
  <2>1. 0 \in 0..(MaxGen + 1) /\ [n \in Name |-> None] \in Keyrings
      BY ManagerAssumption DEF Keyrings
  <2> QED
      BY <1>2, <2>1, NoEntriesTyped DEF Shutdown, MemoryOK
<1>3. ASSUME UNCHANGED memory, pending' \subseteq Dirs, loaded' \in BOOLEAN PROVE MemoryOK'
    BY <1>0, <1>3 DEF memory, MemoryOK
<1>4. ASSUME NEW p \in Proc, pc[p] \in Started
      PROVE  job[p].cert.dir \in Dirs /\ job[p].cert.source \in Sources /\ job[p].name \in Name
    BY <1>4, EntryParts DEF Control, Named, Started
<1>5. ASSUME NEW p \in Proc, Apply(p) PROVE MemoryOK'
  <2>1. CASE Prepare(p)
      BY <1>0, <1>3, <2>1 DEF Prepare, MemoryOK
  <2>2. CASE MarkChanged(p)
      BY <1>0, <1>3, <2>2 DEF MarkChanged, MarkPending, MarkPendingFails, SavePending,
         SavePendingFails, MemoryOK, Applies
  <2>3. CASE Activate(p)
    <3>1. /\ staged.cand \in Configs /\ staged.secrets \in Keyrings /\ staged.gen \in 0..(MaxGen + 1)
          /\ staged.new \subseteq Watches
        BY <1>0, ManagerAssumption DEF Applies, Bounded
    <3> QED
        BY <1>0, <2>3, <3>1 DEF Activate, MemoryOK, Keyrings
  <2>4. CASE Acquire(p) \/ SaveSecrets(p) \/ StartWatchers(p) \/ LockFallbacks(p)
             \/ Reconcile(p) \/ SaveConfig(p)
      BY <1>1, <2>4 DEF Acquire, SaveSecrets, StartWatchers, LockFallbacks, Reconcile, SaveConfig
  <2>5. CASE RestoreConfig(p) \/ Unreconcile(p) \/ Abort(p) \/ RestoreSecrets(p) \/ ReadFlags(p)
             \/ StopOld(p) \/ InitialSyncs(p)
      BY <1>1, <2>5 DEF RestoreConfig, Unreconcile, Abort, StopOld, StopWatchers,
         RestoreSecrets, ReadFlags, InitialSyncs
  <2> QED
      BY <1>5, <2>1, <2>2, <2>3, <2>4, <2>5 DEF Apply
<1>6. ASSUME NEW p \in Proc, Sync(p) PROVE MemoryOK'
  <2>1. CASE BeginFetch(p) \/ EndFetch(p)
      BY <1>0, <2>1 DEF BeginFetch, EndFetch, MemoryOK, rest
  <2>2. CASE MarkSync(p)
    <3>1. job[p].cert.dir \in Dirs
        BY <1>4, <2>2 DEF MarkSync, At, Started, SyncSteps
    <3> QED
        BY <1>0, <1>3, <2>2, <3>1 DEF MarkSync, MarkPending, MarkPendingFails, SavePending,
           SavePendingFails, MemoryOK
  <2>3. CASE Record(p)
    <3>1. job[p].cert.source \in Sources /\ job[p].name \in Name
        BY <1>4, <2>3 DEF Record, At, Started, SyncSteps
    <3>2. shown' \in Keyrings
        BY <1>0, <2>3, <3>1 DEF Record, MemoryOK, Keyrings
    <3>3. flag' \in [Name -> BOOLEAN]
        BY <1>0, <2>3, <3>1 DEF Record, MemoryOK
    <3> QED
        BY <1>0, <2>3, <3>2, <3>3 DEF Record, MemoryOK, rest
  <2>4. CASE Begin(p) \/ RLockFallbacks(p) \/ LockDestination(p) \/ Install(p) \/ Ensure(p)
      BY <1>1, <2>4 DEF Begin, RLockFallbacks, LockDestination, Install, Ensure, rest
  <2> QED
      BY <1>6, <2>1, <2>2, <2>3, <2>4 DEF Sync
<1>7. ASSUME NEW p \in Proc, Other(p) PROVE MemoryOK'
  <2>1. CASE RecordValidation(p)
    <3>1. job[p].cert.source \in Sources /\ job[p].name \in Name
        BY <1>4, <2>1 DEF RecordValidation, At, Started
    <3>2. shown' \in Keyrings
        BY <1>0, <2>1, <3>1 DEF RecordValidation, MemoryOK, Keyrings
    <3> QED
        BY <1>0, <2>1, <3>2 DEF RecordValidation, MemoryOK, rest
  <2>2. CASE ClearFlags(p)
      BY <1>0, <2>2 DEF ClearFlags, MemoryOK, rest
  <2>3. CASE Drain(p) \/ Exit(p)
      BY <1>1, <1>2, <2>3 DEF Drain, StopWatchers, Exit
  <2> QED
      BY <1>7, <2>1, <2>2, <2>3 DEF Other
<1>8. ASSUME NEW p \in Proc, Arrive(p) PROVE MemoryOK'
  <2>1. CASE Boot(p)
      BY <1>0, <2>1 DEF Boot, MemoryOK
  <2>2. CASE Acknowledge(p)
      BY <1>0, <1>3, <2>2 DEF Acknowledge, SavePending, SavePendingFails, MemoryOK
  <2>3. CASE Terminate(p)
      BY <1>0, <2>3, ManagerAssumption DEF Terminate, MemoryOK
  <2>4. CASE ~Boot(p) /\ ~Acknowledge(p) /\ ~Terminate(p)
      BY <1>1, <1>8, <2>4 DEF Arrive, Request, SyncNow, ValidateNow, Tick, rest
  <2> QED
      BY <2>1, <2>2, <2>3, <2>4
<1> QED
    BY <1>1, <1>2, <1>5, <1>6, <1>7, <1>8 DEF Next, Crash, vars, rest

----------------------------------------------------------------------------
(* Locks and the apply *)

LEMMA LocksHold ==
    ASSUME TypeOK, Control, [Next]_vars
    PROVE  LocksOK'
<1>0. /\ LocksOK /\ job \in [Proc -> Jobs] /\ None \notin Proc
    BY ManagerAssumption DEF TypeOK, ControlOK
<1>1. ASSUME UNCHANGED locks PROVE LocksOK'
    BY <1>0, <1>1 DEF locks, LocksOK
<1>2. ASSUME Shutdown PROVE LocksOK'
    BY <1>0, <1>2 DEF Shutdown, LocksOK
<1>3. ASSUME NEW p \in Proc, Apply(p) PROVE LocksOK'
  <2>1. CASE Acquire(p) \/ SaveSecrets(p) \/ Prepare(p) \/ StartWatchers(p) \/ LockFallbacks(p)
             \/ Reconcile(p) \/ SaveConfig(p) \/ MarkChanged(p)
      BY <1>0, <1>1, <2>1 DEF Acquire, SaveSecrets, Prepare, StartWatchers, LockFallbacks,
         Reconcile, SaveConfig, MarkChanged, Abandon, LocksOK
  <2>2. CASE RestoreConfig(p) \/ Unreconcile(p) \/ Abort(p) \/ RestoreSecrets(p) \/ ReadFlags(p)
             \/ Activate(p) \/ StopOld(p) \/ InitialSyncs(p)
      BY <1>0, <1>1, <2>2 DEF RestoreConfig, Unreconcile, Abort, StopOld, StopWatchers, Activate,
         RestoreSecrets, ReadFlags, InitialSyncs, Abandon, LocksOK
  <2> QED
      BY <1>3, <2>1, <2>2 DEF Apply
<1>4. ASSUME NEW p \in Proc, Return(p), UNCHANGED <<applyMu, fbWriter, reading>> PROVE LocksOK'
    BY <1>0, <1>4 DEF Return, LocksOK
<1>5. ASSUME NEW p \in Proc, Sync(p) PROVE LocksOK'
  <2>1. CASE Begin(p) \/ BeginFetch(p) \/ EndFetch(p) \/ Record(p)
      BY <1>0, <1>4, <2>1 DEF Begin, BeginFetch, EndFetch, Record, LocksOK
  <2>2. CASE RLockFallbacks(p) \/ Install(p) \/ Ensure(p) \/ MarkSync(p)
      BY <1>0, <1>4, <2>2 DEF RLockFallbacks, Install, Ensure, MarkSync, LocksOK
  <2>3. CASE LockDestination(p)
      BY <1>0, <2>3 DEF LockDestination, LocksOK
  <2> QED
      BY <1>5, <2>1, <2>2, <2>3 DEF Sync
<1>6. ASSUME NEW p \in Proc, Other(p) PROVE LocksOK'
    BY <1>1, <1>2, <1>6 DEF Other, RecordValidation, ClearFlags, Drain, StopWatchers, Exit
<1>7. ASSUME NEW p \in Proc, Arrive(p) PROVE LocksOK'
    BY <1>0, <1>1, <1>7 DEF Arrive, Boot, Request, SyncNow, ValidateNow, Tick, Acknowledge, Terminate, LocksOK
<1> QED
    BY <1>1, <1>2, <1>3, <1>5, <1>6, <1>7 DEF Next, Crash, vars

\* The locals of an apply.
LEMMA NoApplyTyped == NoApply \in Applies /\ NoApply.gen = 0
BY NoEntriesTyped DEF NoApply, Applies

LEMMA StagedHolds ==
    ASSUME TypeOK, Control, Bounded, [Next]_vars
    PROVE  staged' \in Applies /\ staged'.gen <= MaxGen + 1
<1> DEFINE G == staged' \in Applies /\ staged'.gen <= MaxGen + 1
<1>0. /\ staged \in Applies /\ job \in [Proc -> Jobs] /\ cfg \in Configs /\ secrets \in Keyrings
      /\ fallbackFile \in Fallbacks /\ diskCfg \in Configs /\ diskSecrets \in Keyrings
      /\ gen \in Nat /\ staged.gen <= MaxGen + 1 /\ MaxGen \in Nat /\ pc \in [Proc -> Steps]
    BY ManagerAssumption DEF TypeOK, MemoryOK, ControlOK, FilesOK, Bounded
<1>1. ASSUME staged' = staged PROVE G
    BY <1>0, <1>1
<1>2. ASSUME staged' = NoApply PROVE G
    BY <1>0, <1>2, NoApplyTyped
<1>3. ASSUME NEW c \in Configs, NEW k \in Keyrings,
             staged' = [NoApply EXCEPT !.cand = c, !.secrets = k]
      PROVE  G
  <2>1. staged' = [cand |-> c, secrets |-> k, gen |-> 0, new |-> {}, changed |-> {}, flags |-> {},
                   dirs |-> {}, todo |-> {}, before |-> None]
      BY <1>3 DEF NoApply
  <2> QED
      BY <1>0, <2>1 DEF Applies
<1>4. /\ DirsOf(cfg) \cup DirsOf(staged.cand) \in SUBSET Dirs
      /\ staged.dirs \in SUBSET Dirs /\ staged.changed \in SUBSET Dirs /\ staged.todo \in SUBSET Name
    BY <1>0, DirsTyped DEF Applies
<1>5. ASSUME NEW p \in Proc, Apply(p) PROVE G
  <2>1. CASE Acquire(p)
    <3>1. CASE UNCHANGED staged
        BY <1>1, <3>1
    <3>2. CASE ~UNCHANGED staged
      <4>1. job[p].req \in Requests
          BY <2>1 DEF Acquire, At, Control, Named
      <4> DEFINE c == Candidate(cfg, job[p].req)
                 k == Prune(c, Rekey(secrets, job[p].req))
      <4>2. c \in Configs /\ k \in Keyrings
          BY <1>0, <4>1, CandidateTyped, RekeyTyped, PruneTyped
      <4>3. staged' = [NoApply EXCEPT !.cand = c, !.secrets = k]
          BY <2>1, <3>2 DEF Acquire
      <4> HIDE DEF c, k
      <4> QED
          BY <1>3, <4>2, <4>3
    <3> QED
        BY <3>1, <3>2
  <2>2. CASE SaveSecrets(p) \/ MarkChanged(p) \/ Abort(p) \/ RestoreSecrets(p) \/ StopOld(p)
      BY <1>1, <1>2, <2>2 DEF SaveSecrets, MarkChanged, Abort, RestoreSecrets, StopOld, StopWatchers, Abandon
  <2>3. CASE Prepare(p)
    <3>1. pc[p] \in {"saveSecrets", "prepare"} /\ gen <= MaxGen
        BY <2>3 DEF Prepare, At, Bounded
    <3> QED
        BY <1>0, <1>1, <2>3, <3>1 DEF Applies, Prepare
  <2>4. CASE StartWatchers(p)
    <3> DEFINE auto == {n \in Entries(staged.cand) : staged.cand[n].enabled /\ staged.cand[n].auto}
               new  == {Watcher(n, staged.gen, staged.cand[n].remote) : n \in auto}
    <3>1. \A n \in auto : n \in Name /\ staged.cand[n] \in EntriesEver
        BY <1>0 DEF Entries, Configs, Applies
    <3>2. \A n \in auto : Watcher(n, staged.gen, staged.cand[n].remote) \in Watches
        BY <1>0, <3>1, EntryParts DEF Watcher, Watches, Applies
    <3>3. new \in SUBSET Watches
        BY <3>2
    <3>4. staged' = staged \/ staged' = [staged EXCEPT !.new = new]
        BY <2>4 DEF StartWatchers
    <3> HIDE DEF new
    <3> QED
        BY <1>0, <1>1, <3>3, <3>4 DEF Applies
  <2>5. CASE LockFallbacks(p) \/ SaveConfig(p) \/ RestoreConfig(p)
      BY <1>0, <1>1, <1>4, <2>5 DEF Applies, LockFallbacks, SaveConfig, RestoreConfig
  <2>6. CASE Reconcile(p)
    <3>1. CASE staged' = staged
        BY <1>1, <3>1
    <3>2. CASE staged' = [staged EXCEPT !.dirs = DirsOf(cfg) \cup DirsOf(staged.cand)]
        BY <1>0, <1>4, <3>2 DEF Applies
    <3>3. ASSUME NEW d \in staged.dirs, NEW changed \in BOOLEAN,
                 staged' = [staged EXCEPT !.dirs = @ \ {d},
                                          !.changed = IF changed THEN @ \cup {d} ELSE @]
          PROVE  G
      <4> DEFINE a == staged.dirs \ {d}
                 b == IF changed THEN staged.changed \cup {d} ELSE staged.changed
      <4>1. a \in SUBSET Dirs /\ b \in SUBSET Dirs
          BY <1>4
      <4>2. staged' = [staged EXCEPT !.dirs = a, !.changed = b]
          BY <3>3
      <4> HIDE DEF a, b
      <4> QED
          BY <1>0, <4>1, <4>2 DEF Applies
    <3> QED
        BY <2>6, <3>1, <3>2, <3>3 DEF Reconcile
  <2>7. CASE Unreconcile(p)
    <3>1. CASE staged' = staged
        BY <1>1, <3>1
    <3>2. CASE \E d \in staged.dirs, failed \in BOOLEAN :
                  staged' = [staged EXCEPT !.dirs = IF failed THEN {} ELSE @ \ {d}]
        BY <1>0, <1>4, <3>2 DEF Applies
    <3> QED
        BY <2>7, <3>1, <3>2 DEF Unreconcile
  <2>8. CASE ReadFlags(p) \/ Activate(p)
    <3>2. PICK f \in SUBSET Name : staged' = [staged EXCEPT !.flags = f] \/ staged' = [staged EXCEPT !.todo = f]
      <4>1. CASE ReadFlags(p)
        <5>1. {n \in Entries(staged.cand) : staged.cand[n].fallback /\ staged.cand[n].dir \in pending} \in SUBSET Name
            BY DEF Entries
        <5> QED
            BY <4>1, <5>1 DEF ReadFlags
      <4>2. CASE Activate(p)
        <5>1. {n \in Entries(staged.cand) : staged.cand[n].enabled} \in SUBSET Name
            BY DEF Entries
        <5> QED
            BY <4>2, <5>1 DEF Activate
      <4> QED
          BY <2>8, <4>1, <4>2
    <3> QED
        BY <1>0, <3>2 DEF Applies
  <2>9. CASE InitialSyncs(p)
      BY <1>0, <1>2, <1>4, <2>9 DEF Applies, InitialSyncs
  <2> QED
      BY <1>5, <2>1, <2>2, <2>3, <2>4, <2>5, <2>6, <2>7, <2>8, <2>9 DEF Apply
<1>6. ASSUME NEW p \in Proc, Sync(p) PROVE G
    BY <1>1, <1>6 DEF Sync, Begin, RLockFallbacks, LockDestination, BeginFetch, EndFetch,
       Install, Ensure, MarkSync, Record, rest
<1>7. ASSUME NEW p \in Proc, Other(p) PROVE G
    BY <1>1, <1>2, <1>7 DEF Other, RecordValidation, ClearFlags, Drain, StopWatchers, Exit, Shutdown, rest
<1>8. ASSUME NEW p \in Proc, Arrive(p) PROVE G
  <2>1. CASE Boot(p)
    <3>1. Prune(diskCfg, diskSecrets) \in Keyrings
        BY <1>0, PruneTyped
    <3> QED
        BY <1>0, <1>3, <2>1, <3>1 DEF Boot
  <2>2. CASE ~Boot(p)
      BY <1>1, <1>8, <2>2 DEF Arrive, Request, SyncNow, ValidateNow, Tick, Acknowledge, Terminate, rest
  <2> QED
      BY <2>1, <2>2
<1>9. CASE Crash
    BY <1>2, <1>9 DEF Crash, Shutdown
<1>10. CASE UNCHANGED vars
    BY <1>1, <1>10 DEF vars, rest
<1> QED
    BY <1>5, <1>6, <1>7, <1>8, <1>9, <1>10 DEF Next

----------------------------------------------------------------------------
(* Watchers, and what nobody else disturbs *)

LEMMA WatchesHold ==
    ASSUME TypeOK, Control, Bounded, [Next]_vars
    PROVE  running' \subseteq Watches /\ stopping' \in [Proc -> SUBSET Watches]
<1> DEFINE G == running' \subseteq Watches /\ stopping' \in [Proc -> SUBSET Watches]
<1>0. /\ running \subseteq Watches /\ stopping \in [Proc -> SUBSET Watches]
      /\ watchers \subseteq Watches /\ staged \in Applies
    BY DEF TypeOK, MemoryOK, ControlOK
<1>1. ASSUME UNCHANGED <<running, stopping>> PROVE G
    BY <1>0, <1>1
<1>2. ASSUME Shutdown PROVE G
    BY <1>2 DEF Shutdown
<1>3. ASSUME NEW p \in Proc, NEW from, NEW to, StopWatchers(p, from, to) PROVE G
    BY <1>0, <1>3 DEF StopWatchers
<1>4. ASSUME NEW p \in Proc, NEW s \in SUBSET Watches, stopping' \in {stopping, [stopping EXCEPT ![p] = s]},
             running' = running
      PROVE  G
    BY <1>0, <1>4
<1>5. ASSUME NEW p \in Proc, Apply(p) PROVE G
  <2>1. CASE StartWatchers(p)
    <3> DEFINE auto == {n \in Entries(staged.cand) : staged.cand[n].enabled /\ staged.cand[n].auto}
               new  == {Watcher(n, staged.gen, staged.cand[n].remote) : n \in auto}
    <3>1. \A n \in auto : n \in Name /\ staged.cand[n] \in EntriesEver
        BY <1>0 DEF Entries, Configs, Applies
    <3>2. \A n \in auto : Watcher(n, staged.gen, staged.cand[n].remote) \in Watches
        BY <1>0, <3>1, EntryParts DEF Watcher, Watches, Applies
    <3>3. new \in SUBSET Watches
        BY <3>2
    <3>4. /\ \E started \in SUBSET new : running' = running \cup started
          /\ stopping' \in {stopping, [stopping EXCEPT ![p] = new]}
        BY <2>1 DEF StartWatchers
    <3> HIDE DEF new
    <3> QED
        BY <1>0, <3>3, <3>4
  <2>2. CASE Unreconcile(p)
      BY <1>0, <1>4, <2>2 DEF Unreconcile, Applies
  <2>3. CASE Activate(p)
      BY <1>0, <1>4, <2>3 DEF Activate
  <2>4. CASE Abort(p) \/ StopOld(p)
      BY <1>3, <2>4 DEF Abort, StopOld
  <2>5. CASE Acquire(p) \/ SaveSecrets(p) \/ Prepare(p) \/ LockFallbacks(p) \/ Reconcile(p)
             \/ SaveConfig(p) \/ MarkChanged(p)
      BY <1>1, <2>5 DEF Acquire, SaveSecrets, Prepare, LockFallbacks, Reconcile, SaveConfig, MarkChanged
  <2>6. CASE RestoreConfig(p) \/ RestoreSecrets(p) \/ ReadFlags(p) \/ InitialSyncs(p)
      BY <1>1, <2>6 DEF RestoreConfig, RestoreSecrets, ReadFlags, InitialSyncs
  <2> QED
      BY <1>5, <2>1, <2>2, <2>3, <2>4, <2>5, <2>6 DEF Apply
<1>6. ASSUME NEW p \in Proc, Sync(p) PROVE G
    BY <1>1, <1>6 DEF Sync, Begin, RLockFallbacks, LockDestination, BeginFetch, EndFetch,
       Install, Ensure, MarkSync, Record, rest
<1>7. ASSUME NEW p \in Proc, Other(p) PROVE G
    BY <1>1, <1>2, <1>3, <1>7 DEF Other, RecordValidation, ClearFlags, Drain, Exit, rest
<1>8. ASSUME NEW p \in Proc, Arrive(p) PROVE G
  <2>1. CASE Terminate(p)
      BY <1>0, <1>4, <2>1 DEF Terminate
  <2>2. CASE ~Terminate(p)
      BY <1>1, <1>8, <2>2 DEF Arrive, Boot, Request, SyncNow, ValidateNow, Tick, Acknowledge, rest
  <2> QED
      BY <2>1, <2>2
<1> QED
    BY <1>1, <1>2, <1>5, <1>6, <1>7, <1>8 DEF Next, Crash, vars, rest

\* A fault is counted.
LEMMA Counted ==
    ASSUME FilesOK
    PROVE  /\ Ok => faults' \in 0..MaxFaults
           /\ \A op : Fail(op) => faults' \in 0..MaxFaults
BY ManagerAssumption DEF Ok, Fail, FilesOK

\* Changing fallback.json of a directory, and saving the pending directories.
LEMMA EnsureTyped ==
    ASSUME FilesOK, NEW d \in Dirs, NEW t \in Targets \cup {None}, NEW changed, NEW failed,
           EnsureFallback(d, t, changed, failed)
    PROVE  fallbackFile' \in Fallbacks /\ faults' \in 0..MaxFaults
<1>1. fallbackFile' \in Fallbacks
    BY DEF EnsureFallback, FilesOK, Fallbacks, Targets
<1>2. faults' \in 0..MaxFaults
    BY Counted DEF EnsureFallback
<1> QED
    BY <1>1, <1>2

LEMMA PendingTyped ==
    ASSUME FilesOK, NEW dirs \in SUBSET Dirs, SavePending(dirs) \/ SavePendingFails(dirs)
    PROVE  diskPending' \subseteq Dirs /\ faults' \in 0..MaxFaults
<1>1. diskPending' \subseteq Dirs
    BY DEF SavePending, SavePendingFails, FilesOK
<1>2. faults' \in 0..MaxFaults
    BY Counted DEF SavePending, SavePendingFails
<1> QED
    BY <1>1, <1>2

\* An apply is disturbed by nobody.
held == <<staged, cfg, secrets, diskCfg, diskSecrets, applyMu, fbWriter, torn, phase>>

LEMMA ApplyAlone ==
    ASSUME TypeOK, Control, NEW p \in Proc, Apply(p)
    PROVE  (Acquire(p) /\ applyMu = None) \/ applyMu = p
<1>1. CASE Acquire(p)
    BY <1>1 DEF Acquire
<1>2. CASE ~Acquire(p)
  <2>1. pc[p] \in Holding
      BY <1>2 DEF Apply, At, SaveSecrets, Prepare, StartWatchers, LockFallbacks,
         Reconcile, SaveConfig, MarkChanged, RestoreConfig, Unreconcile, Abort, StopOld,
         StopWatchers, RestoreSecrets, ReadFlags, InitialSyncs, Activate, Holding, ApplySteps
  <2> QED
      BY <2>1 DEF Control, Held, Applying
<1> QED
    BY <1>1, <1>2

\* What is not a step of an apply leaves its state alone.
LEMMA OthersLeave ==
    ASSUME NEW p \in Proc, Sync(p) \/ Other(p) \/ Arrive(p), ~Exit(p), ~Boot(p)
    PROVE  UNCHANGED held
<1>1. CASE Sync(p)
    BY <1>1 DEF held, Sync, Begin, RLockFallbacks, LockDestination, BeginFetch, EndFetch,
       Install, Ensure, MarkSync, Record, memory, files, rest
<1>2. CASE Other(p)
    BY <1>2 DEF held, Other, RecordValidation, ClearFlags, Drain, StopWatchers, memory, locks, files, rest
<1>3. CASE Arrive(p)
    BY <1>3 DEF held, Arrive, Request, SyncNow, ValidateNow, Tick, Acknowledge, Terminate,
       memory, locks, files, rest
<1> QED
    BY <1>1, <1>2, <1>3

LEMMA Undisturbed ==
    ASSUME TypeOK, Control, NEW p \in Proc, Apply(p) \/ Sync(p) \/ Other(p) \/ Arrive(p), ~Exit(p),
           NEW q \in Proc, q # p, Applying(q)
    PROVE  UNCHANGED held
<1>1. applyMu = q /\ q # None
    BY ManagerAssumption DEF Control, Held
<1>2. ~Apply(p)
    BY <1>1, ApplyAlone
<1>3. ~Boot(p)
    BY FallowIdle DEF Boot
<1> QED
    BY <1>2, <1>3, OthersLeave

\* fallbackApplyMu is held from LockFallbacks to the end of the apply's changes, and
\* what fallback.json was before is known as long.
Writing == {"reconcile", "saveConfig", "mark", "flags", "activate", "restoreConfig", "unreconcile"}
Writer ==
    \A p \in Proc : /\ fbWriter = p <=> pc[p] \in Writing
                    /\ pc[p] \in Writing => staged.before \in Fallbacks

LEMMA SettledTyped ==
    ASSUME TypeOK, Writer
    PROVE  Settled \in Fallbacks
BY DEF TypeOK, LocksOK, FilesOK, Writer, Settled

LEMMA WriterHolds ==
    ASSUME TypeOK, Control, Writer, [Next]_vars
    PROVE  Writer'
<1>0. /\ pc \in [Proc -> Steps] /\ staged \in Applies /\ fallbackFile \in Fallbacks /\ None \notin Proc
      /\ fbWriter \in Proc \cup {None}
    BY ManagerAssumption DEF TypeOK, LocksOK, ControlOK, FilesOK
<1>1. ASSUME Shutdown PROVE Writer'
    BY <1>0, <1>1 DEF Shutdown, Writer, Writing
<1>2. CASE UNCHANGED vars
    BY <1>2 DEF vars, locks, rest, Writer
<1>3. ASSUME NEW p \in Proc, Apply(p) \/ Sync(p) \/ Other(p) \/ Arrive(p), ~Exit(p),
             fbWriter' = p <=> pc'[p] \in Writing,
             pc'[p] \in Writing => staged'.before \in Fallbacks,
             fbWriter' # fbWriter => {fbWriter, fbWriter'} = {None, p}
      PROVE  Writer'
  <2>1. ASSUME NEW q \in Proc, q # p
        PROVE  /\ fbWriter' = q <=> pc'[q] \in Writing
               /\ pc'[q] \in Writing => staged'.before \in Fallbacks
    <3>1. pc'[q] = pc[q]
        BY <1>3, <2>1, Elsewhere
    <3>2. pc[q] \in Writing => UNCHANGED held
        BY <1>3, <2>1, Undisturbed DEF Writing, Applying, Holding, ApplySteps
    <3> QED
        BY <1>0, <1>3, <2>1, <3>1, <3>2 DEF Writer, held
  <2> QED
      BY <1>3, <2>1 DEF Writer
<1>4. ASSUME NEW p \in Proc, Apply(p) PROVE Writer'
  <2> USE DEF Goto, At, Writing
  <2>0. ~Exit(p)
      BY <1>4, ApplyMoves DEF Exit, Takes, GoesOn, Finishes, Calls, Rests, Holding, ApplySteps
  <2>1. CASE LockFallbacks(p)
      BY <1>0, <1>3, <1>4, <2>0, <2>1 DEF LockFallbacks, Applies, Writer
  <2>2. CASE Reconcile(p) \/ SaveConfig(p) \/ MarkChanged(p) \/ RestoreConfig(p)
    <3>1. /\ pc[p] \in Writing /\ pc'[p] \in Writing /\ fbWriter' = fbWriter
        BY <1>0, <2>2 DEF Reconcile, SaveConfig, MarkChanged, RestoreConfig, locks
    <3>2. staged'.before = staged.before
        BY <1>0, <2>2 DEF Reconcile, SaveConfig, MarkChanged, RestoreConfig, Applies
    <3> QED
        BY <1>3, <1>4, <2>0, <3>1, <3>2 DEF Writer
  <2>3. CASE Unreconcile(p) \/ ReadFlags(p) \/ Activate(p)
    <3>1. /\ pc[p] \in Writing
          /\ \/ pc'[p] \in Writing /\ fbWriter' = fbWriter
             \/ pc'[p] \notin Writing /\ fbWriter' = None
        BY <1>0, <2>3 DEF Unreconcile, ReadFlags, Activate, locks
    <3>2. staged'.before = staged.before
        BY <1>0, <2>3 DEF Unreconcile, ReadFlags, Activate, Applies
    <3> QED
        BY <1>0, <1>3, <1>4, <2>0, <3>1, <3>2 DEF Writer
  <2>4. CASE Acquire(p) \/ SaveSecrets(p) \/ Prepare(p) \/ StartWatchers(p)
    <3>1. /\ pc[p] \notin Writing /\ pc'[p] \notin Writing /\ fbWriter' = fbWriter
        BY <1>0, <2>4 DEF Acquire, SaveSecrets, Prepare, StartWatchers, Abandon, Done, locks
    <3> QED
        BY <1>3, <1>4, <2>0, <3>1 DEF Writer
  <2>5. CASE Abort(p) \/ StopOld(p) \/ RestoreSecrets(p) \/ InitialSyncs(p)
    <3>1. /\ pc[p] \notin Writing /\ pc'[p] \notin Writing /\ fbWriter' = fbWriter
        BY <1>0, <2>5 DEF Abort, StopOld, StopWatchers, RestoreSecrets, InitialSyncs, Abandon, Done, locks
    <3> QED
        BY <1>3, <1>4, <2>0, <3>1 DEF Writer
  <2> QED
      BY <1>4, <2>1, <2>2, <2>3, <2>4, <2>5 DEF Apply
<1>5. ASSUME NEW p \in Proc, Sync(p) \/ Other(p) \/ Arrive(p), ~Exit(p) PROVE Writer'
  <2>1. fbWriter' = fbWriter
      BY <1>5, OthersLeave DEF held, Boot
  <2>2. pc[p] \notin Writing /\ pc'[p] \notin Writing
    <3>1. Proceeds(p) \/ Returns(p) \/ Rests(p) \/ Works(p) \/ Boots(p)
        BY <1>5, SyncMoves, OtherMoves, ArriveMoves
    <3>2. Boots(p) => pc[p] = "idle"
        BY FallowIdle DEF Boots
    <3> QED
        BY <3>1, <3>2 DEF Proceeds, Returns, Rests, Works, Boots, Writing, Started, SyncSteps
  <2> QED
      BY <1>3, <1>5, <2>1, <2>2 DEF Writer
<1> QED
    BY <1>1, <1>2, <1>4, <1>5 DEF Next, Crash, Exit

----------------------------------------------------------------------------
(* Files, and the types of the whole state *)

LEMMA FilesHold ==
    ASSUME TypeOK, Control, Writer, [Next]_vars
    PROVE  FilesOK'
<1>0. /\ FilesOK /\ staged \in Applies /\ cfg \in Configs /\ secrets \in Keyrings
      /\ pending \subseteq Dirs /\ MaxFaults \in Nat /\ MaxCrashes \in Nat
    BY ManagerAssumption DEF TypeOK, MemoryOK, ControlOK
<1>1. ASSUME UNCHANGED <<files, acked, torn, faults, crashes>> PROVE FilesOK'
    BY <1>0, <1>1 DEF files, FilesOK
<1>2. ASSUME Shutdown, crashes' \in 0..MaxCrashes PROVE FilesOK'
    BY <1>0, <1>2 DEF Shutdown, files, FilesOK
<1>3. ASSUME UNCHANGED <<files, acked, torn, crashes>>, faults' \in 0..MaxFaults PROVE FilesOK'
    BY <1>0, <1>3 DEF files, FilesOK
<1>4. ASSUME NEW p \in Proc, pc[p] \in Started
      PROVE  /\ job[p].cert.dir \in Dirs /\ job[p].cert.source \in Sources
             /\ job[p].cert.target \in Targets /\ Dest(job[p].cert) \in Destinations
    BY <1>4, EntryParts DEF Control, Named, Started
<1>5. /\ Ok => faults' \in 0..MaxFaults
      /\ \A op : Fail(op) => faults' \in 0..MaxFaults
    BY <1>0, Counted
<1>6. ASSUME UNCHANGED <<diskCfg, diskSecrets, fallbackFile, destFile, torn, crashes>>, acked' \in Fallbacks,
             NEW dirs \in SUBSET Dirs, SavePending(dirs) \/ SavePendingFails(dirs)
      PROVE  FilesOK'
    BY <1>0, <1>6, PendingTyped DEF FilesOK
<1>7. staged.dirs \in SUBSET Dirs /\ staged.changed \in SUBSET Dirs /\ staged.cand \in Configs
      /\ staged.secrets \in Keyrings
    BY <1>0 DEF Applies
<1>8. ASSUME NEW p \in Proc, Apply(p) PROVE FilesOK'
  <2>1. CASE SaveSecrets(p) \/ RestoreSecrets(p)
      BY <1>0, <1>5, <1>7, <2>1 DEF SaveSecrets, RestoreSecrets, SaveFails, FilesOK
  <2>2. CASE SaveConfig(p) \/ RestoreConfig(p)
      BY <1>0, <1>5, <1>7, <2>2 DEF SaveConfig, RestoreConfig, SaveFails, FilesOK
  <2>3. CASE MarkChanged(p)
    <3>1. pending \cup staged.changed \in SUBSET Dirs
        BY <1>0, <1>7
    <3>2. acked' \in Fallbacks
        BY <1>0, <2>3 DEF MarkChanged, FilesOK
    <3> QED
        BY <1>1, <1>3, <1>5, <1>6, <2>3, <3>1, <3>2 DEF MarkChanged, MarkPending, MarkPendingFails, files
  <2>4. CASE Reconcile(p)
    <3>1. CASE fallbackFile' = fallbackFile /\ Ok
        BY <1>0, <1>5, <2>4, <3>1 DEF Reconcile, FilesOK
    <3>2. ASSUME NEW d \in staged.dirs, NEW changed \in BOOLEAN, NEW failed \in BOOLEAN,
                 EnsureFallback(d, Desired(staged.cand, d), changed, failed)
          PROVE  FilesOK'
      <4>1. d \in Dirs /\ Desired(staged.cand, d) \in Targets \cup {None}
          BY <1>7, DesiredTyped
      <4>2. fallbackFile' \in Fallbacks /\ faults' \in 0..MaxFaults
          BY <1>0, <3>2, <4>1, EnsureTyped
      <4> QED
          BY <1>0, <2>4, <4>2 DEF Reconcile, FilesOK
    <3> QED
        BY <2>4, <3>1, <3>2 DEF Reconcile
  <2>5. CASE Unreconcile(p)
    <3>1. torn' \in BOOLEAN
        BY <1>0, <2>5 DEF Unreconcile, FilesOK
    <3>2. CASE fallbackFile' = fallbackFile /\ Ok
        BY <1>0, <1>5, <2>5, <3>1, <3>2 DEF Unreconcile, FilesOK
    <3>3. ASSUME NEW d \in staged.dirs, NEW changed \in BOOLEAN, NEW failed \in BOOLEAN,
                 EnsureFallback(d, Desired(cfg, d), changed, failed)
          PROVE  FilesOK'
      <4>1. d \in Dirs /\ Desired(cfg, d) \in Targets \cup {None}
          BY <1>0, <1>7, DesiredTyped
      <4>2. fallbackFile' \in Fallbacks /\ faults' \in 0..MaxFaults
          BY <1>0, <3>3, <4>1, EnsureTyped
      <4> QED
          BY <1>0, <2>5, <3>1, <4>2 DEF Unreconcile, FilesOK
    <3> QED
        BY <2>5, <3>2, <3>3 DEF Unreconcile
  <2>6. CASE Prepare(p) \/ StartWatchers(p)
      BY <1>3, <1>5, <2>6 DEF Prepare, StartWatchers, files
  <2>7. CASE Acquire(p) \/ LockFallbacks(p) \/ Abort(p) \/ ReadFlags(p) \/ Activate(p) \/ StopOld(p)
             \/ InitialSyncs(p)
      BY <1>1, <2>7 DEF Acquire, LockFallbacks, Abort, StopOld, StopWatchers, ReadFlags, Activate,
         InitialSyncs, files
  <2> QED
      BY <1>8, <2>1, <2>2, <2>3, <2>4, <2>5, <2>6, <2>7 DEF Apply
<1>9. ASSUME NEW p \in Proc, Sync(p) PROVE FilesOK'
  <2>1. CASE LockDestination(p)
      BY <1>3, <1>5, <2>1 DEF LockDestination, files
  <2>2. CASE Install(p)
    <3>1. job[p].cert.source \in Sources /\ Dest(job[p].cert) \in Destinations
        BY <1>4, <2>2 DEF Install, At, Started, SyncSteps
    <3>2. destFile' \in [Destinations -> Sources \cup {None}]
        BY <1>0, <2>2, <3>1 DEF Install, FilesOK
    <3>3. faults' \in 0..MaxFaults
        BY <1>5, <2>2 DEF Install
    <3> QED
        BY <1>0, <2>2, <3>2, <3>3 DEF Install, FilesOK
  <2>3. CASE Ensure(p)
    <3>1. job[p].cert.dir \in Dirs /\ job[p].cert.target \in Targets
        BY <1>4, <2>3 DEF Ensure, At, Started, SyncSteps
    <3>2. fallbackFile' \in Fallbacks /\ faults' \in 0..MaxFaults
        BY <1>0, <2>3, <3>1, EnsureTyped DEF Ensure
    <3> QED
        BY <1>0, <2>3, <3>2 DEF Ensure, FilesOK
  <2>4. CASE MarkSync(p)
    <3>1. pending \cup {job[p].cert.dir} \in SUBSET Dirs
        BY <1>0, <1>4, <2>4 DEF MarkSync, At, Started, SyncSteps
    <3>2. acked' \in Fallbacks
        BY <1>0, <2>4 DEF MarkSync, FilesOK
    <3> QED
        BY <1>6, <2>4, <3>1, <3>2 DEF MarkSync, MarkPending, MarkPendingFails
  <2>5. CASE Begin(p) \/ RLockFallbacks(p) \/ BeginFetch(p) \/ EndFetch(p) \/ Record(p)
      BY <1>1, <2>5 DEF Begin, RLockFallbacks, BeginFetch, EndFetch, Record, files, rest
  <2> QED
      BY <1>9, <2>1, <2>2, <2>3, <2>4, <2>5 DEF Sync
<1>10. ASSUME NEW p \in Proc, Other(p) PROVE FilesOK'
    BY <1>0, <1>1, <1>2, <1>10 DEF Other, RecordValidation, ClearFlags, Drain, StopWatchers, Exit, rest, FilesOK
<1>11. ASSUME NEW p \in Proc, Arrive(p) PROVE FilesOK'
  <2>1. CASE Acknowledge(p)
    <3>1. acked' \in Fallbacks
        BY <1>0, <2>1, SettledTyped DEF Acknowledge, FilesOK
    <3>2. {} \in SUBSET Dirs
        OBVIOUS
    <3> QED
        BY <1>6, <2>1, <3>1, <3>2 DEF Acknowledge
  <2>2. CASE ~Acknowledge(p)
      BY <1>1, <1>11, <2>2 DEF Arrive, Boot, Request, SyncNow, ValidateNow, Tick, Terminate, files, rest
  <2> QED
      BY <2>1, <2>2
<1>12. CASE Crash
    BY <1>0, <1>2, <1>12 DEF Crash, FilesOK
<1>13. CASE UNCHANGED vars
    BY <1>1, <1>13 DEF vars, files, rest
<1> QED
    BY <1>8, <1>9, <1>10, <1>11, <1>12, <1>13 DEF Next

LEMMA BoundHolds ==
    ASSUME TypeOK, Control, Bounded, [Next]_vars
    PROVE  Bounded'
<1>1. staged'.gen <= MaxGen + 1
    BY StagedHolds
<1>2. ASSUME NEW q \in Proc, pc'[q] \in {"saveSecrets", "prepare"} PROVE gen' <= MaxGen
  <2>1. CASE UNCHANGED vars
      BY <1>2, <2>1 DEF vars, memory, Bounded
  <2>2. CASE Crash \/ \E p \in Proc : Exit(p)
      BY <1>2, <2>2 DEF Crash, Exit, Shutdown
  <2>3. ASSUME NEW p \in Proc, Apply(p) \/ Sync(p) \/ Other(p) \/ Arrive(p), ~Exit(p)
        PROVE  gen' <= MaxGen
    <3>1. CASE Activate(p)
      <4>1. applyMu = p /\ pc'[p] = "stopOld"
          BY <3>1 DEF Activate, At, Goto, TypeOK, ControlOK, Control, Held, Applying, Holding, ApplySteps
      <4>2. q # p /\ pc'[q] = pc[q]
          BY <1>2, <2>3, <4>1, Elsewhere
      <4> QED
          BY <1>2, <4>1, <4>2 DEF Control, Held, Applying, Holding, ApplySteps
    <3>2. CASE Terminate(p)
      BY <3>2, ManagerAssumption DEF Terminate, TypeOK, MemoryOK
    <3>3. CASE ~Activate(p) /\ ~Terminate(p)
      <4>1. gen' = gen
          BY <2>3, <3>3 DEF Apply, Sync, Other, Arrive, memory, rest,
             Acquire, SaveSecrets, Prepare, StartWatchers, LockFallbacks,
             Reconcile, SaveConfig, MarkChanged, RestoreConfig, Unreconcile, Abort, StopOld,
             StopWatchers, RestoreSecrets, ReadFlags, InitialSyncs, Begin, RLockFallbacks,
             LockDestination, BeginFetch, EndFetch, Install, Ensure, MarkSync, Record,
             RecordValidation, ClearFlags, Drain, Boot, Request, SyncNow, ValidateNow, Tick, Acknowledge
      <4>2. CASE pc[q] \in {"saveSecrets", "prepare"}
          BY <4>1, <4>2 DEF Bounded
      <4>3. CASE pc[q] \notin {"saveSecrets", "prepare"}
        <5>1. q = p
            BY <1>2, <2>3, <4>3, Elsewhere
        <5>2. CASE Apply(p)
          <6>1. pc \in [Proc -> Steps]
              BY DEF TypeOK, ControlOK
          <6>2. Acquire(p) /\ pc'[p] = "saveSecrets"
              BY <1>2, <4>3, <5>1, <5>2, <6>1 DEF Apply, Goto, At, Done, Abandon,
                 Acquire, SaveSecrets, Prepare, StartWatchers, LockFallbacks,
                 Reconcile, SaveConfig, MarkChanged, RestoreConfig, Unreconcile, Abort, StopOld,
                 StopWatchers, RestoreSecrets, ReadFlags, InitialSyncs, Activate
          <6>3. gen < MaxGen
              BY <6>1, <6>2 DEF Acquire, Done, Goto
          <6> QED
              BY <4>1, <6>3, ManagerAssumption DEF TypeOK, MemoryOK
        <5>3. CASE ~Apply(p)
          <6>1. Boots(p)
              BY <1>2, <2>3, <5>1, <5>3, SyncMoves, OtherMoves, ArriveMoves DEF
                 Rests, Proceeds, Returns, Works, Started, SyncSteps
          <6> QED
              BY <4>1, <6>1, ManagerAssumption DEF Boots, Control, Fallow
        <5> QED
            BY <5>2, <5>3
      <4> QED
          BY <4>2, <4>3
    <3> QED
        BY <3>1, <3>2, <3>3
  <2> QED
      BY <2>1, <2>2, <2>3 DEF Next
<1> QED
    BY <1>1, <1>2 DEF Bounded

\* What a step keeps, whatever the tasks: types, locks, names and bounds.
Core == TypeOK /\ Control /\ Writer /\ Bounded

LEMMA InitCore == Init => Core
<1> SUFFICES ASSUME Init PROVE Core
    OBVIOUS
<1> USE ManagerAssumption, NoEntriesTyped, IdleTyped, NoApplyTyped DEF Init
<1>1. diskCfg \in Configs
    BY BootTyped
<1>2. diskSecrets \in Keyrings
  <2>1. \A n \in Remotes(diskCfg) : diskCfg[n] \in EntriesEver
      BY <1>1 DEF Remotes, Entries, Configs
  <2> QED
      BY <2>1, EntryParts DEF Keyrings
<1>3. MemoryOK
  <2>1. 0 \in 0..(MaxGen + 1) /\ [n \in Name |-> None] \in Keyrings
      BY DEF Keyrings
  <2> QED
      BY <2>1 DEF MemoryOK
<1>4. LocksOK
    BY DEF LocksOK
<1>5. ControlOK
    BY DEF ControlOK, Steps
<1>6. FilesOK
  <2>1. 0 \in 0..MaxFaults /\ 0 \in 0..MaxCrashes
      OBVIOUS
  <2>2. [d \in Dirs |-> None] \in Fallbacks /\ [d \in Destinations |-> None] \in [Destinations -> Sources \cup {None}]
      BY DEF Fallbacks
  <2> QED
      BY <1>1, <1>2, <2>1, <2>2 DEF FilesOK
<1>7. Control
    BY DEF Control, Named, Held, Fallow, Applying, Idle, Holding, ApplySteps, SyncSteps, Started
<1>8. Writer /\ Bounded
    BY DEF Writer, Writing, Bounded
<1> QED
    BY <1>3, <1>4, <1>5, <1>6, <1>7, <1>8 DEF Core, TypeOK

LEMMA CoreHolds ==
    ASSUME Core, [Next]_vars
    PROVE  Core'
<1> USE DEF Core
<1>1. MemoryOK' /\ LocksOK' /\ FilesOK'
    BY MemoryHolds, LocksHold, FilesHold
<1>2. ControlOK'
  <2>1. phase' \in {"down", "boot", "serving"}
    <3>1. CASE Crash \/ \E p \in Proc : Exit(p)
        BY <3>1 DEF Crash, Exit, Shutdown
    <3>2. ASSUME phase' = phase PROVE phase' \in {"down", "boot", "serving"}
        BY <3>2 DEF TypeOK, ControlOK
    <3>3. ASSUME NEW p \in Proc, Apply(p) \/ Sync(p) \/ Other(p) \/ Arrive(p), ~Exit(p)
          PROVE  phase' \in {"down", "boot", "serving"}
        BY <3>2, <3>3, PhaseMoves DEF Boot, InitialSyncs
    <3> QED
        BY <3>1, <3>2, <3>3 DEF Next, vars, rest
  <2> QED
      BY <2>1, PcHolds, JobHolds, StagedHolds, WatchesHold DEF ControlOK, Control
<1>3. Control' /\ Writer' /\ Bounded'
    BY ControlHolds, WriterHolds, BoundHolds
<1> QED
    BY <1>1, <1>2, <1>3 DEF TypeOK

LEMMA Always == Spec => []Core
<1>1. Core /\ [Next]_vars => Core'
    BY CoreHolds
<1> QED
    BY InitCore, <1>1, PTL DEF Spec

\* Whatever is requested, fails or crashes, the state has the shape the code gives it:
\* every local variable of a goroutine is assigned before it is read, and only
\* entries, keys and files that were asked for are ever written.
THEOREM Typing == Spec => []TypeOK
<1>1. Core => TypeOK
    BY DEF Core
<1> QED
    BY Always, <1>1, PTL

----------------------------------------------------------------------------
(* Memory, disk and the latest configuration *)

\* Where the apply is that holds applyMu.
Stage == IF applyMu = None THEN "none" ELSE pc[applyMu]
\* The candidate is not active yet.
Candidacy == Holding \ {"stopOld", "initial"}
\* The disk has the candidate's keys, and its configuration.
KeysSaved == Candidacy \ {"saveSecrets"}
ConfigSaved == {"mark", "flags", "activate", "restoreConfig"}

\* The candidate was made from the configuration it is to replace.
Latest ==
    phase = "serving" /\ Stage \in Candidacy =>
        job[applyMu].req \in Requests /\ staged.cand = Candidate(cfg, job[applyMu].req)

\* Neither the active configuration nor the candidate lacks keys.
Keyed ==
    /\ Credentialed(cfg, secrets)
    /\ Stage \in Candidacy => Credentialed(staged.cand, staged.secrets)

\* What the files say, by where the apply is: the keys are the candidate's from the first
\* step to the last, config.json is only while it has been replaced.
Agree ==
    phase # "down" /\ ~torn =>
        /\ diskSecrets = IF Stage \in KeysSaved THEN staged.secrets ELSE secrets
        /\ Stage \in ConfigSaved => diskCfg = staged.cand
        /\ Stage \notin ConfigSaved /\ (phase = "serving" \/ Stage \notin Candidacy \cup {"none"}) =>
              diskCfg = cfg

LEMMA StageOf ==
    ASSUME Core, NEW p \in Proc
    PROVE  /\ applyMu = p => Stage = pc[p]
           /\ pc[p] \in Holding => applyMu = p
           /\ Stage \in Holding \cup SyncSteps \cup {"none"}
           /\ None # p
BY ManagerAssumption DEF Core, TypeOK, LocksOK, Control, Held, Applying, Stage

LEMMA StageElsewhere ==
    ASSUME Core, NEW p \in Proc, Sync(p) \/ Other(p) \/ Arrive(p), ~Exit(p), ~Boot(p)
    PROVE  /\ UNCHANGED held
           /\ \/ Stage' = Stage /\ (Stage \in Candidacy => job'[applyMu] = job[applyMu])
              \/ Stage \in SyncSteps /\ Stage' \in SyncSteps \cup {"initial"}
<1>1. UNCHANGED held
    BY OthersLeave
<1>2. CASE applyMu = None
    BY <1>1, <1>2 DEF held, Stage, Candidacy, Holding, ApplySteps
<1>3. CASE applyMu # None /\ applyMu # p
  <2>1. applyMu \in Proc
      BY <1>3 DEF Core, TypeOK, LocksOK
  <2>2. pc'[applyMu] = pc[applyMu] /\ job'[applyMu] = job[applyMu]
      BY <1>3, <2>1, Elsewhere DEF Core
  <2> QED
      BY <1>1, <1>3, <2>2 DEF held, Stage
<1>4. CASE applyMu = p
  <2>1. Applying(p)
      BY <1>4 DEF Core, Control, Held
  <2>2. Proceeds(p) \/ Returns(p) \/ Rests(p) \/ Works(p) \/ Boots(p)
      BY SyncMoves, OtherMoves, ArriveMoves DEF Core
  <2>3. ~Boots(p) /\ ~Rests(p) /\ ~Works(p)
      BY <2>1, FallowIdle DEF Core, Boots, Rests, Works, Applying, Holding, ApplySteps, SyncSteps
  <2>4. pc[p] \in SyncSteps /\ pc'[p] \in SyncSteps \cup {"initial"}
      BY <2>1, <2>2, <2>3 DEF Proceeds, Returns, Applying, Holding, ApplySteps, Started, SyncSteps
  <2> QED
      BY <1>1, <1>4, <2>4, StageOf DEF held, Stage
<1> QED
    BY <1>2, <1>3, <1>4

\* The keys of an entry survive the pruning of those of other entries.
LEMMA PruneKeeps ==
    ASSUME NEW c, NEW s, Credentialed(c, s)
    PROVE  Credentialed(c, Prune(c, s))
BY DEF Credentialed, Prune, Remotes, Entries

LEMMA NothingToKey == ASSUME NEW s PROVE Credentialed(NoEntries, s)
BY DEF Credentialed, Remotes, Entries, NoEntries

Pact == Latest /\ Keyed /\ Agree

LEMMA InitPact == Init => Pact
BY NothingToKey DEF Init, Pact, Latest, Keyed, Agree, Stage, Candidacy, Holding, ApplySteps

LEMMA PactHolds ==
    ASSUME Core, Core', Pact, [Next]_vars
    PROVE  Pact'
<1> USE DEF Pact
<1>1. ASSUME Shutdown PROVE Pact'
    BY <1>1, NothingToKey DEF Shutdown, Latest, Keyed, Agree, Stage, Candidacy, Holding, ApplySteps
<1>2. CASE UNCHANGED vars
    BY <1>2 DEF vars, memory, locks, files, rest, Latest, Keyed, Agree, Stage
<1>3. ASSUME NEW p \in Proc, Sync(p) \/ Other(p) \/ Arrive(p), ~Exit(p), ~Boot(p) PROVE Pact'
  <2>1. UNCHANGED held
      BY <1>3, StageElsewhere
  <2>2. CASE Stage' = Stage /\ (Stage \in Candidacy => job'[applyMu] = job[applyMu])
      BY <2>1, <2>2 DEF held, Latest, Keyed, Agree
  <2>3. CASE Stage \in SyncSteps /\ Stage' \in SyncSteps \cup {"initial"}
      BY <2>1, <2>3 DEF held, Latest, Keyed, Agree, Candidacy, KeysSaved, ConfigSaved, Holding, ApplySteps, SyncSteps
  <2> QED
      BY <1>3, <2>2, <2>3, StageElsewhere
<1>4. ASSUME NEW p \in Proc, Boot(p) PROVE Pact'
  <2>1. cfg' = NoEntries /\ cfg = NoEntries /\ Stage' = "saveSecrets" /\ phase' = "boot"
        /\ UNCHANGED <<diskCfg, diskSecrets>> /\ secrets' = diskSecrets
    <3>1. p # None /\ pc \in [Proc -> Steps] /\ phase = "down" /\ cfg = NoEntries
        BY <1>4, StageOf DEF Boot, Core, Control, Fallow, TypeOK, ControlOK
    <3>2. pc'[p] = "saveSecrets" /\ applyMu' = p
        BY <1>4, <3>1 DEF Boot, Goto
    <3> QED
        BY <1>4, <3>1, <3>2 DEF Boot, files, Stage
  <2>2. staged'.cand = diskCfg /\ staged'.secrets = Prune(diskCfg, diskSecrets)
      BY <1>4 DEF Boot, NoApply
  <2>3. Credentialed(cfg, secrets)' /\ Credentialed(staged.cand, staged.secrets)'
      BY <1>4, <2>1, <2>2, NothingToKey, PruneKeeps DEF Boot
  <2> QED
      BY <2>1, <2>3 DEF Latest, Keyed, Agree, KeysSaved, ConfigSaved, Candidacy, Holding, ApplySteps
<1>5. ASSUME NEW p \in Proc, Apply(p) PROVE Pact'
  <2>0. /\ pc \in [Proc -> Steps] /\ job \in [Proc -> Jobs] /\ None # p /\ staged \in Applies
        /\ torn \in BOOLEAN
      BY StageOf DEF Core, TypeOK, ControlOK, FilesOK
  <2>1. CASE Acquire(p)
    <3>1. CASE applyMu' = None
      <4>1. Stage' = "none" /\ Stage = "none" /\ UNCHANGED <<cfg, secrets, diskCfg, diskSecrets, torn, phase>>
          BY <2>1, <3>1 DEF Acquire, Stage, memory, files
      <4> QED
          BY <4>1 DEF Latest, Keyed, Agree, KeysSaved, ConfigSaved, Candidacy, Holding, ApplySteps
    <3>2. CASE applyMu' # None
      <4> DEFINE c == Candidate(cfg, job[p].req)
                 k == Prune(c, Rekey(secrets, job[p].req))
      <4>1. /\ staged' = [NoApply EXCEPT !.cand = c, !.secrets = k]
            /\ applyMu' = p /\ applyMu = None /\ Credentialed(c, k)
            /\ pc' = [pc EXCEPT ![p] = "saveSecrets"] /\ job' = job
            /\ UNCHANGED <<cfg, secrets, diskCfg, diskSecrets, torn, phase>>
          BY <2>1, <3>2 DEF Acquire, Goto, memory, files
      <4>2. staged'.cand = c /\ staged'.secrets = k
          BY <4>1 DEF NoApply
      <4>3. Stage' = "saveSecrets" /\ Stage = "none" /\ job[p].req \in Requests
          BY <2>0, <2>1, <4>1 DEF Stage, Acquire, At, Core, Control, Named
      <4> HIDE DEF k
      <4> QED
          BY <4>1, <4>2, <4>3 DEF Latest, Keyed, Agree, KeysSaved, ConfigSaved, Candidacy, Holding, ApplySteps
    <3> QED
        BY <3>1, <3>2
  <2>2. CASE ~Acquire(p)
    <3>1. applyMu = p /\ Stage = pc[p] /\ (applyMu' = None => Stage' = "none")
          /\ (applyMu' = p => Stage' = pc'[p])
        BY <1>5, <2>2, ApplyAlone, StageOf DEF Core, Stage
    <3>2. ASSUME Stage \in Holding, Stage' \in Holding, Stage \in Candidacy => job' = job,
                 UNCHANGED <<cfg, secrets, diskCfg, diskSecrets, torn, phase, applyMu>>,
                 staged'.cand = staged.cand, staged'.secrets = staged.secrets,
                 Stage \in Candidacy <=> Stage' \in Candidacy,
                 Stage \in KeysSaved <=> Stage' \in KeysSaved,
                 Stage \in ConfigSaved <=> Stage' \in ConfigSaved
          PROVE  Pact'
        BY <3>2 DEF Latest, Keyed, Agree, Candidacy, Holding, ApplySteps
    <3>3. CASE Prepare(p) \/ StartWatchers(p) \/ LockFallbacks(p) \/ Reconcile(p)
      <4>1. /\ UNCHANGED <<cfg, secrets, diskCfg, diskSecrets, torn, phase, applyMu, job>>
            /\ staged'.cand = staged.cand /\ staged'.secrets = staged.secrets
            /\ pc[p] \in {"prepare", "start", "fbLock", "reconcile"}
            /\ pc'[p] \in {"start", "fbLock", "reconcile", "saveConfig", "abort", "unreconcile", "restoreSecrets"}
          BY <2>0, <3>3 DEF Prepare, StartWatchers, LockFallbacks, Reconcile, At, Goto, memory, locks, files, Applies
      <4> QED
          BY <3>1, <3>2, <4>1 DEF KeysSaved, ConfigSaved, Candidacy, Holding, ApplySteps
    <3>4. CASE SaveSecrets(p)
      <4>1. UNCHANGED <<cfg, secrets, diskCfg, phase>> /\ pc[p] = "saveSecrets"
          BY <3>4 DEF SaveSecrets, At, memory
      <4>2. CASE pc' = [pc EXCEPT ![p] = "prepare"] /\ UNCHANGED <<applyMu, staged, job, torn>>
        <5>1. Stage' = "prepare" /\ diskSecrets' = IF staged.secrets # secrets THEN staged.secrets ELSE diskSecrets
            BY <2>0, <3>1, <3>4, <4>2 DEF SaveSecrets, Abandon, Goto
        <5> QED
            BY <3>1, <4>1, <4>2, <5>1 DEF Latest, Keyed, Agree, KeysSaved, ConfigSaved, Candidacy, Holding, ApplySteps
      <4>3. CASE Abandon(p)
        <5>1. Stage' = "none"
            BY <3>1, <4>3 DEF Abandon
        <5>2. SaveFails("saveSecrets", diskSecrets' = diskSecrets)
            BY <2>0, <3>4, <4>1, <4>3 DEF SaveSecrets, Abandon, Goto
        <5>3. ~torn' => ~torn /\ diskSecrets' = diskSecrets
            BY <2>0, <5>2 DEF SaveFails
        <5> QED
            BY <3>1, <4>1, <5>1, <5>3 DEF Latest, Keyed, Agree, KeysSaved, ConfigSaved, Candidacy, Holding, ApplySteps
      <4> QED
          BY <3>4, <4>2, <4>3 DEF SaveSecrets, Goto
    <3>5. CASE SaveConfig(p) \/ MarkChanged(p) \/ RestoreConfig(p)
      <4>1. /\ UNCHANGED <<cfg, secrets, diskSecrets, phase, applyMu, job>>
            /\ staged'.cand = staged.cand /\ staged'.secrets = staged.secrets
          BY <2>0, <3>5 DEF SaveConfig, MarkChanged, RestoreConfig, memory, locks, Applies
      <4>2. \/ ~torn' => ~torn /\ diskCfg' = diskCfg /\ pc[p] = "saveConfig" /\ pc'[p] = "unreconcile"
            \/ torn' = torn /\ pc[p] = "saveConfig" /\ pc'[p] = "mark" /\ diskCfg' = staged.cand
            \/ torn' = torn /\ pc[p] = "mark" /\ pc'[p] \in {"flags", "restoreConfig"} /\ diskCfg' = diskCfg
            \/ torn' = torn /\ pc[p] = "restoreConfig" /\ pc'[p] = "unreconcile" /\ diskCfg' = cfg
            \/ torn'
        <5>1. CASE SaveConfig(p)
          <6>1. CASE Goto(p, "mark")
              BY <2>0, <5>1, <6>1 DEF SaveConfig, At, Goto
          <6>2. CASE SaveFails("saveConfig", diskCfg' = diskCfg) /\ Goto(p, "unreconcile")
              BY <2>0, <5>1, <6>2 DEF SaveConfig, SaveFails, At, Goto
          <6> QED
              BY <5>1, <6>1, <6>2 DEF SaveConfig
        <5>2. CASE MarkChanged(p)
            BY <2>0, <5>2 DEF MarkChanged, At, Goto
        <5>3. CASE RestoreConfig(p)
            BY <2>0, <5>3 DEF RestoreConfig, SaveFails, At, Goto
        <5> QED
            BY <3>5, <5>1, <5>2, <5>3
      <4>3. /\ pc[p] \in {"saveConfig", "mark", "restoreConfig"}
            /\ pc'[p] \in {"mark", "unreconcile", "flags", "restoreConfig"}
          BY <2>0, <3>5 DEF SaveConfig, MarkChanged, RestoreConfig, At, Goto
      <4> QED
          BY <3>1, <4>1, <4>2, <4>3 DEF Latest, Keyed, Agree, KeysSaved, ConfigSaved, Candidacy, Holding, ApplySteps
    <3>6. CASE Unreconcile(p) \/ ReadFlags(p) \/ Abort(p)
      <4>1. /\ UNCHANGED <<cfg, secrets, diskCfg, diskSecrets, phase, applyMu, job>>
            /\ staged'.cand = staged.cand /\ staged'.secrets = staged.secrets
            /\ torn => torn'
            /\ \/ pc[p] = "flags" /\ pc'[p] = "activate"
               \/ /\ pc[p] \in {"unreconcile", "abort"}
                  /\ pc'[p] \in {"unreconcile", "abort", "restoreSecrets"}
          BY <2>0, <3>6 DEF Unreconcile, ReadFlags, Abort, StopWatchers, At, Goto, memory, locks, files, Applies
      <4> QED
          BY <3>1, <4>1 DEF Latest, Keyed, Agree, KeysSaved, ConfigSaved, Candidacy, Holding, ApplySteps
    <3>7. CASE RestoreSecrets(p)
      <4>1. /\ UNCHANGED <<cfg, secrets, diskCfg, phase>> /\ pc[p] = "restoreSecrets" /\ Stage' = "none"
            /\ torn' \/ (torn' = torn /\ diskSecrets' = IF staged.secrets # secrets THEN secrets ELSE diskSecrets)
          BY <3>1, <3>7 DEF RestoreSecrets, Abandon, SaveFails, At, memory
      <4> QED
          BY <3>1, <4>1 DEF Latest, Keyed, Agree, KeysSaved, ConfigSaved, Candidacy, Holding, ApplySteps
    <3>8. CASE Activate(p)
      <4>1. /\ cfg' = staged.cand /\ secrets' = staged.secrets /\ Stage = "activate" /\ Stage' = "stopOld"
            /\ UNCHANGED <<diskCfg, diskSecrets, torn, phase>>
          BY <2>0, <3>1, <3>8 DEF Activate, At, Goto, files
      <4> QED
          BY <4>1 DEF Latest, Keyed, Agree, KeysSaved, ConfigSaved, Candidacy, Holding, ApplySteps
    <3>9. CASE StopOld(p) \/ InitialSyncs(p)
      <4>1. /\ Stage \in {"stopOld", "initial"} /\ Stage' \in {"stopOld", "initial", "begin", "none"}
            /\ UNCHANGED <<cfg, secrets, diskCfg, diskSecrets, torn>> /\ phase # "down"
          BY <2>0, <3>1, <3>9, FallowIdle DEF Core, StopOld, StopWatchers, InitialSyncs, Done, At, Goto, memory, locks, files
      <4> QED
          BY <4>1 DEF Latest, Keyed, Agree, KeysSaved, ConfigSaved, Candidacy, Holding, ApplySteps
    <3> QED
        BY <1>5, <2>2, <3>3, <3>4, <3>5, <3>6, <3>7, <3>8, <3>9 DEF Apply
  <2> QED
      BY <2>1, <2>2
<1> QED
    BY <1>1, <1>2, <1>3, <1>4, <1>5 DEF Next, Crash, Exit

\* Whoever is served has a configuration with its keys and, between two applies, the two
\* files that say the same, however the saving, the rollback or the process failed;
\* only an apply that could not undo itself (torn) leaves them apart.  This is the order
\* of applyConfigLocked: keys before the configuration, and back in the reverse order.
THEOREM Consistency == Spec => []MemoryAndDiskAgree
<1>1. Core /\ Core' /\ Pact /\ [Next]_vars => Pact'
    BY PactHolds
<1>2. Pact => MemoryAndDiskAgree
    BY DEF Pact, Keyed, Agree, Stage, KeysSaved, ConfigSaved, Candidacy, Holding, ApplySteps, MemoryAndDiskAgree
<1> QED
    BY Always, InitPact, <1>1, <1>2, PTL DEF Spec

LEMMA AlwaysPact == Spec => []Pact
<1>1. Core /\ Core' /\ Pact /\ [Next]_vars => Pact'
    BY PactHolds
<1> QED
    BY Always, InitPact, <1>1, PTL DEF Spec

\* Nothing but an activation changes the configuration of a running process.
LEMMA OnlyActivate ==
    ASSUME Core, [Next]_vars, cfg' # cfg, phase' # "down"
    PROVE  \E p \in Proc : Activate(p)
<1>1. PICK p \in Proc : (Apply(p) \/ Sync(p) \/ Other(p) \/ Arrive(p)) /\ ~Exit(p)
    BY DEF Next, Crash, Exit, Shutdown, vars, memory
<1>2. CASE Apply(p)
    BY <1>2 DEF Apply, memory, Acquire, SaveSecrets, Prepare, StartWatchers, LockFallbacks,
       Reconcile, SaveConfig, MarkChanged, RestoreConfig, Unreconcile, Abort, StopOld,
       StopWatchers, RestoreSecrets, ReadFlags, InitialSyncs
<1>3. CASE ~Apply(p)
    BY <1>1, <1>3, OthersLeave DEF held, Boot
<1> QED
    BY <1>2, <1>3

\* A served change is applied to the configuration it replaces: applyMu is held from the
\* candidate's making to its activation and the end of the process alone changes the
\* configuration besides, so of two concurrent changes neither is lost.
THEOREM NothingOverwritten == Spec => AppliesToLatest
<1>1. ASSUME Core, Pact, [Next]_vars, cfg' # cfg, phase = "serving", phase' = "serving"
      PROVE  \E p \in Proc : /\ applyMu = p /\ job[p].req # None
                             /\ cfg' = Candidate(cfg, job[p].req)
  <2>1. PICK p \in Proc : Activate(p)
      BY <1>1, OnlyActivate
  <2>2. applyMu = p /\ Stage = "activate" /\ cfg' = staged.cand
      BY <1>1, <2>1, StageOf DEF Activate, At, Holding, ApplySteps
  <2>3. job[p].req \in Requests /\ staged.cand = Candidate(cfg, job[p].req)
      BY <1>1, <2>2 DEF Pact, Latest, Candidacy, Holding, ApplySteps
  <2> QED
      BY <2>2, <2>3, RequestAssumption
<1>2. Core /\ Pact /\ [Next]_vars =>
        [cfg' # cfg /\ phase = "serving" /\ phase' = "serving" =>
            \E p \in Proc : /\ applyMu = p /\ job[p].req # None
                           /\ cfg' = Candidate(cfg, job[p].req)]_vars
    BY <1>1
<1> QED
    BY Always, AlwaysPact, <1>2, PTL DEF Spec, AppliesToLatest

----------------------------------------------------------------------------
(* Watchers *)

\* The apply has started the watchers of the candidate and has not handed them over.
Keeping == {"fbLock", "reconcile", "saveConfig", "mark", "flags", "activate", "restoreConfig", "unreconcile"}
\* WatchersOwned, with the steps at which an apply may own what it has started.
Owned ==
    \A w \in running :
        \/ w \in watchers \/ \E p \in Proc : w \in stopping[p]
        \/ w \in staged.new /\ Stage \in Keeping
\* Only a goroutine that stops watchers has any to stop.
Stops == \A p \in Proc : stopping[p] # {} => pc[p] \in {"abort", "stopOld", "drain"}

LEMMA StopsHold ==
    ASSUME Core, Stops, [Next]_vars
    PROVE  Stops'
<1>0. pc \in [Proc -> Steps] /\ stopping \in [Proc -> SUBSET Watches]
    BY DEF Core, TypeOK, ControlOK
<1>1. CASE Crash \/ \E p \in Proc : Exit(p)
    BY <1>1 DEF Crash, Exit, Shutdown, Stops
<1>2. CASE UNCHANGED vars
    BY <1>2 DEF vars, rest, Stops
<1>3. ASSUME NEW p \in Proc, Apply(p) \/ Sync(p) \/ Other(p) \/ Arrive(p), ~Exit(p) PROVE Stops'
  <2> SUFFICES stopping'[p] # {} => pc'[p] \in {"abort", "stopOld", "drain"}
      BY <1>3, Elsewhere DEF Core, Stops
  <2> USE <1>0 DEF Stops, Goto, At
  <2>1. CASE Acquire(p) \/ SaveSecrets(p) \/ Prepare(p) \/ StartWatchers(p) \/ LockFallbacks(p)
             \/ Reconcile(p) \/ SaveConfig(p) \/ MarkChanged(p)
      BY <2>1 DEF Acquire, SaveSecrets, Prepare, StartWatchers, LockFallbacks,
         Reconcile, SaveConfig, MarkChanged
  <2>2. CASE RestoreConfig(p) \/ Unreconcile(p) \/ RestoreSecrets(p) \/ ReadFlags(p)
             \/ Activate(p) \/ InitialSyncs(p)
      BY <2>2 DEF RestoreConfig, Unreconcile, Activate, RestoreSecrets, ReadFlags, InitialSyncs
  <2>3. CASE Abort(p) \/ StopOld(p) \/ Drain(p)
      BY <2>3 DEF Abort, StopOld, Drain, StopWatchers
  <2>4. CASE Sync(p)
      BY <2>4 DEF Sync, Begin, RLockFallbacks, LockDestination, BeginFetch, EndFetch,
         Install, Ensure, MarkSync, Record, rest
  <2>5. CASE Terminate(p)
      BY <2>5 DEF Terminate
  <2>6. CASE RecordValidation(p) \/ ClearFlags(p)
      BY <2>6 DEF RecordValidation, ClearFlags, Done, rest
  <2>7. CASE Acknowledge(p) \/ \E r \in Requests : Request(p, r)
      BY <2>7 DEF Acknowledge, Request, rest
  <2>9. CASE Boot(p)
      BY <2>9 DEF Boot, Core, Control, Fallow
  <2>8. CASE \/ \E n \in Name : SyncNow(p, n) \/ ValidateNow(p, n)
             \/ \E w \in running : Tick(p, w)
      BY <2>8 DEF SyncNow, ValidateNow, Tick, rest
  <2> QED
      BY <1>3, <2>1, <2>2, <2>3, <2>4, <2>5, <2>6, <2>7, <2>8, <2>9 DEF Apply, Other, Arrive
<1> QED
    BY <1>1, <1>2, <1>3 DEF Next

LEMMA OwnedHolds ==
    ASSUME Core, Stops, Owned, [Next]_vars
    PROVE  Owned'
<1>0. /\ pc \in [Proc -> Steps] /\ stopping \in [Proc -> SUBSET Watches] /\ staged \in Applies
      /\ running \subseteq Watches
    BY DEF Core, TypeOK, ControlOK
<1>1. ASSUME Shutdown PROVE Owned'
    BY <1>1 DEF Shutdown, Owned
<1>2. CASE UNCHANGED vars
    BY <1>2 DEF vars, rest, memory, locks, Owned, Stage
<1>3. ASSUME running' \subseteq running, watchers' = watchers,
             Stage \in Keeping => staged'.new = staged.new /\ Stage' \in Keeping,
             \A q \in Proc : \A w \in stopping[q] : w \in running' => w \in stopping'[q]
      PROVE  Owned'
    BY <1>3 DEF Owned
<1>4. ASSUME NEW p \in Proc, NEW from, NEW to, StopWatchers(p, from, to)
      PROVE  /\ running' \subseteq running /\ watchers' = watchers
             /\ \A q \in Proc : \A w \in stopping[q] : w \in running' => w \in stopping'[q]
    BY <1>0, <1>4 DEF StopWatchers, memory
<1>5. ASSUME NEW p \in Proc, Sync(p) \/ Other(p) \/ Arrive(p), ~Exit(p), ~Boot(p) PROVE Owned'
  <2>0. Stage \in Keeping => staged' = staged /\ Stage' = Stage
      BY <1>5, StageElsewhere DEF held, Keeping, SyncSteps
  <2>1. CASE Drain(p)
      BY <1>3, <1>4, <2>0, <2>1 DEF Drain
  <2>2. CASE Terminate(p)
    <3>1. stopping[p] = {} /\ running' = running /\ stopping' = [stopping EXCEPT ![p] = watchers]
        BY <2>2 DEF Terminate, At, Stops
    <3> QED
        BY <1>0, <2>0, <3>1 DEF Owned
  <2>3. CASE ~Drain(p) /\ ~Terminate(p)
    <3>1. UNCHANGED <<running, watchers, stopping>>
      <4>1. CASE Sync(p)
          BY <4>1 DEF Sync, Begin, RLockFallbacks, LockDestination, BeginFetch, EndFetch,
             Install, Ensure, MarkSync, Record, rest, memory
      <4>2. CASE Other(p) \/ Arrive(p)
          BY <1>5, <2>3, <4>2 DEF Other, RecordValidation, ClearFlags, Arrive, Request, SyncNow,
             ValidateNow, Tick, Acknowledge, rest, memory
      <4> QED
          BY <1>5, <4>1, <4>2
    <3> QED
        BY <1>3, <2>0, <3>1
  <2> QED
      BY <2>1, <2>2, <2>3
<1>6. ASSUME NEW p \in Proc, Boot(p) PROVE Owned'
    BY <1>6 DEF Boot, Core, Control, Fallow, Owned
<1>7. ASSUME NEW p \in Proc, Apply(p) PROVE Owned'
  <2>0. applyMu = p => Stage = pc[p] /\ (applyMu' = p => Stage' = pc'[p])
      BY StageOf DEF Stage
  <2>1. CASE Acquire(p)
    <3>1. Stage = "none" /\ UNCHANGED <<running, watchers, stopping>>
        BY <2>1 DEF Acquire, Stage, memory
    <3> QED
        BY <1>3, <3>1 DEF Keeping
  <2>2. CASE StartWatchers(p)
    <3>1. Stage = "start" /\ applyMu = p /\ applyMu' = p /\ watchers' = watchers /\ stopping[p] = {}
        BY <2>0, <2>2, StageOf DEF StartWatchers, At, Holding, ApplySteps, Stops, memory, locks
    <3> DEFINE auto == {n \in Entries(staged.cand) : staged.cand[n].enabled /\ staged.cand[n].auto}
               new  == {Watcher(n, staged.gen, staged.cand[n].remote) : n \in auto}
    <3>2. \/ /\ running' = running \cup new /\ pc' = [pc EXCEPT ![p] = "fbLock"]
             /\ staged' = [staged EXCEPT !.new = new] /\ stopping' = stopping
          \/ /\ running' \subseteq running \cup new /\ stopping' = [stopping EXCEPT ![p] = new]
        BY <2>2 DEF StartWatchers, Goto
    <3> HIDE DEF new
    <3>3. CASE /\ running' = running \cup new /\ pc' = [pc EXCEPT ![p] = "fbLock"]
               /\ staged' = [staged EXCEPT !.new = new] /\ stopping' = stopping
      <4>1. staged'.new = new /\ Stage' \in Keeping
          BY <1>0, <2>0, <3>1, <3>3 DEF Applies, Keeping
      <4> QED
          BY <3>1, <3>3, <4>1 DEF Owned, Keeping
    <3>4. CASE running' \subseteq running \cup new /\ stopping' = [stopping EXCEPT ![p] = new]
        BY <1>0, <3>1, <3>4 DEF Owned, Keeping
    <3> QED
        BY <3>2, <3>3, <3>4
  <2>3. CASE LockFallbacks(p) \/ Reconcile(p) \/ SaveConfig(p) \/ MarkChanged(p) \/ RestoreConfig(p) \/ ReadFlags(p)
    <3>1. /\ pc[p] \in Keeping /\ pc'[p] \in Keeping /\ applyMu' = applyMu
          /\ UNCHANGED <<running, watchers, stopping>>
        BY <1>0, <2>3 DEF LockFallbacks, Reconcile, SaveConfig, MarkChanged, RestoreConfig, ReadFlags,
           At, Goto, memory, locks, Keeping
    <3>2. staged'.new = staged.new
        BY <1>0, <2>3 DEF LockFallbacks, Reconcile, SaveConfig, MarkChanged, RestoreConfig, ReadFlags, Applies
    <3>3. applyMu = p
        BY <3>1, StageOf DEF Keeping, Holding, ApplySteps
    <3> QED
        BY <1>3, <2>0, <3>1, <3>2, <3>3
  <2>4. CASE Unreconcile(p)
    <3>1. pc[p] = "unreconcile" /\ applyMu = p /\ applyMu' = p /\ stopping[p] = {}
          /\ UNCHANGED <<running, watchers>>
        BY <2>4, StageOf DEF Unreconcile, At, Holding, ApplySteps, Stops, memory
    <3>2. CASE staged' = staged /\ stopping' = [stopping EXCEPT ![p] = staged.new]
        BY <1>0, <3>1, <3>2 DEF Owned
    <3>3. CASE staged'.new = staged.new /\ UNCHANGED <<pc, stopping>>
        BY <1>3, <2>0, <3>1, <3>3
    <3> QED
        BY <1>0, <2>4, <3>2, <3>3 DEF Unreconcile, Applies
  <2>5. CASE Activate(p)
    <3>1. pc[p] = "activate" /\ stopping[p] = {} /\ running' = running /\ watchers' = staged.new
          /\ stopping' = [stopping EXCEPT ![p] = watchers]
        BY <2>5 DEF Activate, At, Stops
    <3> QED
        BY <1>0, <3>1 DEF Owned
  <2>6. CASE Abort(p) \/ StopOld(p)
    <3>1. pc[p] \in {"abort", "stopOld"}
        BY <2>6 DEF Abort, StopOld, StopWatchers, At
    <3>2. Stage \notin Keeping
        BY <2>0, <3>1, StageOf DEF Keeping, Holding, ApplySteps
    <3> QED
        BY <1>3, <1>4, <2>6, <3>2 DEF Abort, StopOld
  <2>7. CASE SaveSecrets(p) \/ Prepare(p) \/ RestoreSecrets(p) \/ InitialSyncs(p)
    <3>1. pc[p] \in {"saveSecrets", "prepare", "restoreSecrets", "initial"} /\ UNCHANGED <<running, watchers, stopping>>
        BY <2>7 DEF SaveSecrets, Prepare, RestoreSecrets, InitialSyncs, At, memory
    <3>2. Stage \notin Keeping
        BY <2>0, <3>1, StageOf DEF Keeping, Holding, ApplySteps
    <3> QED
        BY <1>3, <3>1, <3>2
  <2> QED
      BY <1>7, <2>1, <2>2, <2>3, <2>4, <2>5, <2>6, <2>7 DEF Apply
<1> QED
    BY <1>1, <1>2, <1>5, <1>6, <1>7 DEF Next, Crash, Exit

\* Every watcher that runs is one of the active configuration, of the apply that has started
\* it, or of a goroutine that is stopping it: on no path through applyConfigLocked, its
\* errors, /term or a crash included, is a started watcher forgotten.
THEOREM NoneLeaked == Spec => []WatchersOwned
<1>1. Init => Owned /\ Stops
    BY DEF Init, Owned, Stops
<1>2. Core /\ Stops /\ Owned /\ [Next]_vars => Stops' /\ Owned'
    BY StopsHold, OwnedHolds
<1>3. Owned => WatchersOwned
    BY DEF Owned, WatchersOwned
<1> QED
    BY Always, <1>1, <1>2, <1>3, PTL DEF Spec

----------------------------------------------------------------------------
(* Termination *)

\* Only the end of the process ends a termination.
LEMMA TerminatingStays ==
    ASSUME Core, Terminating, [Next]_vars
    PROVE  Terminating' \/ Shutdown
<1>1. PICK q \in Proc : pc[q] \in {"drain", "exit"} /\ job[q].kind = "terminate"
    BY DEF Terminating
<1>2. CASE Crash \/ \E p \in Proc : Exit(p)
    BY <1>2 DEF Crash, Exit
<1>3. CASE UNCHANGED vars
    BY <1>1, <1>3 DEF vars, Terminating
<1>4. ASSUME NEW p \in Proc, Apply(p) \/ Sync(p) \/ Other(p) \/ Arrive(p), ~Exit(p)
      PROVE  Terminating'
  <2>1. CASE p # q
      BY <1>1, <1>4, <2>1, Elsewhere DEF Core, Terminating
  <2>2. CASE p = q
    <3>1. pc \in [Proc -> Steps]
        BY DEF Core, TypeOK, ControlOK
    <3>2. ~Apply(q) /\ ~Sync(q)
      <4>1. ~Applying(q) /\ applyMu # q
          BY <1>1 DEF Core, Control, Held, Applying, Holding, ApplySteps, SyncSteps
      <4>2. ~Apply(q)
          BY <1>1, <4>1, ApplyAlone DEF Core, Acquire, At
      <4>3. ~Sync(q)
          BY <1>1, SyncMoves DEF Core, Proceeds, Returns, SyncSteps
      <4> QED
          BY <4>2, <4>3
    <3>3. ~Arrive(q)
        BY <1>1, FallowIdle DEF Core, Arrive, At, Boot, Request, SyncNow, ValidateNow, Tick, Acknowledge, Terminate
    <3>4. Drain(q)
        BY <1>1, <1>4, <2>2, <3>2, <3>3 DEF Other, At, RecordValidation, ClearFlags
    <3>5. pc'[q] \in {"drain", "exit"} /\ job' = job
        BY <3>1, <3>4 DEF Drain, StopWatchers, At, Goto
    <3> QED
        BY <1>1, <3>5 DEF Terminating
  <2> QED
      BY <2>1, <2>2
<1> QED
    BY <1>2, <1>3, <1>4 DEF Next

\* Nothing else does.
LEMMA TerminatingBegins ==
    ASSUME Core, [Next]_vars, Terminating'
    PROVE  Terminating \/ \E p \in Proc : Terminate(p)
<1>0. pc \in [Proc -> Steps] /\ job \in [Proc -> Jobs] /\ staged \in Applies
    BY DEF Core, TypeOK, ControlOK
<1>1. ~Shutdown
    BY DEF Shutdown, Terminating
<1>2. PICK q \in Proc : pc'[q] \in {"drain", "exit"} /\ job'[q].kind = "terminate"
    BY DEF Terminating
<1>3. CASE UNCHANGED vars
    BY <1>3 DEF vars, Terminating
<1>4. ASSUME NEW p \in Proc, Apply(p) \/ Sync(p) \/ Other(p) \/ Arrive(p), ~Exit(p), ~Terminate(p)
      PROVE  Terminating
  <2>1. CASE p # q
      BY <1>2, <1>4, <2>1, Elsewhere DEF Core, Terminating
  <2>2. CASE p = q
    <3>1. CASE Apply(q)
      <4>1. SaveSecrets(q) \/ RestoreSecrets(q)
          BY <1>0, <1>2, <3>1 DEF Apply, Acquire, Prepare, StartWatchers, LockFallbacks,
             Reconcile, SaveConfig, MarkChanged, RestoreConfig, Unreconcile, Abort, StopOld,
             StopWatchers, ReadFlags, InitialSyncs, Activate, Goto, Done, At
      <4>2. Abandon(q)
          BY <1>0, <1>2, <4>1 DEF SaveSecrets, RestoreSecrets, Goto
      <4> QED
          BY <1>0, <1>2, <4>2 DEF Abandon, Assign, Idle
    <3>2. CASE Sync(q)
        BY <1>2, <3>2, SyncMoves DEF Core, Proceeds, Returns, Started, SyncSteps
    <3>3. CASE Other(q)
      <4>1. CASE Drain(q)
          BY <1>0, <1>2, <4>1 DEF Drain, StopWatchers, At, Terminating
      <4>2. CASE ~Drain(q)
          BY <1>0, <1>2, <1>4, <2>2, <3>3, <4>2 DEF Other, RecordValidation, ClearFlags, Done, Goto
      <4> QED
          BY <4>1, <4>2
    <3>4. CASE Arrive(q)
        BY <1>0, <1>2, <1>4, <2>2, <3>4 DEF Arrive, Boot, Request, SyncNow, ValidateNow, Tick, Acknowledge, Goto, At
    <3> QED
        BY <1>4, <2>2, <3>1, <3>2, <3>3, <3>4
  <2> QED
      BY <2>1, <2>2
<1> QED
    BY <1>1, <1>3, <1>4 DEF Next, Crash, Exit

\* /term begins one.
LEMMA TerminateHolds ==
    ASSUME Core, NEW p \in Proc, Terminate(p)
    PROVE  Terminating'
<1>1. pc \in [Proc -> Steps] /\ job \in [Proc -> Jobs]
    BY DEF Core, TypeOK, ControlOK
<1>2. [Idle EXCEPT !.kind = "terminate"].kind = "terminate"
    BY DEF Idle
<1> QED
    BY <1>1, <1>2 DEF Terminate, Terminating, Goto, Assign

\* What Manager_proofs shows of the locks without termination holds until /term is called.
LEMMA OrderUntilTermination == Spec => [](Terminating \/ IInv)
<1>1. ASSUME Core, Terminating \/ IInv, [Next]_vars PROVE (Terminating \/ IInv)'
    BY <1>1, StepHolds, ShutdownHolds, TerminatingStays, TerminateHolds
<1>2. Core /\ (Terminating \/ IInv) /\ [Next]_vars => (Terminating \/ IInv)'
    BY <1>1
<1> QED
    BY Always, InitHolds, <1>2, PTL DEF Spec

\* With any tasks, /term included: until it is called, a synchronization that publishes
\* does so under the configuration it started with, which activation cannot overtake.
THEOREM PublicationUntilTermination == Spec => [](Terminating \/ PublishersCurrent)
<1>1. IInv => PublishersCurrent
    BY DEF IInv, PublishersCurrent, Publishing, Fresh, Started, SyncSteps
<1> QED
    BY OrderUntilTermination, <1>1, PTL

\* Until /term is called no status shows the source of a configuration that is no longer
\* active: recordSync and recordValidation look at the generation again under m.mu, and
\* it is /term alone that makes an apply under way reuse one.
THEOREM StatusUntilTermination == Spec => [](Terminating \/ StatusOfActive)
<1>1. ASSUME Core, Terminating \/ IInv, Terminating \/ Status, [Next]_vars PROVE (Terminating \/ Status)'
  <2>1. Shutdown => Status'
      BY DEF Shutdown, Status, StatusOfActive
  <2> QED
      BY <1>1, <2>1, StatusHolds, TerminatingStays
<1>2. Core /\ (Terminating \/ IInv) /\ (Terminating \/ Status) /\ [Next]_vars => (Terminating \/ Status)'
    BY <1>1
<1>3. Status => StatusOfActive
    BY DEF Status
<1> QED
    BY Always, OrderUntilTermination, InitStatus, <1>2, <1>3, PTL DEF Spec

----------------------------------------------------------------------------
(* Publication and queries *)

\* A synchronization that replaces a pair does so for the active entry.
LEMMA InstallPublishes ==
    ASSUME IInv, Core, NEW p \in Proc, Install(p)
    PROVE  ActivePublished
<1> SUFFICES ASSUME NEW d \in Destinations, destFile'[d] \notin {destFile[d], None}
             PROVE  \E n \in Entries(cfg) : Dest(cfg[n]) = d /\ cfg[n].source = destFile'[d]
    BY DEF ActivePublished
<1>1. pc[p] = "install" /\ Current(p) /\ job[p].name \in Name
    BY DEF Install, At, Core, Control, Named, SyncSteps
<1>2. job[p].cert = cfg[job[p].name] /\ job[p].name \in Entries(cfg)
    BY <1>1 DEF IInv, Fresh, Started, SyncSteps, Current, Entries
<1>3. destFile \in [Destinations -> Sources \cup {None}]
    BY DEF Core, TypeOK, FilesOK
<1>4. Dest(job[p].cert) = d /\ destFile'[d] = job[p].cert.source
    BY <1>1, <1>3 DEF Install
<1> QED
    BY <1>2, <1>4

\* Nothing else replaces one.
LEMMA OnlyInstall ==
    ASSUME [Next]_vars, ~\E p \in Proc : Install(p)
    PROVE  destFile' = destFile
<1>1. ASSUME NEW p \in Proc, Apply(p) PROVE destFile' = destFile
    BY <1>1 DEF Apply, Acquire, SaveSecrets, Prepare, StartWatchers, LockFallbacks, Reconcile,
       SaveConfig, MarkChanged, RestoreConfig, Unreconcile, Abort, StopOld, StopWatchers,
       RestoreSecrets, ReadFlags, Activate, InitialSyncs, files
<1>2. ASSUME NEW p \in Proc, Sync(p) PROVE destFile' = destFile
    BY <1>2 DEF Sync, Begin, RLockFallbacks, LockDestination, BeginFetch, EndFetch,
       Ensure, MarkSync, Record, files
<1>3. ASSUME NEW p \in Proc, Other(p) \/ Arrive(p) PROVE destFile' = destFile
    BY <1>3 DEF Other, RecordValidation, ClearFlags, Drain, StopWatchers, Exit, Shutdown, files,
       Arrive, Boot, Request, SyncNow, ValidateNow, Tick, Acknowledge, Terminate
<1> QED
    BY <1>1, <1>2, <1>3 DEF Next, Crash, Shutdown, vars, files

LEMMA PublishesHold ==
    ASSUME IInv, Core, [Next]_vars
    PROVE  ActivePublished
<1>1. CASE \E p \in Proc : Install(p)
    BY <1>1, InstallPublishes
<1>2. CASE ~\E p \in Proc : Install(p)
    BY <1>2, OnlyInstall DEF ActivePublished
<1> QED
    BY <1>1, <1>2

\* A certificate pair is written only to the destination of an active entry and from that
\* entry's source, however long its bundle took: the generation check of
\* syncGenerationContext before SyncMaterial.  /term bumps the generation without
\* applyMu, and an apply that is under way then reuses it: see the run manager_reuse.
THEOREM PublishedIsActive ==
    ASSUME "terminate" \notin Tasks
    PROVE  Spec => PublishesActive
<1>1. IInv /\ Core /\ [Next]_vars => [ActivePublished]_vars
    BY PublishesHold
<1> QED
    BY Inductive, Always, <1>1, PTL DEF Spec, PublishesActive

\* With any tasks, the same is so of every replacement until /term is called.
THEOREM PublishedUntilTermination == Spec => [][Terminating \/ ActivePublished]_vars
<1>1. Core /\ (Terminating \/ IInv) /\ [Next]_vars => [Terminating \/ ActivePublished]_vars
    BY PublishesHold
<1> QED
    BY Always, OrderUntilTermination, <1>1, PTL DEF Spec

LEMMA QueryHolds ==
    ASSUME ~\E p \in Proc : Terminate(p), Core, CheckingHasQuery, [Next]_vars
    PROVE  CheckingHasQuery'
<1>0. checking \in [Name -> BOOLEAN] /\ pc \in [Proc -> Steps] /\ job \in [Proc -> Jobs]
    BY DEF Core, TypeOK, MemoryOK, ControlOK
<1>1. ASSUME \A n \in Name : ~checking'[n] PROVE CheckingHasQuery'
    BY <1>1 DEF CheckingHasQuery
<1>2. CASE UNCHANGED vars
    BY <1>2 DEF vars, memory, CheckingHasQuery, At, Current
<1>3. CASE Crash \/ \E p \in Proc : Exit(p) \/ Activate(p)
    BY <1>1, <1>3 DEF Crash, Exit, Shutdown, Activate
<1>4. ASSUME NEW p \in Proc, Apply(p) \/ Sync(p) \/ Other(p) \/ Arrive(p), ~Exit(p), ~Activate(p)
      PROVE  CheckingHasQuery'
  <2>1. UNCHANGED <<cfg, gen>>
    <3>1. CASE Apply(p)
        BY <1>4, <3>1 DEF Apply, memory, Acquire, SaveSecrets, Prepare, StartWatchers, LockFallbacks,
           Reconcile, SaveConfig, MarkChanged, RestoreConfig, Unreconcile, Abort, StopOld,
           StopWatchers, RestoreSecrets, ReadFlags, InitialSyncs
    <3>2. CASE Sync(p)
        BY <3>2 DEF Sync, Begin, RLockFallbacks, LockDestination, BeginFetch, EndFetch,
           Install, Ensure, MarkSync, Record, memory
    <3>3. CASE Other(p) \/ Arrive(p)
        BY <1>4, <3>3 DEF Other, RecordValidation, ClearFlags, Drain, StopWatchers, memory,
           Arrive, Boot, Request, SyncNow, ValidateNow, Tick, Acknowledge, Terminate
    <3> QED
        BY <1>4, <3>1, <3>2, <3>3
  <2>2. \A q \in Proc \ {p} : At(q, "query") /\ Current(q) => At(q, "query")' /\ job'[q] = job[q] /\ Current(q)'
      BY <1>4, <2>1, Elsewhere DEF Core, At, Current
  <2>3. CASE BeginFetch(p)
    <3>1. ASSUME NEW n \in Name, checking'[n], n # job[p].name
          PROVE  \E q \in Proc : At(q, "query")' /\ job'[q].name = n /\ Current(q)'
      <4>1. checking[n]
          BY <1>0, <2>3, <3>1 DEF BeginFetch
      <4>2. PICK q \in Proc : At(q, "query") /\ job[q].name = n /\ Current(q)
          BY <4>1 DEF CheckingHasQuery
      <4> QED
          BY <2>2, <2>3, <4>2 DEF BeginFetch, At
    <3>2. ASSUME checking'[job[p].name], job[p].name \in Name
          PROVE  \E q \in Proc : At(q, "query")' /\ job'[q].name = job[p].name /\ Current(q)'
      <4>1. CASE Current(p)
        <5>1. job'[p].name = job[p].name /\ job'[p].gen = job[p].gen
            BY <1>0, <2>3, <4>1 DEF BeginFetch, Assign, Jobs
        <5> QED
            BY <1>0, <2>1, <2>3, <4>1, <5>1 DEF BeginFetch, Goto, At, Current
      <4>2. CASE ~Current(p)
        <5>1. checking[job[p].name]
            BY <2>3, <3>2, <4>2 DEF BeginFetch
        <5>2. PICK q \in Proc : At(q, "query") /\ job[q].name = job[p].name /\ Current(q)
            BY <3>2, <5>1 DEF CheckingHasQuery
        <5> QED
            BY <2>2, <2>3, <5>2 DEF BeginFetch, At
      <4> QED
          BY <4>1, <4>2
    <3> QED
        BY <3>1, <3>2 DEF CheckingHasQuery
  <2>4. CASE EndFetch(p)
    <3>1. ASSUME NEW n \in Name, checking'[n]
          PROVE  checking[n] /\ (n = job[p].name => ~Current(p))
        BY <1>0, <2>4, <3>1 DEF EndFetch
    <3> QED
        BY <2>2, <3>1 DEF CheckingHasQuery
  <2>5. CASE ~BeginFetch(p) /\ ~EndFetch(p)
    <3>1. checking' = checking
      <4>1. CASE Apply(p)
          BY <1>4, <4>1 DEF Apply, memory, Acquire, SaveSecrets, Prepare, StartWatchers, LockFallbacks,
             Reconcile, SaveConfig, MarkChanged, RestoreConfig, Unreconcile, Abort, StopOld,
             StopWatchers, RestoreSecrets, ReadFlags, InitialSyncs
      <4>2. CASE Sync(p)
          BY <2>5, <4>2 DEF Sync, Begin, RLockFallbacks, LockDestination,
             Install, Ensure, MarkSync, Record, memory
      <4>3. CASE Other(p) \/ Arrive(p)
          BY <1>4, <4>3 DEF Other, RecordValidation, ClearFlags, Drain, StopWatchers, memory,
             Arrive, Boot, Request, SyncNow, ValidateNow, Tick, Acknowledge, Terminate
      <4> QED
          BY <1>4, <4>1, <4>2, <4>3
    <3>2. ~At(p, "query") \/ Boot(p)
      <4>1. CASE Apply(p)
          BY <4>1, ApplyMoves DEF Core, At, Takes, GoesOn, Finishes, Calls, Rests, Holding, ApplySteps
      <4>2. CASE Sync(p)
          BY <2>5, <4>2 DEF Sync, Begin, RLockFallbacks, LockDestination,
             Install, Ensure, MarkSync, Record, At
      <4>3. CASE Other(p) \/ Arrive(p)
          BY <1>4, <4>3 DEF Other, RecordValidation, ClearFlags, Drain, StopWatchers, At,
             Arrive, Boot, Request, SyncNow, ValidateNow, Tick, Acknowledge, Terminate
      <4> QED
          BY <1>4, <4>1, <4>2, <4>3
    <3>3. Boot(p) => ~At(p, "query")
        BY FallowIdle DEF Boot, Core, At
    <3> QED
        BY <2>2, <3>1, <3>2, <3>3 DEF CheckingHasQuery
  <2> QED
      BY <2>3, <2>4, <2>5
<1> QED
    BY <1>2, <1>3, <1>4 DEF Next

\* The Checking state that the UI shows ends with the query it is about: BeginFetch sets
\* it for the generation that EndFetch, or the activation, clears it for.  It needs
\* generations that are not reused, hence no /term.
THEOREM QueryEnds ==
    ASSUME "terminate" \notin Tasks
    PROVE  Spec => []CheckingHasQuery
<1>1. Init => CheckingHasQuery
    BY DEF Init, CheckingHasQuery
<1>2. Core /\ CheckingHasQuery /\ [Next]_vars => CheckingHasQuery'
    BY QueryHolds DEF Terminate
<1> QED
    BY Always, <1>1, <1>2, PTL DEF Spec

\* With any tasks, the Checking state ends with its query until /term is called.
THEOREM QueryUntilTermination == Spec => [](Terminating \/ CheckingHasQuery)
<1>1. Init => CheckingHasQuery
    BY DEF Init, CheckingHasQuery
<1>2. Shutdown => CheckingHasQuery'
    BY DEF Shutdown, CheckingHasQuery
<1>3. ASSUME Core, Terminating \/ CheckingHasQuery, [Next]_vars
      PROVE  (Terminating \/ CheckingHasQuery)'
    BY <1>2, <1>3, QueryHolds, TerminatingStays, TerminateHolds
<1>4. Core /\ (Terminating \/ CheckingHasQuery) /\ [Next]_vars => (Terminating \/ CheckingHasQuery)'
    BY <1>3
<1> QED
    BY Always, <1>1, <1>4, PTL DEF Spec

----------------------------------------------------------------------------
(* Valid candidates *)

\* An apply goes on only with a candidate that Config.Validate accepts.
Sound == Valid(cfg) /\ (Stage \in Preparing => Valid(staged.cand))

LEMMA NothingValid == Valid(NoEntries)
BY DEF Valid, Entries, NoEntries

LEMMA SoundHolds ==
    ASSUME Core, Sound, [Next]_vars
    PROVE  Sound'
<1>1. CASE Crash \/ \E p \in Proc : Exit(p)
    BY <1>1, NothingValid DEF Crash, Exit, Shutdown, Sound, Stage, Preparing
<1>2. CASE UNCHANGED vars
    BY <1>2 DEF vars, memory, locks, rest, Sound, Stage
<1>3. ASSUME NEW p \in Proc, Sync(p) \/ Other(p) \/ Arrive(p), ~Exit(p), ~Boot(p) PROVE Sound'
    BY <1>3, StageElsewhere DEF Sound, held, Preparing, SyncSteps
<1>4. ASSUME NEW p \in Proc, Boot(p) PROVE Sound'
  <2>1. p # None /\ pc \in [Proc -> Steps] /\ cfg' = cfg
      BY <1>4, StageOf DEF Boot, Core, TypeOK, ControlOK
  <2>2. Stage' = "saveSecrets"
      BY <1>4, <2>1 DEF Boot, Goto, Stage
  <2> QED
      BY <2>1, <2>2 DEF Sound, Preparing
<1>5. ASSUME NEW p \in Proc, Apply(p) PROVE Sound'
  <2>0. /\ pc \in [Proc -> Steps] /\ None # p /\ staged \in Applies
      BY StageOf DEF Core, TypeOK, ControlOK
  <2>1. CASE Acquire(p)
    <3>1. cfg' = cfg /\ applyMu' \in {None, p} /\ pc'[p] \in {"saveSecrets", "idle"}
        BY <2>0, <2>1 DEF Acquire, Goto, Done, memory
    <3>2. Stage' \notin Preparing
        BY <2>0, <3>1 DEF Stage, Preparing
    <3> QED
        BY <3>1, <3>2 DEF Sound
  <2>2. CASE ~Acquire(p)
    <3>1. applyMu = p /\ Stage = pc[p] /\ (applyMu' = None => Stage' = "none")
          /\ (applyMu' = p => Stage' = pc'[p])
        BY <1>5, <2>2, ApplyAlone, StageOf DEF Core, Stage
    <3>2. CASE Prepare(p)
      <4>1. cfg' = cfg /\ staged'.cand = staged.cand /\ Stage' = pc'[p]
            /\ (pc'[p] = "start" => Valid(staged.cand)) /\ pc'[p] \in {"start", "restoreSecrets"}
          BY <2>0, <3>1, <3>2 DEF Prepare, Goto, memory, locks, Applies
      <4> QED
          BY <4>1 DEF Sound, Preparing
    <3>3. CASE StartWatchers(p) \/ LockFallbacks(p) \/ Reconcile(p) \/ SaveConfig(p) \/ MarkChanged(p) \/ ReadFlags(p)
      <4>1. cfg' = cfg /\ staged'.cand = staged.cand /\ pc[p] \in Preparing
          BY <2>0, <3>3 DEF StartWatchers, LockFallbacks, Reconcile, SaveConfig, MarkChanged, ReadFlags,
             At, memory, Applies, Preparing
      <4> QED
          BY <3>1, <4>1 DEF Sound
    <3>4. CASE SaveSecrets(p) \/ RestoreConfig(p) \/ Unreconcile(p) \/ RestoreSecrets(p)
      <4>1. cfg' = cfg /\ applyMu' \in {None, p}
          BY <3>1, <3>4 DEF SaveSecrets, RestoreConfig, Unreconcile, RestoreSecrets, Abandon, memory, locks
      <4>2. pc'[p] \notin Preparing
          BY <2>0, <3>4 DEF SaveSecrets, RestoreConfig, Unreconcile, RestoreSecrets, Abandon, At, Goto, Preparing
      <4> QED
          BY <3>1, <4>1, <4>2 DEF Sound, Preparing
    <3>5. CASE Abort(p) \/ StopOld(p) \/ InitialSyncs(p)
      <4>1. cfg' = cfg /\ applyMu' \in {None, p}
          BY <3>1, <3>5 DEF Abort, StopOld, StopWatchers, InitialSyncs, memory, locks
      <4>2. pc'[p] \notin Preparing
          BY <2>0, <3>5 DEF Abort, StopOld, StopWatchers, InitialSyncs, Done, At, Goto, Preparing
      <4> QED
          BY <3>1, <4>1, <4>2 DEF Sound, Preparing
    <3>6. CASE Activate(p)
      <4>1. cfg' = staged.cand /\ pc[p] = "activate" /\ applyMu' = p /\ pc'[p] = "stopOld"
          BY <2>0, <3>1, <3>6 DEF Activate, At, Goto
      <4> QED
          BY <3>1, <4>1 DEF Sound, Preparing
    <3> QED
        BY <1>5, <2>2, <3>2, <3>3, <3>4, <3>5, <3>6 DEF Apply
  <2> QED
      BY <2>1, <2>2
<1> QED
    BY <1>1, <1>2, <1>3, <1>4, <1>5 DEF Next

----------------------------------------------------------------------------
(* What an apply does to a configuration and its keys *)

\* Going back, config.json has been restored or was never replaced.
Undoing == {"unreconcile", "abort", "restoreSecrets"}

\* A step of an apply on its way to the activation, or back from an error; the step
\* that gives the candidate up; and those that follow the activation.
Advances(p) ==
    /\ applyMu = p /\ applyMu' = p /\ Stage = pc[p] /\ Stage' = pc'[p]
    /\ Stage \in Candidacy /\ Stage' \in Candidacy
    /\ UNCHANGED <<cfg, secrets, gen, shown, phase, job, destFile>>
    /\ staged'.cand = staged.cand /\ staged'.secrets = staged.secrets
    /\ Stage' \in Preparing =>
          staged'.gen = gen + 1 \/ (Stage \in Preparing /\ staged'.gen = staged.gen)
    /\ Stage \in Undoing => Stage' \in Undoing /\ diskCfg' = diskCfg
    /\ diskSecrets' \in {diskSecrets, staged.secrets}
    /\ diskCfg' \in {diskCfg, staged.cand} \/ (RestoreConfig(p) /\ diskCfg' = cfg)
    /\ torn' \in {torn, TRUE}
Drops(p) ==
    /\ applyMu = p /\ applyMu' = None /\ Stage \in Candidacy /\ Stage' = "none"
    /\ UNCHANGED <<cfg, secrets, gen, shown, phase, diskCfg, destFile>>
    /\ diskSecrets' \in {diskSecrets, staged.secrets, secrets}
    /\ pc'[p] # "wait" /\ torn' \in {torn, TRUE}
Ends(p) ==
    /\ applyMu = p /\ Stage \in {"stopOld", "initial"}
    /\ Stage' \in {"stopOld", "initial", "begin", "none"} /\ pc'[p] # "wait"
    /\ UNCHANGED <<cfg, secrets, gen, shown, diskCfg, diskSecrets, destFile, torn>>
    /\ IF Stage' = "none" THEN phase' = "serving" ELSE phase' = phase

LEMMA ApplyCases ==
    ASSUME Core, NEW p \in Proc, Apply(p), ~Acquire(p)
    PROVE  Advances(p) \/ Drops(p) \/ Activate(p) \/ Ends(p)
<1>0. /\ pc \in [Proc -> Steps] /\ None # p /\ staged \in Applies /\ torn \in BOOLEAN
    BY StageOf DEF Core, TypeOK, ControlOK, FilesOK
<1>1. applyMu = p /\ Stage = pc[p] /\ (applyMu' = None => Stage' = "none")
      /\ (applyMu' = p => Stage' = pc'[p])
    BY ApplyAlone, StageOf DEF Core, Stage
<1>2. CASE Prepare(p) \/ StartWatchers(p) \/ LockFallbacks(p) \/ Reconcile(p) \/ ReadFlags(p)
  <2>1. /\ UNCHANGED <<cfg, secrets, gen, shown, phase, job, destFile, diskCfg, diskSecrets, torn, applyMu>>
        /\ staged'.cand = staged.cand /\ staged'.secrets = staged.secrets
        /\ staged'.gen = IF pc[p] = "prepare" /\ pc'[p] = "start" THEN gen + 1 ELSE staged.gen
      BY <1>0, <1>2 DEF Prepare, StartWatchers, LockFallbacks, Reconcile, ReadFlags, At, Goto,
         memory, locks, files, Applies
  <2>2. /\ pc[p] \in {"prepare", "start", "fbLock", "reconcile", "flags"}
        /\ pc'[p] \in {"start", "fbLock", "reconcile", "saveConfig", "abort", "unreconcile",
                       "restoreSecrets", "activate"}
        /\ pc[p] = "prepare" => pc'[p] \in {"start", "restoreSecrets"}
      BY <1>0, <1>2 DEF Prepare, StartWatchers, LockFallbacks, Reconcile, ReadFlags, At, Goto
  <2> QED
      BY <1>1, <2>1, <2>2 DEF Advances, Candidacy, Undoing, Preparing, Holding, ApplySteps
<1>3. CASE SaveConfig(p) \/ MarkChanged(p) \/ RestoreConfig(p)
  <2>1. /\ UNCHANGED <<cfg, secrets, gen, shown, phase, job, destFile, diskSecrets, applyMu>>
        /\ staged'.cand = staged.cand /\ staged'.secrets = staged.secrets /\ staged'.gen = staged.gen
      BY <1>0, <1>3 DEF SaveConfig, MarkChanged, RestoreConfig, memory, locks, Applies
  <2>2. /\ diskCfg' \in {diskCfg, staged.cand} \/ (RestoreConfig(p) /\ diskCfg' = cfg)
        /\ torn' \in {torn, TRUE}
      BY <1>0, <1>3 DEF SaveConfig, MarkChanged, RestoreConfig, SaveFails
  <2>3. /\ pc[p] \in {"saveConfig", "mark", "restoreConfig"}
        /\ pc'[p] \in {"mark", "unreconcile", "flags", "restoreConfig"}
        /\ pc[p] = "restoreConfig" => pc'[p] = "unreconcile"
      BY <1>0, <1>3 DEF SaveConfig, MarkChanged, RestoreConfig, At, Goto
  <2> QED
      BY <1>1, <2>1, <2>2, <2>3 DEF Advances, Candidacy, Undoing, Preparing, Holding, ApplySteps
<1>4. CASE Unreconcile(p) \/ Abort(p)
  <2>1. /\ UNCHANGED <<cfg, secrets, gen, shown, phase, job, destFile, diskCfg, diskSecrets, applyMu>>
        /\ staged'.cand = staged.cand /\ staged'.secrets = staged.secrets
        /\ torn' \in {torn, TRUE}
      BY <1>0, <1>4 DEF Unreconcile, Abort, StopWatchers, memory, locks, files, Applies
  <2>2. /\ pc[p] \in {"unreconcile", "abort"}
        /\ pc'[p] \in {"unreconcile", "abort", "restoreSecrets"}
      BY <1>0, <1>4 DEF Unreconcile, Abort, StopWatchers, At, Goto
  <2> QED
      BY <1>1, <2>1, <2>2 DEF Advances, Candidacy, Undoing, Preparing, Holding, ApplySteps
<1>5. CASE SaveSecrets(p)
  <2>1. /\ UNCHANGED <<cfg, secrets, gen, shown, phase, diskCfg, destFile>> /\ pc[p] = "saveSecrets"
        /\ diskSecrets' \in {diskSecrets, staged.secrets} /\ torn' \in {torn, TRUE}
      BY <1>0, <1>5 DEF SaveSecrets, SaveFails, At, memory
  <2>2. CASE Goto(p, "prepare") /\ UNCHANGED <<applyMu, staged, job>>
      BY <1>0, <1>1, <2>1, <2>2 DEF Advances, Goto, Candidacy, Undoing, Preparing, Holding, ApplySteps
  <2>3. CASE Abandon(p)
      BY <1>0, <1>1, <2>1, <2>3 DEF Drops, Abandon, Goto, Candidacy, Holding, ApplySteps
  <2> QED
      BY <1>5, <2>2, <2>3 DEF SaveSecrets
<1>6. CASE RestoreSecrets(p)
  <2>1. /\ UNCHANGED <<cfg, secrets, gen, shown, phase, diskCfg, destFile>> /\ pc[p] = "restoreSecrets"
        /\ diskSecrets' \in {diskSecrets, secrets} /\ torn' \in {torn, TRUE} /\ Abandon(p)
      BY <1>0, <1>6 DEF RestoreSecrets, SaveFails, At, memory
  <2> QED
      BY <1>0, <1>1, <2>1 DEF Drops, Abandon, Goto, Candidacy, Holding, ApplySteps
<1>7. CASE StopOld(p) \/ InitialSyncs(p)
  <2>1. /\ pc[p] \in {"stopOld", "initial"} /\ pc'[p] \in {"stopOld", "initial", "begin", "idle"}
        /\ UNCHANGED <<cfg, secrets, gen, shown, diskCfg, diskSecrets, destFile, torn>>
        /\ \/ applyMu' = None /\ phase' = "serving"
           \/ applyMu' = applyMu /\ phase' = phase /\ pc'[p] # "idle"
      BY <1>0, <1>7 DEF StopOld, StopWatchers, InitialSyncs, Done, At, Goto, memory, locks, files
  <2> QED
      BY <1>1, <2>1 DEF Ends
<1> QED
    BY <1>2, <1>3, <1>4, <1>5, <1>6, <1>7 DEF Apply

\* What a goroutine that is not applying does to the generation and the statuses.
LEMMA OthersCount ==
    ASSUME Core, NEW p \in Proc, Sync(p) \/ Other(p) \/ Arrive(p), ~Exit(p), ~Boot(p)
    PROVE  /\ gen' = gen \/ Terminate(p)
           /\ shown' = shown \/ (Current(p) /\ job[p].name \in Name)
           /\ pc'[p] = "wait" => phase = "serving"
<1>0. pc \in [Proc -> Steps]
    BY DEF Core, TypeOK, ControlOK
<1>1. CASE Sync(p)
  <2>1. gen' = gen
      BY <1>1 DEF Sync, Begin, RLockFallbacks, LockDestination, BeginFetch, EndFetch,
         Install, Ensure, MarkSync, Record, memory
  <2>2. shown' = shown \/ (Record(p) /\ Current(p))
      BY <1>1 DEF Sync, Begin, RLockFallbacks, LockDestination, BeginFetch, EndFetch,
         Install, Ensure, MarkSync, Record, memory
  <2>3. Record(p) => job[p].name \in Name
      BY DEF Record, At, Core, Control, Named, SyncSteps
  <2>4. pc'[p] # "wait"
      BY <1>1, SyncMoves DEF Core, Proceeds, Returns, Started, SyncSteps
  <2> QED
      BY <2>1, <2>2, <2>3, <2>4
<1>2. CASE Other(p)
  <2>1. gen' = gen
      BY <1>2 DEF Other, RecordValidation, ClearFlags, Drain, StopWatchers, memory
  <2>2. shown' = shown \/ (RecordValidation(p) /\ Current(p))
      BY <1>2 DEF Other, RecordValidation, ClearFlags, Drain, StopWatchers, memory
  <2>3. RecordValidation(p) => job[p].name \in Name
      BY DEF RecordValidation, At, Core, Control, Named
  <2>4. pc'[p] # "wait"
      BY <1>2, OtherMoves DEF Core, Rests
  <2> QED
      BY <2>1, <2>2, <2>3, <2>4
<1>3. CASE Arrive(p)
  <2>1. (gen' = gen \/ Terminate(p)) /\ shown' = shown
      BY <1>3 DEF Arrive, Request, SyncNow, ValidateNow, Tick, Acknowledge, Terminate, memory
  <2>2. pc'[p] = "wait" => phase = "serving"
      BY <1>0, <1>3 DEF Arrive, Request, SyncNow, ValidateNow, Tick, Acknowledge, Terminate, Goto
  <2> QED
      BY <2>1, <2>2
<1> QED
    BY <1>1, <1>2, <1>3

----------------------------------------------------------------------------
(* Starting up and pruned keys *)

\* Generation 0 means that nothing has been activated, which main does before it serves.
Epoch ==
    /\ phase = "serving" => gen # 0
    /\ phase = "boot" => (gen = 0 <=> Stage \in Candidacy \cup {"none"})
    /\ gen = 0 => cfg = NoEntries /\ shown = NoEntries
    /\ Stage \in Preparing => staged.gen # 0
    /\ \A p \in Proc : pc[p] = "wait" => phase = "serving"
    /\ Terminating => phase = "serving"

\* The active keys are those of remote entries, and so are the candidate's, which
\* are the active ones with what the request changes.
Trimmed ==
    /\ gen # 0 => secrets = Prune(cfg, secrets)
    /\ phase = "serving" /\ Stage \in Candidacy =>
          staged.secrets = Prune(staged.cand, Rekey(secrets, job[applyMu].req))

\* While main applies what it has read, the files say that, pruned or not, or, after
\* an error, nothing.
Starting ==
    phase = "boot" /\ Stage \in Candidacy =>
        /\ staged.secrets = Prune(staged.cand, secrets)
        /\ diskSecrets \in {secrets, staged.secrets}
        /\ diskCfg \in {staged.cand, NoEntries}
        /\ Stage \notin Undoing => diskCfg = staged.cand

LEMMA PruneTwice ==
    ASSUME NEW c, NEW s
    PROVE  Prune(c, Prune(c, s)) = Prune(c, s)
BY DEF Prune

LEMMA PruneNothing == ASSUME NEW s PROVE Prune(NoEntries, s) = NoEntries
BY DEF Prune, Remotes, Entries, NoEntries

\* The end of a process, its start, and the ends of an apply's candidacy.
LEMMA ShutdownStage ==
    ASSUME Shutdown
    PROVE  /\ Stage' = "none" /\ Stage' \notin Candidacy /\ ~Terminating'
           /\ gen' = 0 /\ cfg' = NoEntries /\ secrets' = NoEntries /\ shown' = NoEntries
           /\ phase' = "down" /\ UNCHANGED <<files, torn>> /\ \A p \in Proc : pc'[p] = "idle"
BY DEF Shutdown, Stage, Candidacy, Holding, ApplySteps, Terminating, NoEntries

LEMMA BootStage ==
    ASSUME Core, NEW p \in Proc, Boot(p)
    PROVE  /\ Stage' = "saveSecrets" /\ phase = "down" /\ phase' = "boot" /\ gen = 0 /\ gen' = 0
           /\ cfg = NoEntries /\ cfg' = NoEntries /\ shown' = shown /\ UNCHANGED <<files, torn>>
           /\ secrets' = diskSecrets /\ staged'.cand = diskCfg
           /\ staged'.secrets = Prune(diskCfg, diskSecrets)
           /\ \A q \in Proc : pc'[q] # "wait" /\ pc[q] = "idle"
<1>1. /\ p # None /\ pc \in [Proc -> Steps] /\ phase = "down" /\ cfg = NoEntries /\ gen = 0
      /\ \A q \in Proc : pc[q] = "idle"
    BY StageOf DEF Boot, Core, Control, Fallow, TypeOK, ControlOK
<1>2. pc' = [pc EXCEPT ![p] = "saveSecrets"] /\ applyMu' = p
    BY <1>1 DEF Boot, Goto
<1>3. Stage' = "saveSecrets" /\ \A q \in Proc : pc'[q] # "wait"
    BY <1>1, <1>2 DEF Stage
<1>4. staged'.cand = diskCfg /\ staged'.secrets = Prune(diskCfg, diskSecrets)
    BY DEF Boot, NoApply
<1> QED
    BY <1>1, <1>3, <1>4 DEF Boot

LEMMA AcquireStage ==
    ASSUME Core, NEW p \in Proc, Acquire(p)
    PROVE  /\ UNCHANGED <<cfg, secrets, gen, shown, phase, files, torn>>
           /\ Stage = "none" /\ pc[p] = "wait" /\ pc'[p] # "wait" /\ applyMu = None
           /\ \/ Stage' = "none" /\ applyMu' = None
              \/ /\ Stage' = "saveSecrets" /\ applyMu' = p /\ job' = job /\ job[p].req \in Requests
                 /\ Accepts(cfg, job[p].req)
                 /\ staged'.cand = Candidate(cfg, job[p].req)
                 /\ staged'.secrets = Prune(staged'.cand, Rekey(secrets, job[p].req))
                 /\ Credentialed(staged'.cand, staged'.secrets)
<1>0. None # p /\ pc \in [Proc -> Steps]
    BY StageOf DEF Core, TypeOK, ControlOK
<1>1. UNCHANGED <<cfg, secrets, gen, shown, phase, files, torn>> /\ Stage = "none" /\ pc[p] = "wait"
      /\ applyMu = None /\ pc'[p] # "wait"
    BY <1>0 DEF Acquire, Stage, memory, At, Goto, Done
<1> DEFINE c == Candidate(cfg, job[p].req)
           k == Prune(c, Rekey(secrets, job[p].req))
<1>2. CASE Done(p) /\ applyMu' = None
    BY <1>1, <1>2 DEF Stage
<1>3. CASE /\ Accepts(cfg, job[p].req) /\ Credentialed(c, k) /\ applyMu' = p
           /\ staged' = [NoApply EXCEPT !.cand = c, !.secrets = k]
           /\ pc' = [pc EXCEPT ![p] = "saveSecrets"] /\ job' = job
  <2>1. staged'.cand = c /\ staged'.secrets = k
      BY <1>3 DEF NoApply
  <2>2. Stage' = "saveSecrets" /\ job[p].req \in Requests
      BY <1>0, <1>1, <1>3 DEF Stage, Core, Control, Named
  <2> HIDE DEF c, k
  <2>3. k = Prune(c, Rekey(secrets, job[p].req))
      BY DEF k
  <2> QED
      BY <1>1, <1>3, <2>1, <2>2, <2>3 DEF c
<1> QED
    BY <1>1, <1>2, <1>3 DEF Acquire, Goto

LEMMA ActivateStage ==
    ASSUME Core, NEW p \in Proc, Activate(p)
    PROVE  /\ applyMu = p /\ applyMu' = p /\ Stage = "activate" /\ Stage' = "stopOld" /\ pc'[p] # "wait"
           /\ cfg' = staged.cand /\ secrets' = staged.secrets /\ gen' = staged.gen
           /\ shown' = NoEntries /\ UNCHANGED <<phase, files, torn>>
<1>0. pc \in [Proc -> Steps] /\ None # p
    BY StageOf DEF Core, TypeOK, ControlOK
<1>1. applyMu = p /\ Stage = "activate"
    BY StageOf DEF Activate, At, Holding, ApplySteps
<1>2. applyMu' = p /\ pc'[p] = "stopOld"
    BY <1>0, <1>1 DEF Activate, Goto
<1> QED
    BY <1>0, <1>1, <1>2 DEF Activate, Stage, NoEntries

LEMMA EpochHolds ==
    ASSUME Core, Epoch, [Next]_vars
    PROVE  Epoch'
<1>0. gen \in Nat /\ phase \in {"down", "boot", "serving"}
    BY ManagerAssumption DEF Core, TypeOK, MemoryOK, ControlOK
<1>1. ASSUME Shutdown PROVE Epoch'
    BY <1>1, ShutdownStage DEF Epoch, Preparing, Candidacy
<1>2. CASE UNCHANGED vars
    BY <1>2 DEF vars, memory, locks, rest, Epoch, Stage, Terminating
<1>3. ASSUME NEW p \in Proc, Apply(p) \/ Sync(p) \/ Other(p) \/ Arrive(p), ~Exit(p) PROVE Epoch'
  <2>0. ASSUME pc'[p] = "wait" => phase' = "serving", phase = "serving" => phase' = "serving",
               ~Terminate(p)
        PROVE  /\ \A q \in Proc : pc'[q] = "wait" => phase' = "serving"
               /\ Terminating' => phase' = "serving"
    <3>1. Terminating' => Terminating
      <4>1. SUFFICES ASSUME NEW q \in Proc, Terminate(q) PROVE q = p
          BY <1>3, <2>0, TerminatingBegins DEF Next
      <4>2. pc[q] = "idle" /\ pc'[q] = "drain"
          BY <4>1 DEF Terminate, At, Goto, Core, TypeOK, ControlOK
      <4> QED
          BY <1>3, <4>2, Elsewhere DEF Core
    <3> QED
        BY <1>3, <2>0, <3>1, Elsewhere DEF Core, Epoch
  <2>1. CASE Terminate(p)
    <3>1. UNCHANGED held /\ (Stage' = Stage \/ (Stage \in SyncSteps /\ Stage' \in SyncSteps \cup {"initial"}))
      <4>1. ~Exit(p) /\ ~Boot(p) /\ Arrive(p)
          BY <1>3, <2>1 DEF Terminate, Boot, Arrive
      <4> QED
          BY <4>1, StageElsewhere
    <3>2. gen' = gen + 1 /\ UNCHANGED <<cfg, shown, phase, staged>> /\ phase = "serving"
        BY <2>1 DEF Terminate
    <3>3. Stage' \in Preparing => Stage \in Preparing
        BY <3>1 DEF Preparing, SyncSteps
    <3> QED
        BY <1>0, <3>2, <3>3 DEF Epoch
  <2>2. CASE (Sync(p) \/ Other(p) \/ Arrive(p)) /\ ~Boot(p) /\ ~Terminate(p)
    <3>1. /\ UNCHANGED held
          /\ Stage' = Stage \/ (Stage \in SyncSteps /\ Stage' \in SyncSteps \cup {"initial"})
        BY <1>3, <2>2, StageElsewhere
    <3>2. /\ gen' = gen /\ (shown' = shown \/ (Current(p) /\ job[p].name \in Name))
          /\ pc'[p] = "wait" => phase = "serving"
        BY <1>3, <2>2, OthersCount
    <3>3. gen = 0 => shown' = shown
        BY <3>2 DEF Epoch, Current, NoEntries
    <3>4. /\ Stage' \in Preparing => Stage \in Preparing
          /\ Stage' \in Candidacy \cup {"none"} <=> Stage \in Candidacy \cup {"none"}
        BY <3>1 DEF Preparing, Candidacy, Holding, ApplySteps, SyncSteps
    <3>5. UNCHANGED <<cfg, phase, staged>>
        BY <3>1 DEF held
    <3> QED
        BY <2>0, <2>2, <3>2, <3>3, <3>4, <3>5 DEF Epoch
  <2>3. CASE Boot(p)
    <3>1. ~Terminate(p)
        BY <2>3 DEF Boot, Terminate
    <3>2. phase = "down" /\ phase' = "boot" /\ pc'[p] # "wait"
        BY <2>3, BootStage
    <3> QED
        BY <2>0, <2>3, <3>1, <3>2, BootStage DEF Epoch, Candidacy, Preparing, Holding, ApplySteps
  <2>4. CASE Apply(p)
    <3>0. ~Terminate(p)
        BY <2>4 DEF Apply, Terminate, At, Acquire, SaveSecrets, Prepare, StartWatchers, LockFallbacks,
           Reconcile, SaveConfig, MarkChanged, RestoreConfig, Unreconcile, Abort, StopOld,
           StopWatchers, RestoreSecrets, ReadFlags, InitialSyncs, Activate
    <3>1. CASE Acquire(p)
      <4>1. phase = "serving"
          BY <3>1, AcquireStage DEF Epoch
      <4> QED
          BY <2>0, <3>0, <3>1, <4>1, AcquireStage DEF Epoch, Preparing
    <3>2. CASE Advances(p)
      <4>1. pc'[p] # "wait"
          BY <3>2 DEF Advances, Candidacy, Holding
      <4>2. Stage' \in Preparing => staged'.gen # 0
          BY <1>0, <3>2 DEF Advances, Epoch
      <4> QED
          BY <2>0, <3>0, <3>2, <4>1, <4>2 DEF Advances, Epoch
    <3>3. CASE Drops(p)
        BY <2>0, <3>0, <3>3 DEF Drops, Epoch, Preparing
    <3>4. CASE Activate(p)
        BY <2>0, <3>0, <3>4, ActivateStage DEF Epoch, Preparing, Candidacy, Holding
    <3>5. CASE Ends(p)
      <4>1. Stage' \notin Preparing /\ Stage \notin Candidacy \cup {"none"}
          BY <3>5 DEF Ends, Preparing, Candidacy
      <4>2. Stage' \notin Candidacy /\ (Stage' = "none" => phase' = "serving")
          BY <3>5 DEF Ends, Candidacy, Holding, ApplySteps
      <4>3. phase # "down"
          BY <4>1, FallowIdle, <2>4, <3>5 DEF Ends, Core, Stage
      <4>4. gen # 0
          BY <1>0, <4>1, <4>3 DEF Epoch
      <4> QED
          BY <2>0, <3>0, <3>5, <4>1, <4>2, <4>4 DEF Ends, Epoch
    <3> QED
        BY <2>4, <3>1, <3>2, <3>3, <3>4, <3>5, ApplyCases
  <2> QED
      BY <1>3, <2>1, <2>2, <2>3, <2>4
<1> QED
    BY <1>1, <1>2, <1>3 DEF Next, Crash, Exit

LEMMA TrimmedHolds ==
    ASSUME Core, Pact, Epoch, Trimmed, Starting, [Next]_vars
    PROVE  Trimmed' /\ Starting'
<1>0. phase \in {"down", "boot", "serving"}
    BY DEF Core, TypeOK, ControlOK
<1>1. ASSUME Shutdown PROVE Trimmed' /\ Starting'
    BY <1>1, ShutdownStage DEF Trimmed, Starting
<1>2. CASE UNCHANGED vars
    BY <1>2 DEF vars, memory, locks, files, rest, Trimmed, Starting, Stage
<1>3. ASSUME NEW p \in Proc, Sync(p) \/ Other(p) \/ Arrive(p), ~Exit(p), ~Boot(p)
      PROVE  Trimmed' /\ Starting'
  <2>1. UNCHANGED <<staged, cfg, secrets, diskCfg, diskSecrets, applyMu, phase>>
      BY <1>3, StageElsewhere DEF held
  <2>2. Stage' \in Candidacy => Stage' = Stage /\ job'[applyMu] = job[applyMu]
      BY <1>3, StageElsewhere DEF Candidacy, Holding, ApplySteps, SyncSteps
  <2>3. gen' # 0 => gen # 0
      BY <1>3, OthersCount DEF Terminate, Epoch
  <2> QED
      BY <2>1, <2>2, <2>3 DEF Trimmed, Starting
<1>4. ASSUME NEW p \in Proc, Boot(p) PROVE Trimmed' /\ Starting'
    BY <1>4, BootStage DEF Trimmed, Starting, files
<1>5. ASSUME NEW p \in Proc, Acquire(p) PROVE Trimmed' /\ Starting'
  <2>1. phase = "serving"
      BY <1>5, AcquireStage DEF Epoch
  <2> QED
      BY <1>5, <2>1, AcquireStage DEF Trimmed, Starting, Candidacy, Holding, ApplySteps
<1>6. ASSUME NEW p \in Proc, Activate(p) PROVE Trimmed' /\ Starting'
  <2>1. Stage \in Candidacy
      BY <1>6, ActivateStage DEF Candidacy, Holding, ApplySteps
  <2>2. phase # "down"
      BY <1>6, <2>1, ActivateStage, FallowIdle DEF Core
  <2>3. \E s : staged.secrets = Prune(staged.cand, s)
      BY <1>0, <2>1, <2>2 DEF Trimmed, Starting
  <2> QED
      BY <1>6, <2>3, ActivateStage, PruneTwice DEF Trimmed, Starting, Candidacy
<1>7. ASSUME NEW p \in Proc, Advances(p) PROVE Trimmed' /\ Starting'
  <2>1. Trimmed'
      BY <1>7 DEF Advances, Trimmed
  <2>2. ASSUME phase = "boot", Stage' \notin Undoing PROVE diskCfg' = staged.cand
    <3>1. diskCfg = staged.cand /\ Stage \notin Undoing
        BY <1>7, <2>2 DEF Advances, Starting
    <3>2. ~RestoreConfig(p)
        BY <1>7, <2>2 DEF Advances, RestoreConfig, At, Goto, Undoing, Core, TypeOK, ControlOK
    <3> QED
        BY <1>7, <3>1, <3>2 DEF Advances
  <2>3. phase = "boot" => cfg = NoEntries
      BY <1>7 DEF Advances, Epoch
  <2>4. Starting'
      BY <1>7, <2>2, <2>3 DEF Advances, Starting
  <2> QED
      BY <2>1, <2>4
<1>8. ASSUME NEW p \in Proc, Drops(p) \/ Ends(p) PROVE Trimmed' /\ Starting'
  <2>1. Stage' \notin Candidacy
      BY <1>8 DEF Drops, Ends, Candidacy, Holding, ApplySteps
  <2> QED
      BY <1>8, <2>1 DEF Drops, Ends, Trimmed, Starting
<1> QED
    BY <1>1, <1>2, <1>3, <1>4, <1>5, <1>6, <1>7, <1>8, ApplyCases DEF Next, Crash, Exit

----------------------------------------------------------------------------
(* The implementation of ActivationService *)

\* ActivationService and Manager mean the same by a configuration.
LEMMA SameConfigurations ==
    /\ Abstract!NoEntries = NoEntries
    /\ \A c : Abstract!Entries(c) = Entries(c) /\ Abstract!Remotes(c) = Remotes(c)
    /\ \A c : Abstract!Valid(c) <=> Valid(c)
    /\ \A c, s : /\ Abstract!Credentialed(c, s) <=> Credentialed(c, s)
                 /\ Abstract!Prune(c, s) = Prune(c, s)
    /\ \A c, r : /\ Abstract!Accepts(c, r) = Accepts(c, r)
                 /\ Abstract!Candidate(c, r) = Candidate(c, r)
                 /\ Abstract!Rekey(c, r) = Rekey(c, r)
    /\ \A e : Abstract!Dest(e) = Dest(e)
    /\ \A c, k : Abstract!Saved(c, k) = [cfg |-> c, keys |-> k]
<1>1. Abstract!NoEntries = NoEntries
    BY DEF Abstract!NoEntries, NoEntries
<1>2. \A c : Abstract!Entries(c) = Entries(c) /\ Abstract!Remotes(c) = Remotes(c)
    BY DEF Abstract!Entries, Entries, Abstract!Remotes, Remotes
<1>3. \A e : Abstract!Dest(e) = Dest(e)
    BY DEF Abstract!Dest, Dest
<1>4. \A c : Abstract!Valid(c) <=> Valid(c)
    BY <1>2, <1>3 DEF Abstract!Valid, Valid
<1>5. \A c, s : /\ Abstract!Credentialed(c, s) <=> Credentialed(c, s)
                /\ Abstract!Prune(c, s) = Prune(c, s)
    BY <1>2 DEF Abstract!Credentialed, Credentialed, Abstract!Prune, Prune
<1>6. \A c, r : Abstract!Accepts(c, r) = Accepts(c, r)
    BY DEF Abstract!Accepts, Accepts
<1>7. \A c, r : Abstract!Candidate(c, r) = Candidate(c, r)
    BY DEF Abstract!Candidate, Candidate
<1>8. \A c, r : Abstract!Rekey(c, r) = Rekey(c, r)
    BY DEF Abstract!Rekey, Rekey
<1>9. \A c, k : Abstract!Saved(c, k) = [cfg |-> c, keys |-> k]
    BY DEF Abstract!Saved
<1> QED
    BY <1>1, <1>2, <1>3, <1>4, <1>5, <1>6, <1>7, <1>8, <1>9

\* A change is under way while the candidate is not active.
LEMMA UnderWayIs ==
    /\ UnderWay = IF gen # 0 /\ Stage \in Candidacy THEN job[applyMu].req ELSE None
    /\ UnderWay' = IF gen' # 0 /\ Stage' \in Candidacy THEN job'[applyMu'].req ELSE None
BY DEF UnderWay, Stage, Candidacy, Holding, ApplySteps

\* What ActivationService does not see.
LEMMA Stutters ==
    ASSUME gen' # 0 <=> gen # 0, UNCHANGED <<cfg, destFile, shown, torn>>,
           gen # 0 => secrets' = secrets, UnderWay' = UnderWay, Stored' = Stored,
           Terminating' <=> Terminating
    PROVE  UNCHANGED Abstract!vars
BY DEF Abstract!vars

Service ==
    /\ Core /\ Pact /\ Sound /\ Epoch /\ Trimmed /\ Starting
    /\ Terminating \/ IInv

LEMMA ShutdownImplements ==
    ASSUME Service, Shutdown
    PROVE  Abstract!Stop \/ UNCHANGED Abstract!vars
<1>0. phase \in {"down", "boot", "serving"} /\ gen \in Nat /\ torn \in BOOLEAN
    BY ManagerAssumption DEF Service, Core, TypeOK, ControlOK, MemoryOK, FilesOK
<1>1. /\ Stage' \notin Candidacy /\ ~Terminating' /\ gen' = 0 /\ cfg' = NoEntries
      /\ shown' = NoEntries /\ UNCHANGED <<files, torn>>
    BY ShutdownStage
<1>2. UnderWay' = None /\ Stored' = [cfg |-> diskCfg, keys |-> Prune(diskCfg, diskSecrets)]
    BY <1>1, UnderWayIs DEF Stored, files
<1>3. CASE gen = 0
  <2>1. ~Terminating /\ cfg = NoEntries /\ shown = NoEntries
      BY <1>3 DEF Service, Epoch
  <2>2. UnderWay = None /\ Stored' = Stored
      BY <1>2, <1>3, UnderWayIs DEF Stored
  <2> QED
      BY <1>1, <1>2, <1>3, <2>1, <2>2, Stutters DEF files
<1>4. CASE gen # 0
  <2>1. phase # "down" /\ Stored = [cfg |-> cfg, keys |-> secrets] /\ secrets = Prune(cfg, secrets)
        /\ (Stage \in Candidacy \cup {"none"} => phase = "serving")
      BY <1>0, <1>4 DEF Service, Core, Control, Fallow, Epoch, Stored, Trimmed
  <2>2. \/ torn
        \/ Stored' = Stored
        \/ /\ UnderWay # None
           /\ Stored' \in {[cfg |-> cfg, keys |-> Prune(cfg, Abstract!NewKeys(UnderWay))],
                           [cfg |-> Candidate(cfg, UnderWay), keys |-> Abstract!NewKeys(UnderWay)]}
    <3>1. CASE Stage \notin Candidacy /\ ~torn
      <4>1. Stage \notin KeysSaved /\ Stage \notin ConfigSaved
          BY <3>1 DEF KeysSaved, ConfigSaved, Candidacy, Holding, ApplySteps
      <4>2. diskCfg = cfg /\ diskSecrets = secrets
          BY <1>0, <2>1, <3>1, <4>1 DEF Service, Pact, Agree
      <4> QED
          BY <1>2, <2>1, <4>2
    <3>2. CASE Stage \in Candidacy /\ ~torn
      <4> DEFINE r == job[applyMu].req
      <4>1. UnderWay = r /\ r \in Requests /\ r # None /\ staged.cand = Candidate(cfg, r)
          BY <1>4, <2>1, <3>2, UnderWayIs, RequestAssumption DEF Service, Pact, Latest
      <4>2. staged.secrets = Prune(staged.cand, Rekey(secrets, r))
          BY <2>1, <3>2 DEF Service, Trimmed
      <4>3. Abstract!NewKeys(r) = staged.secrets
          BY <1>4, <4>1, <4>2, SameConfigurations DEF Abstract!NewKeys
      <4>4. Prune(staged.cand, staged.secrets) = staged.secrets
          BY <4>2, PruneTwice
      <4>5. CASE Stage = "saveSecrets"
        <5>1. diskCfg = cfg /\ diskSecrets = secrets
            BY <2>1, <3>2, <4>5 DEF Service, Pact, Agree, KeysSaved, ConfigSaved
        <5> QED
            BY <1>2, <2>1, <5>1
      <4>6. CASE Stage # "saveSecrets" /\ Stage \notin ConfigSaved
        <5>1. diskCfg = cfg /\ diskSecrets = staged.secrets
            BY <2>1, <3>2, <4>6 DEF Service, Pact, Agree, KeysSaved
        <5> QED
            BY <1>2, <4>1, <4>3, <5>1
      <4>7. CASE Stage \in ConfigSaved
        <5>1. diskCfg = staged.cand /\ diskSecrets = staged.secrets
            BY <2>1, <3>2, <4>7 DEF Service, Pact, Agree, KeysSaved, ConfigSaved
        <5> QED
            BY <1>2, <4>1, <4>3, <4>4, <5>1
      <4> QED
          BY <4>5, <4>6, <4>7
    <3> QED
        BY <1>0, <3>1, <3>2
  <2>3. UNCHANGED <<destFile, torn>>
      BY <1>1 DEF files
  <2> QED
      BY <1>1, <1>2, <1>4, <2>2, <2>3, SameConfigurations DEF Abstract!Stop
<1> QED
    BY <1>3, <1>4

\* Only /term and the end of the process change whether the service is ending.
LEMMA EndingStays ==
    ASSUME Core, [Next]_vars, ~Shutdown, ~\E p \in Proc : Terminate(p)
    PROVE  Terminating' <=> Terminating
BY TerminatingStays, TerminatingBegins DEF Terminating

\* The making of a candidate; what does not become one is refused.
LEMMA AcquireImplements ==
    ASSUME Service, NEW p \in Proc, Acquire(p), Terminating' <=> Terminating
    PROVE  (\E r \in Requests : Abstract!Begin(r)) \/ UNCHANGED Abstract!vars
<1> DEFINE r == job[p].req
<1>1. /\ UNCHANGED <<cfg, secrets, gen, shown, phase, files, torn>> /\ gen # 0
      /\ Stage = "none" /\ UnderWay = None /\ Stored' = Stored
  <2>1. /\ UNCHANGED <<cfg, secrets, gen, shown, phase, files, torn>> /\ Stage = "none"
        /\ pc[p] = "wait"
      BY AcquireStage DEF Service
  <2>2. gen # 0
      BY <2>1 DEF Service, Epoch
  <2>3. UnderWay = None
      BY <2>1, UnderWayIs DEF Candidacy, Holding, ApplySteps
  <2> QED
      BY <2>1, <2>2, <2>3 DEF Stored, files
<1>2. CASE Stage' = "none"
  <2>1. UnderWay' = None
      BY <1>2, UnderWayIs DEF Candidacy, Holding, ApplySteps
  <2> QED
      BY <1>1, <2>1, Stutters DEF files
<1>3. CASE /\ Stage' = "saveSecrets" /\ applyMu' = p /\ job' = job /\ r \in Requests
           /\ Accepts(cfg, r)
           /\ staged'.cand = Candidate(cfg, r)
           /\ staged'.secrets = Prune(staged'.cand, Rekey(secrets, r))
           /\ Credentialed(staged'.cand, staged'.secrets)
  <2>1. UnderWay' = r
      BY <1>1, <1>3, UnderWayIs DEF Candidacy, Holding, ApplySteps
  <2>2. Abstract!Accepts(cfg, r) /\ Abstract!Credentialed(Abstract!Candidate(cfg, r), Abstract!NewKeys(r))
      BY <1>1, <1>3, SameConfigurations DEF Abstract!NewKeys
  <2>3. Abstract!Begin(r)
      BY <1>1, <2>1, <2>2 DEF Abstract!Begin, files
  <2> QED
      BY <1>3, <2>3
<1> QED
    BY <1>2, <1>3, AcquireStage DEF Service

\* The activation, of a change or of what main has read.
LEMMA ActivateImplements ==
    ASSUME Service, Service', NEW p \in Proc, Activate(p), Terminating' <=> Terminating
    PROVE  Abstract!Commit \/ Abstract!Start
<1>0. phase \in {"down", "boot", "serving"}
    BY DEF Service, Core, TypeOK, ControlOK
<1>1. /\ applyMu = p /\ Stage = "activate" /\ Stage' = "stopOld"
      /\ cfg' = staged.cand /\ secrets' = staged.secrets /\ gen' = staged.gen
      /\ shown' = NoEntries /\ UNCHANGED <<phase, files, torn>>
    BY ActivateStage DEF Service
<1>2. Stage \in Candidacy /\ Stage \in Preparing /\ Stage' \notin Candidacy /\ Stage \notin Undoing
    BY <1>1 DEF Candidacy, Preparing, Undoing, Holding, ApplySteps
<1>3. gen' # 0 /\ UnderWay' = None /\ phase # "down"
    BY <1>1, <1>2, UnderWayIs, FallowIdle DEF Service, Core, Epoch
<1>4. Valid(cfg') /\ Credentialed(cfg', secrets') /\ Stored' = [cfg |-> cfg', keys |-> secrets']
    BY <1>1, <1>2, <1>3 DEF Service, Sound, Pact, Keyed, Stored
<1>5. CASE phase = "serving"
  <2> DEFINE r == job[applyMu].req
  <2>1. gen # 0 /\ UnderWay = r /\ r # None /\ cfg' = Candidate(cfg, r)
      BY <1>1, <1>2, <1>5, UnderWayIs, RequestAssumption DEF Service, Pact, Latest, Epoch
  <2>2. Abstract!NewKeys(r) = secrets'
      BY <1>1, <1>2, <1>5, <2>1, SameConfigurations DEF Service, Trimmed, Abstract!NewKeys
  <2> HIDE DEF r
  <2> QED
      BY <1>1, <1>3, <1>4, <2>1, <2>2, SameConfigurations DEF Abstract!Commit, files
<1>6. CASE phase = "boot"
  <2>1. gen = 0 /\ UnderWay = None /\ shown = NoEntries
      BY <1>2, <1>6, UnderWayIs DEF Service, Epoch
  <2>2. Stored = [cfg |-> cfg', keys |-> secrets']
    <3>1. diskCfg = staged.cand /\ staged.secrets = Prune(staged.cand, secrets)
          /\ diskSecrets \in {secrets, staged.secrets}
        BY <1>2, <1>6 DEF Service, Starting
    <3>2. Prune(diskCfg, diskSecrets) = staged.secrets
        BY <3>1, PruneTwice
    <3> QED
        BY <1>1, <2>1, <3>1, <3>2 DEF Stored
  <2>3. UNCHANGED <<destFile, shown, torn>>
      BY <1>1, <2>1 DEF files
  <2> QED
      BY <1>3, <1>4, <2>1, <2>2, <2>3, SameConfigurations DEF Abstract!Start
<1> QED
    BY <1>0, <1>3, <1>5, <1>6

\* A step on the way, one that gives up, or one after the activation.
LEMMA AdvanceImplements ==
    ASSUME Service, NEW p \in Proc, Advances(p), Terminating' <=> Terminating
    PROVE  Abstract!Damage \/ Abstract!Wipe \/ UNCHANGED Abstract!vars
<1>0. phase \in {"down", "boot", "serving"} /\ phase # "down" /\ torn \in BOOLEAN
    BY FallowIdle DEF Service, Core, TypeOK, ControlOK, FilesOK, Advances, Applying, Stage, Candidacy
<1>1. UNCHANGED <<cfg, secrets, gen, shown, phase, job, applyMu, destFile>> /\ torn' \in {torn, TRUE}
      /\ UnderWay' = UnderWay
    BY UnderWayIs DEF Advances
<1>2. CASE phase = "serving"
  <2>1. gen # 0 /\ UnderWay # None
      BY <1>2, UnderWayIs, RequestAssumption DEF Service, Epoch, Pact, Latest, Advances
  <2>2. Stored' = Stored
      BY <1>1, <2>1 DEF Stored
  <2>3. CASE torn' = torn
      BY <1>1, <2>2, <2>3, Stutters
  <2>4. CASE torn'
      BY <1>1, <2>1, <2>2, <2>4 DEF Abstract!Damage
  <2> QED
      BY <1>1, <2>3, <2>4
<1>3. CASE phase = "boot"
  <2>1. gen = 0 /\ cfg = NoEntries
      BY <1>3 DEF Service, Epoch, Advances
  <2>2. /\ staged.secrets = Prune(staged.cand, secrets)
        /\ diskSecrets \in {secrets, staged.secrets} /\ diskSecrets' \in {secrets, staged.secrets}
        /\ diskCfg \in {staged.cand, NoEntries}
      BY <1>3 DEF Service, Starting, Advances
  <2>3. \A s \in {secrets, staged.secrets} : Prune(staged.cand, s) = staged.secrets
      BY <2>2, PruneTwice
  <2>4. CASE diskCfg' = diskCfg
    <3>1. Stored' = Stored
        BY <1>1, <2>1, <2>2, <2>3, <2>4, PruneNothing DEF Stored
    <3>2. CASE torn' = torn
        BY <1>1, <3>1, <3>2, Stutters
    <3>3. CASE torn'
        BY <1>1, <2>1, <3>1, <3>3 DEF Abstract!Damage
    <3> QED
        BY <1>1, <3>2, <3>3
  <2>5. CASE diskCfg' # diskCfg
    <3>1. diskCfg' = NoEntries
      <4>1. CASE RestoreConfig(p) /\ diskCfg' = cfg
          BY <2>1, <4>1
      <4>2. CASE diskCfg' = staged.cand
          BY <1>3, <2>5, <4>2 DEF Service, Starting, Advances
      <4> QED
          BY <2>5, <4>1, <4>2 DEF Advances
    <3>2. Stored' = [cfg |-> NoEntries, keys |-> NoEntries]
        BY <1>1, <2>1, <3>1, PruneNothing DEF Stored
    <3> QED
        BY <1>1, <2>1, <3>2, SameConfigurations DEF Abstract!Wipe
  <2> QED
      BY <2>4, <2>5
<1> QED
    BY <1>0, <1>2, <1>3

LEMMA DropImplements ==
    ASSUME Service, NEW p \in Proc, Drops(p), Terminating' <=> Terminating
    PROVE  Abstract!Fail \/ Abstract!Damage \/ UNCHANGED Abstract!vars
<1>0. phase \in {"down", "boot", "serving"} /\ phase # "down" /\ torn \in BOOLEAN
    BY FallowIdle DEF Service, Core, TypeOK, ControlOK, FilesOK, Drops, Applying, Stage, Candidacy
<1>1. /\ UNCHANGED <<cfg, secrets, gen, shown, phase, diskCfg, destFile>> /\ torn' \in {torn, TRUE}
      /\ Stage \in Candidacy
    BY DEF Drops
<1>2. UnderWay' = None
    BY UnderWayIs DEF Drops, Candidacy, Holding, ApplySteps
<1>3. CASE phase = "serving"
  <2>1. gen # 0 /\ UnderWay # None
      BY <1>1, <1>3, UnderWayIs, RequestAssumption DEF Service, Epoch, Pact, Latest
  <2>2. Stored' = Stored
      BY <1>1, <2>1 DEF Stored
  <2> QED
      BY <1>1, <1>2, <2>1, <2>2 DEF Abstract!Fail
<1>4. CASE phase = "boot"
  <2>1. gen = 0 /\ cfg = NoEntries /\ UnderWay = None
      BY <1>1, <1>4, UnderWayIs DEF Service, Epoch
  <2>2. /\ staged.secrets = Prune(staged.cand, secrets)
        /\ diskSecrets \in {secrets, staged.secrets} /\ diskSecrets' \in {secrets, staged.secrets}
        /\ diskCfg \in {staged.cand, NoEntries}
      BY <1>1, <1>4 DEF Service, Starting, Drops
  <2>3. \A s \in {secrets, staged.secrets} : Prune(staged.cand, s) = staged.secrets
      BY <2>2, PruneTwice
  <2>4. Stored' = Stored
      BY <1>1, <2>1, <2>2, <2>3, PruneNothing DEF Stored
  <2>5. CASE torn' = torn
      BY <1>1, <1>2, <2>1, <2>4, <2>5, Stutters
  <2>6. CASE torn'
      BY <1>1, <1>2, <2>1, <2>4, <2>6 DEF Abstract!Damage
  <2> QED
      BY <1>1, <2>5, <2>6
<1> QED
    BY <1>0, <1>3, <1>4

LEMMA EndImplements ==
    ASSUME Service, NEW p \in Proc, Ends(p), Terminating' <=> Terminating
    PROVE  UNCHANGED Abstract!vars
<1>1. Stage \notin Candidacy /\ Stage' \notin Candidacy
    BY DEF Ends, Candidacy, Holding, ApplySteps
<1>2. UnderWay' = UnderWay
    BY <1>1, UnderWayIs
<1>3. UNCHANGED <<cfg, secrets, gen, shown, diskCfg, diskSecrets, destFile, torn>>
    BY DEF Ends
<1>4. Stored' = Stored
    BY <1>3 DEF Stored
<1> QED
    BY <1>2, <1>3, <1>4, Stutters

\* A goroutine that neither applies nor starts or ends the process leaves the change that
\* is under way, and what the next start would find, alone.
LEMMA OthersUnseen ==
    ASSUME Service, NEW p \in Proc, Sync(p) \/ Other(p) \/ Arrive(p), ~Exit(p), ~Boot(p)
    PROVE  /\ UNCHANGED <<cfg, secrets, torn>> /\ (gen' # 0 <=> gen # 0)
           /\ UnderWay' = UnderWay /\ Stored' = Stored
<1>1. UNCHANGED held
    BY StageElsewhere DEF Service
<1>2. \/ Stage' = Stage /\ (Stage \in Candidacy => job'[applyMu] = job[applyMu])
      \/ Stage \notin Candidacy /\ Stage' \notin Candidacy
    BY StageElsewhere DEF Service, Candidacy, Holding, ApplySteps, SyncSteps
<1>3. gen' # 0 <=> gen # 0
  <2>1. CASE gen' = gen
      BY <2>1
  <2>2. CASE Terminate(p)
      BY <2>2, ManagerAssumption DEF Terminate, Service, Epoch, Core, TypeOK, MemoryOK
  <2> QED
      BY <2>1, <2>2, OthersCount DEF Service
<1>4. UnderWay' = UnderWay
    BY <1>1, <1>2, <1>3, UnderWayIs DEF held
<1>5. Stored' = Stored
    BY <1>1, <1>3 DEF held, Stored
<1> QED
    BY <1>1, <1>3, <1>4, <1>5 DEF held

\* Replacing a pair.
LEMMA InstallImplements ==
    ASSUME Service, NEW p \in Proc, Install(p), Terminating' <=> Terminating
    PROVE  Abstract!Publish \/ UNCHANGED Abstract!vars
<1>1. ~Exit(p) /\ ~Boot(p) /\ Sync(p)
    BY DEF Install, Exit, Boot, At, Sync, Service, Core, Control, Fallow
<1>2. /\ UNCHANGED <<cfg, secrets, torn, shown>> /\ (gen' # 0 <=> gen # 0)
      /\ UnderWay' = UnderWay /\ Stored' = Stored
    BY <1>1, OthersUnseen DEF Install, memory
<1>3. CASE destFile' = destFile
    BY <1>2, <1>3, Stutters
<1>4. CASE destFile' # destFile
  <2> DEFINE e == job[p].cert
  <2>1. /\ pc[p] = "install" /\ Current(p) /\ job[p].name \in Name /\ e \in EntriesEver
        /\ destFile \in [Destinations -> Sources \cup {None}]
      BY <1>4 DEF Install, At, Service, Core, Control, Named, SyncSteps, Started, TypeOK, FilesOK
  <2>2. Dest(e) \in Destinations
      BY <2>1, EntryParts
  <2>3. \E v \in {e.source, None} : destFile' = [destFile EXCEPT ![Dest(e)] = v]
      BY <1>4, <2>1, <2>2 DEF Install
  <2>4. Terminating \/ (job[p].name \in Entries(cfg) /\ cfg[job[p].name] = e)
      BY <2>1 DEF Service, IInv, Fresh, Started, SyncSteps, Current, Entries
  <2> HIDE DEF e
  <2>5. destFile' = [destFile EXCEPT ![Dest(e)] = destFile'[Dest(e)]] /\ destFile'[Dest(e)] \in {e.source, None}
      BY <2>1, <2>2, <2>3
  <2>6. Dest(e) \in DOMAIN destFile
      BY <2>1, <2>2
  <2> QED
      BY <1>2, <2>4, <2>5, <2>6, SameConfigurations DEF Abstract!Publish
<1> QED
    BY <1>3, <1>4

\* Recording what a synchronization or a validation has found.
LEMMA ShowImplements ==
    ASSUME Service, NEW p \in Proc, Record(p) \/ RecordValidation(p), Terminating' <=> Terminating
    PROVE  Abstract!Show \/ UNCHANGED Abstract!vars
<1>1. ~Exit(p) /\ ~Boot(p) /\ (Sync(p) \/ Other(p))
    BY DEF Record, RecordValidation, Exit, Boot, At, Sync, Other, Service, Core, Control, Fallow
<1>2. /\ UNCHANGED <<cfg, secrets, torn>> /\ (gen' # 0 <=> gen # 0)
      /\ UnderWay' = UnderWay /\ Stored' = Stored
    BY <1>1, OthersUnseen
<1>3. destFile' = destFile
    BY DEF Record, RecordValidation, files
<1>4. CASE shown' = shown
    BY <1>2, <1>3, <1>4, Stutters
<1>5. CASE shown' # shown
  <2> DEFINE n == job[p].name
  <2>1. /\ pc[p] \in {"record", "recordV"} /\ Current(p) /\ n \in Name /\ shown \in Keyrings
      BY <1>5 DEF Record, RecordValidation, At, Service, Core, Control, Named, SyncSteps, TypeOK, MemoryOK
  <2>2. \E v \in {job[p].cert.source, None} : shown' = [shown EXCEPT ![n] = v]
      BY <1>5, <2>1 DEF Record, RecordValidation
  <2>3. n \in Entries(cfg) /\ (Terminating \/ cfg[n] = job[p].cert)
      BY <2>1 DEF Service, IInv, Fresh, Started, SyncSteps, Current, Entries
  <2> HIDE DEF n
  <2>4. shown' = [shown EXCEPT ![n] = shown'[n]] /\ shown'[n] \in {job[p].cert.source, None}
      BY <2>1, <2>2 DEF Keyrings
  <2> QED
      BY <1>2, <1>3, <2>3, <2>4, SameConfigurations DEF Abstract!Show
<1> QED
    BY <1>4, <1>5

LEMMA TerminateImplements ==
    ASSUME Service, NEW p \in Proc, Terminate(p)
    PROVE  Abstract!Terminate
<1>1. ~Exit(p) /\ ~Boot(p) /\ Arrive(p)
    BY DEF Terminate, Exit, Boot, At, Arrive
<1>2. UNCHANGED <<cfg, secrets, torn>> /\ UnderWay' = UnderWay /\ Stored' = Stored /\ (gen' # 0 <=> gen # 0)
    BY <1>1, OthersUnseen
<1>3. gen # 0 /\ Terminating'
    BY TerminateHolds DEF Terminate, Service, Epoch
<1> QED
    BY <1>2, <1>3 DEF Terminate, files, Abstract!Terminate

\* What else a goroutine does leaves pairs and statuses alone.
LEMMA UnseenImplements ==
    ASSUME Service, NEW p \in Proc, Sync(p) \/ Other(p) \/ Arrive(p), ~Exit(p), ~Boot(p),
           ~Install(p), ~Record(p), ~RecordValidation(p), ~Terminate(p),
           Terminating' <=> Terminating
    PROVE  UNCHANGED Abstract!vars
<1>1. UNCHANGED <<destFile, shown>>
  <2>1. CASE Sync(p)
      BY <2>1 DEF Sync, Begin, RLockFallbacks, LockDestination, BeginFetch, EndFetch,
         Ensure, MarkSync, memory, files
  <2>2. CASE Other(p)
      BY <2>2 DEF Other, ClearFlags, Drain, StopWatchers, memory, files
  <2>3. CASE Arrive(p)
      BY <2>3 DEF Arrive, Request, SyncNow, ValidateNow, Tick, Acknowledge, memory, files
  <2> QED
      BY <2>1, <2>2, <2>3
<1> QED
    BY <1>1, OthersUnseen, Stutters

LEMMA BootImplements ==
    ASSUME Service, NEW p \in Proc, Boot(p), Terminating' <=> Terminating
    PROVE  UNCHANGED Abstract!vars
<1>1. /\ gen = 0 /\ gen' = 0 /\ UNCHANGED <<cfg, shown, destFile, torn>>
      /\ UnderWay' = UnderWay
    BY BootStage, UnderWayIs DEF Service, files
<1>2. Stored' = Stored
    BY <1>1 DEF Boot, Stored, files
<1> QED
    BY <1>1, <1>2, Stutters

\* Every step of the manager is one of the service, or one that the service does not see.
LEMMA StepImplements ==
    ASSUME Service, Service', [Next]_vars
    PROVE  [Abstract!Next]_(Abstract!vars)
<1>1. CASE Crash \/ \E p \in Proc : Exit(p)
    BY <1>1, ShutdownImplements DEF Crash, Exit, Abstract!Next
<1>2. CASE UNCHANGED vars
    BY <1>2 DEF vars, memory, locks, files, rest, UnderWay, Stored, Terminating, Abstract!vars
<1>3. CASE \E p \in Proc : Terminate(p)
    BY <1>3, TerminateImplements DEF Abstract!Next
<1>4. ASSUME NEW p \in Proc, Apply(p) \/ Sync(p) \/ Other(p) \/ Arrive(p), ~Exit(p),
             ~\E q \in Proc : Terminate(q)
      PROVE  [Abstract!Next]_(Abstract!vars)
  <2>1. Terminating' <=> Terminating
    <3>1. ~Shutdown
        BY <1>4, PhaseMoves DEF Shutdown, Service, Core
    <3> QED
        BY <1>4, <3>1, EndingStays DEF Service
  <2>2. CASE Apply(p)
      BY <2>1, <2>2, ApplyCases, AcquireImplements, ActivateImplements, AdvanceImplements,
         DropImplements, EndImplements DEF Service, Abstract!Next
  <2>3. CASE Boot(p)
      BY <2>1, <2>3, BootImplements
  <2>4. CASE (Sync(p) \/ Other(p) \/ Arrive(p)) /\ ~Boot(p)
      BY <1>4, <2>1, <2>4, InstallImplements, ShowImplements, UnseenImplements DEF Abstract!Next
  <2> QED
      BY <1>4, <2>2, <2>3, <2>4
<1> QED
    BY <1>1, <1>2, <1>3, <1>4 DEF Next

LEMMA InitImplements == Init => Abstract!Init
<1> SUFFICES ASSUME Init PROVE Abstract!Init
    OBVIOUS
<1>1. UnderWay = None /\ ~Terminating
    BY DEF Init, UnderWay, Terminating
<1>2. diskCfg \in BootConfigs
    BY DEF Init
<1> DEFINE k == [n \in Name |-> IF n \in Remotes(diskCfg) THEN diskCfg[n].source ELSE None]
<1>3. Stored = [cfg |-> diskCfg, keys |-> k]
  <2>1. Prune(diskCfg, k) = k
      BY DEF Prune
  <2> QED
      BY <2>1 DEF Init, Stored
<1>4. \A d \in DOMAIN destFile : destFile[d] = None
    BY DEF Init
<1>5. shown = NoEntries
    BY DEF Init, NoEntries
<1> HIDE DEF k
<1>6. \E c \in BootConfigs : Stored = Abstract!Saved(c, [n \in Name |-> IF n \in Abstract!Remotes(c) THEN c[n].source ELSE None])
  <2>1. k = [n \in Name |-> IF n \in Abstract!Remotes(diskCfg) THEN diskCfg[n].source ELSE None]
      BY SameConfigurations DEF k
  <2> QED
      BY <1>2, <1>3, <2>1, SameConfigurations
<1> QED
    BY <1>1, <1>4, <1>5, <1>6, SameConfigurations DEF Init, Abstract!Init

LEMMA InitService == Init => Sound /\ Epoch /\ Trimmed /\ Starting
<1> SUFFICES ASSUME Init PROVE Sound /\ Epoch /\ Trimmed /\ Starting
    OBVIOUS
<1>1. Stage = "none" /\ ~Terminating /\ phase = "down" /\ gen = 0 /\ cfg = NoEntries /\ shown = NoEntries
      /\ \A p \in Proc : pc[p] = "idle"
    BY DEF Init, Stage, Terminating, NoEntries
<1> QED
    BY <1>1, NothingValid DEF Sound, Epoch, Trimmed, Starting, Preparing

\* The manager implements ActivationService: whatever goroutines, faults, crashes and
\* terminations interleave, requests act one after the other on the active configuration
\* and its keys, a failed one changes nothing, a process that ends in the middle of one
\* leaves the old or the new configuration to the next start, and what is published and
\* shown is the active one's (until /term is called).
THEOREM Refinement == Spec => Implements
<1>1. Core /\ Core' /\ Pact /\ Sound /\ Epoch /\ Trimmed /\ Starting /\ [Next]_vars
        => Sound' /\ Epoch' /\ Trimmed' /\ Starting'
    BY SoundHolds, EpochHolds, TrimmedHolds
<1>2. Core /\ Pact /\ Sound /\ Epoch /\ Trimmed /\ Starting /\ (Terminating \/ IInv) => Service
    BY DEF Service
<1>3. Service /\ Service' /\ [Next]_vars => [Abstract!Next]_(Abstract!vars)
    BY StepImplements
<1>4. Spec => []Service
    BY Always, AlwaysPact, OrderUntilTermination, InitService, <1>1, <1>2, PTL DEF Spec
<1> QED
    BY InitImplements, <1>3, <1>4, PTL DEF Spec, Implements, Abstract!Spec
=============================================================================
