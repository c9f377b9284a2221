---------------------------- MODULE RemoteEntry ----------------------------
(***************************************************************************)
(* One entry with a Cert Warden source, under one generation of the         *)
(* configuration: its poller, its initial synchronization and the           *)
(* operator's Sync Now and Validate (cmd/cert-sync/main.go), what they       *)
(* install (internal/sync), and the status they leave to be shown            *)
(* (internal/status).  A section under m.mu is one step.  What goes on       *)
(* between generations is in Manager, how a pair is replaced in PairReplace. *)
(*                                                                          *)
(* A bundle stands for a valid chain and key with its digest.               *)
(***************************************************************************)
EXTENDS Naturals, Poller

CONSTANTS
    Bundles,     \* the valid certificate bundles
    None,        \* no bundle; an empty digest
    Operators,   \* goroutines that serve Sync Now and Validate
    Others,      \* the statuses of the other entries of the configuration
    MaxTasks,    \* bound: Sync Now and Validate requests
    MaxChanges,  \* bound: changes at the Cert Warden server
    MaxFaults    \* bound: failures of the file system

Jobs    == {"initial", "poll"} \cup Operators
Bad     == "bad"     \* an answer whose chain or key is not valid; an unreadable pair
Down    == "down"    \* no answer, or none that can be read
Answers == Bundles \cup {Bad, Down}

ASSUME EntryAssumption ==
    /\ Bundles \cap {None, Bad, Down} = {} /\ None \notin {Bad, Down}
    /\ Operators \cap {"initial", "poll"} = {} /\ None \notin Jobs
    /\ {MaxTasks, MaxChanges, MaxFaults} \subseteq Nat

VARIABLES
    enabled, auto,  \* the flags of the entry
    phase,      \* of its configuration: new (being prepared), active, left (another is active, or none)
    server,     \* what the Cert Warden server answers
    dest,       \* the pair at the destination, Bad if there is none that is valid
    lock,       \* the holder of the destination's mutex
    pc, task,   \* of each job: its step; sync or validate
    got,        \* of each job: the answer to its query
    result,     \* of each job: what recordSync will be told
    st,         \* the status.State of the entry
    trouble,    \* ghost: the server or the file system has failed
    tasks, changes, faults

flags == <<enabled, auto>>
world == <<server, trouble, changes, faults>>
work  == <<pc, task, got, result>>
vars  == <<flags, phase, world, dest, lock, work, st, tasks, pollerVars>>

Goto(j, l) == pc' = [pc EXCEPT ![j] = l]
Active     == phase = "active"

\* info: the details of the certificate; seen: the read-back of the destination, None
\* if it was not tried; failed: there is an error of the synchronization.
NoResult == [info |-> None, seen |-> None, failed |-> FALSE]

\* query and busy are Status and InProgress of CertWardenQuery ("none" for nil), src
\* and dst the digests; checked tells whether LastDestinationValidation is set.
NewState == [query |-> "none", busy |-> FALSE, info |-> None, src |-> None, dst |-> None,
             checked |-> FALSE, srcErr |-> FALSE, dstErr |-> FALSE, syncErr |-> FALSE]

----------------------------------------------------------------------------
(* The configuration and the world *)

\* applyConfigLocked starts the poller before the configuration is active.
Prepare ==
    /\ phase = "new" /\ enabled /\ auto /\ Start
    /\ UNCHANGED <<flags, phase, world, dest, lock, work, st, tasks>>

Activate ==
    /\ phase = "new" /\ phase' = "active"
    /\ enabled /\ auto => loop # "off"
    /\ pc' = [pc EXCEPT !["initial"] = IF enabled THEN "begin" ELSE "idle"]
    /\ UNCHANGED <<flags, world, dest, lock, task, got, result, st, tasks, pollerVars>>

\* The apply fails, another configuration becomes active, or the plugin terminates:
\* in the same step the manager gives up the poller and, but for the plugin's last
\* moments, the state.
Retire ==
    /\ phase # "left" /\ phase' = "left" /\ st' = NewState
    /\ UNCHANGED <<flags, world, dest, lock, work, tasks, pollerVars>>

\* Mutation: the poller is stopped before the next configuration is active.
StopEarly(s) ==
    /\ phase # "new" /\ enabled /\ auto /\ (StopFirst(s) \/ StopAgain(s))
    /\ UNCHANGED <<flags, phase, world, dest, lock, work, st, tasks>>

\* stopWatchers
Stop(s) ==
    /\ phase = "left" /\ enabled /\ auto /\ (StopFirst(s) \/ StopAgain(s))
    /\ UNCHANGED <<flags, phase, world, dest, lock, work, st, tasks>>

StopReturns(s) ==
    /\ FirstReturns(s) \/ AgainReturns(s)
    /\ UNCHANGED <<flags, phase, world, dest, lock, work, st, tasks>>

\* The goroutine of the poller, outside of its callback.
TimerFires ==
    Fire /\ UNCHANGED <<flags, phase, world, dest, lock, work, st, tasks>>

PollerQuits ==
    Leave /\ UNCHANGED <<flags, phase, world, dest, lock, work, st, tasks>>

\* What the server answers matters while the configuration is active.
ServerChanges ==
    /\ Active /\ changes < MaxChanges /\ changes' = changes + 1
    /\ server' \in Answers \ {server}
    /\ trouble' = (trouble \/ server' \notin Bundles)
    /\ UNCHANGED <<flags, phase, faults, dest, lock, work, st, tasks, pollerVars>>

\* A call of the file system fails.
Fault == faults < MaxFaults /\ faults' = faults + 1 /\ trouble' = TRUE /\ UNCHANGED <<server, changes>>

----------------------------------------------------------------------------
(* Synchronizing and validating *)

\* SyncCertificate or ValidateCertificate, of the active configuration.
Ask(o) ==
    /\ Active /\ pc[o] = "idle" /\ tasks < MaxTasks /\ tasks' = tasks + 1
    /\ task' \in {[task EXCEPT ![o] = t] : t \in {"sync", "validate"}} /\ Goto(o, "begin")
    /\ UNCHANGED <<flags, phase, world, dest, lock, got, result, st, pollerVars>>

Tick ==
    /\ CallbackBegins /\ Goto("poll", "begin")
    /\ UNCHANGED <<flags, phase, world, dest, lock, task, got, result, st, tasks>>

\* A job ends, and with it its variables and, if it was the poller's, the callback.
Ends(j) ==
    /\ Goto(j, "idle") /\ task' = [task EXCEPT ![j] = "sync"]
    /\ got' = [got EXCEPT ![j] = Down] /\ result' = [result EXCEPT ![j] = NoResult]
    /\ lock' = IF lock = j THEN None ELSE lock
    /\ IF j = "poll" THEN CallbackEnds ELSE UNCHANGED pollerVars

Continues(j, l) == Goto(j, l) /\ UNCHANGED <<task, lock, pollerVars>>

\* syncGenerationContext up to the lock, ValidateCertificate up to the query.
Begin(j) ==
    /\ pc[j] = "begin"
    /\ \/ ~Active /\ Ends(j) /\ UNCHANGED world
       \/ /\ Active /\ Continues(j, IF task[j] = "sync" THEN "lock" ELSE "announce")
          /\ UNCHANGED <<world, got, result>>
       \/ /\ Active /\ task[j] = "sync" /\ Fault  \* the destination does not resolve
          /\ result' = [result EXCEPT ![j] = [info |-> None, seen |-> Bad, failed |-> TRUE]]
          /\ Continues(j, "record") /\ UNCHANGED got
    /\ UNCHANGED <<flags, phase, dest, st, tasks>>

LockDestination(j) ==
    /\ pc[j] = "lock" /\ lock = None /\ lock' = j /\ Goto(j, "announce")
    /\ UNCHANGED <<flags, phase, world, dest, task, got, result, st, tasks, pollerVars>>

\* fetchRemote, up to the query.
Announce(j) ==
    /\ pc[j] = "announce"
    /\ IF Active
       THEN /\ st' = [st EXCEPT !.query = IF @ = "none" THEN "Unknown" ELSE @, !.busy = TRUE]
            /\ Continues(j, "fetch") /\ UNCHANGED <<got, result>>
       ELSE Ends(j) /\ UNCHANGED st
    /\ UNCHANGED <<flags, phase, world, dest, tasks>>

\* Fetch, which ends at the client's timeout; the poller's is cancelled by Stop.
Fetch(j) ==
    /\ pc[j] = "fetch" /\ Continues(j, "query")
    /\ \E a \in {server} \cup (IF j = "poll" /\ cancelled THEN {Down} ELSE {}) :
          got' = [got EXCEPT ![j] = a]
    /\ UNCHANGED <<flags, phase, world, dest, result, st, tasks>>

\* recordRemoteQuery; an error of the query ends the job.
RecordQuery(j) ==
    /\ pc[j] = "query"
    /\ st' = IF ~Active THEN st
             ELSE [st EXCEPT !.query = IF got[j] = Down THEN "Error" ELSE "Healthy", !.busy = FALSE]
    /\ IF got[j] = Down THEN Ends(j)
       ELSE /\ Continues(j, IF task[j] = "sync" THEN "install" ELSE "recordV")
            /\ UNCHANGED <<got, result>>
    /\ UNCHANGED <<flags, phase, world, dest, tasks>>

\* SyncMaterial: what it may leave where there was the pair before.  A replacement
\* that fails leaves the old pair, the new one or, if it cannot undo, a broken one,
\* also of the same bundle, if the destination could not be read; a failure of the
\* fallback comes after it.
Leaves(b, before, failed) == IF failed THEN {before, b, Bad} ELSE {b}

\* Mutation: what is installed is not validated.
PublishUnchecked(j) ==
    \E failed, unread \in BOOLEAN :
        /\ dest' \in Leaves(got[j], dest, failed)
        /\ IF failed \/ unread THEN Fault ELSE UNCHANGED world
        /\ result' = [result EXCEPT ![j] = [info |-> got[j], failed |-> failed,
                                            seen |-> IF unread THEN Bad ELSE dest']]

\* The bundle is installed and read back under m.mu, unless it is not valid.
Publish(j) ==
    IF got[j] = Bad
    THEN /\ result' = [result EXCEPT ![j] = [info |-> None, seen |-> None, failed |-> TRUE]]
         /\ UNCHANGED <<dest, world>>
    ELSE \E failed, unread \in BOOLEAN :
            /\ dest' \in Leaves(got[j], dest, failed)
            /\ IF failed \/ unread THEN Fault ELSE UNCHANGED world
            /\ result' = [result EXCEPT ![j] = [info |-> got[j], failed |-> failed,
                                                seen |-> IF unread THEN Bad ELSE dest']]

\* Mutation: the destination is unlocked before the result is recorded.
InstallUnlocks(j) ==
    /\ pc[j] = "install" /\ Active /\ Publish(j)
    /\ lock' = None /\ Goto(j, "record")
    /\ UNCHANGED <<flags, phase, task, got, st, tasks, pollerVars>>

Install(j) ==
    /\ pc[j] = "install"
    /\ IF Active THEN Publish(j) /\ Continues(j, "record") /\ UNCHANGED got
                 ELSE Ends(j) /\ UNCHANGED <<dest, world>>
    /\ UNCHANGED <<flags, phase, st, tasks>>

\* The assignments of recordSync.
Recorded(s, r) ==
    LET tried == [s EXCEPT !.syncErr = r.failed, !.info = r.info]
        read  == [tried EXCEPT !.checked = TRUE, !.dstErr = (r.seen = Bad)]
    IN IF r.info = None
       THEN IF r.seen = Bad THEN read ELSE [tried EXCEPT !.srcErr = r.failed]
       ELSE [read EXCEPT !.srcErr = FALSE, !.src = r.info,
                         !.dst = IF r.seen # Bad THEN r.seen
                                 ELSE IF @ = None /\ ~r.failed THEN r.info ELSE @]

\* recordSync, after which the destination is unlocked.
Record(j) ==
    /\ pc[j] = "record" /\ Ends(j)
    /\ st' = IF Active THEN Recorded(st, result[j]) ELSE st
    /\ UNCHANGED <<flags, phase, world, dest, tasks>>

\* recordValidation
RecordValidation(j) ==
    /\ pc[j] = "recordV" /\ Ends(j)
    /\ st' = IF ~Active THEN st
             ELSE IF got[j] = Bad THEN [st EXCEPT !.info = None, !.srcErr = TRUE]
             ELSE [st EXCEPT !.info = got[j], !.src = got[j], !.srcErr = FALSE]
    /\ UNCHANGED <<flags, phase, world, dest, tasks>>

Work(j) ==
    \/ Begin(j) \/ LockDestination(j) \/ Announce(j) \/ Fetch(j) \/ RecordQuery(j)
    \/ Install(j) \/ Record(j) \/ RecordValidation(j)

----------------------------------------------------------------------------

Init ==
    /\ enabled \in BOOLEAN /\ auto \in BOOLEAN /\ phase = "new"
    /\ server \in Answers /\ dest \in Bundles \cup {Bad} /\ lock = None
    /\ pc = [j \in Jobs |-> "idle"] /\ task = [j \in Jobs |-> "sync"]
    /\ got = [j \in Jobs |-> Down] /\ result = [j \in Jobs |-> NoResult]
    /\ st = NewState /\ trouble = (server \notin Bundles)
    /\ tasks = 0 /\ changes = 0 /\ faults = 0
    /\ PollerInit

Next ==
    \/ Prepare \/ Activate \/ Retire \/ TimerFires \/ PollerQuits \/ Tick \/ ServerChanges
    \/ \E s \in Stoppers : Stop(s) \/ StopReturns(s)
    \/ \E o \in Operators : Ask(o)
    \/ \E j \in Jobs : Work(j)

Spec == Init /\ [][Next]_vars

\* Goroutines go on, timers fire, and the client's timeout ends every query.  A tick
\* may win over the cancellation, but select chooses at random and the next tick is a
\* minute away.
FairSpec ==
    /\ Spec /\ WF_vars(TimerFires) /\ WF_vars(Tick) /\ SF_vars(PollerQuits)
    /\ \A j \in Jobs : WF_vars(Work(j))
    /\ \A s \in Stoppers : WF_vars(StopReturns(s))

----------------------------------------------------------------------------
(* What is shown *)

\* ToCertificateStatus
Shown ==
    IF ~enabled THEN "Disabled"
    ELSE IF st.query = "Error" \/ st.syncErr \/ st.srcErr \/ st.dstErr THEN "Error"
    ELSE IF st.info # None /\ st.checked /\ st.src = st.dst THEN "Healthy"
    ELSE "Unknown"

\* Aggregate, of this entry and the others.
Overview ==
    LET items == {Shown} \cup Others
    IN IF "Error" \in items THEN "Error" ELSE IF "Unknown" \in items THEN "Unknown" ELSE "Healthy"

----------------------------------------------------------------------------
(* The poller as the manager sees it *)

Interface == INSTANCE ManagedWatcher WITH
    Callers  <- Stoppers,
    Overlap  <- FALSE,
    life     <- IF once = "done" THEN "gone" ELSE IF loop = "off" THEN "new"
                ELSE IF loop = "done" THEN "halted" ELSE "running",
    calls    <- IF pc["poll"] # "idle" THEN 1 ELSE 0,
    returned <- {s \in Stoppers : stopper[s] = "returned"}

----------------------------------------------------------------------------
(* Properties *)

States == [query : {"none", "Unknown", "Healthy", "Error"}, busy : BOOLEAN,
           info : Bundles \cup {None}, src : Bundles \cup {None},
           dst : Bundles \cup {None, Bad}, checked : BOOLEAN,
           srcErr : BOOLEAN, dstErr : BOOLEAN, syncErr : BOOLEAN]
Results == [info : Bundles \cup {None}, seen : Bundles \cup {None, Bad}, failed : BOOLEAN]
Steps == {"idle", "begin", "lock", "announce", "fetch", "query", "install", "record", "recordV"}

\* Every variable has a value of its type.
TypeOK ==
    /\ enabled \in BOOLEAN /\ auto \in BOOLEAN /\ phase \in {"new", "active", "left"}
    /\ server \in Answers /\ dest \in Bundles \cup {Bad} /\ lock \in Jobs \cup {None}
    /\ pc \in [Jobs -> Steps] /\ task \in [Jobs -> {"sync", "validate"}]
    /\ got \in [Jobs -> Answers] /\ result \in [Jobs -> Results]
    /\ st \in States /\ trouble \in BOOLEAN
    /\ tasks \in Nat /\ changes \in Nat /\ faults \in Nat
    /\ PollerTypeOK

\* An entry that is shown as healthy has the bundle at its destination that its
\* status tells of, unless the result of a newer synchronization is about to be
\* recorded: the results of overlapping synchronizations are recorded in the order
\* in which they were installed.
HealthyIsInstalled ==
    enabled /\ Overview = "Healthy" /\ (\A j \in Jobs : pc[j] # "record")
        => dest = st.src /\ dest = st.dst

\* An error is shown only if the server or the file system has had one: the end of
\* a query that Stop cancels, or of one of another generation, is not taken for one.
ErrorHasCause == Shown = "Error" => trouble

\* The poller is the watcher the manager reckons with: its callbacks do not overlap, a
\* late tick included, none begins before Start or after the end of the goroutine,
\* and each caller of Stop gets back only then.
IsManaged == Interface!Spec

\* Stop returns: its goroutine sees the cancellation, whatever its callback waits for.
StopEnds == \A s \in Stoppers : stopper[s] \in {"queued", "waiting"} ~> stopper[s] = "returned"

\* Once the server goes on answering with one valid bundle, an entry with automatic
\* synchronization gets to show it as installed and stays so, whatever failed before
\* and however late the results of other queries and validations came.
Settles ==
    enabled /\ auto /\ <>[](Active /\ server \in Bundles)
        => <>[](Overview = "Healthy" /\ dest = server)
=============================================================================
