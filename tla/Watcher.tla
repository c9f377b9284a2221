------------------------------ MODULE Watcher ------------------------------
(***************************************************************************)
(* internal/watcher/watcher.go: the watcher of the two files of a local    *)
(* source, from Start to Stop.  A poll loop and, when fsnotify is there,   *)
(* an event loop trigger a debounce timer; the timer runs the callback.    *)
(* Every section under w.mu is one step; snapshots are taken outside of    *)
(* it, file by file, while the files go on changing.                       *)
(*                                                                         *)
(* A file is its version, which every write raises (size, times, identity  *)
(* and digest all go into snapshotsDiffer).  The callback is represented   *)
(* by its reading of the source files.                                     *)
(***************************************************************************)
EXTENDS Naturals, FiniteSets

CONSTANTS
    Paths,       \* the watched files
    Timers,      \* identities of time.Timer; bound: as many as can be triggered
    Stoppers,    \* goroutines that call Stop
    None,        \* no timer: w.debounce is nil
    MaxVersion   \* bound: writes per file

ASSUME WatcherAssumption ==
    /\ IsFiniteSet(Timers) /\ None \notin Timers
    /\ MaxVersion \in Nat

VARIABLES
    file,        \* the version of each file on the disk
    state,       \* w.state: ready, starting (inside Start), running, stopped
    generation,  \* w.generation
    cancelled,   \* w.ctx is done
    snapshots,   \* w.snapshots
    toScan,      \* the files that the loop in Start or pollChanged has not read yet
    changed,     \* pollChanged found a difference
    poll, fs,    \* the loops: off, wait, scan (poll only), trigger, done
    event,       \* an event of fsnotify waits in its channel
    timer,       \* each timer: free, armed, fired (its function waits), calling (in the callback)
    hasRead,     \* the timers whose callback has read the source
    debounce,    \* w.debounce
    callbackWG,  \* the counter of w.callbackWG
    stopper,     \* per caller of Stop: idle, loops, callbacks, waiting, done
    closed,      \* w.done is closed
    seen         \* ghost: the version of each file that was read last

vars == <<file, state, generation, cancelled, snapshots, toScan, changed, poll, fs, event,
          timer, hasRead, debounce, callbackWG, stopper, closed, seen>>
loops  == <<poll, fs, event, toScan, changed, snapshots>>
timers == <<timer, hasRead, debounce, callbackWG>>
life   == <<state, generation, cancelled, stopper, closed>>

Pending == {t \in Timers : timer[t] # "free"}

\* w.state, w.generation and ctx as the timer function and triggerDebounce test
\* them: the loops and timers of a watcher all belong to its one Start.
Active == state = "running" /\ generation = 1 /\ ~cancelled

----------------------------------------------------------------------------

\* The source changes; fsnotify reports it, or loses it (a full queue, a
\* directory it cannot watch).
Write(p) ==
    /\ file[p] < MaxVersion
    /\ file' = [file EXCEPT ![p] = @ + 1]
    /\ event' \in {event, (fs \in {"wait", "trigger"})}
    /\ UNCHANGED <<poll, fs, toScan, changed, snapshots, timers, life, seen>>

\* Start, under w.mu.
Start ==
    /\ state = "ready" /\ state' = "starting"
    /\ generation' = generation + 1
    /\ toScan' = Paths
    /\ UNCHANGED <<file, cancelled, stopper, closed, poll, fs, event, changed, snapshots,
                   timers, seen>>

\* Start reads the baseline before either loop runs.
Baseline(p) ==
    /\ state = "starting" /\ p \in toScan
    /\ snapshots' = [snapshots EXCEPT ![p] = file[p]] /\ toScan' = toScan \ {p}
    /\ UNCHANGED <<file, life, poll, fs, event, changed, timers, seen>>

\* The loops start; whoever started the watcher reads the source after that.
StartLoops ==
    /\ state = "starting" /\ toScan = {} /\ state' = "running"
    /\ poll' = "wait" /\ fs' \in {"off", "wait"}
    /\ seen' = snapshots
    /\ UNCHANGED <<file, generation, cancelled, stopper, closed, event, toScan, changed,
                   snapshots, timers>>

----------------------------------------------------------------------------
(* pollLoop and fsnotifyLoop *)

\* A tick of the ticker; select may still prefer it to a context that is done.
Poll ==
    /\ poll = "wait" /\ poll' = "scan" /\ toScan' = Paths /\ changed' = FALSE
    /\ UNCHANGED <<file, life, fs, event, snapshots, timers, seen>>

\* pollChanged, one file.
Scan(p) ==
    /\ poll = "scan" /\ p \in toScan
    /\ changed' = (changed \/ snapshots[p] # file[p])
    /\ snapshots' = [snapshots EXCEPT ![p] = file[p]] /\ toScan' = toScan \ {p}
    /\ UNCHANGED <<file, life, poll, fs, event, timers, seen>>

ScanDonePollingOnly ==   \* Mutation: polling leaves the triggers to fsnotify, if it is there.
    /\ poll = "scan" /\ toScan = {}
    /\ poll' = IF changed /\ fs = "off" THEN "trigger" ELSE "wait"
    /\ UNCHANGED <<file, life, fs, event, toScan, changed, snapshots, timers, seen>>

\* pollChanged is over.
ScanDone ==
    /\ poll = "scan" /\ toScan = {}
    /\ poll' = IF changed THEN "trigger" ELSE "wait"
    /\ UNCHANGED <<file, life, fs, event, toScan, changed, snapshots, timers, seen>>

ReceiveEvent ==
    /\ fs = "wait" /\ event /\ event' = FALSE /\ fs' = "trigger"
    /\ UNCHANGED <<file, life, poll, toScan, changed, snapshots, timers, seen>>

\* Mutation: Done is called for every timer that is replaced, stopped or not.
DebounceAlwaysDone ==
    IF Active
    THEN LET replaced == {t \in Timers : t = debounce /\ timer[t] = "armed"}
         IN \E t \in Timers :
              /\ timer[t] = "free"
              /\ timer' = [u \in Timers |-> CASE u = t -> "armed"
                                              [] u \in replaced -> "free"
                                              [] OTHER -> timer[u]]
              /\ debounce' = t
              /\ callbackWG' = IF debounce = None THEN callbackWG + 1 ELSE callbackWG
              /\ UNCHANGED hasRead
    ELSE UNCHANGED timers

\* triggerDebounce: an armed timer is replaced; one that has fired already will
\* find that it is not w.debounce any more.
Debounce ==
    IF Active
    THEN LET replaced == {t \in Timers : t = debounce /\ timer[t] = "armed"}
         IN \E t \in Timers :
              /\ timer[t] = "free"
              /\ timer' = [u \in Timers |-> CASE u = t -> "armed"
                                              [] u \in replaced -> "free"
                                              [] OTHER -> timer[u]]
              /\ debounce' = t
              /\ callbackWG' = callbackWG - Cardinality(replaced) + 1
              /\ UNCHANGED hasRead
    ELSE UNCHANGED timers

PollTrigger ==
    /\ poll = "trigger" /\ Debounce /\ poll' = "wait" /\ changed' = FALSE
    /\ UNCHANGED <<file, life, fs, event, toScan, snapshots, seen>>

EventTrigger ==
    /\ fs = "trigger" /\ Debounce /\ fs' = "wait"
    /\ UNCHANGED <<file, life, poll, event, toScan, changed, snapshots, seen>>

\* ctx.Done() wins the select, or Close closed the channels of fsnotify.
LeavePoll ==
    /\ poll = "wait" /\ cancelled /\ poll' = "done"
    /\ UNCHANGED <<file, life, fs, event, toScan, changed, snapshots, timers, seen>>

LeaveFs ==
    /\ fs = "wait" /\ cancelled /\ fs' = "done" /\ event' = FALSE
    /\ UNCHANGED <<file, life, poll, toScan, changed, snapshots, timers, seen>>

----------------------------------------------------------------------------
(* The function of time.AfterFunc *)

\* The delay is over; the function is about to take w.mu.
Fire(t) ==
    /\ timer[t] = "armed" /\ timer' = [timer EXCEPT ![t] = "fired"]
    /\ UNCHANGED <<file, life, loops, hasRead, debounce, callbackWG, seen>>

\* Mutation: a timer that was replaced clears w.debounce, too.
EnterClears(t) ==
    /\ timer[t] = "fired" /\ debounce' = None
    /\ IF Active /\ debounce = t
       THEN timer' = [timer EXCEPT ![t] = "calling"] /\ UNCHANGED callbackWG
       ELSE timer' = [timer EXCEPT ![t] = "free"] /\ callbackWG' = callbackWG - 1
    /\ UNCHANGED <<file, life, loops, hasRead, seen>>

\* Mutation: the early return of the timer's function forgets callbackWG.Done.
EnterWithoutDone(t) ==
    /\ timer[t] = "fired" /\ UNCHANGED callbackWG
    /\ IF Active /\ debounce = t
       THEN timer' = [timer EXCEPT ![t] = "calling"] /\ debounce' = None
       ELSE timer' = [timer EXCEPT ![t] = "free"] /\ UNCHANGED debounce
    /\ UNCHANGED <<file, life, loops, hasRead, seen>>

\* Under w.mu: a timer that was stopped or replaced meanwhile calls nothing.
Enter(t) ==
    /\ timer[t] = "fired"
    /\ IF Active /\ debounce = t
       THEN /\ timer' = [timer EXCEPT ![t] = "calling"] /\ debounce' = None
            /\ UNCHANGED callbackWG
       ELSE /\ timer' = [timer EXCEPT ![t] = "free"] /\ callbackWG' = callbackWG - 1
            /\ UNCHANGED debounce
    /\ UNCHANGED <<file, life, loops, hasRead, seen>>

\* The callback reads the source files.
ReadSource(t) ==
    /\ timer[t] = "calling" /\ t \notin hasRead
    /\ seen' = file /\ hasRead' = hasRead \cup {t}
    /\ UNCHANGED <<file, life, loops, timer, debounce, callbackWG>>

\* Mutation: callbackWG.Done both deferred and at the end.
CallbackEndsTwice(t) ==
    /\ timer[t] = "calling" /\ t \in hasRead
    /\ timer' = [timer EXCEPT ![t] = "free"] /\ hasRead' = hasRead \ {t}
    /\ callbackWG' = callbackWG - 2
    /\ UNCHANGED <<file, life, loops, debounce, seen>>

\* The callback returns; callbackWG.Done.
CallbackEnds(t) ==
    /\ timer[t] = "calling" /\ t \in hasRead
    /\ timer' = [timer EXCEPT ![t] = "free"] /\ hasRead' = hasRead \ {t}
    /\ callbackWG' = callbackWG - 1
    /\ UNCHANGED <<file, life, loops, debounce, seen>>

----------------------------------------------------------------------------
(* Stop *)

\* Under w.mu, the three cases of w.state.
Stop(s) ==
    /\ stopper[s] = "idle" /\ state # "starting"
    /\ IF state = "stopped"
       THEN /\ stopper' = [stopper EXCEPT ![s] = "waiting"]
            /\ UNCHANGED <<state, generation, cancelled, closed, timers>>
       ELSE /\ state' = "stopped" /\ generation' = generation + 1
            /\ closed' = (state = "ready")
            /\ cancelled' = (state = "running")
            /\ stopper' = [stopper EXCEPT ![s] = IF state = "ready" THEN "done" ELSE "loops"]
            /\ LET halted == {t \in Timers : t = debounce /\ timer[t] = "armed"}
               IN /\ timer' = [t \in Timers |-> IF t \in halted THEN "free" ELSE timer[t]]
                  /\ callbackWG' = callbackWG - Cardinality(halted)
            /\ debounce' = None /\ UNCHANGED hasRead
    /\ UNCHANGED <<file, loops, seen>>

\* loopWG.Wait
LoopsLeft(s) ==
    /\ stopper[s] = "loops" /\ poll = "done" /\ fs \in {"off", "done"}
    /\ stopper' = [stopper EXCEPT ![s] = "callbacks"]
    /\ UNCHANGED <<file, state, generation, cancelled, closed, loops, timers, seen>>

\* Mutation: Stop does not wait for the callbacks.
CallbacksIgnored(s) ==
    /\ stopper[s] = "callbacks"
    /\ stopper' = [stopper EXCEPT ![s] = "done"] /\ closed' = TRUE
    /\ UNCHANGED <<file, state, generation, cancelled, loops, timers, seen>>

\* callbackWG.Wait and close(w.done)
CallbacksLeft(s) ==
    /\ stopper[s] = "callbacks" /\ callbackWG = 0
    /\ stopper' = [stopper EXCEPT ![s] = "done"] /\ closed' = TRUE
    /\ UNCHANGED <<file, state, generation, cancelled, loops, timers, seen>>

\* Mutation: a second caller of Stop finds it done already.
DoneAtOnce(s) ==
    /\ stopper[s] = "waiting"
    /\ stopper' = [stopper EXCEPT ![s] = "done"]
    /\ UNCHANGED <<file, state, generation, cancelled, closed, loops, timers, seen>>

\* A second caller of Stop waits for the first.
DoneClosed(s) ==
    /\ stopper[s] = "waiting" /\ closed
    /\ stopper' = [stopper EXCEPT ![s] = "done"]
    /\ UNCHANGED <<file, state, generation, cancelled, closed, loops, timers, seen>>

----------------------------------------------------------------------------

Init ==
    /\ file = [p \in Paths |-> 0] /\ snapshots = file /\ seen = file
    /\ state = "ready" /\ generation = 0 /\ cancelled = FALSE
    /\ toScan = {} /\ changed = FALSE
    /\ poll = "off" /\ fs = "off" /\ event = FALSE
    /\ timer = [t \in Timers |-> "free"] /\ hasRead = {} /\ debounce = None
    /\ callbackWG = 0
    /\ stopper = [s \in Stoppers |-> "idle"] /\ closed = FALSE

Next ==
    \/ \E p \in Paths : Write(p) \/ Baseline(p) \/ Scan(p)
    \/ Start \/ StartLoops
    \/ Poll \/ ScanDone \/ PollTrigger \/ LeavePoll
    \/ ReceiveEvent \/ EventTrigger \/ LeaveFs
    \/ \E t \in Timers : Fire(t) \/ Enter(t) \/ ReadSource(t) \/ CallbackEnds(t)
    \/ \E s \in Stoppers : Stop(s) \/ LoopsLeft(s) \/ CallbacksLeft(s) \/ DoneClosed(s)

Spec == Init /\ [][Next]_vars

\* Goroutines run, tickers tick, timers fire, callbacks return.  A stopped ticker
\* has at most one tick left, so pollLoop sees the end of its context (strong
\* fairness).  Nothing makes files change or anybody call Start or Stop.
FairSpec ==
    /\ Spec
    /\ \A p \in Paths : WF_vars(Baseline(p)) /\ WF_vars(Scan(p))
    /\ WF_vars(StartLoops) /\ WF_vars(Poll) /\ WF_vars(ScanDone) /\ WF_vars(PollTrigger)
    /\ WF_vars(EventTrigger) /\ WF_vars(ReceiveEvent \/ LeaveFs) /\ SF_vars(LeavePoll)
    /\ \A t \in Timers : /\ WF_vars(Fire(t)) /\ WF_vars(Enter(t))
                         /\ WF_vars(ReadSource(t)) /\ WF_vars(CallbackEnds(t))
    /\ \A s \in Stoppers : WF_vars(LoopsLeft(s) \/ CallbacksLeft(s) \/ DoneClosed(s))

----------------------------------------------------------------------------
(* The watcher as the manager sees it *)

Interface == INSTANCE ManagedWatcher WITH
    Callers  <- Stoppers,
    Overlap  <- TRUE,
    life     <- IF closed THEN "gone" ELSE IF state \in {"ready", "starting"} THEN "new"
                ELSE IF state = "stopped" THEN "halted" ELSE "running",
    calls    <- Cardinality({t \in Timers : timer[t] = "calling"}),
    returned <- {s \in Stoppers : stopper[s] = "done"}

----------------------------------------------------------------------------
(* Properties *)

\* The state has the shape the code gives it.
TypeOK ==
    /\ file \in [Paths -> Nat] /\ snapshots \in [Paths -> Nat] /\ seen \in [Paths -> Nat]
    /\ state \in {"ready", "starting", "running", "stopped"}
    /\ generation \in 0..2 /\ cancelled \in BOOLEAN /\ closed \in BOOLEAN
    /\ toScan \subseteq Paths /\ changed \in BOOLEAN /\ event \in BOOLEAN
    /\ poll \in {"off", "wait", "scan", "trigger", "done"}
    /\ fs \in {"off", "wait", "trigger", "done"}
    /\ timer \in [Timers -> {"free", "armed", "fired", "calling"}]
    /\ hasRead \subseteq Timers /\ debounce \in Timers \cup {None}
    /\ callbackWG \in Nat
    /\ stopper \in [Stoppers -> {"idle", "loops", "callbacks", "waiting", "done"}]

\* callbackWG counts exactly the timer functions that may still run: it is never
\* negative (a panic), and Stop waits neither too short nor for ever.
WaitGroupExact == callbackWG = Cardinality(Pending)

\* "Stop halts all watchers and waits for any callback already in progress": once
\* w.done is closed, and when any Stop has returned, nothing of the watcher runs.
QuietAfterStop ==
    closed \/ (\E s \in Stoppers : stopper[s] = "done") =>
        /\ Pending = {} /\ poll \in {"off", "done"} /\ fs \in {"off", "done"}

\* The watcher is the one the manager reckons with: from the moment it is told to stop
\* no callback begins any more, whatever timers fire, and each caller of Stop gets
\* back only when those in progress have ended.
IsManaged == Interface!Spec

\* No change of the source since the baseline is lost: either it has been read,
\* or the next poll will find it, or it has been found and a callback that has
\* not read the source yet is on its way, whatever was debounced meanwhile.
NoChangeLost ==
    state = "running" => \A p \in Paths :
        \/ seen[p] = file[p]
        \/ snapshots[p] # file[p]
        \/ changed
        \/ debounce # None /\ timer[debounce] \in {"armed", "fired"}
        \/ \E t \in Timers : timer[t] = "calling" /\ t \notin hasRead

\* While the watcher runs every change is read in the end.
ChangesAreRead ==
    \A p \in Paths : seen[p] # file[p] /\ state = "running"
                       ~> seen[p] = file[p] \/ state = "stopped"

\* Every call of Stop returns, whatever the loops and the callbacks are doing.
StopReturns == \A s \in Stoppers : stopper[s] # "idle" ~> stopper[s] = "done"
=============================================================================
