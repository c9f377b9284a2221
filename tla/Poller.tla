------------------------------- MODULE Poller -------------------------------
(***************************************************************************)
(* internal/poller/poller.go: the goroutine that calls the callback of a   *)
(* remote source periodically, and what stops it.  The callback itself is  *)
(* left to the module that extends this one: here it begins and ends.      *)
(***************************************************************************)

CONSTANT Stoppers  \* goroutines that call Stop

VARIABLES
    loop,       \* the goroutine: off, select, callback, done (p.done is closed)
    timer,      \* off, armed, fired (its channel holds a tick)
    cancelled,  \* the context of the callbacks is cancelled
    once,       \* p.once: fresh, running, done
    stopper     \* per caller of Stop: out, queued (at p.once), waiting (for p.done), returned

pollerVars == <<loop, timer, cancelled, once, stopper>>

PollerInit ==
    /\ loop = "off" /\ timer = "off" /\ cancelled = FALSE
    /\ once = "fresh" /\ stopper = [s \in Stoppers |-> "out"]

Start ==
    /\ loop = "off" /\ loop' = "select" /\ timer' = "armed"
    /\ UNCHANGED <<cancelled, once, stopper>>

Fire ==
    /\ timer = "armed" /\ timer' = "fired"
    /\ UNCHANGED <<loop, cancelled, once, stopper>>

\* The select of the goroutine; a tick may win over the cancellation.
CallbackBegins ==
    /\ loop = "select" /\ timer = "fired"
    /\ loop' = "callback" /\ timer' = "off"
    /\ UNCHANGED <<cancelled, once, stopper>>

\* Mutation: p.done is not closed.
LeaveOpen ==
    /\ loop = "select" /\ cancelled
    /\ loop' = "off" /\ timer' = "off"
    /\ UNCHANGED <<cancelled, once, stopper>>

Leave ==
    /\ loop = "select" /\ cancelled
    /\ loop' = "done" /\ timer' = "off"
    /\ UNCHANGED <<cancelled, once, stopper>>

\* Mutation: the timer is not armed again.
CallbackEndsOnce ==
    /\ loop = "callback" /\ loop' = "select" /\ UNCHANGED timer
    /\ UNCHANGED <<cancelled, once, stopper>>

CallbackEnds ==
    /\ loop = "callback" /\ loop' = "select" /\ timer' = "armed"
    /\ UNCHANGED <<cancelled, once, stopper>>

Step(s, at, to) == stopper[s] = at /\ stopper' = [stopper EXCEPT ![s] = to]

\* Stop, called for the first time: a poller that was never started has no context.
StopFirst(s) ==
    /\ once = "fresh"
    /\ IF loop = "off"
       THEN Step(s, "out", "returned") /\ once' = "done" /\ UNCHANGED cancelled
       ELSE Step(s, "out", "waiting") /\ once' = "running" /\ cancelled' = TRUE
    /\ UNCHANGED <<loop, timer>>

\* Called again: sync.Once returns when the first call has returned.
StopAgain(s) ==
    /\ once # "fresh" /\ Step(s, "out", "queued")
    /\ UNCHANGED <<loop, timer, cancelled, once>>

\* Mutation: a flag in the place of sync.Once, for which nobody waits.
AgainReturnsAtOnce(s) ==
    /\ Step(s, "queued", "returned")
    /\ UNCHANGED <<loop, timer, cancelled, once>>

AgainReturns(s) ==
    /\ once = "done" /\ Step(s, "queued", "returned")
    /\ UNCHANGED <<loop, timer, cancelled, once>>

FirstReturns(s) ==
    /\ loop = "done" /\ Step(s, "waiting", "returned") /\ once' = "done"
    /\ UNCHANGED <<loop, timer, cancelled>>

----------------------------------------------------------------------------

PollerTypeOK ==
    /\ loop \in {"off", "select", "callback", "done"}
    /\ timer \in {"off", "armed", "fired"}
    /\ cancelled \in BOOLEAN
    /\ once \in {"fresh", "running", "done"}
    /\ stopper \in [Stoppers -> {"out", "queued", "waiting", "returned"}]
=============================================================================
