--------------------------- MODULE ManagedWatcher ---------------------------
(***************************************************************************)
(* What the manager expects of a managedWatcher, its interface to the       *)
(* watcher of a local source and the poller of a remote one: Start and Stop *)
(* (cmd/cert-sync/main.go).  Manager models its watchers so: one that runs  *)
(* may call back, one that is halted only ends what it has begun, and Stop  *)
(* returns when that has ended, to whoever calls it.                        *)
(***************************************************************************)
EXTENDS Naturals

CONSTANTS
    Callers,  \* of Stop
    Overlap   \* TRUE if callbacks may overlap: a watcher's may, a poller's do not

VARIABLES
    life,     \* new, running, halted (it calls back no more), gone (Stop has returned)
    calls,    \* callbacks in progress
    returned  \* the callers Stop has returned to

vars == <<life, calls, returned>>

Start == life = "new" /\ life' = "running" /\ UNCHANGED <<calls, returned>>

Call ==
    /\ life = "running" /\ (Overlap \/ calls = 0)
    /\ calls' = calls + 1 /\ UNCHANGED <<life, returned>>

CallReturns == calls > 0 /\ calls' = calls - 1 /\ UNCHANGED <<life, returned>>

Halt == life = "running" /\ life' = "halted" /\ UNCHANGED <<calls, returned>>

\* A watcher that was never started has nothing to wait for.
StopReturns(s) ==
    /\ life # "running" /\ calls = 0 /\ s \notin returned
    /\ life' = "gone" /\ returned' = returned \cup {s} /\ UNCHANGED calls

Init == life = "new" /\ calls = 0 /\ returned = {}

Next == Start \/ Call \/ CallReturns \/ Halt \/ \E s \in Callers : StopReturns(s)

Spec == Init /\ [][Next]_vars
=============================================================================
