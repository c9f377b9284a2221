----------------------------- MODULE AtomicFile -----------------------------
(***************************************************************************)
(* What the manager expects of a durable file: config.json as saved by     *)
(* config.Save, secrets.json as saved by secretstore.Save.                 *)
(*                                                                         *)
(* A save replaces the whole value or leaves the former one; while it runs *)
(* a reader sees either.  A save that reports success is durable, one that *)
(* reports a plain error has changed nothing, now or after a crash, and    *)
(* only one whose own rollback fails leaves open which value it is.        *)
(***************************************************************************)
CONSTANTS Data, None    \* what may be saved; None: there is no file

VARIABLES
    value,   \* what a reader finds
    maybe,   \* what a reader may find after a crash
    result,  \* running, or what the last save returned
    goal,    \* the value of the save that runs, or that ran last
    prev,    \* the value when it began
    base     \* maybe when it began

vars == <<value, maybe, result, goal, prev, base>>

Values  == Data \cup {None}
Results == {"running", "ok", "failed", "broken", "crashed"}

Begin(d) ==
    /\ result # "running" /\ result' = "running"
    /\ goal' = d /\ prev' = value /\ base' = maybe
    /\ UNCHANGED <<value, maybe>>

\* The save goes on, forwards or backwards.
Work ==
    /\ result = "running"
    /\ value' \in {prev, goal} /\ maybe' \subseteq base \cup {goal}
    /\ UNCHANGED <<result, goal, prev, base>>

Succeed ==
    /\ result = "running" /\ result' = "ok"
    /\ value' = goal /\ maybe' = {goal}
    /\ UNCHANGED <<goal, prev, base>>

Fail ==
    /\ result = "running" /\ result' = "failed"
    /\ value' = prev /\ maybe' \subseteq base
    /\ UNCHANGED <<goal, prev, base>>

\* The rollback failed: a RollbackError.
Break ==
    /\ result = "running" /\ result' = "broken"
    /\ value' \in {prev, goal} /\ maybe' \subseteq base \cup {goal}
    /\ UNCHANGED <<goal, prev, base>>

Crash ==
    /\ result' = "crashed"
    /\ value' \in maybe /\ maybe' = {value'}
    /\ UNCHANGED <<goal, prev, base>>

Init ==
    /\ value \in Values /\ maybe = {value}
    /\ result = "ok" /\ goal = value /\ prev = value /\ base = maybe

Next == Work \/ Succeed \/ Fail \/ Break \/ Crash \/ \E d \in Data : Begin(d)

Spec == Init /\ [][Next]_vars
=============================================================================
