--------------------------- MODULE Watcher_proofs ---------------------------
(***************************************************************************)
(* Proofs about Watcher, for every set of watched files, every finite set   *)
(* of timers, any number of callers of Stop and any number of writes: the   *)
(* wait group counts what may still run, Stop waits for it, and with that   *)
(* the watcher is the one the manager reckons with.                         *)
(***************************************************************************)
EXTENDS Watcher, FiniteSetTheorems, TLAPS

LoopsEnded == poll \in {"off", "done"} /\ fs \in {"off", "done"}

\* What the state of the watcher says of its parts: nothing runs before Start is
\* through, only a stopped watcher has callers of Stop, the first of them goes on to
\* the callbacks when the loops have ended, and closes w.done when nothing runs.
Lifecycle ==
    /\ state = "ready" => generation = 0
    /\ state \in {"starting", "running"} => generation = 1
    /\ state \in {"ready", "starting"} => LoopsEnded /\ Pending = {}
    /\ closed => state = "stopped" /\ LoopsEnded /\ Pending = {}
    /\ \A s \in Stoppers :
          /\ stopper[s] # "idle" => state = "stopped"
          /\ stopper[s] = "callbacks" => LoopsEnded
          /\ stopper[s] = "done" => closed

IInv == TypeOK /\ WaitGroupExact /\ Lifecycle

LEMMA PendingFinite == IsFiniteSet(Pending) /\ Cardinality(Pending) \in Nat
BY WatcherAssumption, FS_Subset, FS_CardinalityType DEF Pending

LEMMA InitHolds == Init => IInv
<1> SUFFICES ASSUME Init PROVE IInv
    OBVIOUS
<1>1. Pending = {}
    BY DEF Init, Pending
<1>2. WaitGroupExact
    BY <1>1, FS_EmptySet DEF Init, WaitGroupExact
<1>3. Lifecycle
    BY <1>1 DEF Init, Lifecycle, LoopsEnded
<1>4. /\ file \in [Paths -> Nat] /\ snapshots = file /\ seen = file
        /\ timer \in [Timers -> {"free", "armed", "fired", "calling"}]
    BY DEF Init
<1>5. stopper \in [Stoppers -> {"idle", "loops", "callbacks", "waiting", "done"}]
    BY DEF Init
<1>6. cancelled \in BOOLEAN /\ closed \in BOOLEAN /\ changed \in BOOLEAN /\ event \in BOOLEAN
    BY Zenon DEF Init
<1>7. generation \in 0..2 /\ callbackWG \in Nat
    BY DEF Init
<1>8. /\ state = "ready" /\ toScan = {} /\ poll = "off" /\ fs = "off"
      /\ hasRead = {} /\ debounce = None
    BY DEF Init
<1>9. TypeOK
    BY <1>4, <1>5, <1>6, <1>7, <1>8 DEF TypeOK
<1> QED
    BY <1>2, <1>3, <1>9 DEF IInv

----------------------------------------------------------------------------
(* The wait group *)

\* A timer function ends without having been replaced.
LEMMA TimerEnds ==
    ASSUME IInv, NEW t \in Timers, timer[t] # "free",
           timer' = [timer EXCEPT ![t] = "free"], callbackWG' = callbackWG - 1
    PROVE  WaitGroupExact' /\ callbackWG' \in Nat /\ Pending' \subseteq Pending
<1>1. Pending' = Pending \ {t} /\ t \in Pending
    BY DEF IInv, TypeOK, Pending
<1>2. IsFiniteSet(Pending')
    BY <1>1, PendingFinite, FS_RemoveElement
<1>3. Cardinality(Pending') = Cardinality(Pending) - 1
    BY <1>1, PendingFinite, FS_RemoveElement
<1>4. Cardinality(Pending') \in Nat
    BY <1>2, FS_CardinalityType
<1> QED
    BY <1>1, <1>3, <1>4 DEF IInv, WaitGroupExact

\* Armed timers are stopped before they fire, or none are.
LEMMA TimersHalted ==
    ASSUME IInv, NEW H \in SUBSET Pending
    PROVE  /\ IsFiniteSet(Pending \ H) /\ Cardinality(Pending \ H) = callbackWG - Cardinality(H)
           /\ Cardinality(Pending \ H) \in Nat
<1>1. Pending \cap H = H
    OBVIOUS
<1>2. IsFiniteSet(Pending \ H) /\ Cardinality(Pending \ H) = Cardinality(Pending) - Cardinality(H)
    BY <1>1, PendingFinite, FS_Difference
<1> QED
    BY <1>2, FS_CardinalityType DEF IInv, WaitGroupExact

\* A trigger arms a timer of its own in the place of the one that is armed.
LEMMA DebounceCounts ==
    ASSUME IInv, Debounce
    PROVE  /\ timer' \in [Timers -> {"free", "armed", "fired", "calling"}]
           /\ debounce' \in Timers \cup {None} /\ hasRead' = hasRead
           /\ callbackWG' \in Nat /\ WaitGroupExact'
           /\ state # "running" => Pending' = Pending
           /\ \A t \in Timers : timer'[t] = "calling" <=> timer[t] = "calling"
<1>1. CASE Active
  <2> DEFINE replaced == {u \in Timers : u = debounce /\ timer[u] = "armed"}
  <2>1. PICK t \in Timers :
           /\ timer[t] = "free"
           /\ timer' = [u \in Timers |-> CASE u = t -> "armed"
                                           [] u \in replaced -> "free"
                                           [] OTHER -> timer[u]]
           /\ debounce' = t
           /\ callbackWG' = callbackWG - Cardinality(replaced) + 1
           /\ UNCHANGED hasRead
    BY <1>1 DEF Debounce
  <2>2. replaced \in SUBSET Pending /\ t \notin replaced
    BY <2>1 DEF Pending
  <2>3. \A u \in Timers :
           timer'[u] = IF u = t THEN "armed" ELSE IF u \in replaced THEN "free" ELSE timer[u]
    BY <2>1, <2>2
  <2>4. timer' \in [Timers -> {"free", "armed", "fired", "calling"}]
    BY <2>1, <2>3 DEF IInv, TypeOK
  <2>5. Pending' = (Pending \ replaced) \cup {t} /\ t \notin Pending \ replaced
    BY <2>1, <2>3 DEF Pending
  <2> HIDE DEF replaced
  <2>6. /\ IsFiniteSet(Pending \ replaced) /\ Cardinality(Pending \ replaced) \in Nat
        /\ Cardinality(Pending \ replaced) = callbackWG - Cardinality(replaced)
    BY <2>2, TimersHalted
  <2>7. Cardinality(Pending') = Cardinality(Pending \ replaced) + 1
    BY <2>5, <2>6, FS_AddElement
  <2>8. callbackWG' \in Nat /\ WaitGroupExact'
    BY <2>1, <2>6, <2>7 DEF WaitGroupExact
  <2>9. \A u \in Timers : timer'[u] = "calling" <=> timer[u] = "calling"
    BY <2>1, <2>3 DEF replaced
  <2> QED
    BY <1>1, <2>1, <2>4, <2>8, <2>9 DEF Active
<1>2. CASE ~Active
    BY <1>2 DEF Debounce, timers, IInv, TypeOK, WaitGroupExact, Pending
<1> QED
    BY <1>1, <1>2

----------------------------------------------------------------------------
(* Steps *)

\* The loops, the files and what is read of them go on while nothing is stopped.
LEMMA LoopsGoOn ==
    ASSUME IInv, TypeOK', UNCHANGED <<life, timers>>, LoopsEnded => LoopsEnded'
    PROVE  IInv'
BY DEF IInv, WaitGroupExact, Pending, timers, life, Lifecycle

LEMMA Step == IInv /\ [Next]_vars => IInv'
<1> SUFFICES ASSUME IInv, [Next]_vars PROVE IInv'
    OBVIOUS
<1> USE DEF LoopsEnded
<1>1. ASSUME NEW p \in Paths, Write(p) PROVE IInv'
  <2>1. file' \in [Paths -> Nat]
    BY <1>1 DEF Write, IInv, TypeOK
  <2>2. event' = event \/ event' = (fs \in {"wait", "trigger"})
    BY <1>1 DEF Write
  <2>3. event' \in BOOLEAN
    <3>1. event \in BOOLEAN
      BY DEF IInv, TypeOK
    <3>2. (fs \in {"wait", "trigger"}) \in BOOLEAN
      OBVIOUS
    <3> QED
      BY ONLY <2>2, <3>1, <3>2
  <2>4. TypeOK'
    BY <1>1, <2>1, <2>3 DEF Write, IInv, TypeOK, timers, life
  <2> QED
    BY <1>1, <2>4, LoopsGoOn DEF Write
<1>2. ASSUME NEW p \in Paths, Baseline(p) \/ Scan(p) PROVE IInv'
  <2>1. TypeOK'
    BY <1>2 DEF Baseline, Scan, IInv, TypeOK, timers, life
  <2> QED
    BY <1>2, <2>1, LoopsGoOn DEF Baseline, Scan
<1>3. CASE Poll \/ ScanDone \/ LeavePoll \/ ReceiveEvent \/ LeaveFs
  <2>1. TypeOK'
    BY <1>3 DEF Poll, ScanDone, LeavePoll, ReceiveEvent, LeaveFs, IInv, TypeOK, timers, life
  <2> QED
    BY <1>3, <2>1, LoopsGoOn DEF Poll, ScanDone, LeavePoll, ReceiveEvent, LeaveFs
<1>4. CASE Start
  <2>1. TypeOK'
    BY <1>4 DEF Start, IInv, TypeOK, Lifecycle, timers
  <2> QED
    BY <1>4, <2>1 DEF Start, IInv, Lifecycle, WaitGroupExact, Pending, timers
<1>5. CASE StartLoops
  <2>1. TypeOK'
    BY <1>5 DEF StartLoops, IInv, TypeOK, timers
  <2> QED
    BY <1>5, <2>1 DEF StartLoops, IInv, Lifecycle, WaitGroupExact, Pending, timers
<1>6. CASE PollTrigger \/ EventTrigger
  <2>1. Debounce
    BY <1>6 DEF PollTrigger, EventTrigger
  <2>2. TypeOK'
    BY <1>6, <2>1, DebounceCounts DEF PollTrigger, EventTrigger, IInv, TypeOK, life
  <2>3. Lifecycle'
    BY <1>6, <2>1, DebounceCounts DEF PollTrigger, EventTrigger, IInv, TypeOK, Lifecycle, life
  <2> QED
    BY <2>1, <2>2, <2>3, DebounceCounts DEF IInv
<1>7. ASSUME NEW t \in Timers, Fire(t) PROVE IInv'
  <2>1. Pending' = Pending
    BY <1>7 DEF Fire, Pending, IInv, TypeOK
  <2>2. TypeOK'
    BY <1>7 DEF Fire, IInv, TypeOK, life, loops
  <2> QED
    BY <1>7, <2>1, <2>2 DEF Fire, IInv, WaitGroupExact, Lifecycle, life, loops
<1>8. ASSUME NEW t \in Timers, Enter(t) PROVE IInv'
  <2>1. CASE Active /\ debounce = t
    <3>1. /\ timer' = [timer EXCEPT ![t] = "calling"]
          /\ UNCHANGED <<callbackWG, file, life, loops, hasRead, seen>>
          /\ debounce' = None /\ timer[t] = "fired"
      BY <1>8, <2>1 DEF Enter
    <3>2. Pending' = Pending
      BY <3>1 DEF Pending, IInv, TypeOK
    <3>3. TypeOK'
      BY <3>1 DEF IInv, TypeOK, life, loops
    <3> QED
      BY <3>1, <3>2, <3>3 DEF IInv, WaitGroupExact, Lifecycle, life, loops
  <2>2. CASE ~(Active /\ debounce = t)
    <3>1. /\ timer' = [timer EXCEPT ![t] = "free"]
          /\ callbackWG' = callbackWG - 1 /\ timer[t] = "fired"
          /\ UNCHANGED <<debounce, file, life, loops, hasRead, seen>>
      BY <1>8, <2>2 DEF Enter
    <3>2. WaitGroupExact' /\ callbackWG' \in Nat /\ Pending' \subseteq Pending
      BY <3>1, TimerEnds
    <3>3. TypeOK'
      BY <3>1, <3>2 DEF IInv, TypeOK, life, loops
    <3> QED
      BY <3>1, <3>2, <3>3 DEF IInv, Lifecycle, life, loops
  <2> QED
    BY <2>1, <2>2
<1>9. ASSUME NEW t \in Timers, ReadSource(t) PROVE IInv'
  <2>1. TypeOK'
    BY <1>9 DEF ReadSource, IInv, TypeOK, life, loops
  <2> QED
    BY <1>9, <2>1 DEF ReadSource, IInv, WaitGroupExact, Pending, Lifecycle, life, loops
<1>10. ASSUME NEW t \in Timers, CallbackEnds(t) PROVE IInv'
  <2>1. WaitGroupExact' /\ callbackWG' \in Nat /\ Pending' \subseteq Pending
    BY <1>10, TimerEnds DEF CallbackEnds
  <2>2. TypeOK'
    BY <1>10, <2>1 DEF CallbackEnds, IInv, TypeOK, life, loops
  <2> QED
    BY <1>10, <2>1, <2>2 DEF CallbackEnds, IInv, Lifecycle, life, loops
<1>11. ASSUME NEW s \in Stoppers, Stop(s), state = "stopped" PROVE IInv'
  <2>1. /\ stopper' = [stopper EXCEPT ![s] = "waiting"]
        /\ UNCHANGED <<state, generation, cancelled, closed, timers, file, loops, seen>>
    BY <1>11 DEF Stop
  <2>2. TypeOK'
    BY <2>1 DEF IInv, TypeOK, timers, loops
  <2> QED
    BY <1>11, <2>1, <2>2 DEF IInv, TypeOK, WaitGroupExact, Pending, Lifecycle, timers, loops
<1>12. ASSUME NEW s \in Stoppers, Stop(s), state # "stopped" PROVE IInv'
  <2> DEFINE halted == {t \in Timers : t = debounce /\ timer[t] = "armed"}
  <2>1. /\ state \in {"ready", "running"} /\ state' = "stopped" /\ generation' = generation + 1
        /\ closed' = (state = "ready") /\ cancelled' = (state = "running")
        /\ stopper' = [stopper EXCEPT ![s] = IF state = "ready" THEN "done" ELSE "loops"]
        /\ timer' = [t \in Timers |-> IF t \in halted THEN "free" ELSE timer[t]]
        /\ callbackWG' = callbackWG - Cardinality(halted)
        /\ debounce' = None /\ UNCHANGED <<hasRead, file, loops, seen>>
    BY <1>12 DEF Stop, IInv, TypeOK
  <2>2. halted \in SUBSET Pending /\ Pending' = Pending \ halted
    BY <2>1 DEF Pending
  <2>3. timer' \in [Timers -> {"free", "armed", "fired", "calling"}]
    BY <2>1 DEF IInv, TypeOK
  <2>4. closed' \in BOOLEAN /\ cancelled' \in BOOLEAN /\ (closed' <=> state = "ready")
    BY <2>1
  <2> HIDE DEF halted
  <2>5. callbackWG' \in Nat /\ WaitGroupExact'
    BY <2>1, <2>2, TimersHalted DEF WaitGroupExact
  <2>6. TypeOK'
    BY <2>1, <2>3, <2>4, <2>5 DEF IInv, TypeOK, Lifecycle, loops
  <2>7. Lifecycle'
    BY <2>1, <2>2, <2>4 DEF IInv, TypeOK, Lifecycle, loops
  <2> QED
    BY <2>5, <2>6, <2>7 DEF IInv
<1>13. ASSUME NEW s \in Stoppers, LoopsLeft(s) \/ DoneClosed(s) PROVE IInv'
  <2>1. TypeOK'
    BY <1>13 DEF LoopsLeft, DoneClosed, IInv, TypeOK, timers, loops
  <2> QED
    BY <1>13, <2>1
       DEF LoopsLeft, DoneClosed, IInv, TypeOK, WaitGroupExact, Pending, Lifecycle, timers, loops
<1>14. ASSUME NEW s \in Stoppers, CallbacksLeft(s) PROVE IInv'
  <2>1. Pending = {}
    BY <1>14, PendingFinite, FS_EmptySet DEF CallbacksLeft, IInv, WaitGroupExact
  <2>2. TypeOK'
    BY <1>14 DEF CallbacksLeft, IInv, TypeOK, timers, loops
  <2> QED
    BY <1>14, <2>1, <2>2
       DEF CallbacksLeft, IInv, TypeOK, WaitGroupExact, Pending, Lifecycle, timers, loops
<1>15. CASE UNCHANGED vars
  <2>1. TypeOK'
    BY <1>15 DEF vars, IInv, TypeOK
  <2> QED
    BY <1>15, <2>1, LoopsGoOn DEF vars, timers, life
<1> QED
    BY <1>1, <1>2, <1>3, <1>4, <1>5, <1>6, <1>7, <1>8, <1>9, <1>10,
       <1>11, <1>12, <1>13, <1>14, <1>15
       DEF Next

LEMMA Invariance == Spec => []IInv
BY InitHolds, Step, PTL DEF Spec

\* Every variable has a value of its type.
THEOREM Typing == Spec => []TypeOK
<1>1. IInv => TypeOK
    BY DEF IInv
<1> QED
    BY <1>1, Invariance, PTL

\* The wait group counts the timer functions that may still run.
THEOREM Counting == Spec => []WaitGroupExact
<1>1. IInv => WaitGroupExact
    BY DEF IInv
<1> QED
    BY <1>1, Invariance, PTL

\* Nothing of the watcher runs when any Stop has returned.
THEOREM Quiet == Spec => []QuietAfterStop
<1>1. IInv => QuietAfterStop
    BY DEF IInv, Lifecycle, LoopsEnded, QuietAfterStop
<1> QED
    BY <1>1, Invariance, PTL
----------------------------------------------------------------------------
(* No change is lost *)

\* What keeps track of a change: only Stop cancels, so triggers arm a timer before, a
\* difference is kept until the loop has triggered for it, a callback has read the
\* source only while it runs, and a snapshot is never later than its file.
Traced ==
    /\ cancelled => state = "stopped"
    /\ changed => poll \in {"scan", "trigger"}
    /\ \A t \in hasRead : timer[t] = "calling"
    /\ \A p \in Paths : snapshots[p] <= file[p]

Noted == debounce # None /\ timer[debounce] \in {"armed", "fired"}
Reading == \E t \in Timers : timer[t] = "calling" /\ t \notin hasRead
Kept(p) == seen[p] = file[p] \/ snapshots[p] # file[p] \/ changed \/ Noted \/ Reading

LEMMA TracedHolds == IInv /\ IInv' /\ Traced /\ [Next]_vars => Traced'
<1> SUFFICES ASSUME IInv, IInv', Traced, [Next]_vars PROVE Traced'
    OBVIOUS
<1> USE DEF Traced
<1>0. /\ file \in [Paths -> Nat] /\ snapshots \in [Paths -> Nat] /\ hasRead \subseteq Timers
      /\ timer \in [Timers -> {"free", "armed", "fired", "calling"}]
    BY DEF IInv, TypeOK
<1>1. ASSUME NEW p \in Paths, Write(p) PROVE Traced'
    BY <1>0, <1>1 DEF Write, timers, life
<1>2. ASSUME NEW p \in Paths, Baseline(p) \/ Scan(p) PROVE Traced'
    BY <1>0, <1>2 DEF Baseline, Scan, timers, life
<1>3. CASE Start \/ Poll \/ ScanDone \/ LeavePoll \/ ReceiveEvent \/ LeaveFs \/ UNCHANGED vars
    BY <1>0, <1>3 DEF Start, Poll, ScanDone, LeavePoll, ReceiveEvent, LeaveFs, vars, timers, life
<1>4. CASE StartLoops
    BY <1>0, <1>4 DEF StartLoops, timers, life, IInv, Lifecycle, LoopsEnded
<1>5. CASE PollTrigger \/ EventTrigger
  <2>1. hasRead' = hasRead /\ \A t \in Timers : timer'[t] = "calling" <=> timer[t] = "calling"
      BY <1>5, DebounceCounts DEF PollTrigger, EventTrigger
  <2> QED
      BY <1>0, <1>5, <2>1 DEF PollTrigger, EventTrigger, life
<1>6. ASSUME NEW t \in Timers, Fire(t) \/ Enter(t) \/ ReadSource(t) \/ CallbackEnds(t) PROVE Traced'
    BY <1>0, <1>6 DEF Fire, Enter, ReadSource, CallbackEnds, life, loops
<1>7. ASSUME NEW s \in Stoppers, Stop(s) PROVE Traced'
    BY <1>0, <1>7 DEF Stop, loops, timers
<1>8. ASSUME NEW s \in Stoppers, LoopsLeft(s) \/ CallbacksLeft(s) \/ DoneClosed(s) PROVE Traced'
    BY <1>8 DEF LoopsLeft, CallbacksLeft, DoneClosed, loops, timers
<1> QED
    BY <1>1, <1>2, <1>3, <1>4, <1>5, <1>6, <1>7, <1>8 DEF Next

LEMMA ChangesHold == IInv /\ Traced /\ NoChangeLost /\ [Next]_vars => NoChangeLost'
<1> SUFFICES ASSUME IInv, Traced, NoChangeLost, [Next]_vars, state' = "running"
             PROVE  NoChangeLost'
    BY DEF NoChangeLost
<1>0. /\ file \in [Paths -> Nat] /\ snapshots \in [Paths -> Nat] /\ seen \in [Paths -> Nat]
      /\ timer \in [Timers -> {"free", "armed", "fired", "calling"}] /\ hasRead \subseteq Timers
      /\ debounce \in Timers \cup {None} /\ None \notin Timers
    BY WatcherAssumption DEF IInv, TypeOK
<1>1. CASE StartLoops
    BY <1>1 DEF StartLoops, NoChangeLost
<1>2. CASE ~StartLoops
  <2>1. state = "running" /\ Active
      BY <1>2 DEF Next, Write, Baseline, Scan, Start, Poll, ScanDone, PollTrigger, LeavePoll, ReceiveEvent,
         EventTrigger, LeaveFs, Fire, Enter, ReadSource, CallbackEnds, Stop, LoopsLeft, CallbacksLeft,
         DoneClosed, life, vars, IInv, Lifecycle, Traced, Active
  <2>2. \A p \in Paths : Kept(p)
      BY <2>1 DEF NoChangeLost, Kept, Noted, Reading
  <2>3. SUFFICES ASSUME NEW q \in Paths
                 PROVE  Kept(q)'
      BY DEF NoChangeLost, Kept, Noted, Reading
  <2>4. ASSUME NEW p \in Paths, Write(p) PROVE Kept(q)'
    <3>1. UNCHANGED <<changed, seen, snapshots, timers>> /\ file' = [file EXCEPT ![p] = @ + 1]
        BY <2>4 DEF Write
    <3>2. Noted' = Noted /\ Reading' = Reading
        BY <3>1 DEF Noted, Reading, timers
    <3>3. snapshots[p] # file[p] + 1
        BY <1>0 DEF Traced
    <3> QED
        BY <1>0, <2>2, <3>1, <3>2, <3>3 DEF Kept
  <2>5. ASSUME NEW p \in Paths, Scan(p) PROVE Kept(q)'
    <3>1. UNCHANGED <<file, seen, timers>> /\ changed' = (changed \/ snapshots[p] # file[p])
          /\ snapshots' = [snapshots EXCEPT ![p] = file[p]]
        BY <2>5 DEF Scan
    <3>2. Noted' = Noted /\ Reading' = Reading
        BY <3>1 DEF Noted, Reading, timers
    <3> QED
        BY <1>0, <2>2, <3>1, <3>2 DEF Kept
  <2>6. CASE PollTrigger \/ EventTrigger
    <3>1. Debounce /\ \E t \in Timers : debounce' = t /\ timer'[t] = "armed"
        BY <2>1, <2>6 DEF PollTrigger, EventTrigger, Debounce
    <3> QED
        BY <1>0, <3>1 DEF Kept, Noted
  <2>7. CASE \/ Poll \/ ScanDone \/ LeavePoll \/ ReceiveEvent \/ LeaveFs \/ UNCHANGED vars
             \/ \E s \in Stoppers : LoopsLeft(s) \/ CallbacksLeft(s) \/ DoneClosed(s)
    <3>1. UNCHANGED <<file, seen, snapshots, timers>> /\ (changed => changed')
        BY <2>7 DEF Poll, ScanDone, LeavePoll, ReceiveEvent, LeaveFs, vars, LoopsLeft, CallbacksLeft,
           DoneClosed, loops, timers, Traced
    <3>2. Noted' = Noted /\ Reading' = Reading
        BY <3>1 DEF Noted, Reading, timers
    <3> QED
        BY <2>2, <3>1, <3>2 DEF Kept
  <2>8. ASSUME NEW t \in Timers, Fire(t) \/ Enter(t) \/ CallbackEnds(t)
        PROVE  Kept(q)'
    <3>1. UNCHANGED <<file, seen, snapshots, changed>>
        BY <2>8 DEF Fire, Enter, CallbackEnds, loops
    <3>2. Noted => Noted' \/ Reading'
        BY <1>0, <2>1, <2>8 DEF Fire, Enter, CallbackEnds, Noted, Reading, Traced
    <3>3. Reading => Reading'
      <4>1. ASSUME NEW u \in Timers, timer[u] = "calling", u \notin hasRead
            PROVE  timer'[u] = "calling" /\ u \notin hasRead'
          BY <1>0, <2>8, <4>1 DEF Fire, Enter, CallbackEnds
      <4> QED
          BY <4>1 DEF Reading
    <3> QED
        BY <2>2, <3>1, <3>2, <3>3 DEF Kept
  <2>9. ASSUME NEW t \in Timers, ReadSource(t) PROVE Kept(q)'
      BY <2>9 DEF ReadSource, Kept
  <2> QED
      BY <1>2, <2>1, <2>4, <2>5, <2>6, <2>7, <2>8, <2>9 DEF Next, Baseline, Start, Stop
<1> QED
    BY <1>1, <1>2

\* Whatever files change while snapshots are taken, timers are replaced or fire and
\* callbacks overlap, no change is lost while the watcher runs: it has been read, or the
\* next poll finds it, or pollChanged, the debounce timer or a callback is on its way.
THEOREM Lossless == Spec => []NoChangeLost
<1>1. Init => Traced /\ NoChangeLost
    BY DEF Init, Traced, NoChangeLost
<1> QED
    BY <1>1, Invariance, TracedHolds, ChangesHold, PTL DEF Spec

----------------------------------------------------------------------------
(* The watcher as the manager sees it *)

Calling  == {t \in Timers : timer[t] = "calling"}
Returned == {s \in Stoppers : stopper[s] = "done"}

LEMMA CallingFinite == IsFiniteSet(Calling) /\ Cardinality(Calling) \in Nat
BY WatcherAssumption, FS_Subset, FS_CardinalityType DEF Calling

\* What the manager does not see.
LEMMA Unseen ==
    ASSUME UNCHANGED <<closed, Calling, Returned>>,
           state' = state \/ {state, state'} = {"ready", "starting"}
    PROVE  UNCHANGED Interface!vars
BY DEF Interface!vars, Calling, Returned

\* A call of Stop returns, which has nothing left to wait for.
LEMMA StopSeen ==
    ASSUME IInv, NEW s \in Stoppers, stopper[s] # "done", stopper' = [stopper EXCEPT ![s] = "done"],
           closed', Pending = {}, timer' = timer, state # "running"
    PROVE  Interface!Next
<1>1. Calling = {} /\ Calling' = {}
    BY DEF Calling, Pending
<1>2. Returned' = Returned \cup {s} /\ s \notin Returned
    BY DEF Returned, IInv, TypeOK
<1>3. state \in {"ready", "starting", "stopped"}
    BY DEF IInv, TypeOK
<1>4. Interface!StopReturns(s)
    BY <1>1, <1>2, <1>3, FS_EmptySet DEF Interface!StopReturns, Calling, Returned
<1> QED
    BY <1>4 DEF Interface!Next

LEMMA WatcherRefines == IInv /\ IInv' /\ [Next]_vars => [Interface!Next]_(Interface!vars)
<1> SUFFICES ASSUME IInv, IInv', [Next]_vars PROVE [Interface!Next]_(Interface!vars)
    OBVIOUS
<1>1. CASE \/ \E p \in Paths : Write(p) \/ Baseline(p) \/ Scan(p)
           \/ Start \/ Poll \/ ScanDone \/ LeavePoll \/ ReceiveEvent \/ LeaveFs
           \/ UNCHANGED vars
  <2>1. /\ UNCHANGED <<closed, timer, stopper>>
        /\ (state' = state \/ {state, state'} = {"ready", "starting"})
    BY <1>1 DEF Write, Baseline, Scan, Start, Poll, ScanDone, LeavePoll, ReceiveEvent, LeaveFs,
       vars, life, timers
  <2> QED
    BY <2>1, Unseen DEF Calling, Returned
<1>2. CASE StartLoops
  <2>1. /\ state = "starting" /\ state' = "running" /\ ~closed
        /\ UNCHANGED <<closed, timer, stopper>>
    BY <1>2 DEF StartLoops, timers, IInv, Lifecycle
  <2>2. Interface!Start
    BY <2>1 DEF Interface!Start
  <2> QED
    BY <2>2 DEF Interface!Next
<1>3. CASE PollTrigger \/ EventTrigger
  <2>1. UNCHANGED life /\ Calling' = Calling
    BY <1>3, DebounceCounts DEF PollTrigger, EventTrigger, Calling
  <2> QED
    BY <2>1, Unseen DEF life, Returned
<1>4. ASSUME NEW t \in Timers, Fire(t) \/ ReadSource(t) PROVE [Interface!Next]_(Interface!vars)
  <2>1. UNCHANGED life /\ Calling' = Calling
    BY <1>4 DEF Fire, ReadSource, Calling, IInv, TypeOK
  <2> QED
    BY <2>1, Unseen DEF life, Returned
<1>5. ASSUME NEW t \in Timers, Enter(t) PROVE [Interface!Next]_(Interface!vars)
  <2>1. timer[t] = "fired" /\ UNCHANGED life
    BY <1>5 DEF Enter
  <2>2. CASE Active /\ debounce = t
    <3>1. Calling' = Calling \cup {t} /\ t \notin Calling
      BY <1>5, <2>1, <2>2 DEF Enter, Calling, IInv, TypeOK
    <3>2. Cardinality(Calling') = Cardinality(Calling) + 1
      BY <3>1, CallingFinite, FS_AddElement
    <3>3. state = "running" /\ ~closed /\ UNCHANGED <<state, closed, stopper>>
      BY <2>1, <2>2 DEF Active, life, IInv, Lifecycle
    <3>4. Interface!Call
      BY <3>2, <3>3 DEF Interface!Call, Calling
    <3> QED
      BY <3>4 DEF Interface!Next
  <2>3. CASE ~(Active /\ debounce = t)
    <3>1. Calling' = Calling
      BY <1>5, <2>1, <2>3 DEF Enter, Calling, IInv, TypeOK
    <3> QED
      BY <2>1, <3>1, Unseen DEF life, Returned
  <2> QED
    BY <2>2, <2>3
<1>6. ASSUME NEW t \in Timers, CallbackEnds(t) PROVE [Interface!Next]_(Interface!vars)
  <2>1. Calling' = Calling \ {t} /\ t \in Calling /\ UNCHANGED life
    BY <1>6 DEF CallbackEnds, Calling, IInv, TypeOK
  <2>2. Cardinality(Calling') = Cardinality(Calling) - 1
    BY <2>1, CallingFinite, FS_RemoveElement
  <2>3. Cardinality(Calling) > 0
    BY <2>1, CallingFinite, FS_EmptySet
  <2>4. Interface!CallReturns
    BY <2>1, <2>2, <2>3 DEF Interface!CallReturns, Calling, life
  <2> QED
    BY <2>4 DEF Interface!Next
<1>7. ASSUME NEW s \in Stoppers, Stop(s) PROVE [Interface!Next]_(Interface!vars)
  <2>1. CASE state = "stopped"
    <3>1. /\ stopper[s] = "idle" /\ stopper' = [stopper EXCEPT ![s] = "waiting"]
          /\ UNCHANGED <<state, closed, timer>>
      BY <1>7, <2>1 DEF Stop, timers
    <3>2. Returned' = Returned
      BY <3>1 DEF Returned, IInv, TypeOK
    <3> QED
      BY <3>1, <3>2, Unseen DEF Calling
  <2>2. CASE state = "ready"
    <3>1. stopper[s] = "idle" /\ stopper' = [stopper EXCEPT ![s] = "done"] /\ closed'
      BY <1>7, <2>2 DEF Stop
    <3>2. Pending = {}
      BY <2>2 DEF IInv, Lifecycle
    <3>3. Pending' = {}
      BY <3>1 DEF IInv, Lifecycle
    <3>4. timer' = timer
      BY <3>2, <3>3 DEF Pending, IInv, TypeOK
    <3> QED
      BY <2>2, <3>1, <3>2, <3>4, StopSeen
  <2>3. CASE state = "running"
    <3>1. /\ stopper[s] = "idle" /\ stopper' = [stopper EXCEPT ![s] = "loops"]
          /\ state' = "stopped" /\ ~closed' /\ ~closed
      BY <1>7, <2>3 DEF Stop, IInv, Lifecycle
    <3>2. Returned' = Returned
      BY <3>1 DEF Returned, IInv, TypeOK
    <3>3. Calling' = Calling
      BY <1>7, <2>3 DEF Stop, Calling, IInv, TypeOK
    <3>4. Interface!Halt
      BY <2>3, <3>1, <3>2, <3>3 DEF Interface!Halt, Calling, Returned
    <3> QED
      BY <3>4 DEF Interface!Next
  <2> QED
    BY <1>7, <2>1, <2>2, <2>3 DEF Stop, IInv, TypeOK
<1>8. ASSUME NEW s \in Stoppers, LoopsLeft(s) PROVE [Interface!Next]_(Interface!vars)
  <2>1. Returned' = Returned /\ UNCHANGED <<state, closed, timer>>
    BY <1>8 DEF LoopsLeft, timers, Returned, IInv, TypeOK
  <2> QED
    BY <2>1, Unseen DEF Calling
<1>9. ASSUME NEW s \in Stoppers, CallbacksLeft(s) \/ DoneClosed(s) PROVE [Interface!Next]_(Interface!vars)
  <2>1. /\ stopper[s] # "done" /\ stopper' = [stopper EXCEPT ![s] = "done"] /\ closed' /\ timer' = timer
        /\ state = "stopped"
    BY <1>9 DEF CallbacksLeft, DoneClosed, timers, IInv, Lifecycle
  <2>2. Pending' = {}
    BY <2>1 DEF IInv, Lifecycle
  <2>3. Pending = {}
    BY <2>1, <2>2 DEF Pending
  <2> QED
    BY <2>1, <2>3, StopSeen
<1> QED
    BY <1>1, <1>2, <1>3, <1>4, <1>5, <1>6, <1>7, <1>8, <1>9 DEF Next

\* The watcher of a local source is the one that the manager reckons with.
THEOREM Managed == Spec => IsManaged
<1>1. Init => Interface!Init
  <2> SUFFICES ASSUME Init PROVE Interface!Init
    OBVIOUS
  <2>1. Calling = {} /\ Returned = {} /\ state = "ready" /\ ~closed
    BY DEF Init, Calling, Returned
  <2> QED
    BY <2>1, FS_EmptySet DEF Interface!Init, Calling, Returned
<1> QED
    BY <1>1, Invariance, WatcherRefines, PTL DEF Spec, IsManaged, Interface!Spec
=============================================================================
