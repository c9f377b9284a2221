------------------------ MODULE RemoteEntry_proofs ------------------------
(***************************************************************************)
(* Proofs about RemoteEntry, for every set of bundles, operators and        *)
(* callers of Stop, every other entry, and any number of requests, changes  *)
(* of the server and failures.  Two of them follow from an invariant each:  *)
(* Serial, that overlapping synchronizations exclude each other until their *)
(* results are recorded, and Ended, that the poller ends with its           *)
(* configuration.                                                           *)
(***************************************************************************)
EXTENDS RemoteEntry, TLAPS

\* The steps of the manager and the poller that no job takes part in.
Aside ==
    \/ Prepare \/ TimerFires \/ PollerQuits \/ ServerChanges
    \/ \E s \in Stoppers : Stop(s) \/ StopReturns(s)

\* Who goes on to use an answer has one.
Answered == \A j \in Jobs : pc[j] \in {"install", "recordV"} => got[j] # Down

Shape == TypeOK /\ Answered

LEMMA ShapeHolds == Init => Shape
<1> SUFFICES ASSUME Init PROVE Shape
    OBVIOUS
<1>1. NewState \in States /\ NoResult \in Results
    BY DEF NewState, States, NoResult, Results
<1>2. PollerTypeOK
    BY DEF Init, PollerInit, PollerTypeOK
<1>3. trouble \in BOOLEAN
    BY DEF Init
<1> QED
    BY <1>1, <1>2, <1>3 DEF Init, Shape, TypeOK, Answered, Answers, Steps

LEMMA PollerTyped ==
    ASSUME PollerTypeOK,
           \/ Start \/ Fire \/ Leave \/ CallbackBegins \/ CallbackEnds
           \/ \E s \in Stoppers : StopFirst(s) \/ StopAgain(s) \/ FirstReturns(s) \/ AgainReturns(s)
    PROVE  PollerTypeOK'
BY DEF PollerTypeOK, Start, Fire, Leave, CallbackBegins, CallbackEnds, StopFirst, StopAgain,
   FirstReturns, AgainReturns, Step

\* A job that ends, or goes on to a step, has variables of their types.
LEMMA EndTyped ==
    ASSUME Shape, NEW j \in Jobs, Ends(j)
    PROVE  /\ pc' = [pc EXCEPT ![j] = "idle"] /\ pc' \in [Jobs -> Steps]
           /\ task' \in [Jobs -> {"sync", "validate"}] /\ got' \in [Jobs -> Answers]
           /\ result' \in [Jobs -> Results] /\ lock' \in Jobs \cup {None}
           /\ PollerTypeOK' /\ Answered'
<1>1. PollerTypeOK'
    BY PollerTyped DEF Shape, TypeOK, Ends, pollerVars, PollerTypeOK
<1> QED
    BY <1>1 DEF Shape, TypeOK, Answered, Ends, Goto, Steps, Answers, Results, NoResult

LEMMA ContinueTyped ==
    ASSUME Shape, NEW j \in Jobs, NEW l \in Steps, Continues(j, l)
    PROVE  /\ pc' \in [Jobs -> Steps] /\ task' \in [Jobs -> {"sync", "validate"}]
           /\ lock' \in Jobs \cup {None} /\ PollerTypeOK'
BY DEF Shape, TypeOK, Continues, Goto, PollerTypeOK, pollerVars

LEMMA RecordedTyped ==
    ASSUME NEW s \in States, NEW r \in Results
    PROVE  Recorded(s, r) \in States
BY DEF Recorded, States, Results

\* What Install leaves: a result r, of which a failure or a bad read-back has a cause.
Tells(r, j) ==
    /\ result' = [result EXCEPT ![j] = r]
    /\ IF r.info = None THEN dest' = dest ELSE r.seen \in {dest', Bad}
    /\ r.failed \/ r.seen = Bad => trouble' \/ got[j] = Bad

LEMMA Published ==
    ASSUME Shape, NEW j \in Jobs, Install(j), Active
    PROVE  /\ \E r \in Results : Tells(r, j)
           /\ result' \in [Jobs -> Results] /\ dest' \in Bundles \cup {Bad}
           /\ server' = server /\ trouble' \in BOOLEAN /\ (trouble => trouble')
           /\ changes' = changes /\ faults' \in Nat
<1> USE EntryAssumption
<1>1. got[j] \in Bundles \cup {Bad}
    BY DEF Install, Shape, TypeOK, Answered, Answers
<1>2. CASE got[j] = Bad
  <2> DEFINE r == [info |-> None, seen |-> None, failed |-> TRUE]
  <2>1. result' = [result EXCEPT ![j] = r] /\ UNCHANGED <<dest, world>>
    BY <1>2 DEF Install, Publish
  <2>2. r \in Results /\ r.info = None
    BY DEF Results
  <2>3. Tells(r, j)
    BY <1>2, <2>1, <2>2 DEF Tells
  <2> HIDE DEF r
  <2> QED
    BY <2>1, <2>2, <2>3 DEF world, Shape, TypeOK
<1>3. CASE got[j] # Bad
  <2>1. PICK failed, unread \in BOOLEAN :
           /\ dest' \in Leaves(got[j], dest, failed)
           /\ IF failed \/ unread THEN Fault ELSE UNCHANGED world
           /\ result' = [result EXCEPT ![j] = [info |-> got[j], failed |-> failed,
                                               seen |-> IF unread THEN Bad ELSE dest']]
    BY <1>3 DEF Install, Publish
  <2> DEFINE r == [info |-> got[j], failed |-> failed, seen |-> IF unread THEN Bad ELSE dest']
  <2>2. dest' \in Bundles \cup {Bad} /\ (~failed => dest' # Bad)
    BY <1>1, <1>3, <2>1 DEF Leaves, Shape, TypeOK
  <2>3. r \in Results /\ r.info # None /\ r.seen \in {dest', Bad}
    BY <1>1, <1>3, <2>2 DEF Results
  <2>4. CASE Fault
    <3>1. Tells(r, j)
      BY <2>1, <2>3, <2>4 DEF Tells, Fault
    <3> HIDE DEF r
    <3>2. result' \in [Jobs -> Results]
      BY <2>3, <3>1 DEF Tells, Shape, TypeOK
    <3>3. server' = server /\ trouble' = TRUE /\ changes' = changes /\ faults' \in Nat
      BY <2>4 DEF Fault, Shape, TypeOK
    <3> QED
      BY <2>2, <2>3, <3>1, <3>2, <3>3
  <2>5. CASE ~failed /\ ~unread /\ UNCHANGED world
    <3>1. ~r.failed /\ r.seen # Bad
      BY <2>2, <2>5
    <3>2. Tells(r, j)
      BY <2>1, <2>3, <3>1 DEF Tells
    <3> HIDE DEF r
    <3> QED
      BY <2>2, <2>3, <2>5, <3>2 DEF Tells, world, Shape, TypeOK
  <2> QED
    BY <2>1, <2>4, <2>5
<1> QED
    BY <1>2, <1>3

LEMMA AsideFrame == Aside => UNCHANGED <<flags, phase, dest, lock, work, st, tasks>>
BY DEF Aside, Prepare, TimerFires, PollerQuits, ServerChanges, Stop, StopReturns

LEMMA ShapeStep == Shape /\ [Next]_vars => Shape'
<1> SUFFICES ASSUME Shape, [Next]_vars PROVE Shape'
    OBVIOUS
<1> USE EntryAssumption
<1>1. CASE Aside
  <2>1. PollerTypeOK'
    BY <1>1, PollerTyped DEF Shape, TypeOK, Aside, Prepare, TimerFires, PollerQuits,
       ServerChanges, Stop, StopReturns, PollerTypeOK, pollerVars
  <2>2. server' \in Answers /\ trouble' \in BOOLEAN /\ changes' \in Nat /\ faults' \in Nat
    <3>1. CASE ServerChanges
      BY <3>1 DEF Shape, TypeOK, ServerChanges
    <3>2. CASE UNCHANGED world
      BY <3>2 DEF Shape, TypeOK, world
    <3> QED
      BY <1>1, <3>1, <3>2 DEF Aside, Prepare, TimerFires, PollerQuits, Stop, StopReturns
  <2> QED
    BY <1>1, <2>1, <2>2, AsideFrame DEF Shape, TypeOK, Answered, work, flags
<1>2. CASE Activate
    BY <1>2 DEF Shape, TypeOK, Answered, Activate, world, flags, pollerVars, PollerTypeOK, Jobs, Steps
<1>3. CASE Retire
    BY <1>3 DEF Shape, TypeOK, Answered, Retire, world, work, flags, pollerVars, PollerTypeOK,
       NewState, States
<1>4. CASE Tick
  <2>1. PollerTypeOK'
    BY <1>4, PollerTyped DEF Shape, TypeOK, Tick
  <2> QED
    BY <1>4, <2>1 DEF Shape, TypeOK, Answered, Tick, Goto, world, flags, Jobs, Steps
<1>5. ASSUME NEW o \in Operators, Ask(o) PROVE Shape'
  <2>1. PICK t \in {"sync", "validate"} : task' = [task EXCEPT ![o] = t]
    BY <1>5 DEF Ask
  <2> QED
    BY <1>5, <2>1 DEF Shape, TypeOK, Answered, Ask, Goto, world, flags, pollerVars,
       PollerTypeOK, Jobs, Steps
<1>6. ASSUME NEW j \in Jobs, Begin(j) PROVE Shape'
  <2>1. CASE Ends(j) /\ UNCHANGED world
    BY <1>6, <2>1, EndTyped DEF Shape, TypeOK, Begin, world, flags
  <2>2. CASE Continues(j, IF task[j] = "sync" THEN "lock" ELSE "announce") /\ UNCHANGED <<world, got, result>>
    BY <1>6, <2>2, ContinueTyped DEF Shape, TypeOK, Answered, Begin, world, flags, Steps, Continues, Goto
  <2>3. CASE /\ Fault /\ result' = [result EXCEPT ![j] = [info |-> None, seen |-> Bad, failed |-> TRUE]]
             /\ Continues(j, "record") /\ UNCHANGED got
    <3>1. result' \in [Jobs -> Results] /\ trouble' \in BOOLEAN /\ faults' \in Nat
      BY <2>3 DEF Shape, TypeOK, Fault, Results
    <3>2. Answered'
      BY <2>3 DEF Shape, TypeOK, Answered, Continues, Goto
    <3> QED
      BY <1>6, <2>3, <3>1, <3>2, ContinueTyped DEF Shape, TypeOK, Begin, Fault, flags, Steps
  <2> QED
    BY <1>6, <2>1, <2>2, <2>3 DEF Begin
<1>7. ASSUME NEW j \in Jobs, LockDestination(j) PROVE Shape'
    BY <1>7 DEF Shape, TypeOK, Answered, LockDestination, Goto, world, flags, pollerVars, PollerTypeOK, Steps
<1>8. ASSUME NEW j \in Jobs, Announce(j) PROVE Shape'
  <2>1. st' \in States
    <3>1. st' = st \/ \E q \in {"Unknown", "Healthy", "Error"} : st' = [st EXCEPT !.query = q, !.busy = TRUE]
      BY <1>8 DEF Announce, Shape, TypeOK, States
    <3> QED
      BY <3>1 DEF Shape, TypeOK, States
  <2> QED
    BY <1>8, <2>1, EndTyped, ContinueTyped
       DEF Shape, TypeOK, Answered, Announce, world, flags, Steps, Continues, Goto
<1>9. ASSUME NEW j \in Jobs, Fetch(j) PROVE Shape'
  <2>1. PICK a \in Answers : got' = [got EXCEPT ![j] = a]
    BY <1>9 DEF Fetch, Shape, TypeOK, Answers
  <2>2. Answered'
    BY <1>9, <2>1 DEF Fetch, Continues, Goto, Shape, TypeOK, Answered
  <2> QED
    BY <1>9, <2>1, <2>2, ContinueTyped DEF Shape, TypeOK, Fetch, world, flags, Steps
<1>10. ASSUME NEW j \in Jobs, RecordQuery(j) PROVE Shape'
  <2>1. st' \in States
    BY <1>10 DEF RecordQuery, Shape, TypeOK, States
  <2> QED
    BY <1>10, <2>1, EndTyped, ContinueTyped
       DEF Shape, TypeOK, Answered, RecordQuery, world, flags, Steps, Continues, Goto
<1>11. ASSUME NEW j \in Jobs, Install(j) PROVE Shape'
  <2>1. CASE Active
    BY <1>11, <2>1, Published, ContinueTyped
       DEF Shape, TypeOK, Answered, Install, flags, Steps, Continues, Goto
  <2>2. CASE ~Active
    BY <1>11, <2>2, EndTyped DEF Shape, TypeOK, Install, world, flags
  <2> QED
    BY <2>1, <2>2
<1>12. ASSUME NEW j \in Jobs, Record(j) PROVE Shape'
    BY <1>12, EndTyped, RecordedTyped DEF Shape, TypeOK, Record, world, flags
<1>13. ASSUME NEW j \in Jobs, RecordValidation(j) PROVE Shape'
  <2>1. st' \in States
    BY <1>13 DEF RecordValidation, Shape, TypeOK, Answered, States, Answers
  <2> QED
    BY <1>13, <2>1, EndTyped DEF Shape, TypeOK, RecordValidation, world, flags
<1>14. CASE UNCHANGED vars
    BY <1>14 DEF Shape, TypeOK, Answered, vars, flags, world, work, pollerVars, PollerTypeOK
<1> QED
    BY <1>1, <1>2, <1>3, <1>4, <1>5, <1>6, <1>7, <1>8, <1>9, <1>10, <1>11, <1>12, <1>13, <1>14
       DEF Next, Aside, Work

\* Every variable has a value of its type, and no answer that cannot be read is
\* installed or validated.
THEOREM Typing == Spec => []TypeOK
<1>1. Shape => TypeOK
    BY DEF Shape
<1> QED
    BY <1>1, ShapeHolds, ShapeStep, PTL DEF Spec
----------------------------------------------------------------------------
(* The poller ends with its configuration, after its callback *)

\* Stop is called once the configuration is left; it returns when the goroutine has
\* ended, and no callback runs outside of the goroutine.
Ended ==
    /\ once # "fresh" => phase = "left"
    /\ cancelled => once # "fresh"
    /\ once = "done" => loop \in {"off", "done"}
    /\ \A s \in Stoppers : (stopper[s] # "out" => once # "fresh") /\ (stopper[s] = "returned" => once = "done")
    /\ pc["poll"] # "idle" => loop = "callback"

\* What the steps of a job have in common.
LEMMA WorkFrame ==
    ASSUME NEW j \in Jobs, Work(j)
    PROVE  /\ UNCHANGED <<flags, phase, tasks>> /\ pc[j] # "idle"
           /\ Ends(j) \/ (UNCHANGED pollerVars /\ \E l \in Steps \ {"idle"} : pc' = [pc EXCEPT ![j] = l])
<1> USE DEF Continues, Goto, Steps
<1>1. CASE Begin(j)
    BY <1>1 DEF Begin
<1>2. CASE LockDestination(j)
    BY <1>2 DEF LockDestination
<1>3. CASE Announce(j)
    BY <1>3 DEF Announce
<1>4. CASE Fetch(j)
    BY <1>4 DEF Fetch
<1>5. CASE RecordQuery(j)
    BY <1>5 DEF RecordQuery
<1>6. CASE Install(j)
    BY <1>6 DEF Install
<1>7. CASE Record(j)
    BY <1>7 DEF Record
<1>8. CASE RecordValidation(j)
    BY <1>8 DEF RecordValidation
<1> QED
    BY <1>1, <1>2, <1>3, <1>4, <1>5, <1>6, <1>7, <1>8 DEF Work

LEMMA EndedStep == Shape /\ Ended /\ [Next]_vars => Ended'
<1> SUFFICES ASSUME Shape, Ended, [Next]_vars PROVE Ended'
    OBVIOUS
<1> USE DEF Shape, TypeOK, PollerTypeOK, Ended
<1>1. CASE Prepare
    BY <1>1 DEF Prepare, Start, work
<1>2. CASE TimerFires \/ PollerQuits
    BY <1>2 DEF TimerFires, PollerQuits, Fire, Leave, work
<1>3. CASE ServerChanges
    BY <1>3 DEF ServerChanges, work, pollerVars
<1>4. ASSUME NEW s \in Stoppers, Stop(s) PROVE Ended'
    BY <1>4 DEF Stop, StopFirst, StopAgain, Step, work
<1>5. ASSUME NEW s \in Stoppers, StopReturns(s) PROVE Ended'
  <2>1. phase' = phase /\ pc' = pc
    BY <1>5 DEF StopReturns, work
  <2>2. CASE FirstReturns(s)
    BY <2>1, <2>2 DEF FirstReturns, Step
  <2>3. CASE AgainReturns(s)
    BY <2>1, <2>3 DEF AgainReturns, Step
  <2> QED
    BY <1>5, <2>2, <2>3 DEF StopReturns
<1>6. CASE Activate
    BY <1>6 DEF Activate, pollerVars
<1>7. CASE Retire
    BY <1>7 DEF Retire, work, pollerVars
<1>8. CASE Tick
    BY <1>8 DEF Tick, CallbackBegins, Goto, Jobs
<1>9. ASSUME NEW o \in Operators, Ask(o) PROVE Ended'
    BY <1>9, EntryAssumption DEF Ask, Goto, pollerVars
<1>10. ASSUME NEW j \in Jobs, Work(j) PROVE Ended'
  <2>1. CASE Ends(j) /\ j = "poll"
    BY <1>10, <2>1, WorkFrame DEF Ends, CallbackEnds, Goto
  <2>2. CASE Ends(j) /\ j # "poll"
    <3>1. UNCHANGED pollerVars /\ pc'["poll"] = pc["poll"] /\ phase' = phase
      BY <1>10, <2>2, WorkFrame DEF Ends, Goto, Jobs
    <3> QED
      BY <3>1 DEF pollerVars
  <2>3. CASE UNCHANGED pollerVars /\ \E l \in Steps \ {"idle"} : pc' = [pc EXCEPT ![j] = l]
    BY <1>10, <2>3, WorkFrame DEF pollerVars
  <2> QED
    BY <1>10, <2>1, <2>2, <2>3, WorkFrame
<1>11. CASE UNCHANGED vars
    BY <1>11 DEF vars, work, pollerVars
<1> QED
    BY <1>1, <1>2, <1>3, <1>4, <1>5, <1>6, <1>7, <1>8, <1>9, <1>10, <1>11 DEF Next

LEMMA AlwaysEnded == Spec => [](Shape /\ Ended)
<1>1. Init => Ended
    BY DEF Init, PollerInit, Ended, Jobs
<1> QED
    BY <1>1, ShapeHolds, ShapeStep, EndedStep, PTL DEF Spec

LEMMA PollerRefines == Shape /\ Ended /\ [Next]_vars => [Interface!Next]_(Interface!vars)
<1> SUFFICES ASSUME Shape, Ended, [Next]_vars PROVE [Interface!Next]_(Interface!vars)
    OBVIOUS
<1> USE DEF Shape, TypeOK, PollerTypeOK, Ended, Interface!vars
<1> DEFINE called == pc["poll"] # "idle"
<1>1. CASE Prepare
  <2>1. loop = "off" /\ loop' = "select" /\ once # "done" /\ UNCHANGED <<once, stopper, pc>>
    BY <1>1 DEF Prepare, Start, work
  <2>2. Interface!Start
    BY <2>1 DEF Interface!Start
  <2> QED
    BY <2>2 DEF Interface!Next
<1>2. CASE PollerQuits
  <2>1. loop = "select" /\ loop' = "done" /\ once # "done" /\ UNCHANGED <<once, stopper, pc>>
    BY <1>2 DEF PollerQuits, Leave, work
  <2>2. Interface!Halt
    BY <2>1 DEF Interface!Halt
  <2> QED
    BY <2>2 DEF Interface!Next
<1>3. CASE Tick
  <2>1. loop = "select" /\ loop' = "callback" /\ once # "done" /\ UNCHANGED <<once, stopper>>
    BY <1>3 DEF Tick, CallbackBegins
  <2>2. ~called /\ called'
    BY <1>3, <2>1 DEF Tick, Goto, Jobs
  <2>3. Interface!Call
    BY <2>1, <2>2 DEF Interface!Call
  <2> QED
    BY <2>3 DEF Interface!Next
<1>4. CASE UNCHANGED <<loop, once, stopper>> /\ (called' <=> called)
    BY <1>4
<1>5. ASSUME NEW s \in Stoppers, Stop(s) PROVE [Interface!Next]_(Interface!vars)
  <2>1. pc' = pc /\ loop' = loop
    BY <1>5 DEF Stop, StopFirst, StopAgain, work
  <2>2. CASE StopFirst(s) /\ loop = "off"
    <3>1. /\ once = "fresh" /\ once' = "done" /\ ~called
          /\ stopper[s] = "out" /\ stopper' = [stopper EXCEPT ![s] = "returned"]
      BY <2>2 DEF StopFirst, Step
    <3>2. Interface!StopReturns(s)
      BY <2>1, <2>2, <3>1 DEF Interface!StopReturns
    <3> QED
      BY <3>2 DEF Interface!Next
  <2>3. CASE (StopFirst(s) /\ loop # "off") \/ StopAgain(s)
    <3>1. /\ once' = "done" <=> once = "done"
          /\ stopper' \in {[stopper EXCEPT ![s] = "waiting"], [stopper EXCEPT ![s] = "queued"]}
          /\ stopper[s] = "out"
      BY <2>3 DEF StopFirst, StopAgain, Step
    <3>2. \A t \in Stoppers : stopper'[t] = "returned" <=> stopper[t] = "returned"
      BY <3>1
    <3> QED
      BY <2>1, <3>1, <3>2
  <2> QED
    BY <1>5, <2>2, <2>3 DEF Stop
<1>6. ASSUME NEW s \in Stoppers, StopReturns(s) PROVE [Interface!Next]_(Interface!vars)
  <2>1. /\ loop' = loop /\ loop \in {"off", "done"} /\ once # "fresh" /\ once' = "done"
        /\ loop = "done" \/ once = "done"
        /\ stopper[s] \in {"waiting", "queued"} /\ stopper' = [stopper EXCEPT ![s] = "returned"]
    BY <1>6 DEF StopReturns, FirstReturns, AgainReturns, Step
  <2>2. ~called /\ ~called'
    BY <1>6, <2>1 DEF StopReturns, work
  <2>3. Interface!StopReturns(s)
    BY <2>1, <2>2 DEF Interface!StopReturns
  <2> QED
    BY <2>3 DEF Interface!Next
<1>7. ASSUME NEW j \in Jobs, Work(j) PROVE [Interface!Next]_(Interface!vars)
  <2>1. CASE Ends(j) /\ j = "poll"
    <3>1. loop = "callback" /\ loop' = "select" /\ once # "done" /\ UNCHANGED <<once, stopper>>
      BY <2>1 DEF Ends, CallbackEnds
    <3>2. called /\ ~called'
      BY <1>7, <2>1, WorkFrame DEF Ends, Goto
    <3>3. Interface!CallReturns
      BY <3>1, <3>2 DEF Interface!CallReturns
    <3> QED
      BY <3>3 DEF Interface!Next
  <2>2. CASE Ends(j) /\ j # "poll"
    BY <1>4, <2>2 DEF Ends, Goto, pollerVars, Jobs
  <2>3. CASE UNCHANGED pollerVars /\ \E l \in Steps \ {"idle"} : pc' = [pc EXCEPT ![j] = l]
    BY <1>4, <1>7, <2>3, WorkFrame DEF pollerVars, Jobs
  <2> QED
    BY <1>7, <2>1, <2>2, <2>3, WorkFrame
<1>8. ASSUME TimerFires \/ ServerChanges \/ Activate \/ Retire \/ UNCHANGED vars
      PROVE  UNCHANGED <<loop, once, stopper>> /\ (called' <=> called)
    BY <1>8 DEF TimerFires, Fire, ServerChanges, Activate, Retire, pollerVars, vars, work, Jobs
<1>9. ASSUME NEW o \in Operators, Ask(o)
      PROVE  UNCHANGED <<loop, once, stopper>> /\ (called' <=> called)
    BY <1>9, EntryAssumption DEF Ask, Goto, pollerVars, Jobs
<1> QED
    BY <1>1, <1>2, <1>3, <1>4, <1>5, <1>6, <1>7, <1>8, <1>9 DEF Next

\* The poller is the watcher that the manager reckons with: its callbacks, which are
\* synchronizations of the manager, run between Start and the return of Stop only.
THEOREM Managed == Spec => IsManaged
<1>1. Init => Interface!Init
    BY DEF Init, PollerInit, Interface!Init, Jobs
<1> QED
    BY <1>1, AlwaysEnded, PollerRefines, PTL DEF Spec, IsManaged, Interface!Spec

----------------------------------------------------------------------------
(* Results are recorded in the order in which they were installed *)

\* A job is about to record what it installed.
Recording(j) == pc[j] = "record" /\ result[j].info # None

\* Whoever synchronizes has the destination locked until its result is recorded.
Synchronizing(j) ==
    \/ pc[j] \in {"announce", "fetch", "query"} /\ task[j] = "sync"
    \/ pc[j] = "install" \/ Recording(j)
Locked == \A j \in Jobs : Synchronizing(j) => lock = j

\* What it read back is still there, or it could not read it.
ReadBack == \A j \in Jobs : Recording(j) => result[j].seen \in {dest, Bad}

\* So is what the status tells of the destination, when no result is about to come.
Truth == st.checked /\ ~st.dstErr /\ (\A j \in Jobs : ~Recording(j)) => st.dst = dest

\* No job writes the status of a configuration that is not active.
Inactive == phase # "active" => st = NewState

Serial == Locked /\ ReadBack /\ Truth /\ Inactive

\* A step that installs and records nothing, and unlocks for the job that had locked.
LEMMA SerialStays ==
    ASSUME Shape, Serial, NEW j \in Jobs, dest' = dest, phase' = phase,
           st'.checked = st.checked, st'.dstErr = st.dstErr, st'.dst = st.dst,
           Active \/ st' = st, ~Recording(j), ~Recording(j)',
           \A k \in Jobs \ {j} : /\ pc'[k] = pc[k] /\ task'[k] = task[k] /\ result'[k] = result[k]
                                 /\ lock = k => lock' = k,
           Synchronizing(j)' => lock' = j
    PROVE  Serial'
BY DEF Serial, Locked, Synchronizing, Recording, ReadBack, Truth, Inactive, Active

\* A job that ends and is not recording.
LEMMA EndFrame ==
    ASSUME Shape, NEW j \in Jobs, Ends(j)
    PROVE  /\ ~Recording(j)' /\ ~Synchronizing(j)'
           /\ \A k \in Jobs \ {j} : /\ pc'[k] = pc[k] /\ task'[k] = task[k] /\ result'[k] = result[k]
                                    /\ lock = k => lock' = k
BY DEF Shape, TypeOK, Ends, Goto, Recording, Synchronizing

LEMMA ContinueFrame ==
    ASSUME Shape, NEW j \in Jobs, NEW l, Continues(j, l)
    PROVE  /\ pc'[j] = l /\ task'[j] = task[j] /\ lock' = lock
           /\ \A k \in Jobs \ {j} : pc'[k] = pc[k] /\ task'[k] = task[k] /\ (lock = k => lock' = k)
BY DEF Shape, TypeOK, Continues, Goto

LEMMA SerialWork ==
    ASSUME Shape, Serial, NEW j \in Jobs, Work(j)
    PROVE  Serial'
<1> USE EntryAssumption
<1>0. phase' = phase
    BY WorkFrame
<1>1. CASE Begin(j)
  <2>1. dest' = dest /\ st' = st /\ ~Recording(j)
    BY <1>1 DEF Begin, Recording
  <2>2. CASE Ends(j)
    BY <1>0, <2>1, <2>2, EndFrame, SerialStays
  <2>3. CASE Continues(j, IF task[j] = "sync" THEN "lock" ELSE "announce") /\ UNCHANGED <<world, got, result>>
    BY <1>0, <2>1, <2>3, ContinueFrame, SerialStays DEF Recording, Synchronizing
  <2>4. CASE /\ result' = [result EXCEPT ![j] = [info |-> None, seen |-> Bad, failed |-> TRUE]]
             /\ Continues(j, "record")
    <3>1. result'[j].info = None /\ \A k \in Jobs \ {j} : result'[k] = result[k]
      BY <2>4 DEF Shape, TypeOK
    <3> QED
      BY <1>0, <2>1, <2>4, <3>1, ContinueFrame, SerialStays DEF Recording, Synchronizing
  <2> QED
    BY <1>1, <2>2, <2>3, <2>4 DEF Begin
<1>2. CASE LockDestination(j)
  <2>1. /\ dest' = dest /\ st' = st /\ ~Recording(j) /\ ~Recording(j)' /\ lock' = j
        /\ \A k \in Jobs \ {j} : /\ pc'[k] = pc[k] /\ task'[k] = task[k] /\ result'[k] = result[k]
                                 /\ lock # k
    BY <1>2 DEF LockDestination, Goto, Recording, Shape, TypeOK
  <2> QED
    BY <1>0, <2>1, SerialStays
<1>3. CASE Announce(j)
  <2>1. /\ dest' = dest /\ ~Recording(j) /\ (Active \/ st' = st)
        /\ st'.checked = st.checked /\ st'.dstErr = st.dstErr /\ st'.dst = st.dst
    BY <1>3 DEF Announce, Recording, Shape, TypeOK, States
  <2>2. CASE Ends(j)
    BY <1>0, <2>1, <2>2, EndFrame, SerialStays
  <2>3. CASE Continues(j, "fetch") /\ UNCHANGED <<got, result>>
    BY <1>0, <1>3, <2>1, <2>3, ContinueFrame, SerialStays
       DEF Announce, Recording, Synchronizing, Serial, Locked
  <2> QED
    BY <1>3, <2>2, <2>3 DEF Announce
<1>4. CASE Fetch(j)
  <2>1. dest' = dest /\ st' = st /\ ~Recording(j) /\ result' = result /\ Continues(j, "query")
    BY <1>4 DEF Fetch, Recording
  <2> QED
    BY <1>0, <1>4, <2>1, ContinueFrame, SerialStays
       DEF Fetch, Recording, Synchronizing, Serial, Locked
<1>5. CASE RecordQuery(j)
  <2>1. /\ dest' = dest /\ ~Recording(j) /\ (Active \/ st' = st)
        /\ st'.checked = st.checked /\ st'.dstErr = st.dstErr /\ st'.dst = st.dst
    BY <1>5 DEF RecordQuery, Recording, Shape, TypeOK, States
  <2>2. CASE Ends(j)
    BY <1>0, <2>1, <2>2, EndFrame, SerialStays
  <2>3. CASE Continues(j, IF task[j] = "sync" THEN "install" ELSE "recordV") /\ UNCHANGED <<got, result>>
    BY <1>0, <1>5, <2>1, <2>3, ContinueFrame, SerialStays
       DEF RecordQuery, Recording, Synchronizing, Serial, Locked
  <2> QED
    BY <1>5, <2>2, <2>3 DEF RecordQuery
<1>6. CASE Install(j)
  <2>1. CASE Active
    <3>1. PICK r \in Results : Tells(r, j)
      BY <1>6, <2>1, Published
    <3>2. lock = j /\ st' = st /\ Continues(j, "record")
      BY <1>6, <2>1 DEF Install, Serial, Locked, Synchronizing
    <3>3. result'[j] = r /\ \A k \in Jobs \ {j} : result'[k] = result[k]
      BY <3>1 DEF Tells, Shape, TypeOK
    <3>4. \A k \in Jobs \ {j} : ~Synchronizing(k) /\ ~Synchronizing(k)' /\ ~Recording(k)'
      BY <3>2, <3>3, ContinueFrame DEF Serial, Locked, Synchronizing, Recording
    <3>5. Locked'
      BY <3>2, <3>4, ContinueFrame DEF Locked
    <3>6. ReadBack'
      BY <3>1, <3>3, <3>4 DEF ReadBack, Recording, Tells
    <3>7. Truth'
      <4>1. CASE r.info = None
        BY <1>6, <3>1, <3>2, <3>4, <4>1
           DEF Truth, Serial, Tells, Recording, Synchronizing, Install
      <4>2. CASE r.info # None
        BY <3>2, <3>3, <4>2, ContinueFrame DEF Truth, Recording
      <4> QED
        BY <4>1, <4>2
    <3> QED
      BY <1>0, <2>1, <3>5, <3>6, <3>7 DEF Serial, Inactive, Active
  <2>2. CASE ~Active
    <3>1. dest' = dest /\ st' = st /\ ~Recording(j) /\ Ends(j)
      BY <1>6, <2>2 DEF Install, Recording
    <3> QED
      BY <1>0, <3>1, EndFrame, SerialStays
  <2> QED
    BY <2>1, <2>2
<1>7. CASE Record(j)
  <2>1. dest' = dest /\ Ends(j)
    BY <1>7 DEF Record
  <2>2. Locked' /\ ReadBack'
    BY <2>1, EndFrame DEF Serial, Locked, ReadBack, Synchronizing, Recording
  <2>3. Inactive'
    BY <1>0, <1>7 DEF Record, Serial, Inactive, Active
  <2>4. Truth'
    <3>1. CASE ~Active
      BY <1>0, <1>7, <3>1 DEF Record, Truth, Serial, Inactive, Active, NewState
    <3>2. CASE Active /\ result[j].info = None
      <4>1. \/ st'.dstErr
            \/ st'.checked = st.checked /\ st'.dstErr = st.dstErr /\ st'.dst = st.dst
        BY <1>7, <3>2 DEF Record, Recorded, Shape, TypeOK, States
      <4> QED
        BY <2>1, <3>2, <4>1, EndFrame DEF Truth, Serial, Recording
    <3>3. CASE Active /\ result[j].info # None
      <4>1. result[j].seen \in {dest, Bad}
        BY <1>7, <3>3 DEF Record, Serial, ReadBack, Recording
      <4>2. st'.dstErr \/ (st'.dst = result[j].seen /\ result[j].seen # Bad)
        BY <1>7, <3>3 DEF Record, Recorded, Shape, TypeOK, States
      <4> QED
        BY <2>1, <4>1, <4>2 DEF Truth
    <3> QED
      BY <3>1, <3>2, <3>3
  <2> QED
    BY <2>2, <2>3, <2>4 DEF Serial
<1>8. CASE RecordValidation(j)
  <2>1. /\ dest' = dest /\ ~Recording(j) /\ (Active \/ st' = st) /\ Ends(j)
        /\ st'.checked = st.checked /\ st'.dstErr = st.dstErr /\ st'.dst = st.dst
    BY <1>8 DEF RecordValidation, Recording, Shape, TypeOK, States
  <2> QED
    BY <1>0, <2>1, EndFrame, SerialStays
<1> QED
    BY <1>1, <1>2, <1>3, <1>4, <1>5, <1>6, <1>7, <1>8 DEF Work

LEMMA SerialStep == Shape /\ Ended /\ Serial /\ [Next]_vars => Serial'
<1> SUFFICES ASSUME Shape, Ended, Serial, [Next]_vars PROVE Serial'
    OBVIOUS
<1> USE EntryAssumption
<1>1. CASE Aside \/ UNCHANGED vars
  <2>1. UNCHANGED <<phase, dest, lock, pc, task, result, st>>
    BY <1>1, AsideFrame DEF vars, work
  <2> QED
    BY <2>1 DEF Serial, Locked, Synchronizing, Recording, ReadBack, Truth, Inactive
<1>2. CASE Activate
  <2>1. /\ UNCHANGED <<dest, lock, task, result, st>> /\ st.checked = FALSE /\ phase' = "active"
        /\ \A j \in Jobs : pc'[j] = pc[j] \/ pc'[j] \in {"begin", "idle"}
    BY <1>2 DEF Activate, Serial, Inactive, NewState, Shape, TypeOK
  <2> QED
    BY <2>1 DEF Serial, Locked, Synchronizing, Recording, ReadBack, Truth, Inactive
<1>3. CASE Retire
    BY <1>3 DEF Retire, work, Serial, Locked, Synchronizing, Recording, ReadBack, Truth, Inactive, NewState
<1>4. CASE Tick
  <2>1. /\ "poll" \in Jobs /\ pc["poll"] = "idle" /\ pc'["poll"] = "begin"
        /\ UNCHANGED <<phase, dest, lock, task, result, st>>
        /\ \A k \in Jobs \ {"poll"} : pc'[k] = pc[k]
    BY <1>4 DEF Tick, CallbackBegins, Goto, Ended, Shape, TypeOK, Jobs
  <2> QED
    BY <2>1, SerialStays DEF Recording, Synchronizing
<1>5. ASSUME NEW o \in Operators, Ask(o) PROVE Serial'
  <2>1. /\ o \in Jobs /\ pc[o] = "idle" /\ pc'[o] = "begin"
        /\ UNCHANGED <<phase, dest, lock, result, st>>
        /\ \A k \in Jobs \ {o} : pc'[k] = pc[k] /\ task'[k] = task[k]
    BY <1>5 DEF Ask, Goto, Shape, TypeOK, Jobs
  <2> QED
    BY <2>1, SerialStays DEF Recording, Synchronizing
<1>6. ASSUME NEW j \in Jobs, Work(j) PROVE Serial'
    BY <1>6, SerialWork
<1> QED
    BY <1>1, <1>2, <1>3, <1>4, <1>5, <1>6 DEF Next, Aside

LEMMA SerialHolds == Init => Serial
BY DEF Init, Serial, Locked, Synchronizing, Recording, ReadBack, Truth, Inactive, NewState

\* An entry shown as healthy has at its destination what its status tells of.
THEOREM Installed == Spec => []HealthyIsInstalled
<1>1. Serial => HealthyIsInstalled
  <2> SUFFICES ASSUME Serial, enabled, Overview = "Healthy", \A j \in Jobs : pc[j] # "record"
               PROVE  dest = st.src /\ dest = st.dst
    BY DEF HealthyIsInstalled
  <2>1. Shown \notin {"Error", "Unknown"}
    BY DEF Overview
  <2>2. st.checked /\ st.src = st.dst /\ ~st.dstErr
    BY <2>1 DEF Shown
  <2> QED
    BY <2>2 DEF Serial, Truth, Recording
<1> QED
    BY <1>1, AlwaysEnded, SerialHolds, SerialStep, PTL DEF Spec
----------------------------------------------------------------------------
(* Errors have a cause *)

\* What a job carries without the server or the file system having failed.
Sound(j) ==
    /\ pc[j] = "query" => got[j] \in Bundles \/ (got[j] = Down /\ phase = "left")
    /\ pc[j] \in {"install", "recordV"} => got[j] \in Bundles
    /\ pc[j] = "record" => ~result[j].failed /\ result[j].seen # Bad

NoError == st.query # "Error" /\ ~st.srcErr /\ ~st.dstErr /\ ~st.syncErr

Blameless == ~trouble => server \in Bundles /\ NoError /\ \A j \in Jobs : Sound(j)

LEMMA EndSound ==
    ASSUME Shape, NEW j \in Jobs, Ends(j), phase' = phase, \A k \in Jobs : Sound(k)
    PROVE  \A k \in Jobs : Sound(k)'
BY DEF Shape, TypeOK, Ends, Goto, Sound

\* A job goes on: nothing changes for the others.
LEMMA GoesOnSound ==
    ASSUME Shape, NEW j \in Jobs, NEW l, pc' = [pc EXCEPT ![j] = l], phase' = phase,
           \A k \in Jobs \ {j} : got'[k] = got[k] /\ result'[k] = result[k],
           \A k \in Jobs : Sound(k), Sound(j)'
    PROVE  \A k \in Jobs : Sound(k)'
BY DEF Shape, TypeOK, Sound

LEMMA BlamelessWork ==
    ASSUME Shape, Ended, Blameless, NEW j \in Jobs, Work(j)
    PROVE  Blameless'
<1> SUFFICES ASSUME ~trouble' PROVE Blameless'
    BY DEF Blameless
<1> USE EntryAssumption
<1>0. UNCHANGED <<flags, phase>>
    BY WorkFrame
<1>1. UNCHANGED <<server, trouble>>
  <2>1. UNCHANGED world \/ Fault \/ (Install(j) /\ Active)
    BY DEF Work, Begin, LockDestination, Announce, Fetch, RecordQuery, Install, Record, RecordValidation
  <2> QED
    BY <2>1, Published DEF world, Fault, Shape, TypeOK
<1>2. ~trouble /\ server \in Bundles /\ NoError /\ \A k \in Jobs : Sound(k)
    BY <1>1 DEF Blameless
<1>3. SUFFICES NoError' /\ \A k \in Jobs : Sound(k)'
    BY <1>1, <1>2 DEF Blameless
<1>4. CASE Begin(j)
  <2>1. NoError'
    BY <1>2, <1>4 DEF Begin, NoError
  <2>2. CASE Ends(j)
    BY <1>0, <1>2, <2>1, <2>2, EndSound
  <2>3. CASE Continues(j, IF task[j] = "sync" THEN "lock" ELSE "announce") /\ UNCHANGED <<world, got, result>>
    BY <1>0, <1>2, <2>1, <2>3, ContinueFrame DEF Sound
  <2> QED
    BY <1>4, <2>2, <2>3 DEF Begin, Fault
<1>5. CASE LockDestination(j)
  <2>1. UNCHANGED <<st, got, result>> /\ pc' = [pc EXCEPT ![j] = "announce"]
    BY <1>5 DEF LockDestination, Goto
  <2>2. Sound(j)'
    BY <2>1 DEF Sound, Shape, TypeOK
  <2> QED
    BY <1>0, <1>2, <2>1, <2>2, GoesOnSound DEF NoError
<1>6. CASE Announce(j)
  <2>1. NoError'
    <3>1. st' = st \/ \E q \in {"Unknown", st.query} : st' = [st EXCEPT !.query = q, !.busy = TRUE]
      BY <1>6 DEF Announce
    <3> QED
      BY <1>2, <3>1 DEF NoError, Shape, TypeOK, States
  <2>2. CASE Ends(j)
    BY <1>0, <1>2, <2>1, <2>2, EndSound
  <2>3. CASE Continues(j, "fetch") /\ UNCHANGED <<got, result>>
    BY <1>0, <1>2, <2>1, <2>3, ContinueFrame DEF Sound
  <2> QED
    BY <1>6, <2>2, <2>3 DEF Announce
<1>7. CASE Fetch(j)
  <2>1. PICK a : got' = [got EXCEPT ![j] = a] /\ (a = server \/ (a = Down /\ cancelled))
    BY <1>7 DEF Fetch
  <2>2. UNCHANGED <<st, result>> /\ pc' = [pc EXCEPT ![j] = "query"]
    BY <1>7 DEF Fetch, Continues, Goto
  <2>3. Sound(j)'
    BY <1>0, <1>2, <2>1, <2>2 DEF Sound, Ended, Shape, TypeOK
  <2>4. \A k \in Jobs \ {j} : got'[k] = got[k] /\ result'[k] = result[k]
    BY <2>1, <2>2 DEF Shape, TypeOK
  <2> QED
    BY <1>0, <1>2, <2>2, <2>3, <2>4, GoesOnSound DEF NoError
<1>8. CASE RecordQuery(j)
  <2>1. ~Active \/ got[j] # Down
    BY <1>2, <1>8 DEF RecordQuery, Sound, Active
  <2>2. NoError'
    BY <1>2, <1>8, <2>1 DEF RecordQuery, NoError, Shape, TypeOK, States
  <2>3. CASE got[j] = Down
    BY <1>0, <1>2, <1>8, <2>2, <2>3, EndSound DEF RecordQuery
  <2>4. CASE got[j] # Down
    <3>1. UNCHANGED <<got, result>> /\ Continues(j, IF task[j] = "sync" THEN "install" ELSE "recordV")
      BY <1>8, <2>4 DEF RecordQuery
    <3>2. got[j] \in Bundles
      BY <1>2, <1>8, <2>4 DEF RecordQuery, Sound
    <3>3. Sound(j)'
      BY <3>1, <3>2, ContinueFrame DEF Sound
    <3> QED
      BY <1>0, <1>2, <2>2, <3>1, <3>3, ContinueFrame DEF Sound
  <2> QED
    BY <2>3, <2>4
<1>9. CASE Install(j)
  <2>1. NoError'
    BY <1>2, <1>9 DEF Install, NoError
  <2>2. CASE Active
    <3>1. PICK r \in Results : Tells(r, j)
      BY <1>9, <2>2, Published
    <3>2. got[j] # Bad /\ got' = got /\ pc' = [pc EXCEPT ![j] = "record"]
      BY <1>2, <1>9, <2>2 DEF Install, Continues, Goto, Sound
    <3>3. Sound(j)'
      BY <3>1, <3>2 DEF Sound, Tells, Shape, TypeOK
    <3>4. \A k \in Jobs \ {j} : got'[k] = got[k] /\ result'[k] = result[k]
      BY <3>1, <3>2 DEF Tells, Shape, TypeOK
    <3> QED
      BY <1>0, <1>2, <2>1, <3>2, <3>3, <3>4, GoesOnSound
  <2>3. CASE ~Active
    BY <1>0, <1>2, <1>9, <2>1, <2>3, EndSound DEF Install
  <2> QED
    BY <2>2, <2>3
<1>10. CASE Record(j)
  <2>1. ~result[j].failed /\ result[j].seen # Bad
    BY <1>2, <1>10 DEF Record, Sound
  <2>2. NoError'
    BY <1>2, <1>10, <2>1 DEF Record, Recorded, NoError, Shape, TypeOK, States
  <2> QED
    BY <1>0, <1>2, <1>10, <2>2, EndSound DEF Record
<1>11. CASE RecordValidation(j)
  <2>1. NoError'
    BY <1>2, <1>11 DEF RecordValidation, Sound, NoError, Shape, TypeOK, States
  <2> QED
    BY <1>0, <1>2, <1>11, <2>1, EndSound DEF RecordValidation
<1> QED
    BY <1>4, <1>5, <1>6, <1>7, <1>8, <1>9, <1>10, <1>11 DEF Work

LEMMA BlamelessStep == Shape /\ Ended /\ Blameless /\ [Next]_vars => Blameless'
<1> SUFFICES ASSUME Shape, Ended, Blameless, [Next]_vars PROVE Blameless'
    OBVIOUS
<1> USE EntryAssumption
<1>1. CASE Aside \/ UNCHANGED vars
  <2>1. UNCHANGED <<phase, pc, got, result, st>>
    BY <1>1, AsideFrame DEF vars, work
  <2>2. ~trouble' => ~trouble /\ server' \in Bundles \cup {server}
    BY <1>1 DEF Aside, Prepare, TimerFires, PollerQuits, ServerChanges, Stop, StopReturns, world, vars
  <2> QED
    BY <2>1, <2>2 DEF Blameless, NoError, Sound
<1>2. CASE Activate
  <2>1. UNCHANGED <<st, got, result, server, trouble>>
    BY <1>2 DEF Activate, world
  <2>2. \A j \in Jobs : phase # "left" /\ (pc'[j] = pc[j] \/ pc'[j] \in {"begin", "idle"})
    BY <1>2 DEF Activate, Shape, TypeOK
  <2> QED
    BY <2>1, <2>2 DEF Blameless, NoError, Sound
<1>3. CASE Retire
    BY <1>3 DEF Retire, world, work, Blameless, NoError, NewState, Sound
<1>4. CASE Tick
  <2>1. UNCHANGED <<phase, st, got, result, server, trouble>> /\ pc' = [pc EXCEPT !["poll"] = "begin"]
    BY <1>4 DEF Tick, Goto, world
  <2> QED
    BY <2>1 DEF Blameless, NoError, Sound, Shape, TypeOK, Jobs
<1>5. ASSUME NEW o \in Operators, Ask(o) PROVE Blameless'
  <2>1. UNCHANGED <<phase, st, got, result, server, trouble>> /\ pc' = [pc EXCEPT ![o] = "begin"]
    BY <1>5 DEF Ask, Goto, world
  <2> QED
    BY <2>1 DEF Blameless, NoError, Sound, Shape, TypeOK, Jobs
<1>6. ASSUME NEW j \in Jobs, Work(j) PROVE Blameless'
    BY <1>6, BlamelessWork
<1> QED
    BY <1>1, <1>2, <1>3, <1>4, <1>5, <1>6 DEF Next, Aside

\* An error shown has been one of the server or of the file system.
THEOREM Causes == Spec => []ErrorHasCause
<1>1. Init => Blameless
  <2> SUFFICES ASSUME Init PROVE Blameless
    OBVIOUS
  <2>1. NoError /\ (\A j \in Jobs : Sound(j))
    BY DEF Init, NoError, NewState, Sound
  <2>2. ~trouble => server \in Bundles
    BY DEF Init
  <2> QED
    BY <2>1, <2>2 DEF Blameless
<1>2. Blameless => ErrorHasCause
    BY DEF Blameless, NoError, ErrorHasCause, Shown
<1> QED
    BY <1>1, <1>2, AlwaysEnded, BlamelessStep, PTL DEF Spec
===========================================================================
