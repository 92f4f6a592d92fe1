---------------------- MODULE ProcessorLifecycle_proofs ----------------------
(***************************************************************************)
(* The processor's life cycle for every finite set of collectors and data  *)
(* sources: the wait group counts the goroutines, no source gets two or    *)
(* misses its own, and Stop waits for all it can know of, the event loop   *)
(* included.                                                               *)
(***************************************************************************)
EXTENDS ProcessorLifecycle, FiniteSetTheorems, TLAPS

AliveSet == {s \in Sources : Alive(s)}

\* wg.Add and wg.Done match the goroutines.
WaitGroupCounts == wg = Cardinality(AliveSet)

(***************************************************************************)
(* Who may still be spawned.  A source is spawned by Start if it is in its *)
(* snapshot, by its own registration otherwise, and never by both: the     *)
(* three ways (spawned, todo, registering) exclude one another, and while  *)
(* the processor runs every registered source is in one of them.           *)
(***************************************************************************)
StartedMeans ==
    /\ started <=> start.pc \in {"loop", "spawn", "returned"}
    /\ stopped <=> stop # "idle"
    /\ start.pc = "returned" => start.todo = {}
    /\ start.todo \subseteq start.snapshot /\ start.snapshot \subseteq registered
    /\ registering \subseteq registered /\ registering \cap start.snapshot = {}
    /\ ~started => registering = {} /\ start.todo = {}

SpawnedOnce(s) ==
    /\ spawned[s] \in {0, 1}
    /\ goroutine[s] = "none" <=> spawned[s] = 0
    /\ spawned[s] = 1 => s \in registered \ (start.todo \cup registering)
    /\ ~started => spawned[s] = 0
    /\ started /\ ~stopped /\ s \in registered \ (start.todo \cup registering) => spawned[s] = 1

(***************************************************************************)
(* After Stop took its decision with Start out of the way, Start spawns no *)
(* more, and what the wait group let through stays quiet.                  *)
(***************************************************************************)
StopQuiet ==
    /\ stopped /\ ~overlap => start.pc \in {"idle", "failed", "returned"}
    /\ stop \in {"notifyDone", "returned"} /\ ~overlap =>
          \A s \in Collectors \cup start.snapshot : ~Alive(s)

LifecycleInv ==
    /\ TypeOK
    /\ WaitGroupCounts
    /\ StartedMeans
    /\ \A s \in Sources : SpawnedOnce(s)
    /\ StopQuiet

(***************************************************************************)
(* Stop returns behind the event loop's back only when Start never ran it. *)
(***************************************************************************)
LoopQuiet ==
    /\ eventLoop = "none" <=> start.pc \in {"idle", "loop", "failed"}
    /\ stop = "returned" => eventLoop = IF started THEN "done" ELSE "none"

USE DEF eventVars, lifecycleVars

-----------------------------------------------------------------------------
\* The goroutines are a finite set.
LEMMA AliveFinite == IsFiniteSet(AliveSet)
BY SourcesAssumption, FS_Subset DEF AliveSet, Sources

\* Spawn adds one goroutine and counts it (wg.Add before go).
LEMMA SpawnCounts ==
    ASSUME TypeOK, WaitGroupCounts, NEW s \in Sources, goroutine[s] = "none", Spawn(s)
    PROVE  /\ WaitGroupCounts' /\ wg' \in Nat
           /\ goroutine' \in [Sources -> {"none", "jitter", "polling", "waiting", "starting",
                                          "running", "exited"}]
           /\ goroutine' = [goroutine EXCEPT ![s] = goroutine'[s]] /\ goroutine'[s] # "none"
           /\ spawned' \in [Sources -> Nat]
           /\ spawned' = [spawned EXCEPT ![s] = spawned[s] + 1]
<1>1. AliveSet' = AliveSet \cup {s} /\ s \notin AliveSet
    BY DEF Spawn, AliveSet, Alive, TypeOK
<1>2. Cardinality(AliveSet') = Cardinality(AliveSet) + 1
    BY <1>1, AliveFinite, FS_AddElement
<1>3. WaitGroupCounts' /\ wg' \in Nat
    BY <1>2 DEF Spawn, WaitGroupCounts, TypeOK
<1> QED
    BY <1>3 DEF Spawn, TypeOK

\* Exit takes one away and uncounts it (the deferred wg.Done).
LEMMA ExitCounts ==
    ASSUME TypeOK, WaitGroupCounts, NEW s \in Sources, Alive(s), Exit(s)
    PROVE  WaitGroupCounts' /\ wg' \in Nat
<1>1. AliveSet' = AliveSet \ {s} /\ s \in AliveSet
    BY DEF Exit, AliveSet, Alive, TypeOK
<1>2. IsFiniteSet(AliveSet') /\ Cardinality(AliveSet') = Cardinality(AliveSet) - 1
    BY <1>1, AliveFinite, FS_RemoveElement
<1>3. Cardinality(AliveSet') \in Nat
    BY <1>2, FS_CardinalityType
<1> QED
    BY <1>2, <1>3 DEF Exit, WaitGroupCounts

\* A wait group at zero means that no goroutine is left.
LEMMA ZeroMeansNone ==
    ASSUME WaitGroupCounts, wg = 0
    PROVE  \A s \in Sources : ~Alive(s)
<1>1. AliveSet = {}
    BY AliveFinite, FS_EmptySet DEF WaitGroupCounts
<1> QED
    BY <1>1 DEF AliveSet

\* A step that leaves the goroutines and the wait group alone keeps the count.
LEMMA CountUnchanged ==
    ASSUME WaitGroupCounts, UNCHANGED <<wg, goroutine>>
    PROVE  WaitGroupCounts'
BY DEF WaitGroupCounts, AliveSet, Alive

\* The loop between two events holds an event of the right type.
LEMMA NoExtractionType == NoExtraction \in [event : Events, todo : SUBSET Extractors]
<1>1. (CHOOSE e \in Events : TRUE) \in Events
    BY SourcesAssumption
<1> QED
    BY <1>1 DEF NoExtraction

\* The events' side of the type invariant.
EventTypeOK ==
    /\ extractors \subseteq Extractors
    /\ ch \in Seq(Events) /\ Len(ch) <= BufferSize
    /\ extraction \in [event : Events, todo : SUBSET Extractors]
    /\ notified \subseteq Events
    /\ seen \in [Events -> SUBSET Extractors]

LEMMA EventTypesUnchanged ==
    ASSUME TypeOK, UNCHANGED eventVars
    PROVE  EventTypeOK'
BY DEF TypeOK, EventTypeOK

\* Nothing is registered, started or counted (NewProcessor).
LEMMA LifecycleInit == Init => LifecycleInv
<1> SUFFICES ASSUME Init PROVE LifecycleInv
    OBVIOUS
<1>1. TypeOK
  <2>1. EventTypeOK
      BY SourcesAssumption, NoExtractionType DEF Init, EventTypeOK
  <2> QED
      BY <2>1 DEF Init, TypeOK, EventTypeOK
<1>2. AliveSet = {}
    BY DEF Init, AliveSet, Alive
<1>3. WaitGroupCounts
    BY <1>2, FS_EmptySet DEF Init, WaitGroupCounts
<1>4. StartedMeans /\ (\A s \in Sources : SpawnedOnce(s)) /\ StopQuiet
    BY DEF Init, StartedMeans, SpawnedOnce, StopQuiet
<1> QED
    BY <1>1, <1>3, <1>4 DEF LifecycleInv

\* RegisterCollector: spawned under the lock, or left to Start's snapshot.
LEMMA RegisterCollectorSafe ==
    ASSUME LifecycleInv, NEW c \in Collectors, RegisterCollector(c)
    PROVE  LifecycleInv'
<1> USE DEF LifecycleInv
<1>0. c \in Sources /\ c \notin DataSources
    BY SourcesAssumption DEF Sources
<1>1. goroutine[c] = "none" /\ spawned[c] = 0
    BY <1>0 DEF RegisterCollector, SpawnedOnce, TypeOK
<1>2. CASE started /\ ~stopped
  <2>1. Spawn(c)
      BY <1>2 DEF RegisterCollector
  <2>2. /\ WaitGroupCounts' /\ wg' \in Nat
        /\ goroutine' \in [Sources -> {"none", "jitter", "polling", "waiting", "starting",
                                       "running", "exited"}]
        /\ goroutine' = [goroutine EXCEPT ![c] = goroutine'[c]] /\ goroutine'[c] # "none"
        /\ spawned' \in [Sources -> Nat]
        /\ spawned' = [spawned EXCEPT ![c] = spawned[c] + 1]
      BY <2>1, <1>0, <1>1, SpawnCounts
  <2>3. TypeOK'
      BY <2>2, <1>0 DEF RegisterCollector, TypeOK
  <2>4. StartedMeans'
      BY DEF RegisterCollector, StartedMeans
  <2>5. \A s \in Sources : SpawnedOnce(s)'
    <3> SUFFICES ASSUME NEW s \in Sources PROVE SpawnedOnce(s)'
        OBVIOUS
    <3>1. CASE s = c
        BY <3>1, <1>2, <1>1, <2>2, <1>0 DEF RegisterCollector, SpawnedOnce, StartedMeans, TypeOK
    <3>2. CASE s # c
        BY <3>2, <2>2 DEF RegisterCollector, SpawnedOnce, TypeOK
    <3> QED
        BY <3>1, <3>2
  <2>6. StopQuiet'
      BY <1>2 DEF RegisterCollector, StopQuiet, StartedMeans
  <2> QED
      BY <2>2, <2>3, <2>4, <2>5, <2>6
<1>3. CASE ~(started /\ ~stopped)
  <2>1. UNCHANGED <<wg, goroutine, spawned>>
      BY <1>3 DEF RegisterCollector
  <2>2. TypeOK' /\ WaitGroupCounts'
      BY <2>1, <1>0, CountUnchanged DEF RegisterCollector, TypeOK
  <2>3. StartedMeans'
      BY DEF RegisterCollector, StartedMeans
  <2>4. \A s \in Sources : SpawnedOnce(s)'
      BY <1>3, <2>1 DEF RegisterCollector, SpawnedOnce
  <2>5. StopQuiet'
      BY <2>1 DEF RegisterCollector, StopQuiet, Alive
  <2> QED
      BY <2>2, <2>3, <2>4, <2>5
<1> QED
    BY <1>2, <1>3

\* RegisterDatasource: decided under the lock, spawned by SpawnDatasource.
LEMMA RegisterDatasourceSafe ==
    ASSUME LifecycleInv, NEW d \in DataSources, RegisterDatasource(d)
    PROVE  LifecycleInv'
<1> USE DEF LifecycleInv
<1>1. TypeOK' /\ WaitGroupCounts'
    BY CountUnchanged DEF RegisterDatasource, TypeOK, Sources
<1>2. StartedMeans'
    BY DEF RegisterDatasource, StartedMeans
<1>3. \A s \in Sources : SpawnedOnce(s)'
    BY DEF RegisterDatasource, SpawnedOnce
<1>4. StopQuiet'
    BY DEF RegisterDatasource, StopQuiet, Alive
<1> QED
    BY <1>1, <1>2, <1>3, <1>4

LEMMA SpawnDatasourceSafe ==
    ASSUME LifecycleInv, NEW d \in DataSources, SpawnDatasource(d)
    PROVE  LifecycleInv'
<1> USE DEF LifecycleInv
<1>0. d \in Sources /\ d \notin Collectors /\ d \notin start.snapshot /\ d \notin start.todo
    BY SourcesAssumption DEF Sources, SpawnDatasource, StartedMeans
<1>1. goroutine[d] = "none" /\ spawned[d] = 0
    BY <1>0 DEF SpawnDatasource, SpawnedOnce, TypeOK
<1>2. /\ WaitGroupCounts' /\ wg' \in Nat
      /\ goroutine' \in [Sources -> {"none", "jitter", "polling", "waiting", "starting",
                                     "running", "exited"}]
      /\ goroutine' = [goroutine EXCEPT ![d] = goroutine'[d]] /\ goroutine'[d] # "none"
      /\ spawned' \in [Sources -> Nat]
      /\ spawned' = [spawned EXCEPT ![d] = spawned[d] + 1]
    BY <1>0, <1>1, SpawnCounts DEF SpawnDatasource
<1>3. TypeOK'
    BY <1>2 DEF SpawnDatasource, TypeOK
<1>4. StartedMeans'
    BY DEF SpawnDatasource, StartedMeans
<1>5. \A s \in Sources : SpawnedOnce(s)'
  <2> SUFFICES ASSUME NEW s \in Sources PROVE SpawnedOnce(s)'
      OBVIOUS
  <2>1. CASE s = d
      BY <2>1, <1>0, <1>1, <1>2 DEF SpawnDatasource, SpawnedOnce, StartedMeans, TypeOK
  <2>2. CASE s # d
      BY <2>2, <1>2 DEF SpawnDatasource, SpawnedOnce, TypeOK
  <2> QED
      BY <2>1, <2>2
<1>6. StopQuiet'
  <2>1. \A s \in Sources : s # d => (Alive(s)' <=> Alive(s))
      BY <1>2 DEF Alive, TypeOK
  <2> QED
      BY <2>1, <1>0 DEF SpawnDatasource, StopQuiet, TypeOK, Sources
<1> QED
    BY <1>2, <1>3, <1>4, <1>5, <1>6

-----------------------------------------------------------------------------
\* Start's steps that spawn nothing.
LEMMA StartSafe ==
    ASSUME LifecycleInv, StartLocked \/ StartEventLoop \/ StartReturn
    PROVE  LifecycleInv'
<1> USE DEF LifecycleInv
<1>0. UNCHANGED <<wg, goroutine, spawned, registered, registering, stop, stopped, overlap>>
    BY DEF StartLocked, StartEventLoop, StartReturn
<1>1. TypeOK' /\ WaitGroupCounts'
  <2>1. WaitGroupCounts'
      BY <1>0, CountUnchanged
  <2>2. /\ start' \in [pc : {"idle", "loop", "spawn", "returned", "failed"},
                      snapshot : SUBSET Sources, todo : SUBSET Sources]
        /\ started' \in BOOLEAN /\ ctxDone' = ctxDone
        /\ eventLoop' \in {"none", "running", "extracting", "done"}
    <3>1. CASE StartLocked /\ stopped
        BY <3>1 DEF StartLocked, TypeOK
    <3>1a. CASE StartLocked /\ ~stopped
        BY <3>1a DEF StartLocked, TypeOK
    <3>2. CASE StartEventLoop
        BY <3>2 DEF StartEventLoop, TypeOK
    <3>3. CASE StartReturn
        BY <3>3 DEF StartReturn, TypeOK
    <3> QED
        BY <3>1, <3>1a, <3>2, <3>3
  <2>3. EventTypeOK'
      BY EventTypesUnchanged DEF StartLocked, StartEventLoop, StartReturn
  <2>4. /\ registered' \subseteq Sources /\ registering' \subseteq DataSources
        /\ stopped' \in BOOLEAN /\ overlap' \in BOOLEAN
        /\ stop' \in {"idle", "cancel", "wait", "notifyDone", "returned"}
      BY <1>0 DEF TypeOK
  <2>5. /\ wg' \in Nat /\ spawned' \in [Sources -> Nat]
        /\ goroutine' \in [Sources -> {"none", "jitter", "polling", "waiting", "starting",
                                       "running", "exited"}]
      BY <1>0 DEF TypeOK
  <2>6. ctxDone' \in BOOLEAN
      BY <2>2 DEF TypeOK
  <2> QED
      BY <2>1, <2>2, <2>3, <2>4, <2>5, <2>6 DEF TypeOK, EventTypeOK
<1>2. StartedMeans'
  <2>1. CASE StartLocked
      BY <2>1 DEF StartLocked, StartedMeans, TypeOK
  <2>2. CASE StartEventLoop \/ StartReturn
    <3>1. \/ start.pc = "loop" /\ start'.pc = "spawn"
          \/ start.pc = "spawn" /\ start'.pc = "returned" /\ start.todo = {}
        BY <2>2 DEF StartEventLoop, StartReturn, TypeOK
    <3>2. start'.todo = start.todo /\ start'.snapshot = start.snapshot /\ started' = started
        BY <2>2 DEF StartEventLoop, StartReturn, TypeOK
    <3> QED
        BY <3>1, <3>2, <1>0 DEF StartedMeans
  <2> QED
      BY <2>1, <2>2
<1>3. \A s \in Sources : SpawnedOnce(s)'
  <2>1. CASE StartLocked
      BY <2>1 DEF StartLocked, SpawnedOnce, StartedMeans, TypeOK
  <2>2. CASE StartEventLoop \/ StartReturn
      BY <2>2, <1>0 DEF StartEventLoop, StartReturn, SpawnedOnce, StartedMeans, TypeOK
  <2> QED
      BY <2>1, <2>2
<1>4. StopQuiet'
  <2>1. CASE StartLocked
    <3>1. ~started
        BY <2>1 DEF StartLocked, StartedMeans
    <3>2. \A s \in Sources : ~Alive(s)'
        BY <3>1, <1>0 DEF SpawnedOnce, Alive
    <3>3. Collectors \cup start'.snapshot \subseteq Sources
        BY <1>1 DEF TypeOK, Sources
    <3>4. (stopped /\ ~overlap => start.pc \in {"idle", "failed", "returned"})'
        BY <2>1, <1>0 DEF StartLocked, TypeOK
    <3> QED
        BY <3>2, <3>3, <3>4 DEF StopQuiet
  <2>2. CASE StartEventLoop \/ StartReturn
      BY <2>2, <1>0 DEF StartEventLoop, StartReturn, StopQuiet, Alive, TypeOK
  <2> QED
      BY <2>1, <2>2
<1> QED
    BY <1>1, <1>2, <1>3, <1>4

\* Start spawns what its snapshot holds.
LEMMA StartSpawnSafe ==
    ASSUME LifecycleInv, NEW d \in Sources, StartSpawn(d)
    PROVE  LifecycleInv'
<1> USE DEF LifecycleInv
<1>0. d \in start.todo /\ d \in registered /\ d \notin registering /\ started
    BY DEF StartSpawn, StartedMeans
<1>1. goroutine[d] = "none" /\ spawned[d] = 0
    BY <1>0 DEF SpawnedOnce, TypeOK
<1>2. /\ WaitGroupCounts' /\ wg' \in Nat
      /\ goroutine' \in [Sources -> {"none", "jitter", "polling", "waiting", "starting",
                                     "running", "exited"}]
      /\ goroutine' = [goroutine EXCEPT ![d] = goroutine'[d]] /\ goroutine'[d] # "none"
      /\ spawned' \in [Sources -> Nat]
      /\ spawned' = [spawned EXCEPT ![d] = spawned[d] + 1]
    BY <1>1, SpawnCounts DEF StartSpawn
<1>2a. /\ start'.pc = start.pc /\ start'.snapshot = start.snapshot
       /\ start'.todo = start.todo \ {d}
       /\ start' \in [pc : {"idle", "loop", "spawn", "returned", "failed"},
                      snapshot : SUBSET Sources, todo : SUBSET Sources]
    BY DEF StartSpawn, TypeOK
<1>3. TypeOK'
    BY <1>2, <1>2a DEF StartSpawn, TypeOK
<1>4. StartedMeans'
    BY <1>2a DEF StartSpawn, StartedMeans
<1>5. \A s \in Sources : SpawnedOnce(s)'
  <2> SUFFICES ASSUME NEW s \in Sources PROVE SpawnedOnce(s)'
      OBVIOUS
  <2>1. CASE s = d
      BY <2>1, <1>0, <1>1, <1>2, <1>2a DEF StartSpawn, SpawnedOnce, TypeOK
  <2>2. CASE s # d
      BY <2>2, <1>2, <1>2a DEF StartSpawn, SpawnedOnce, TypeOK
  <2> QED
      BY <2>1, <2>2
<1>6. StopQuiet'
  <2>1. stopped => overlap
      BY DEF StartSpawn, StopQuiet
  <2>2. stop \in {"notifyDone", "returned"} => stopped
      BY DEF StartedMeans
  <2> QED
      BY <2>1, <2>2 DEF StartSpawn, StopQuiet
<1> QED
    BY <1>2, <1>3, <1>4, <1>5, <1>6

\* Stop, and a cancelled parent context.
LEMMA StopSafe ==
    ASSUME LifecycleInv, StopLocked \/ StopStep \/ ParentCancelled \/ LoopExit
    PROVE  LifecycleInv'
<1> USE DEF LifecycleInv, StopStep
<1>0. UNCHANGED <<wg, goroutine, spawned, registered, registering, start, started>>
    BY DEF StopLocked, StopCancel, StopWait, StopReturn, ParentCancelled, LoopExit
<1>1. TypeOK' /\ WaitGroupCounts'
  <2>1. WaitGroupCounts'
      BY <1>0, CountUnchanged
  <2>2. /\ stopped' \in BOOLEAN /\ ctxDone' \in BOOLEAN /\ overlap' \in BOOLEAN
        /\ stop' \in {"idle", "cancel", "wait", "notifyDone", "returned"}
        /\ eventLoop' \in {"none", "running", "extracting", "done"}
    <3>1. CASE StopLocked
        BY <3>1 DEF StopLocked, TypeOK
    <3>2. CASE StopCancel \/ StopWait \/ StopReturn
        BY <3>2 DEF StopCancel, StopWait, StopReturn, TypeOK
    <3>3. CASE ParentCancelled \/ LoopExit
        BY <3>3 DEF ParentCancelled, LoopExit, TypeOK
    <3> QED
        BY <3>1, <3>2, <3>3
  <2>3. EventTypeOK'
      BY EventTypesUnchanged DEF StopLocked, StopCancel, StopWait, StopReturn, ParentCancelled,
                                 LoopExit
  <2> QED
      BY <2>1, <2>2, <2>3, <1>0 DEF TypeOK, EventTypeOK
<1>2. StartedMeans'
    BY <1>0 DEF StopLocked, StopCancel, StopWait, StopReturn, ParentCancelled, LoopExit, StartedMeans
<1>3. \A s \in Sources : SpawnedOnce(s)'
    BY <1>0 DEF StopLocked, StopCancel, StopWait, StopReturn, ParentCancelled, LoopExit, SpawnedOnce
<1>4. StopQuiet'
  <2>0. \A s : Alive(s)' <=> Alive(s)
      BY <1>0 DEF Alive
  <2>1. CASE StopLocked
    <3>1. (stopped /\ ~overlap => start.pc \in {"idle", "failed", "returned"})'
        BY <2>1, <1>0 DEF StopLocked, TypeOK
    <3>2. CASE started
        BY <2>1, <3>1, <3>2 DEF StopLocked, StopQuiet
    <3>3. CASE ~started
      <4>1. \A s \in Sources : ~Alive(s)
          BY <3>3 DEF SpawnedOnce, Alive
      <4> QED
          BY <4>1, <2>0, <3>1, <1>0 DEF StopQuiet, TypeOK, Sources
    <3> QED
        BY <3>2, <3>3
  <2>2. CASE StopWait
    <3>1. \A s \in Sources : ~Alive(s)
        BY <2>2, ZeroMeansNone DEF StopWait
    <3> QED
        BY <2>2, <3>1, <2>0, <1>0 DEF StopWait, StopQuiet, TypeOK, Sources
  <2>3. CASE StopCancel \/ StopReturn \/ ParentCancelled \/ LoopExit
      BY <2>3, <2>0, <1>0 DEF StopCancel, StopReturn, ParentCancelled, LoopExit, StopQuiet
  <2> QED
      BY <2>1, <2>2, <2>3
<1> QED
    BY <1>1, <1>2, <1>3, <1>4

-----------------------------------------------------------------------------
\* A goroutine that goes on or exits.
LEMMA GoroutineSafe ==
    ASSUME LifecycleInv, NEW s \in Sources, NEW pc, Alive(s), GoroutineUnchanged,
           pc \in {"polling", "waiting", "running", "exited"},
           goroutine' = [goroutine EXCEPT ![s] = pc],
           WaitGroupCounts', wg' \in Nat
    PROVE  LifecycleInv'
<1> USE DEF LifecycleInv, GoroutineUnchanged
<1>1. TypeOK'
    BY DEF TypeOK
<1>2. StartedMeans'
    BY DEF StartedMeans
<1>3. \A t \in Sources : SpawnedOnce(t)'
    BY DEF SpawnedOnce, Alive, TypeOK
<1>4. StopQuiet'
  <2>1. \A t \in Sources : Alive(t)' => Alive(t)
      BY DEF Alive, TypeOK
  <2> QED
      BY <2>1 DEF StopQuiet, TypeOK, Sources
<1> QED
    BY <1>1, <1>2, <1>3, <1>4

\* A goroutine that goes on is still counted.
LEMMA MoveCounts ==
    ASSUME LifecycleInv, NEW s \in Sources, NEW pc, Alive(s),
           pc \in {"polling", "waiting", "running"},
           goroutine' = [goroutine EXCEPT ![s] = pc], UNCHANGED wg
    PROVE  WaitGroupCounts' /\ wg' \in Nat
<1>1. AliveSet' = AliveSet
    BY DEF LifecycleInv, AliveSet, Alive, TypeOK
<1> QED
    BY <1>1 DEF LifecycleInv, WaitGroupCounts, TypeOK

LEMMA CollectorSafe ==
    ASSUME LifecycleInv, NEW c \in Collectors, CollectorStep(c)
    PROVE  LifecycleInv'
<1>0. c \in Sources
    BY DEF Sources
<1>1. CASE TimerFires(c)
    BY <1>0, <1>1, MoveCounts, GoroutineSafe DEF TimerFires, Alive
<1>2. CASE PollReturns(c)
    BY <1>0, <1>2, MoveCounts, GoroutineSafe DEF PollReturns, Alive
<1>3. CASE CollectorExit(c)
  <2>1. Alive(c) /\ Exit(c)
      BY <1>3 DEF CollectorExit, Alive
  <2>2. WaitGroupCounts' /\ wg' \in Nat
      BY <1>0, <2>1, ExitCounts DEF LifecycleInv
  <2> QED
      BY <1>0, <1>3, <2>1, <2>2, GoroutineSafe DEF CollectorExit, Exit
<1> QED
    BY <1>1, <1>2, <1>3 DEF CollectorStep

LEMMA DatasourceSafe ==
    ASSUME LifecycleInv, NEW d \in DataSources, DatasourceStep(d)
    PROVE  LifecycleInv'
<1>0. d \in Sources
    BY DEF Sources
<1>1. CASE DatasourceStarted(d)
    BY <1>0, <1>1, MoveCounts, GoroutineSafe DEF DatasourceStarted, Alive
<1>2. CASE DatasourceExit(d)
  <2>1. Alive(d) /\ Exit(d)
      BY <1>2 DEF DatasourceExit, Alive
  <2>2. WaitGroupCounts' /\ wg' \in Nat
      BY <1>0, <2>1, ExitCounts DEF LifecycleInv
  <2> QED
      BY <1>0, <1>2, <2>1, <2>2, GoroutineSafe DEF DatasourceExit, Exit
<1> QED
    BY <1>1, <1>2 DEF DatasourceStep

\* A step of the events' side touches nothing of the life cycle.
LEMMA EventSafe ==
    ASSUME LifecycleInv, UNCHANGED lifecycleVars, TypeOK'
    PROVE  LifecycleInv'
BY CountUnchanged DEF LifecycleInv, StartedMeans, StopQuiet, Alive, SpawnedOnce

\* Registering an extractor, notifying an event and the rounds of the event
\* loop keep the types of the channel.
LEMMA EventTypes ==
    ASSUME TypeOK,
           \/ \E x \in Extractors : RegisterExtractor(x)
           \/ \E e \in Events : Notify(e)
           \/ LoopStep
    PROVE  TypeOK' /\ UNCHANGED lifecycleVars
<1>1. ASSUME NEW x \in Extractors, RegisterExtractor(x)
      PROVE  TypeOK' /\ UNCHANGED lifecycleVars
    BY <1>1 DEF RegisterExtractor, TypeOK
<1>2. ASSUME NEW e \in Events, Notify(e)
      PROVE  TypeOK' /\ UNCHANGED lifecycleVars
    BY <1>2, SourcesAssumption DEF Notify, TypeOK
<1>3. ASSUME LoopReceive
      PROVE  TypeOK' /\ UNCHANGED lifecycleVars
  <2>1. UNCHANGED <<lifecycleVars, extractors, notified, seen>>
      BY <1>3 DEF LoopReceive
  <2>2. /\ ch' \in Seq(Events) /\ Len(ch') <= BufferSize
        /\ extraction' \in [event : Events, todo : SUBSET Extractors]
        /\ eventLoop' = "extracting"
      BY <1>3, SourcesAssumption DEF LoopReceive, TypeOK
  <2> QED
      BY <2>1, <2>2 DEF TypeOK
<1>4. ASSUME NEW x \in Extractors, LoopExtract(x)
      PROVE  TypeOK' /\ UNCHANGED lifecycleVars
    BY <1>4 DEF LoopExtract, TypeOK
<1>5. ASSUME LoopExtracted
      PROVE  TypeOK' /\ UNCHANGED lifecycleVars
    BY <1>5, NoExtractionType DEF LoopExtracted, TypeOK
<1> QED
    BY <1>1, <1>2, <1>3, <1>4, <1>5 DEF LoopStep

LEMMA LifecycleNext == LifecycleInv /\ [Next]_vars => LifecycleInv'
<1> SUFFICES ASSUME LifecycleInv, [Next]_vars PROVE LifecycleInv'
    OBVIOUS
<1>1. CASE UNCHANGED vars
    BY <1>1 DEF vars, LifecycleInv, TypeOK, WaitGroupCounts, AliveSet, Alive, StartedMeans,
                SpawnedOnce, StopQuiet
<1>2. ASSUME NEW c \in Collectors, RegisterCollector(c) \/ CollectorStep(c)
      PROVE  LifecycleInv'
    BY <1>2, RegisterCollectorSafe, CollectorSafe
<1>3. ASSUME NEW d \in DataSources,
             RegisterDatasource(d) \/ SpawnDatasource(d) \/ DatasourceStep(d)
      PROVE  LifecycleInv'
    BY <1>3, RegisterDatasourceSafe, SpawnDatasourceSafe, DatasourceSafe
<1>4. CASE StartStep
    BY <1>4, StartSafe, StartSpawnSafe DEF StartStep
<1>5. CASE StopLocked \/ StopStep \/ ParentCancelled \/ LoopExit
    BY <1>5, StopSafe
<1>6. CASE \/ \E x \in Extractors : RegisterExtractor(x)
           \/ \E e \in Events : Notify(e)
           \/ LoopStep
    BY <1>6, EventTypes, EventSafe DEF LifecycleInv
<1> QED
    BY <1>1, <1>2, <1>3, <1>4, <1>5, <1>6 DEF Next

\* The event loop is gone when Stop returns, and does not come back.
LEMMA LoopNext == LifecycleInv /\ LoopQuiet /\ [Next]_vars => LoopQuiet'
<1> SUFFICES ASSUME LifecycleInv, LoopQuiet, [Next]_vars PROVE LoopQuiet'
    OBVIOUS
<1>0. TypeOK /\ StartedMeans
    BY DEF LifecycleInv
<1>1. ASSUME UNCHANGED <<start, started, stop, eventLoop>> PROVE LoopQuiet'
    BY <1>1 DEF LoopQuiet
<1>2. CASE StartStep
    BY <1>0, <1>2 DEF StartStep, StartLocked, StartEventLoop, StartSpawn, StartReturn, LoopQuiet,
                      StartedMeans, TypeOK
<1>3. CASE StopLocked \/ StopStep
    BY <1>0, <1>3 DEF StopLocked, StopStep, StopCancel, StopWait, StopReturn, LoopQuiet,
                      StartedMeans, TypeOK
<1>4. CASE LoopStep \/ LoopExit
    BY <1>0, <1>4 DEF LoopStep, LoopReceive, LoopExtract, LoopExtracted, LoopExit, LoopQuiet,
                      StartedMeans, TypeOK
<1>5. ASSUME NEW c \in Collectors, RegisterCollector(c) \/ CollectorStep(c) PROVE LoopQuiet'
    BY <1>1, <1>5 DEF RegisterCollector, CollectorStep, TimerFires, PollReturns, CollectorExit,
                      GoroutineUnchanged
<1>6. ASSUME NEW d \in DataSources,
             RegisterDatasource(d) \/ SpawnDatasource(d) \/ DatasourceStep(d)
      PROVE  LoopQuiet'
    BY <1>1, <1>6 DEF RegisterDatasource, SpawnDatasource, DatasourceStep, DatasourceStarted,
                      DatasourceExit, GoroutineUnchanged
<1>7. CASE \/ ParentCancelled \/ UNCHANGED vars
           \/ \E x \in Extractors : RegisterExtractor(x)
           \/ \E e \in Events : Notify(e)
    BY <1>1, <1>7 DEF ParentCancelled, vars, RegisterExtractor, Notify
<1> QED
    BY <1>2, <1>3, <1>4, <1>5, <1>6, <1>7 DEF Next

\* The inductive invariant holds in every reachable state.
LEMMA LifecycleInvariant == Spec => []LifecycleInv
BY LifecycleInit, LifecycleNext, PTL DEF Spec

\* The wait group's counter, among the rest, keeps its type: it never goes
\* negative, for any number of sources (sync.WaitGroup in processor.go).
THEOREM LifecycleTypeCorrect == Spec => []TypeOK
<1>1. LifecycleInv => TypeOK
    BY DEF LifecycleInv
<1> QED
    BY <1>1, LifecycleInvariant, PTL

\* No interleaving of registrations, Start and Stop gives a source two
\* goroutines or forgets it (RegisterCollector, RegisterDatasource, Start).
THEOREM OneGoroutine == Spec => []OneGoroutinePerSource
<1>1. LifecycleInv => OneGoroutinePerSource
    BY DEF LifecycleInv, OneGoroutinePerSource, SpawnedOnce, StartedMeans, TypeOK
<1> QED
    BY <1>1, LifecycleInvariant, PTL

\* When Stop has returned, no event is being extracted, and no collector and no
\* source of Start's snapshot runs (Stop, RegisterCollector, eventLoop).
THEOREM StopIsQuiet == Spec => []StopWaitsForCollectors
<1>1. Init => LoopQuiet
    BY DEF Init, LoopQuiet
<1>2. LifecycleInv /\ LoopQuiet => StopWaitsForCollectors
    BY DEF LifecycleInv, StopWaitsForCollectors, StopQuiet, LoopQuiet
<1> QED
    BY <1>1, <1>2, LoopNext, LifecycleInvariant, PTL DEF Spec
=============================================================================
