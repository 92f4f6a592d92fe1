------------------------- MODULE ProcessorLifecycle -------------------------
(***************************************************************************)
(* Starting and stopping the data layer's Processor.  Start and Stop are   *)
(* each called at most once, on goroutines that may run at the same time;  *)
(* collectors and data sources are registered at any time, each by a       *)
(* goroutine of its own.  What a call does under p.mu is one step; what it *)
(* does outside is a step each.                                            *)
(*                                                                         *)
(* Streams notify events at any time, before Start and during and after    *)
(* Stop included: on a termination signal the caller's context is          *)
(* cancelled while the gRPC server still lets its streams finish.          *)
(*                                                                         *)
(* Collectors rejected for a non-positive frequency change no state and    *)
(* are left out.                                                           *)
(***************************************************************************)
EXTENDS Integers, Sequences, FiniteSets

CONSTANTS
    Collectors, DataSources, Extractors,
    Events,        \* the events passed to Notify, each once
    BufferSize     \* capacity of the event channel

ASSUME SourcesAssumption ==
    /\ Collectors \cap DataSources = {}
    /\ IsFiniteSet(Collectors \cup DataSources)
    /\ Events # {} /\ BufferSize \in Nat \ {0}

Sources == Collectors \cup DataSources

VARIABLES
    started, stopped,  \* p.started, p.stopped
    ctxDone,           \* the processor's context is cancelled
    registered,        \* p.collectors and p.datasources
    registering,       \* data sources between the unlock and wg.Add in RegisterDatasource
    wg,                \* the wait group's counter
    goroutine,         \* per source: what its goroutine is doing
    spawned,           \* per source: how many goroutines were started for it
    start,             \* the call of Start: [pc, snapshot, todo]
    stop,              \* the call of Stop: where it is
    eventLoop,         \* the event loop's goroutine
    overlap,           \* history: Start had not returned when Stop was called
    extractors,        \* p.extractors
    ch,                \* the event channel
    extraction,        \* what the event loop is at: [event, todo], the extractors to come
    notified,          \* events passed to Notify so far
    seen               \* per event: the extractors that were given it

eventVars == <<extractors, ch, extraction, notified, seen>>
lifecycleVars == <<started, stopped, ctxDone, registered, registering, wg, goroutine, spawned,
                   start, stop, overlap>>
vars == <<lifecycleVars, eventLoop, eventVars>>

\* The event loop between two events.
NoExtraction == [event |-> CHOOSE e \in Events : TRUE, todo |-> {}]

Alive(s) == goroutine[s] \notin {"none", "exited"}

\* wg.Add(1), then go runCollector or go runDatasource.
Spawn(s) ==
    /\ wg' = wg + 1
    /\ goroutine' = [goroutine EXCEPT ![s] = IF s \in Collectors THEN "jitter" ELSE "starting"]
    /\ spawned' = [spawned EXCEPT ![s] = @ + 1]

-----------------------------------------------------------------------------
(***************************************************************************)
(* Registration.                                                           *)
(***************************************************************************)
\* Mutant: Stop is not looked at.
RegisterCollectorAfterStop(c) ==
    /\ c \notin registered
    /\ registered' = registered \cup {c}
    /\ IF started THEN Spawn(c) ELSE UNCHANGED <<wg, goroutine, spawned>>
    /\ UNCHANGED <<started, stopped, ctxDone, registering, start, stop, eventLoop, overlap, eventVars>>

\* The goroutine is started before p.mu is released.
RegisterCollector(c) ==
    /\ c \notin registered
    /\ registered' = registered \cup {c}
    /\ IF started /\ ~stopped THEN Spawn(c) ELSE UNCHANGED <<wg, goroutine, spawned>>
    /\ UNCHANGED <<started, stopped, ctxDone, registering, start, stop, eventLoop, overlap, eventVars>>

\* The decision is taken under p.mu ...
RegisterDatasource(d) ==
    /\ d \notin registered
    /\ registered' = registered \cup {d}
    /\ registering' = IF started /\ ~stopped THEN registering \cup {d} ELSE registering
    /\ UNCHANGED <<started, stopped, ctxDone, wg, goroutine, spawned, start, stop, eventLoop, overlap, eventVars>>

\* ... and the goroutine is started after it is released.
SpawnDatasource(d) ==
    /\ d \in registering
    /\ registering' = registering \ {d}
    /\ Spawn(d)
    /\ UNCHANGED <<started, stopped, ctxDone, registered, start, stop, eventLoop, overlap, eventVars>>

\* An extractor that comes after Start is ignored.
RegisterExtractor(x) ==
    /\ x \notin extractors
    /\ extractors' = IF started THEN extractors ELSE extractors \cup {x}
    /\ UNCHANGED <<lifecycleVars, eventLoop, ch, extraction, notified, seen>>

(***************************************************************************)
(* Start.                                                                  *)
(***************************************************************************)
\* Under p.mu: refuse, or mark as started and copy what is registered.
StartLocked ==
    /\ start.pc = "idle"
    /\ IF stopped
       THEN start' = [start EXCEPT !.pc = "failed"] /\ UNCHANGED started
       ELSE /\ started' = TRUE
            /\ start' = [pc |-> "loop", snapshot |-> registered, todo |-> registered]
    /\ UNCHANGED <<stopped, ctxDone, registered, registering, wg, goroutine, spawned, stop,
                   eventLoop, overlap, eventVars>>

\* Mutant: the copy is taken after p.mu was released.
StartEventLoopLateSnapshot ==
    /\ start.pc = "loop"
    /\ eventLoop' = "running"
    /\ start' = [pc |-> "spawn", snapshot |-> registered, todo |-> registered]
    /\ UNCHANGED <<started, stopped, ctxDone, registered, registering, wg, goroutine, spawned,
                   stop, overlap, eventVars>>

\* go eventLoop, and wait until it is running.
StartEventLoop ==
    /\ start.pc = "loop"
    /\ eventLoop' = "running"
    /\ start' = [start EXCEPT !.pc = "spawn"]
    /\ UNCHANGED <<started, stopped, ctxDone, registered, registering, wg, goroutine, spawned,
                   stop, overlap, eventVars>>

StartSpawn(s) ==
    /\ start.pc = "spawn" /\ s \in start.todo
    /\ start.todo \cap Collectors # {} => s \in Collectors  \* collectors first
    /\ start' = [start EXCEPT !.todo = @ \ {s}]
    /\ Spawn(s)
    /\ UNCHANGED <<started, stopped, ctxDone, registered, registering, stop, eventLoop, overlap, eventVars>>

StartReturn ==
    /\ start.pc = "spawn" /\ start.todo = {}
    /\ start' = [start EXCEPT !.pc = "returned"]
    /\ UNCHANGED <<started, stopped, ctxDone, registered, registering, wg, goroutine, spawned,
                   stop, eventLoop, overlap, eventVars>>

(***************************************************************************)
(* Stop.  Before Start there is nothing to cancel.                         *)
(***************************************************************************)
StopLocked ==
    /\ stop = "idle"
    /\ stopped' = TRUE
    /\ stop' = IF started THEN "cancel" ELSE "returned"
    /\ overlap' = (start.pc \in {"loop", "spawn"})
    /\ UNCHANGED <<started, ctxDone, registered, registering, wg, goroutine, spawned, start, eventLoop,
                   eventVars>>

StopCancel ==
    /\ stop = "cancel"
    /\ ctxDone' = TRUE
    /\ stop' = "wait"
    /\ UNCHANGED <<started, stopped, registered, registering, wg, goroutine, spawned, start,
                   eventLoop, overlap, eventVars>>

StopWait ==
    /\ stop = "wait" /\ wg = 0
    /\ stop' = "notifyDone"
    /\ UNCHANGED <<started, stopped, ctxDone, registered, registering, wg, goroutine, spawned,
                   start, eventLoop, overlap, eventVars>>

StopReturn ==
    /\ stop = "notifyDone" /\ eventLoop = "done"
    /\ stop' = "returned"
    /\ UNCHANGED <<started, stopped, ctxDone, registered, registering, wg, goroutine, spawned,
                   start, eventLoop, overlap, eventVars>>

\* The caller's context is cancelled (a termination signal).
ParentCancelled ==
    /\ started /\ ~ctxDone
    /\ ctxDone' = TRUE
    /\ UNCHANGED <<started, stopped, registered, registering, wg, goroutine, spawned, start, stop,
                   eventLoop, overlap, eventVars>>

-----------------------------------------------------------------------------
(***************************************************************************)
(* The goroutines.  select picks any ready case: a collector whose timer   *)
(* fired may poll once more after its context was cancelled.               *)
(***************************************************************************)
\* Notify never blocks: an event that finds the buffer full is dropped.
Notify(e) ==
    /\ e \notin notified
    /\ notified' = notified \cup {e}
    /\ ch' = IF Len(ch) < BufferSize THEN Append(ch, e) ELSE ch
    /\ UNCHANGED <<lifecycleVars, eventLoop, extractors, extraction, seen>>

LoopReceive ==
    /\ eventLoop = "running" /\ ch # <<>>
    /\ ch' = Tail(ch)
    /\ extraction' = [event |-> Head(ch), todo |-> extractors]
    /\ eventLoop' = "extracting"
    /\ UNCHANGED <<lifecycleVars, extractors, notified, seen>>

\* Mutant: an extractor's error ends the round for the ones after it.
LoopExtractStoppingAtError(x) ==
    /\ eventLoop = "extracting" /\ x \in extraction.todo
    /\ seen' = [seen EXCEPT ![extraction.event] = @ \cup {x}]
    /\ \E failed \in BOOLEAN :
          extraction' = [extraction EXCEPT !.todo = IF failed THEN {} ELSE @ \ {x}]
    /\ UNCHANGED <<lifecycleVars, eventLoop, extractors, ch, notified>>

\* One extractor after the other; an error is logged and the next one is called.
LoopExtract(x) ==
    /\ eventLoop = "extracting" /\ x \in extraction.todo
    /\ seen' = [seen EXCEPT ![extraction.event] = @ \cup {x}]
    /\ extraction' = [extraction EXCEPT !.todo = @ \ {x}]
    /\ UNCHANGED <<lifecycleVars, eventLoop, extractors, ch, notified>>

LoopExtracted ==
    /\ eventLoop = "extracting" /\ extraction.todo = {}
    /\ eventLoop' = "running"
    /\ extraction' = NoExtraction
    /\ UNCHANGED <<lifecycleVars, extractors, ch, notified, seen>>

\* The context's case of the select: events still in the channel are lost.
LoopExit ==
    /\ eventLoop = "running" /\ ctxDone
    /\ eventLoop' = "done"
    /\ UNCHANGED <<lifecycleVars, eventVars>>

GoroutineUnchanged == UNCHANGED <<started, stopped, ctxDone, registered, registering, spawned,
                                  start, stop, eventLoop, overlap, eventVars>>

\* The jitter's or the ticker's case.
TimerFires(c) ==
    /\ goroutine[c] \in {"jitter", "waiting"}
    /\ goroutine' = [goroutine EXCEPT ![c] = "polling"]
    /\ UNCHANGED wg /\ GoroutineUnchanged

PollReturns(c) ==
    /\ goroutine[c] = "polling"
    /\ goroutine' = [goroutine EXCEPT ![c] = "waiting"]
    /\ UNCHANGED wg /\ GoroutineUnchanged

DatasourceStarted(d) ==
    /\ goroutine[d] = "starting"
    /\ goroutine' = [goroutine EXCEPT ![d] = "running"]
    /\ UNCHANGED wg /\ GoroutineUnchanged

\* Mutants: a return that skips wg.Done, and one that calls it twice.
ExitWithoutDone(s) == goroutine' = [goroutine EXCEPT ![s] = "exited"] /\ UNCHANGED wg
ExitDoneTwice(s) == goroutine' = [goroutine EXCEPT ![s] = "exited"] /\ wg' = wg - 2

\* The deferred wg.Done.
Exit(s) == goroutine' = [goroutine EXCEPT ![s] = "exited"] /\ wg' = wg - 1

CollectorExit(c) ==
    /\ goroutine[c] \in {"jitter", "waiting"} /\ ctxDone
    /\ Exit(c)
    /\ GoroutineUnchanged

\* DataSource.Start failed, or the context is done and DataSource.Stop returned.
DatasourceExit(d) ==
    /\ goroutine[d] = "starting" \/ (goroutine[d] = "running" /\ ctxDone)
    /\ Exit(d)
    /\ GoroutineUnchanged

Init ==
    /\ started = FALSE /\ stopped = FALSE /\ ctxDone = FALSE
    /\ registered = {} /\ registering = {} /\ wg = 0
    /\ goroutine = [s \in Sources |-> "none"]
    /\ spawned = [s \in Sources |-> 0]
    /\ start = [pc |-> "idle", snapshot |-> {}, todo |-> {}]
    /\ stop = "idle" /\ eventLoop = "none" /\ overlap = FALSE
    /\ extractors = {} /\ ch = <<>> /\ notified = {}
    /\ extraction = NoExtraction
    /\ seen = [e \in Events |-> {}]

StartStep == StartLocked \/ StartEventLoop \/ (\E s \in Sources : StartSpawn(s)) \/ StartReturn
StopStep == StopCancel \/ StopWait \/ StopReturn
CollectorStep(c) == TimerFires(c) \/ PollReturns(c) \/ CollectorExit(c)
DatasourceStep(d) == DatasourceStarted(d) \/ DatasourceExit(d)
LoopStep == LoopReceive \/ (\E x \in Extractors : LoopExtract(x)) \/ LoopExtracted

Next ==
    \/ \E c \in Collectors : RegisterCollector(c) \/ CollectorStep(c)
    \/ \E d \in DataSources : RegisterDatasource(d) \/ SpawnDatasource(d) \/ DatasourceStep(d)
    \/ StartStep \/ StopLocked \/ StopStep
    \/ \E x \in Extractors : RegisterExtractor(x)
    \/ \E e \in Events : Notify(e)
    \/ ParentCancelled \/ LoopStep \/ LoopExit

\* Goroutines keep running, an extraction, a poll and a data source's Start and Stop return,
\* and select does not pass over a case that is ready again and again.
Fairness ==
    /\ WF_vars(StartStep /\ start.pc # "idle") /\ WF_vars(StopStep)
    /\ WF_vars(LoopStep) /\ SF_vars(LoopExit)
    /\ \A c \in Collectors : WF_vars(PollReturns(c)) /\ SF_vars(CollectorExit(c))
    /\ \A d \in DataSources : WF_vars(SpawnDatasource(d)) /\ WF_vars(DatasourceStep(d))

Spec == Init /\ [][Next]_vars
FairSpec == Spec /\ Fairness

-----------------------------------------------------------------------------
(***************************************************************************)
(* Properties.                                                             *)
(***************************************************************************)
\* Every variable has its type; in particular the wait group's counter never
\* goes negative, at which sync.WaitGroup panics.
TypeOK ==
    /\ started \in BOOLEAN /\ stopped \in BOOLEAN /\ ctxDone \in BOOLEAN /\ overlap \in BOOLEAN
    /\ registered \subseteq Sources /\ registering \subseteq DataSources
    /\ wg \in Nat
    /\ goroutine \in [Sources -> {"none", "jitter", "polling", "waiting", "starting", "running",
                                  "exited"}]
    /\ spawned \in [Sources -> Nat]
    /\ start \in [pc : {"idle", "loop", "spawn", "returned", "failed"},
                  snapshot : SUBSET Sources, todo : SUBSET Sources]
    /\ stop \in {"idle", "cancel", "wait", "notifyDone", "returned"}
    /\ eventLoop \in {"none", "running", "extracting", "done"}
    /\ extractors \subseteq Extractors
    /\ ch \in Seq(Events) /\ Len(ch) <= BufferSize
    /\ extraction \in [event : Events, todo : SUBSET Extractors]
    /\ notified \subseteq Events
    /\ seen \in [Events -> SUBSET Extractors]

\* Whenever a registration falls with respect to Start, the source never gets
\* a second goroutine, and has one once both calls are over and the processor
\* was not stopped ("RegisterCollector may be called before or after Start",
\* processor.go:49).
OneGoroutinePerSource ==
    \A s \in Sources :
        /\ spawned[s] <= 1
        /\ start.pc = "returned" /\ ~stopped /\ s \in registered \ registering => spawned[s] = 1

\* When Stop has returned, no event is in an extractor's hands, even if Start
\* was still under way when Stop was called; and if it was not, no collector is
\* polled any more, nor does a data source registered before Start run:
\* registrations that race with Stop included.
StopWaitsForCollectors ==
    stop = "returned" =>
        /\ eventLoop \in {"none", "done"}
        /\ ~overlap => \A s \in Collectors \cup start.snapshot : ~Alive(s)

\* "Stop cancels all goroutines and waits for them to exit"
\* (processor.go:181): no source, a data source registered while the processor
\* runs included, is still going when Stop has returned, even if Start was over
\* before Stop was called.
StopWaitsForAll == stop = "returned" /\ ~overlap => \A s \in Sources : ~Alive(s)

\* An event that Notify accepted, before Start was called or at any time after
\* it, reaches every extractor, whatever errors the others return: an event is
\* lost only to a full buffer, to the end of the context, or to a processor that
\* was stopped before it was started (Notify, eventLoop).
AcceptedEventsExtracted ==
    \A e \in Events :
        ((\E i \in DOMAIN ch : ch[i] = e) /\ start.pc # "idle")
            ~> (seen[e] = extractors \/ ctxDone \/ start.pc = "failed")

\* Stop returns: no goroutine it waits for is forgotten by the wait group or
\* keeps going.
StopReturns == stop # "idle" ~> stop = "returned"
=============================================================================
