----------------------------- MODULE Datalayer -----------------------------
(***************************************************************************)
(* The data layer at run time: the streams notify request and response     *)
(* events into the processor's bounded channel; the event loop hands them  *)
(* to the request-metadata extractor, which counts in-flight requests and  *)
(* their tokens per model and publishes the counts as a datastore          *)
(* attribute, and then to the request-cost extractor, which prices the     *)
(* response and publishes a digest of the model's costs; and, on its own   *)
(* goroutine, the model-config data source keeps the datastore's models    *)
(* and prices in step with a JSON file.                                    *)
(*                                                                         *)
(* What a stream notifies is what StreamEvents allows: its actions are     *)
(* conjuncts of the actions of the streams here.                           *)
(*                                                                         *)
(* Each datastore or attribute call is a step of its own, but for two      *)
(* pairs that commute with what may come in between (SampleCost, Flush).   *)
(* A model object is identified by its name and generation: DeleteModel    *)
(* followed by GetOrCreateModel makes a new object, and a goroutine that   *)
(* still holds the old one writes to an orphan that nobody can reach.      *)
(***************************************************************************)
EXTENDS Integers, Sequences, FiniteSets

CONSTANTS
    Requests,      \* streams
    Models,        \* model names
    Entries,       \* what the file may say of a model: its prices and groups
    Grouped,       \* the entries of Entries with a group membership
    None,          \* absent: no entry, no attribute, no model in a body
    Asked,         \* per stream: the models its request may name
    MaxTokens,     \* per stream and model it asks for: the "max_tokens" of that body,
                   \* 0 if absent; any number the client sends, also a negative one
    Malformed,     \* the content of a file that does not parse
    Files,         \* the contents the models file may have
    Bodies,        \* the response bodies, as far as their usage reports
    BufferSize,    \* capacity of the event channel
    MaxEdits       \* bound: edits of the file

\* The fields a usage report may have: Gemini's, OpenAI's and Anthropic's.  The
\* maps they are in are present exactly when one of their fields is.
UsageFields == {"promptTokenCount", "candidatesTokenCount", "prompt_tokens",
                "completion_tokens", "input_tokens", "output_tokens"}

ASSUME DatalayerAssumption ==
    /\ Models # {}
    /\ Grouped \subseteq Entries
    /\ None \notin Entries \cup Models
    /\ Asked \in [Requests -> SUBSET (Models \cup {None})]
    /\ MaxTokens \in [Requests -> [Models -> Int]]
    /\ Malformed \notin [Models -> Entries \cup {None}]
    /\ Files \subseteq [Models -> Entries \cup {None}] \cup {Malformed}
    /\ Bodies \subseteq [UsageFields -> Nat \cup {None}]
    /\ BufferSize \in Nat \ {0}
    /\ MaxEdits \in Nat

VARIABLES
    notified,   \* per stream: the events it passed to Notify (StreamEvents)
    ch,         \* the event channel
    counters,   \* the extractor's in-flight counts: [requests, tokens]
    digests,    \* the cost extractor's running digests, as sets of samples
    loop,       \* the event loop: [pc, event, gen]
    store,      \* per model name: [live, gen, prices, groups, inflight, cost]
    file,       \* content of the models file
    edits,      \* number of edits made to it
    fsEvents,   \* file events queued in the watcher
    watching,   \* whether watcher.Add has been called
    source,     \* the data source: [pc, desired, todo, model, gen]
    \* history
    handled,    \* events the event loop has received
    costed,     \* the cost samples ever computed
    dropped,    \* request events Notify dropped because the channel was full
    missed      \* whether the last edit of the file came after the first read and
                \* made no event that names the file

sourceVars == <<file, edits, fsEvents, watching, source, missed>>
costVars == <<digests, costed>>
vars == <<notified, ch, counters, costVars, loop, store, sourceVars, handled, dropped>>

Config == [Models -> Entries \cup {None}]

\* The value of a model field that nothing reads yet.
AnyModel == CHOOSE m \in Models : TRUE

-----------------------------------------------------------------------------
(***************************************************************************)
(* The datastore.                                                          *)
(***************************************************************************)
NewModel(gen) == [live |-> TRUE, gen |-> gen, prices |-> None, groups |-> None,
                  inflight |-> None, cost |-> None]

\* The store after GetOrCreateModel(m).
GetOrCreateModel(m) ==
    IF store[m].live THEN store ELSE [store EXCEPT ![m] = NewModel(@.gen + 1)]

\* The store after Put or Delete of an attribute on the object (m, gen).
Put(m, gen, key, value) ==
    IF store[m].live /\ store[m].gen = gen THEN [store EXCEPT ![m][key] = value] ELSE store

DeleteModel(m) == [store EXCEPT ![m] = [NewModel(@.gen) EXCEPT !.live = FALSE]]

(***************************************************************************)
(* Streams.  An event in the channel points at the stream's request, and   *)
(* the extractors read the model and max_tokens from there.                *)
(***************************************************************************)
Stream == INSTANCE StreamEvents WITH Streams <- Requests, NoModel <- None

Event(r, type) == [req |-> r, type |-> type]
modelOf(r) == Stream!requestModel(r)

\* Mutant: Notify blocks out the oldest event instead of dropping the new one.
NotifyOverwriting(e) ==
    IF Len(ch) < BufferSize THEN ch' = Append(ch, e) /\ UNCHANGED dropped
    ELSE ch' = Append(Tail(ch), e) /\ UNCHANGED dropped

\* Notify never blocks: it drops the event when the buffer is full.
Notify(e) ==
    IF Len(ch) < BufferSize THEN ch' = Append(ch, e) /\ UNCHANGED dropped
    ELSE dropped' = dropped \cup {x \in {e} : x.type = "request"} /\ UNCHANGED ch

RequestForwarded(r) ==
    /\ \E m \in Asked[r] : Stream!NotifyRequest(r, m)
    /\ Notify(Event(r, "request"))
    /\ UNCHANGED <<counters, costVars, loop, store, sourceVars, handled>>

\* Also the response to a request that was never processed.
ResponseCompleted(r) ==
    /\ Stream!NotifyResponse(r)
    /\ Notify(Event(r, "response"))
    /\ UNCHANGED <<counters, costVars, loop, store, sourceVars, handled>>

(***************************************************************************)
(* The event loop hands an event to each extractor in the order of their   *)
(* registration, here first the request-metadata extractor: count, find or *)
(* create the model, publish the count on it.                              *)
(***************************************************************************)
Idle == [pc |-> "idle", event |-> None, gen |-> 0]
eventModel == modelOf(loop.event.req)
loopUnchanged == <<notified, ch, sourceVars, handled, dropped>>

\* Mutant: no floor.
DecrementBelowZero(v, delta) == v - delta
floorDecrement(v, delta) == IF v - delta < 0 THEN 0 ELSE v - delta

\* The counts of model m after an event e of it.  Nothing checks the sign of
\* max_tokens: a negative one lowers the sum, below zero if it comes first, and
\* the floor is only applied when a response takes its max_tokens off.
\* Mutant: only the requests are given back.
CountedKeepingTokens(c, m, e) ==
    IF e.type = "request"
    THEN [requests |-> c.requests + 1, tokens |-> c.tokens + MaxTokens[e.req][m]]
    ELSE [c EXCEPT !.requests = floorDecrement(@, 1)]

Counted(c, m, e) ==
    IF e.type = "request"
    THEN [requests |-> c.requests + 1, tokens |-> c.tokens + MaxTokens[e.req][m]]
    ELSE [requests |-> floorDecrement(c.requests, 1),
          tokens |-> floorDecrement(c.tokens, MaxTokens[e.req][m])]

\* Both extractors skip an event of a request that names no model.
Receive ==
    /\ loop.pc = "idle" /\ ch # <<>>
    /\ ch' = Tail(ch)
    /\ LET e == Head(ch)
           m == modelOf(e.req)
       IN  /\ handled' = handled \cup {e}
           /\ IF m = None THEN UNCHANGED <<counters, loop>>
              ELSE /\ counters' = [counters EXCEPT ![m] = Counted(@, m, e)]
                   /\ loop' = [loop EXCEPT !.pc = "lookup", !.event = e]
    /\ UNCHANGED <<notified, costVars, store, sourceVars, dropped>>

Lookup ==
    /\ loop.pc = "lookup"
    /\ store' = GetOrCreateModel(eventModel)
    /\ loop' = [loop EXCEPT !.pc = "put", !.gen = store'[eventModel].gen]
    /\ UNCHANGED <<loopUnchanged, counters, costVars>>

\* The cost extractor, next in line, does nothing for a request event.
afterPublish == IF loop.event.type = "request" THEN Idle
                ELSE [loop EXCEPT !.pc = "cost", !.gen = 0]

\* Mutant: the count published is one behind.
PublishStale ==
    /\ loop.pc = "put"
    /\ store' = Put(eventModel, loop.gen, "inflight",
                    [counters[eventModel] EXCEPT !.requests = floorDecrement(@, 1)])
    /\ loop' = afterPublish
    /\ UNCHANGED <<loopUnchanged, counters, costVars>>

Publish ==
    /\ loop.pc = "put"
    /\ store' = Put(eventModel, loop.gen, "inflight", counters[eventModel])
    /\ loop' = afterPublish
    /\ UNCHANGED <<loopUnchanged, counters, costVars>>

(***************************************************************************)
(* Then the request-cost extractor.  Its digest is modelled by the set of  *)
(* the samples in it, a sample by the factors of the cost: the prices and  *)
(* the token counts.  A field of 0 stands for every value that is present  *)
(* and not a positive number.                                              *)
(***************************************************************************)
tokenPair(body, prompt, completion) ==
    IF {body[prompt], body[completion]} \cap {None, 0} = {}
    THEN <<body[prompt], body[completion]>> ELSE None

\* The report is read in the first format that is present, and in no other.
extractTokenCounts(body) ==
    IF {body["promptTokenCount"], body["candidatesTokenCount"]} # {None}
    THEN tokenPair(body, "promptTokenCount", "candidatesTokenCount")
    ELSE IF body["prompt_tokens"] # None
    THEN tokenPair(body, "prompt_tokens", "completion_tokens")
    ELSE tokenPair(body, "input_tokens", "output_tokens")

\* Whether lookupTokenPrices finds prices.  Mutant: it does not look.
pricesFoundAlways(prices) == TRUE
pricesFound(prices) == prices # None

\* For a response event the extractor finds or creates the model, skips the
\* event when the model has no prices or the body no usable counts, and
\* otherwise adds the cost to the model's digest.  The find and the read of the
\* prices are one step: a model deleted between the two is read as it was just
\* before the deletion.  The clock is not modelled: any sample may be the one
\* that finds the flush interval passed.
SampleCost ==
    /\ loop.pc = "cost"
    /\ store' = GetOrCreateModel(eventModel)
    /\ \E body \in Bodies, due \in BOOLEAN :
          LET sample == [req |-> loop.event.req, prices |-> store'[eventModel].prices,
                         tokens |-> extractTokenCounts(body)]
          IN  IF pricesFound(sample.prices) /\ sample.tokens # None
              THEN /\ digests' = [digests EXCEPT ![eventModel] = @ \cup {sample}]
                   /\ costed' = costed \cup {sample}
                   /\ loop' = IF due THEN [loop EXCEPT !.pc = "flush"] ELSE Idle
              ELSE loop' = Idle /\ UNCHANGED costVars
    /\ UNCHANGED <<loopUnchanged, counters>>

\* Mutant: a flush starts a new digest.
FlushAndReset ==
    /\ loop.pc = "flush"
    /\ store' = [GetOrCreateModel(eventModel) EXCEPT ![eventModel].cost = digests[eventModel]]
    /\ digests' = [digests EXCEPT ![eventModel] = {}]
    /\ loop' = Idle
    /\ UNCHANGED <<loopUnchanged, counters, costed>>

\* A clone of the digest is put on the model, found or created again.  The find
\* and the Put are one step: a Put on a model deleted between the two is lost,
\* as it is when the deletion follows it.
Flush ==
    /\ loop.pc = "flush"
    /\ store' = [GetOrCreateModel(eventModel) EXCEPT ![eventModel].cost = digests[eventModel]]
    /\ loop' = Idle
    /\ UNCHANGED <<loopUnchanged, counters, costVars>>

-----------------------------------------------------------------------------
(***************************************************************************)
(* The models file.  A write in place is seen truncated or half written    *)
(* ("malformed") before it is complete.  Once the directory is watched, a  *)
(* write to the file, or a new file in its place, queues an event with its *)
(* name.  When the file is a link into a mounted ConfigMap, a new version  *)
(* is a remount: a link beside the file changes, and the watcher's         *)
(* goroutine passes over the events with that name.                        *)
(***************************************************************************)
EditFile ==
    /\ edits < MaxEdits
    /\ \E c \in Files : c # file /\ file' = c
    /\ edits' = edits + 1
    /\ \E remount \in BOOLEAN :
          /\ fsEvents' = IF watching /\ ~remount THEN fsEvents + 1 ELSE fsEvents
          /\ missed' = (source.pc # "initial" /\ (remount \/ ~watching))
    /\ UNCHANGED <<notified, ch, counters, costVars, loop, store, watching, source, handled,
                   dropped>>

(***************************************************************************)
(* ModelConfigDataSource.Start: one sync, then watcher.Add, then the       *)
(* watcher goroutine, which syncs at every event on the file.  An error in *)
(* the first sync makes Start fail for good; a later one is logged.        *)
(***************************************************************************)
sourceUnchanged == <<notified, ch, counters, costVars, loop, file, edits, missed, handled,
                     dropped>>

\* syncModels reads and parses the file.
ReadFile(failedPC) ==
    /\ source' = IF file = Malformed THEN [source EXCEPT !.pc = failedPC]
                 ELSE [source EXCEPT !.pc = "register", !.desired = file,
                                     !.todo = {m \in Models : file[m] # None}]
    /\ UNCHANGED <<sourceUnchanged, store, watching>>

InitialSync == source.pc = "initial" /\ ReadFile("failed") /\ UNCHANGED fsEvents

AddWatcher ==
    /\ source.pc = "idle" /\ ~watching
    /\ watching' = TRUE
    /\ UNCHANGED <<sourceUnchanged, store, source, fsEvents>>

\* Mutant: a file event is taken as handled without reading the file again.
IgnoreFileEvent ==
    /\ source.pc = "idle" /\ watching /\ fsEvents > 0
    /\ fsEvents' = fsEvents - 1
    /\ UNCHANGED <<sourceUnchanged, store, watching, source>>

HandleFileEvent ==
    /\ source.pc = "idle" /\ watching /\ fsEvents > 0
    /\ fsEvents' = fsEvents - 1
    /\ ReadFile("idle")

\* Each valid entry of the file: find or create its model ...
RegisterModel ==
    /\ source.pc = "register" /\ source.todo # {}
    /\ \E m \in source.todo :
          /\ store' = GetOrCreateModel(m)
          /\ source' = [source EXCEPT !.pc = "prices", !.model = m, !.gen = store'[m].gen,
                                      !.todo = @ \ {m}]
    /\ UNCHANGED <<sourceUnchanged, watching, fsEvents>>

\* ... store its prices ...
PutPrices ==
    /\ source.pc = "prices"
    /\ store' = Put(source.model, source.gen, "prices", source.desired[source.model])
    /\ source' = [source EXCEPT !.pc = "groups"]
    /\ UNCHANGED <<sourceUnchanged, watching, fsEvents>>

\* Mutant: a model that lost its groups keeps the old membership.
PutGroupsOnly ==
    /\ source.pc = "groups"
    /\ LET entry == source.desired[source.model]
       IN  store' = IF entry \in Grouped
                    THEN Put(source.model, source.gen, "groups", entry) ELSE store
    /\ source' = [source EXCEPT !.pc = "register", !.model = AnyModel, !.gen = 0]
    /\ UNCHANGED <<sourceUnchanged, watching, fsEvents>>

\* ... and refresh its group membership, deleting the attribute when it has none.
PutGroups ==
    /\ source.pc = "groups"
    /\ LET entry == source.desired[source.model]
       IN  store' = Put(source.model, source.gen, "groups",
                        IF entry \in Grouped THEN entry ELSE None)
    /\ source' = [source EXCEPT !.pc = "register", !.model = AnyModel, !.gen = 0]
    /\ UNCHANGED <<sourceUnchanged, watching, fsEvents>>

\* GetModels, then DeleteModel of every model the file does not list.
ListModels ==
    /\ source.pc = "register" /\ source.todo = {}
    /\ source' = [source EXCEPT !.pc = "delete",
                    !.todo = {m \in Models : store[m].live /\ source.desired[m] = None}]
    /\ UNCHANGED <<sourceUnchanged, store, watching, fsEvents>>

DeleteUnlisted ==
    /\ source.pc = "delete"
    /\ \/ \E m \in source.todo : /\ store' = DeleteModel(m)
                                 /\ source' = [source EXCEPT !.todo = @ \ {m}]
       \/ /\ source.todo = {}
          /\ source' = [source EXCEPT !.pc = "idle"]
          /\ UNCHANGED store
    /\ UNCHANGED <<sourceUnchanged, watching, fsEvents>>

Init ==
    /\ Stream!Init
    /\ ch = <<>>
    /\ counters = [m \in Models |-> [requests |-> 0, tokens |-> 0]]
    /\ loop = Idle
    /\ digests = [m \in Models |-> {}] /\ costed = {}
    /\ store = [m \in Models |-> [NewModel(0) EXCEPT !.live = FALSE]]
    /\ file \in Files
    /\ edits = 0 /\ fsEvents = 0 /\ watching = FALSE
    /\ source = [pc |-> "initial", desired |-> [m \in Models |-> None], todo |-> {},
                 model |-> AnyModel, gen |-> 0]
    /\ handled = {} /\ dropped = {} /\ missed = FALSE

Next ==
    \/ \E r \in Requests : RequestForwarded(r) \/ ResponseCompleted(r)
    \/ Receive \/ Lookup \/ Publish \/ SampleCost \/ Flush
    \/ EditFile
    \/ InitialSync \/ AddWatcher \/ HandleFileEvent
    \/ RegisterModel \/ PutPrices \/ PutGroups \/ ListModels \/ DeleteUnlisted

\* The two goroutines of the program keep running; streams and operators need not.
EventLoopStep == Receive \/ Lookup \/ Publish \/ SampleCost \/ Flush
SourceStep == InitialSync \/ AddWatcher \/ HandleFileEvent \/ RegisterModel \/ PutPrices
              \/ PutGroups \/ ListModels \/ DeleteUnlisted
Fairness == WF_vars(EventLoopStep) /\ WF_vars(SourceStep)

Spec == Init /\ [][Next]_vars
FairSpec == Spec /\ Fairness

-----------------------------------------------------------------------------
(***************************************************************************)
(* Properties.                                                             *)
(***************************************************************************)
Samples == [req : Requests, prices : Entries \cup {None},
            tokens : {extractTokenCounts(body) : body \in Bodies}]
Counts == [requests : Nat, tokens : Int]
Attributes == [live : BOOLEAN, gen : Nat, prices : Entries \cup {None},
               groups : Entries \cup {None}, inflight : Counts \cup {None},
               cost : (SUBSET Samples) \cup {None}]
Events == [req : Requests, type : {"request", "response"}]
SourcePCs == {"initial", "register", "prices", "groups", "delete", "idle", "failed"}

\* Every variable has its type; in particular the channel never holds more
\* than its capacity and no count of requests is negative (floorDecrement).
TypeOK ==
    /\ notified \in [Requests -> Seq([type : {"request", "response"}, model : Models \cup {None}])]
    /\ ch \in Seq(Events) /\ Len(ch) <= BufferSize
    /\ counters \in [Models -> Counts]
    /\ digests \in [Models -> SUBSET Samples] /\ costed \subseteq Samples
    /\ loop \in [pc : {"idle", "lookup", "put", "cost", "flush"}, event : Events \cup {None},
                 gen : Nat]
    /\ store \in [Models -> Attributes]
    /\ file \in Config \cup {Malformed}
    /\ edits \in 0..MaxEdits /\ fsEvents \in Nat
    /\ watching \in BOOLEAN /\ missed \in BOOLEAN
    /\ source \in [pc : SourcePCs, desired : Config, todo : SUBSET Models,
                    model : Models, gen : Nat]
    /\ handled \subseteq Events /\ dropped \subseteq Events

\* The requests for m whose request event, and not whose response event, the
\* extractor has seen.
Outstanding(m) == {r \in Requests : /\ modelOf(r) = m
                                    /\ Event(r, "request") \in handled
                                    /\ Event(r, "response") \notin handled}
\* The tokens a set of requests asks m for, one by one: there are as many as
\* their max_tokens sum to when none of these is negative.
TokensOf(m, S) == UNION {{r} \X (1..MaxTokens[r][m]) : r \in S}
Expected(m) == [requests |-> Cardinality(Outstanding(m)),
                tokens |-> Cardinality(TokensOf(m, Outstanding(m)))]
RequestDropped(m) == \E r \in Requests : modelOf(r) = m /\ Event(r, "request") \in dropped
NegativeTokens(m) == \E r \in Requests : /\ modelOf(r) = m /\ MaxTokens[r][m] < 0
                                         /\ \E e \in handled : e.req = r

\* The extractor's count of requests for a model never exceeds the number of
\* those it has seen start and not seen end, whatever events Notify dropped,
\* and is exactly that unless a request event of the model was dropped.  The
\* same holds for the sum of their tokens, which is then not negative either,
\* until an event of a request with a negative max_tokens is handled for that
\* model: from then on the floor may apply to a sum that was right, and the sum
\* may be anything (requestmetadata Extract, floorDecrement; Processor.Notify).
InFlightCount ==
    \A m \in Models :
        /\ counters[m].requests <= Expected(m).requests
        /\ RequestDropped(m) \/ counters[m].requests = Expected(m).requests
        /\ NegativeTokens(m)
           \/ /\ counters[m].tokens \in 0..Expected(m).tokens
              /\ RequestDropped(m) \/ counters[m].tokens = Expected(m).tokens

\* The count a reader finds on a live model is the extractor's count, except
\* while the extractor is between counting an event of that model and
\* publishing the result: no interleaving with a delete and re-creation of
\* the model leaves an out-of-date count behind.
PublishedCountIsCurrent ==
    \A m \in Models :
        store[m].live /\ store[m].inflight # None =>
            \/ store[m].inflight = counters[m]
            \/ loop.pc \in {"lookup", "put"} /\ eventModel = m

\* Model m of the last configuration read has been registered in full.
Synced(m) == /\ source.pc \in {"register", "prices", "groups", "delete", "idle"}
             /\ source.desired[m] # None
             /\ ~(source.pc = "register" /\ m \in source.todo)
             /\ ~(source.pc \in {"prices", "groups"} /\ m \in source.todo \cup {source.model})
GroupsOf(entry) == IF entry \in Grouped THEN entry ELSE None

\* From the moment syncModels has registered a listed model, that model stays
\* in the datastore with the prices and groups of the file, through the
\* deletions that follow and whatever the event loop does meanwhile.
SyncedModelsServed ==
    \A m \in Models : Synced(m) =>
        /\ store[m].live
        /\ store[m].prices = source.desired[m]
        /\ store[m].groups = GroupsOf(source.desired[m])

\* The datastore serves exactly what the file lists for the models it lists.
InSync == \A m \in Models : file[m] # None =>
              /\ store[m].live
              /\ store[m].prices = file[m] /\ store[m].groups = GroupsOf(file[m])

\* Once edits stop, the datastore converges to the file, unless the file is
\* left malformed, the first read failed, or the last edit fell between the
\* first read and watcher.Add or was a remount: an edit that was passed over is
\* made good by the next one that is not (ModelConfigDataSource.Start).
EventuallyInSync ==
    <>[](file = Malformed \/ source.pc = "failed" \/ missed \/ InSync)

\* Every response event that entered the channel is eventually counted: when
\* every stream has ended and delivered its response event, the counts of
\* requests go back to zero, even when request events were dropped, and so do
\* the sums of tokens of the models that no negative max_tokens was counted
\* for.  For the others a sum may stay above zero for good: when the request
\* event of a max_tokens of -2 was dropped, its response adds 2; and when -2 and
\* 1 were counted, the response to the second floors -2 to 0 and that to the
\* first makes it 2.
AllAnswered == \A r \in Requests :
    \/ Event(r, "response") \in handled
    \/ \E i \in DOMAIN ch : ch[i] = Event(r, "response")
CountsDrain ==
    AllAnswered ~> \A m \in Models : /\ counters[m].requests = 0
                                     /\ counters[m].tokens = 0 \/ NegativeTokens(m)

\* A request is charged at most once, only when its response event was handled,
\* and at prices that some version of the file has for its model, however the
\* data source deletes, re-creates and re-prices the model meanwhile
\* (requestcostmetadata Extract, lookupTokenPrices).
ChargedOnceAsListed ==
    \A s \in costed :
        /\ Event(s.req, "response") \in handled
        /\ \E f \in Files : f # Malformed /\ f[modelOf(s.req)] = s.prices /\ s.prices # None
        /\ \A t \in costed : t.req = s.req => t = s

\* Whenever the digest on a model changes to another one, the new one holds
\* every sample of the model so far, those from before the model was last
\* deleted and created again included: no flush loses costs
\* (requestcostmetadata Extract, the flush; the accumulator outlives the model).
FlushIsComplete ==
    [][\A m \in Models :
          store'[m].cost \notin {None, store[m].cost} =>
              store'[m].cost = {s \in costed : modelOf(s.req) = m}]_vars

\* "A registered Model is expected to have this attribute populated [...], so
\* consumers may read the key unconditionally" (pricing.go:35-37): when the
\* data source is at rest, with the file read and no file event pending, every
\* model in the datastore has its prices.
PricesAlwaysPresent ==
    source.pc = "idle" /\ watching /\ fsEvents = 0 =>
        \A m \in Models : store[m].live => store[m].prices # None
=============================================================================
