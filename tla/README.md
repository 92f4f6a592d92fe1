# Inference payload processor: TLA+ models, checks and proofs

The inference payload processor (IPP) is an Envoy external processor: for each
HTTP request Envoy opens a gRPC stream, sends it the request and the response
piece by piece, and the server answers with mutations of headers and bodies
computed by configurable plugins. Beside the streams runs a data layer that
watches requests and responses, counts them per model and publishes the counts,
the prices and the groups of models in an in-memory datastore, which the model
selector reads to decide where a request goes.

This directory holds TLA+ models of its parts, TLC configurations that check
them on small instances, and proofs checked by TLAPS for all instances.
`PROJECT.json` lists runs, mutants, the map from definitions to source lines,
findings, hazards and theorems.

## 1. Inventory

| Part | State | Operations | Interacts with | What makes it correct |
|---|---|---|---|---|
| Stream handlers (`pkg/handlers`) | per stream: request and response buffers, completion flags, `RequestContext`, responses to send | one handler per ext-proc message, error answer, send loop, end of stream | Envoy (messages in and out), plugins (calls), data layer (`Notify`) | answers in protocol order and to the end, bodies intact or replaced as a whole, Content-Length right, no header mutation lost, events in protocol and their messages not written again |
| Inference message (`requesthandling/types.go`) | headers, parsed body, record of set and removed headers, body flag | `SetHeader`, `RemoveHeader`, `SetBody`, `SetBodyField`, `RemoveBodyField` | shared by all plugins of a stream | the recorded mutation reproduces what plugins saw |
| Header plugins, `CycleState` | the selected model, per stream | body field to header, base model to header, selected model to response header | message, model selector, adapters store | proxy, backend and client are told of one model |
| Body chunking (`common/envoy/chunking.go`) | none | split a body at a limit | handlers | no byte lost, one EndOfStream, at the end |
| Processor (`datalayer/processor.go`) | flags, lists, wait group, event channel | register, `Start`, `Stop`, `Notify`, event loop, collector and data source goroutines | runner, streams, extractors | one goroutine per source, `Stop` waits and returns, `Notify` never blocks, an accepted event reaches every extractor |
| Datastore and attributes | map of models, attribute maps | get or create, delete, list, put, get | written by extractors and data sources, read by the selector | no update lost to a re-created model |
| Request metadata extractor | in-flight counts and token sums | `Extract` | event loop, datastore | counts right, drain |
| Request cost extractor | digest per model | `Extract`, flush | event loop, datastore | samples priced consistently, published |
| Model config data source | watcher | `Start`, `syncModels`, watch loop | models file, datastore | the datastore converges to the file |
| Adapters store and ConfigMap reconciler | adapter map, base model counters | add or update, delete, look up | Kubernetes, request plugin | mirrors the managed ConfigMaps through edits, as far as the code does |
| Model selector, filters, scorers, pickers | none of their own | select a model per request | datastore (snapshot) | goes where the request asked, best score wins |
| Session affinity | LRU cache with a time to live | score, record the response's model | shared by all streams | a session sticks to its model |
| Configuration loader | raw configuration, plugin instances, profiles, selector pipelines | defaults, instantiate, build profiles and processors, register sources, fill pipelines | runner, processor, model selectors | what is loaded satisfies what the handlers assume |
| Runner, gRPC server, metrics, tracing, logging | | start, serve, stop | everything | wiring and I/O |

What is hard here: Envoy re-delivers the last chunk, ends bodies with trailers,
or starts a response before the request is complete; header answers are
deferred and must be sent exactly once on one of several paths; the event
channel drops events when it is full; the data source deletes and re-creates
models while the event loop writes to them and selections read them;
registrations race with `Start` and `Stop`; ConfigMaps change faster than they
are reconciled; events carry pointers to messages that their stream still holds;
routing headers are copies of a model name that later plugins may change. `PROJECT.json` lists each of these under `hazards`, at its line.

## 2. Modules

| Module | Models | Checked by | Proved in |
|---|---|---|---|
| `InferenceMessage` | the mutation API, as operators | through the next two | |
| `PluginChain` | any chain of plugins on a request and its response's headers, the plugins that carry the model's name among them | `MCPluginChain` | `PluginChain_proofs` |
| `StreamEvents` | abstract: the events a stream passes to the data layer | implemented by `ExtProcStream`, used by `Datalayer` | `ExtProcStream_proofs` |
| `ChunkedBody` | the splitting loop and its closed form | an assumption of `MCExtProcStream` | |
| `ExtProcStream` | `Server.Process` and all handlers; extends `InferenceMessage` and `ChunkedBody` | `MCExtProcStream` | `ExtProcStream_proofs` |
| `Datalayer` | event channel and loop, in-flight and cost extractors, datastore, data source | `MCDatalayer` | `Datalayer_proofs` |
| `ProcessorLifecycle` | registration, `Notify`, `Start`, `Stop`, event loop and other goroutines | `MCProcessorLifecycle` | `ProcessorLifecycle_proofs` |
| `Selection` | the loops that keep some elements of a list | through the next two | `SequenceLemmas` |
| `ModelSelector` | the selector plugin, its pipeline, filter, scorers, pickers, session cache | `MCModelSelector` | `ModelSelector_proofs` |
| `ConfigLoader` | `LoadConfiguration`, defaults, `AddPlugins` | `MCConfigLoader` | `ConfigLoader_proofs` |
| `AdaptersStore` | store, reconciler, predicate, cluster | `MCAdaptersStore` | `AdaptersStore_proofs` |

`SequenceLemmas` holds what the proofs need of sequences and is used by three of
the proof modules.

How state and actions correspond to the code:

- **PluginChain.** A step is one call of the mutation API by an arbitrary plugin,
  or the whole of one of the plugins that move the model's name: model selector
  (body and `CycleState`; which model it picks is `ModelSelector`'s subject),
  body-field-to-header, base-model-to-header, model-name-to-header.
  `HandleResponseHeaders` turns to the response. `since` records which of them no
  other plugin has followed; a repeated selection starts it afresh.
- **StreamEvents.** Per stream at most one request event, then at most one
  response event, for one model. `ExtProcStream` implements it under the mapping
  `EventsAsRead`, which reads an event's model where the data layer does, through
  the pointer into the stream's request, at the time of reading: a second event, and
  a request that changes after it was announced, both break the refinement.
- **ExtProcStream.** The locals of `Process` are variables of the same names;
  `pending` is what a handler returned and the send loop has not sent, `out` what
  was sent. There is one `Recv...` action per message type, containing the whole
  case of the switch, and `Send` sends one response. Messages are received when
  `pending` is empty, as the loop is sequential. The i-th byte on the wire is
  the number i and a plugin's byte is 0, so lost, repeated and reordered bytes
  show. Plugins are arbitrary (`PluginEffects`, or an error). The profile is
  any that `LoadConfiguration` lets through (`profiles`). Header keys are compared
  as they are spelled, like the keys of the Go maps; the code's `Content-Length` and
  the proxy's `content-length` are two of them. The proxy's names are in lower case
  (`LowerCase`), so that both are one header to it: `ForwardedLengths` is what it may
  forward when a mutation has both.
- **Datalayer.** Each datastore or attribute call is a step, so the event loop
  and the data source interleave between any two. A model object is a name and a
  generation: writes of a goroutine that holds a deleted object go nowhere.
  What streams do is `StreamEvents`: its actions are conjuncts of
  `RequestForwarded` and `ResponseCompleted`, so that this module assumes of
  streams exactly what `ExtProcStream` is shown to implement. A file edit is a
  write in place (or a new file of that name), whose event names the file, or a
  remount of the ConfigMap it is a link into, whose events name something else.
  The cost extractor's find-and-read and find-and-put are one step each; the
  comments say why nothing is lost. Its digest is the set of its samples and a
  sample the prices and token counts that the code multiplies. Instead of the
  clock, any sample may be the one that finds the flush interval passed, which
  covers every interval. `max_tokens` is any integer, as the code takes any number
  the client sends.
- **ProcessorLifecycle.** What a call does under `p.mu` is one step; what it does
  after unlocking is another. `select` may take any ready case. Streams notify at
  any time, before `Start` and after the context is cancelled too; the event loop
  calls one extractor per step.
- **ModelSelector.** One stream is followed turn by turn, and each attribute read
  is a step; the data layer's goroutines and other streams' responses change
  attributes, models and the session cache in between. A score is a number of
  `Scale`-ths, rounded down; `FineEnough` says that they are fine enough to tell
  the sums of prices and the counts of the candidates apart. Missing prices panic, as the type assertion in the code does.
  Scorer weights are naturals. A pipeline has one session scorer at most, as the
  model has one session cache; each instance in the code has its own.
- **ConfigLoader.** One action per function of the loader, in their order; a
  `failed` load stays at the stage that returned the error. A plugin instance is
  its name, and a type assertion asks for the interfaces of its type. Only
  `buildModelSelector` depends on Go's map order, so profiles are visited in any
  order there. `FitsHandlers` is the condition that defines `profiles` in
  `ExtProcStream`: this module shows what that one assumes.
- **AdaptersStore.** The cluster and controller-runtime's queue are environment;
  a queued request is one entry of a set, as the work queue merges them. Get of
  a removed object leaves the ConfigMap empty, which is why nothing is deleted.
  The history variables `countedBase`, `skewed` and `contested` record the base
  model each ConfigMap was counted under, the base models whose counter a delete put
  wrong, and the adapters that two ConfigMaps claim.

Definitions named as mutants ("Mutant: ...") are plausible bugs; each property of
a passing run fails when one of them replaces the definition it varies.

## 3. Runs

| Run | Bounds | Shows |
|---|---|---|
| `chain` | 2 routing headers, 3 values (one empty), the model field with 3 values, 2 of them models | after any sequence of calls the mutation replays the plugins' view, an unmarked body is the client's, and body, routing headers, `CycleState` and the echoed header name one model |
| `stream` | bodies of up to 2 bytes, limit 1, 1 byte written, 1 re-delivery, 2 header keys | order, integrity, Content-Length, post-processors, header view, that an ended side is answered, that the stream implements `StreamEvents` and does not write a notified message; also, as an assumption, the chunking loop for lengths up to 12 and limits up to 6 |
| `stream_trailers` (violation) | 1 byte | a request body ended by trailers is never answered |
| `config` | 479 files: all pairs of 11 request lists, and of 6 response lists with 5 lists of post-processors; selectors under `preProcessing`; one file per error | loaded profiles fit the handlers; the selectors of profiles have a picker and their profiles' scorers, in every order, and others no picker |
| `config_picker` (violation) | the same | a `profilePicker` that resolves to nothing, or to something else, loads |
| `datalayer` | 2 requests of 2 and of 1 or -2 tokens, 2 models, channel of 1, 2 edits or remounts, 3 file contents (one malformed) | counts of requests and tokens exact but for dropped requests and, of tokens, a negative `max_tokens`, published counts current, costs charged once at listed prices and never lost by a flush, listed models keep prices and groups, convergence, counts drain |
| `datalayer_prices` (violation) | 1 request, 1 model | a registered model can be without prices |
| `processor` | 1 collector, 1 data source, 2 extractors, 2 events, channel of 1 | one goroutine per source, accepted events reach every extractor, `Stop` waits for what it can know of, and returns |
| `processor_stop` (violation) | 1 collector, 1 data source | a data source registered during `Stop` starts after it |
| `selector` | 2 names, 3 objects, 3 prices, 2 sessions, cache of 1, 2 turns, 2 changes, 4 pipelines | requests honoured, no dominated choice, sessions stick |
| `adapters` | 2 ConfigMaps, 2 adapters of which one may be on both lists, 2 base models, 7 edits, 8 contents (base model edited, missing, list malformed) | the store mirrors the cluster, counters exact, no phantom adapters, eventually served, each but for what the code loses (section 5) |
| `adapters_removed` (violation) | 3 edits | adapters of a removed ConfigMap keep resolving |

Why the bounds are enough for the question asked:

- `chain`: the state space is the whole reachable one; two headers are enough for
  a call on one key to disturb another, two models for a selection that replaces
  another, and the empty value is the one body-field-to-header treats apart.
- `stream`: two bytes give bodies in one or two chunks and with an empty last
  chunk; limit 1 makes a two-byte body two responses; a header value that
  plugins write and one that is the right length tell a stale Content-Length; plugins
  set and remove the proxy's spelling of it, beside which the code writes its own.
  Chunking lengths are below, at and above one and two multiples of each limit.
- `config`: two profiles are the least that can share a selector or a name, and
  the request lists hold no, one and two pickers, one and two selectors, and a
  selector listed twice; a selector under `preProcessing` is used by a profile or by
  none; every error return of the loader has a file.
- `datalayer`: one slot in the channel makes every second event droppable; two
  edits give a model that is removed and listed again, so that objects of two
  generations exist while the event loop holds one; two requests on one model
  give a dropped request whose response decrements the other's count, by more
  tokens than are left or by fewer, and two flushes of one digest; a request with a
  negative `max_tokens` counts below zero and is floored. One usage report is usable,
  one is hidden by a broken one of another provider.
- `processor`: a source races with `Start` and `Stop` and not with the other
  sources, for any number of which `OneGoroutine` and `StopIsQuiet` are proved; two
  extractors let one fail before the other; two events fill a channel of one.
- `selector`: two changes allow a deletion and re-registration, or a change in
  each of the cost scorer's two loops; two turns allow a session to be
  recorded and followed. Objects of one name and sessions are symmetric; only
  invariants are checked, so the symmetry is sound.
- `adapters`: seven edits create both ConfigMaps and edit the base model of one,
  share an adapter, relabel, break, mark or remove them; a delete after an edit that
  skews two counters, and an update that repairs a contested adapter, fit in. Without
  any one of the exceptions in the properties TLC finds them violated on this instance.

Streams, processors, clusters and the loader may come to rest, so deadlock is not an error
except in `chain`, where a plugin can always make another call.

**Fairness.** `stream`: `Send` only, since the goroutine of a stream keeps
running; nothing is assumed of Envoy. `datalayer`: the event loop and the data
source's goroutine; streams and edits need not happen. `processor`: goroutines,
a poll, and a data source's `Start` and `Stop` go on (weak), and a collector's
`ctx.Done` case is not passed over for ever (strong: `select` picks among ready
cases at random and the timer competes with it); likewise the event loop's
`ctx.Done` case, with which events compete, while an event that is received is
handed to the extractors, and one that waits is received (weak). Nobody is obliged to call
`Start` or `Stop`. `adapters`: controller-runtime serves queued requests.

## 4. Proofs

All for arbitrary constants satisfying the named assumptions.

- **PluginChain_proofs** (`NoValueAssumption`, `ChainAssumption`). `ChainInv`
  states, per header, that the record of set and removed headers applied to the
  wire header is the plugins' header. Without disjointness of set and removed the
  replay is not inductive, so both are proved together: `ChainReplays`; also
  `ChainTypeCorrect` and `ChainBodySound`. `ChainNamesAgree` rests on both: with
  them what the proxy forwards is the plugins' view, and what is left is that each
  plugin in `since` finds the body as it left it.
- **SequenceLemmas** (no assumption). What `FlattenSeq` and `Selected` compute on
  every list. The library's induction theorems take an operator and cannot be
  instantiated by the provers; `SetInduction` and `SequenceInduction` take a set
  instead (the numbers, or sequences, of which the claim is true), are derived from
  the least number of a set of naturals, and serve for every induction over data in
  this project: concatenated bodies, filtered lists, total weights, counts of
  occurrences. Recursive functions are first shown to exist, by the same induction.
- **ExtProcStream_proofs** (`NoValueAssumption`, `StreamAssumption`), in three parts.
  - *Types and events*: `StreamTypeCorrect`, `StreamPayloadFrozen` and the refinement
    `StreamImplementsEvents`. Neither follows from the types: `StreamInv` adds that
    a fired event means a complete body on its side, that the buffer and the sides
    agree with the completion flags, and that the sequence of events has one of the
    four shapes the protocol allows. A step that fires an event maps to the abstract
    action, every other one to a stutter, because no step writes a request that was
    announced: the guard on re-delivered chunks in `Process` is what keeps that.
    The order of the two events also rests on Envoy, which sends no more of a request
    once its response has started (the guards of `RecvRequestBody`): the code itself
    would process a request body that ends after the response.
  - *Answers*: `StreamOutputOrder`, `StreamHeadersCarryView`, `StreamPostProcessorsRun`.
    Sent and pending responses are one list, the answers. `OrderInv` says what of it
    there can be while a side is idle or open (no last chunk, and header answers
    exactly when `ResponseHeadersSent`), which is what lets a handler add to it;
    `ViewInv` is the replay of `ChainInv` for both messages; `PostInv` ties a
    processed request to a profile that buffers for the post-processors.
  - *Bodies*: `StreamBodyIntact`, `StreamContentLength`. `BodyInv`: the buffers hold
    the bytes received (all of them, in order, and no more when the last chunk comes
    twice), what was streamed so far is the body so far, and once a last chunk is
    among the answers the bytes of the side are whole. The chunks of a body, for every
    limit, concatenate to the body with EndOfStream on the last, and
    `LoopComputesChunks`: the loop as the code has it, a recursive function of its
    starting index, computes these chunks for every body and every positive limit.
    `WireInv`, that the proxy's headers never have the code's own key, makes the
    length the code sets the one in the mutation; `StreamAssumption` takes from Envoy
    that its header names are in lower case.
- **Datalayer_proofs** (`DatalayerAssumption`). `DatalayerInv` has one part per actor:
  `ChannelInv`, the channel against what was sent, handled and dropped, a request
  before its response; `LoopInv`, what the event loop works on was received, and a
  response it has not taken past the cost extractor has no sample; `PublishInv`,
  `PublishedCountIsCurrent` with the fact that a model which replaced the one the loop
  looked up has no count yet; `SourceInv`, the source works from a version of the file,
  on the object it looked up, and deletes only what is not listed; `CostInv`, a model's
  digests hold all its samples. `CountInv` adds to `InFlightCount` that the outstanding
  requests and tokens are finite, without which their number means nothing. `max_tokens`
  is any integer: the token sums of a model are what `InFlightCount` says until a
  negative one is handled for it, and only its requests afterwards.
  From it `DatalayerTypeCorrect`, `DatalayerInFlight`, `DatalayerPublished`,
  `DatalayerSynced`, `DatalayerCharged` and the action property `DatalayerFlushes`.
- **ProcessorLifecycle_proofs** (`SourcesAssumption`). `LifecycleInv`: the wait
  group is the number of live goroutines; a source is spawned, in Start's
  snapshot, or between unlock and spawn, and never two of these; and after `Stop` took
  its decision with `Start` out of the way nothing the wait group let through
  runs, the event loop included. From it `LifecycleTypeCorrect`, `OneGoroutine` and
  `StopIsQuiet`.
- **ModelSelector_proofs** (`SelectorAssumption`). `SelectorInv` is `TypeOK` with
  `TurnInv` (the candidates are distinct, and where the scorers' loops stand),
  `AskedInv` (what the filter left is what was asked for, part of a group so far),
  `CacheInv` (sessions occur once, with the model recorded last) and `ScoreInv`: after
  some scorers, a model's score is between the session's part and that plus `Scale`
  times the weights of the others, also in the middle of the cost scorer's second
  loop. From it `SelectorTypeCorrect`, `SelectorForwardsWhatWasAsked` and
  `SelectorSessionSticks`. `ScoreInv` is where `enforceScoreRange` is needed.
  `SelectorNotDominated` assumes `FineEnough` (every price and count, times the number
  of models, is within `Scale`; the run's instance is shown to satisfy it) and needs
  two parts more. `RankInv`: while nothing changes, the scores after some scorers put
  the candidates in an order that agrees with each of them that has a weight, and the
  cost scorer's second loop has added its part to the candidates behind it.
  `ReadInv`: what a scorer's loop has read is what is there, the sum of prices is at
  least each of them and at most `Scale`. `Quotients` is the arithmetic: fractions of
  a divisor up to `Scale`, rounded down, are in the order of their numerators.
- **ConfigLoader_proofs** (`LoaderAssumption`). `LoaderInv`: from `buildProfiles` to the
  post-processors a profile does not mix and buffers exactly for its own response
  plugins (`AsBuilt`), afterwards it `FitsHandlers`. `ProfilesFitHandlers` itself
  speaks of the last stage only. `LoadedProfilesFitHandlers` follows. `LoaderTypes`
  gives `LoaderTypeCorrect`. For the pipelines, `PipelineInv` follows the loop of
  `buildModelSelector` in whatever order profiles come: the scorers of a pipeline and
  the uses still to do in the current profile make up the uses of the profiles
  reached (`ScoreInv`), and a selector has no picker, the default or a configured one
  as no profile has started it, none of those that have lists a picker, or one does
  (`PickInv`). From it `LoadedSelectorPickers`, `LoadedPipelinesScore` and
  `UnsharedSelectorsLoad`.
- **AdaptersStore_proofs** (`AdaptersAssumption`: finitely many ConfigMaps; nothing is
  assumed of their contents). `StoreTypeCorrect` and `StoreNoPhantomAdapters`: each
  mapping is backed by a recorded list. `StoreBaseModelCounts` needs that exactly the
  recorded ConfigMaps have a base model they are counted under (`RecordedCounted`).
  `StoreMirrors` needs `MirrorInv`: an adapter on two recorded lists is contested,
  what is gone is forgotten, and what has no request pending is recorded as it is,
  its uncontested adapters mapped to its base model.

Only model-checked: everything temporal beyond invariants and action properties
(`EndedSideIsAnswered`, `EventuallyInSync`, `CountsDrain`, `StopReturns`,
`AcceptedEventsExtracted`, `EventuallyServed`): liveness is out of the prover's reach.

## 5. Where code and documentation disagree

Five runs end in a violation; `PROJECT.json` quotes the lines:

1. A request body ended by trailers is buffered and never processed.
2. A profile picker that is not declared, or not a profile picker, is logged and
   the error overwritten: the configuration loads with a nil picker.
3. Any model name a client sends becomes a registered model without prices,
   although consumers "may read the key unconditionally". The cost scorer does,
   and panics (`SumPrices` in `ModelSelector`).
4. `RegisterDatasource` calls `wg.Add` after unlocking, so `Stop` can return first.
5. The reconciler deletes by the name of an empty object when a ConfigMap is gone.

Seen while modelling, without a run of their own:

- `docs/architecture.md` says the response event fires at the start of the
  response, before its plugins; the code fires it at EndOfStream.
- An edit of the models file between the first read and `watcher.Add` is not
  seen (`EventuallyInSync` excludes exactly that with `missed`).
- `modelconfigcollector/plugin.go:120-121` says that the directory is watched "to
  handle atomic rename-based replacements such as Kubernetes ConfigMap remounts";
  a remount swaps the `..data` link beside the file, so its events have another
  name than the file's and are passed over. The next edit in place makes it good.
- On a termination signal the context given to `Start` is cancelled while the gRPC
  server still lets its streams finish: the events of those streams are not
  extracted (`AcceptedEventsExtracted` ends with the context). Nothing is persisted,
  so that nothing else depends on them.
- body-field-to-header leaves a routing header that the client sent in place when
  the body has no model, or an empty one (`ModelNamesAgree` excludes it).
- A response whose request event was dropped takes its tokens off those of other
  requests, down to zero: `InFlightCount` bounds the sums from above only then.
- A ConfigMap whose `baseModel` is edited is not counted under the new name
  (`adapters_store.go:91-98`): its adapters resolve to the new base model, and a
  request for that base model itself gets an empty header, although changes are loaded
  "at runtime" (`docs/configuration.md:193`) and a base model resolves to itself
  (`:221`). Deleting such a ConfigMap leaves the old base model counted, so that it
  resolves for good, and discounts the new one, to -1 if it had no counter
  (`:123-131`; nothing is discounted when `baseModel` was dropped).
  `docs/configuration.md:227-230` asks for unique names and one ConfigMap per base
  model, not that a ConfigMap keep its own. `BaseModelCounts` and `Serves` except these.
- Two ConfigMaps listing one adapter, which the docs advise against: updating or
  deleting one removes the other's mapping. `Serves` leaves such adapters out.
- A negative `max_tokens` is added to the sum of a model as it is and taken off with a
  floor (`requestmetadata/plugin.go:97-116`): -5 and 3 make the published sum -5, then
  -2; the response to the second floors it to 0 where -5 is outstanding, and the
  response to the first leaves 5 for good. `InFlightCount` and `CountsDrain` except the
  token sums of models for which this happened.
- A plugin that sets or removes `content-length`, the key under which the proxy sends
  the header, does not touch the code's own `Content-Length`
  (`server.go:45`, `request.go:92-95`; the maps of `types.go:45-59` are case-sensitive):
  the mutation then has two entries for one header, in the random order of
  `headers.go:49-61`, and the proxy forwards the one it applies last.
  `ContentLengthMatchesBody` excepts this case. No plugin of the repository does so.
- A model selector listed under `preProcessing` loads (`configloader.go:286-306`) and
  runs on every request (`request.go:71`), but `buildModelSelector` (`:343-355`) ranges
  over profiles only, so that it has no scorers and a nil picker, which
  `runPickerPlugin` calls (`model_selector_pipeline.go:261`). `SelectorPickers` states it.
- In-flight counts leak when a stream ends without a response event (the
  extractor's TODO); `InFlightCount` counts such requests as outstanding.
- The docs say that preProcessing and postProcessing are "not yet invoked"
  (`docs/configuration.md:68`, `:71`, `docs/plugins.md:79-80`,
  `docs/architecture.md:105-107`, `:128-130`); both are.
- `pkg/config/config.go` says that body post-processors are "always invoked on the
  whole body of the response"; the response to a request whose body was not
  processed (no body, a local reply) runs with the empty profile and skips them.
  `PostProcessorsRun` states what holds.
- The session scorer's README says that it records the selected model; the code
  records the model the response body names, which may be another one.
- Two profiles that share a model-selector plugin add to one pipeline, in map
  order: when one lists a picker and the other does not, the default picker of the
  second makes the first's an error if it comes later, so the same file loads or
  not by chance. `UnsharedSelectorVerdict` states what holds.
- Profiles of one name replace each other without an error.
- Filters, scorers and pickers in a profile without a model selector are ignored.

## 6. Not modelled

Timestamps, metrics, tracing and log output; the JSON text of bodies (a body is a
map of fields and a number of bytes; a body that is the literal `null` is left
out); the case of header names other than Content-Length (`PluginChain` reads a
mutation key by key); the t-digest's compression; the parsing of
plugin parameters in the factories, those of the cost guard stub included (the
loader's model takes the answer as a yes or no); the truncation of a fractional
`max_tokens` and the 64 bits of the sums; the keys of `CycleState` other than the
selected model; the runner, gRPC server, health and TLS code (wiring and I/O: its
order of calls is the environment of `ProcessorLifecycle`); collectors with a
non-positive frequency (rejected without effect); floating-point rounding in
scores, in particular underflow in the weighted-random picker's keys; negative
scorer weights.

## 7. Plan

The parts of the system that have state of their own are modelled, and every
invariant and action property that a passing run checks is proved. What is left is to
relax the two bounds in the assumptions of the proofs that the code does not have: one
session scorer in a pipeline (`SelectorAssumption`), and one stream in
`ModelSelector`, whose other streams are changes of the cache and of the attributes.
