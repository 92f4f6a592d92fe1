-------------------------- MODULE Datalayer_proofs --------------------------
(***************************************************************************)
(* The data layer for every number of streams, models and file versions,   *)
(* every capacity of the channel and every interleaving of the streams,    *)
(* the event loop and the data source.                                     *)
(*                                                                         *)
(* The invariant has one part per actor: what the channel holds against    *)
(* what was sent and handled, what the event loop is working on, what the  *)
(* data source has put into the datastore, and the costs.                  *)
(***************************************************************************)
EXTENDS Datalayer, FiniteSetTheorems, TLAPS

-----------------------------------------------------------------------------
(***************************************************************************)
(* The datastore's operations.                                             *)
(***************************************************************************)
\* GetOrCreateModel keeps a live model as it is and replaces an absent one by an
\* empty object; the others are not touched.
LEMMA GetOrCreateEffect ==
    ASSUME store \in [Models -> Attributes], NEW m \in Models
    PROVE  /\ GetOrCreateModel(m) \in [Models -> Attributes]
           /\ GetOrCreateModel(m)[m].live
           /\ store[m].live => GetOrCreateModel(m) = store
           /\ ~store[m].live => /\ GetOrCreateModel(m)[m].prices = None
                                /\ GetOrCreateModel(m)[m].inflight = None
                                /\ GetOrCreateModel(m)[m].cost = None
           /\ \A k \in Models \ {m} : GetOrCreateModel(m)[k] = store[k]
<1>1. store[m].gen + 1 \in Nat
    BY DEF Attributes
<1> DEFINE new == NewModel(store[m].gen + 1)
<1>2. /\ new \in Attributes /\ new.live
      /\ new.prices = None /\ new.inflight = None /\ new.cost = None
    BY <1>1 DEF NewModel, Attributes
<1> HIDE DEF new
<1>3. GetOrCreateModel(m) = IF store[m].live THEN store ELSE [store EXCEPT ![m] = new]
    BY DEF GetOrCreateModel, new
<1> QED
    BY <1>2, <1>3

\* Put of an attribute changes that attribute of that object, when the object is
\* still in the datastore, and nothing else: here the prices ...
LEMMA PutPricesEffect ==
    ASSUME store \in [Models -> Attributes], NEW m \in Models, NEW gen, NEW value \in Entries \cup {None},
           store' = Put(m, gen, "prices", value)
    PROVE  /\ store' \in [Models -> Attributes]
           /\ \A k \in Models \ {m} : store'[k] = store[k]
           /\ ~(store[m].live /\ store[m].gen = gen) => store' = store
           /\ store[m].live /\ store[m].gen = gen => store'[m].prices = value
           /\ store'[m].live = store[m].live
           /\ store'[m].gen = store[m].gen
           /\ store'[m].groups = store[m].groups
           /\ store'[m].inflight = store[m].inflight
           /\ store'[m].cost = store[m].cost
<1>1. CASE ~(store[m].live /\ store[m].gen = gen)
    BY <1>1 DEF Put
<1>2. CASE store[m].live /\ store[m].gen = gen
  <2> DEFINE new == [store[m] EXCEPT !.prices = value]
  <2>1. store' = [store EXCEPT ![m] = new]
      BY <1>2 DEF Put
  <2>2. store[m] \in Attributes
      OBVIOUS
  <2>3. /\ new \in Attributes /\ new.prices = value
        /\ new.live = store[m].live /\ new.gen = store[m].gen /\ new.groups = store[m].groups
        /\ new.inflight = store[m].inflight /\ new.cost = store[m].cost
      BY <2>2 DEF Attributes
  <2> HIDE DEF new
  <2>4. store' \in [Models -> Attributes] /\ store'[m] = new /\ \A k \in Models \ {m} : store'[k] = store[k]
      BY <2>1, <2>3
  <2> QED
      BY <1>2, <2>3, <2>4
<1> QED
    BY <1>1, <1>2

\* ... the group membership ...
LEMMA PutGroupsEffect ==
    ASSUME store \in [Models -> Attributes], NEW m \in Models, NEW gen, NEW value \in Entries \cup {None},
           store' = Put(m, gen, "groups", value)
    PROVE  /\ store' \in [Models -> Attributes]
           /\ \A k \in Models \ {m} : store'[k] = store[k]
           /\ ~(store[m].live /\ store[m].gen = gen) => store' = store
           /\ store[m].live /\ store[m].gen = gen => store'[m].groups = value
           /\ store'[m].live = store[m].live
           /\ store'[m].gen = store[m].gen
           /\ store'[m].prices = store[m].prices
           /\ store'[m].inflight = store[m].inflight
           /\ store'[m].cost = store[m].cost
<1>1. CASE ~(store[m].live /\ store[m].gen = gen)
    BY <1>1 DEF Put
<1>2. CASE store[m].live /\ store[m].gen = gen
  <2> DEFINE new == [store[m] EXCEPT !.groups = value]
  <2>1. store' = [store EXCEPT ![m] = new]
      BY <1>2 DEF Put
  <2>2. store[m] \in Attributes
      OBVIOUS
  <2>3. /\ new \in Attributes /\ new.groups = value
        /\ new.live = store[m].live /\ new.gen = store[m].gen /\ new.prices = store[m].prices
        /\ new.inflight = store[m].inflight /\ new.cost = store[m].cost
      BY <2>2 DEF Attributes
  <2> HIDE DEF new
  <2>4. store' \in [Models -> Attributes] /\ store'[m] = new /\ \A k \in Models \ {m} : store'[k] = store[k]
      BY <2>1, <2>3
  <2> QED
      BY <1>2, <2>3, <2>4
<1> QED
    BY <1>1, <1>2

\* ... and the count of requests in flight.
LEMMA PutInflightEffect ==
    ASSUME store \in [Models -> Attributes], NEW m \in Models, NEW gen, NEW value \in Counts,
           store' = Put(m, gen, "inflight", value)
    PROVE  /\ store' \in [Models -> Attributes]
           /\ \A k \in Models \ {m} : store'[k] = store[k]
           /\ ~(store[m].live /\ store[m].gen = gen) => store' = store
           /\ store[m].live /\ store[m].gen = gen => store'[m].inflight = value
           /\ store'[m].live = store[m].live
           /\ store'[m].gen = store[m].gen
           /\ store'[m].prices = store[m].prices
           /\ store'[m].groups = store[m].groups
           /\ store'[m].cost = store[m].cost
<1>1. CASE ~(store[m].live /\ store[m].gen = gen)
    BY <1>1 DEF Put
<1>2. CASE store[m].live /\ store[m].gen = gen
  <2> DEFINE new == [store[m] EXCEPT !.inflight = value]
  <2>1. store' = [store EXCEPT ![m] = new]
      BY <1>2 DEF Put
  <2>2. store[m] \in Attributes
      OBVIOUS
  <2>3. /\ new \in Attributes /\ new.inflight = value
        /\ new.live = store[m].live /\ new.gen = store[m].gen /\ new.prices = store[m].prices
        /\ new.groups = store[m].groups /\ new.cost = store[m].cost
      BY <2>2 DEF Attributes
  <2> HIDE DEF new
  <2>4. store' \in [Models -> Attributes] /\ store'[m] = new /\ \A k \in Models \ {m} : store'[k] = store[k]
      BY <2>1, <2>3
  <2> QED
      BY <1>2, <2>3, <2>4
<1> QED
    BY <1>1, <1>2

\* DeleteModel leaves an empty object that is no longer reachable.
LEMMA DeleteEffect ==
    ASSUME store \in [Models -> Attributes], NEW m \in Models
    PROVE  /\ DeleteModel(m) \in [Models -> Attributes]
           /\ ~DeleteModel(m)[m].live /\ DeleteModel(m)[m].prices = None
           /\ DeleteModel(m)[m].cost = None
           /\ \A k \in Models \ {m} : DeleteModel(m)[k] = store[k]
<1>1. NewModel(store[m].gen) \in Attributes /\ NewModel(store[m].gen).prices = None
      /\ NewModel(store[m].gen).cost = None
    BY DEF NewModel, Attributes
<1>2. ASSUME NEW x \in Attributes
      PROVE  /\ [x EXCEPT !.live = FALSE] \in Attributes
             /\ ~[x EXCEPT !.live = FALSE].live
             /\ [x EXCEPT !.live = FALSE].prices = x.prices
             /\ [x EXCEPT !.live = FALSE].cost = x.cost
    BY DEF Attributes
<1> DEFINE empty == [NewModel(store[m].gen) EXCEPT !.live = FALSE]
<1>3. empty \in Attributes /\ ~empty.live /\ empty.prices = None /\ empty.cost = None
    BY <1>1, <1>2
<1>4. DeleteModel(m) = [store EXCEPT ![m] = empty]
    BY DEF DeleteModel
<1> HIDE DEF empty
<1> QED
    BY <1>3, <1>4

\* A flush puts the digest on the model, found or created.
LEMMA FlushEffect ==
    ASSUME store \in [Models -> Attributes], NEW m \in Models, NEW digest \in SUBSET Samples,
           store' = [GetOrCreateModel(m) EXCEPT ![m].cost = digest]
    PROVE  /\ store' \in [Models -> Attributes]
           /\ \A k \in Models \ {m} : store'[k] = store[k]
           /\ store'[m].cost = digest
           /\ store'[m].live /\ store'[m].gen = GetOrCreateModel(m)[m].gen
           /\ store'[m].prices = GetOrCreateModel(m)[m].prices
           /\ store'[m].groups = GetOrCreateModel(m)[m].groups
           /\ store'[m].inflight = GetOrCreateModel(m)[m].inflight
<1> DEFINE found == GetOrCreateModel(m)
           new == [found[m] EXCEPT !.cost = digest]
<1> HIDE DEF found
<1>1. /\ found \in [Models -> Attributes] /\ found[m] \in Attributes /\ found[m].live
      /\ \A k \in Models \ {m} : found[k] = store[k]
    BY GetOrCreateEffect DEF found
<1>2. store' = [found EXCEPT ![m] = new]
    BY DEF found
<1>3. /\ new \in Attributes /\ new.cost = digest /\ new.live /\ new.gen = found[m].gen
      /\ new.prices = found[m].prices /\ new.groups = found[m].groups
      /\ new.inflight = found[m].inflight
    BY <1>1 DEF Attributes
<1> HIDE DEF new
<1>4. /\ store' \in [Models -> Attributes] /\ store'[m] = new
      /\ \A k \in Models \ {m} : store'[k] = store[k]
    BY <1>1, <1>2, <1>3
<1> QED
    BY <1>3, <1>4 DEF found

-----------------------------------------------------------------------------
(***************************************************************************)
(* The inductive invariant.                                                *)
(***************************************************************************)
\* The events that streams passed to Notify, and those in the channel.
Sent == {e \in Events : \E i \in DOMAIN notified[e.req] : notified[e.req][i].type = e.type}
Queued == {ch[i] : i \in DOMAIN ch}

\* What is in the channel was sent, once, is not handled yet, and a request is in
\* it before its response; an event that was handled or dropped was sent, and a
\* request that was sent is somewhere.
ChannelInv ==
    /\ \A i, j \in DOMAIN ch : ch[i] = ch[j] => i = j
    /\ Queued \cap (handled \cup dropped) = {}
    /\ \A e \in Queued : e.type = "request" => Event(e.req, "response") \notin handled
    /\ \A i, j \in DOMAIN ch :
          ch[i].req = ch[j].req /\ ch[i].type = "request" /\ ch[j].type = "response" => i < j
    /\ Queued \cup handled \cup dropped \subseteq Sent
    /\ \A e \in Sent : e.type = "request" => e \in Queued \cup handled \cup dropped
    /\ \A r \in Requests : modelOf(r) # None => Event(r, "request") \in Sent

\* What the event loop works on is an event it received, of a request that names
\* a model; a response that is not yet past the cost extractor has no sample.
LoopInv ==
    /\ loop.pc # "idle" => /\ loop.event \in handled
                           /\ eventModel \in Models
    /\ loop.pc \in {"cost", "flush"} => loop.event.type = "response"
    /\ loop.pc \in {"lookup", "put", "cost"} /\ loop.event.type = "response" =>
          \A s \in costed : s.req # loop.event.req

\* A model that took the place of the one the event loop looked up has no count.
PublishInv ==
    /\ PublishedCountIsCurrent
    /\ loop.pc = "put" /\ store[eventModel].live /\ store[eventModel].gen # loop.gen =>
          store[eventModel].inflight = None

\* Some version of the file lists these prices for the model.
Listed(m, prices) == \E f \in Files : f # Malformed /\ f[m] = prices

\* The data source works from a version of the file; the model it is at is the
\* object it looked up, since no one else deletes; it deletes only what that
\* version does not list.
SourceInv ==
    /\ file \in Files
    /\ source.pc \in {"register", "prices", "groups", "delete", "idle"} =>
          source.desired \in Files /\ source.desired # Malformed
    /\ source.pc \in {"prices", "groups"} =>
          store[source.model].live /\ store[source.model].gen = source.gen
    /\ source.pc = "groups" => store[source.model].prices = source.desired[source.model]
    /\ source.pc = "delete" => \A m \in source.todo : source.desired[m] = None
    /\ SyncedModelsServed
    /\ \A m \in Models : store[m].prices # None => Listed(m, store[m].prices)

\* Each model's digest holds the samples of its requests, all of them.
CostInv ==
    /\ \A s \in costed : modelOf(s.req) \in Models
    /\ \A m \in Models : digests[m] = {s \in costed : modelOf(s.req) = m}
    /\ ChargedOnceAsListed

DatalayerInv == TypeOK /\ ChannelInv /\ LoopInv /\ PublishInv /\ SourceInv /\ CostInv

-----------------------------------------------------------------------------
(***************************************************************************)
(* The streams.                                                            *)
(***************************************************************************)
Notices == [type : {"request", "response"}, model : Models \cup {None}]
NotifiedType == Seq(Notices)

\* A request event is the first its stream sends, and settles the model.
LEMMA RequestNotified ==
    ASSUME notified \in [Requests -> NotifiedType], NEW r \in Requests, NEW m \in Models \cup {None},
           Stream!NotifyRequest(r, m)
    PROVE  /\ notified' \in [Requests -> NotifiedType]
           /\ modelOf(r) = None /\ \A e \in Sent : e.req # r
           /\ Sent' = Sent \cup {Event(r, "request")}
           /\ \A k \in Requests \ {r} : modelOf(k)' = modelOf(k)
<1> DEFINE sent == <<Stream!Event("request", m)>>
<1>1. notified[r] = <<>> /\ notified' = [notified EXCEPT ![r] = sent]
    BY DEF Stream!NotifyRequest
<1>2. sent \in NotifiedType /\ DOMAIN sent = {1} /\ sent[1].type = "request"
    BY DEF Notices, NotifiedType, Stream!Event
<1>3. notified'[r] = sent /\ \A k \in Requests \ {r} : notified'[k] = notified[k]
    BY <1>1
<1> HIDE DEF sent
<1>4. Sent' = Sent \cup {Event(r, "request")}
    BY <1>1, <1>2, <1>3 DEF Sent, Events, Event
<1> QED
    BY <1>1, <1>2, <1>3, <1>4 DEF modelOf, Sent, Stream!requestModel

\* A response event is the only one of its stream, and leaves the model as it is.
LEMMA ResponseNotified ==
    ASSUME notified \in [Requests -> NotifiedType], NEW r \in Requests, Stream!NotifyResponse(r)
    PROVE  /\ notified' \in [Requests -> NotifiedType]
           /\ Event(r, "response") \notin Sent
           /\ Sent' = Sent \cup {Event(r, "response")}
           /\ \A k \in Requests : modelOf(k)' = modelOf(k)
<1> DEFINE last == Stream!Event("response", Stream!requestModel(r))
<1>1. /\ \A i \in DOMAIN notified[r] : notified[r][i].type # "response"
      /\ notified' = [notified EXCEPT ![r] = Append(@, last)]
    BY DEF Stream!NotifyResponse
<1>2. notified[r] \in NotifiedType
    OBVIOUS
<1>3. Stream!requestModel(r) \in Models \cup {None}
  <2>1. CASE notified[r] = <<>>
      BY <2>1 DEF Stream!requestModel
  <2>2. CASE notified[r] # <<>>
    <3>1. notified[r][1] \in Notices
      <4>1. Len(notified[r]) # 0
          BY <1>2, <2>2 DEF NotifiedType
      <4>2. 1 \in 1..Len(notified[r])
          BY <1>2, <4>1 DEF NotifiedType
      <4> QED
          BY <1>2, <4>2 DEF NotifiedType
    <3> QED
        BY <2>2, <3>1 DEF Stream!requestModel, Notices
  <2> QED
      BY <2>1, <2>2
<1>4. /\ last \in Notices
      /\ last.type = "response" /\ last.model = Stream!requestModel(r)
    BY <1>3 DEF Stream!Event, Notices
<1> HIDE DEF last
<1>5. /\ Append(notified[r], last) \in NotifiedType
      /\ Len(Append(notified[r], last)) = Len(notified[r]) + 1
      /\ \A i \in 1..Len(notified[r]) : Append(notified[r], last)[i] = notified[r][i]
      /\ Append(notified[r], last)[Len(notified[r]) + 1] = last
    BY <1>2, <1>4 DEF NotifiedType
<1>6. notified'[r] = Append(notified[r], last) /\ \A k \in Requests \ {r} : notified'[k] = notified[k]
    BY <1>1
<1>7. DOMAIN notified[r] = 1..Len(notified[r]) /\ Len(notified[r]) \in Nat
      /\ DOMAIN notified'[r] = 1..(Len(notified[r]) + 1)
    BY <1>2, <1>5, <1>6 DEF NotifiedType
<1>8. Event(r, "response") \in Events /\ Event(r, "response").req = r
      /\ Event(r, "response").type = "response"
    BY DEF Event, Events
<1>9. Sent' = Sent \cup {Event(r, "response")}
  <2>1. ASSUME NEW e \in Events, e.req # r PROVE e \in Sent' <=> e \in Sent
    <3>1. notified'[e.req] = notified[e.req]
        BY <2>1, <1>6 DEF Events
    <3> QED
        BY <3>1 DEF Sent
  <2>2. ASSUME NEW e \in Events, e.req = r, e.type # "response" PROVE e \in Sent' <=> e \in Sent
    <3>1. \A i \in DOMAIN notified[r] : i \in DOMAIN notified'[r] /\ notified'[r][i] = notified[r][i]
        BY <1>5, <1>6, <1>7
    <3>2. \A i \in DOMAIN notified'[r] : i \in DOMAIN notified[r] \/ notified'[r][i].type = "response"
        BY <1>4, <1>5, <1>6, <1>7
    <3> QED
        BY <2>2, <3>1, <3>2 DEF Sent
  <2>3. ASSUME NEW e \in Events, e.req = r, e.type = "response" PROVE e = Event(r, "response")
      BY <2>3 DEF Events, Event
  <2>4. Event(r, "response") \in Sent'
      BY <1>4, <1>5, <1>6, <1>7, <1>8 DEF Sent
  <2>5. Sent \subseteq Events /\ Sent' \subseteq Events
      BY DEF Sent, Events
  <2> QED
      BY <2>1, <2>2, <2>3, <2>4, <2>5, <1>8
<1>10. modelOf(r)' = modelOf(r)
  <2>1. notified'[r] # <<>>
      BY <1>7
  <2>2. CASE notified[r] = <<>>
    <3>1. notified'[r][1] = last
        BY <2>2, <1>5, <1>6
    <3> QED
        BY <2>1, <2>2, <3>1, <1>4 DEF modelOf, Stream!requestModel
  <2>3. CASE notified[r] # <<>>
    <3>1. Len(notified[r]) >= 1
        BY <2>3, <1>2 DEF NotifiedType
    <3>2. notified'[r][1] = notified[r][1]
        BY <1>5, <1>6, <1>7, <3>1
    <3> QED
        BY <2>1, <2>3, <3>2 DEF modelOf, Stream!requestModel
  <2> QED
      BY <2>2, <2>3
<1>11. \A k \in Requests \ {r} : modelOf(k)' = modelOf(k)
    BY <1>6 DEF modelOf, Stream!requestModel
<1>12. notified' \in [Requests -> NotifiedType]
    BY <1>1, <1>5
<1> QED
    BY <1>1, <1>8, <1>9, <1>10, <1>11, <1>12 DEF Sent

\* The channel as a set and as a sequence.
LEMMA QueuedFacts ==
    ASSUME ch \in Seq(Events)
    PROVE  /\ Queued \subseteq Events
           /\ DOMAIN ch = 1..Len(ch) /\ Len(ch) \in Nat
           /\ \A i \in DOMAIN ch : ch[i] \in Queued
BY DEF Queued

\* Notify puts a new event at the end of the channel or drops it; either way the
\* channel, and what happened to each event, stay accounted for.
LEMMA NotifyAccounted ==
    ASSUME TypeOK, ChannelInv, NEW e \in Events, Notify(e), UNCHANGED handled,
           e \notin Sent, Sent' = Sent \cup {e},
           e.type = "request" => \A x \in Sent : x.req # e.req,
           \A k \in Requests : modelOf(k)' # None => Event(k, "request") \in Sent'
    PROVE  ChannelInv' /\ ch' \in Seq(Events) /\ Len(ch') <= BufferSize /\ dropped' \subseteq Events
<1>1. ch \in Seq(Events) /\ handled \subseteq Events /\ dropped \subseteq Events
    BY DEF TypeOK
<1>2. e \notin Queued /\ e \notin handled /\ e \notin dropped
    BY DEF ChannelInv
<1>3. /\ \A x \in Events : x.req \in Requests /\ x.type \in {"request", "response"}
      /\ e.req \in Requests /\ Event(e.req, "response").req = e.req
      /\ \A x \in Events : Event(x.req, "response").req = x.req
    BY DEF Events, Event
<1>4. CASE Len(ch) < BufferSize
  <2>1. ch' = Append(ch, e) /\ UNCHANGED dropped
      BY <1>4 DEF Notify
  <2>2. /\ Len(ch) \in Nat /\ DOMAIN ch = 1..Len(ch) /\ DOMAIN ch' = 1..(Len(ch) + 1)
        /\ \A i \in DOMAIN ch : ch'[i] = ch[i]
        /\ ch'[Len(ch) + 1] = e
      BY <2>1, <1>1
  <2>3. Queued' = Queued \cup {e}
      BY <2>2 DEF Queued
  <2>4. \A i, j \in DOMAIN ch' : ch'[i] = ch'[j] => i = j
      BY <2>2, <1>2 DEF ChannelInv, Queued
  <2>5. \A x \in Queued' : x.type = "request" => Event(x.req, "response") \notin handled'
      BY <2>3, <1>3 DEF ChannelInv
  <2>6. \A i, j \in DOMAIN ch' :
           ch'[i].req = ch'[j].req /\ ch'[i].type = "request" /\ ch'[j].type = "response" => i < j
    <3> SUFFICES ASSUME NEW i \in DOMAIN ch', NEW j \in DOMAIN ch', ch'[i].req = ch'[j].req,
                        ch'[i].type = "request", ch'[j].type = "response"
                 PROVE  i < j
        OBVIOUS
    <3>1. CASE i \in DOMAIN ch /\ j \in DOMAIN ch
        BY <3>1, <2>2 DEF ChannelInv
    <3>2. CASE i = Len(ch) + 1
      <4>1. e.type = "request" /\ j \in DOMAIN ch /\ ch[j].req = e.req
          BY <3>2, <2>2
      <4>2. ch[j] \in Sent
          BY <4>1, <1>1, QueuedFacts DEF ChannelInv
      <4> QED
          BY <4>1, <4>2
    <3>3. CASE j = Len(ch) + 1 /\ i \in DOMAIN ch
        BY <3>3, <2>2
    <3> QED
        BY <3>1, <3>2, <3>3, <2>2
  <2>7. ChannelInv'
      BY <2>1, <2>3, <2>4, <2>5, <2>6, <1>2 DEF ChannelInv
  <2> QED
      BY <2>1, <2>2, <2>7, <1>1, <1>4, DatalayerAssumption
<1>5. CASE ~(Len(ch) < BufferSize)
  <2>1. UNCHANGED ch /\ dropped' = dropped \cup {x \in {e} : x.type = "request"}
      BY <1>5 DEF Notify
  <2>2. Queued' = Queued
      BY <2>1 DEF Queued
  <2>3. ChannelInv'
      BY <2>1, <2>2, <1>2 DEF ChannelInv
  <2> QED
      BY <2>1, <2>3, <1>1 DEF TypeOK
<1> QED
    BY <1>4, <1>5

\* The model of a request is a model name or absent.
LEMMA ModelOfType ==
    ASSUME TypeOK
    PROVE  \A k \in Requests : modelOf(k) \in Models \cup {None}
<1>1. notified \in [Requests -> Seq(Notices)]
    BY DEF TypeOK, Notices
<1> SUFFICES ASSUME NEW k \in Requests, notified[k] # <<>>
             PROVE  notified[k][1].model \in Models \cup {None}
    BY DEF modelOf, Stream!requestModel
<1>2. notified[k] \in Seq(Notices)
    BY <1>1
<1>3. Len(notified[k]) # 0
    BY <1>2
<1>4. notified[k][1] \in Notices
    BY <1>2, <1>3
<1> QED
    BY <1>4 DEF Notices

\* Without a new notice nothing changes about what was sent.
LEMMA NoNotice ==
    ASSUME UNCHANGED notified
    PROVE  Sent' = Sent /\ \A k : modelOf(k)' = modelOf(k)
BY DEF Sent, modelOf, Stream!requestModel

\* A request that names a model keeps it: whatever a stream sends later, the
\* parts of the invariant about the loop, the datastore and the costs stand.
LEMMA ModelsKept ==
    ASSUME TypeOK, LoopInv, PublishInv, SourceInv, CostInv,
           \A k \in Requests : modelOf(k) \in Models => modelOf(k)' = modelOf(k),
           \A k \in Requests : modelOf(k)' \in Models \cup {None},
           UNCHANGED <<counters, costVars, loop, store, sourceVars, handled>>
    PROVE  LoopInv' /\ PublishInv' /\ SourceInv' /\ CostInv'
<1> USE DEF costVars, sourceVars
<1>1. handled \subseteq Events /\ \A e \in Events : e.req \in Requests
    BY DEF TypeOK, Events
<1>2. loop.pc # "idle" => eventModel' = eventModel
    BY <1>1 DEF LoopInv, eventModel
<1>3. LoopInv'
    BY <1>2 DEF LoopInv
<1>4. PublishInv'
  <2>1. PublishedCountIsCurrent'
    <3>1. loop.pc \in {"lookup", "put"} => eventModel' = eventModel
        BY <1>2
    <3> QED
        BY <3>1 DEF PublishInv, PublishedCountIsCurrent
  <2>2. loop.pc = "put" => eventModel' = eventModel
      BY <1>2
  <2> QED
      BY <2>1, <2>2 DEF PublishInv
<1>5. SourceInv'
    BY DEF SourceInv, SyncedModelsServed, Synced, Listed, GroupsOf
<1>6. \A s \in costed : s.req \in Requests
    BY DEF TypeOK, Samples
<1>7. \A s \in costed : modelOf(s.req)' = modelOf(s.req)
    BY <1>6 DEF CostInv
<1>8. CostInv'
    BY <1>7 DEF CostInv, ChargedOnceAsListed
<1> QED
    BY <1>3, <1>4, <1>5, <1>8

\* The sends of a stream preserve the invariant.
LEMMA StreamNext ==
    ASSUME DatalayerInv, NEW r \in Requests, RequestForwarded(r) \/ ResponseCompleted(r)
    PROVE  DatalayerInv'
<1> USE DEF DatalayerInv
<1>1. notified \in [Requests -> NotifiedType]
    BY DEF TypeOK, NotifiedType, Notices
<1>2. \A k \in Requests : modelOf(k) \in Models \cup {None}
    BY ModelOfType
<1>3. UNCHANGED <<counters, costVars, loop, store, sourceVars, handled>>
    BY DEF RequestForwarded, ResponseCompleted
<1>4. /\ Event(r, "request") \in Events /\ Event(r, "request").type = "request"
      /\ Event(r, "request").req = r
      /\ Event(r, "response") \in Events /\ Event(r, "response").type = "response"
    BY DEF Event, Events
<1>5. /\ notified' \in [Requests -> NotifiedType] /\ ChannelInv'
      /\ ch' \in Seq(Events) /\ Len(ch') <= BufferSize /\ dropped' \subseteq Events
      /\ \A k \in Requests : modelOf(k) \in Models => modelOf(k)' = modelOf(k)
      /\ \A k \in Requests : modelOf(k)' \in Models \cup {None}
  <2>1. CASE RequestForwarded(r)
    <3>1. PICK m \in Asked[r] : Stream!NotifyRequest(r, m)
        BY <2>1 DEF RequestForwarded
    <3>2. m \in Models \cup {None}
        BY DatalayerAssumption
    <3>3. /\ notified' \in [Requests -> NotifiedType]
          /\ modelOf(r) = None /\ \A e \in Sent : e.req # r
          /\ Sent' = Sent \cup {Event(r, "request")}
          /\ \A k \in Requests \ {r} : modelOf(k)' = modelOf(k)
        BY <1>1, <3>1, <3>2, RequestNotified
    <3>4. modelOf(r)' = m
        BY <1>1, <3>1 DEF Stream!NotifyRequest, Stream!requestModel, Stream!Event, modelOf
    <3>5. \A k \in Requests : modelOf(k)' # None => Event(k, "request") \in Sent'
        BY <3>3 DEF ChannelInv
    <3>6. Notify(Event(r, "request")) /\ UNCHANGED handled
        BY <2>1 DEF RequestForwarded
    <3>7. None \notin Models
        BY DatalayerAssumption
    <3> QED
        BY <1>2, <1>4, <3>2, <3>3, <3>4, <3>5, <3>6, <3>7, NotifyAccounted
  <2>2. CASE ResponseCompleted(r)
    <3>1. Stream!NotifyResponse(r) /\ Notify(Event(r, "response")) /\ UNCHANGED handled
        BY <2>2 DEF ResponseCompleted
    <3>2. /\ notified' \in [Requests -> NotifiedType]
          /\ Event(r, "response") \notin Sent
          /\ Sent' = Sent \cup {Event(r, "response")}
          /\ \A k \in Requests : modelOf(k)' = modelOf(k)
        BY <1>1, <3>1, ResponseNotified
    <3>3. \A k \in Requests : modelOf(k)' # None => Event(k, "request") \in Sent'
        BY <3>2 DEF ChannelInv
    <3> QED
        BY <1>2, <1>4, <3>1, <3>2, <3>3, NotifyAccounted
  <2> QED
      BY <2>1, <2>2
<1>6. TypeOK'
    BY <1>3, <1>5 DEF TypeOK, costVars, sourceVars, NotifiedType, Notices
<1> QED
    BY <1>3, <1>5, <1>6, ModelsKept

-----------------------------------------------------------------------------
(***************************************************************************)
(* The event loop.                                                         *)
(***************************************************************************)
\* The oldest event leaves the channel and counts as handled.
LEMMA ReceiveAccounted ==
    ASSUME TypeOK, ChannelInv, ch # <<>>, ch' = Tail(ch), handled' = handled \cup {Head(ch)},
           UNCHANGED <<notified, dropped>>
    PROVE  /\ ChannelInv' /\ ch' \in Seq(Events) /\ Len(ch') <= BufferSize
           /\ Head(ch) \in Queued /\ Head(ch) \in Events /\ handled' \subseteq Events
<1> DEFINE e == Head(ch)
<1>1. ch \in Seq(Events) /\ handled \subseteq Events /\ Len(ch) <= BufferSize
    BY DEF TypeOK
<1>2. Len(ch) \in Nat /\ Len(ch) # 0 /\ DOMAIN ch = 1..Len(ch) /\ e = ch[1]
    BY <1>1
<1>3. /\ ch' \in Seq(Events) /\ Len(ch') = Len(ch) - 1 /\ DOMAIN ch' = 1..(Len(ch) - 1)
      /\ \A i \in DOMAIN ch' : ch'[i] = ch[i + 1]
    BY <1>1, <1>2
<1>4. 1 \in DOMAIN ch /\ \A i \in DOMAIN ch' : i + 1 \in DOMAIN ch /\ i + 1 # 1
    BY <1>2, <1>3
<1> HIDE DEF e
<1>5. e \in Queued /\ e \in Events
    BY <1>1, <1>2, <1>4, QueuedFacts
<1>6. Queued' \subseteq Queued \ {e}
    BY <1>2, <1>3, <1>4 DEF Queued, ChannelInv
<1>7. Queued \subseteq Queued' \cup {e}
  <2> SUFFICES ASSUME NEW i \in DOMAIN ch, i # 1 PROVE ch[i] \in Queued'
      BY <1>2 DEF Queued
  <2>1. i - 1 \in DOMAIN ch' /\ ch'[i - 1] = ch[i]
      BY <1>2, <1>3
  <2> QED
      BY <2>1 DEF Queued
<1>8. Sent' = Sent /\ \A k : modelOf(k)' = modelOf(k)
    BY NoNotice
<1>9. \A i, j \in DOMAIN ch' : ch'[i] = ch'[j] => i = j
  <2> SUFFICES ASSUME NEW i \in DOMAIN ch', NEW j \in DOMAIN ch', ch'[i] = ch'[j] PROVE i = j
      OBVIOUS
  <2>1. ch[i + 1] = ch[j + 1] /\ i + 1 \in DOMAIN ch /\ j + 1 \in DOMAIN ch
      BY <1>3, <1>4
  <2>2. i + 1 = j + 1
      BY <2>1 DEF ChannelInv
  <2> QED
      BY <2>2, <1>2, <1>3
<1>10. \A i, j \in DOMAIN ch' :
          ch'[i].req = ch'[j].req /\ ch'[i].type = "request" /\ ch'[j].type = "response" => i < j
  <2> SUFFICES ASSUME NEW i \in DOMAIN ch', NEW j \in DOMAIN ch', ch'[i].req = ch'[j].req,
                      ch'[i].type = "request", ch'[j].type = "response"
               PROVE  i < j
      OBVIOUS
  <2>1. i + 1 < j + 1
      BY <1>3, <1>4 DEF ChannelInv
  <2> QED
      BY <2>1, <1>2, <1>3
<1>11. ASSUME NEW x \in Queued', x.type = "request" PROVE Event(x.req, "response") # e
  <2> SUFFICES ASSUME Event(x.req, "response") = e PROVE FALSE
      OBVIOUS
  <2>1. e.req = x.req /\ e.type = "response"
      BY DEF Event
  <2>2. PICK i \in DOMAIN ch' : ch'[i] = x
      BY DEF Queued
  <2>3. i + 1 < 1
      BY <2>1, <2>2, <1>2, <1>3, <1>4, <1>11 DEF ChannelInv
  <2> QED
      BY <2>3, <1>2, <1>3
<1>12. \A x \in Queued' : x.type = "request" => Event(x.req, "response") \notin handled'
    BY <1>6, <1>11 DEF ChannelInv, e
<1>13. ChannelInv'
    BY <1>5, <1>6, <1>7, <1>8, <1>9, <1>10, <1>12 DEF ChannelInv, e
<1> QED
    BY <1>1, <1>2, <1>3, <1>5, <1>13, DatalayerAssumption DEF e

\* The count of a model after one of its events is a count.
LEMMA CountedType ==
    ASSUME NEW c \in Counts, NEW m \in Models, NEW e \in Events
    PROVE  Counted(c, m, e) \in Counts
<1>1. e.req \in Requests /\ MaxTokens[e.req][m] \in Int
    BY DatalayerAssumption DEF Events
<1>2. c.requests \in Nat /\ c.tokens \in Int
    BY DEF Counts
<1>3. ASSUME NEW v \in Int, NEW d \in Int PROVE floorDecrement(v, d) \in Nat
    BY DEF floorDecrement
<1>4. floorDecrement(c.requests, 1) \in Nat /\ floorDecrement(c.tokens, MaxTokens[e.req][m]) \in Int
  <2>1. c.requests \in Int /\ 1 \in Int
      BY <1>2
  <2>2. floorDecrement(c.requests, 1) \in Nat
      BY <1>3, <2>1
  <2>3. floorDecrement(c.tokens, MaxTokens[e.req][m]) \in Nat
      BY <1>1, <1>2, <1>3
  <2> QED
      BY <2>2, <2>3
<1>5. c.requests + 1 \in Nat /\ c.tokens + MaxTokens[e.req][m] \in Int
    BY <1>1, <1>2
<1> QED
    BY <1>4, <1>5 DEF Counted, Counts

\* Receiving an event preserves the invariant.
LEMMA ReceiveNext ==
    ASSUME DatalayerInv, Receive
    PROVE  DatalayerInv'
<1> USE DEF DatalayerInv
<1> DEFINE e == Head(ch)
           m == modelOf(e.req)
<1>1. /\ loop.pc = "idle" /\ ch # <<>> /\ ch' = Tail(ch) /\ handled' = handled \cup {e}
      /\ IF m = None THEN UNCHANGED <<counters, loop>>
         ELSE /\ counters' = [counters EXCEPT ![m] = Counted(@, m, e)]
              /\ loop' = [loop EXCEPT !.pc = "lookup", !.event = e]
      /\ UNCHANGED <<notified, costed, digests, store, sourceVars, dropped>>
    BY DEF Receive, costVars
<1>2. /\ ChannelInv' /\ ch' \in Seq(Events) /\ Len(ch') <= BufferSize
      /\ e \in Queued /\ e \in Events /\ handled' \subseteq Events
    BY <1>1, ReceiveAccounted
<1> HIDE DEF e
<1>3. Sent' = Sent /\ \A k : modelOf(k)' = modelOf(k)
    BY <1>1, NoNotice
<1>4. e.req \in Requests /\ e.type \in {"request", "response"} /\ e = Event(e.req, e.type)
    BY <1>2 DEF Events, Event
<1>5. m = None \/ m \in Models
    BY <1>4, ModelOfType
<1> HIDE DEF m
<1>6. e \notin handled
    BY <1>2 DEF ChannelInv
<1>7. loop \in [pc : {"idle", "lookup", "put", "cost", "flush"}, event : Events \cup {None},
                 gen : Nat]
    BY DEF TypeOK
<1>8. m # None => loop'.pc = "lookup" /\ loop'.event = e
    BY <1>1, <1>7
<1>9. TypeOK'
  <2>1. counters' \in [Models -> Counts]
    <3>1. CASE m = None
        BY <1>1, <3>1 DEF TypeOK
    <3>2. CASE m # None
      <4>1. counters[m] \in Counts
          BY <1>5, <3>2 DEF TypeOK
      <4>2. Counted(counters[m], m, e) \in Counts
          BY <4>1, <1>2, <1>5, <3>2, CountedType
      <4> QED
          BY <1>1, <3>2, <4>2 DEF TypeOK
    <3> QED
        BY <3>1, <3>2
  <2>2. loop' \in [pc : {"idle", "lookup", "put", "cost", "flush"}, event : Events \cup {None},
                    gen : Nat]
      BY <1>1, <1>2, <1>7
  <2> QED
      BY <1>1, <1>2, <2>1, <2>2 DEF TypeOK, sourceVars
<1>10. LoopInv'
  <2>1. CASE m = None
      BY <1>1, <2>1 DEF LoopInv
  <2>2. CASE m # None
    <3>1. eventModel' = m
        BY <1>3, <1>8, <2>2 DEF eventModel, m
    <3>2. e.type = "response" => \A s \in costed : s.req # e.req
        BY <1>4, <1>6 DEF CostInv, ChargedOnceAsListed
    <3> QED
        BY <1>1, <1>5, <1>8, <2>2, <3>1, <3>2 DEF LoopInv
  <2> QED
      BY <2>1, <2>2
<1>11. PublishInv'
  <2>1. CASE m = None
      BY <1>1, <2>1 DEF PublishInv, PublishedCountIsCurrent
  <2>2. CASE m # None
    <3>1. eventModel' = m
        BY <1>3, <1>8, <2>2 DEF eventModel, m
    <3>2. \A k \in Models \ {m} : counters'[k] = counters[k]
        BY <1>1, <2>2 DEF TypeOK
    <3> QED
        BY <1>1, <1>8, <2>2, <3>1, <3>2 DEF PublishInv, PublishedCountIsCurrent
  <2> QED
      BY <2>1, <2>2
<1>12. SourceInv'
    BY <1>1 DEF SourceInv, SyncedModelsServed, Synced, Listed, GroupsOf, sourceVars
<1>13. CostInv'
    BY <1>1, <1>3 DEF CostInv, ChargedOnceAsListed
<1> QED
    BY <1>2, <1>9, <1>10, <1>11, <1>12, <1>13

\* Finding or creating a model does not disturb what the data source has
\* registered: those models are live.
LEMMA FoundKeepsSource ==
    ASSUME TypeOK, SourceInv, NEW m \in Models, UNCHANGED <<source, file>>,
           store' \in [Models -> Attributes],
           \A k \in Models \ {m} : store'[k] = store[k],
           /\ store'[m].live /\ store'[m].gen = GetOrCreateModel(m)[m].gen
           /\ store'[m].prices = GetOrCreateModel(m)[m].prices
           /\ store'[m].groups = GetOrCreateModel(m)[m].groups
    PROVE  SourceInv'
<1>1. store \in [Models -> Attributes] /\ source.model \in Models
    BY DEF TypeOK
<1>2. /\ store[m].live => /\ store'[m].gen = store[m].gen /\ store'[m].prices = store[m].prices
                          /\ store'[m].groups = store[m].groups
      /\ ~store[m].live => store'[m].prices = None
    BY <1>1, GetOrCreateEffect
<1>3. \A k \in Models : store[k].live =>
         /\ store'[k].live /\ store'[k].gen = store[k].gen
         /\ store'[k].prices = store[k].prices /\ store'[k].groups = store[k].groups
    BY <1>2
<1>4. \A k \in Models : store'[k].prices # None => store'[k].prices = store[k].prices
    BY <1>2
<1>5. SyncedModelsServed'
    BY <1>3 DEF SourceInv, SyncedModelsServed, Synced, GroupsOf
<1>6. \A k \in Models : store'[k].prices # None => Listed(k, store'[k].prices)
    BY <1>4 DEF SourceInv
<1> QED
    BY <1>1, <1>3, <1>5, <1>6 DEF SourceInv, Listed

\* What the event loop leaves alone when it only finds and publishes.
LEMMA LoopKeeps ==
    ASSUME ChannelInv, CostInv, UNCHANGED loopUnchanged, UNCHANGED costVars
    PROVE  /\ ChannelInv' /\ CostInv' /\ UNCHANGED <<source, file>>
           /\ \A k : modelOf(k)' = modelOf(k)
<1>1. UNCHANGED <<notified, ch, handled, dropped, source, file, costed, digests>>
    BY DEF loopUnchanged, costVars, sourceVars
<1>2. Sent' = Sent /\ Queued' = Queued /\ \A k : modelOf(k)' = modelOf(k)
    BY <1>1, NoNotice DEF Queued
<1> QED
    BY <1>1, <1>2 DEF ChannelInv, CostInv, ChargedOnceAsListed

LoopType == [pc : {"idle", "lookup", "put", "cost", "flush"}, event : Events \cup {None}, gen : Nat]

\* The loop's lookup of the model preserves the invariant: a model it creates has
\* no count that could be out of date.
LEMMA LookupNext ==
    ASSUME DatalayerInv, Lookup
    PROVE  DatalayerInv'
<1> USE DEF DatalayerInv
<1> DEFINE m == eventModel
<1>1. /\ loop.pc = "lookup" /\ store' = GetOrCreateModel(m)
      /\ loop' = [loop EXCEPT !.pc = "put", !.gen = store'[m].gen]
      /\ UNCHANGED loopUnchanged /\ UNCHANGED costVars /\ UNCHANGED counters
    BY DEF Lookup
<1>2. m \in Models /\ loop.event \in handled
    BY <1>1 DEF LoopInv
<1>3. store \in [Models -> Attributes] /\ loop \in LoopType
    BY DEF TypeOK, LoopType
<1> HIDE DEF m
<1>4. /\ store' \in [Models -> Attributes] /\ store'[m].live
      /\ store[m].live => store' = store
      /\ ~store[m].live => store'[m].inflight = None
      /\ \A k \in Models \ {m} : store'[k] = store[k]
    BY <1>1, <1>2, <1>3, GetOrCreateEffect
<1>5. ChannelInv' /\ CostInv' /\ UNCHANGED <<source, file>> /\ \A k : modelOf(k)' = modelOf(k)
    BY <1>1, LoopKeeps
<1>6. store'[m].gen \in Nat
    BY <1>2, <1>4 DEF Attributes
<1>7. loop' \in LoopType /\ loop'.pc = "put" /\ loop'.event = loop.event
      /\ loop'.gen = store'[m].gen
    BY <1>1, <1>3, <1>6 DEF LoopType
<1>8. eventModel' = m
    BY <1>5, <1>7 DEF eventModel, m
<1>9. TypeOK'
    BY <1>1, <1>4, <1>7 DEF TypeOK, loopUnchanged, costVars, sourceVars, LoopType
<1>10. LoopInv'
    BY <1>1, <1>2, <1>7, <1>8 DEF LoopInv, loopUnchanged, costVars
<1>11. PublishInv'
    BY <1>1, <1>4, <1>7, <1>8 DEF PublishInv, PublishedCountIsCurrent, m
<1>12. SourceInv'
    BY <1>1, <1>2, <1>4, <1>5, FoundKeepsSource
<1> QED
    BY <1>5, <1>9, <1>10, <1>11, <1>12

\* The loop's publication preserves the invariant: the count goes to the object
\* that was looked up or to nobody, and the one in its place has no count.
LEMMA PublishNext ==
    ASSUME DatalayerInv, Publish
    PROVE  DatalayerInv'
<1> USE DEF DatalayerInv
<1> DEFINE m == eventModel
<1>1. /\ loop.pc = "put" /\ store' = Put(m, loop.gen, "inflight", counters[m])
      /\ loop' = afterPublish
      /\ UNCHANGED loopUnchanged /\ UNCHANGED costVars /\ UNCHANGED counters
    BY DEF Publish
<1>2. m \in Models /\ loop.event \in handled
    BY <1>1 DEF LoopInv
<1>3. store \in [Models -> Attributes] /\ loop \in LoopType /\ counters[m] \in Counts
    BY <1>2 DEF TypeOK, LoopType
<1>4. loop.event \in Events
    BY <1>2 DEF TypeOK
<1> HIDE DEF m
<1>5. /\ store' \in [Models -> Attributes]
      /\ \A k \in Models \ {m} : store'[k] = store[k]
      /\ ~(store[m].live /\ store[m].gen = loop.gen) => store' = store
      /\ store[m].live /\ store[m].gen = loop.gen => store'[m].inflight = counters[m]
      /\ store'[m].live = store[m].live /\ store'[m].gen = store[m].gen
      /\ store'[m].prices = store[m].prices /\ store'[m].groups = store[m].groups
    BY <1>1, <1>2, <1>3, PutInflightEffect
<1>6. ChannelInv' /\ CostInv' /\ UNCHANGED <<source, file>> /\ \A k : modelOf(k)' = modelOf(k)
    BY <1>1, LoopKeeps
<1>7. /\ loop' \in LoopType /\ loop'.pc \in {"idle", "cost"}
      /\ loop'.pc = "cost" => loop'.event = loop.event /\ loop.event.type = "response"
    BY <1>1, <1>3, <1>4 DEF LoopType, afterPublish, Idle, Events
<1>8. loop'.pc = "cost" => eventModel' = m
    BY <1>6, <1>7 DEF eventModel, m
<1>9. TypeOK'
    BY <1>1, <1>5, <1>7 DEF TypeOK, loopUnchanged, costVars, sourceVars, LoopType
<1>10. LoopInv'
    BY <1>1, <1>2, <1>7, <1>8 DEF LoopInv, loopUnchanged, costVars
<1>11. PublishInv'
    BY <1>1, <1>5, <1>7 DEF PublishInv, PublishedCountIsCurrent, m
<1>12. \A k \in Models : /\ store'[k].live = store[k].live /\ store'[k].gen = store[k].gen
                          /\ store'[k].prices = store[k].prices
                          /\ store'[k].groups = store[k].groups
    BY <1>5
<1>13. source.model \in Models
    BY DEF TypeOK
<1>14. SourceInv'
    BY <1>6, <1>12, <1>13 DEF SourceInv, SyncedModelsServed, Synced, GroupsOf, Listed
<1> QED
    BY <1>6, <1>9, <1>10, <1>11, <1>14

\* A new sample joins the digest of its model: the response it is for was
\* handled, no other sample is for that response, and its prices are listed.
LEMMA SampleAdded ==
    ASSUME CostInv, NEW sample \in Samples, NEW m \in Models, m = modelOf(sample.req),
           digests \in [Models -> SUBSET Samples], costed \subseteq Samples,
           Event(sample.req, "response") \in handled, sample.prices # None, Listed(m, sample.prices),
           \A s \in costed : s.req # sample.req,
           digests' = [digests EXCEPT ![m] = @ \cup {sample}], costed' = costed \cup {sample},
           UNCHANGED handled, \A k : modelOf(k)' = modelOf(k)
    PROVE  CostInv'
<1>1. \A s \in costed' : modelOf(s.req)' \in Models
    BY DEF CostInv
<1>2. \A k \in Models : digests'[k] = {s \in costed' : modelOf(s.req)' = k}
    BY DEF CostInv
<1>3. ChargedOnceAsListed'
  <2> SUFFICES ASSUME NEW s \in costed'
               PROVE  /\ Event(s.req, "response") \in handled'
                      /\ \E f \in Files : f # Malformed /\ f[modelOf(s.req)] = s.prices /\ s.prices # None
                      /\ \A t \in costed' : t.req = s.req => t = s
      BY DEF ChargedOnceAsListed
  <2>1. CASE s \in costed
      BY <2>1 DEF CostInv, ChargedOnceAsListed
  <2>2. CASE s = sample
      BY <2>2 DEF Listed
  <2> QED
      BY <2>1, <2>2
<1> QED
    BY <1>1, <1>2, <1>3 DEF CostInv

\* Pricing a response preserves the invariant.
LEMMA SampleCostNext ==
    ASSUME DatalayerInv, SampleCost
    PROVE  DatalayerInv'
<1> USE DEF DatalayerInv
<1> DEFINE m == eventModel
           Sample(body) == [req |-> loop.event.req, prices |-> store'[m].prices,
                            tokens |-> extractTokenCounts(body)]
<1>1. /\ loop.pc = "cost" /\ store' = GetOrCreateModel(m)
      /\ UNCHANGED loopUnchanged /\ UNCHANGED counters
    BY DEF SampleCost
<1>2. PICK body \in Bodies, due \in BOOLEAN :
         \/ /\ Sample(body).prices # None
            /\ digests' = [digests EXCEPT ![m] = @ \cup {Sample(body)}]
            /\ costed' = costed \cup {Sample(body)}
            /\ loop' = IF due THEN [loop EXCEPT !.pc = "flush"] ELSE Idle
         \/ loop' = Idle /\ UNCHANGED costVars
    BY DEF SampleCost, pricesFound
<1>3. /\ m \in Models /\ loop.event \in handled /\ loop.event.type = "response"
      /\ \A s \in costed : s.req # loop.event.req
    BY <1>1 DEF LoopInv
<1>4. /\ store \in [Models -> Attributes] /\ loop \in LoopType
      /\ digests \in [Models -> SUBSET Samples] /\ costed \subseteq Samples
    BY DEF TypeOK, LoopType
<1>5. /\ loop.event \in Events /\ loop.event.req \in Requests
      /\ loop.event = Event(loop.event.req, "response")
    BY <1>3 DEF TypeOK, Events, Event
<1>6. UNCHANGED <<notified, ch, handled, dropped>> /\ UNCHANGED <<source, file>>
    BY <1>1 DEF loopUnchanged, sourceVars
<1>7. Sent' = Sent /\ Queued' = Queued /\ \A k : modelOf(k)' = modelOf(k)
    BY <1>6, NoNotice DEF Queued
<1>8. m = modelOf(loop.event.req)
    BY DEF eventModel
<1> HIDE DEF m
<1>9. /\ store' \in [Models -> Attributes] /\ store'[m].live
      /\ store[m].live => store' = store
      /\ ~store[m].live => store'[m].inflight = None
      /\ \A k \in Models \ {m} : store'[k] = store[k]
    BY <1>1, <1>3, <1>4, GetOrCreateEffect
<1>10. SourceInv'
    BY <1>1, <1>3, <1>6, <1>9, FoundKeepsSource
<1>11. /\ Sample(body) \in Samples /\ Sample(body).req = loop.event.req
       /\ Sample(body).prices = store'[m].prices
    BY <1>3, <1>5, <1>9 DEF Samples, Attributes
<1> HIDE DEF Sample
<1>12. CostInv' /\ digests' \in [Models -> SUBSET Samples] /\ costed' \subseteq Samples
  <2>1. CASE /\ Sample(body).prices # None
             /\ digests' = [digests EXCEPT ![m] = @ \cup {Sample(body)}]
             /\ costed' = costed \cup {Sample(body)}
    <3>1. Listed(m, Sample(body).prices)
        BY <2>1, <1>3, <1>10, <1>11 DEF SourceInv, Listed
    <3>2. CostInv'
        BY <2>1, <3>1, <1>3, <1>4, <1>5, <1>6, <1>7, <1>8, <1>11, SampleAdded
    <3> QED
        BY <2>1, <3>2, <1>3, <1>4, <1>11
  <2>2. CASE UNCHANGED costVars
      BY <2>2, <1>4, <1>6, <1>7 DEF CostInv, ChargedOnceAsListed, costVars
  <2> QED
      BY <1>2, <2>1, <2>2
<1>13. /\ loop' \in LoopType /\ loop'.pc \in {"idle", "flush"}
       /\ loop'.pc = "flush" => loop'.event = loop.event
    BY <1>2, <1>4 DEF LoopType, Idle
<1>14. loop'.pc = "flush" => eventModel' = m
    BY <1>7, <1>8, <1>13 DEF eventModel
<1>15. TypeOK'
    BY <1>1, <1>9, <1>12, <1>13 DEF TypeOK, loopUnchanged, sourceVars, LoopType
<1>16. ChannelInv'
    BY <1>6, <1>7 DEF ChannelInv
<1>17. LoopInv'
    BY <1>3, <1>6, <1>13, <1>14 DEF LoopInv
<1>18. PublishInv'
    BY <1>1, <1>9, <1>13 DEF PublishInv, PublishedCountIsCurrent
<1> QED
    BY <1>10, <1>12, <1>15, <1>16, <1>17, <1>18

\* The flush of a digest preserves the invariant.
LEMMA FlushNext ==
    ASSUME DatalayerInv, Flush
    PROVE  DatalayerInv'
<1> USE DEF DatalayerInv
<1> DEFINE m == eventModel
<1>1. /\ loop.pc = "flush" /\ loop' = Idle
      /\ store' = [GetOrCreateModel(m) EXCEPT ![m].cost = digests[m]]
      /\ UNCHANGED loopUnchanged /\ UNCHANGED costVars /\ UNCHANGED counters
    BY DEF Flush
<1>2. m \in Models
    BY <1>1 DEF LoopInv
<1>3. store \in [Models -> Attributes] /\ digests[m] \in SUBSET Samples
    BY <1>2 DEF TypeOK
<1> HIDE DEF m
<1>4. /\ store' \in [Models -> Attributes]
      /\ \A k \in Models \ {m} : store'[k] = store[k]
      /\ store'[m].live /\ store'[m].gen = GetOrCreateModel(m)[m].gen
      /\ store'[m].prices = GetOrCreateModel(m)[m].prices
      /\ store'[m].groups = GetOrCreateModel(m)[m].groups
      /\ store'[m].inflight = GetOrCreateModel(m)[m].inflight
    BY <1>1, <1>2, <1>3, FlushEffect
<1>5. (store[m].live /\ store'[m].inflight = store[m].inflight) \/ store'[m].inflight = None
    BY <1>2, <1>3, <1>4, GetOrCreateEffect
<1>6. ChannelInv' /\ CostInv' /\ UNCHANGED <<source, file>> /\ \A k : modelOf(k)' = modelOf(k)
    BY <1>1, LoopKeeps
<1>7. loop' \in LoopType /\ loop'.pc = "idle"
    BY <1>1 DEF LoopType, Idle
<1>8. TypeOK'
    BY <1>1, <1>4, <1>7 DEF TypeOK, loopUnchanged, costVars, sourceVars, LoopType
<1>9. LoopInv'
    BY <1>7 DEF LoopInv
<1>10. PublishInv'
    BY <1>1, <1>4, <1>5, <1>7 DEF PublishInv, PublishedCountIsCurrent
<1>11. SourceInv'
    BY <1>2, <1>4, <1>6, FoundKeepsSource
<1> QED
    BY <1>6, <1>8, <1>9, <1>10, <1>11

-----------------------------------------------------------------------------
(***************************************************************************)
(* The models file and its data source.                                    *)
(***************************************************************************)
SourceType == [pc : SourcePCs, desired : Config, todo : SUBSET Models, model : Models, gen : Nat]

\* A step that leaves the streams and the event loop alone, and of the models at
\* most makes, deletes or edits some without a count of their own, preserves
\* what is said of them.
LEMMA SourceKeeps ==
    ASSUME TypeOK, ChannelInv, LoopInv, PublishInv, CostInv,
           UNCHANGED <<notified, ch, counters, costVars, loop, handled, dropped>>,
           \A k \in Models : store'[k].live =>
               \/ store'[k].inflight = None
               \/ store[k].live /\ store'[k].gen = store[k].gen /\ store'[k].inflight = store[k].inflight
    PROVE  ChannelInv' /\ LoopInv' /\ PublishInv' /\ CostInv'
<1>1. Sent' = Sent /\ Queued' = Queued /\ \A k : modelOf(k)' = modelOf(k)
    BY NoNotice DEF Queued
<1>2. eventModel' = eventModel
    BY <1>1 DEF eventModel
<1>3. loop.pc = "put" => eventModel \in Models
    BY DEF LoopInv
<1> QED
    BY <1>1, <1>2, <1>3 DEF ChannelInv, LoopInv, PublishInv, PublishedCountIsCurrent, CostInv,
                            ChargedOnceAsListed, costVars

\* An edit of the file touches nothing but the file and its events.
LEMMA EditFileNext ==
    ASSUME DatalayerInv, EditFile
    PROVE  DatalayerInv'
<1> USE DEF DatalayerInv
<1>1. UNCHANGED <<notified, ch, counters, costVars, loop, store, watching, source, handled, dropped>>
    BY DEF EditFile
<1>2. file' \in Config \cup {Malformed}
    BY DatalayerAssumption DEF EditFile, Config
<1>3. edits' \in 0..MaxEdits /\ fsEvents' \in Nat /\ missed' \in BOOLEAN
    BY DatalayerAssumption DEF EditFile, TypeOK
<1>4. TypeOK'
    BY <1>1, <1>2, <1>3 DEF TypeOK, costVars
<1>5. ChannelInv' /\ LoopInv' /\ PublishInv' /\ CostInv'
    BY <1>1, SourceKeeps
<1>6. file' \in Files
    BY DEF EditFile
<1>7. SourceInv'
    BY <1>1, <1>6 DEF SourceInv, SyncedModelsServed, Synced, GroupsOf, Listed
<1> QED
    BY <1>4, <1>5, <1>7

\* Reading the file, watching its directory and listing the models leave the
\* datastore alone; no model counts as registered from a version just read.
LEMMA ReadNext ==
    ASSUME DatalayerInv, InitialSync \/ AddWatcher \/ HandleFileEvent \/ ListModels
    PROVE  DatalayerInv'
<1> USE DEF DatalayerInv
<1>1. UNCHANGED sourceUnchanged /\ UNCHANGED store
    BY DEF InitialSync, AddWatcher, HandleFileEvent, ListModels, ReadFile
<1>2. source \in SourceType /\ file \in Config \cup {Malformed} /\ fsEvents \in Nat
      /\ watching \in BOOLEAN
    BY DEF TypeOK, SourceType
<1>3. watching' \in BOOLEAN /\ fsEvents' \in Nat
  <2>1. CASE InitialSync
      BY <1>2, <2>1 DEF InitialSync, ReadFile
  <2>2. CASE AddWatcher
      BY <1>2, <2>2 DEF AddWatcher
  <2>3. CASE HandleFileEvent
    <3>1. fsEvents > 0 /\ fsEvents' = fsEvents - 1 /\ UNCHANGED watching
        BY <2>3 DEF HandleFileEvent, ReadFile
    <3> QED
        BY <3>1, <1>2
  <2>4. CASE ListModels
      BY <1>2, <2>4 DEF ListModels
  <2> QED
      BY <2>1, <2>2, <2>3, <2>4
<1>4. ChannelInv' /\ LoopInv' /\ PublishInv' /\ CostInv'
    BY <1>1, SourceKeeps DEF sourceUnchanged
<1>5. ASSUME NEW failedPC \in {"failed", "idle"}, ReadFile(failedPC),
             failedPC = "idle" => source.pc = "idle"
      PROVE  source' \in SourceType /\ SourceInv'
  <2>1. CASE file = Malformed
    <3>1. source' = [source EXCEPT !.pc = failedPC]
        BY <1>5, <2>1 DEF ReadFile
    <3>2. /\ source' \in SourceType /\ source'.pc = failedPC /\ source'.desired = source.desired
          /\ source'.todo = source.todo /\ source'.model = source.model
        BY <3>1, <1>2 DEF SourceType, SourcePCs
    <3> QED
        BY <1>1, <1>5, <3>2 DEF SourceInv, SyncedModelsServed, Synced, GroupsOf, Listed, sourceUnchanged
  <2>2. CASE file # Malformed
    <3>1. source' = [source EXCEPT !.pc = "register", !.desired = file,
                                   !.todo = {m \in Models : file[m] # None}]
        BY <1>5, <2>2 DEF ReadFile
    <3>2. /\ source' \in SourceType /\ source'.pc = "register" /\ source'.desired = file
          /\ source'.todo = {m \in Models : file[m] # None}
        BY <3>1, <1>2, <2>2 DEF SourceType, SourcePCs
    <3>3. file \in Files
        BY DEF SourceInv
    <3> QED
        BY <1>1, <2>2, <3>2, <3>3 DEF SourceInv, SyncedModelsServed, Synced, GroupsOf, Listed,
                                      sourceUnchanged
  <2> QED
      BY <2>1, <2>2
<1>6. ASSUME AddWatcher PROVE source' \in SourceType /\ SourceInv'
    BY <1>1, <1>2, <1>6 DEF AddWatcher, SourceInv, SyncedModelsServed, Synced, GroupsOf, Listed,
                            sourceUnchanged
<1>7. ASSUME ListModels PROVE source' \in SourceType /\ SourceInv'
  <2>1. /\ source.pc = "register" /\ source.todo = {}
        /\ source' = [source EXCEPT !.pc = "delete",
                        !.todo = {m \in Models : store[m].live /\ source.desired[m] = None}]
      BY <1>7 DEF ListModels
  <2>2. /\ source' \in SourceType /\ source'.pc = "delete" /\ source'.desired = source.desired
        /\ source'.todo = {m \in Models : store[m].live /\ source.desired[m] = None}
      BY <2>1, <1>2 DEF SourceType, SourcePCs
  <2> QED
      BY <1>1, <2>1, <2>2 DEF SourceInv, SyncedModelsServed, Synced, GroupsOf, Listed,
                              sourceUnchanged
<1>8. source' \in SourceType /\ SourceInv'
    BY <1>5, <1>6, <1>7 DEF InitialSync, HandleFileEvent
<1>9. TypeOK'
    BY <1>1, <1>3, <1>8 DEF TypeOK, sourceUnchanged, costVars, SourceType
<1> QED
    BY <1>4, <1>8, <1>9

\* Finding or creating the next listed model preserves the invariant: it leaves
\* the registered ones alone, and its own is not registered yet.
LEMMA RegisterNext ==
    ASSUME DatalayerInv, RegisterModel
    PROVE  DatalayerInv'
<1> USE DEF DatalayerInv
<1>1. PICK m \in source.todo :
         /\ store' = GetOrCreateModel(m)
         /\ source' = [source EXCEPT !.pc = "prices", !.model = m, !.gen = store'[m].gen,
                                     !.todo = @ \ {m}]
    BY DEF RegisterModel
<1>2. source.pc = "register" /\ UNCHANGED <<sourceUnchanged, watching, fsEvents>>
    BY DEF RegisterModel
<1>3. source \in SourceType /\ store \in [Models -> Attributes]
    BY DEF TypeOK, SourceType
<1>4. m \in Models
    BY <1>3 DEF SourceType
<1>5. /\ store' \in [Models -> Attributes] /\ store'[m].live
      /\ store[m].live => store' = store
      /\ ~store[m].live => store'[m].prices = None /\ store'[m].inflight = None
      /\ \A k \in Models \ {m} : store'[k] = store[k]
    BY <1>1, <1>3, <1>4, GetOrCreateEffect
<1>6. store'[m].gen \in Nat
    BY <1>4, <1>5 DEF Attributes
<1>7. /\ source' \in SourceType /\ source'.pc = "prices" /\ source'.desired = source.desired
      /\ source'.model = m /\ source'.gen = store'[m].gen /\ source'.todo = source.todo \ {m}
    BY <1>1, <1>3, <1>4, <1>6 DEF SourceType, SourcePCs
<1>8. ChannelInv' /\ LoopInv' /\ PublishInv' /\ CostInv'
    BY <1>2, <1>5, SourceKeeps DEF sourceUnchanged
<1>9. \A k \in Models : Synced(k)' => k # m /\ Synced(k)
    BY <1>2, <1>7 DEF Synced
<1>10. SyncedModelsServed'
    BY <1>5, <1>7, <1>9 DEF SourceInv, SyncedModelsServed, GroupsOf
<1>11. \A k \in Models : store'[k].prices # None => Listed(k, store'[k].prices)
    BY <1>5 DEF SourceInv
<1>12. SourceInv'
    BY <1>2, <1>5, <1>7, <1>10, <1>11 DEF SourceInv, Listed, sourceUnchanged
<1>13. TypeOK'
    BY <1>2, <1>5, <1>7 DEF TypeOK, SourceType, sourceUnchanged, costVars
<1> QED
    BY <1>8, <1>12, <1>13

\* Storing the prices preserves the invariant: the object is the one in the
\* datastore, and the prices are the file's.
LEMMA PutPricesNext ==
    ASSUME DatalayerInv, PutPrices
    PROVE  DatalayerInv'
<1> USE DEF DatalayerInv
<1> DEFINE m == source.model
           p == source.desired[m]
<1>1. /\ source.pc = "prices" /\ store' = Put(m, source.gen, "prices", p)
      /\ source' = [source EXCEPT !.pc = "groups"]
      /\ UNCHANGED <<sourceUnchanged, watching, fsEvents>>
    BY DEF PutPrices
<1>2. source \in SourceType /\ store \in [Models -> Attributes]
    BY DEF TypeOK, SourceType
<1>3. m \in Models /\ p \in Entries \cup {None}
    BY <1>2 DEF SourceType, Config
<1>4. store[m].live /\ store[m].gen = source.gen
    BY <1>1 DEF SourceInv
<1> HIDE DEF m, p
<1>5. /\ store' \in [Models -> Attributes]
      /\ \A k \in Models \ {m} : store'[k] = store[k]
      /\ store'[m].prices = p /\ store'[m].live = store[m].live /\ store'[m].gen = store[m].gen
      /\ store'[m].groups = store[m].groups /\ store'[m].inflight = store[m].inflight
  <2>1. store' = Put(m, source.gen, "prices", p)
      BY <1>1
  <2> QED
      BY <2>1, <1>2, <1>3, <1>4, PutPricesEffect
<1>6. /\ source' \in SourceType /\ source'.pc = "groups" /\ source'.desired = source.desired
      /\ source'.model = m /\ source'.gen = source.gen /\ source'.todo = source.todo
    BY <1>1, <1>2 DEF SourceType, SourcePCs, m
<1>7. source.desired \in Files /\ source.desired # Malformed
    BY <1>1 DEF SourceInv
<1>8. Listed(m, p)
    BY <1>7 DEF Listed, p
<1>9. ChannelInv' /\ LoopInv' /\ PublishInv' /\ CostInv'
  <2>1. \A k \in Models : store'[k].live =>
           store[k].live /\ store'[k].gen = store[k].gen /\ store'[k].inflight = store[k].inflight
      BY <1>5
  <2> QED
      BY <1>1, <2>1, SourceKeeps DEF sourceUnchanged
<1>10. \A k \in Models : Synced(k)' => k # m /\ Synced(k)
    BY <1>1, <1>6 DEF Synced, m
<1>11. SyncedModelsServed'
    BY <1>5, <1>6, <1>10 DEF SourceInv, SyncedModelsServed, GroupsOf
<1>12. \A k \in Models : store'[k].prices # None => Listed(k, store'[k].prices)
    BY <1>5, <1>8 DEF SourceInv
<1>13. /\ store'[source'.model].live /\ store'[source'.model].gen = source'.gen
       /\ store'[source'.model].prices = source'.desired[source'.model]
    BY <1>4, <1>5, <1>6 DEF p
<1>14. file' \in Files /\ source'.desired \in Files /\ source'.desired # Malformed
    BY <1>1, <1>6, <1>7 DEF SourceInv, sourceUnchanged
<1>15. SourceInv'
    BY <1>6, <1>11, <1>12, <1>13, <1>14 DEF SourceInv, Listed
<1>16. TypeOK'
    BY <1>1, <1>5, <1>6 DEF TypeOK, SourceType, sourceUnchanged, costVars
<1> QED
    BY <1>9, <1>15, <1>16

\* Refreshing the groups preserves the invariant, and completes the model.
LEMMA PutGroupsNext ==
    ASSUME DatalayerInv, PutGroups
    PROVE  DatalayerInv'
<1> USE DEF DatalayerInv
<1> DEFINE m == source.model
           g == GroupsOf(source.desired[m])
<1>1. /\ source.pc = "groups" /\ store' = Put(m, source.gen, "groups", g)
      /\ source' = [source EXCEPT !.pc = "register", !.model = AnyModel, !.gen = 0]
      /\ UNCHANGED <<sourceUnchanged, watching, fsEvents>>
    BY DEF PutGroups, GroupsOf
<1>2. source \in SourceType /\ store \in [Models -> Attributes]
    BY DEF TypeOK, SourceType
<1>3. m \in Models /\ g \in Entries \cup {None} /\ AnyModel \in Models
    BY <1>2, DatalayerAssumption DEF SourceType, Config, GroupsOf, AnyModel
<1>4. store[m].live /\ store[m].gen = source.gen /\ store[m].prices = source.desired[m]
    BY <1>1 DEF SourceInv
<1> HIDE DEF m, g
<1>5. /\ store' \in [Models -> Attributes]
      /\ \A k \in Models \ {m} : store'[k] = store[k]
      /\ store'[m].groups = g /\ store'[m].live = store[m].live /\ store'[m].gen = store[m].gen
      /\ store'[m].prices = store[m].prices /\ store'[m].inflight = store[m].inflight
  <2>1. store' = Put(m, source.gen, "groups", g)
      BY <1>1
  <2> QED
      BY <2>1, <1>2, <1>3, <1>4, PutGroupsEffect
<1>6. /\ source' \in SourceType /\ source'.pc = "register" /\ source'.desired = source.desired
      /\ source'.todo = source.todo
    BY <1>1, <1>2, <1>3 DEF SourceType, SourcePCs
<1>7. ChannelInv' /\ LoopInv' /\ PublishInv' /\ CostInv'
  <2>1. \A k \in Models : store'[k].live =>
           store[k].live /\ store'[k].gen = store[k].gen /\ store'[k].inflight = store[k].inflight
      BY <1>5
  <2> QED
      BY <1>1, <2>1, SourceKeeps DEF sourceUnchanged
<1>8. \A k \in Models : Synced(k)' => k = m \/ Synced(k)
    BY <1>1, <1>6 DEF Synced, m
<1>9. SyncedModelsServed'
  <2> SUFFICES ASSUME NEW k \in Models, Synced(k)'
               PROVE  /\ store'[k].live /\ store'[k].prices = source'.desired[k]
                      /\ store'[k].groups = GroupsOf(source'.desired[k])
      BY DEF SyncedModelsServed
  <2>1. CASE k = m
      BY <1>4, <1>5, <1>6, <2>1 DEF g
  <2>2. CASE k # m
    <3>1. Synced(k) /\ store'[k] = store[k]
        BY <1>5, <1>8, <2>2
    <3>2. /\ store[k].live /\ store[k].prices = source.desired[k]
          /\ store[k].groups = GroupsOf(source.desired[k])
        BY <3>1 DEF SourceInv, SyncedModelsServed
    <3> QED
        BY <1>6, <3>1, <3>2
  <2> QED
      BY <2>1, <2>2
<1>10. \A k \in Models : store'[k].prices # None => Listed(k, store'[k].prices)
    BY <1>5 DEF SourceInv
<1>11. SourceInv'
    BY <1>1, <1>6, <1>9, <1>10 DEF SourceInv, Listed, sourceUnchanged
<1>12. TypeOK'
    BY <1>1, <1>5, <1>6 DEF TypeOK, SourceType, sourceUnchanged, costVars
<1> QED
    BY <1>7, <1>11, <1>12

\* Deleting what the file does not list preserves the invariant.
LEMMA DeleteNext ==
    ASSUME DatalayerInv, DeleteUnlisted
    PROVE  DatalayerInv'
<1> USE DEF DatalayerInv
<1>1. source.pc = "delete" /\ UNCHANGED <<sourceUnchanged, watching, fsEvents>>
    BY DEF DeleteUnlisted
<1>2. source \in SourceType /\ store \in [Models -> Attributes]
    BY DEF TypeOK, SourceType
<1>3. ASSUME NEW m \in source.todo, store' = DeleteModel(m),
             source' = [source EXCEPT !.todo = @ \ {m}]
      PROVE  DatalayerInv'
  <2>1. m \in Models /\ source.desired[m] = None
      BY <1>1, <1>2 DEF SourceType, SourceInv
  <2>2. /\ store' \in [Models -> Attributes] /\ ~store'[m].live /\ store'[m].prices = None
        /\ \A k \in Models \ {m} : store'[k] = store[k]
      BY <1>2, <1>3, <2>1, DeleteEffect
  <2>3. /\ source' \in SourceType /\ source'.pc = "delete" /\ source'.desired = source.desired
        /\ source'.todo = source.todo \ {m}
      BY <1>1, <1>2, <1>3 DEF SourceType
  <2>4. ChannelInv' /\ LoopInv' /\ PublishInv' /\ CostInv'
      BY <1>1, <2>2, SourceKeeps DEF sourceUnchanged
  <2>5. \A k \in Models : Synced(k)' => k # m /\ Synced(k)
      BY <1>1, <2>1, <2>3 DEF Synced
  <2>6. SyncedModelsServed'
      BY <2>2, <2>3, <2>5 DEF SourceInv, SyncedModelsServed, GroupsOf
  <2>7. \A k \in Models : store'[k].prices # None => Listed(k, store'[k].prices)
      BY <2>2 DEF SourceInv
  <2>8. SourceInv'
      BY <1>1, <2>3, <2>6, <2>7 DEF SourceInv, Listed, sourceUnchanged
  <2>9. TypeOK'
      BY <1>1, <2>2, <2>3 DEF TypeOK, SourceType, sourceUnchanged, costVars
  <2> QED
      BY <2>4, <2>8, <2>9
<1>4. ASSUME source.todo = {}, source' = [source EXCEPT !.pc = "idle"], UNCHANGED store
      PROVE  DatalayerInv'
  <2>1. /\ source' \in SourceType /\ source'.pc = "idle" /\ source'.desired = source.desired
      BY <1>2, <1>4 DEF SourceType, SourcePCs
  <2>2. ChannelInv' /\ LoopInv' /\ PublishInv' /\ CostInv'
      BY <1>1, <1>4, SourceKeeps DEF sourceUnchanged
  <2>3. SourceInv'
      BY <1>1, <1>4, <2>1 DEF SourceInv, SyncedModelsServed, Synced, GroupsOf, Listed, sourceUnchanged
  <2>4. TypeOK'
      BY <1>1, <1>4, <2>1 DEF TypeOK, SourceType, sourceUnchanged, costVars
  <2> QED
      BY <2>2, <2>3, <2>4
<1> QED
    BY <1>3, <1>4 DEF DeleteUnlisted

-----------------------------------------------------------------------------
(***************************************************************************)
(* Invariance, and what it means for readers of the datastore.             *)
(***************************************************************************)
\* The data layer as it is before Start.
LEMMA DatalayerInit == Init => DatalayerInv
<1> SUFFICES ASSUME Init PROVE DatalayerInv
    OBVIOUS
<1>1. AnyModel \in Models
    BY DatalayerAssumption DEF AnyModel
<1>2. /\ notified = [r \in Requests |-> <<>>] /\ ch = <<>> /\ loop = Idle
      /\ counters = [m \in Models |-> [requests |-> 0, tokens |-> 0]]
      /\ digests = [m \in Models |-> {}] /\ costed = {} /\ handled = {} /\ dropped = {}
      /\ store = [m \in Models |-> [NewModel(0) EXCEPT !.live = FALSE]]
      /\ file \in Files /\ edits = 0 /\ fsEvents = 0 /\ watching = FALSE /\ missed = FALSE
      /\ source = [pc |-> "initial", desired |-> [m \in Models |-> None], todo |-> {},
                   model |-> AnyModel, gen |-> 0]
    BY DEF Init, Stream!Init
<1> DEFINE empty == [NewModel(0) EXCEPT !.live = FALSE]
<1>3. empty \in Attributes /\ ~empty.live /\ empty.prices = None
  <2>1. NewModel(0) \in Attributes /\ NewModel(0).prices = None
      BY DEF NewModel, Attributes
  <2>2. ASSUME NEW x \in Attributes
        PROVE  /\ [x EXCEPT !.live = FALSE] \in Attributes
               /\ ~[x EXCEPT !.live = FALSE].live /\ [x EXCEPT !.live = FALSE].prices = x.prices
      BY DEF Attributes
  <2> QED
      BY <2>1, <2>2
<1>4. store \in [Models -> Attributes] /\ \A m \in Models : ~store[m].live /\ store[m].prices = None
  <2> HIDE DEF empty
  <2>1. store = [m \in Models |-> empty]
      BY <1>2 DEF empty
  <2> QED
      BY <1>3, <2>1
<1>5. source \in SourceType /\ source.pc = "initial"
    BY <1>1, <1>2 DEF SourceType, SourcePCs, Config
<1>6. loop \in LoopType /\ loop.pc = "idle"
    BY <1>2 DEF LoopType, Idle
<1>7. counters \in [Models -> Counts]
    BY <1>2 DEF Counts
<1>8. notified \in [Requests -> NotifiedType]
    BY <1>2 DEF NotifiedType
<1>9. ch \in Seq(Events) /\ Len(ch) <= BufferSize
    BY <1>2, DatalayerAssumption
<1>10. file \in Config \cup {Malformed} /\ edits \in 0..MaxEdits
    BY <1>2, DatalayerAssumption DEF Config
<1>11. TypeOK
    BY <1>2, <1>4, <1>5, <1>6, <1>7, <1>8, <1>9, <1>10
        DEF TypeOK, SourceType, LoopType, NotifiedType, Notices
<1>12. Sent = {} /\ Queued = {} /\ DOMAIN ch = {} /\ \A k \in Requests : modelOf(k) = None
    BY <1>2 DEF Sent, Queued, Events, modelOf, Stream!requestModel
<1>13. ChannelInv
    BY <1>2, <1>12 DEF ChannelInv
<1>14. LoopInv
    BY <1>6 DEF LoopInv
<1>15. PublishInv
    BY <1>4, <1>6 DEF PublishInv, PublishedCountIsCurrent
<1>16. SourceInv
    BY <1>2, <1>4, <1>5 DEF SourceInv, SyncedModelsServed, Synced
<1>17. CostInv
    BY <1>2 DEF CostInv, ChargedOnceAsListed
<1> QED
    BY <1>11, <1>13, <1>14, <1>15, <1>16, <1>17 DEF DatalayerInv

\* Every step of a stream, of the event loop, of the file and of its data source
\* preserves the invariant.
LEMMA DatalayerNext == DatalayerInv /\ [Next]_vars => DatalayerInv'
<1> SUFFICES ASSUME DatalayerInv, [Next]_vars PROVE DatalayerInv'
    OBVIOUS
<1>1. CASE UNCHANGED vars
  <2>1. UNCHANGED <<notified, ch, counters, costVars, loop, store, file, edits, fsEvents, watching,
                    source, missed, handled, dropped>>
      BY <1>1 DEF vars, sourceVars
  <2>2. ChannelInv' /\ LoopInv' /\ PublishInv' /\ CostInv'
      BY <2>1, SourceKeeps DEF DatalayerInv
  <2>3. TypeOK'
      BY <2>1 DEF DatalayerInv, TypeOK, costVars
  <2>4. SourceInv'
      BY <2>1 DEF DatalayerInv, SourceInv, SyncedModelsServed, Synced, GroupsOf, Listed
  <2> QED
      BY <2>2, <2>3, <2>4 DEF DatalayerInv
<1>2. CASE Next
    BY <1>2, StreamNext, ReceiveNext, LookupNext, PublishNext, SampleCostNext, FlushNext, EditFileNext,
       ReadNext, RegisterNext, PutPricesNext, PutGroupsNext, DeleteNext DEF Next
<1> QED
    BY <1>1, <1>2

\* The data layer keeps its types: the channel its capacity, every count of
\* requests zero or more (Processor.Notify, floorDecrement); a sum of tokens is
\* an integer, for any max_tokens a client sends.
THEOREM DatalayerTypeCorrect == Spec => []TypeOK
<1>1. DatalayerInv => TypeOK
    BY DEF DatalayerInv
<1> QED
    BY <1>1, DatalayerInit, DatalayerNext, PTL DEF Spec

\* The count on a live model is the extractor's, but for the event it is at, in
\* every interleaving with deletions and re-creations of models by the data
\* source (requestmetadata Extract; Datastore.GetOrCreateModel, DeleteModel).
THEOREM DatalayerPublished == Spec => []PublishedCountIsCurrent
<1>1. DatalayerInv => PublishedCountIsCurrent
    BY DEF DatalayerInv, PublishInv
<1> QED
    BY <1>1, DatalayerInit, DatalayerNext, PTL DEF Spec

\* A model that syncModels registered stays, with the prices and groups of the
\* file, for any number of models and file versions, however the event loop
\* finds and creates models meanwhile (ModelConfigDataSource.syncModels).
THEOREM DatalayerSynced == Spec => []SyncedModelsServed
<1>1. DatalayerInv => SyncedModelsServed
    BY DEF DatalayerInv, SourceInv
<1> QED
    BY <1>1, DatalayerInit, DatalayerNext, PTL DEF Spec

\* No response is charged twice, or at prices no file ever listed for its model,
\* for any number of streams (requestcostmetadata Extract, lookupTokenPrices).
THEOREM DatalayerCharged == Spec => []ChargedOnceAsListed
<1>1. DatalayerInv => ChargedOnceAsListed
    BY DEF DatalayerInv, CostInv
<1> QED
    BY <1>1, DatalayerInit, DatalayerNext, PTL DEF Spec

\* The digest on a model changes only to the one with all its samples.
LEMMA CostChanges ==
    ASSUME DatalayerInv, [Next]_vars, NEW m \in Models, store'[m].cost \notin {None, store[m].cost}
    PROVE  store'[m].cost = {s \in costed : modelOf(s.req) = m}
<1> USE DEF DatalayerInv
<1>1. store \in [Models -> Attributes]
    BY DEF TypeOK
<1>2. ASSUME UNCHANGED store PROVE FALSE
    BY <1>2
<1>3. ASSUME NEW k \in Models, store' = GetOrCreateModel(k) PROVE FALSE
    BY <1>1, <1>3, GetOrCreateEffect
<1>4. CASE Flush
  <2> DEFINE e == eventModel
  <2>1. e \in Models /\ store' = [GetOrCreateModel(e) EXCEPT ![e].cost = digests[e]]
      BY <1>4 DEF Flush, LoopInv
  <2> HIDE DEF e
  <2>2. digests[e] \in SUBSET Samples
      BY <2>1 DEF TypeOK
  <2>3. store'[e].cost = digests[e] /\ \A k \in Models \ {e} : store'[k] = store[k]
      BY <1>1, <2>1, <2>2, FlushEffect
  <2> QED
      BY <2>3 DEF CostInv
<1>5. CASE Publish
  <2>1. eventModel \in Models /\ counters[eventModel] \in Counts
      BY <1>5 DEF Publish, LoopInv, TypeOK
  <2>2. store' = Put(eventModel, loop.gen, "inflight", counters[eventModel])
      BY <1>5 DEF Publish
  <2> QED
      BY <1>1, <2>1, <2>2, PutInflightEffect
<1>6. CASE PutPrices
  <2>1. source.model \in Models /\ source.desired[source.model] \in Entries \cup {None}
      BY DEF TypeOK, Config
  <2>2. store' = Put(source.model, source.gen, "prices", source.desired[source.model])
      BY <1>6 DEF PutPrices
  <2> QED
      BY <1>1, <2>1, <2>2, PutPricesEffect
<1>7. CASE PutGroups
  <2>1. /\ source.model \in Models
        /\ GroupsOf(source.desired[source.model]) \in Entries \cup {None}
      BY DatalayerAssumption DEF TypeOK, Config, GroupsOf
  <2>2. store' = Put(source.model, source.gen, "groups", GroupsOf(source.desired[source.model]))
      BY <1>7 DEF PutGroups, GroupsOf
  <2> QED
      BY <1>1, <2>1, <2>2, PutGroupsEffect
<1>8. CASE DeleteUnlisted
  <2>1. PICK k \in source.todo : store' = DeleteModel(k)
      BY <1>2, <1>8 DEF DeleteUnlisted
  <2>2. k \in Models
      BY DEF TypeOK
  <2> QED
      BY <1>1, <2>1, <2>2, DeleteEffect
<1>9. CASE Lookup \/ SampleCost
    BY <1>3, <1>9 DEF Lookup, SampleCost, LoopInv
<1>10. CASE RegisterModel
  <2>1. PICK k \in source.todo : store' = GetOrCreateModel(k)
      BY <1>10 DEF RegisterModel
  <2> QED
      BY <1>3, <2>1 DEF TypeOK
<1>11. CASE UNCHANGED vars
    BY <1>2, <1>11 DEF vars
<1>12. CASE \E r \in Requests : RequestForwarded(r) \/ ResponseCompleted(r)
    BY <1>2, <1>12 DEF RequestForwarded, ResponseCompleted
<1>13. CASE Receive \/ EditFile \/ InitialSync \/ AddWatcher \/ HandleFileEvent \/ ListModels
    BY <1>2, <1>13 DEF Receive, EditFile, InitialSync, AddWatcher, HandleFileEvent, ListModels, ReadFile
<1> QED
    BY <1>4, <1>5, <1>6, <1>7, <1>8, <1>9, <1>10, <1>11, <1>12, <1>13 DEF Next

\* No flush loses a sample: the digest a model is given holds every sample of
\* its requests, those from before its last re-creation included, for any number
\* of streams and models (requestcostmetadata Extract).
THEOREM DatalayerFlushes == Spec => FlushIsComplete
<1>1. DatalayerInv /\ [Next]_vars =>
         [\A m \in Models :
             store'[m].cost \notin {None, store[m].cost} =>
                 store'[m].cost = {s \in costed : modelOf(s.req) = m}]_vars
    BY CostChanges
<1> QED
    BY <1>1, DatalayerInit, DatalayerNext, PTL DEF Spec, FlushIsComplete

-----------------------------------------------------------------------------
(***************************************************************************)
(* The counts.                                                             *)
(***************************************************************************)
\* A request's tokens are as many as its max_tokens, and are no other request's.
LEMMA TokensAdded ==
    ASSUME NEW m \in Models, NEW S \in SUBSET Requests, NEW r \in Requests \ S,
           IsFiniteSet(TokensOf(m, S)), MaxTokens[r][m] \in Nat
    PROVE  /\ IsFiniteSet(TokensOf(m, S \cup {r}))
           /\ Cardinality(TokensOf(m, S \cup {r})) = Cardinality(TokensOf(m, S)) + MaxTokens[r][m]
<1> DEFINE own == {r} \X (1..MaxTokens[r][m])
<1>2. IsFiniteSet(1..MaxTokens[r][m]) /\ Cardinality(1..MaxTokens[r][m]) = MaxTokens[r][m]
  <2>1. PICK n \in Nat : n = MaxTokens[r][m]
      OBVIOUS
  <2>2. 1 \in Int /\ n \in Int
      OBVIOUS
  <2>3. IsFiniteSet(1..n) /\ Cardinality(1..n) = IF 1 > n THEN 0 ELSE n - 1 + 1
      BY <2>2, FS_Interval, Zenon
  <2>4. (IF 1 > n THEN 0 ELSE n - 1 + 1) = n
      OBVIOUS
  <2> QED
      BY <2>1, <2>3, <2>4, Zenon
<1>3. IsFiniteSet({r}) /\ Cardinality({r}) = 1
    BY FS_Singleton
<1>4. IsFiniteSet(own) /\ Cardinality(own) = 1 * MaxTokens[r][m]
  <2>1. IsFiniteSet(own) /\ Cardinality(own) = Cardinality({r}) * Cardinality(1..MaxTokens[r][m])
      BY <1>2, <1>3, FS_Product, Zenon
  <2> QED
      BY <1>2, <1>3, <2>1, Zenon
<1>5. TokensOf(m, S \cup {r}) = TokensOf(m, S) \cup own
    BY DEF TokensOf
<1>6. TokensOf(m, S) \cap own = {}
    BY DEF TokensOf
<1>7. Cardinality(TokensOf(m, S)) \in Nat
    BY FS_CardinalityType
<1> HIDE DEF own
<1>8. /\ IsFiniteSet(TokensOf(m, S) \cup own)
      /\ Cardinality(TokensOf(m, S) \cup own)
            = Cardinality(TokensOf(m, S)) + Cardinality(own) - Cardinality({})
    BY <1>4, <1>6, FS_Union
<1>9. Cardinality({}) = 0
    BY FS_EmptySet
<1>10. Cardinality(own) = MaxTokens[r][m]
    BY <1>4
<1>11. Cardinality(TokensOf(m, S) \cup own) = Cardinality(TokensOf(m, S)) + MaxTokens[r][m]
    BY <1>7, <1>8, <1>9, <1>10
<1> QED
    BY <1>5, <1>8, <1>11

\* The same for a request that is taken away.
LEMMA TokensRemoved ==
    ASSUME NEW m \in Models, NEW S \in SUBSET Requests, NEW r \in S,
           IsFiniteSet(TokensOf(m, S)), MaxTokens[r][m] \in Nat
    PROVE  /\ IsFiniteSet(TokensOf(m, S \ {r}))
           /\ Cardinality(TokensOf(m, S \ {r})) = Cardinality(TokensOf(m, S)) - MaxTokens[r][m]
<1>1. TokensOf(m, S \ {r}) \in SUBSET TokensOf(m, S)
    BY DEF TokensOf
<1>2. IsFiniteSet(TokensOf(m, S \ {r}))
    BY <1>1, FS_Subset
<1>3. (S \ {r}) \cup {r} = S
    OBVIOUS
<1>4. Cardinality(TokensOf(m, S)) = Cardinality(TokensOf(m, S \ {r})) + MaxTokens[r][m]
    BY <1>2, <1>3, TokensAdded
<1> QED
    BY <1>2, <1>4, FS_CardinalityType

\* The models with a dropped request event, and those a negative max_tokens was
\* counted for.
Lossy == {m \in Models : \E r \in Requests : modelOf(r) = m /\ Event(r, "request") \in dropped}
Negative == {m \in Models : \E r \in Requests : /\ modelOf(r) = m /\ MaxTokens[r][m] < 0
                                               /\ \E e \in handled : e.req = r}

\* The requests of m a count is owed to, and their tokens, are finitely many.
CountInv ==
    /\ \A m \in Models : /\ IsFiniteSet(Outstanding(m))
                         /\ m \in Negative \/ IsFiniteSet(TokensOf(m, Outstanding(m)))
    /\ InFlightCount

\* The counts of a model, field by field.
LEMMA CountFields ==
    ASSUME TypeOK, CountInv, NEW m \in Models
    PROVE  /\ counters[m].requests <= Cardinality(Outstanding(m))
           /\ m \in Lossy \/ counters[m].requests = Cardinality(Outstanding(m))
           /\ m \in Negative
              \/ /\ counters[m].tokens \in 0..Cardinality(TokensOf(m, Outstanding(m)))
                 /\ m \in Lossy \/ counters[m].tokens = Cardinality(TokensOf(m, Outstanding(m)))
<1>1. /\ Expected(m).requests = Cardinality(Outstanding(m))
      /\ Expected(m).tokens = Cardinality(TokensOf(m, Outstanding(m)))
    BY DEF Expected
<1>2. /\ counters[m].requests <= Expected(m).requests
      /\ m \in Lossy \/ counters[m].requests = Expected(m).requests
      /\ m \in Negative \/ /\ counters[m].tokens \in 0..Expected(m).tokens
                           /\ m \in Lossy \/ counters[m].tokens = Expected(m).tokens
    BY DEF CountInv, InFlightCount, RequestDropped, Lossy, NegativeTokens, Negative
<1> QED
    BY <1>1, <1>2

\* A step that handles no event and changes no count, though it may drop an event
\* or give a request its model, leaves every count right.
LEMMA CountsUntouched ==
    ASSUME TypeOK, CountInv, UNCHANGED <<counters, handled>>, dropped \subseteq dropped',
           \A r \in Requests : modelOf(r) \in Models => modelOf(r)' = modelOf(r),
           \A r \in Requests : modelOf(r)' # modelOf(r) => Event(r, "request") \notin handled
    PROVE  CountInv'
<1>1. ASSUME NEW m \in Models PROVE Outstanding(m)' = Outstanding(m)
    BY DEF Outstanding
<1>2. ASSUME NEW m \in Models PROVE RequestDropped(m) => RequestDropped(m)'
    BY DEF RequestDropped
<1>3. ASSUME NEW m \in Models PROVE Expected(m)' = Expected(m)
    BY <1>1 DEF Expected, TokensOf
<1>4. ASSUME NEW m \in Models
      PROVE  (NegativeTokens(m) => NegativeTokens(m)') /\ (m \in Negative => m \in Negative')
    BY DEF NegativeTokens, Negative
<1>5. ASSUME NEW m \in Models
      PROVE  /\ IsFiniteSet(Outstanding(m)')
             /\ m \in Negative' \/ IsFiniteSet(TokensOf(m, Outstanding(m)'))
    BY <1>1, <1>4 DEF CountInv
<1>6. InFlightCount'
    BY <1>2, <1>3, <1>4 DEF CountInv, InFlightCount
<1> QED
    BY <1>5, <1>6 DEF CountInv, TokensOf

\* What one event does to the count of its model: a request is added; a response
\* takes one off, and when its request was never counted takes from the others,
\* never below zero.
LEMMA CountedRequests ==
    ASSUME NEW S \in SUBSET Requests, IsFiniteSet(S), NEW c \in Counts, NEW m \in Models,
           c.requests <= Cardinality(S), NEW e \in Events, NEW T \in SUBSET Requests,
           \/ e.type = "request" /\ e.req \notin S /\ T = S \cup {e.req}
           \/ e.type = "response" /\ T = S \ {e.req}
    PROVE  /\ IsFiniteSet(T) /\ Counted(c, m, e).requests <= Cardinality(T)
           /\ /\ e.type = "request" \/ e.req \in S
              /\ c.requests = Cardinality(S)
              => Counted(c, m, e).requests = Cardinality(T)
<1> DEFINE r == e.req
<1>1. r \in Requests /\ e.type \in {"request", "response"}
    BY DEF Events
<1>2. Cardinality(S) \in Nat /\ c.requests \in Nat
    BY FS_CardinalityType DEF Counts
<1>3. CASE e.type = "request"
  <2>1. r \in Requests \ S /\ T = S \cup {r}
      BY <1>1, <1>3
  <2>2. Counted(c, m, e).requests = c.requests + 1
      BY <1>3 DEF Counted
  <2> HIDE DEF r
  <2>3. IsFiniteSet(T) /\ Cardinality(T) = Cardinality(S) + 1
      BY <2>1, FS_AddElement
  <2> QED
      BY <2>2, <2>3, <1>2
<1>4. CASE e.type = "response"
  <2>1. Counted(c, m, e).requests = floorDecrement(c.requests, 1)
      BY <1>4 DEF Counted
  <2>2. T = S \ {r}
      BY <1>4
  <2>3. CASE r \in S
    <3> HIDE DEF r
    <3>1. IsFiniteSet(T) /\ Cardinality(T) = Cardinality(S) - 1
        BY <2>2, <2>3, FS_RemoveElement
    <3>2. Cardinality(T) \in Nat
        BY <3>1, FS_CardinalityType
    <3> QED
        BY <2>1, <3>1, <3>2, <1>2 DEF floorDecrement
  <2>4. CASE r \notin S
    <3>1. T = S
        BY <2>2, <2>4
    <3>2. floorDecrement(c.requests, 1) <= Cardinality(S)
        BY <1>2 DEF floorDecrement
    <3> QED
        BY <1>4, <2>1, <2>4, <3>1, <3>2
  <2> QED
      BY <2>3, <2>4
<1> QED
    BY <1>1, <1>3, <1>4

\* The same of its tokens, when there are none less than none.
LEMMA CountedTokens ==
    ASSUME NEW m \in Models, NEW S \in SUBSET Requests, IsFiniteSet(TokensOf(m, S)), NEW c \in Counts,
           c.tokens \in 0..Cardinality(TokensOf(m, S)),
           NEW e \in Events, MaxTokens[e.req][m] \in Nat, NEW T \in SUBSET Requests,
           \/ e.type = "request" /\ e.req \notin S /\ T = S \cup {e.req}
           \/ e.type = "response" /\ T = S \ {e.req}
    PROVE  /\ IsFiniteSet(TokensOf(m, T))
           /\ Counted(c, m, e).tokens \in 0..Cardinality(TokensOf(m, T))
           /\ /\ e.type = "request" \/ e.req \in S
              /\ c.tokens = Cardinality(TokensOf(m, S))
              => Counted(c, m, e).tokens = Cardinality(TokensOf(m, T))
<1>1. PICK r : r = e.req
    OBVIOUS
<1>2. PICK n \in Nat : n = MaxTokens[r][m]
    BY <1>1
<1>3. PICK s \in Nat : s = Cardinality(TokensOf(m, S))
    BY FS_CardinalityType
<1>4. PICK v \in Nat : v = c.tokens /\ v <= s
    BY <1>3
<1>5. r \in Requests /\ e.type \in {"request", "response"}
    BY <1>1 DEF Events
<1>6. CASE e.type = "request"
  <2>1. r \in Requests \ S /\ T = S \cup {r}
      BY <1>1, <1>5, <1>6
  <2>2. Counted(c, m, e).tokens = v + n
      BY <1>1, <1>2, <1>4, <1>6 DEF Counted
  <2>3. IsFiniteSet(TokensOf(m, T)) /\ Cardinality(TokensOf(m, T)) = s + n
      BY <2>1, <1>2, <1>3, TokensAdded
  <2>4. v + n \in 0..(s + n) /\ (v = s => v + n = s + n)
      BY <1>4
  <2> QED
      BY <2>2, <2>3, <2>4, <1>3, <1>4
<1>7. CASE e.type = "response"
  <2>1. Counted(c, m, e).tokens = floorDecrement(v, n)
      BY <1>1, <1>2, <1>4, <1>7 DEF Counted
  <2>2. T = S \ {r}
      BY <1>1, <1>7
  <2>3. CASE r \in S
    <3>1. IsFiniteSet(TokensOf(m, T)) /\ Cardinality(TokensOf(m, T)) = s - n
        BY <2>2, <2>3, <1>2, <1>3, TokensRemoved
    <3>2. s - n \in Nat
        BY <3>1, FS_CardinalityType
    <3>3. floorDecrement(v, n) \in 0..(s - n) /\ (v = s => floorDecrement(v, n) = s - n)
        BY <1>4, <3>2 DEF floorDecrement
    <3> QED
        BY <2>1, <3>1, <3>3, <1>3, <1>4
  <2>4. CASE r \notin S
    <3>1. T = S
        BY <2>2, <2>4
    <3>2. floorDecrement(v, n) \in 0..s
        BY <1>4 DEF floorDecrement
    <3> QED
        BY <1>1, <1>3, <1>7, <2>1, <2>4, <3>1, <3>2
  <2> QED
      BY <2>3, <2>4
<1> QED
    BY <1>5, <1>6, <1>7

\* Receiving an event keeps the counts right.  A response that is not of a
\* request counted before is one whose request event was dropped: had it been
\* queued, it would have been received first.
LEMMA ReceiveCounts ==
    ASSUME DatalayerInv, CountInv, Receive
    PROVE  CountInv'
<1> USE DEF DatalayerInv
<1>1. PICK e : e = Head(ch)
    OBVIOUS
<1>2. PICK m : m = modelOf(e.req)
    OBVIOUS
<1>3. /\ ch # <<>> /\ ch' = Tail(ch) /\ handled' = handled \cup {e}
      /\ IF m = None THEN UNCHANGED counters
         ELSE counters' = [counters EXCEPT ![m] = Counted(@, m, e)]
      /\ UNCHANGED <<notified, dropped>>
    BY <1>1, <1>2 DEF Receive
<1>4. e \in Queued /\ e \in Events
    BY <1>1, <1>3, ReceiveAccounted
<1>5. e = ch[1] /\ ch \in Seq(Events) /\ Len(ch) # 0
    BY <1>1, <1>3 DEF TypeOK
<1>6. \A k : modelOf(k)' = modelOf(k)
    BY <1>3, NoNotice
<1>7. e.req \in Requests /\ e.type \in {"request", "response"} /\ e = Event(e.req, e.type)
    BY <1>4 DEF Events, Event
<1>8. m = None \/ m \in Models
    BY <1>7, <1>2, ModelOfType
<1>9. e \notin handled
    BY <1>4 DEF ChannelInv
<1>10. ASSUME NEW k \in Models, k # m PROVE Outstanding(k)' = Outstanding(k)
  <2>1. \A r \in Requests : modelOf(r) = k => /\ Event(r, "request") # e
                                             /\ Event(r, "response") # e
      BY <1>10, <1>2 DEF Event
  <2> QED
      BY <1>3, <1>6, <2>1 DEF Outstanding
<1>11. /\ Lossy' = Lossy /\ Negative \subseteq Negative'
       /\ m \in Models \ Negative' => MaxTokens[e.req][m] \in Nat
  <2>1. Lossy' = Lossy /\ Negative \subseteq Negative'
      BY <1>3, <1>6 DEF Lossy, Negative
  <2>2. m \in Models => MaxTokens[e.req][m] \in Int
      BY <1>7, DatalayerAssumption
  <2>3. e \in handled'
      BY <1>3
  <2>4. m \in Models \ Negative' => ~(MaxTokens[e.req][m] < 0)
      BY <1>2, <1>6, <1>7, <2>3 DEF Negative
  <2> QED
      BY <2>1, <2>2, <2>4
<1>12. ASSUME NEW k \in Models, k # m PROVE counters'[k] = counters[k]
    BY <1>3, <1>8, <1>12 DEF TypeOK
<1>13. ASSUME m \in Models
       PROVE  /\ IsFiniteSet(Outstanding(m)')
              /\ counters'[m].requests <= Cardinality(Outstanding(m)')
              /\ m \in Lossy \/ counters'[m].requests = Cardinality(Outstanding(m)')
              /\ m \in Negative'
                 \/ /\ IsFiniteSet(TokensOf(m, Outstanding(m)'))
                    /\ counters'[m].tokens \in 0..Cardinality(TokensOf(m, Outstanding(m)'))
                    /\ m \in Lossy \/ counters'[m].tokens = Cardinality(TokensOf(m, Outstanding(m)'))
  <2> DEFINE S == Outstanding(m)
             T == Outstanding(m)'
  <2>1. m # None
      BY <1>13, DatalayerAssumption
  <2>2. counters[m] \in Counts /\ counters'[m] = Counted(counters[m], m, e)
      BY <1>3, <1>13, <2>1 DEF TypeOK
  <2>3. S \in SUBSET Requests /\ T \in SUBSET Requests
      BY DEF Outstanding
  <2>4. /\ IsFiniteSet(S)
        /\ counters[m].requests <= Cardinality(S)
        /\ m \in Lossy \/ counters[m].requests = Cardinality(S)
        /\ m \in Negative \/ /\ IsFiniteSet(TokensOf(m, S))
                             /\ counters[m].tokens \in 0..Cardinality(TokensOf(m, S))
                             /\ m \in Lossy \/ counters[m].tokens = Cardinality(TokensOf(m, S))
      BY <1>13, CountFields DEF CountInv
  <2>5. \A r \in Requests : /\ Event(r, "request") = e <=> r = e.req /\ e.type = "request"
                            /\ Event(r, "response") = e <=> r = e.req /\ e.type = "response"
      BY <1>7 DEF Event
  <2>6. /\ \/ e.type = "request" /\ e.req \notin S /\ T = S \cup {e.req}
           \/ e.type = "response" /\ T = S \ {e.req}
        /\ m \in Lossy \/ e.type = "request" \/ e.req \in S
    <3>1. CASE e.type = "request"
      <4>1. Event(e.req, "response") \notin handled
          BY <1>4, <3>1 DEF ChannelInv
      <4>2. e.req \notin S /\ T = S \cup {e.req}
          BY <1>3, <1>6, <1>7, <1>9, <1>2, <2>5, <3>1, <4>1 DEF Outstanding
      <4> HIDE DEF S, T
      <4> QED
          BY <3>1, <4>2
    <3>2. CASE e.type = "response"
      <4>1. T = S \ {e.req}
          BY <1>3, <1>6, <1>7, <1>2, <2>5, <3>2 DEF Outstanding
      <4>2. e.req \in S \/ m \in Lossy
        <5> DEFINE q == Event(e.req, "request")
        <5>1. q \in Sent /\ q.type = "request" /\ q.req = e.req
            BY <1>7, <1>2, <2>1 DEF ChannelInv, Event
        <5>2. q \in Queued \cup handled \cup dropped
            BY <5>1 DEF ChannelInv
        <5>3. q \notin Queued
          <6> SUFFICES ASSUME NEW i \in DOMAIN ch, ch[i] = q PROVE FALSE
              BY DEF Queued
          <6>1. 1 \in DOMAIN ch /\ i \in 1..Len(ch)
              BY <1>5
          <6>2. i < 1
              BY <1>5, <3>2, <5>1, <6>1 DEF ChannelInv
          <6> QED
              BY <6>1, <6>2
        <5>4. q \in handled => e.req \in S
            BY <1>7, <1>9, <1>2, <3>2 DEF Outstanding
        <5>5. q \in dropped => m \in Lossy
            BY <1>7, <1>13, <1>2 DEF Lossy
        <5> QED
            BY <5>2, <5>3, <5>4, <5>5
      <4> HIDE DEF S, T
      <4> QED
          BY <3>2, <4>1, <4>2
    <3> QED
        BY <1>7, <3>1, <3>2
  <2> HIDE DEF S, T
  <2>7. /\ IsFiniteSet(T) /\ counters'[m].requests <= Cardinality(T)
        /\ m \in Lossy \/ counters'[m].requests = Cardinality(T)
      BY <1>4, <1>13, <2>2, <2>3, <2>4, <2>6, CountedRequests
  <2>8. ASSUME m \notin Negative'
        PROVE  /\ IsFiniteSet(TokensOf(m, T))
               /\ counters'[m].tokens \in 0..Cardinality(TokensOf(m, T))
               /\ m \in Lossy \/ counters'[m].tokens = Cardinality(TokensOf(m, T))
    <3>1. m \notin Negative /\ MaxTokens[e.req][m] \in Nat
        BY <1>11, <1>13, <2>8
    <3> QED
        BY <1>4, <1>13, <2>2, <2>3, <2>4, <2>6, <3>1, CountedTokens
  <2> QED
      BY <2>7, <2>8 DEF T
<1>14. ASSUME NEW k \in Models
       PROVE  /\ IsFiniteSet(Outstanding(k)')
              /\ counters'[k].requests <= Cardinality(Outstanding(k)')
              /\ k \in Lossy \/ counters'[k].requests = Cardinality(Outstanding(k)')
              /\ k \in Negative'
                 \/ /\ IsFiniteSet(TokensOf(k, Outstanding(k)'))
                    /\ counters'[k].tokens \in 0..Cardinality(TokensOf(k, Outstanding(k)'))
                    /\ k \in Lossy \/ counters'[k].tokens = Cardinality(TokensOf(k, Outstanding(k)'))
  <2>1. CASE k = m
      BY <1>13, <2>1
  <2>2. CASE k # m
    <3>1. Outstanding(k)' = Outstanding(k) /\ counters'[k] = counters[k]
        BY <1>10, <1>12, <2>2
    <3>2. k \in Negative => k \in Negative'
        BY <1>11
    <3> QED
        BY <3>1, <3>2, CountFields DEF CountInv
  <2> QED
      BY <2>1, <2>2
<1>15. ASSUME NEW k \in Models
       PROVE  /\ counters'[k].requests <= Expected(k)'.requests
              /\ k \in Lossy' \/ counters'[k].requests = Expected(k)'.requests
              /\ k \in Negative' \/ /\ counters'[k].tokens \in 0..Expected(k)'.tokens
                                    /\ k \in Lossy' \/ counters'[k].tokens = Expected(k)'.tokens
  <2>1. /\ Expected(k)'.requests = Cardinality(Outstanding(k)')
        /\ Expected(k)'.tokens = Cardinality(TokensOf(k, Outstanding(k)'))
      BY DEF Expected, TokensOf
  <2> QED
      BY <1>11, <1>14, <2>1
<1>16. InFlightCount'
    BY <1>15 DEF InFlightCount, RequestDropped, Lossy, NegativeTokens, Negative
<1> QED
    BY <1>14, <1>16 DEF CountInv, TokensOf

\* Every step keeps the counts right: the other ones handle no event.
LEMMA CountsNext ==
    ASSUME DatalayerInv, CountInv, [Next]_vars
    PROVE  CountInv'
<1> USE DEF DatalayerInv
<1>1. CASE Receive
    BY <1>1, ReceiveCounts
<1>2. CASE UNCHANGED <<notified, counters, handled, dropped>>
  <2>1. \A k : modelOf(k)' = modelOf(k)
      BY <1>2, NoNotice
  <2> QED
      BY <1>2, <2>1, CountsUntouched
<1>3. ASSUME NEW r \in Requests, RequestForwarded(r) \/ ResponseCompleted(r)
      PROVE  CountInv'
  <2>1. UNCHANGED <<counters, handled>>
      BY <1>3 DEF RequestForwarded, ResponseCompleted
  <2>2. dropped \subseteq dropped'
      BY <1>3 DEF RequestForwarded, ResponseCompleted, Notify
  <2>3. notified \in [Requests -> NotifiedType]
      BY DEF TypeOK, NotifiedType, Notices
  <2>4. CASE RequestForwarded(r)
    <3>1. PICK a \in Asked[r] : Stream!NotifyRequest(r, a)
        BY <2>4 DEF RequestForwarded
    <3>2. a \in Models \cup {None}
        BY DatalayerAssumption
    <3>3. /\ modelOf(r) = None /\ \A x \in Sent : x.req # r
          /\ \A k \in Requests \ {r} : modelOf(k)' = modelOf(k)
        BY <2>3, <3>1, <3>2, RequestNotified
    <3>4. Event(r, "request") \notin handled
        BY <3>3 DEF ChannelInv, Event
    <3> QED
        BY <2>1, <2>2, <3>3, <3>4, DatalayerAssumption, CountsUntouched
  <2>5. CASE ResponseCompleted(r)
    <3>1. \A k \in Requests : modelOf(k)' = modelOf(k)
        BY <2>3, <2>5, ResponseNotified DEF ResponseCompleted
    <3> QED
        BY <2>1, <2>2, <3>1, CountsUntouched
  <2> QED
      BY <1>3, <2>4, <2>5
<1>4. CASE Lookup \/ Publish \/ SampleCost \/ Flush
    BY <1>2, <1>4 DEF Lookup, Publish, SampleCost, Flush, loopUnchanged
<1>5. CASE EditFile \/ InitialSync \/ AddWatcher \/ HandleFileEvent \/ RegisterModel \/ PutPrices
           \/ PutGroups \/ ListModels \/ DeleteUnlisted
  <2>1. UNCHANGED <<notified, counters, handled, dropped>>
    <3>1. CASE EditFile
        BY <3>1 DEF EditFile
    <3>2. CASE InitialSync \/ AddWatcher \/ HandleFileEvent
        BY <3>2 DEF InitialSync, AddWatcher, HandleFileEvent, ReadFile, sourceUnchanged
    <3>3. CASE RegisterModel
        BY <3>3 DEF RegisterModel, sourceUnchanged
    <3>4. CASE PutPrices \/ PutGroups
        BY <3>4 DEF PutPrices, PutGroups, sourceUnchanged
    <3>5. CASE ListModels \/ DeleteUnlisted
        BY <3>5 DEF ListModels, DeleteUnlisted, sourceUnchanged
    <3> QED
        BY <1>5, <3>1, <3>2, <3>3, <3>4, <3>5
  <2> QED
      BY <1>2, <2>1
<1>6. CASE UNCHANGED vars
    BY <1>2, <1>6 DEF vars
<1> QED
    BY <1>1, <1>3, <1>4, <1>5, <1>6 DEF Next

\* The extractor's count of a model's requests never exceeds those it saw start
\* and not end, and is exactly theirs unless Notify dropped a request event of
\* that model; so is the sum of their tokens, until a request with a negative
\* max_tokens is counted for the model: for any number of streams, any
\* max_tokens, negative ones included, and any capacity of the channel
\* (requestmetadata Extract, floorDecrement; Processor.Notify).
THEOREM DatalayerInFlight == Spec => []InFlightCount
<1>1. Init => CountInv
  <2> SUFFICES ASSUME Init PROVE CountInv
      OBVIOUS
  <2>1. handled = {} /\ counters = [m \in Models |-> [requests |-> 0, tokens |-> 0]]
      BY DEF Init
  <2>2. ASSUME NEW m \in Models PROVE Outstanding(m) = {} /\ TokensOf(m, Outstanding(m)) = {}
      BY <2>1 DEF Outstanding, TokensOf
  <2>3. IsFiniteSet({}) /\ Cardinality({}) = 0
      BY FS_EmptySet
  <2>4. ASSUME NEW m \in Models PROVE Expected(m) = [requests |-> 0, tokens |-> 0]
      BY <2>2, <2>3 DEF Expected
  <2>5. InFlightCount
      BY <2>1, <2>4 DEF InFlightCount
  <2> QED
      BY <2>2, <2>3, <2>5 DEF CountInv
<1>2. DatalayerInv /\ CountInv /\ [Next]_vars => CountInv'
    BY CountsNext
<1>3. CountInv => InFlightCount
    BY DEF CountInv
<1> QED
    BY <1>1, <1>2, <1>3, DatalayerInit, DatalayerNext, PTL DEF Spec
=============================================================================
