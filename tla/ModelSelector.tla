--------------------------- MODULE ModelSelector ---------------------------
(***************************************************************************)
(* The model-selector request plugin: it reads the candidate models from   *)
(* the datastore, filters them by the request's "model" field, adds up the *)
(* weighted scores of its scorers, picks a model and writes its name into  *)
(* the request; the session-affinity scorer also records the model of the  *)
(* response.  One stream is followed turn by turn, while the data layer's  *)
(* goroutines and other streams change the models' attributes and the      *)
(* session cache between any two of its reads.                             *)
(*                                                                         *)
(* A score is a number of Scale-ths: the code's 1.0 is Scale.  A model is  *)
(* an object; deleting and re-registering a name makes a new object, and a *)
(* selection under way keeps the objects it was given.                     *)
(***************************************************************************)
EXTENDS Integers, Selection, SequencesExt, FiniteSets

CONSTANTS
    Models,      \* model objects
    Names,       \* model names
    NameOf,      \* the name of each object
    Groups,      \* group names
    Prices,      \* input-token prices
    Counts,      \* in-flight counts
    Sessions,    \* session ids, of clients or generated
    Pipelines,   \* the configured pipelines: [filter, scorers, picker]
    None,        \* an absent attribute, session or result
    Scale,       \* the score 1.0
    CacheSize,   \* capacity of the session cache
    MaxTurns,    \* bound: turns of the stream's client
    MaxChanges   \* bound: changes made by the rest of the program

Scorers == {"cost", "costguard", "inflight", "session"}
Pickers == {"max-score", "random", "weighted-random"}
Weighting == [kind : Scorers, weight : Nat]
Pipeline == [filter : BOOLEAN, scorers : Seq(Weighting), picker : Pickers]

\* The model has one session cache, so a pipeline has one session scorer at most.
ASSUME SelectorAssumption ==
    /\ IsFiniteSet(Models) /\ NameOf \in [Models -> Names]
    /\ Prices \subseteq Nat /\ Counts \subseteq Nat
    /\ None \notin Prices \cup Counts \cup Sessions \cup Models \cup Names
    /\ Pipelines \subseteq Pipeline
    /\ \A p \in Pipelines : \A i, j \in DOMAIN p.scorers :
          p.scorers[i].kind = "session" /\ p.scorers[j].kind = "session" => i = j
    /\ Scale \in Nat \ {0} /\ Scale % 2 = 0
    /\ CacheSize \in Nat \ {0} /\ MaxTurns \in Nat /\ MaxChanges \in Nat

VARIABLES
    registered,    \* the objects in the datastore
    created,       \* the objects that were ever in it
    attr,          \* per object: its attributes [price, count, groups]
    cache,         \* the session cache: [session, model], least recently used first
    pipeline,      \* the configured pipeline
    run,           \* the current turn
    turns, changes,
    \* history
    lastRecorded,  \* per session: the model name recorded last
    stable         \* whether nothing changed since the turn's GetModels

storeVars == <<registered, created, attr>>
vars == <<storeVars, cache, pipeline, run, turns, changes, lastRecorded, stable>>

\* What the request's "model" field asks for; the empty field counts as auto.
Wanted == {[kind |-> "auto"], [kind |-> "malformed"]}
            \cup [kind : {"name"}, name : Names] \cup [kind : {"group"}, group : Groups]

NoTurn == [pc |-> "idle", wanted |-> [kind |-> "auto"], session |-> None, models |-> <<>>,
           next |-> 1, group |-> <<>>, rest |-> <<>>, sum |-> 0,
           counts |-> [o \in Models |-> 0], score |-> [o \in Models |-> 0],
           prior |-> None, picked |-> None]

-----------------------------------------------------------------------------
(***************************************************************************)
(* The session cache (expirable.LRU).                                      *)
(***************************************************************************)
Entry(s, m) == [session |-> s, model |-> m]
Cached(s) == {i \in DOMAIN cache : cache[i].session = s}
Without(s) == IF Cached(s) = {} THEN cache ELSE RemoveAt(cache, CHOOSE i \in Cached(s) : TRUE)

\* Get makes the entry the most recently used one.
CacheGet(s) ==
    IF Cached(s) = {} THEN cache ELSE Without(s) \o <<cache[CHOOSE i \in Cached(s) : TRUE]>>

\* Mutant: nothing is pushed out.
CacheAddUnbounded(s, m) == Append(Without(s), Entry(s, m))

\* Add replaces the session's entry, or pushes out the least recently used one.
CacheAdd(s, m) ==
    Append(IF Cached(s) = {} /\ Len(cache) = CacheSize THEN Tail(cache) ELSE Without(s),
           Entry(s, m))

(***************************************************************************)
(* The rest of the program: the data layer's goroutines, and the responses *)
(* of other streams.  A goroutine may hold an object that was deleted.     *)
(***************************************************************************)
Running == run.pc # "panicked"

Change == /\ Running /\ changes < MaxChanges
          /\ changes' = changes + 1
          /\ stable' = FALSE
          /\ UNCHANGED <<pipeline, run, turns>>

CreateModel(o) ==
    /\ Change
    /\ o \notin created /\ \A p \in registered : NameOf[p] # NameOf[o]
    /\ registered' = registered \cup {o} /\ created' = created \cup {o}
    /\ UNCHANGED <<attr, cache, lastRecorded>>

DeleteModel(o) ==
    /\ Change
    /\ o \in registered
    /\ registered' = registered \ {o}
    /\ UNCHANGED <<created, attr, cache, lastRecorded>>

PutAttribute(o) ==
    /\ Change
    /\ o \in created
    /\ \/ \E p \in Prices : attr' = [attr EXCEPT ![o].price = p]
       \/ \E n \in Counts : attr' = [attr EXCEPT ![o].count = n]
       \/ \E g \in SUBSET Groups : attr' = [attr EXCEPT ![o].groups = g]
    /\ UNCHANGED <<registered, created, cache, lastRecorded>>

OtherResponse(s, m) ==
    /\ Change
    /\ cache' = CacheAdd(s, m)
    /\ lastRecorded' = [lastRecorded EXCEPT ![s] = m]
    /\ UNCHANGED storeVars

\* An entry outlived its time to live.
Expire ==
    /\ Running
    /\ \E i \in DOMAIN cache : cache' = RemoveAt(cache, i)
    /\ UNCHANGED <<storeVars, pipeline, run, turns, changes, lastRecorded, stable>>

-----------------------------------------------------------------------------
(***************************************************************************)
(* The stream.  ProcessRequest: GetModels, in map order.  Only the filter  *)
(* reads the model field, and only the session scorer the session header.  *)
(***************************************************************************)
selectorUnchanged == <<storeVars, pipeline, changes, lastRecorded>>
Step(r) == run' = r /\ UNCHANGED <<selectorUnchanged, turns, cache, stable>>

HasSessions == \E i \in DOMAIN pipeline.scorers : pipeline.scorers[i].kind = "session"

\* The request fails: no candidates, or none left by the filter (429).
Rejected == [NoTurn EXCEPT !.pc = "rejected"]

ProcessRequest ==
    /\ run.pc \in {"idle", "rejected"} /\ turns < MaxTurns
    /\ turns' = turns + 1
    /\ stable' = TRUE
    /\ IF registered = {} THEN run' = Rejected
       ELSE \E wanted \in IF pipeline.filter THEN Wanted ELSE {NoTurn.wanted},
               session \in {None} \cup IF HasSessions THEN Sessions ELSE {},
               models \in SetToSeqs(registered) :
               run' = [NoTurn EXCEPT !.pc = IF pipeline.filter THEN "filter" ELSE "score",
                                     !.wanted = wanted, !.session = session,
                                     !.models = models, !.rest = pipeline.scorers]
    /\ UNCHANGED <<selectorUnchanged, cache>>

\* runFilterPlugins is over with these models left.
Filtered(models) ==
    IF models = <<>> THEN Rejected
    ELSE [run EXCEPT !.pc = "score", !.models = models, !.next = 1, !.group = <<>>]

\* The models that a "model" field other than "auto/<group>" stands for.
Matching == {o \in Models : \/ run.wanted.kind = "auto"
                            \/ run.wanted.kind = "name" /\ NameOf[o] = run.wanted.name}

\* Mutant: a name that is not configured falls back to all candidates.
FilterFallingBack ==
    /\ run.pc = "filter" /\ run.wanted.kind # "group"
    /\ Step(Filtered(LET match == Selected(run.models, Matching)
                     IN  IF match = <<>> THEN run.models ELSE match))

\* The model-group filter on anything but "auto/<group>".
Filter ==
    /\ run.pc = "filter" /\ run.wanted.kind # "group"
    /\ Step(Filtered(Selected(run.models, Matching)))

\* "auto/<group>": the groups of one candidate after the other are read.
FilterGroup ==
    /\ run.pc = "filter" /\ run.wanted.kind = "group"
    /\ IF run.next > Len(run.models) THEN Step(Filtered(run.group))
       ELSE LET o == run.models[run.next]
            IN  Step([run EXCEPT !.next = @ + 1,
                                 !.group = IF run.wanted.group \in attr[o].groups
                                           THEN Append(@, o) ELSE @])

-----------------------------------------------------------------------------
(***************************************************************************)
(* runScorerPlugins.  A scorer's scores are forced into the range from 0   *)
(* to 1 and weighted before they are added.                                *)
(***************************************************************************)
\* Mutant: scores are taken as they are.
AnyScore(score) == score

enforceScoreRange(score) == IF score < 0 THEN 0 ELSE IF score > Scale THEN Scale ELSE score

\* The scores after the current scorer gave some objects the scores of raw.
Weighted(raw) ==
    [o \in Models |-> run.score[o] + IF o \in DOMAIN raw
                                     THEN enforceScoreRange(raw[o]) * Head(run.rest).weight ELSE 0]

Kept == ToSet(run.models)

\* The turn after the current scorer returned with these scores.
Scored(raw) == [run EXCEPT !.pc = "score", !.next = 1, !.rest = Tail(@), !.sum = 0,
                            !.counts = [o \in Models |-> 0],
                            !.score = Weighted(raw)]

Scorer(kind) == run.pc = "score" /\ run.rest # <<>> /\ Head(run.rest).kind = kind

\* CostGuardScorer.Score is a stub: the neutral score for every model.
CostGuardScore == Scorer("costguard") /\ Step(Scored([o \in Kept |-> Scale \div 2]))

\* CostScorer.Score: one model is neutral, otherwise the prices are added up ...
CostScore ==
    /\ Scorer("cost")
    /\ Step(IF Len(run.models) = 1 THEN Scored([o \in Kept |-> Scale \div 2])
            ELSE [run EXCEPT !.pc = "sum"])

\* ... (a missing price fails the type assertion and panics) ...
SumPrices ==
    /\ run.pc = "sum"
    /\ IF run.next > Len(run.models)
       THEN Step(IF run.sum = 0 THEN Scored([o \in Kept |-> Scale])
                 ELSE [run EXCEPT !.pc = "cost", !.next = 1])
       ELSE LET price == attr[run.models[run.next]].price
            IN  Step(IF price = None THEN [run EXCEPT !.pc = "panicked"]
                     ELSE [run EXCEPT !.next = @ + 1, !.sum = @ + price])

\* ... and each price, read again, is compared with the sum.
PriceAgainstSum ==
    /\ run.pc = "cost"
    /\ IF run.next > Len(run.models) THEN Step(Scored([o \in {} |-> 0]))
       ELSE LET o == run.models[run.next]
                price == attr[o].price
            IN  Step(IF price = None THEN [run EXCEPT !.pc = "panicked"]
                     ELSE [run EXCEPT !.next = @ + 1,
                             !.score = Weighted([p \in {o} |-> Scale - (price * Scale) \div run.sum])])

\* Mutant: the busiest model is preferred.
BusiestFirst(most, least, count) == ((count - least) * Scale) \div (most - least)
LeastLoadedFirst(most, least, count) == ((most - count) * Scale) \div (most - least)

\* InflightRequestsScorer.Score: a missing count reads as 0.
InflightScore == Scorer("inflight") /\ Step([run EXCEPT !.pc = "count"])

ReadCounts ==
    /\ run.pc = "count"
    /\ IF run.next > Len(run.models)
       THEN LET counts == {run.counts[o] : o \in Kept}
                most == CHOOSE n \in counts : \A k \in counts : k <= n
                least == CHOOSE n \in counts : \A k \in counts : n <= k
            IN  Step(Scored([o \in Kept |-> IF most = least THEN Scale
                                        ELSE LeastLoadedFirst(most, least, run.counts[o])]))
       ELSE LET o == run.models[run.next]
            IN  Step([run EXCEPT !.next = @ + 1,
                                 !.counts[o] = IF attr[o].count = None THEN 0 ELSE attr[o].count])

\* SessionAffinityScorer.Score: 1 for the session's last model, 0 for others.
SessionScore ==
    /\ Scorer("session")
    /\ LET known == Cached(run.session)
           previous == IF known = {} THEN None ELSE cache[CHOOSE i \in known : TRUE].model
       IN  /\ cache' = CacheGet(run.session)
           /\ run' = [Scored([o \in Kept |-> IF NameOf[o] = previous THEN Scale ELSE 0])
                         EXCEPT !.prior = IF known = {} THEN None ELSE lastRecorded[run.session]]
    /\ UNCHANGED <<selectorUnchanged, turns, stable>>

-----------------------------------------------------------------------------
(***************************************************************************)
(* runPickerPlugin.  Ties are broken by a shuffle; A-Res sampling gives    *)
(* any model with a positive score the largest key, and one with score     *)
(* zero the key zero.                                                      *)
(***************************************************************************)
Best == {o \in Kept : \A p \in Kept : run.score[p] <= run.score[o]}
Positive == {o \in Kept : run.score[o] > 0}

Pick(o) ==
    /\ run.pc = "score" /\ run.rest = <<>>
    /\ o \in CASE pipeline.picker = "max-score" -> Best
               [] pipeline.picker = "random" -> Kept
               [] pipeline.picker = "weighted-random" -> IF Positive = {} THEN Kept ELSE Positive
    /\ Step([run EXCEPT !.pc = "forwarded", !.picked = o])

(***************************************************************************)
(* The response.  SessionAffinityScorer.ProcessResponse records the model  *)
(* that the response body names, under the request's session or under a    *)
(* new id (a UUID: one nobody uses yet), which the client may send with    *)
(* its next request.  The response may also fail or name no model.         *)
(***************************************************************************)
Fresh == {s \in Sessions : Cached(s) = {} /\ lastRecorded[s] = None}

ProcessResponse ==
    /\ run.pc = "forwarded" /\ HasSessions
    /\ \E s \in IF run.session # None THEN {run.session} ELSE Fresh, m \in Names :
          /\ cache' = CacheAdd(s, m)
          /\ lastRecorded' = [lastRecorded EXCEPT ![s] = m]
    /\ run' = NoTurn
    /\ UNCHANGED <<storeVars, pipeline, turns, changes, stable>>

EndTurn == run.pc = "forwarded" /\ Step(NoTurn)

NoAttributes == [price |-> None, count |-> None, groups |-> {}]

\* After the data source's first sync: some models, each with its price.
Init ==
    /\ registered \in SUBSET Models
    /\ \A o, p \in registered : NameOf[o] = NameOf[p] => o = p
    /\ created = registered
    /\ \E prices \in [registered -> Prices], groups \in [registered -> SUBSET Groups] :
          attr = [o \in Models |-> IF o \in registered
                                   THEN [price |-> prices[o], count |-> None, groups |-> groups[o]]
                                   ELSE NoAttributes]
    /\ cache = <<>>
    /\ pipeline \in Pipelines
    /\ run = NoTurn /\ turns = 0 /\ changes = 0
    /\ lastRecorded = [s \in Sessions |-> None] /\ stable = TRUE

Next ==
    \/ \E o \in Models : CreateModel(o) \/ DeleteModel(o) \/ PutAttribute(o)
    \/ \E s \in Sessions, m \in Names : OtherResponse(s, m)
    \/ Expire
    \/ ProcessRequest \/ Filter \/ FilterGroup
    \/ CostGuardScore \/ CostScore \/ SumPrices \/ PriceAgainstSum
    \/ InflightScore \/ ReadCounts \/ SessionScore
    \/ \E o \in Models : Pick(o)
    \/ ProcessResponse \/ EndTurn

Spec == Init /\ [][Next]_vars

-----------------------------------------------------------------------------
(***************************************************************************)
(* Properties.                                                             *)
(***************************************************************************)
\* The weights of the scorers of some kinds, added up.
TotalWeight(scorers, kinds) ==
    LET upTo[n \in 0 .. Len(scorers)] ==
            IF n = 0 THEN 0
            ELSE upTo[n - 1] + IF scorers[n].kind \in kinds THEN scorers[n].weight ELSE 0
    IN  upTo[Len(scorers)]
WeightOf(kind) == TotalWeight(pipeline.scorers, {kind})

Turn ==
    [pc : {"idle", "filter", "score", "sum", "cost", "count", "forwarded", "rejected", "panicked"},
     wanted : Wanted, session : Sessions \cup {None}, models : Seq(Models), next : Nat \ {0},
     group : Seq(Models), rest : Seq(Weighting), sum : Nat, counts : [Models -> Nat],
     score : [Models -> Int], prior : Names \cup {None}, picked : Models \cup {None}]

\* Every variable has its type (Models of the datastore, PipelineRunResult,
\* the cache within its capacity).
TypeOK ==
    /\ registered \subseteq created /\ created \subseteq Models
    /\ attr \in [Models -> [price : Prices \cup {None}, count : Counts \cup {None},
                            groups : SUBSET Groups]]
    /\ cache \in Seq([session : Sessions, model : Names]) /\ Len(cache) <= CacheSize
    /\ pipeline \in Pipelines
    /\ run \in Turn
    /\ turns \in 0 .. MaxTurns /\ changes \in 0 .. MaxChanges
    /\ lastRecorded \in [Sessions -> Names \cup {None}] /\ stable \in BOOLEAN

(***************************************************************************)
(* A request is forwarded only to what it asked for: to the model it       *)
(* names, to a model of the group it names (as long as groups do not       *)
(* change meanwhile), and never when its model field is malformed.         *)
(***************************************************************************)
ForwardsWhatWasAsked ==
    run.pc = "forwarded" /\ pipeline.filter =>
        CASE run.wanted.kind = "malformed" -> FALSE
          [] run.wanted.kind = "name" -> NameOf[run.picked] = run.wanted.name
          [] run.wanted.kind = "group" -> stable => run.wanted.group \in attr[run.picked].groups
          [] OTHER -> TRUE

(***************************************************************************)
(* The max-score picker never takes a model when another candidate is at   *)
(* least as cheap, as idle and as close to the session, and better in one  *)
(* of the three, as far as the scorers are configured: normalising,        *)
(* weighting and adding up keep that order.  Nothing changes meanwhile.    *)
(***************************************************************************)
Load(o) == IF attr[o].count = None THEN 0 ELSE attr[o].count
Affine(o) == run.prior # None /\ NameOf[o] = run.prior
\* Scale-ths are fine enough to tell two prices, or two counts, of the candidates apart.
FineEnough == \A n \in Prices \cup Counts : n * Cardinality(Models) <= Scale
AtLeastAsGood(p, o) == /\ WeightOf("cost") > 0 => attr[p].price <= attr[o].price
                       /\ WeightOf("inflight") > 0 => Load(p) <= Load(o)
                       /\ WeightOf("session") > 0 => (Affine(o) => Affine(p))
NotDominated ==
    run.pc = "forwarded" /\ pipeline.picker = "max-score" /\ stable =>
        \A p \in Kept \ {run.picked} : AtLeastAsGood(p, run.picked) => AtLeastAsGood(run.picked, p)

(***************************************************************************)
(* When the session scorer outweighs the others and its cache still knows  *)
(* the session, the request goes to the model recorded last for it, if     *)
(* that is a candidate, whatever prices, counts and other streams of the   *)
(* session do meanwhile (SessionAffinityScorer, "1.0 for that model, 0.0   *)
(* for all others").  This rests on enforceScoreRange: a price that grows  *)
(* between the cost scorer's two reads may exceed the sum it is divided by *)
(* and would outweigh any session.                                         *)
(***************************************************************************)
OtherWeights == TotalWeight(pipeline.scorers, Scorers \ {"session"})
SessionSticks ==
    /\ run.pc = "forwarded" /\ pipeline.picker = "max-score"
    /\ WeightOf("session") > OtherWeights
    /\ run.prior # None /\ \E o \in Kept : NameOf[o] = run.prior
    => NameOf[run.picked] = run.prior
=============================================================================
