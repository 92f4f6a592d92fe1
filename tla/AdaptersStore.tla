--------------------------- MODULE AdaptersStore ---------------------------
(***************************************************************************)
(* The base-model-to-header plugin's view of the model-mapping ConfigMaps: *)
(* the cluster's ConfigMaps change, controller-runtime queues a request    *)
(* for each change the predicate lets through, and ConfigMapReconciler     *)
(* applies it to the AdaptersStore that ProcessRequest looks models up in. *)
(* Store operations hold the store's lock and are atomic; the reconciler   *)
(* runs one request at a time and re-reads the object.                     *)
(*                                                                         *)
(* An adapter list is a set of names: trimming, empty entries and          *)
(* duplicates are gone after parseConfigMap.                               *)
(***************************************************************************)
EXTENDS Integers, FiniteSets

CONSTANTS
    Names,       \* namespaced names of ConfigMaps
    Bases,       \* base model names
    Adapters,    \* adapter names
    Contents,    \* for each ConfigMap, the data sections it may be given
    None,        \* absent: no object, no entry, no base model
    Malformed,   \* an adapter list that is not YAML
    MaxEdits     \* bound: changes made to the cluster

Data == [base : Bases \cup {None}, adapters : {Malformed} \cup SUBSET Adapters]

ASSUME AdaptersAssumption ==
    /\ Contents \in [Names -> SUBSET Data]
    /\ None \notin Bases /\ None \notin Int /\ None # Malformed
    /\ \A s \in SUBSET Adapters : s # None /\ s # Malformed
    /\ None \notin [data : Data, labelled : BOOLEAN, deleting : BOOLEAN]
    /\ IsFiniteSet(Names) /\ MaxEdits \in Nat

VARIABLES
    cluster,                 \* per name: the ConfigMap, or None
    queue,                   \* names with a pending reconcile request
    edits,                   \* number of changes made to the cluster
    loraAdapterToBaseModel,  \* per adapter: its base model, or None
    configmapAdapters,       \* per name: the adapters recorded for it, or None
    baseModels,              \* per base model: its counter, or None
    \* history
    countedBase,             \* per name: the base model it was added with, or None
    skewed,                  \* base models whose counter a delete after an edit put wrong
    contested,               \* adapters that another ConfigMap listed at their last update
    vanished                 \* names whose object was removed and not reconciled since

storeVars == <<loraAdapterToBaseModel, configmapAdapters, baseModels, countedBase, skewed, contested>>
clusterVars == <<cluster, edits>>
vars == <<clusterVars, queue, storeVars, vanished>>

ConfigMap(data, labelled, deleting) ==
    [data |-> data, labelled |-> labelled, deleting |-> deleting]
Tracked(n) == configmapAdapters[n] # None

-----------------------------------------------------------------------------
(***************************************************************************)
(* The store.                                                              *)
(***************************************************************************)
\* parseConfigMap succeeds.
parses(data) == data.base # None /\ data.adapters # Malformed

\* History: only the base model of an added ConfigMap is counted; an adapter is
\* contested while the last update that listed it found it on another list too.
RecordUpdate(n, data) ==
    /\ countedBase' = IF Tracked(n) THEN countedBase ELSE [countedBase EXCEPT ![n] = data.base]
    /\ contested' = (contested \ data.adapters)
                       \cup {a \in data.adapters : \E k \in Names \ {n} : Tracked(k) /\ a \in configmapAdapters[k]}
    /\ UNCHANGED skewed

\* History: a ConfigMap that no longer names the base model it was added with
\* leaves that one counted, and discounts the one it names.
RecordDelete(n, data) ==
    /\ countedBase' = [countedBase EXCEPT ![n] = None]
    /\ skewed' = IF data.base = countedBase[n] THEN skewed
                 ELSE skewed \cup ({countedBase[n], data.base} \ {None})
    /\ UNCHANGED contested

\* Mutants: adapters dropped from the list stay mapped; every update counts.
UpdateKeepingRemoved(n, data) ==
    /\ loraAdapterToBaseModel' = [a \in Adapters |-> IF a \in data.adapters THEN data.base
                                                     ELSE loraAdapterToBaseModel[a]]
    /\ baseModels' = IF Tracked(n) THEN baseModels
                     ELSE [baseModels EXCEPT ![data.base] = IF @ # None THEN @ + 1 ELSE 1]
    /\ configmapAdapters' = [configmapAdapters EXCEPT ![n] = data.adapters]
    /\ RecordUpdate(n, data)
UpdateCountingAgain(n, data) ==
    /\ LET adaptersToRemove == (IF Tracked(n) THEN configmapAdapters[n] ELSE {}) \ data.adapters
       IN  loraAdapterToBaseModel' =
               [a \in Adapters |-> IF a \in data.adapters THEN data.base
                                   ELSE IF a \in adaptersToRemove THEN None
                                   ELSE loraAdapterToBaseModel[a]]
    /\ baseModels' = [baseModels EXCEPT ![data.base] = IF @ # None THEN @ + 1 ELSE 1]
    /\ configmapAdapters' = [configmapAdapters EXCEPT ![n] = data.adapters]
    /\ RecordUpdate(n, data)

\* The counter only counts a ConfigMap when it is added.
configMapUpdateOrAddIfNotExist(n, data) ==
    /\ LET adaptersToRemove == (IF Tracked(n) THEN configmapAdapters[n] ELSE {}) \ data.adapters
       IN  loraAdapterToBaseModel' =
               [a \in Adapters |-> IF a \in data.adapters THEN data.base
                                   ELSE IF a \in adaptersToRemove THEN None
                                   ELSE loraAdapterToBaseModel[a]]
    /\ baseModels' = IF Tracked(n) THEN baseModels
                     ELSE [baseModels EXCEPT ![data.base] = IF @ # None THEN @ + 1 ELSE 1]
    /\ configmapAdapters' = [configmapAdapters EXCEPT ![n] = data.adapters]
    /\ RecordUpdate(n, data)

\* baseModels after the counter of base went down; an absent one reads as 0.
Discount(base) ==
    [baseModels EXCEPT ![base] = IF @ = None THEN -1 ELSE IF @ = 1 THEN None ELSE @ - 1]

\* data is the ConfigMap as it is now; without a base model nothing is discounted.
configMapDelete(n, data) ==
    IF ~Tracked(n) THEN UNCHANGED storeVars
    ELSE /\ loraAdapterToBaseModel' =
                [a \in Adapters |-> IF a \in configmapAdapters[n] THEN None
                                    ELSE loraAdapterToBaseModel[a]]
         /\ configmapAdapters' = [configmapAdapters EXCEPT ![n] = None]
         /\ baseModels' = IF data.base = None THEN baseModels ELSE Discount(data.base)
         /\ RecordDelete(n, data)

\* What ProcessRequest writes to the base-model header for a model name; None
\* is the empty string.
getBaseModel(name) ==
    IF name \in Adapters /\ loraAdapterToBaseModel[name] # None
    THEN loraAdapterToBaseModel[name]
    ELSE IF name \in Bases /\ baseModels[name] # None THEN name ELSE None

-----------------------------------------------------------------------------
(***************************************************************************)
(* The cluster.  The predicate passes an update when the old or the new    *)
(* object is labelled, and any other event when its object is.             *)
(***************************************************************************)
\* Mutants: only the new, or only the old object is looked at.
predicateNewOnly(old, new) ==
    IF new # None THEN new.labelled ELSE old.labelled
predicateOldOnly(old, new) ==
    IF old # None THEN old.labelled ELSE new.labelled

ippManagedPredicate(old, new) ==
    \/ old # None /\ old.labelled
    \/ new # None /\ new.labelled

Change(n, new) ==
    /\ edits < MaxEdits /\ cluster[n] # new
    /\ edits' = edits + 1
    /\ cluster' = [cluster EXCEPT ![n] = new]
    /\ queue' = IF ippManagedPredicate(cluster[n], new) THEN queue \cup {n} ELSE queue
    /\ UNCHANGED storeVars

CreateOrUpdate(n) ==
    /\ \E data \in Contents[n], labelled \in BOOLEAN :
          Change(n, ConfigMap(data, labelled, cluster[n] # None /\ cluster[n].deleting))
    /\ UNCHANGED vanished

\* The object has a finalizer: a deletion timestamp is set first.
MarkForDeletion(n) ==
    /\ cluster[n] # None
    /\ Change(n, [cluster[n] EXCEPT !.deleting = TRUE])
    /\ UNCHANGED vanished

Remove(n) ==
    /\ Change(n, None)
    /\ vanished' = vanished \cup {n}

(***************************************************************************)
(* The reconciler.  When the object is gone, Get leaves the ConfigMap it   *)
(* was passed empty, and so its name: configMapDelete finds nothing.  An   *)
(* error puts the request back.                                            *)
(***************************************************************************)
ReconcileNotFound(n) ==
    /\ n \in queue /\ cluster[n] = None
    /\ queue' = queue \ {n}
    /\ UNCHANGED <<clusterVars, storeVars, vanished>>

Managed(n) == cluster[n] # None /\ cluster[n].labelled /\ ~cluster[n].deleting

ReconcileDelete(n) ==
    /\ n \in queue /\ cluster[n] # None /\ ~Managed(n)
    /\ queue' = queue \ {n}
    /\ configMapDelete(n, cluster[n].data)
    /\ vanished' = vanished \ {n}
    /\ UNCHANGED clusterVars

\* Mutant: a parse error is dropped, and what came is recorded, mapping nothing.
ReconcileUpdateUnchecked(n) ==
    /\ n \in queue /\ Managed(n)
    /\ queue' = queue \ {n}
    /\ IF parses(cluster[n].data) THEN configMapUpdateOrAddIfNotExist(n, cluster[n].data)
       ELSE /\ configmapAdapters' = [configmapAdapters EXCEPT ![n] = cluster[n].data.adapters]
            /\ UNCHANGED <<loraAdapterToBaseModel, baseModels, countedBase, skewed, contested>>
    /\ vanished' = vanished \ {n}
    /\ UNCHANGED clusterVars

ReconcileUpdate(n) ==
    /\ n \in queue /\ Managed(n) /\ parses(cluster[n].data)
    /\ queue' = queue \ {n}
    /\ configMapUpdateOrAddIfNotExist(n, cluster[n].data)
    /\ vanished' = vanished \ {n}
    /\ UNCHANGED clusterVars

Init ==
    /\ cluster = [n \in Names |-> None]
    /\ queue = {} /\ edits = 0 /\ vanished = {}
    /\ loraAdapterToBaseModel = [a \in Adapters |-> None]
    /\ configmapAdapters = [n \in Names |-> None]
    /\ baseModels = [b \in Bases |-> None]
    /\ countedBase = [n \in Names |-> None] /\ skewed = {} /\ contested = {}

Reconcile(n) == ReconcileNotFound(n) \/ ReconcileDelete(n) \/ ReconcileUpdate(n)

Next == \E n \in Names : \/ CreateOrUpdate(n) \/ MarkForDeletion(n) \/ Remove(n)
                         \/ Reconcile(n)

Spec == Init /\ [][Next]_vars

\* controller-runtime serves every queued request.
FairSpec == Spec /\ \A n \in Names : WF_vars(Reconcile(n))

-----------------------------------------------------------------------------
(***************************************************************************)
(* Properties.                                                             *)
(***************************************************************************)
ConfigMaps == [data : Data, labelled : BOOLEAN, deleting : BOOLEAN]

\* Every variable has its type; in particular no adapter list that does not
\* parse is ever recorded.
TypeOK ==
    /\ cluster \in [Names -> ConfigMaps \cup {None}]
    /\ queue \subseteq Names /\ vanished \subseteq Names /\ edits \in 0..MaxEdits
    /\ loraAdapterToBaseModel \in [Adapters -> Bases \cup {None}]
    /\ \A n \in Names : configmapAdapters[n] # Malformed
    /\ configmapAdapters \in [Names -> {None} \cup SUBSET Adapters]
    /\ baseModels \in [Bases -> Int \cup {None}]
    /\ countedBase \in [Names -> Bases \cup {None}]
    /\ skewed \subseteq Bases /\ contested \subseteq Adapters

\* Whatever ConfigMaps do, shared adapters, changed base models and failed
\* parses included, an adapter that resolves to a base model is on the list
\* recorded for some ConfigMap: removing a ConfigMap's entry removes its
\* mappings.
NoPhantomAdapters ==
    \A a \in Adapters : loraAdapterToBaseModel[a] # None =>
        \E n \in Names : Tracked(n) /\ a \in configmapAdapters[n]

\* The ConfigMaps counted under b: those added with it, whatever base model
\* they name by now.
Holders(b) == {n \in Names : Tracked(n) /\ countedBase[n] = b}

\* A base model's counter is the number of ConfigMaps that were added with it
\* and not deleted since: an edit of a ConfigMap's list, or of its baseModel,
\* never counts again ("update count only if this configmap is added",
\* adapters_store.go:91).  The exception is the code's: deleting a ConfigMap
\* whose baseModel was edited or dropped since it was added leaves the old
\* base model counted and discounts the new one (:123-131), and the counters
\* of these two are wrong from then on.
BaseModelCounts ==
    \A b \in Bases \ skewed :
        baseModels[b] = IF Holders(b) = {} THEN None ELSE Cardinality(Holders(b))

\* n is served as data says: its list is recorded, the adapters on it that no
\* other ConfigMap claims resolve to its base model, and so does the base model
\* itself if some ConfigMap is counted under it and it is no adapter's name.
Serves(n, data) ==
    /\ configmapAdapters[n] = data.adapters
    /\ \A a \in data.adapters \ contested : getBaseModel(a) = data.base
    /\ Holders(data.base) # {} /\ data.base \notin skewed \cup Adapters
           => getBaseModel(data.base) = data.base

\* With no request pending for it, a managed ConfigMap is served as it is in
\* the cluster, its latest baseModel and list, whatever edits and reconciles
\* came before, and one that lost its label or is marked for deletion is
\* forgotten, unless its object disappeared in between.  It is not said that
\* the base model itself resolves after baseModel was edited: nothing counts
\* the new name (adapters_store.go:91-98).
StoreMirrorsCluster ==
    \A n \in Names \ (queue \cup vanished) :
        IF Managed(n) THEN Serves(n, cluster[n].data) ELSE ~Tracked(n)

\* Once the cluster is at rest, every managed ConfigMap that parses is served
\* for good, in the sense of Serves: its adapters follow the last edit of its
\* list and of its baseModel.  An edited baseModel may itself stay unresolved.
EventuallyServed ==
    \A n \in Names :
        <>[](Managed(n) /\ parses(cluster[n].data) => Serves(n, cluster[n].data))

\* "A name that matches nothing yields an empty base-model header"
\* (docs/configuration.md:224), and ConfigMaps are loaded "at runtime - no IPP
\* restart is needed when they change" (:193): with no request pending and
\* every ConfigMap removed from the cluster, no adapter resolves.
UnlistedResolvesToNothing ==
    queue = {} /\ (\A n \in Names : cluster[n] = None) =>
        \A a \in Adapters : getBaseModel(a) = None
=============================================================================
