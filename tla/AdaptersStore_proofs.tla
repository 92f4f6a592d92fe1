------------------------ MODULE AdaptersStore_proofs ------------------------
(***************************************************************************)
(* The adapters store for every set of ConfigMaps, base models, adapters   *)
(* and data sections: shared adapter names, edited base models and lists   *)
(* that do not parse included.                                             *)
(***************************************************************************)
EXTENDS AdaptersStore, FiniteSetTheorems, TLAPS

\* The empty store and the empty cluster (NewAdaptersStore).
LEMMA StoreInit == Init => TypeOK /\ NoPhantomAdapters
BY AdaptersAssumption DEF Init, TypeOK, NoPhantomAdapters

\* A change of one ConfigMap keeps the types of the cluster and of the queue.
LEMMA ChangeTyped ==
    ASSUME TypeOK, NEW n \in Names, NEW new \in ConfigMaps \cup {None}, Change(n, new)
    PROVE  /\ cluster' \in [Names -> ConfigMaps \cup {None}]
           /\ queue' \subseteq Names
           /\ edits' \in 0..MaxEdits
BY AdaptersAssumption DEF TypeOK, Change

\* configMapUpdateOrAddIfNotExist keeps the store's types and phantom-free:
\* what it maps is on the list it records, what it drops was on that list only.
LEMMA UpdateSound ==
    ASSUME TypeOK, NoPhantomAdapters, NEW n \in Names, NEW data \in Data, parses(data),
           configMapUpdateOrAddIfNotExist(n, data)
    PROVE  /\ loraAdapterToBaseModel' \in [Adapters -> Bases \cup {None}]
           /\ configmapAdapters' \in [Names -> {None} \cup SUBSET Adapters]
           /\ baseModels' \in [Bases -> Int \cup {None}]
           /\ countedBase' \in [Names -> Bases \cup {None}]
           /\ skewed' \subseteq Bases /\ contested' \subseteq Adapters
           /\ NoPhantomAdapters'
<1> USE DEF configMapUpdateOrAddIfNotExist
<1>1. data.base \in Bases /\ data.adapters \in SUBSET Adapters
    BY DEF Data, parses
<1>2. loraAdapterToBaseModel' \in [Adapters -> Bases \cup {None}]
    BY <1>1 DEF TypeOK
<1>3. configmapAdapters' \in [Names -> {None} \cup SUBSET Adapters]
    BY <1>1 DEF TypeOK
<1>4. baseModels' \in [Bases -> Int \cup {None}]
    BY <1>1, AdaptersAssumption DEF TypeOK
<1>5. /\ countedBase' \in [Names -> Bases \cup {None}]
      /\ skewed' \subseteq Bases /\ contested' \subseteq Adapters
    BY <1>1 DEF TypeOK, RecordUpdate
<1>6. NoPhantomAdapters'
  <2> SUFFICES ASSUME NEW a \in Adapters, loraAdapterToBaseModel'[a] # None
               PROVE  \E k \in Names : configmapAdapters'[k] # None /\ a \in configmapAdapters'[k]
      BY DEF NoPhantomAdapters, Tracked
  <2>1. configmapAdapters'[n] = data.adapters
      BY DEF TypeOK
  <2>2. CASE a \in data.adapters
      BY <2>1, <2>2, <1>1, AdaptersAssumption
  <2>3. CASE a \notin data.adapters
    <3>1. loraAdapterToBaseModel[a] # None
        BY <2>3
    <3>2. PICK k \in Names : Tracked(k) /\ a \in configmapAdapters[k]
        BY <3>1 DEF NoPhantomAdapters
    <3>3. k # n
        BY <3>2, <2>3
    <3>4. configmapAdapters'[k] = configmapAdapters[k]
        BY <3>3 DEF TypeOK
    <3> QED
        BY <3>2, <3>4 DEF Tracked
  <2> QED
      BY <2>2, <2>3
<1> QED
    BY <1>2, <1>3, <1>4, <1>5, <1>6

\* configMapDelete does so too: the mappings on the deleted list go with it.
LEMMA DeleteSound ==
    ASSUME TypeOK, NoPhantomAdapters, NEW n \in Names, NEW data \in Data,
           configMapDelete(n, data)
    PROVE  /\ loraAdapterToBaseModel' \in [Adapters -> Bases \cup {None}]
           /\ configmapAdapters' \in [Names -> {None} \cup SUBSET Adapters]
           /\ baseModels' \in [Bases -> Int \cup {None}]
           /\ countedBase' \in [Names -> Bases \cup {None}]
           /\ skewed' \subseteq Bases /\ contested' \subseteq Adapters
           /\ NoPhantomAdapters'
<1>1. CASE ~Tracked(n)
    BY <1>1 DEF configMapDelete, storeVars, TypeOK, NoPhantomAdapters, Tracked
<1>2. CASE Tracked(n)
  <2> USE <1>2 DEF configMapDelete
  <2>1. loraAdapterToBaseModel' \in [Adapters -> Bases \cup {None}]
      BY DEF TypeOK
  <2>2. configmapAdapters' \in [Names -> {None} \cup SUBSET Adapters]
      BY DEF TypeOK
  <2>3. baseModels' \in [Bases -> Int \cup {None}]
    <3>1. CASE data.base = None
        BY <3>1 DEF TypeOK
    <3>2. CASE data.base # None
      <4>1. data.base \in Bases
          BY <3>2 DEF Data
      <4> QED
          BY <3>2, <4>1, AdaptersAssumption DEF TypeOK, Discount
    <3> QED
        BY <3>1, <3>2
  <2>4. /\ countedBase' \in [Names -> Bases \cup {None}]
        /\ skewed' \subseteq Bases /\ contested' \subseteq Adapters
      BY DEF TypeOK, RecordDelete, Data
  <2>5. NoPhantomAdapters'
    <3> SUFFICES ASSUME NEW a \in Adapters, loraAdapterToBaseModel'[a] # None
                 PROVE  \E k \in Names : configmapAdapters'[k] # None /\ a \in configmapAdapters'[k]
        BY DEF NoPhantomAdapters, Tracked
    <3>1. a \notin configmapAdapters[n] /\ loraAdapterToBaseModel[a] # None
        OBVIOUS
    <3>2. PICK k \in Names : Tracked(k) /\ a \in configmapAdapters[k]
        BY <3>1 DEF NoPhantomAdapters
    <3>3. configmapAdapters'[k] = configmapAdapters[k]
        BY <3>1, <3>2 DEF TypeOK
    <3> QED
        BY <3>2, <3>3 DEF Tracked
  <2> QED
      BY <2>1, <2>2, <2>3, <2>4, <2>5
<1> QED
    BY <1>1, <1>2

\* A recorded list is a set of adapters or absent, never one that did not parse.
LEMMA RecordedParses ==
    ASSUME NEW recorded \in [Names -> {None} \cup SUBSET Adapters], NEW n \in Names
    PROVE  recorded[n] # Malformed
BY AdaptersAssumption

\* Every step of the cluster and of the reconciler preserves both.
LEMMA StoreNext ==
    ASSUME TypeOK, NoPhantomAdapters, [Next]_vars
    PROVE  TypeOK' /\ NoPhantomAdapters'
<1>1. CASE UNCHANGED vars
    BY <1>1 DEF vars, clusterVars, storeVars, TypeOK, NoPhantomAdapters, Tracked
<1>2. ASSUME NEW n \in Names, CreateOrUpdate(n)
      PROVE  TypeOK' /\ NoPhantomAdapters'
  <2>1. PICK data \in Contents[n], labelled \in BOOLEAN :
           Change(n, ConfigMap(data, labelled, cluster[n] # None /\ cluster[n].deleting))
      BY <1>2 DEF CreateOrUpdate
  <2>2. data \in Data
      BY AdaptersAssumption
  <2>3. (cluster[n] # None /\ cluster[n].deleting) \in BOOLEAN
      BY DEF TypeOK, ConfigMaps
  <2>4. ConfigMap(data, labelled, cluster[n] # None /\ cluster[n].deleting) \in ConfigMaps
      BY <2>2, <2>3 DEF ConfigMap, ConfigMaps
  <2>5. /\ cluster' \in [Names -> ConfigMaps \cup {None}]
        /\ queue' \subseteq Names /\ edits' \in 0..MaxEdits
      BY <2>1, <2>4, ChangeTyped
  <2> QED
      BY <1>2, <2>1, <2>5 DEF CreateOrUpdate, Change, storeVars, TypeOK, NoPhantomAdapters, Tracked
<1>3. ASSUME NEW n \in Names, MarkForDeletion(n)
      PROVE  TypeOK' /\ NoPhantomAdapters'
  <2>1. [cluster[n] EXCEPT !.deleting = TRUE] \in ConfigMaps
      BY <1>3 DEF MarkForDeletion, TypeOK, ConfigMaps
  <2>2. /\ cluster' \in [Names -> ConfigMaps \cup {None}]
        /\ queue' \subseteq Names /\ edits' \in 0..MaxEdits
      BY <1>3, <2>1, ChangeTyped DEF MarkForDeletion
  <2> QED
      BY <1>3, <2>2 DEF MarkForDeletion, Change, storeVars, TypeOK, NoPhantomAdapters, Tracked
<1>4. ASSUME NEW n \in Names, Remove(n)
      PROVE  TypeOK' /\ NoPhantomAdapters'
  <2>1. /\ cluster' \in [Names -> ConfigMaps \cup {None}]
        /\ queue' \subseteq Names /\ edits' \in 0..MaxEdits
      BY <1>4, ChangeTyped DEF Remove
  <2> QED
      BY <1>4, <2>1 DEF Remove, Change, storeVars, TypeOK, NoPhantomAdapters, Tracked
<1>5. ASSUME NEW n \in Names, ReconcileNotFound(n)
      PROVE  TypeOK' /\ NoPhantomAdapters'
    BY <1>5 DEF ReconcileNotFound, clusterVars, storeVars, TypeOK, NoPhantomAdapters, Tracked
<1>6. ASSUME NEW n \in Names, ReconcileDelete(n)
      PROVE  TypeOK' /\ NoPhantomAdapters'
  <2>1. cluster[n].data \in Data
      BY <1>6 DEF ReconcileDelete, TypeOK, ConfigMaps
  <2> QED
      BY <1>6, <2>1, DeleteSound, RecordedParses DEF ReconcileDelete, clusterVars, TypeOK
<1>7. ASSUME NEW n \in Names, ReconcileUpdate(n)
      PROVE  TypeOK' /\ NoPhantomAdapters'
  <2>1. cluster[n].data \in Data
      BY <1>7 DEF ReconcileUpdate, Managed, TypeOK, ConfigMaps
  <2> QED
      BY <1>7, <2>1, UpdateSound, RecordedParses DEF ReconcileUpdate, clusterVars, TypeOK
<1> QED
    BY <1>1, <1>2, <1>3, <1>4, <1>5, <1>6, <1>7 DEF Next, Reconcile

\* The store and the cluster keep their types (adapters_store.go).
THEOREM StoreTypeCorrect == Spec => []TypeOK
<1>1. Init => TypeOK /\ NoPhantomAdapters
    BY StoreInit
<1>2. TypeOK /\ NoPhantomAdapters /\ [Next]_vars => TypeOK' /\ NoPhantomAdapters'
    BY StoreNext
<1> QED
    BY <1>1, <1>2, PTL DEF Spec

\* An adapter that resolves is on the list recorded for some ConfigMap, with no
\* assumption on what ConfigMaps contain (configMapUpdateOrAddIfNotExist, configMapDelete).
THEOREM StoreNoPhantomAdapters == Spec => []NoPhantomAdapters
<1>1. Init => TypeOK /\ NoPhantomAdapters
    BY StoreInit
<1>2. TypeOK /\ NoPhantomAdapters /\ [Next]_vars => TypeOK' /\ NoPhantomAdapters'
    BY StoreNext
<1> QED
    BY <1>1, <1>2, PTL DEF Spec

-----------------------------------------------------------------------------
(***************************************************************************)
(* The counters of the base models.                                        *)
(***************************************************************************)
\* A recorded ConfigMap was counted under some base model.
RecordedCounted == \A n \in Names : Tracked(n) => countedBase[n] # None

\* The number of ConfigMaps counted under a base model is a number, and not the
\* absent counter.
LEMMA HoldersFinite ==
    ASSUME NEW b
    PROVE  /\ IsFiniteSet(Holders(b)) /\ Cardinality(Holders(b)) \in Nat
           /\ Cardinality(Holders(b)) # None
           /\ Cardinality(Holders(b)) = 0 <=> Holders(b) = {}
<1>1. IsFiniteSet(Holders(b))
    BY FS_Subset, Holders(b) \subseteq Names, AdaptersAssumption DEF Holders
<1>2. Cardinality(Holders(b)) \in Nat
    BY <1>1, FS_CardinalityType
<1>3. Cardinality(Holders(b)) = 0 <=> Holders(b) = {}
    BY <1>1, FS_EmptySet
<1> QED
    BY <1>1, <1>2, <1>3, AdaptersAssumption

\* configMapUpdateOrAddIfNotExist counts the ConfigMap under the base model it
\* names exactly when nothing was recorded for it before.
LEMMA UpdateCounts ==
    ASSUME TypeOK, RecordedCounted, BaseModelCounts,
           NEW n \in Names, NEW data \in Data, parses(data),
           configMapUpdateOrAddIfNotExist(n, data)
    PROVE  RecordedCounted' /\ BaseModelCounts'
<1> USE DEF configMapUpdateOrAddIfNotExist
<1>1. data.base \in Bases /\ data.adapters \in SUBSET Adapters
    BY DEF Data, parses
<1>2. /\ configmapAdapters'[n] = data.adapters /\ data.adapters # None /\ skewed' = skewed
      /\ \A k \in Names \ {n} : configmapAdapters'[k] = configmapAdapters[k]
    BY <1>1, AdaptersAssumption DEF TypeOK, RecordUpdate
<1>3. CASE Tracked(n)
  <2>1. countedBase' = countedBase
      BY <1>3 DEF RecordUpdate
  <2>2. ASSUME NEW b \in Bases PROVE Holders(b)' = Holders(b)
      BY <2>1, <1>2, <1>3 DEF Holders, Tracked
  <2>3. RecordedCounted'
      BY <2>1, <1>2, <1>3 DEF RecordedCounted, Tracked
  <2> QED
      BY <1>2, <1>3, <2>2, <2>3 DEF BaseModelCounts
<1>4. CASE ~Tracked(n)
  <2>1. /\ countedBase'[n] = data.base
        /\ \A k \in Names \ {n} : countedBase'[k] = countedBase[k]
      BY <1>4 DEF RecordUpdate, TypeOK
  <2>2. RecordedCounted'
      BY <1>1, <1>2, <2>1, AdaptersAssumption DEF RecordedCounted, Tracked
  <2>3. ASSUME NEW b \in Bases \ skewed
        PROVE  baseModels'[b] = IF Holders(b)' = {} THEN None ELSE Cardinality(Holders(b)')
    <3>1. CASE b # data.base
      <4>1. Holders(b)' = Holders(b)
          BY <3>1, <2>1, <1>2, <1>4 DEF Holders, Tracked
      <4>2. baseModels'[b] = baseModels[b]
          BY <3>1, <1>1, <1>4 DEF TypeOK
      <4> QED
          BY <4>1, <4>2 DEF BaseModelCounts
    <3>2. CASE b = data.base
      <4>1. Holders(b)' = Holders(b) \cup {n} /\ n \notin Holders(b)
          BY <3>2, <2>1, <1>2, <1>4 DEF Holders, Tracked
      <4>2. baseModels'[b] = IF baseModels[b] # None THEN baseModels[b] + 1 ELSE 1
          BY <3>2, <1>1, <1>4 DEF TypeOK
      <4>3. Cardinality(Holders(b) \cup {n}) = Cardinality(Holders(b)) + 1
          BY <4>1, HoldersFinite, FS_AddElement
      <4> QED
          BY <4>1, <4>2, <4>3, HoldersFinite DEF BaseModelCounts
    <3> QED
        BY <3>1, <3>2
  <2> QED
      BY <1>2, <2>2, <2>3 DEF BaseModelCounts
<1> QED
    BY <1>3, <1>4

\* configMapDelete discounts the base model the ConfigMap was counted under, or
\* leaves the counters it puts wrong among the skewed ones.
LEMMA DeleteCounts ==
    ASSUME TypeOK, RecordedCounted, BaseModelCounts,
           NEW n \in Names, NEW data \in Data, configMapDelete(n, data)
    PROVE  RecordedCounted' /\ BaseModelCounts'
<1>1. CASE ~Tracked(n)
    BY <1>1 DEF configMapDelete, storeVars, RecordedCounted, BaseModelCounts, Holders, Tracked
<1>2. CASE Tracked(n)
  <2> USE <1>2 DEF configMapDelete
  <2>1. countedBase[n] \in Bases /\ countedBase[n] # None
      BY DEF RecordedCounted, TypeOK
  <2>2. /\ configmapAdapters'[n] = None
        /\ \A k \in Names \ {n} : /\ configmapAdapters'[k] = configmapAdapters[k]
                                 /\ countedBase'[k] = countedBase[k]
      BY DEF TypeOK, RecordDelete
  <2>3. RecordedCounted'
      BY <2>2 DEF RecordedCounted, Tracked
  <2>4. ASSUME NEW b \in Bases, b # countedBase[n]
        PROVE  Holders(b)' = Holders(b)
      BY <2>2, <2>4 DEF Holders, Tracked
  <2>5. CASE data.base # countedBase[n]
    <3>1. ASSUME NEW b \in Bases, b \notin skewed'
          PROVE  b \notin skewed /\ b # countedBase[n] /\ b # data.base
        BY <3>1, <2>1, <2>5, AdaptersAssumption DEF RecordDelete
    <3>2. ASSUME NEW b \in Bases, b # data.base
          PROVE  baseModels'[b] = baseModels[b]
        BY <3>2 DEF TypeOK, Discount
    <3> QED
        BY <2>3, <2>4, <3>1, <3>2 DEF BaseModelCounts
  <2>6. CASE data.base = countedBase[n]
    <3>1. skewed' = skewed /\ baseModels' = Discount(data.base)
        BY <2>1, <2>6 DEF RecordDelete
    <3>2. ASSUME NEW b \in Bases, b \notin skewed, b # data.base
          PROVE  baseModels'[b] = IF Holders(b)' = {} THEN None ELSE Cardinality(Holders(b)')
      <4>1. baseModels'[b] = baseModels[b]
          BY <3>1, <3>2 DEF TypeOK, Discount
      <4> QED
          BY <2>4, <2>6, <3>2, <4>1 DEF BaseModelCounts
    <3>3. ASSUME NEW b \in Bases, b \notin skewed, b = data.base
          PROVE  baseModels'[b] = IF Holders(b)' = {} THEN None ELSE Cardinality(Holders(b)')
      <4>1. Holders(b)' = Holders(b) \ {n} /\ n \in Holders(b)
          BY <2>2, <2>6, <3>3 DEF Holders, Tracked
      <4>2. baseModels[b] = Cardinality(Holders(b))
          BY <4>1, <3>3 DEF BaseModelCounts
      <4>3. Cardinality(Holders(b) \ {n}) = Cardinality(Holders(b)) - 1
          BY <4>1, HoldersFinite, FS_RemoveElement
      <4>4. IsFiniteSet(Holders(b) \ {n}) /\ Cardinality(Holders(b) \ {n}) \in Nat
          BY HoldersFinite, FS_RemoveElement, FS_CardinalityType, <4>1
      <4>5. Cardinality(Holders(b) \ {n}) = 0 <=> Holders(b) \ {n} = {}
          BY <4>4, FS_EmptySet
      <4>6. baseModels'[b] = IF baseModels[b] = 1 THEN None ELSE baseModels[b] - 1
          BY <3>1, <3>3, <4>2, HoldersFinite DEF TypeOK, Discount
      <4> QED
          BY <4>1, <4>2, <4>3, <4>4, <4>5, <4>6, HoldersFinite
    <3> QED
        BY <2>3, <3>1, <3>2, <3>3 DEF BaseModelCounts
  <2> QED
      BY <2>5, <2>6
<1> QED
    BY <1>1, <1>2

\* Every step keeps the counters that no delete after an edit has touched.
LEMMA CountsNext ==
    ASSUME TypeOK, RecordedCounted, BaseModelCounts, [Next]_vars
    PROVE  RecordedCounted' /\ BaseModelCounts'
<1> USE DEF Tracked
<1>1. ASSUME UNCHANGED storeVars PROVE RecordedCounted' /\ BaseModelCounts'
    BY <1>1 DEF storeVars, RecordedCounted, BaseModelCounts, Holders
<1>2. ASSUME NEW n \in Names, CreateOrUpdate(n) \/ MarkForDeletion(n) \/ Remove(n)
      PROVE  UNCHANGED storeVars
    BY <1>2 DEF CreateOrUpdate, MarkForDeletion, Remove, Change
<1>3. ASSUME NEW n \in Names, ReconcileDelete(n)
      PROVE  RecordedCounted' /\ BaseModelCounts'
  <2>1. cluster[n].data \in Data /\ configMapDelete(n, cluster[n].data)
      BY <1>3 DEF ReconcileDelete, TypeOK, ConfigMaps
  <2> QED
      BY <2>1, DeleteCounts
<1>4. ASSUME NEW n \in Names, ReconcileUpdate(n)
      PROVE  RecordedCounted' /\ BaseModelCounts'
  <2>1. /\ cluster[n].data \in Data /\ parses(cluster[n].data)
        /\ configMapUpdateOrAddIfNotExist(n, cluster[n].data)
      BY <1>4 DEF ReconcileUpdate, Managed, TypeOK, ConfigMaps
  <2> QED
      BY <2>1, UpdateCounts
<1> QED
    BY <1>1, <1>2, <1>3, <1>4 DEF Next, Reconcile, ReconcileNotFound, vars

\* Nothing is recorded and nothing counted at first (NewAdaptersStore).
LEMMA CountsInit == ASSUME Init PROVE RecordedCounted /\ BaseModelCounts
BY DEF Init, RecordedCounted, BaseModelCounts, Holders, Tracked

\* Each counter of baseModels is the number of ConfigMaps added with that base
\* model and not deleted since, for any ConfigMaps, edits of their base models
\* included, and reconciles in any order; only a delete of a ConfigMap whose
\* baseModel was edited puts counters wrong, those of the two base models
\* involved (configMapUpdateOrAddIfNotExist, configMapDelete).
THEOREM StoreBaseModelCounts == Spec => []BaseModelCounts
<1> DEFINE Inv == TypeOK /\ NoPhantomAdapters /\ RecordedCounted /\ BaseModelCounts
<1>1. Init => Inv
    BY StoreInit, CountsInit
<1>2. Inv /\ [Next]_vars => Inv'
    BY StoreNext, CountsNext
<1> QED
    BY <1>1, <1>2, PTL DEF Spec

-----------------------------------------------------------------------------
(***************************************************************************)
(* The store mirrors the cluster.                                          *)
(***************************************************************************)
\* An adapter on two recorded lists is contested.
SharedContested ==
    \A k, n \in Names : k # n /\ Tracked(k) /\ Tracked(n)
        => configmapAdapters[k] \cap configmapAdapters[n] \subseteq contested

\* A name that was never removed, or was reconciled since, and has no object has
\* no entry.
GoneForgotten ==
    \A n \in Names : cluster[n] = None /\ n \notin vanished => ~Tracked(n)

\* What is recorded of a name with no pending request is its list in the cluster,
\* and the uncontested adapters on it are mapped to its base model there.
RecordedCurrent ==
    \A n \in Names \ (queue \cup vanished) :
        IF Managed(n)
        THEN /\ Tracked(n) /\ configmapAdapters[n] = cluster[n].data.adapters
             /\ cluster[n].data.base # None
             /\ \A a \in configmapAdapters[n] \ contested :
                   loraAdapterToBaseModel[a] = cluster[n].data.base
        ELSE ~Tracked(n)

MirrorInv == SharedContested /\ GoneForgotten /\ RecordedCurrent

\* A reconcile of one name leaves the adapters of every other name mapped as
\* they were, or contested.
LEMMA OthersKeepMapping ==
    ASSUME TypeOK, SharedContested, NEW n \in Names, NEW k \in Names \ {n}, Tracked(k),
           NEW a \in configmapAdapters[k], a \notin contested',
           \/ configMapDelete(n, cluster[n].data)
           \/ /\ cluster[n] # None /\ parses(cluster[n].data)
              /\ configMapUpdateOrAddIfNotExist(n, cluster[n].data)
    PROVE  a \notin contested /\ loraAdapterToBaseModel'[a] = loraAdapterToBaseModel[a]
<1>1. a \in Adapters
    BY DEF TypeOK, Tracked
<1>2. Tracked(n) /\ a \in configmapAdapters[n] => a \in contested
    BY DEF SharedContested
<1>3. CASE configMapDelete(n, cluster[n].data)
  <2>1. a \notin contested
      BY <1>3 DEF configMapDelete, RecordDelete, storeVars
  <2> QED
      BY <1>1, <1>2, <1>3, <2>1 DEF configMapDelete, storeVars
<1>4. CASE /\ cluster[n] # None /\ parses(cluster[n].data)
           /\ configMapUpdateOrAddIfNotExist(n, cluster[n].data)
  <2>1. a \notin cluster[n].data.adapters
      BY <1>4 DEF configMapUpdateOrAddIfNotExist, RecordUpdate
  <2>2. a \notin contested
      BY <1>4, <2>1 DEF configMapUpdateOrAddIfNotExist, RecordUpdate
  <2> QED
      BY <1>1, <1>2, <1>4, <2>1, <2>2 DEF configMapUpdateOrAddIfNotExist
<1> QED
    BY <1>3, <1>4

\* A change of a ConfigMap either queues its name or is of an object that was
\* and stays unmanaged; the predicate sees the old and the new object.
LEMMA MirrorChange ==
    ASSUME TypeOK, MirrorInv, NEW n \in Names, NEW new \in ConfigMaps \cup {None},
           Change(n, new),
           \/ new = None /\ vanished' = vanished \cup {n}
           \/ new # None /\ UNCHANGED vanished
    PROVE  MirrorInv'
<1> USE DEF Change, storeVars, Tracked
<1>1. SharedContested'
    BY DEF MirrorInv, SharedContested
<1>2. GoneForgotten'
    BY DEF MirrorInv, GoneForgotten, TypeOK
<1>3. RecordedCurrent'
  <2>1. ASSUME NEW k \in Names, k \notin queue', k \notin vanished'
        PROVE  /\ k \notin queue /\ k \notin vanished
               /\ \/ cluster'[k] = cluster[k]
                  \/ ~Managed(k) /\ ~Managed(k)'
    <3>1. k \notin queue /\ k \notin vanished
        BY <2>1
    <3>2. CASE k # n
        BY <3>1, <3>2 DEF TypeOK
    <3>3. CASE k = n
      <4>1. ~ippManagedPredicate(cluster[n], new) /\ cluster'[n] = new
          BY <2>1, <3>3 DEF TypeOK
      <4> QED
          BY <3>1, <3>3, <4>1 DEF ippManagedPredicate, Managed
    <3> QED
        BY <3>2, <3>3
  <2> QED
      BY <2>1 DEF MirrorInv, RecordedCurrent, Managed
<1> QED
    BY <1>1, <1>2, <1>3 DEF MirrorInv

\* Every step keeps what is recorded in step with the cluster.
LEMMA MirrorNext ==
    ASSUME TypeOK, MirrorInv, [Next]_vars
    PROVE  MirrorInv'
<1> USE DEF Tracked
<1>1. CASE UNCHANGED vars
    BY <1>1 DEF vars, clusterVars, storeVars, MirrorInv, SharedContested, GoneForgotten,
                RecordedCurrent, Managed
<1>2. ASSUME NEW n \in Names, CreateOrUpdate(n) PROVE MirrorInv'
  <2>1. PICK data \in Contents[n], labelled \in BOOLEAN :
           Change(n, ConfigMap(data, labelled, cluster[n] # None /\ cluster[n].deleting))
      BY <1>2 DEF CreateOrUpdate
  <2>2. (cluster[n] # None /\ cluster[n].deleting) \in BOOLEAN /\ data \in Data
      BY AdaptersAssumption DEF TypeOK, ConfigMaps
  <2>3. ConfigMap(data, labelled, cluster[n] # None /\ cluster[n].deleting) \in ConfigMaps
      BY <2>2 DEF ConfigMap, ConfigMaps
  <2> QED
      BY <1>2, <2>1, <2>3, MirrorChange, AdaptersAssumption DEF CreateOrUpdate, ConfigMaps
<1>3. ASSUME NEW n \in Names, MarkForDeletion(n) PROVE MirrorInv'
  <2>1. [cluster[n] EXCEPT !.deleting = TRUE] \in ConfigMaps
      BY <1>3 DEF MarkForDeletion, TypeOK, ConfigMaps
  <2> QED
      BY <1>3, <2>1, MirrorChange, AdaptersAssumption DEF MarkForDeletion, ConfigMaps
<1>4. ASSUME NEW n \in Names, Remove(n) PROVE MirrorInv'
    BY <1>4, MirrorChange DEF Remove
<1>5. ASSUME NEW n \in Names, ReconcileNotFound(n) PROVE MirrorInv'
    BY <1>5 DEF ReconcileNotFound, clusterVars, storeVars, MirrorInv, SharedContested, GoneForgotten,
                RecordedCurrent, Managed
<1>6. ASSUME NEW n \in Names, ReconcileDelete(n) PROVE MirrorInv'
  <2> USE <1>6 DEF ReconcileDelete, clusterVars
  <2>1. /\ ~Tracked(n)' /\ contested' = contested
        /\ \A k \in Names \ {n} : configmapAdapters'[k] = configmapAdapters[k]
      BY DEF configMapDelete, RecordDelete, storeVars, TypeOK
  <2>2. SharedContested'
      BY <2>1 DEF MirrorInv, SharedContested
  <2>3. GoneForgotten'
      BY <2>1 DEF MirrorInv, GoneForgotten
  <2>4. ASSUME NEW k \in Names \ {n}, Tracked(k), NEW a \in configmapAdapters[k], a \notin contested'
        PROVE  a \notin contested /\ loraAdapterToBaseModel'[a] = loraAdapterToBaseModel[a]
      BY <2>4, OthersKeepMapping DEF MirrorInv
  <2>5. RecordedCurrent'
      BY <2>1, <2>4 DEF MirrorInv, RecordedCurrent, Managed
  <2> QED
      BY <2>2, <2>3, <2>5 DEF MirrorInv
<1>7. ASSUME NEW n \in Names, ReconcileUpdate(n) PROVE MirrorInv'
  <2> USE <1>7 DEF ReconcileUpdate, clusterVars
  <2>1. cluster[n] # None /\ cluster[n].data \in Data /\ cluster[n].data.base # None
      BY DEF Managed, TypeOK, ConfigMaps, parses
  <2>2. cluster[n].data.adapters \in SUBSET Adapters
      BY <2>1 DEF parses, Data
  <2>3. /\ configmapAdapters'[n] = cluster[n].data.adapters /\ configmapAdapters'[n] # None
        /\ \A a \in configmapAdapters'[n] : loraAdapterToBaseModel'[a] = cluster[n].data.base
        /\ \A k \in Names \ {n} : configmapAdapters'[k] = configmapAdapters[k]
      BY <2>2, AdaptersAssumption DEF configMapUpdateOrAddIfNotExist, TypeOK
  <2>4. ASSUME NEW k \in Names \ {n}, Tracked(k), NEW a \in configmapAdapters[k], a \notin contested'
        PROVE  a \notin contested /\ loraAdapterToBaseModel'[a] = loraAdapterToBaseModel[a]
      BY <2>1, <2>4, OthersKeepMapping DEF MirrorInv
  <2>5. SharedContested'
    <3>1. ASSUME NEW k \in Names \ {n}, Tracked(k),
                 NEW a \in configmapAdapters[k] \cap cluster[n].data.adapters
          PROVE  a \in contested'
        BY <3>1 DEF configMapUpdateOrAddIfNotExist, RecordUpdate
    <3>2. ASSUME NEW k \in Names \ {n}, NEW l \in Names \ {n}, k # l, Tracked(k), Tracked(l),
                 NEW a \in configmapAdapters[k] \cap configmapAdapters[l]
          PROVE  a \in contested'
      <4>1. a \in contested
          BY <3>2 DEF MirrorInv, SharedContested
      <4> QED
          BY <4>1, <3>2, <2>4
    <3>3. SUFFICES ASSUME NEW k \in Names, NEW l \in Names, k # l, Tracked(k)', Tracked(l)',
                          NEW a \in configmapAdapters'[k] \cap configmapAdapters'[l]
                   PROVE  a \in contested'
        BY DEF SharedContested
    <3>4. CASE k = n
        BY <2>3, <3>1, <3>3, <3>4
    <3>5. CASE l = n
        BY <2>3, <3>1, <3>3, <3>5
    <3>6. CASE k # n /\ l # n
        BY <2>3, <3>2, <3>3, <3>6
    <3> QED
        BY <3>4, <3>5, <3>6
  <2>6. GoneForgotten'
      BY <2>1, <2>3 DEF MirrorInv, GoneForgotten
  <2>7. RecordedCurrent'
      BY <2>1, <2>3, <2>4 DEF MirrorInv, RecordedCurrent, Managed
  <2> QED
      BY <2>5, <2>6, <2>7 DEF MirrorInv
<1> QED
    BY <1>1, <1>2, <1>3, <1>4, <1>5, <1>6, <1>7 DEF Next, Reconcile

\* A store whose records are current, whose mappings follow them and whose
\* counters are right answers lookups as the cluster says.
LEMMA MirrorServes ==
    ASSUME TypeOK, BaseModelCounts, MirrorInv
    PROVE  StoreMirrorsCluster
<1> SUFFICES ASSUME NEW n \in Names \ (queue \cup vanished), Managed(n)
             PROVE  Serves(n, cluster[n].data)
    BY DEF StoreMirrorsCluster, MirrorInv, RecordedCurrent
<1>1. /\ Tracked(n) /\ configmapAdapters[n] = cluster[n].data.adapters
      /\ cluster[n].data.base # None
      /\ \A a \in configmapAdapters[n] \ contested :
            loraAdapterToBaseModel[a] = cluster[n].data.base
    BY DEF MirrorInv, RecordedCurrent
<1>2. cluster[n].data.base \in Bases
    BY <1>1 DEF Managed, TypeOK, ConfigMaps, Data
<1>3. configmapAdapters[n] \subseteq Adapters
    BY <1>1 DEF TypeOK, Tracked
<1>4. \A a \in configmapAdapters[n] \ contested : getBaseModel(a) = cluster[n].data.base
    BY <1>1, <1>3 DEF getBaseModel
<1>5. ASSUME Holders(cluster[n].data.base) # {}, cluster[n].data.base \notin skewed \cup Adapters
      PROVE  getBaseModel(cluster[n].data.base) = cluster[n].data.base
  <2>1. baseModels[cluster[n].data.base] # None
      BY <1>2, <1>5, HoldersFinite DEF BaseModelCounts
  <2> QED
      BY <1>2, <1>5, <2>1 DEF getBaseModel
<1> QED
    BY <1>1, <1>4, <1>5 DEF Serves

\* A managed ConfigMap with no pending request is served as it is in the
\* cluster, and an unmanaged one is forgotten, for any ConfigMaps, shared names
\* and edited base models included, and any edits and reconciles
\* (ConfigMapReconciler.Reconcile, ippManagedPredicate, the store).
THEOREM StoreMirrors == Spec => []StoreMirrorsCluster
<1> DEFINE Inv == /\ TypeOK /\ NoPhantomAdapters /\ RecordedCounted /\ BaseModelCounts
                  /\ MirrorInv
<1>1. Init => Inv
  <2>1. Init => MirrorInv
      BY DEF Init, MirrorInv, SharedContested, GoneForgotten, RecordedCurrent, Managed, Tracked
  <2> QED
      BY <2>1, StoreInit, CountsInit
<1>2. Inv /\ [Next]_vars => Inv'
    BY StoreNext, CountsNext, MirrorNext
<1>3. Inv => StoreMirrorsCluster
    BY MirrorServes
<1> QED
    BY <1>1, <1>2, <1>3, PTL DEF Spec
=============================================================================
