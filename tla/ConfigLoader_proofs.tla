------------------------ MODULE ConfigLoader_proofs ------------------------
(***************************************************************************)
(* Every configuration file that loads, over any plugin types and names,   *)
(* gives profiles the stream handlers work with: the assumption that       *)
(* ExtProcStream makes about its profiles is what LoadConfiguration        *)
(* guarantees.  In whatever order its profiles come, the model selectors   *)
(* get their pickers and scorers.                                          *)
(***************************************************************************)
EXTENDS ConfigLoader, SequenceLemmas, FiniteSetTheorems

\* A profile as buildProfiles leaves it, before post-processors are known.
AsBuilt(p) ==
    /\ p.ResponsePlugins = <<>> \/ p.ResponseChunkProcessors = <<>>
    /\ p.NeedsResponseBuffering = (p.ResponsePlugins # <<>>)

\* The inductive invariant: what is known of the profiles at each stage.
LoaderInv ==
    /\ stage \in {"pre", "post", "buffering"} => \A n \in Loaded : AsBuilt(profiles[n])
    /\ stage \in {"datalayer", "selectors", "loaded"} => \A n \in Loaded : FitsHandlers(profiles[n])

\* What buildProfiles makes of a profile it accepts.
LEMMA ValidProfileBuilt ==
    ASSUME NEW raw, ValidProfile(raw)
    PROVE  AsBuilt(Profile(raw))
BY DEF ValidProfile, Profile, AsBuilt

LEMMA LoaderInit == Init => LoaderInv
BY DEF Init, LoaderInv

\* Every function of the loader preserves the invariant.
LEMMA LoaderNext ==
    ASSUME LoaderInv, [Next]_vars
    PROVE  LoaderInv'
<1> USE DEF At, Proceed, Fail, builtVars, selectorVars
<1>1. CASE UNCHANGED vars
    BY <1>1 DEF vars, LoaderInv, Loaded, AsBuilt, FitsHandlers
<1>2. CASE loadRawConfiguration
    BY <1>2 DEF loadRawConfiguration, LoaderInv
<1>3. CASE instantiatePlugins
    BY <1>3 DEF instantiatePlugins, LoaderInv
<1>4. CASE applyPluginDefaults
    BY <1>4 DEF applyPluginDefaults, LoaderInv
<1>5. CASE lookupProfilePicker
    BY <1>5 DEF lookupProfilePicker, LoaderInv
<1>6. CASE buildProfiles
  <2>1. CASE failed'
      BY <1>6, <2>1 DEF buildProfiles, LoaderInv
  <2>2. CASE ~failed'
    <3> DEFINE raws == rawConfig.profiles
    <3>1. stage' = "pre" /\ \A k \in DOMAIN raws : ValidProfile(raws[k])
        BY <1>6, <2>2 DEF buildProfiles
    <3>2. PICK last \in [ProfileNames -> 0 .. Len(raws)] :
            /\ IsLast(last, raws)
            /\ profiles' = [n \in ProfileNames |-> IF last[n] = 0 THEN None
                                                   ELSE Profile(raws[last[n]])]
        BY <1>6, <2>2 DEF buildProfiles
    <3>3. ASSUME NEW n \in ProfileNames, profiles'[n] # None
          PROVE  AsBuilt(profiles'[n])
      <4>1. last[n] # 0 /\ profiles'[n] = Profile(raws[last[n]])
          BY <3>2, <3>3
      <4>2. last[n] \in DOMAIN raws
          BY <3>2, <4>1 DEF IsLast
      <4> QED
          BY <3>1, <4>1, <4>2, ValidProfileBuilt
    <3> QED
        BY <3>1, <3>3 DEF LoaderInv, Loaded, AsBuilt
  <2> QED
      BY <2>1, <2>2
<1>7. CASE buildPreProcessors
    BY <1>7 DEF buildPreProcessors, LoaderInv, Loaded, AsBuilt
<1>8. CASE buildPostProcessors
    BY <1>8 DEF buildPostProcessors, LoaderInv, Loaded, AsBuilt
<1>9. CASE enforceBuffering
  <2>1. CASE postProcessors = <<>> \/ failed'
      BY <1>9, <2>1 DEF enforceBuffering, LoaderInv, Loaded, AsBuilt, FitsHandlers
  <2>2. CASE postProcessors # <<>> /\ ~failed'
    <3>1. /\ \A n \in Loaded : profiles[n].ResponseChunkProcessors = <<>>
          /\ profiles' = [n \in ProfileNames |-> IF n \in Loaded THEN Buffered(profiles[n])
                                                 ELSE None]
          /\ postProcessors' = postProcessors /\ stage' = "datalayer"
        BY <1>9, <2>2 DEF enforceBuffering
    <3>2. ASSUME NEW n \in ProfileNames, profiles'[n] # None
          PROVE  FitsHandlers(profiles[n])'
        BY <2>2, <3>1, <3>2 DEF Loaded, Buffered, FitsHandlers
    <3> QED
        BY <3>1, <3>2 DEF LoaderInv, Loaded, FitsHandlers
  <2> QED
      BY <2>1, <2>2
<1>10. CASE buildDatalayerSources
    BY <1>10 DEF buildDatalayerSources, LoaderInv, Loaded, AsBuilt, FitsHandlers
<1>11. CASE datalayerBuilt
    BY <1>11 DEF datalayerBuilt, LoaderInv, Loaded, AsBuilt, FitsHandlers
<1>12. CASE rangeProfiles
    BY <1>12 DEF rangeProfiles, LoaderInv, Loaded, AsBuilt, FitsHandlers
<1>13. CASE buildModelSelector
    BY <1>13 DEF buildModelSelector, LoaderInv, Loaded, AsBuilt, FitsHandlers
<1>14. CASE finish
    BY <1>14 DEF finish, LoaderInv, Loaded, AsBuilt, FitsHandlers
<1> QED
    BY <1>1, <1>2, <1>3, <1>4, <1>5, <1>6, <1>7, <1>8, <1>9, <1>10, <1>11, <1>12, <1>13, <1>14
    DEF Next

\* The profiles of every configuration that loads fit the stream handlers
\* (LoadConfiguration, buildProfiles, buildPostProcessors).
THEOREM LoadedProfilesFitHandlers == Spec => []ProfilesFitHandlers
<1>1. Init => LoaderInv
    BY LoaderInit
<1>2. LoaderInv /\ [Next]_vars => LoaderInv'
    BY LoaderNext
<1>3. LoaderInv => ProfilesFitHandlers
    BY DEF LoaderInv, ProfilesFitHandlers
<1> QED
    BY <1>1, <1>2, <1>3, PTL DEF Spec

-----------------------------------------------------------------------------
(***************************************************************************)
(* Counting the occurrences of an element.                                 *)
(***************************************************************************)
LEMMA PositionsFinite ==
    ASSUME NEW T, NEW s \in Seq(T), NEW x
    PROVE  IsFiniteSet(Positions(s, x)) /\ Count(s, x) \in Nat /\ (Count(s, x) = 0 <=> Positions(s, x) = {})
<1>1. Len(s) \in Nat /\ DOMAIN s = 1 .. Len(s)
    OBVIOUS
<1>2. IsFiniteSet(1 .. Len(s))
    BY <1>1, FS_Interval
<1>3. Positions(s, x) \subseteq 1 .. Len(s)
    BY <1>1 DEF Positions
<1>4. IsFiniteSet(Positions(s, x))
    BY <1>2, <1>3, FS_Subset
<1> QED
    BY <1>4, FS_CardinalityType, FS_EmptySet DEF Count

LEMMA CountEmpty ==
    ASSUME NEW x
    PROVE  Count(<<>>, x) = 0
<1>1. Positions(<<>>, x) = {}
    BY DEF Positions
<1> QED
    BY <1>1, FS_EmptySet DEF Count

LEMMA CountAppend ==
    ASSUME NEW T, NEW s \in Seq(T), NEW e \in T, NEW x
    PROVE  /\ e = x => Count(Append(s, e), x) = Count(s, x) + 1
           /\ e # x => Count(Append(s, e), x) = Count(s, x)
<1>1. PICK more : more = Append(s, e)
    OBVIOUS
<1>2. /\ Len(s) \in Nat /\ DOMAIN s = 1 .. Len(s) /\ DOMAIN more = 1 .. Len(s) + 1
      /\ more[Len(s) + 1] = e /\ \A k \in 1 .. Len(s) : more[k] = s[k]
    BY <1>1
<1>3. IsFiniteSet(Positions(s, x)) /\ Count(s, x) \in Nat
    BY PositionsFinite
<1>4. CASE e = x
  <2>1. Positions(more, x) \subseteq Positions(s, x) \cup {Len(s) + 1}
      BY <1>2 DEF Positions
  <2>2. Positions(s, x) \cup {Len(s) + 1} \subseteq Positions(more, x)
      BY <1>2, <1>4 DEF Positions
  <2>3. Positions(more, x) = Positions(s, x) \cup {Len(s) + 1}
      BY <2>1, <2>2
  <2>4. Len(s) + 1 \notin Positions(s, x)
      BY <1>2 DEF Positions
  <2>5. Cardinality(Positions(s, x) \cup {Len(s) + 1}) = Cardinality(Positions(s, x)) + 1
      BY <1>3, <2>4, FS_AddElement
  <2> QED
      BY <1>1, <1>4, <2>3, <2>5 DEF Count
<1>5. CASE e # x
  <2>1. Positions(more, x) \subseteq Positions(s, x)
      BY <1>2, <1>5 DEF Positions
  <2>2. Positions(s, x) \subseteq Positions(more, x)
      BY <1>2 DEF Positions
  <2>3. Positions(more, x) = Positions(s, x)
      BY <2>1, <2>2
  <2>4. Count(more, x) = Count(s, x)
      BY <2>3 DEF Count
  <2> QED
      BY <1>1, <1>3, <1>5, <2>4
<1> QED
    BY <1>4, <1>5

LEMMA CountConcat ==
    ASSUME NEW T, NEW a \in Seq(T), NEW b \in Seq(T), NEW x
    PROVE  Count(a \o b, x) = Count(a, x) + Count(b, x)
<1> DEFINE Good == {s \in Seq(T) : Count(a \o s, x) = Count(a, x) + Count(s, x)}
<1>0. Count(a, x) \in Nat
    BY PositionsFinite
<1>1. <<>> \in Good
  <2>1. a \o <<>> = a /\ Count(<<>>, x) = 0 /\ <<>> \in Seq(T)
      BY ConcatEmptySeq, CountEmpty
  <2> QED
      BY <1>0, <2>1
<1>2. ASSUME NEW s \in Seq(T), NEW e \in T, s \in Good
      PROVE  Append(s, e) \in Good
  <2>1. a \o Append(s, e) = Append(a \o s, e) /\ a \o s \in Seq(T) /\ Append(s, e) \in Seq(T)
      OBVIOUS
  <2>2. /\ e = x => Count(a \o Append(s, e), x) = Count(a \o s, x) + 1
        /\ e # x => Count(a \o Append(s, e), x) = Count(a \o s, x)
    <3>1. /\ e = x => Count(Append(a \o s, e), x) = Count(a \o s, x) + 1
          /\ e # x => Count(Append(a \o s, e), x) = Count(a \o s, x)
        BY <2>1, CountAppend
    <3> QED
        BY <2>1, <3>1, Zenon
  <2>3. /\ e = x => Count(Append(s, e), x) = Count(s, x) + 1
        /\ e # x => Count(Append(s, e), x) = Count(s, x)
      BY CountAppend
  <2>4. Count(s, x) \in Nat /\ Count(a \o s, x) = Count(a, x) + Count(s, x)
      BY <1>2, PositionsFinite
  <2>5. Count(a \o Append(s, e), x) = Count(a, x) + Count(Append(s, e), x)
      BY <1>0, <2>2, <2>3, <2>4
  <2> QED
      BY <2>1, <2>5
<1> HIDE DEF Good
<1>3. b \in Good
    BY <1>1, <1>2, SequenceInduction
<1> QED
    BY <1>3 DEF Good

\* A selection has an element of the set as often as the list, and no others.
LEMMA SelectedCount ==
    ASSUME NEW T, NEW l \in Seq(T), NEW S, NEW x
    PROVE  Count(Selected(l, S), x) = IF x \in S THEN Count(l, x) ELSE 0
<1> DEFINE Good == {s \in Seq(T) : Count(Selected(s, S), x) = IF x \in S THEN Count(s, x) ELSE 0}
<1>1. <<>> \in Good
  <2>1. Selected(<<>>, S) = <<>> /\ Count(<<>>, x) = 0 /\ <<>> \in Seq(T)
      BY SelectedEmpty, CountEmpty
  <2> QED
      BY <2>1
<1>2. ASSUME NEW s \in Seq(T), NEW e \in T, s \in Good
      PROVE  Append(s, e) \in Good
  <2>1. PICK p, n, m : p = Selected(s, S) /\ n = Count(s, x) /\ m = Count(Selected(s, S), x)
      OBVIOUS
  <2>2. p \in Seq(T \cap S) /\ n \in Nat /\ m \in Nat /\ m = IF x \in S THEN n ELSE 0
      BY <1>2, <2>1, SelectedType, PositionsFinite
  <2>3. /\ e = x => Count(Append(s, e), x) = n + 1
        /\ e # x => Count(Append(s, e), x) = n
        /\ Append(s, e) \in Seq(T)
      BY <2>1, CountAppend
  <2>4. Selected(Append(s, e), S) = p \o (IF e \in S THEN <<e>> ELSE <<>>)
      BY <2>1, SelectedAppend
  <2>5. CASE e \in S
    <3>1. p \o <<e>> = Append(p, e) /\ e \in T \cap S
        BY <2>2, <2>5
    <3>2. /\ e = x => Count(Selected(Append(s, e), S), x) = m + 1
          /\ e # x => Count(Selected(Append(s, e), S), x) = m
      <4>1. /\ e = x => Count(Append(p, e), x) = Count(p, x) + 1
            /\ e # x => Count(Append(p, e), x) = Count(p, x)
          BY <2>2, <3>1, CountAppend
      <4>2. Selected(Append(s, e), S) = Append(p, e)
          BY <2>4, <2>5, <3>1
      <4> QED
          BY <2>1, <4>1, <4>2, Zenon
    <3>3. Count(Selected(Append(s, e), S), x) = IF x \in S THEN Count(Append(s, e), x) ELSE 0
        BY <2>2, <2>3, <2>5, <3>2
    <3> QED
        BY <2>3, <3>3
  <2>6. CASE e \notin S
    <3>1. p \o <<>> = p
        BY <2>2, ConcatEmptySeq
    <3>2. Count(Selected(Append(s, e), S), x) = m
        BY <2>1, <2>4, <2>6, <3>1
    <3>3. Count(Selected(Append(s, e), S), x) = IF x \in S THEN Count(Append(s, e), x) ELSE 0
        BY <2>2, <2>3, <2>6, <3>2
    <3> QED
        BY <2>3, <3>3
  <2> QED
      BY <2>5, <2>6
<1> HIDE DEF Good
<1>3. l \in Good
    BY <1>1, <1>2, SequenceInduction
<1> QED
    BY <1>3 DEF Good

-----------------------------------------------------------------------------
(***************************************************************************)
(* Type correctness.                                                       *)
(***************************************************************************)
\* With the types: from when there is a raw configuration, and that
\* buildModelSelector works on profiles that were built.
LoaderTypes ==
    /\ TypeOK
    /\ stage # "raw" => rawConfig \in RawConfig
    /\ stage \notin {"selectors", "loaded"} =>
          /\ ranged = {} /\ selectors = <<>> /\ current = None
          /\ pipelines = [n \in Names |-> emptyPipeline]
    /\ ranged \subseteq Loaded
    /\ selectors # <<>> => current \in Loaded

LEMMA ThoseType ==
    ASSUME NEW refs \in Seq(Names), NEW i
    PROVE  Those(refs, i) \in Seq(Names) /\ Others(refs, i) \in Seq(Names)
<1>1. \A S : Selected(refs, S) \in Seq(Names)
  <2>1. ASSUME NEW S
        PROVE  Selected(refs, S) \in Seq(Names)
    <3>1. Selected(refs, S) \in Seq(Names \cap S)
        BY SelectedType
    <3> QED
        BY <3>1
  <2> QED
      BY <2>1
<1> QED
    BY <1>1 DEF Those, Others

\* The default configuration is a configuration.
LEMMA DefaultConfigType == loadDefaultConfig \in RawConfig
<1> DEFINE request == <<BodyFieldToHeaderPluginType, BaseModelToHeaderPluginType>>
           plugins == [k \in 1..2 |-> [name |-> None, type |-> request[k], parameters |-> TRUE]]
           refs == [k \in 1..2 |-> [ref |-> request[k], weight |-> FALSE]]
           profile == [name |-> "default", response |-> <<>>, request |-> refs]
<1>1. /\ BodyFieldToHeaderPluginType \in Names /\ BaseModelToHeaderPluginType \in Names
      /\ "default" \in ProfileNames
    BY LoaderAssumption
<1>2. \A k \in 1..2 : request[k] \in Names
    BY <1>1
<1>3. plugins \in Seq(PluginSpec)
  <2>1. \A k \in 1..2 : [name |-> None, type |-> request[k], parameters |-> TRUE] \in PluginSpec
      BY <1>2 DEF PluginSpec
  <2> HIDE DEF request
  <2>2. plugins \in [1..2 -> PluginSpec]
      BY <2>1
  <2> QED
      BY <2>2
<1>4. refs \in Seq(PluginRef)
  <2>1. \A k \in 1..2 : [ref |-> request[k], weight |-> FALSE] \in PluginRef
      BY <1>2 DEF PluginRef
  <2> HIDE DEF request
  <2>2. refs \in [1..2 -> PluginRef]
      BY <2>1
  <2> QED
      BY <2>2
<1>5. profile \in RawProfile
  <2> HIDE DEF refs
  <2> QED
      BY <1>1, <1>4 DEF RawProfile
<1>6. <<profile>> \in Seq(RawProfile)
    BY <1>5, SingletonType
<1>7. loadDefaultConfig =
        [plugins |-> plugins, profiles |-> <<profile>>, profilePicker |-> None,
         preProcessing |-> <<>>, postProcessing |-> <<>>,
         collectors |-> <<>>, extractors |-> <<>>, datasources |-> <<>>]
    BY DEF loadDefaultConfig
<1> HIDE DEF plugins, profile
<1> QED
    BY <1>3, <1>6, <1>7 DEF RawConfig

LEMMA RawDefaultsType ==
    ASSUME NEW cfg \in RawConfig
    PROVE  applyRawConfigDefaults(cfg) \in RawConfig
<1> DEFINE Named(spec) == IF spec.name = None THEN [spec EXCEPT !.name = spec.type] ELSE spec
           plugins == [k \in DOMAIN cfg.plugins |-> Named(cfg.plugins[k])]
<1>1. cfg.plugins \in Seq(PluginSpec)
    BY DEF RawConfig
<1>2. DOMAIN cfg.plugins = 1 .. Len(cfg.plugins) /\ Len(cfg.plugins) \in Nat
      /\ \A k \in DOMAIN cfg.plugins : cfg.plugins[k] \in PluginSpec
    BY <1>1
<1>3. \A spec \in PluginSpec : Named(spec) \in PluginSpec
    BY DEF PluginSpec
<1> HIDE DEF Named
<1>4. plugins \in [1 .. Len(cfg.plugins) -> PluginSpec]
    BY <1>2, <1>3
<1>5. plugins \in Seq(PluginSpec)
    BY <1>2, <1>4
<1>6. applyRawConfigDefaults(cfg) = [cfg EXCEPT !.plugins = plugins]
    BY DEF applyRawConfigDefaults, Named
<1> HIDE DEF plugins
<1> QED
    BY <1>5, <1>6 DEF RawConfig

\* The profile that buildProfiles makes.
LEMMA BuiltProfileType ==
    ASSUME NEW raw \in RawProfile
    PROVE  Profile(raw) \in ProfileType
<1>1. raw.request \in Seq(PluginRef) /\ raw.response \in Seq(Names)
    BY DEF RawProfile
<1>2. PICK refs : refs = RefsOf(raw.request)
    OBVIOUS
<1>3. refs \in Seq(Names)
  <2>1. DOMAIN raw.request = 1 .. Len(raw.request) /\ Len(raw.request) \in Nat
        /\ \A k \in DOMAIN raw.request : raw.request[k] \in PluginRef
      BY <1>1
  <2>2. refs \in [1 .. Len(raw.request) -> Names]
      BY <1>2, <2>1 DEF RefsOf, PluginRef
  <2> QED
      BY <2>1, <2>2
<1>4. /\ Those(refs, "RequestProcessor") \in Seq(Names)
      /\ Others(refs, "RequestProcessor") \in Seq(Names)
      /\ Those(raw.response, "ResponseProcessor") \in Seq(Names)
      /\ Others(raw.response, "ResponseProcessor") \in Seq(Names)
    BY <1>1, <1>3, ThoseType
<1> QED
    BY <1>2, <1>4 DEF Profile, ProfileType

\* The pipeline that buildModelSelector makes of one, and its parts.
LEMMA AddedPlugins ==
    ASSUME NEW pipeline \in Pipeline, NEW plugins \in Seq(Names)
    PROVE  /\ WithDefaultPicker(AddPlugins(pipeline, plugins)) \in Pipeline
           /\ WithDefaultPicker(AddPlugins(pipeline, plugins)).scorers
                = pipeline.scorers \o Those(plugins, "Scorer")
           /\ Those(plugins, "Picker") # <<>> =>
                WithDefaultPicker(AddPlugins(pipeline, plugins)).picker = Head(Those(plugins, "Picker"))
           /\ Those(plugins, "Picker") = <<>> /\ pipeline.picker # None =>
                WithDefaultPicker(AddPlugins(pipeline, plugins)).picker = pipeline.picker
           /\ Those(plugins, "Picker") = <<>> /\ pipeline.picker = None =>
                WithDefaultPicker(AddPlugins(pipeline, plugins)).picker = DefaultPicker
<1>1. PICK f, s, p : f = Those(plugins, "Filter") /\ s = Those(plugins, "Scorer")
                     /\ p = Those(plugins, "Picker")
    OBVIOUS
<1>2. f \in Seq(Names) /\ s \in Seq(Names) /\ p \in Seq(Names)
    BY <1>1, ThoseType
<1>3. p # <<>> => Head(p) \in Names
    BY <1>2
<1>4. PICK filters, scorers, picker :
         /\ filters = pipeline.filters \o f /\ scorers = pipeline.scorers \o s
         /\ picker = IF p = <<>> THEN pipeline.picker ELSE Head(p)
    OBVIOUS
<1>5. /\ pipeline.filters \in Seq(Names) /\ pipeline.scorers \in Seq(Names)
      /\ pipeline.picker \in Names \cup {None, DefaultPicker}
    BY DEF Pipeline
<1>6. filters \in Seq(Names) /\ scorers \in Seq(Names)
    BY <1>2, <1>4, <1>5
<1>7. picker \in Names \cup {None, DefaultPicker}
    BY <1>3, <1>4, <1>5
<1>8. AddPlugins(pipeline, plugins) = [filters |-> filters, scorers |-> scorers, picker |-> picker]
    BY <1>1, <1>4 DEF AddPlugins
<1>9. None \notin Names
    BY LoaderAssumption
<1>10. PICK made : made = WithDefaultPicker(AddPlugins(pipeline, plugins))
    OBVIOUS
<1>11. made = [filters |-> filters, scorers |-> scorers,
               picker |-> IF picker = None THEN DefaultPicker ELSE picker]
    BY <1>8, <1>10 DEF WithDefaultPicker
<1>12. made \in Pipeline
    BY <1>6, <1>7, <1>11 DEF Pipeline
<1>13. made.scorers = scorers /\ made.picker = IF picker = None THEN DefaultPicker ELSE picker
    BY <1>11
<1>14. p # <<>> => made.picker = Head(p)
    BY <1>3, <1>4, <1>9, <1>13
<1>15. p = <<>> => made.picker = IF pipeline.picker = None THEN DefaultPicker ELSE pipeline.picker
    BY <1>4, <1>13
<1> QED
    BY <1>1, <1>4, <1>10, <1>12, <1>13, <1>14, <1>15

LEMMA LoaderTypesInit == Init => LoaderTypes
<1> SUFFICES ASSUME Init PROVE LoaderTypes
    OBVIOUS
<1> USE DEF Init
<1>1. emptyPipeline \in Pipeline
    BY DEF emptyPipeline, Pipeline
<1>2. rawConfig \in RawConfig \cup {None, Malformed}
    BY LoaderAssumption
<1>3. /\ <<>> \in Seq(Names) /\ <<>> \in Seq({"Collector", "Extractor", "DataSource"} \X Names)
      /\ [n \in Names |-> emptyPipeline] \in [Names -> Pipeline]
      /\ [n \in ProfileNames |-> None] \in [ProfileNames -> ProfileType \cup {None}]
      /\ [n \in Names |-> None] \in [Names -> Types \cup {None}]
    BY <1>1
<1>4. TypeOK
    BY <1>2, <1>3 DEF TypeOK, Stages
<1> QED
    BY <1>4 DEF LoaderTypes

\* A function that fails changes nothing else.
LEMMA LoaderTypesFail ==
    ASSUME LoaderTypes, Fail
    PROVE  LoaderTypes'
BY DEF LoaderTypes, TypeOK, Fail, builtVars, selectorVars, Loaded

LEMMA LoaderTypesRaw ==
    ASSUME LoaderTypes, loadRawConfiguration, ~Fail
    PROVE  LoaderTypes'
<1> USE DEF At, Proceed, builtVars, selectorVars
<1>1. PICK cfg : cfg = IF rawConfig = None THEN loadDefaultConfig ELSE rawConfig
    OBVIOUS
<1>2. rawConfig' = applyRawConfigDefaults(cfg) /\ rawConfig # Malformed
    BY <1>1 DEF loadRawConfiguration
<1>3. cfg \in RawConfig
    BY <1>1, <1>2, DefaultConfigType DEF LoaderTypes, TypeOK
<1>4. rawConfig' \in RawConfig
    BY <1>2, <1>3, RawDefaultsType
<1> QED
    BY <1>4 DEF loadRawConfiguration, LoaderTypes, TypeOK, Stages, Loaded

LEMMA LoaderTypesInstantiate ==
    ASSUME LoaderTypes, instantiatePlugins, ~Fail
    PROVE  LoaderTypes'
<1> USE DEF At, Proceed, builtVars, selectorVars
<1>1. PICK specs : specs = rawConfig.plugins
    OBVIOUS
<1>2. Instantiable(specs)
    BY <1>1 DEF instantiatePlugins
<1>3. ASSUME NEW n \in Names, NEW k \in DOMAIN specs, specs[k].name = n
      PROVE  (CHOOSE spec \in Range(specs) : spec.name = n).type \in Types
  <2>1. specs[k] \in Range(specs)
      BY DEF Range
  <2>2. PICK spec : spec = CHOOSE sp \in Range(specs) : sp.name = n
      OBVIOUS
  <2>3. spec \in Range(specs)
      BY <1>3, <2>1, <2>2
  <2> QED
      BY <1>2, <2>2, <2>3 DEF Range, Instantiable
<1>4. handle' = [n \in Names |-> IF \E k \in DOMAIN specs : specs[k].name = n
                    THEN (CHOOSE spec \in Range(specs) : spec.name = n).type ELSE None]
    BY <1>1 DEF instantiatePlugins
<1>5. handle' \in [Names -> Types \cup {None}]
    BY <1>3, <1>4
<1>6. /\ stage' = "defaults" /\ stage = "instantiate"
      /\ UNCHANGED <<rawConfig, failed, builtVars, selectorVars>>
    BY DEF instantiatePlugins
<1> QED
    BY <1>5, <1>6 DEF LoaderTypes, TypeOK, Stages, Loaded

LEMMA LoaderTypesDefaults ==
    ASSUME LoaderTypes, applyPluginDefaults, ~Fail
    PROVE  LoaderTypes'
<1> USE DEF At, Proceed, builtVars, selectorVars
<1> DEFINE pickers == {n \in Names : Is(n, "ProfilePicker")}
<1>1. stage = "defaults" /\ rawConfig \in RawConfig
    BY DEF applyPluginDefaults, LoaderTypes
<1>2. rawConfig' \in RawConfig /\ handle' \in [Names -> Types \cup {None}]
  <2>1. CASE UNCHANGED <<rawConfig, handle>>
      BY <1>1, <2>1 DEF LoaderTypes, TypeOK
  <2>2. CASE /\ Cardinality(pickers) = 1 /\ UNCHANGED handle
             /\ rawConfig' = [rawConfig EXCEPT !.profilePicker = CHOOSE n \in pickers : TRUE]
    <3>1. pickers # {}
        BY <2>2, FS_EmptySet
    <3>2. PICK picker : picker = CHOOSE n \in pickers : TRUE
        OBVIOUS
    <3>3. picker \in Names
        BY <3>1, <3>2
    <3>4. rawConfig' = [rawConfig EXCEPT !.profilePicker = picker]
        BY <2>2, <3>2
    <3>5. rawConfig' \in RawConfig
        BY <1>1, <3>3, <3>4 DEF RawConfig
    <3> QED
        BY <2>2, <3>5 DEF LoaderTypes, TypeOK
  <2>3. CASE registerDefaultPlugin(SingleProfilePickerType)
    <3>1. PICK type : type = SingleProfilePickerType
        OBVIOUS
    <3>2. type \in Types /\ type \in Names
        BY <3>1, LoaderAssumption
    <3>3. PICK spec, plugins : /\ spec = [name |-> type, type |-> type, parameters |-> TRUE]
                               /\ plugins = Append(rawConfig.plugins, spec)
        OBVIOUS
    <3>4. spec \in PluginSpec
        BY <3>2, <3>3 DEF PluginSpec
    <3>5. rawConfig.plugins \in Seq(PluginSpec)
        BY <1>1 DEF RawConfig
    <3>6. plugins \in Seq(PluginSpec)
        BY <3>3, <3>4, <3>5
    <3>7. rawConfig' = [rawConfig EXCEPT !.profilePicker = type, !.plugins = plugins]
        BY <2>3, <3>1, <3>3 DEF registerDefaultPlugin
    <3>8. rawConfig' \in RawConfig
        BY <1>1, <3>2, <3>6, <3>7 DEF RawConfig
    <3> QED
        BY <2>3, <3>1, <3>2, <3>8 DEF registerDefaultPlugin, LoaderTypes, TypeOK
  <2> QED
      BY <2>1, <2>2, <2>3 DEF applyPluginDefaults
<1>3. stage' = "picker" /\ UNCHANGED <<failed, builtVars, selectorVars>>
    BY DEF applyPluginDefaults
<1> QED
    BY <1>1, <1>2, <1>3 DEF LoaderTypes, TypeOK, Stages, Loaded

LEMMA LoaderTypesPicker ==
    ASSUME LoaderTypes, lookupProfilePicker
    PROVE  LoaderTypes'
<1> USE DEF At, Proceed, selectorVars
<1>1. rawConfig.profilePicker \in Names \cup {None}
    BY DEF lookupProfilePicker, LoaderTypes, RawConfig
<1>2. profilePicker' \in Names \cup {None}
    BY <1>1 DEF lookupProfilePicker
<1> QED
    BY <1>2 DEF lookupProfilePicker, LoaderTypes, TypeOK, Stages, Loaded

LEMMA LoaderTypesProfiles ==
    ASSUME LoaderTypes, buildProfiles, ~Fail
    PROVE  LoaderTypes'
<1> USE DEF At, Proceed, selectorVars
<1>1. PICK raws : raws = rawConfig.profiles
    OBVIOUS
<1>2. raws \in Seq(RawProfile) /\ stage = "profiles"
    BY <1>1 DEF buildProfiles, LoaderTypes, RawConfig
<1>3. PICK last \in [ProfileNames -> 0 .. Len(raws)] :
        profiles' = [n \in ProfileNames |-> IF last[n] = 0 THEN None ELSE Profile(raws[last[n]])]
    BY <1>1 DEF buildProfiles
<1>4. ASSUME NEW n \in ProfileNames, last[n] # 0
      PROVE  Profile(raws[last[n]]) \in ProfileType
  <2>1. last[n] \in 0 .. Len(raws)
      BY <1>3
  <2>2. raws[last[n]] \in RawProfile
      BY <1>2, <1>4, <2>1
  <2> QED
      BY <2>2, BuiltProfileType
<1>5. profiles' \in [ProfileNames -> ProfileType \cup {None}]
    BY <1>3, <1>4
<1>6. /\ stage' = "pre"
      /\ UNCHANGED <<rawConfig, handle, profilePicker, preProcessors, postProcessors, failed,
                     responseHeadersPostProcessors, registered, selectorVars>>
    BY DEF buildProfiles
<1> QED
    BY <1>2, <1>5, <1>6 DEF LoaderTypes, TypeOK, Stages, Loaded

LEMMA LoaderTypesPre ==
    ASSUME LoaderTypes, buildPreProcessors, ~Fail
    PROVE  LoaderTypes'
<1> USE DEF At, Proceed, selectorVars
<1>1. rawConfig.preProcessing \in Seq(Names)
    BY DEF buildPreProcessors, LoaderTypes, RawConfig
<1> QED
    BY <1>1 DEF buildPreProcessors, LoaderTypes, TypeOK, Stages, Loaded

LEMMA LoaderTypesPost ==
    ASSUME LoaderTypes, buildPostProcessors, ~Fail
    PROVE  LoaderTypes'
<1> USE DEF At, Proceed, selectorVars
<1>1. rawConfig.postProcessing \in Seq(Names)
    BY DEF buildPostProcessors, LoaderTypes, RawConfig
<1>2. /\ Those(rawConfig.postProcessing, "ResponseProcessor") \in Seq(Names)
      /\ Those(rawConfig.postProcessing, "ResponseHeadersProcessor") \in Seq(Names)
    BY <1>1, ThoseType
<1> QED
    BY <1>2 DEF buildPostProcessors, LoaderTypes, TypeOK, Stages, Loaded

LEMMA LoaderTypesBuffering ==
    ASSUME LoaderTypes, enforceBuffering, ~Fail
    PROVE  LoaderTypes'
<1> USE DEF At, Proceed, selectorVars, builtVars
<1>1. CASE UNCHANGED profiles
    BY <1>1 DEF enforceBuffering, LoaderTypes, TypeOK, Stages, Loaded
<1>2. CASE profiles' = [n \in ProfileNames |-> IF n \in Loaded THEN Buffered(profiles[n]) ELSE None]
  <2>1. ASSUME NEW p \in ProfileType
        PROVE  Buffered(p) \in ProfileType
      BY DEF Buffered, ProfileType
  <2>2. \A n \in Loaded : profiles[n] \in ProfileType
      BY DEF LoaderTypes, TypeOK, Loaded
  <2>3. profiles' \in [ProfileNames -> ProfileType \cup {None}]
      BY <1>2, <2>1, <2>2
  <2> QED
      BY <2>3 DEF enforceBuffering, LoaderTypes, TypeOK, Stages, Loaded
<1> QED
    BY <1>1, <1>2 DEF enforceBuffering

LEMMA LoaderTypesSources ==
    ASSUME LoaderTypes, buildDatalayerSources, ~Fail
    PROVE  LoaderTypes'
<1> USE DEF At, Proceed, selectorVars
<1> DEFINE Registration == {"Collector", "Extractor", "DataSource"} \X Names
<1>1. rawConfig \in RawConfig
    BY DEF buildDatalayerSources, LoaderTypes
<1>2. ASSUME NEW kind \in {"Collector", "Extractor", "DataSource"}, NEW refs \in Seq(Names)
      PROVE  Tagged(kind, refs) \in Seq(Registration)
  <2>1. Len(refs) \in Nat /\ DOMAIN refs = 1 .. Len(refs) /\ \A k \in DOMAIN refs : refs[k] \in Names
      OBVIOUS
  <2>2. Tagged(kind, refs) \in [1 .. Len(refs) -> Registration]
      BY <2>1 DEF Tagged
  <2> QED
      BY <2>1, <2>2
<1>3. /\ rawConfig.collectors \in Seq(Names) /\ rawConfig.extractors \in Seq(Names)
      /\ rawConfig.datasources \in Seq(Names)
    BY <1>1 DEF RawConfig
<1> HIDE DEF Registration
<1>4. Sources \in Seq(Registration)
  <2>1. PICK c, e, d : /\ c = Tagged("Collector", rawConfig.collectors)
                       /\ e = Tagged("Extractor", rawConfig.extractors)
                       /\ d = Tagged("DataSource", rawConfig.datasources)
      OBVIOUS
  <2>2. c \in Seq(Registration) /\ e \in Seq(Registration) /\ d \in Seq(Registration)
      BY <1>2, <1>3, <2>1
  <2>3. Sources = c \o e \o d
      BY <2>1 DEF Sources
  <2> QED
      BY <2>2, <2>3
<1>5. registered \in Seq(Registration) /\ Len(registered) < Len(Sources)
    BY DEF buildDatalayerSources, LoaderTypes, TypeOK, Registration
<1>6. PICK next : next = Sources[Len(registered) + 1]
    OBVIOUS
<1>7. next \in Registration
    BY <1>4, <1>5, <1>6
<1>8. registered' = Append(registered, next)
    BY <1>6 DEF buildDatalayerSources
<1>9. registered' \in Seq(Registration)
    BY <1>5, <1>7, <1>8
<1> QED
    BY <1>9 DEF buildDatalayerSources, LoaderTypes, TypeOK, Stages, Loaded, Registration

LEMMA LoaderTypesBuilt ==
    ASSUME LoaderTypes, datalayerBuilt
    PROVE  LoaderTypes'
BY DEF datalayerBuilt, At, Proceed, builtVars, LoaderTypes, TypeOK, Stages, Loaded

LEMMA LoaderTypesRange ==
    ASSUME LoaderTypes, rangeProfiles
    PROVE  LoaderTypes'
<1> USE DEF At, builtVars
<1>1. PICK n \in ranged :
        /\ ranged' = ranged \ {n} /\ current' = n
        /\ selectors' = Those(profiles[n].RequestPlugins, "ModelSelectorPlugin")
    BY DEF rangeProfiles
<1>2. n \in Loaded /\ n \in ProfileNames /\ profiles[n] \in ProfileType
    BY DEF LoaderTypes, TypeOK, Loaded
<1>3. profiles[n].RequestPlugins \in Seq(Names)
    BY <1>2 DEF ProfileType
<1>4. selectors' \in Seq(Names)
    BY <1>1, <1>3, ThoseType
<1> QED
    BY <1>1, <1>2, <1>4 DEF rangeProfiles, LoaderTypes, TypeOK, Stages, Loaded

LEMMA LoaderTypesSelector ==
    ASSUME LoaderTypes, buildModelSelector, ~Fail
    PROVE  LoaderTypes'
<1> USE DEF At, builtVars
<1>1. PICK m, plugins : m = Head(selectors) /\ plugins = profiles[current].ModelSelectorPlugins
    OBVIOUS
<1>2. selectors \in Seq(Names) /\ selectors # <<>> /\ current \in Loaded
    BY DEF buildModelSelector, LoaderTypes, TypeOK
<1>3. m \in Names /\ Tail(selectors) \in Seq(Names)
    BY <1>1, <1>2
<1>4. plugins \in Seq(Names)
    BY <1>1, <1>2 DEF LoaderTypes, TypeOK, Loaded, ProfileType
<1>5. pipelines[m] \in Pipeline
    BY <1>3 DEF LoaderTypes, TypeOK
<1>6. PICK made : made = WithDefaultPicker(AddPlugins(pipelines[m], plugins))
    OBVIOUS
<1>7. made \in Pipeline
    BY <1>4, <1>5, <1>6, AddedPlugins
<1>8. pipelines' = [pipelines EXCEPT ![m] = made] /\ selectors' = Tail(selectors)
    BY <1>1, <1>6 DEF buildModelSelector
<1>9. pipelines' \in [Names -> Pipeline]
    BY <1>3, <1>7, <1>8 DEF LoaderTypes, TypeOK
<1> QED
    BY <1>2, <1>3, <1>8, <1>9 DEF buildModelSelector, LoaderTypes, TypeOK, Stages, Loaded

LEMMA LoaderTypesFinish ==
    ASSUME LoaderTypes, finish
    PROVE  LoaderTypes'
BY DEF finish, At, Proceed, builtVars, selectorVars, LoaderTypes, TypeOK, Stages, Loaded

\* Every function of the loader keeps the types.
LEMMA LoaderTypesNext ==
    ASSUME LoaderTypes, [Next]_vars
    PROVE  LoaderTypes'
<1>1. CASE UNCHANGED vars
    BY <1>1 DEF vars, builtVars, selectorVars, LoaderTypes, TypeOK, Loaded
<1>2. CASE Fail
    BY <1>2, LoaderTypesFail
<1>3. CASE Next /\ ~Fail
    BY <1>3, LoaderTypesRaw, LoaderTypesInstantiate, LoaderTypesDefaults, LoaderTypesPicker,
       LoaderTypesProfiles, LoaderTypesPre, LoaderTypesPost, LoaderTypesBuffering,
       LoaderTypesSources, LoaderTypesBuilt, LoaderTypesRange, LoaderTypesSelector,
       LoaderTypesFinish DEF Next
<1> QED
    BY <1>1, <1>2, <1>3

\* Loading keeps every type: whatever the file, every plugin instance has a type
\* with a factory, and what is built refers to plugin names (LoadConfiguration).
THEOREM LoaderTypeCorrect == Spec => []TypeOK
<1>1. LoaderTypes => TypeOK
    BY DEF LoaderTypes
<1> QED
    BY <1>1, LoaderTypesInit, LoaderTypesNext, PTL DEF Spec

-----------------------------------------------------------------------------
(***************************************************************************)
(* The pipelines, whatever the order of the profiles.                      *)
(***************************************************************************)
SelectorsOf(n) == Those(profiles[n].RequestPlugins, "ModelSelectorPlugin")
PickersOf(n) == Those(profiles[n].ModelSelectorPlugins, "Picker")

\* The profiles that have given selector m their plugins at least once.
Started(m) ==
    {n \in Users(m) \ ranged : n = current => Count(selectors, m) < Count(SelectorsOf(n), m)}
StartedPickers(m) == UNION {Range(PickersOf(n)) : n \in Started(m)}

\* Where the loop stands: the current profile is none of those left, what is
\* left of its selectors is part of them, and nothing is left at the end.
LoopInv ==
    /\ selectors # <<>> => current \in Loaded \ ranged
    /\ current # None => \A m \in Names : Count(selectors, m) <= Count(SelectorsOf(current), m)
    /\ stage = "loaded" => selectors = <<>> /\ ranged = {}

\* A selector has a picker as soon as one profile has given it its plugins,
\* and the default one exactly as long as none of those had one.
PickInv ==
    \A m \in Names :
        /\ Started(m) = {} => pipelines[m].picker = None
        /\ Started(m) # {} /\ StartedPickers(m) = {} => pipelines[m].picker = DefaultPicker
        /\ StartedPickers(m) # {} => pipelines[m].picker \in StartedPickers(m)

\* The uses of m in the profiles the loop has reached, and the ones it has left
\* to do in the current profile.
Reached(m, s) == UNION {UsesIn(n, m, s) : n \in Users(m) \ ranged}
ToDo(m, s) == Positions(selectors, m) \X Positions(ScorersOf(current), s)

\* The scorers of a pipeline are those of the uses that are done.
ScoreInv ==
    \A m, s \in Names :
        /\ IsFiniteSet(Reached(m, s))
        /\ Count(pipelines[m].scorers, s) + Cardinality(ToDo(m, s)) = Cardinality(Reached(m, s))

\* The inductive invariant of buildModelSelector.
PipelineInv ==
    /\ LoaderTypes
    /\ stage \in {"selectors", "loaded"} => LoopInv /\ PickInv /\ ScoreInv
    /\ UnsharedSelectorVerdict

\* Taking the first element away takes one occurrence of it away.
LEMMA CountTail ==
    ASSUME NEW T, NEW s \in Seq(T), s # <<>>, NEW x
    PROVE  /\ Head(s) = x => Count(s, x) = Count(Tail(s), x) + 1
           /\ Head(s) # x => Count(s, x) = Count(Tail(s), x)
<1>1. PICK h, t : h = Head(s) /\ t = Tail(s)
    OBVIOUS
<1>2. h \in T /\ t \in Seq(T) /\ <<>> \in Seq(T)
    BY <1>1
<1>3. s = Append(<<>>, h) \o t /\ Append(<<>>, h) \in Seq(T)
    BY <1>1, <1>2
<1>4. PICK one : one = Append(<<>>, h)
    OBVIOUS
<1>5. /\ h = x => Count(one, x) = Count(<<>>, x) + 1
      /\ h # x => Count(one, x) = Count(<<>>, x)
    BY <1>2, <1>4, CountAppend
<1>6. Count(<<>>, x) = 0 /\ Count(t, x) \in Nat
    BY <1>2, CountEmpty, PositionsFinite
<1>7. Count(s, x) = Count(one, x) + Count(t, x)
    BY <1>2, <1>3, <1>4, CountConcat
<1> QED
    BY <1>1, <1>5, <1>6, <1>7

\* What the loop reads does not change while it runs.
LEMMA LoopReads ==
    ASSUME UNCHANGED <<handle, profiles>>
    PROVE  /\ Loaded' = Loaded
           /\ \A m : Users(m)' = Users(m)
           /\ \A n : SelectorsOf(n)' = SelectorsOf(n)
           /\ \A n : PickersOf(n)' = PickersOf(n)
           /\ \A n : ScorersOf(n)' = ScorersOf(n)
           /\ \A n, m, s : UsesIn(n, m, s)' = UsesIn(n, m, s)
<1>1. Loaded' = Loaded
    BY DEF Loaded
<1>2. \A n, i : Is(n, i)' <=> Is(n, i)
    BY DEF Is, Declared
<1>3. \A m : Users(m)' = Users(m)
    BY <1>1 DEF Users, Is, Declared
<1>4. \A n : SelectorsOf(n)' = SelectorsOf(n)
    BY DEF SelectorsOf, Those, Is, Declared
<1>5. \A n : PickersOf(n)' = PickersOf(n)
    BY DEF PickersOf, Those, Is, Declared
<1>6. \A n : ScorersOf(n)' = ScorersOf(n)
    BY DEF ScorersOf, Those, Is, Declared
<1>7. \A n, m, s : UsesIn(n, m, s)' = UsesIn(n, m, s)
    BY <1>6 DEF UsesIn
<1> QED
    BY <1>1, <1>3, <1>4, <1>5, <1>6, <1>7

\* The types of what the loop reads.
LEMMA LoadedProfile ==
    ASSUME LoaderTypes, NEW n \in Loaded
    PROVE  /\ n \in ProfileNames /\ n # None
           /\ profiles[n].RequestPlugins \in Seq(Names)
           /\ profiles[n].ModelSelectorPlugins \in Seq(Names)
           /\ SelectorsOf(n) \in Seq(Names) /\ PickersOf(n) \in Seq(Names)
           /\ ScorersOf(n) \in Seq(Names)
<1>1. n \in ProfileNames /\ profiles[n] \in ProfileType /\ n # None
    BY LoaderAssumption DEF LoaderTypes, TypeOK, Loaded
<1>2. /\ profiles[n].RequestPlugins \in Seq(Names)
      /\ profiles[n].ModelSelectorPlugins \in Seq(Names)
    BY <1>1 DEF ProfileType
<1> QED
    BY <1>1, <1>2, ThoseType DEF SelectorsOf, PickersOf, ScorersOf

\* The selectors of a profile are the request plugins that it uses as selectors.
LEMMA SelectorCounts ==
    ASSUME LoaderTypes, NEW n \in Loaded, NEW m \in Names
    PROVE  /\ Count(SelectorsOf(n), m) \in Nat
           /\ n \in Users(m) => /\ Count(SelectorsOf(n), m) = Count(profiles[n].RequestPlugins, m)
                                /\ Count(SelectorsOf(n), m) > 0
           /\ n \notin Users(m) => Count(SelectorsOf(n), m) = 0
<1>1. PICK S : S = {k \in Names : Is(k, "ModelSelectorPlugin")}
    OBVIOUS
<1>2. PICK refs : refs = profiles[n].RequestPlugins
    OBVIOUS
<1>3. refs \in Seq(Names)
    BY <1>2, LoadedProfile
<1>4. SelectorsOf(n) = Selected(refs, S)
    BY <1>1, <1>2 DEF SelectorsOf, Those
<1>5. Count(Selected(refs, S), m) = IF m \in S THEN Count(refs, m) ELSE 0
    BY <1>3, SelectedCount
<1>6. Count(refs, m) \in Nat
    BY <1>3, PositionsFinite
<1>7. n \in Users(m) <=> m \in S /\ Count(refs, m) > 0
    BY <1>1, <1>2 DEF Users
<1> QED
    BY <1>2, <1>4, <1>5, <1>6, <1>7

\* The loop starts with every profile left and every pipeline empty.
LEMMA LoopStarts ==
    ASSUME LoaderTypes, datalayerBuilt
    PROVE  LoopInv' /\ PickInv' /\ ScoreInv'
<1>1. /\ stage' = "selectors" /\ ranged' = Loaded /\ selectors' = <<>> /\ current' = None
      /\ pipelines' = [n \in Names |-> emptyPipeline] /\ UNCHANGED <<handle, profiles>>
    BY DEF datalayerBuilt, At, Proceed, builtVars, LoaderTypes
<1>2. \A m : Users(m)' \ ranged' = {}
    BY <1>1, LoopReads DEF Users
<1>3. LoopInv'
    BY <1>1 DEF LoopInv
<1>4. PickInv'
  <2>1. ASSUME NEW m \in Names
        PROVE  Started(m)' = {} /\ StartedPickers(m)' = {} /\ pipelines'[m].picker = None
      BY <1>1, <1>2 DEF Started, StartedPickers, emptyPipeline
  <2> QED
      BY <2>1 DEF PickInv
<1>5. ScoreInv'
  <2>1. ASSUME NEW m \in Names, NEW s \in Names
        PROVE  Reached(m, s)' = {} /\ ToDo(m, s)' = {} /\ pipelines'[m].scorers = <<>>
    <3>1. Reached(m, s)' = {}
        BY <1>2 DEF Reached
    <3>2. Positions(selectors, m)' = {}
        BY <1>1 DEF Positions
    <3> QED
        BY <1>1, <3>1, <3>2 DEF ToDo, emptyPipeline
  <2>2. IsFiniteSet({}) /\ Cardinality({}) = 0
      BY FS_EmptySet
  <2>3. ASSUME NEW m \in Names, NEW s \in Names
        PROVE  /\ IsFiniteSet(Reached(m, s))'
               /\ (Count(pipelines[m].scorers, s) + Cardinality(ToDo(m, s)) = Cardinality(Reached(m, s)))'
    <3>1. Count(pipelines[m].scorers, s)' = 0
        BY <2>1, CountEmpty
    <3>2. Cardinality(ToDo(m, s)') = 0 /\ Cardinality(Reached(m, s)') = 0
        BY <2>1, <2>2
    <3>3. IsFiniteSet(Reached(m, s)')
        BY <2>1, <2>2
    <3>4. PICK a, b, c : /\ a = Count(pipelines[m].scorers, s)' /\ b = Cardinality(ToDo(m, s)')
                         /\ c = Cardinality(Reached(m, s)')
        OBVIOUS
    <3>5. a + b = c
        BY <3>1, <3>2, <3>4
    <3> QED
        BY <3>3, <3>4, <3>5
  <2> QED
      BY <2>3 DEF ScoreInv
<1> QED
    BY <1>3, <1>4, <1>5

\* A profile the loop turns to: its uses of a selector are all to do.
LEMMA UsesToDo ==
    ASSUME LoaderTypes, NEW n \in Loaded, NEW m \in Names, NEW s \in Names, n \in Users(m)
    PROVE  /\ IsFiniteSet(UsesIn(n, m, s))
           /\ Cardinality(UsesIn(n, m, s))
                = Cardinality(Positions(SelectorsOf(n), m) \X Positions(ScorersOf(n), s))
<1>1. PICK a, b, c : /\ a = Positions(profiles[n].RequestPlugins, m)
                     /\ b = Positions(SelectorsOf(n), m) /\ c = Positions(ScorersOf(n), s)
    OBVIOUS
<1>2. /\ profiles[n].RequestPlugins \in Seq(Names) /\ SelectorsOf(n) \in Seq(Names)
      /\ ScorersOf(n) \in Seq(Names)
    BY LoadedProfile
<1>3. IsFiniteSet(a) /\ IsFiniteSet(b) /\ IsFiniteSet(c)
    BY <1>1, <1>2, PositionsFinite
<1>4. Cardinality(a) = Cardinality(b)
    BY <1>1, SelectorCounts DEF Count
<1>5. /\ IsFiniteSet(a \X c) /\ Cardinality(a \X c) = Cardinality(a) * Cardinality(c)
      /\ IsFiniteSet(b \X c) /\ Cardinality(b \X c) = Cardinality(b) * Cardinality(c)
    BY <1>3, FS_Product
<1>6. IsFiniteSet({n}) /\ Cardinality({n}) = 1
    BY FS_Singleton
<1>7. IsFiniteSet({n} \X (a \X c)) /\ Cardinality({n} \X (a \X c)) = 1 * Cardinality(a \X c)
    BY <1>5, <1>6, FS_Product
<1>8. Cardinality(a \X c) \in Nat
    BY <1>5, FS_CardinalityType
<1> QED
    BY <1>1, <1>4, <1>5, <1>7, <1>8 DEF UsesIn

LEMMA LoopRanges ==
    ASSUME LoaderTypes, LoopInv, PickInv, ScoreInv, rangeProfiles
    PROVE  LoopInv' /\ PickInv' /\ ScoreInv'
<1>1. PICK p \in ranged :
        /\ ranged' = ranged \ {p} /\ current' = p /\ selectors' = SelectorsOf(p)
    BY DEF rangeProfiles, SelectorsOf
<1>2. /\ selectors = <<>> /\ stage = "selectors" /\ stage' = "selectors"
      /\ UNCHANGED <<handle, profiles, pipelines>>
    BY DEF rangeProfiles, At, builtVars
<1>3. p \in Loaded
    BY DEF LoaderTypes
<1>4. PICK sel : sel = SelectorsOf(p)
    OBVIOUS
<1>5. sel \in Seq(Names) /\ p # None
    BY <1>3, <1>4, LoadedProfile
<1>6. \A m : Count(<<>>, m) = 0
    BY CountEmpty
<1>7. LoopInv'
  <2>1. \A m \in Names : Count(sel, m) \in Nat
      BY <1>5, PositionsFinite
  <2>2. \A m \in Names : Count(selectors', m) <= Count(SelectorsOf(p), m)
      BY <1>1, <1>4, <2>1
  <2>3. SelectorsOf(p)' = SelectorsOf(p) /\ Loaded' = Loaded
      BY <1>2, LoopReads
  <2>4. SelectorsOf(current)' = SelectorsOf(p)
      BY <1>1, <2>3 DEF SelectorsOf
  <2>5. current' \in Loaded' \ ranged'
      BY <1>1, <1>3, <2>3
  <2> QED
      BY <1>2, <2>2, <2>4, <2>5 DEF LoopInv
<1>8. PickInv'
  <2>1. ASSUME NEW m \in Names
        PROVE  Started(m)' = Started(m)
    <3>1. /\ Users(m)' = Users(m) /\ \A n : SelectorsOf(n)' = SelectorsOf(n)
        BY <1>2, LoopReads
    <3>2. \A n \in Users(m) : n \in Loaded
        BY DEF Users
    <3>3. \A n \in Users(m) : Count(SelectorsOf(n), m) > 0
        BY <3>2, SelectorCounts
    <3>4. Started(m) = Users(m) \ ranged
        BY <1>2, <1>6, <3>3 DEF Started
    <3>5. Started(m)' = {n \in Users(m) \ ranged' : n = p => Count(sel, m) < Count(SelectorsOf(n), m)}
        BY <1>1, <1>4, <3>1 DEF Started
    <3>6. ~(Count(sel, m) < Count(SelectorsOf(p), m))
      <4>1. Count(sel, m) \in Nat
          BY <1>5, PositionsFinite
      <4> QED
          BY <1>4, <4>1
    <3> QED
        BY <1>1, <3>4, <3>5, <3>6
  <2>2. ASSUME NEW m \in Names
        PROVE  StartedPickers(m)' = StartedPickers(m)
    <3>1. \A n : PickersOf(n)' = PickersOf(n)
        BY <1>2, LoopReads
    <3> QED
        BY <2>1, <3>1 DEF StartedPickers
  <2> QED
      BY <1>2, <2>1, <2>2 DEF PickInv
<1>9. ScoreInv'
  <2>1. ASSUME NEW m \in Names, NEW s \in Names
        PROVE  /\ IsFiniteSet(Reached(m, s))'
               /\ (Count(pipelines[m].scorers, s) + Cardinality(ToDo(m, s)) = Cardinality(Reached(m, s)))'
    <3>1. PICK before, after, toDo, count :
            /\ before = Reached(m, s) /\ after = Reached(m, s)'
            /\ toDo = ToDo(m, s)' /\ count = Count(pipelines[m].scorers, s)
        OBVIOUS
    <3>2. IsFiniteSet(before) /\ count + 0 = Cardinality(before)
      <4>1. Positions(selectors, m) = {}
          BY <1>2 DEF Positions
      <4>2. ToDo(m, s) = {}
          BY <4>1 DEF ToDo
      <4>3. IsFiniteSet(Reached(m, s)) /\ count + Cardinality(ToDo(m, s)) = Cardinality(Reached(m, s))
          BY <3>1 DEF ScoreInv
      <4> QED
          BY <3>1, <4>2, <4>3, FS_EmptySet
    <3>3. count \in Nat
      <4>1. pipelines[m].scorers \in Seq(Names)
          BY DEF LoaderTypes, TypeOK, Pipeline
      <4> QED
          BY <3>1, <4>1, PositionsFinite
    <3>4. toDo = Positions(SelectorsOf(p), m) \X Positions(ScorersOf(p), s)
      <4>1. ScorersOf(p)' = ScorersOf(p)
          BY <1>2, LoopReads
      <4>2. ScorersOf(current)' = ScorersOf(p)
          BY <1>1, <4>1 DEF ScorersOf
      <4> QED
          BY <1>1, <3>1, <4>2 DEF ToDo
    <3>5. after = UNION {UsesIn(n, m, s) : n \in Users(m) \ (ranged \ {p})}
      <4>1. Users(m)' = Users(m) /\ \A n : UsesIn(n, m, s)' = UsesIn(n, m, s)
          BY <1>2, LoopReads
      <4> QED
          BY <1>1, <3>1, <4>1 DEF Reached
    <3>6. CASE p \in Users(m)
      <4>1. PICK uses : uses = UsesIn(p, m, s)
          OBVIOUS
      <4>2. IsFiniteSet(uses) /\ Cardinality(uses) = Cardinality(toDo)
          BY <1>3, <3>4, <3>6, <4>1, UsesToDo
      <4>3. after = before \cup uses
          BY <1>1, <3>1, <3>5, <3>6, <4>1 DEF Reached
      <4>4. before \cap uses = {}
          BY <1>1, <3>1, <4>1 DEF Reached, UsesIn
      <4>5. /\ IsFiniteSet(before \cup uses)
            /\ Cardinality(before \cup uses)
                 = Cardinality(before) + Cardinality(uses) - Cardinality(before \cap uses)
          BY <3>2, <4>2, FS_Union
      <4>6. Cardinality(before \cap uses) = 0
          BY <4>4, FS_EmptySet
      <4>7. Cardinality(uses) \in Nat
          BY <4>2, FS_CardinalityType
      <4>8. IsFiniteSet(after) /\ count + Cardinality(toDo) = Cardinality(after)
          BY <3>2, <3>3, <4>2, <4>3, <4>5, <4>6, <4>7
      <4> QED
          BY <1>2, <3>1, <4>8
    <3>7. CASE p \notin Users(m)
      <4>1. after = before
          BY <3>1, <3>5, <3>7 DEF Reached
      <4>2. Count(SelectorsOf(p), m) = 0
          BY <1>3, <3>7, SelectorCounts
      <4>3. Positions(SelectorsOf(p), m) = {}
          BY <1>4, <1>5, <4>2, PositionsFinite
      <4>4. toDo = {}
          BY <3>4, <4>3
      <4>5. IsFiniteSet(after) /\ count + Cardinality(toDo) = Cardinality(after)
          BY <3>2, <4>1, <4>4, FS_EmptySet
      <4> QED
          BY <1>2, <3>1, <4>5
    <3> QED
        BY <3>6, <3>7
  <2> QED
      BY <2>1 DEF ScoreInv
<1> QED
    BY <1>7, <1>8, <1>9

\* The selector at hand is one the current profile uses.
LEMMA SelectorAtHand ==
    ASSUME LoaderTypes, LoopInv, selectors # <<>>
    PROVE  /\ current \in Loaded /\ current \notin ranged /\ current # None
           /\ selectors \in Seq(Names)
           /\ Head(selectors) \in Names /\ Tail(selectors) \in Seq(Names)
           /\ current \in Users(Head(selectors))
           /\ Count(selectors, Head(selectors)) > 0
           /\ Count(selectors, Head(selectors)) \in Nat
           /\ Count(selectors, Head(selectors)) <= Count(SelectorsOf(current), Head(selectors))
<1>1. current \in Loaded /\ current \notin ranged
    BY DEF LoopInv
<1>2. current # None
    BY <1>1, LoadedProfile
<1>3. selectors \in Seq(Names)
    BY DEF LoaderTypes, TypeOK
<1>4. Head(selectors) \in Names /\ Tail(selectors) \in Seq(Names)
    BY <1>3
<1>5. PICK m : m = Head(selectors)
    OBVIOUS
<1>6. Count(selectors, m) = Count(Tail(selectors), m) + 1
    BY <1>3, <1>5, CountTail
<1>7. Count(Tail(selectors), m) \in Nat
    BY <1>4, PositionsFinite
<1>8. Count(selectors, m) \in Nat /\ Count(selectors, m) > 0
    BY <1>6, <1>7
<1>9. Count(selectors, m) <= Count(SelectorsOf(current), m)
    BY <1>2, <1>4, <1>5 DEF LoopInv
<1>10. current \notin Users(m) => Count(SelectorsOf(current), m) = 0
    BY <1>1, <1>4, <1>5, SelectorCounts
<1>11. current \in Users(m)
    BY <1>8, <1>9, <1>10
<1> QED
    BY <1>1, <1>2, <1>3, <1>4, <1>5, <1>8, <1>9, <1>11

\* What a successful step of buildModelSelector does.
LEMMA SelectorMade ==
    ASSUME LoaderTypes, LoopInv, buildModelSelector, ~Fail
    PROVE  /\ stage = "selectors" /\ stage' = "selectors" /\ selectors # <<>>
           /\ UNCHANGED <<handle, profiles, ranged, current>>
           /\ selectors' = Tail(selectors)
           /\ pipelines \in [Names -> Pipeline]
           /\ pipelines' = [pipelines EXCEPT ![Head(selectors)] =
                  WithDefaultPicker(AddPlugins(pipelines[Head(selectors)],
                                               profiles[current].ModelSelectorPlugins))]
           /\ ~TooManyPickers(pipelines[Head(selectors)], profiles[current].ModelSelectorPlugins)
BY DEF buildModelSelector, At, builtVars, LoaderTypes, TypeOK

LEMMA LoopBuildsLoop ==
    ASSUME LoaderTypes, LoopInv, buildModelSelector, ~Fail
    PROVE  LoopInv'
<1>1. /\ stage' = "selectors" /\ UNCHANGED <<handle, profiles, ranged, current>>
      /\ selectors' = Tail(selectors) /\ selectors # <<>>
    BY SelectorMade
<1>2. Loaded' = Loaded /\ SelectorsOf(current)' = SelectorsOf(current)
  <2>1. Loaded' = Loaded
      BY <1>1, LoopReads
  <2>2. SelectorsOf(current)' = SelectorsOf(current)
      BY <1>1 DEF SelectorsOf, Those, Is, Declared
  <2> QED
      BY <2>1, <2>2
<1>3. /\ selectors \in Seq(Names) /\ Tail(selectors) \in Seq(Names) /\ current # None
      /\ current \in Loaded /\ current \notin ranged
    BY <1>1, SelectorAtHand
<1>4. ASSUME NEW m \in Names
      PROVE  Count(Tail(selectors), m) <= Count(SelectorsOf(current), m)
  <2>1. /\ Head(selectors) = m => Count(selectors, m) = Count(Tail(selectors), m) + 1
        /\ Head(selectors) # m => Count(selectors, m) = Count(Tail(selectors), m)
      BY <1>1, <1>3, CountTail
  <2>2. Count(Tail(selectors), m) \in Nat
      BY <1>3, PositionsFinite
  <2>3. Count(SelectorsOf(current), m) \in Nat
      BY <1>3, SelectorCounts
  <2>4. Count(selectors, m) <= Count(SelectorsOf(current), m)
      BY <1>3 DEF LoopInv
  <2> QED
      BY <2>1, <2>2, <2>3, <2>4
<1> QED
    BY <1>1, <1>2, <1>3, <1>4 DEF LoopInv

LEMMA LoopBuildsScores ==
    ASSUME LoaderTypes, LoopInv, ScoreInv, buildModelSelector, ~Fail
    PROVE  ScoreInv'
<1>1. PICK h, plugins, made :
        /\ h = Head(selectors) /\ plugins = profiles[current].ModelSelectorPlugins
        /\ made = WithDefaultPicker(AddPlugins(pipelines[h], plugins))
    OBVIOUS
<1>2. /\ UNCHANGED <<handle, profiles, ranged, current>>
      /\ selectors' = Tail(selectors) /\ selectors # <<>>
      /\ pipelines' = [pipelines EXCEPT ![h] = made] /\ pipelines \in [Names -> Pipeline]
    BY <1>1, SelectorMade
<1>3. /\ selectors \in Seq(Names) /\ Tail(selectors) \in Seq(Names) /\ current \in Loaded
      /\ h \in Names
    BY <1>1, <1>2, SelectorAtHand
<1>4. plugins \in Seq(Names) /\ ScorersOf(current) \in Seq(Names)
    BY <1>1, <1>3, LoadedProfile
<1>5. made.scorers = pipelines[h].scorers \o ScorersOf(current)
  <2>1. pipelines[h] \in Pipeline
      BY <1>2, <1>3
  <2>2. made.scorers = pipelines[h].scorers \o Those(plugins, "Scorer")
      BY <1>1, <1>4, <2>1, AddedPlugins
  <2> QED
      BY <1>1, <2>2 DEF ScorersOf
<1>6. ScorersOf(current)' = ScorersOf(current)
    BY <1>2 DEF ScorersOf, Those, Is, Declared
<1>7. ASSUME NEW m \in Names, NEW s \in Names
      PROVE  /\ IsFiniteSet(Reached(m, s))'
             /\ (Count(pipelines[m].scorers, s) + Cardinality(ToDo(m, s)) = Cardinality(Reached(m, s)))'
  <2>1. PICK reached, count, count2, todo, todo2 :
          /\ reached = Reached(m, s) /\ count = Count(pipelines[m].scorers, s)
          /\ count2 = Count(pipelines[m].scorers, s)'
          /\ todo = ToDo(m, s) /\ todo2 = ToDo(m, s)'
      OBVIOUS
  <2>2. Reached(m, s)' = reached
    <3>1. Users(m)' = Users(m) /\ \A n : UsesIn(n, m, s)' = UsesIn(n, m, s)
        BY <1>2, LoopReads
    <3> QED
        BY <1>2, <2>1, <3>1 DEF Reached
  <2>3. IsFiniteSet(reached) /\ count + Cardinality(todo) = Cardinality(reached)
      BY <2>1 DEF ScoreInv
  <2>4. PICK a, b, c : a = Positions(selectors, m) /\ b = Positions(Tail(selectors), m)
                       /\ c = Positions(ScorersOf(current), s)
      OBVIOUS
  <2>5. IsFiniteSet(a) /\ IsFiniteSet(b) /\ IsFiniteSet(c)
      BY <1>3, <1>4, <2>4, PositionsFinite
  <2>6. /\ Cardinality(a \X c) = Cardinality(a) * Cardinality(c)
        /\ Cardinality(b \X c) = Cardinality(b) * Cardinality(c)
      BY <2>5, FS_Product
  <2>7. todo = a \X c /\ todo2 = b \X c
      BY <1>2, <1>6, <2>1, <2>4 DEF ToDo
  <2>8. /\ h = m => Cardinality(a) = Cardinality(b) + 1
        /\ h # m => Cardinality(a) = Cardinality(b)
      BY <1>1, <1>2, <1>3, <2>4, CountTail DEF Count
  <2>9. PICK x, y : x = Cardinality(b) /\ y = Cardinality(c)
      OBVIOUS
  <2>10. x \in Nat /\ y \in Nat
      BY <2>5, <2>9, FS_CardinalityType
  <2>11. pipelines[m].scorers \in Seq(Names) /\ pipelines[h].scorers \in Seq(Names)
      BY <1>2, <1>3 DEF Pipeline
  <2>12. count \in Nat
      BY <2>1, <2>11, PositionsFinite
  <2>13. CASE h = m
    <3>1. pipelines'[m].scorers = pipelines[m].scorers \o ScorersOf(current)
        BY <1>2, <1>3, <1>5, <2>13
    <3>2. Count(pipelines[m].scorers \o ScorersOf(current), s) = count + y
        BY <1>4, <2>1, <2>4, <2>9, <2>11, CountConcat DEF Count
    <3>3. count2 = count + y
        BY <2>1, <3>1, <3>2
    <3>4. (x + 1) * y = x * y + y
        BY <2>10
    <3>5. Cardinality(todo) = (x + 1) * y /\ Cardinality(todo2) = x * y
        BY <2>6, <2>7, <2>8, <2>9, <2>13
    <3>6. x * y \in Nat
        BY <2>10
    <3>7. PICK z : z = x * y
        OBVIOUS
    <3>8. count + y + z = Cardinality(reached)
        BY <2>3, <2>10, <2>12, <3>4, <3>5, <3>6, <3>7
    <3>9. count2 + Cardinality(todo2) = Cardinality(reached)
        BY <3>3, <3>5, <3>7, <3>8
    <3> QED
        BY <2>1, <2>2, <2>3, <3>9
  <2>14. CASE h # m
    <3>1. pipelines'[m] = pipelines[m]
        BY <1>2, <1>3, <2>14
    <3>2. count2 = count
        BY <2>1, <3>1
    <3>3. Cardinality(todo2) = Cardinality(todo)
        BY <2>6, <2>7, <2>8, <2>14
    <3>4. count2 + Cardinality(todo2) = Cardinality(reached)
        BY <2>3, <3>2, <3>3
    <3> QED
        BY <2>1, <2>2, <2>3, <3>4
  <2> QED
      BY <2>13, <2>14
<1> QED
    BY <1>7 DEF ScoreInv

\* Which profiles have started a selector changes for the one at hand only.
LEMMA StartedNext ==
    ASSUME LoaderTypes, LoopInv, buildModelSelector, ~Fail, NEW m \in Names
    PROVE  /\ Head(selectors) = m => Started(m)' = Started(m) \cup {current}
           /\ Head(selectors) # m => Started(m)' = Started(m)
<1>1. /\ UNCHANGED <<handle, profiles, ranged, current>>
      /\ selectors' = Tail(selectors) /\ selectors # <<>>
    BY SelectorMade
<1>2. /\ selectors \in Seq(Names) /\ Tail(selectors) \in Seq(Names) /\ current \in Loaded
      /\ current \notin ranged /\ current \in Users(Head(selectors))
      /\ Count(selectors, Head(selectors)) <= Count(SelectorsOf(current), Head(selectors))
    BY <1>1, SelectorAtHand
<1>3. PICK u, left, left2 : u = Users(m) \ ranged /\ left = Count(selectors, m)
                            /\ left2 = Count(Tail(selectors), m)
    OBVIOUS
<1>4. Started(m) = {n \in u : n = current => left < Count(SelectorsOf(n), m)}
    BY <1>3 DEF Started
<1>5. Started(m)' = {n \in u : n = current => left2 < Count(SelectorsOf(n), m)}
  <2>1. Users(m)' = Users(m) /\ \A n : SelectorsOf(n)' = SelectorsOf(n)
      BY <1>1, LoopReads
  <2> QED
      BY <1>1, <1>3, <2>1 DEF Started
<1>6. /\ Head(selectors) = m => left = left2 + 1
      /\ Head(selectors) # m => left = left2
    BY <1>1, <1>2, <1>3, CountTail
<1>7. left2 \in Nat /\ Count(SelectorsOf(current), m) \in Nat
    BY <1>2, <1>3, PositionsFinite, SelectorCounts
<1>8. CASE Head(selectors) = m
  <2>1. left2 < Count(SelectorsOf(current), m) /\ current \in u
      BY <1>2, <1>3, <1>6, <1>7, <1>8
  <2>2. Started(m)' = u
      BY <1>5, <2>1
  <2>3. Started(m) \cup {current} = u
      BY <1>4, <2>1
  <2> QED
      BY <1>8, <2>2, <2>3
<1>9. CASE Head(selectors) # m
    BY <1>4, <1>5, <1>6, <1>9
<1> QED
    BY <1>8, <1>9

LEMMA LoopBuildsPicks ==
    ASSUME LoaderTypes, LoopInv, PickInv, buildModelSelector, ~Fail
    PROVE  PickInv'
<1>1. PICK h, plugins, made :
        /\ h = Head(selectors) /\ plugins = profiles[current].ModelSelectorPlugins
        /\ made = WithDefaultPicker(AddPlugins(pipelines[h], plugins))
    OBVIOUS
<1>2. /\ UNCHANGED <<handle, profiles, ranged, current>> /\ selectors # <<>>
      /\ pipelines' = [pipelines EXCEPT ![h] = made] /\ pipelines \in [Names -> Pipeline]
      /\ ~TooManyPickers(pipelines[h], plugins)
    BY <1>1, SelectorMade
<1>3. current \in Loaded /\ h \in Names
    BY <1>1, <1>2, SelectorAtHand
<1>4. PICK pickers : pickers = PickersOf(current)
    OBVIOUS
<1>5. plugins \in Seq(Names) /\ pickers \in Seq(Names) /\ pickers = Those(plugins, "Picker")
    BY <1>1, <1>3, <1>4, LoadedProfile DEF PickersOf
<1>6. \A n : PickersOf(n)' = PickersOf(n)
    BY <1>2, LoopReads
<1>7. PICK old, new : old = pipelines[h].picker /\ new = made.picker
    OBVIOUS
<1>8. /\ pickers # <<>> => new = Head(pickers)
      /\ pickers = <<>> /\ old # None => new = old
      /\ pickers = <<>> /\ old = None => new = DefaultPicker
    BY <1>1, <1>2, <1>3, <1>5, <1>7, AddedPlugins
<1>9. pickers # <<>> => Head(pickers) \in Range(pickers)
  <2>1. pickers # <<>> => 1 \in DOMAIN pickers /\ Head(pickers) = pickers[1]
      BY <1>5
  <2> QED
      BY <2>1 DEF Range
<1>10. pickers = <<>> => Range(pickers) = {}
    BY DEF Range
<1>11. ASSUME NEW m \in Names, m # h
       PROVE  /\ Started(m)' = Started(m) /\ StartedPickers(m)' = StartedPickers(m)
              /\ pipelines'[m].picker = pipelines[m].picker
  <2>1. Started(m)' = Started(m)
      BY <1>1, <1>11, StartedNext
  <2>2. StartedPickers(m)' = StartedPickers(m)
      BY <1>6, <2>1 DEF StartedPickers
  <2> QED
      BY <1>2, <1>11, <2>1, <2>2
<1>12. Started(h)' = Started(h) \cup {current}
    BY <1>1, <1>3, StartedNext
<1>13. StartedPickers(h)' = StartedPickers(h) \cup Range(pickers)
  <2>1. StartedPickers(h)' = UNION {Range(PickersOf(n)) : n \in Started(h)'}
      BY <1>6 DEF StartedPickers
  <2>2. StartedPickers(h) = UNION {Range(PickersOf(n)) : n \in Started(h)}
      BY DEF StartedPickers
  <2> QED
      BY <1>4, <1>12, <2>1, <2>2
<1>14. pipelines'[h].picker = new
    BY <1>2, <1>3, <1>7
<1>15. /\ Started(h) = {} => old = None
       /\ Started(h) # {} /\ StartedPickers(h) = {} => old = DefaultPicker
       /\ StartedPickers(h) # {} => old \in StartedPickers(h)
    BY <1>3, <1>7 DEF PickInv
<1>16. Started(h) = {} => StartedPickers(h) = {}
    BY DEF StartedPickers
<1>17. Started(h) # {} => old # None
  <2>1. StartedPickers(h) \subseteq Names
    <3>1. ASSUME NEW n \in Started(h)
          PROVE  Range(PickersOf(n)) \subseteq Names
      <4>1. n \in Loaded
          BY DEF Started, Users
      <4>2. PickersOf(n) \in Seq(Names)
          BY <4>1, LoadedProfile
      <4>3. \A k \in DOMAIN PickersOf(n) : PickersOf(n)[k] \in Names
          BY <4>2
      <4> QED
          BY <4>3 DEF Range
    <3> QED
        BY <3>1 DEF StartedPickers
  <2>2. None \notin Names /\ DefaultPicker # None
      BY LoaderAssumption
  <2> QED
      BY <1>15, <2>1, <2>2
<1>18. /\ Started(h)' # {}
       /\ StartedPickers(h)' = {} => pipelines'[h].picker = DefaultPicker
       /\ StartedPickers(h)' # {} => pipelines'[h].picker \in StartedPickers(h)'
  <2>1. CASE pickers # <<>>
      BY <1>8, <1>9, <1>12, <1>13, <1>14, <2>1
  <2>2. CASE pickers = <<>> /\ old = None
      BY <1>8, <1>10, <1>12, <1>13, <1>14, <1>16, <1>17, <2>2
  <2>3. CASE pickers = <<>> /\ old # None
      BY <1>8, <1>10, <1>12, <1>13, <1>14, <1>15, <2>3
  <2> QED
      BY <2>1, <2>2, <2>3
<1>19. ASSUME NEW m \in Names
       PROVE  /\ Started(m)' = {} => pipelines'[m].picker = None
              /\ Started(m)' # {} /\ StartedPickers(m)' = {} => pipelines'[m].picker = DefaultPicker
              /\ StartedPickers(m)' # {} => pipelines'[m].picker \in StartedPickers(m)'
  <2>1. CASE m = h
      BY <1>18, <2>1
  <2>2. CASE m # h
      BY <1>11, <2>2 DEF PickInv
  <2> QED
      BY <2>1, <2>2
<1> QED
    BY <1>19 DEF PickInv

\* Why a step of buildModelSelector fails when no selector is used twice.
LEMMA SelectorFails ==
    ASSUME LoaderTypes, LoopInv, PickInv, buildModelSelector, Fail, failed'
    PROVE  UnsharedSelectorVerdict'
<1>1. PICK h, plugins : h = Head(selectors) /\ plugins = profiles[current].ModelSelectorPlugins
    OBVIOUS
<1>2. PICK pickers : pickers = Those(plugins, "Picker")
    OBVIOUS
<1>3. selectors # <<>> /\ UNCHANGED <<handle, profiles, current, stage>> /\ ~failed
    BY DEF buildModelSelector, Fail, At, builtVars, selectorVars
<1>4. TooManyPickers(pipelines[h], plugins)
    BY <1>1, <1>3 DEF buildModelSelector
<1>5. /\ current \in Loaded /\ h \in Names /\ current \in Users(h)
      /\ Count(selectors, h) > 0 /\ Count(selectors, h) \in Nat
    BY <1>1, <1>3, SelectorAtHand
<1>6. pickers \in Seq(Names) /\ Len(pickers) \in Nat
  <2>1. plugins \in Seq(Names)
      BY <1>1, <1>5, LoadedProfile
  <2>2. pickers \in Seq(Names)
      BY <1>2, <2>1, ThoseType
  <2> QED
      BY <2>2
<1>7. SUFFICES ASSUME \A m \in Names : \A n, p \in Users(m) : n = p,
                      \A m \in Names : \A n \in Users(m) : Count(profiles[n].RequestPlugins, m) = 1
               PROVE  Len(pickers) > 1
  <2>1. \A m : Users(m)' = Users(m)
      BY <1>3, LoopReads
  <2>2. Those(profiles[current].ModelSelectorPlugins, "Picker")' = pickers
      BY <1>1, <1>2, <1>3 DEF Those, Is, Declared
  <2>3. \A n, m : Count(profiles[n].RequestPlugins, m)' = Count(profiles[n].RequestPlugins, m)
      BY <1>3
  <2> QED
      BY <2>1, <2>2, <2>3 DEF UnsharedSelectorVerdict
<1>8. pipelines[h].picker = None
  <2>1. SUFFICES ASSUME NEW n \in Started(h) PROVE FALSE
      BY <1>5 DEF PickInv
  <2>2. n \in Users(h)
      BY DEF Started
  <2>3. n = current
      BY <1>5, <1>7, <2>2
  <2>4. Count(selectors, h) < Count(SelectorsOf(n), h)
      BY <2>3 DEF Started
  <2>5. Count(SelectorsOf(n), h) = 1
      BY <1>5, <1>7, <2>2, <2>3, SelectorCounts
  <2> QED
      BY <1>5, <2>4, <2>5
<1> QED
    BY <1>2, <1>4, <1>6, <1>8 DEF TooManyPickers

\* Steps that change nothing the loop's invariants speak of.
LEMMA LoopUnchanged ==
    ASSUME LoopInv, PickInv, ScoreInv, UNCHANGED <<handle, profiles, selectorVars>>,
           stage' = "loaded" => selectors = <<>> /\ ranged = {}
    PROVE  LoopInv' /\ PickInv' /\ ScoreInv'
<1>1. UNCHANGED <<pipelines, ranged, selectors, current>>
    BY DEF selectorVars
<1>2. /\ Loaded' = Loaded
      /\ \A m : Users(m)' = Users(m)
      /\ \A n : SelectorsOf(n)' = SelectorsOf(n)
      /\ \A n : PickersOf(n)' = PickersOf(n)
      /\ \A n, m, s : UsesIn(n, m, s)' = UsesIn(n, m, s)
    BY LoopReads
<1>3. SelectorsOf(current)' = SelectorsOf(current) /\ ScorersOf(current)' = ScorersOf(current)
    BY <1>1 DEF SelectorsOf, ScorersOf, Those, Is, Declared
<1>4. LoopInv'
    BY <1>1, <1>2, <1>3 DEF LoopInv
<1>5. \A m : Started(m)' = Started(m)
    BY <1>1, <1>2 DEF Started
<1>6. \A m : StartedPickers(m)' = StartedPickers(m)
    BY <1>2, <1>5 DEF StartedPickers
<1>7. PickInv'
    BY <1>1, <1>5, <1>6 DEF PickInv
<1>8. \A m, s : Reached(m, s)' = Reached(m, s) /\ ToDo(m, s)' = ToDo(m, s)
    BY <1>1, <1>2, <1>3 DEF Reached, ToDo
<1>9. \A m, s : Count(pipelines[m].scorers, s)' = Count(pipelines[m].scorers, s)
    BY <1>1
<1>10. ScoreInv'
    BY <1>8, <1>9 DEF ScoreInv
<1> QED
    BY <1>4, <1>7, <1>10

LEMMA PipelineInit == Init => PipelineInv
<1> SUFFICES ASSUME Init PROVE PipelineInv
    OBVIOUS
<1>1. LoaderTypes
    BY LoaderTypesInit
<1>2. stage = "raw" /\ ~failed
    BY DEF Init
<1> QED
    BY <1>1, <1>2 DEF PipelineInv, UnsharedSelectorVerdict

\* Every function of the loader preserves the invariant.
LEMMA PipelineNext ==
    ASSUME PipelineInv, [Next]_vars
    PROVE  PipelineInv'
<1>1. LoaderTypes /\ LoaderTypes'
    BY LoaderTypesNext DEF PipelineInv
<1>2. UnsharedSelectorVerdict /\ (stage \in {"selectors", "loaded"} => LoopInv /\ PickInv /\ ScoreInv)
    BY DEF PipelineInv
<1>3. SUFFICES /\ stage' \in {"selectors", "loaded"} => LoopInv' /\ PickInv' /\ ScoreInv'
               /\ UnsharedSelectorVerdict'
    BY <1>1 DEF PipelineInv
<1>4. CASE UNCHANGED vars
  <2>1. UNCHANGED <<handle, profiles, selectorVars, stage, failed>>
      BY <1>4 DEF vars, builtVars
  <2>2. stage \in {"selectors", "loaded"} => LoopInv' /\ PickInv' /\ ScoreInv'
    <3>1. LoopInv => (stage' = "loaded" => selectors = <<>> /\ ranged = {})
        BY <2>1 DEF LoopInv
    <3> QED
        BY <1>2, <2>1, <3>1, LoopUnchanged
  <2>3. UnsharedSelectorVerdict'
    <3>1. \A m : Users(m)' = Users(m)
        BY <2>1, LoopReads
    <3>2. Those(profiles[current].ModelSelectorPlugins, "Picker")'
            = Those(profiles[current].ModelSelectorPlugins, "Picker")
        BY <2>1 DEF Those, Is, Declared, selectorVars
    <3>3. \A n, m : Count(profiles[n].RequestPlugins, m)' = Count(profiles[n].RequestPlugins, m)
        BY <2>1
    <3> QED
        BY <1>2, <2>1, <3>1, <3>2, <3>3 DEF UnsharedSelectorVerdict
  <2> QED
      BY <2>1, <2>2, <2>3
<1>5. CASE Next /\ stage' \notin {"selectors", "loaded"}
    BY <1>5 DEF UnsharedSelectorVerdict
<1>6. CASE datalayerBuilt
  <2>1. LoopInv' /\ PickInv' /\ ScoreInv'
      BY <1>1, <1>6, LoopStarts
  <2>2. ~failed'
      BY <1>6 DEF datalayerBuilt, At, Proceed
  <2> QED
      BY <2>1, <2>2 DEF UnsharedSelectorVerdict
<1>7. CASE rangeProfiles
  <2>1. stage = "selectors" /\ ~failed'
      BY <1>7 DEF rangeProfiles, At
  <2>2. LoopInv' /\ PickInv' /\ ScoreInv'
      BY <1>1, <1>2, <1>7, <2>1, LoopRanges
  <2> QED
      BY <2>1, <2>2 DEF UnsharedSelectorVerdict
<1>8. CASE buildModelSelector /\ ~Fail
  <2>1. stage = "selectors" /\ ~failed'
      BY <1>8 DEF buildModelSelector, At
  <2>2. LoopInv' /\ PickInv' /\ ScoreInv'
      BY <1>1, <1>2, <1>8, <2>1, LoopBuildsLoop, LoopBuildsPicks, LoopBuildsScores
  <2> QED
      BY <2>1, <2>2 DEF UnsharedSelectorVerdict
<1>9. CASE buildModelSelector /\ Fail
  <2>1. stage = "selectors" /\ stage' = "selectors" /\ UNCHANGED <<handle, profiles, selectorVars>>
        /\ failed'
      BY <1>9 DEF buildModelSelector, At, Fail, builtVars
  <2>2. LoopInv' /\ PickInv' /\ ScoreInv'
      BY <1>2, <2>1, LoopUnchanged
  <2>3. UnsharedSelectorVerdict'
      BY <1>1, <1>2, <1>9, <2>1, SelectorFails
  <2> QED
      BY <2>2, <2>3
<1>10. CASE finish
  <2>1. /\ stage = "selectors" /\ selectors = <<>> /\ ranged = {} /\ ~failed'
        /\ UNCHANGED <<handle, profiles, selectorVars>>
      BY <1>10 DEF finish, At, Proceed, builtVars
  <2>2. LoopInv' /\ PickInv' /\ ScoreInv'
      BY <1>2, <2>1, LoopUnchanged
  <2> QED
      BY <2>1, <2>2 DEF UnsharedSelectorVerdict
<1>11. ASSUME Next, stage' \in {"selectors", "loaded"}
       PROVE  datalayerBuilt \/ rangeProfiles \/ buildModelSelector \/ finish
  <2> USE DEF At, Proceed, Fail
  <2>1. ~loadRawConfiguration
      BY <1>11 DEF loadRawConfiguration
  <2>2. ~instantiatePlugins
      BY <1>11 DEF instantiatePlugins
  <2>3. ~applyPluginDefaults
      BY <1>11 DEF applyPluginDefaults
  <2>4. ~lookupProfilePicker
      BY <1>11 DEF lookupProfilePicker
  <2>5. ~buildProfiles
      BY <1>11 DEF buildProfiles
  <2>6. ~buildPreProcessors
      BY <1>11 DEF buildPreProcessors
  <2>7. ~buildPostProcessors
      BY <1>11 DEF buildPostProcessors
  <2>8. ~enforceBuffering
      BY <1>11 DEF enforceBuffering
  <2>9. ~buildDatalayerSources
      BY <1>11 DEF buildDatalayerSources
  <2> QED
      BY <1>11, <2>1, <2>2, <2>3, <2>4, <2>5, <2>6, <2>7, <2>8, <2>9 DEF Next
<1> QED
    BY <1>4, <1>5, <1>6, <1>7, <1>8, <1>9, <1>10, <1>11

LEMMA LoaderPipelines == Spec => []PipelineInv
BY PipelineInit, PipelineNext, PTL DEF Spec

\* When everything is loaded every user of a selector has started it.
LEMMA AllStarted ==
    ASSUME PipelineInv, stage = "loaded", NEW m \in Names
    PROVE  Started(m) = Users(m) /\ selectors = <<>> /\ ranged = {}
<1>1. LoaderTypes /\ LoopInv
    BY DEF PipelineInv
<1>2. selectors = <<>> /\ ranged = {}
    BY <1>1 DEF LoopInv
<1>3. Count(<<>>, m) = 0
    BY CountEmpty
<1>4. ASSUME NEW n \in Users(m)
      PROVE  Count(SelectorsOf(n), m) > 0
  <2>1. n \in Loaded
      BY DEF Users
  <2> QED
      BY <1>1, <2>1, SelectorCounts
<1> QED
    BY <1>2, <1>3, <1>4 DEF Started

\* A model selector has a picker exactly when a profile uses it: a configured
\* one if there is one, whatever the order of the profiles; one that only
\* preProcessing uses has none (buildModelSelector).
THEOREM LoadedSelectorPickers == Spec => []SelectorPickers
<1>1. PipelineInv => SelectorPickers
  <2>1. SUFFICES ASSUME PipelineInv, stage = "loaded", NEW m \in Names
                 PROVE  pipelines[m].picker \in IF Users(m) = {} THEN {None}
                                                ELSE IF ConfiguredPickers(m) = {} THEN {DefaultPicker}
                                                ELSE ConfiguredPickers(m)
      BY DEF SelectorPickers
  <2>2. Started(m) = Users(m)
      BY <2>1, AllStarted
  <2>3. StartedPickers(m) = ConfiguredPickers(m)
      BY <2>2 DEF StartedPickers, ConfiguredPickers, PickersOf
  <2>4. PickInv
      BY <2>1 DEF PipelineInv
  <2> QED
      BY <2>1, <2>2, <2>3, <2>4 DEF PickInv
<1> QED
    BY <1>1, LoaderPipelines, PTL

\* A pipeline scores with the scorers of the profiles that use it, once per
\* use, whatever the order of the profiles (AddPlugins).
THEOREM LoadedPipelinesScore == Spec => []PipelinesScoreForUsers
<1>1. PipelineInv => PipelinesScoreForUsers
  <2>1. SUFFICES ASSUME PipelineInv, stage = "loaded", NEW m \in Names, NEW s \in Names
                 PROVE  Count(pipelines[m].scorers, s)
                          = Cardinality(UNION {UsesIn(n, m, s) : n \in Users(m)})
      BY DEF PipelinesScoreForUsers
  <2>2. selectors = <<>> /\ ranged = {}
      BY <2>1, AllStarted
  <2>3. Positions(selectors, m) = {}
      BY <2>2 DEF Positions
  <2>4. ToDo(m, s) = {}
      BY <2>3 DEF ToDo
  <2>5. Reached(m, s) = UNION {UsesIn(n, m, s) : n \in Users(m)}
      BY <2>2 DEF Reached
  <2>6. PICK count : count = Count(pipelines[m].scorers, s)
      OBVIOUS
  <2>7. count + Cardinality(ToDo(m, s)) = Cardinality(Reached(m, s))
      BY <2>1, <2>6 DEF PipelineInv, ScoreInv
  <2>8. count \in Nat
    <3>1. pipelines[m].scorers \in Seq(Names)
        BY <2>1 DEF PipelineInv, LoaderTypes, TypeOK, Pipeline
    <3> QED
        BY <2>6, <3>1, PositionsFinite
  <2>9. count = Cardinality(Reached(m, s))
      BY <2>4, <2>7, <2>8, FS_EmptySet
  <2> QED
      BY <2>5, <2>6, <2>9
<1> QED
    BY <1>1, LoaderPipelines, PTL

\* Unless a selector is used twice, buildModelSelector rejects a configuration
\* only for a profile with two pickers, in every order of the profiles.
THEOREM UnsharedSelectorsLoad == Spec => []UnsharedSelectorVerdict
<1>1. PipelineInv => UnsharedSelectorVerdict
    BY DEF PipelineInv
<1> QED
    BY <1>1, LoaderPipelines, PTL
=============================================================================
