---------------------------- MODULE ConfigLoader ----------------------------
(***************************************************************************)
(* LoadConfiguration (pkg/config/loader): from the raw configuration to    *)
(* the plugin instances, the profiles the handlers run, the sources the    *)
(* data layer processor runs and the model selectors' pipelines.  It runs  *)
(* once, before anything is served, and its error ends the process.        *)
(*                                                                         *)
(* A plugin instance is the name it is declared under; what it can do is   *)
(* the set of interfaces its type implements.  An absent section of the    *)
(* raw configuration and an empty one behave alike and are both an empty   *)
(* sequence.  Only buildModelSelector depends on the order in which Go     *)
(* ranges over a map: that order is a nondeterministic choice.             *)
(***************************************************************************)
EXTENDS Naturals, Selection, FiniteSetsExt, Functions

CONSTANTS
    Types,         \* plugin types with a factory in plugin.Registry
    Implements,    \* for each of them, the interfaces its instances implement
    Names,         \* names of plugins and of types
    ProfileNames,  \* names of profiles
    RawConfigs,    \* the decoded configuration files considered
    None,          \* an empty string or a nil pointer
    Malformed,     \* a file that does not decode
    DefaultPicker, \* the max-score picker the loader makes itself
    SingleProfilePickerType, BodyFieldToHeaderPluginType, BaseModelToHeaderPluginType

Interface == {"RequestProcessor", "ModelSelectorPlugin", "Filter", "Scorer", "Picker",
              "ProfilePicker", "ResponseProcessor", "ResponseChunkProcessor",
              "ResponseHeadersProcessor", "Collector", "Extractor", "DataSource"}

\* weight tells whether the reference has one.
PluginRef == [ref : Names, weight : BOOLEAN]
\* parameters tells whether the factory accepts them.
PluginSpec == [name : Names \cup {None}, type : Names \cup {None}, parameters : BOOLEAN]
RawProfile == [name : ProfileNames \cup {None}, request : Seq(PluginRef), response : Seq(Names)]
RawConfig == [plugins : Seq(PluginSpec), profilePicker : Names \cup {None},
              profiles : Seq(RawProfile), preProcessing : Seq(Names),
              postProcessing : Seq(Names), collectors : Seq(Names),
              extractors : Seq(Names), datasources : Seq(Names)]

ASSUME LoaderAssumption ==
    /\ Types \subseteq Names
    /\ Implements \in [Types -> SUBSET Interface]
    /\ {SingleProfilePickerType, BodyFieldToHeaderPluginType, BaseModelToHeaderPluginType}
          \subseteq Types
    /\ "ProfilePicker" \in Implements[SingleProfilePickerType]
    /\ "default" \in ProfileNames /\ None \notin Names \cup ProfileNames
    /\ DefaultPicker \notin Names \cup {None}
    /\ RawConfigs \subseteq RawConfig
    /\ {None, Malformed} \cap RawConfig = {} /\ None # Malformed

VARIABLES
    rawConfig,       \* the file, then the raw configuration with its defaults
    handle,          \* per name: the type of the plugin instance, or None
    profilePicker,   \* the plugin instance, or None (nil)
    profiles,        \* per name: the profile built, or None
    preProcessors, postProcessors, responseHeadersPostProcessors,
    registered,      \* <<kind, name>> in order of registration with the processor
    pipelines,       \* per model-selector plugin: its pipeline
    ranged,          \* profiles buildModelSelector has left to range over
    selectors,       \* request plugins of the current one that are left
    current,         \* the current one, or None
    stage,           \* the function that runs, or "loaded"
    failed           \* LoadConfiguration returned an error

builtVars == <<profilePicker, profiles, preProcessors, postProcessors,
               responseHeadersPostProcessors, registered>>
selectorVars == <<pipelines, ranged, selectors, current>>
vars == <<rawConfig, handle, builtVars, selectorVars, stage, failed>>

Stages == {"raw", "instantiate", "defaults", "picker", "profiles", "pre", "post",
           "buffering", "datalayer", "selectors", "loaded"}

-----------------------------------------------------------------------------
Declared(n) == handle[n] # None
\* The type assertion handle.Plugin(n).(i); it fails for a plugin that is not there.
Is(n, i) == Declared(n) /\ i \in Implements[handle[n]]
IsAny(n, is) == \E i \in is : Is(n, i)
All(refs, is) == \A k \in DOMAIN refs : IsAny(refs[k], is)
\* The references that implement i, in their order.
Those(refs, i) == Selected(refs, {n \in Names : Is(n, i)})
Others(refs, i) == Selected(refs, {n \in Names : ~Is(n, i)})
RefsOf(pluginRefs) == [k \in DOMAIN pluginRefs |-> pluginRefs[k].ref]

emptyPipeline == [filters |-> <<>>, scorers |-> <<>>, picker |-> None]

\* Functions of the loader run one after the other; an error ends them all.
At(s) == stage = s /\ ~failed
Proceed(s) == stage' = s /\ UNCHANGED failed
Fail == failed' = TRUE /\ UNCHANGED <<rawConfig, handle, builtVars, selectorVars, stage>>

-----------------------------------------------------------------------------
(***************************************************************************)
(* The raw configuration and the plugin instances.                         *)
(***************************************************************************)
loadDefaultConfig ==
    LET request == <<BodyFieldToHeaderPluginType, BaseModelToHeaderPluginType>>
    IN  [plugins |-> [k \in 1..2 |-> [name |-> None, type |-> request[k], parameters |-> TRUE]],
         profiles |-> <<[name |-> "default", response |-> <<>>,
                         request |-> [k \in 1..2 |-> [ref |-> request[k], weight |-> FALSE]]]>>,
         profilePicker |-> None, preProcessing |-> <<>>, postProcessing |-> <<>>,
         collectors |-> <<>>, extractors |-> <<>>, datasources |-> <<>>]

\* A plugin without a name is named after its type.
applyRawConfigDefaults(cfg) ==
    [cfg EXCEPT !.plugins = [k \in DOMAIN cfg.plugins |->
        LET spec == cfg.plugins[k]
        IN  IF spec.name = None THEN [spec EXCEPT !.name = spec.type] ELSE spec]]

loadRawConfiguration ==
    /\ At("raw")
    /\ IF rawConfig = Malformed THEN Fail
       ELSE /\ rawConfig' = applyRawConfigDefaults(IF rawConfig = None THEN loadDefaultConfig
                                                   ELSE rawConfig)
            /\ Proceed("instantiate")
            /\ UNCHANGED <<handle, builtVars, selectorVars>>

\* Mutant: a type without a factory is not noticed.
InstantiableUnchecked(specs) ==
    /\ specs # <<>>
    /\ \A k \in DOMAIN specs : specs[k].parameters
    /\ \A j, k \in DOMAIN specs : specs[j].name = specs[k].name => j = k

Instantiable(specs) ==
    /\ specs # <<>>
    /\ \A k \in DOMAIN specs : specs[k].type \in Types /\ specs[k].parameters
    /\ \A j, k \in DOMAIN specs : specs[j].name = specs[k].name => j = k

instantiatePlugins ==
    /\ At("instantiate")
    /\ LET specs == rawConfig.plugins
       IN  IF ~Instantiable(specs) THEN Fail
           ELSE /\ handle' = [n \in Names |->
                      IF \E k \in DOMAIN specs : specs[k].name = n
                      THEN (CHOOSE spec \in Range(specs) : spec.name = n).type ELSE None]
                /\ Proceed("defaults")
                /\ UNCHANGED <<rawConfig, builtVars, selectorVars>>

\* The profile picker of a configuration that refers to none: the only one it
\* declares, or a new single-profile-picker when there is one profile.
registerDefaultPlugin(type) ==
    /\ handle' = [handle EXCEPT ![type] = type]
    /\ rawConfig' = [rawConfig EXCEPT !.profilePicker = type,
                        !.plugins = Append(@, [name |-> type, type |-> type, parameters |-> TRUE])]

applyPluginDefaults ==
    /\ At("defaults")
    /\ LET pickers == {n \in Names : Is(n, "ProfilePicker")}
       IN  \/ /\ rawConfig.profilePicker # None
              /\ UNCHANGED <<handle, rawConfig, builtVars, selectorVars>> /\ Proceed("picker")
           \/ /\ rawConfig.profilePicker = None /\ Cardinality(pickers) = 1
              /\ rawConfig' = [rawConfig EXCEPT !.profilePicker = CHOOSE n \in pickers : TRUE]
              /\ UNCHANGED <<handle, builtVars, selectorVars>> /\ Proceed("picker")
           \/ /\ rawConfig.profilePicker = None /\ pickers = {} /\ Len(rawConfig.profiles) = 1
              /\ registerDefaultPlugin(SingleProfilePickerType)
              /\ UNCHANGED <<builtVars, selectorVars>> /\ Proceed("picker")
           \/ /\ rawConfig.profilePicker = None
              /\ Cardinality(pickers) > 1 \/ (pickers = {} /\ Len(rawConfig.profiles) # 1)
              /\ Fail

\* A reference to anything else than a profile picker is logged, and leaves nil.
lookupProfilePicker ==
    /\ At("picker")
    /\ profilePicker' = IF Is(rawConfig.profilePicker, "ProfilePicker")
                        THEN rawConfig.profilePicker ELSE None
    /\ Proceed("profiles")
    /\ UNCHANGED <<rawConfig, handle, profiles, preProcessors, postProcessors,
                   responseHeadersPostProcessors, registered, selectorVars>>

-----------------------------------------------------------------------------
(***************************************************************************)
(* Profiles and processors.                                                *)
(***************************************************************************)
SelectorInterface == {"Filter", "Scorer", "Picker"}

\* Mutant: profiles may mix.
ValidProfileMixed(raw) ==
    /\ raw.name # None
    /\ raw.request # <<>> \/ raw.response # <<>>
    /\ \A k \in DOMAIN raw.request :
          LET r == raw.request[k]
          IN  \/ Is(r.ref, "RequestProcessor")
              \/ IsAny(r.ref, SelectorInterface) /\ (Is(r.ref, "Scorer") => r.weight)
    /\ All(raw.response, {"ResponseProcessor", "ResponseChunkProcessor"})

\* What buildProfiles accepts.
ValidProfile(raw) ==
    /\ raw.name # None
    /\ raw.request # <<>> \/ raw.response # <<>>
    /\ \A k \in DOMAIN raw.request :
          LET r == raw.request[k]
          IN  \/ Is(r.ref, "RequestProcessor")
              \/ IsAny(r.ref, SelectorInterface) /\ (Is(r.ref, "Scorer") => r.weight)
    /\ All(raw.response, {"ResponseProcessor", "ResponseChunkProcessor"})
    /\ \/ Those(raw.response, "ResponseProcessor") = <<>>
       \/ Others(raw.response, "ResponseProcessor") = <<>>

\* What it makes of it: a plugin goes to the first list whose interface it has.
Profile(raw) ==
    LET request == RefsOf(raw.request)
    IN  [RequestPlugins |-> Those(request, "RequestProcessor"),
         ModelSelectorPlugins |-> Others(request, "RequestProcessor"),
         ResponsePlugins |-> Those(raw.response, "ResponseProcessor"),
         ResponseChunkProcessors |-> Others(raw.response, "ResponseProcessor"),
         NeedsResponseBuffering |-> Those(raw.response, "ResponseProcessor") # <<>>]

\* For each name, the position of the last profile with that name, or 0.
IsLast(last, raws) ==
    \A n \in ProfileNames :
        /\ last[n] \in {k \in DOMAIN raws : raws[k].name = n} \cup {0}
        /\ \A k \in DOMAIN raws : raws[k].name = n => k <= last[n]

\* Of several profiles with one name the last one stays in the map.
buildProfiles ==
    /\ At("profiles")
    /\ LET raws == rawConfig.profiles
       IN  IF raws = <<>> \/ \E k \in DOMAIN raws : ~ValidProfile(raws[k]) THEN Fail
           ELSE /\ \E last \in [ProfileNames -> 0 .. Len(raws)] :
                      /\ IsLast(last, raws)
                      /\ profiles' = [n \in ProfileNames |-> IF last[n] = 0 THEN None
                                                             ELSE Profile(raws[last[n]])]
                /\ Proceed("pre")
                /\ UNCHANGED <<rawConfig, handle, profilePicker, preProcessors, postProcessors,
                               responseHeadersPostProcessors, registered, selectorVars>>

buildPreProcessors ==
    /\ At("pre")
    /\ IF ~All(rawConfig.preProcessing, {"RequestProcessor"}) THEN Fail
       ELSE /\ preProcessors' = rawConfig.preProcessing
            /\ Proceed("post")
            /\ UNCHANGED <<rawConfig, handle, profilePicker, profiles, postProcessors,
                           responseHeadersPostProcessors, registered, selectorVars>>

\* A plugin with both interfaces is in both lists.
buildPostProcessors ==
    /\ At("post")
    /\ LET refs == rawConfig.postProcessing
       IN  IF ~All(refs, {"ResponseProcessor", "ResponseHeadersProcessor"}) THEN Fail
           ELSE /\ postProcessors' = Those(refs, "ResponseProcessor")
                /\ responseHeadersPostProcessors' = Those(refs, "ResponseHeadersProcessor")
                /\ Proceed("buffering")
                /\ UNCHANGED <<rawConfig, handle, profilePicker, profiles, preProcessors,
                               registered, selectorVars>>

Buffered(p) ==
    [RequestPlugins |-> p.RequestPlugins, ModelSelectorPlugins |-> p.ModelSelectorPlugins,
     ResponsePlugins |-> p.ResponsePlugins, NeedsResponseBuffering |-> TRUE,
     ResponseChunkProcessors |-> p.ResponseChunkProcessors]

Loaded == {n \in ProfileNames : profiles[n] # None}

\* Body post-processors exclude chunk processors and force every profile to buffer.
enforceBuffering ==
    /\ At("buffering")
    /\ IF postProcessors = <<>>
       THEN Proceed("datalayer") /\ UNCHANGED <<rawConfig, handle, builtVars, selectorVars>>
       ELSE IF \E n \in Loaded : profiles[n].ResponseChunkProcessors # <<>> THEN Fail
       ELSE /\ profiles' = [n \in ProfileNames |->
                   IF n \in Loaded THEN Buffered(profiles[n]) ELSE None]
            /\ Proceed("datalayer")
            /\ UNCHANGED <<rawConfig, handle, profilePicker, preProcessors, postProcessors,
                           responseHeadersPostProcessors, registered, selectorVars>>

-----------------------------------------------------------------------------
(***************************************************************************)
(* The data layer's sources, registered one at a time up to the first bad  *)
(* reference.                                                              *)
(***************************************************************************)
Tagged(kind, refs) == [k \in DOMAIN refs |-> <<kind, refs[k]>>]
Sources == Tagged("Collector", rawConfig.collectors) \o Tagged("Extractor", rawConfig.extractors)
             \o Tagged("DataSource", rawConfig.datasources)

buildDatalayerSources ==
    /\ At("datalayer") /\ Len(registered) < Len(Sources)
    /\ LET next == Sources[Len(registered) + 1]
       IN  IF ~Is(next[2], next[1]) THEN Fail
           ELSE /\ registered' = Append(registered, next)
                /\ UNCHANGED <<rawConfig, handle, profilePicker, profiles, preProcessors,
                               postProcessors, responseHeadersPostProcessors, selectorVars,
                               stage, failed>>

datalayerBuilt ==
    /\ At("datalayer") /\ Len(registered) = Len(Sources)
    /\ ranged' = Loaded
    /\ Proceed("selectors")
    /\ UNCHANGED <<rawConfig, handle, builtVars, pipelines, selectors, current>>

-----------------------------------------------------------------------------
(***************************************************************************)
(* Model selectors.  Profiles come in any order; every model-selector      *)
(* plugin among a profile's request plugins gets all the profile's         *)
(* filters, scorers and pickers, and max-score if it then has no picker.   *)
(***************************************************************************)
rangeProfiles ==
    /\ At("selectors") /\ selectors = <<>>
    /\ \E n \in ranged :
          /\ ranged' = ranged \ {n}
          /\ current' = n
          /\ selectors' = Those(profiles[n].RequestPlugins, "ModelSelectorPlugin")
    /\ UNCHANGED <<rawConfig, handle, builtVars, pipelines, stage, failed>>

\* Mutant: the plugins of the profiles before are replaced.
AddPluginsReplacing(pipeline, plugins) ==
    [filters |-> Those(plugins, "Filter"), scorers |-> Those(plugins, "Scorer"),
     picker |-> IF Those(plugins, "Picker") = <<>> THEN pipeline.picker
                ELSE Head(Those(plugins, "Picker"))]

\* AddPlugins when it succeeds; the loader has given every scorer its weight.
AddPlugins(pipeline, plugins) ==
    [filters |-> pipeline.filters \o Those(plugins, "Filter"),
     scorers |-> pipeline.scorers \o Those(plugins, "Scorer"),
     picker |-> IF Those(plugins, "Picker") = <<>> THEN pipeline.picker
                ELSE Head(Those(plugins, "Picker"))]

\* Mutant: no default.
WithoutDefaultPicker(pipeline) == pipeline

WithDefaultPicker(pipeline) ==
    IF pipeline.picker = None THEN [pipeline EXCEPT !.picker = DefaultPicker] ELSE pipeline

\* Mutant: a single picker is one too many.
AnyPicker(pipeline, plugins) ==
    Len(Those(plugins, "Picker")) + (IF pipeline.picker = None THEN 0 ELSE 1) > 0

TooManyPickers(pipeline, plugins) ==
    Len(Those(plugins, "Picker")) + (IF pipeline.picker = None THEN 0 ELSE 1) > 1

buildModelSelector ==
    /\ At("selectors") /\ selectors # <<>>
    /\ LET m == Head(selectors)
           plugins == profiles[current].ModelSelectorPlugins
       IN  IF TooManyPickers(pipelines[m], plugins) THEN Fail
           ELSE /\ pipelines' = [pipelines EXCEPT ![m] = WithDefaultPicker(AddPlugins(@, plugins))]
                /\ selectors' = Tail(selectors)
                /\ UNCHANGED <<rawConfig, handle, builtVars, ranged, current, stage, failed>>

finish ==
    /\ At("selectors") /\ selectors = <<>> /\ ranged = {}
    /\ Proceed("loaded")
    /\ UNCHANGED <<rawConfig, handle, builtVars, selectorVars>>

-----------------------------------------------------------------------------
Init ==
    /\ rawConfig \in RawConfigs \cup {None, Malformed}
    /\ handle = [n \in Names |-> None] /\ profilePicker = None
    /\ profiles = [n \in ProfileNames |-> None]
    /\ preProcessors = <<>> /\ postProcessors = <<>> /\ responseHeadersPostProcessors = <<>>
    /\ registered = <<>>
    /\ pipelines = [n \in Names |-> emptyPipeline]
    /\ ranged = {} /\ selectors = <<>> /\ current = None
    /\ stage = "raw" /\ failed = FALSE

Next ==
    \/ loadRawConfiguration \/ instantiatePlugins \/ applyPluginDefaults \/ lookupProfilePicker
    \/ buildProfiles \/ buildPreProcessors \/ buildPostProcessors \/ enforceBuffering
    \/ buildDatalayerSources \/ datalayerBuilt
    \/ rangeProfiles \/ buildModelSelector \/ finish

Spec == Init /\ [][Next]_vars

-----------------------------------------------------------------------------
(***************************************************************************)
(* Properties.                                                             *)
(***************************************************************************)
ProfileType == [RequestPlugins : Seq(Names), ModelSelectorPlugins : Seq(Names),
                ResponsePlugins : Seq(Names), ResponseChunkProcessors : Seq(Names),
                NeedsResponseBuffering : BOOLEAN]
Pipeline == [filters : Seq(Names), scorers : Seq(Names), picker : Names \cup {None, DefaultPicker}]

\* Every variable has its type; in particular every instance has a type with a factory.
TypeOK ==
    /\ rawConfig \in RawConfig \cup {None, Malformed}
    /\ handle \in [Names -> Types \cup {None}]
    /\ profilePicker \in Names \cup {None}
    /\ profiles \in [ProfileNames -> ProfileType \cup {None}]
    /\ preProcessors \in Seq(Names) /\ postProcessors \in Seq(Names)
    /\ responseHeadersPostProcessors \in Seq(Names)
    /\ registered \in Seq({"Collector", "Extractor", "DataSource"} \X Names)
    /\ pipelines \in [Names -> Pipeline]
    /\ ranged \subseteq ProfileNames /\ selectors \in Seq(Names)
    /\ current \in ProfileNames \cup {None}
    /\ stage \in Stages /\ failed \in BOOLEAN

\* What the handlers take for granted of a profile (ExtProcStream!profiles).
FitsHandlers(p) ==
    /\ p.ResponsePlugins = <<>> \/ p.ResponseChunkProcessors = <<>>
    /\ postProcessors = <<>> \/ p.ResponseChunkProcessors = <<>>
    /\ p.NeedsResponseBuffering = (p.ResponsePlugins # <<>> \/ postProcessors # <<>>)

\* The profiles of a loaded configuration are ones the stream handlers work
\* with: response plugins or chunk processors but not both, no chunk processors
\* beside body post-processors, and a response is buffered exactly when
\* something wants its whole body.
ProfilesFitHandlers == stage = "loaded" => \A n \in Loaded : FitsHandlers(profiles[n])

Positions(s, x) == {k \in DOMAIN s : s[k] = x}
Count(s, x) == Cardinality(Positions(s, x))
\* The profiles whose request plugins have model selector m, those that
\* buildModelSelector visits it for, and the pickers they configure.
Users(m) == {n \in Loaded : Is(m, "ModelSelectorPlugin") /\ Count(profiles[n].RequestPlugins, m) > 0}
ConfiguredPickers(m) ==
    UNION {Range(Those(profiles[n].ModelSelectorPlugins, "Picker")) : n \in Users(m)}

\* When everything is loaded, a model selector that a profile has among its
\* request plugins has a picker, whatever the order of the profiles: one that
\* those profiles configure, and the default "if no Picker was configured"
\* (buildModelSelector).  Any other has none, also one that requests reach
\* through preProcessing: buildModelSelector ranges over the profiles only, and
\* the picker such a selector runs into is nil (model_selector_pipeline.go:261).
SelectorPickers ==
    stage = "loaded" => \A m \in Names :
        pipelines[m].picker \in IF Users(m) = {} THEN {None}
                                ELSE IF ConfiguredPickers(m) = {} THEN {DefaultPicker}
                                ELSE ConfiguredPickers(m)

\* The uses of model selector m with a reference to scorer s: a profile, where it
\* has m and where it has s.
ScorersOf(n) == Those(profiles[n].ModelSelectorPlugins, "Scorer")
UsesIn(n, m, s) ==
    {n} \X (Positions(profiles[n].RequestPlugins, m) \X Positions(ScorersOf(n), s))

\* A pipeline scores with exactly the scorers of the profiles that use it,
\* once per use: none is lost or doubled, in whatever order profiles come.
PipelinesScoreForUsers ==
    stage = "loaded" => \A m, s \in Names :
        Count(pipelines[m].scorers, s) = Cardinality(UNION {UsesIn(n, m, s) : n \in Users(m)})

\* As long as no model selector is used twice, buildModelSelector fails for one
\* reason only: the profile at hand lists two pickers.  A shared one may fail or
\* not with the order of the profiles.
UnsharedSelectorVerdict ==
    /\ failed /\ stage = "selectors"
    /\ \A m \in Names : \A n, p \in Users(m) : n = p
    /\ \A m \in Names : \A n \in Users(m) : Count(profiles[n].RequestPlugins, m) = 1
    => Len(Those(profiles[current].ModelSelectorPlugins, "Picker")) > 1

\* "Every reference elsewhere resolves to a `name` declared here"
\* (docs/configuration.md:67): a configuration that loads has a profile picker.
PickerResolves == stage = "loaded" => profilePicker # None
=============================================================================
