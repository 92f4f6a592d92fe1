--------------------------- MODULE MCConfigLoader ---------------------------
(***************************************************************************)
(* Small configurations for TLC: one file per error path of the loader,    *)
(* every pair of profiles over the request lists that matter to model      *)
(* selectors, and every pair over the response lists with every list of    *)
(* post-processors.                                                        *)
(***************************************************************************)
EXTENDS ConfigLoader

MCImplements ==
    [body_field |-> {"RequestProcessor"}, base_model |-> {"RequestProcessor"},
     single |-> {"ProfilePicker"}, selector |-> {"RequestProcessor", "ModelSelectorPlugin"},
     scorer |-> {"Scorer"}, affinity |-> {"Scorer", "ResponseProcessor"}, picker |-> {"Picker"},
     group |-> {"Filter"}, body |-> {"ResponseProcessor"}, chunk |-> {"ResponseChunkProcessor"},
     header |-> {"ResponseHeadersProcessor"}, meta |-> {"Extractor"}, file |-> {"DataSource"},
     poll |-> {"Collector"}]
MCTypes == DOMAIN MCImplements

\* Instances under other names than their type, an undeclared one, an unknown type.
MCNames == MCTypes \cup {"sel1", "sel2", "pick1", "pick2", "pick3", "ghost", "unknown"}
MCProfileNames == {"default", "other"}

Spec1(name, type, ok) == [name |-> name, type |-> type, parameters |-> ok]
Unnamed(type) == Spec1(None, type, TRUE)
Plugins ==
    <<Unnamed("body_field"), Unnamed("scorer"), Unnamed("affinity"), Unnamed("group"),
      Unnamed("body"), Unnamed("chunk"), Unnamed("header"), Unnamed("meta"), Unnamed("file"),
      Unnamed("poll"), Spec1("sel1", "selector", TRUE), Spec1("sel2", "selector", TRUE),
      Spec1("pick1", "picker", TRUE), Spec1("pick2", "picker", TRUE)>>
WithPicker == Append(Plugins, Unnamed("single"))

Refs(names) == [k \in DOMAIN names |-> [ref |-> names[k], weight |-> names[k] # "group"]]
MCProfile(name, request, response) ==
    [name |-> name, request |-> Refs(request), response |-> response]

Base ==
    [plugins |-> Plugins, profilePicker |-> None, preProcessing |-> <<>>, postProcessing |-> <<>>,
     profiles |-> <<MCProfile("default", <<"body_field">>, <<>>)>>,
     collectors |-> <<>>, extractors |-> <<"meta">>, datasources |-> <<"file">>]

\* Profiles that share a model selector, have their own, use one twice, list
\* several pickers, a picker and no selector, or a plugin out of place.
Requests == {<<"body_field">>, <<"sel1">>, <<"sel1", "scorer">>, <<"sel1", "pick1">>,
             <<"sel1", "scorer", "group", "pick2">>, <<"sel2", "affinity", "pick1">>,
             <<"sel1", "sel1", "affinity", "scorer">>, <<"sel1", "sel1", "pick1">>,
             <<"sel1", "pick1", "pick2">>, <<"pick1">>, <<"sel1", "sel2", "scorer", "pick1">>}
SelectorConfigs ==
    {[Base EXCEPT !.plugins = WithPicker,
                  !.profiles = <<MCProfile("default", r1, <<>>), MCProfile(n2, r2, <<>>)>>] :
        r1 \in Requests, r2 \in Requests, n2 \in MCProfileNames}

Responses == {<<>>, <<"body">>, <<"chunk">>, <<"body", "affinity">>, <<"chunk", "body">>,
              <<"header">>}
PostLists == {<<>>, <<"body">>, <<"header">>, <<"header", "affinity">>, <<"chunk">>}
ResponseConfigs ==
    {[Base EXCEPT !.plugins = WithPicker, !.postProcessing = post,
                  !.profiles = <<MCProfile("default", <<"body_field">>, s1),
                                 MCProfile("other", <<"body_field">>, s2)>>] :
        s1 \in Responses, s2 \in Responses, post \in PostLists}

\* Profile pickers: referred to or not, declared or not, or not one at all.
PickerConfigs ==
    {[Base EXCEPT !.plugins = plugins, !.profilePicker = ref, !.profiles = profs] :
        plugins \in {Plugins, WithPicker, Append(WithPicker, Spec1("pick3", "single", TRUE))},
        ref \in {None, "single", "ghost", "body_field"},
        profs \in {Base.profiles, <<>>, Base.profiles \o <<MCProfile("other", <<>>, <<"body">>)>>}}

\* One file for each of the loader's other errors.
BadPlugins == {<<>>, Append(Plugins, Spec1("ghost", None, TRUE)), Append(Plugins, Unnamed("body")),
               Append(Plugins, Unnamed("unknown")), Append(Plugins, Spec1("ghost", "body", FALSE))}
BadProfiles == {MCProfile(None, <<"body_field">>, <<>>), MCProfile("other", <<>>, <<>>),
                MCProfile("other", <<"ghost">>, <<>>), MCProfile("other", <<"body">>, <<>>),
                MCProfile("other", <<"body_field">>, <<"ghost">>),
                [MCProfile("other", <<"scorer">>, <<>>) EXCEPT !.request[1].weight = FALSE]}
BrokenConfigs ==
    {[Base EXCEPT !.plugins = plugins] : plugins \in BadPlugins}
      \cup {[Base EXCEPT !.profiles = <<p>>] : p \in BadProfiles}
      \cup {[Base EXCEPT !.preProcessing = <<"body_field", pre>>] : pre \in {"ghost", "body"}}
      \cup {[Base EXCEPT !.collectors = <<"poll", c>>] : c \in {"poll", "ghost", "meta"}}
      \cup {[Base EXCEPT !.datasources = <<d>>] : d \in {"file", "ghost", "meta"}}

\* A model selector that runs on every request, and that a profile uses or not.
PreConfigs ==
    {[Base EXCEPT !.preProcessing = <<"sel1">>,
                  !.profiles = <<MCProfile("default", request, <<>>)>>] :
        request \in {<<"body_field">>, <<"pick1">>, <<"sel1", "scorer">>, <<"sel2", "pick1">>}}

MCRawConfigs == PreConfigs \cup SelectorConfigs \cup ResponseConfigs \cup PickerConfigs \cup BrokenConfigs
=============================================================================
