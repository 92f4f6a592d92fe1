---------------------------- MODULE PluginChain ----------------------------
(***************************************************************************)
(* A chain of plugins that mutate one InferenceMessage, in any order and   *)
(* any number of times, between the moment the handlers copy the wire      *)
(* message into it and the moment they build the ext-proc mutation: first  *)
(* the request, then the headers of its response.                          *)
(*                                                                         *)
(* The plugins that carry a model's name between body, headers and         *)
(* CycleState have actions of their own; any other plugin is any call of   *)
(* the mutation API.  A plugin that fails ends the chain, and with it the  *)
(* message: that is ExtProcStream's.                                       *)
(***************************************************************************)
EXTENDS InferenceMessage

CONSTANTS
    ModelField,    \* the "model" key of a body, the fieldName of body-field-to-header
    ModelHeader,   \* X-Gateway-Model-Name, the headerName of both plugins that have one
    BaseHeader,    \* X-Gateway-Base-Model-Name
    Models,        \* JSON strings that name a model of the datastore
    Sprint,        \* fmt.Sprintf("%v", value): a body value as a string
    EmptyString,
    BaseModelOf    \* getBaseModel; the store behind it is AdaptersStore's

ASSUME ChainAssumption ==
    /\ ModelField \in BodyFields
    /\ {ModelHeader, BaseHeader} \subseteq HeaderNames /\ ModelHeader # BaseHeader
    /\ Models \subseteq BodyValues
    /\ Sprint \in [BodyValues -> HeaderValues]
    /\ EmptyString \in HeaderValues
    /\ BaseModelOf \in [HeaderValues -> HeaderValues]

VARIABLES
    phase,         \* "request", then "response"
    wireHeaders,   \* the headers the proxy holds
    wireBody,      \* the parsed body the proxy holds
    message,       \* the InferenceMessage the plugins share
    selected,      \* the selected model in the stream's CycleState
    forwarded,     \* the model of the request as the proxy forwarded it
    since          \* history: the plugins below whose work nothing has touched since

vars == <<phase, wireHeaders, wireBody, message, selected, forwarded, since>>

NamePlugins == {"model-selector", "body-field-to-header", "base-model-to-header",
                "model-name-to-header"}

(***************************************************************************)
(* What the proxy makes of the answer built from the message.              *)
(***************************************************************************)
ForwardedHeaders ==
    ApplyHeaderMutation(wireHeaders, message.mutatedHeaders, message.removedHeaders)
ForwardedBody == IF message.bodyMutated THEN message.Body ELSE wireBody

(***************************************************************************)
(* HandleRequestHeaders and json.Unmarshal fill Headers and Body directly, *)
(* without recording a mutation.                                           *)
(***************************************************************************)
Init ==
    /\ phase = "request"
    /\ wireHeaders \in HeaderMap
    /\ wireBody \in BodyMap
    /\ message = [newInferenceMessage EXCEPT !.Headers = wireHeaders, !.Body = wireBody]
    /\ selected = NoValue /\ forwarded = NoValue /\ since = {}

\* Any other plugin; what it wrote may be what a plugin of NamePlugins wrote.
Step(m) ==
    /\ message' = m
    /\ since' = IF phase = "request" THEN {} ELSE since \ {"model-name-to-header"}
    /\ UNCHANGED <<phase, wireHeaders, wireBody, selected, forwarded>>

PluginSetsHeader == \E k \in HeaderNames, v \in HeaderValues : Step(SetHeader(message, k, v))
PluginRemovesHeader == \E k \in HeaderNames : Step(RemoveHeader(message, k))
PluginSetsBody == \E b \in BodyMap : Step(SetBody(message, b))
PluginSetsBodyField == \E f \in BodyFields, v \in BodyValues : Step(SetBodyField(message, f, v))
PluginRemovesBodyField == \E f \in BodyFields : Step(RemoveBodyField(message, f))

-----------------------------------------------------------------------------
(***************************************************************************)
(* The model selector: the selected model goes into the body and, for the  *)
(* response phase, into the CycleState.                                    *)
(***************************************************************************)
\* Mutant: a second selection does not replace what the CycleState holds.
ModelSelectorKeepingFirst(m) ==
    /\ phase = "request"
    /\ message' = SetBodyField(message, ModelField, m)
    /\ selected' = IF selected = NoValue THEN m ELSE selected
    /\ since' = {"model-selector"}
    /\ UNCHANGED <<phase, wireHeaders, wireBody, forwarded>>

ModelSelector(m) ==
    /\ phase = "request"
    /\ message' = SetBodyField(message, ModelField, m)
    /\ selected' = m
    /\ since' = {"model-selector"}
    /\ UNCHANGED <<phase, wireHeaders, wireBody, forwarded>>

\* A plugin of the request or response phase that writes at most one header.
NamePlugin(plugin, in, m) ==
    /\ phase = in
    /\ message' = m
    /\ since' = since \cup {plugin}
    /\ UNCHANGED <<phase, wireHeaders, wireBody, selected, forwarded>>

\* An absent field, or one whose string is empty, leaves the header alone.
BodyFieldToHeader ==
    LET value == message.Body[ModelField]
        exported == value # NoValue /\ Sprint[value] # EmptyString
    IN  NamePlugin("body-field-to-header", "request",
            IF exported THEN SetHeader(message, ModelHeader, Sprint[value]) ELSE message)

\* The base model may be the empty string, and is then written too.
BaseModelToHeader ==
    LET value == message.Body[ModelField]
    IN  NamePlugin("base-model-to-header", "request",
            IF value # NoValue THEN SetHeader(message, BaseHeader, BaseModelOf[Sprint[value]])
            ELSE message)

\* The model in the CycleState, if any, is echoed to the client.
ModelNameToHeader ==
    NamePlugin("model-name-to-header", "response",
        IF selected # NoValue THEN SetHeader(message, ModelHeader, Sprint[selected]) ELSE message)

\* The request is forwarded as the plugins left it; its response's headers come in.
HandleResponseHeaders ==
    /\ phase = "request" /\ phase' = "response"
    /\ forwarded' = ForwardedBody[ModelField]
    /\ wireHeaders' \in HeaderMap /\ wireBody' = EmptyBody
    /\ message' = [newInferenceMessage EXCEPT !.Headers = wireHeaders']
    /\ UNCHANGED <<selected, since>>

Next ==
    \/ PluginSetsHeader
    \/ PluginRemovesHeader
    \/ PluginSetsBody
    \/ PluginSetsBodyField
    \/ PluginRemovesBodyField
    \/ \E m \in Models : ModelSelector(m)
    \/ BodyFieldToHeader
    \/ BaseModelToHeader
    \/ ModelNameToHeader
    \/ HandleResponseHeaders

Spec == Init /\ [][Next]_vars

-----------------------------------------------------------------------------
(***************************************************************************)
(* The message and the CycleState keep their shape (types.go,              *)
(* InferenceMessage).                                                      *)
(***************************************************************************)
TypeOK ==
    /\ phase \in {"request", "response"}
    /\ wireHeaders \in HeaderMap
    /\ wireBody \in BodyMap
    /\ message \in Message
    /\ selected \in Models \cup {NoValue}
    /\ forwarded \in BodyValues \cup {NoValue}
    /\ since \subseteq NamePlugins

(***************************************************************************)
(* Whatever sequence of SetHeader and RemoveHeader calls plugins make, the *)
(* mutation sent to the proxy, applied to the headers the proxy holds,     *)
(* gives exactly the headers the last plugin saw.                          *)
(***************************************************************************)
MutationReplaysPluginView == ForwardedHeaders = message.Headers

(***************************************************************************)
(* When bodyMutated is false the handlers forward the client's own bytes   *)
(* instead of marshalling Body: that is sound only because Body is then    *)
(* what the client sent.                                                   *)
(***************************************************************************)
UnmutatedBodyIsWireBody == ~message.bodyMutated => message.Body = wireBody

(***************************************************************************)
(* Routing follows the body (ProcessRequest of the model selector and of   *)
(* the two header plugins, ProcessResponseHeaders of the third): if no     *)
(* other plugin wrote after them, the proxy routes by the model, and the   *)
(* base model, that the body it forwards names; a selected model is the    *)
(* one forwarded; and the client is told of exactly that one, however      *)
(* often a model was selected before, whatever headers came in.  A body    *)
(* without a model name leaves the routing header as it was.               *)
(***************************************************************************)
ModelNamesAgree ==
    /\ phase = "request" =>
          LET model == ForwardedBody[ModelField]
          IN  /\ "model-selector" \in since => model = selected
              /\ "body-field-to-header" \in since /\ model # NoValue =>
                    Sprint[model] \in {ForwardedHeaders[ModelHeader], EmptyString}
              /\ "base-model-to-header" \in since /\ model # NoValue =>
                    ForwardedHeaders[BaseHeader] = BaseModelOf[Sprint[model]]
    /\ phase = "response" /\ {"model-selector", "model-name-to-header"} \subseteq since =>
          /\ forwarded \in Models
          /\ ForwardedHeaders[ModelHeader] = Sprint[forwarded]
=============================================================================
