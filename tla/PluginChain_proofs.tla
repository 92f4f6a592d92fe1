------------------------ MODULE PluginChain_proofs -------------------------
(***************************************************************************)
(* The header and body bookkeeping of InferenceMessage is right for every  *)
(* set of headers, values and body fields, and every chain of plugins; and *)
(* so the model's name agrees between body, headers and CycleState.        *)
(***************************************************************************)
EXTENDS PluginChain, TLAPS

(***************************************************************************)
(* The inductive invariant.  No header is both set and removed in one      *)
(* mutation ("avoid sending set and remove for same key"), so the proxy's  *)
(* order of application is moot.  NamesKept is ModelNamesAgree in terms of *)
(* the message the plugins share, which says nothing of what the proxy     *)
(* will make of it.                                                        *)
(***************************************************************************)
SetAndRemovedDisjoint ==
    \A k \in message.removedHeaders : message.mutatedHeaders[k] = NoValue

NamesKept ==
    LET model == message.Body[ModelField]
    IN  /\ "model-selector" \in since => selected \in Models
        /\ phase = "request" =>
              /\ "model-name-to-header" \notin since
              /\ "model-selector" \in since => model = selected
              /\ "body-field-to-header" \in since /\ model # NoValue =>
                    Sprint[model] \in {message.Headers[ModelHeader], EmptyString}
              /\ "base-model-to-header" \in since /\ model # NoValue =>
                    message.Headers[BaseHeader] = BaseModelOf[Sprint[model]]
        /\ phase = "response" =>
              /\ "model-selector" \in since => forwarded = selected
              /\ "model-name-to-header" \in since /\ selected # NoValue =>
                    message.Headers[ModelHeader] = Sprint[selected]

MessageInv ==
    /\ TypeOK
    /\ MutationReplaysPluginView
    /\ SetAndRemovedDisjoint
    /\ UnmutatedBodyIsWireBody

ChainInv == MessageInv /\ NamesKept

(***************************************************************************)
(* What MutationReplaysPluginView says of each header, without functions   *)
(* as values.                                                              *)
(***************************************************************************)
HeaderAccounted(k) ==
    message.Headers[k] =
        IF message.mutatedHeaders[k] # NoValue THEN message.mutatedHeaders[k]
        ELSE IF k \in message.removedHeaders THEN NoValue
        ELSE wireHeaders[k]

\* The replay property holds exactly when every header is accounted for (ApplyHeaderMutation).
LEMMA ReplayPointwise ==
    ASSUME TypeOK
    PROVE MutationReplaysPluginView <=> \A k \in HeaderNames : HeaderAccounted(k)
BY DEF TypeOK, Message, HeaderMap, MutationReplaysPluginView, ForwardedHeaders,
    ApplyHeaderMutation, HeaderAccounted

\* The same in the next state.
LEMMA ReplayPointwiseNext ==
    ASSUME TypeOK', \A k \in HeaderNames : HeaderAccounted(k)'
    PROVE  MutationReplaysPluginView'
BY DEF TypeOK, Message, HeaderMap, MutationReplaysPluginView, ForwardedHeaders,
    ApplyHeaderMutation, HeaderAccounted

\* A fresh message with the wire's headers and body satisfies the invariant (newInferenceMessage).
LEMMA ChainInit == Init => ChainInv
<1> SUFFICES ASSUME Init PROVE ChainInv
    OBVIOUS
<1>1. TypeOK
    BY DEF Init, TypeOK, Message, newInferenceMessage, HeaderMap, BodyMap, EmptyHeaders, EmptyBody
<1>2. MutationReplaysPluginView
    <2>1. \A k \in HeaderNames : HeaderAccounted(k)
        BY <1>1 DEF Init, HeaderAccounted, newInferenceMessage, EmptyHeaders
    <2> QED BY <1>1, <2>1, ReplayPointwise
<1>3. SetAndRemovedDisjoint /\ UnmutatedBodyIsWireBody
    BY DEF Init, SetAndRemovedDisjoint, UnmutatedBodyIsWireBody, newInferenceMessage
<1>4. NamesKept
    BY DEF Init, NamesKept
<1> QED BY <1>1, <1>2, <1>3, <1>4 DEF ChainInv, MessageInv

(***************************************************************************)
(* One call of the mutation API.  History and CycleState do not matter to  *)
(* the bookkeeping.                                                        *)
(***************************************************************************)
OtherTypes ==
    /\ phase' \in {"request", "response"}
    /\ selected' \in Models \cup {NoValue}
    /\ forwarded' \in BodyValues \cup {NoValue}
    /\ since' \subseteq NamePlugins

\* SetHeader keeps the bookkeeping right.
LEMMA SetHeaderKeepsMessage ==
    ASSUME MessageInv, NEW k \in HeaderNames, NEW v \in HeaderValues, OtherTypes,
           message' = SetHeader(message, k, v), UNCHANGED <<wireHeaders, wireBody>>
    PROVE  MessageInv'
<1> USE NoValueAssumption
<1>0. message \in Message /\ wireHeaders \in HeaderMap /\ wireBody \in BodyMap
    BY DEF MessageInv, TypeOK
<1>1. \A h \in HeaderNames : HeaderAccounted(h)
    BY ReplayPointwise DEF MessageInv
<1>2. TypeOK'
    BY <1>0 DEF OtherTypes, SetHeader, TypeOK, Message, HeaderMap
<1>3. \A h \in HeaderNames : HeaderAccounted(h)'
    BY <1>0, <1>1 DEF SetHeader, HeaderAccounted, Message, HeaderMap
<1>4. SetAndRemovedDisjoint'
    BY <1>0 DEF MessageInv, SetHeader, SetAndRemovedDisjoint, Message, HeaderMap
<1>5. UnmutatedBodyIsWireBody'
    BY <1>0 DEF MessageInv, SetHeader, UnmutatedBodyIsWireBody, Message
<1> QED BY <1>2, <1>3, <1>4, <1>5, ReplayPointwiseNext DEF MessageInv

\* RemoveHeader keeps the bookkeeping right.
LEMMA RemoveHeaderKeepsMessage ==
    ASSUME MessageInv, NEW k \in HeaderNames, OtherTypes,
           message' = RemoveHeader(message, k), UNCHANGED <<wireHeaders, wireBody>>
    PROVE  MessageInv'
<1> USE NoValueAssumption
<1>0. message \in Message /\ wireHeaders \in HeaderMap /\ wireBody \in BodyMap
    BY DEF MessageInv, TypeOK
<1>1. \A h \in HeaderNames : HeaderAccounted(h)
    BY ReplayPointwise DEF MessageInv
<1>2. TypeOK'
    BY <1>0 DEF OtherTypes, RemoveHeader, TypeOK, Message, HeaderMap
<1>3. \A h \in HeaderNames : HeaderAccounted(h)'
    BY <1>0, <1>1 DEF RemoveHeader, HeaderAccounted, Message, HeaderMap
<1>4. SetAndRemovedDisjoint'
    BY <1>0 DEF MessageInv, RemoveHeader, SetAndRemovedDisjoint, Message, HeaderMap
<1>5. UnmutatedBodyIsWireBody'
    BY <1>0 DEF MessageInv, RemoveHeader, UnmutatedBodyIsWireBody, Message
<1> QED BY <1>2, <1>3, <1>4, <1>5, ReplayPointwiseNext DEF MessageInv

\* A change of the body only, marked as one, or none, keeps the bookkeeping right.
LEMMA BodyKeepsMessage ==
    ASSUME MessageInv, OtherTypes, UNCHANGED <<wireHeaders, wireBody>>,
           \/ message' = message
           \/ \E b \in BodyMap : message' = [message EXCEPT !.Body = b, !.bodyMutated = TRUE]
    PROVE  MessageInv'
<1>0. message \in Message /\ wireHeaders \in HeaderMap /\ wireBody \in BodyMap
    BY DEF MessageInv, TypeOK
<1>1. TypeOK'
    BY <1>0 DEF OtherTypes, TypeOK, Message
<1>2. SetAndRemovedDisjoint' /\ UnmutatedBodyIsWireBody' /\ MutationReplaysPluginView'
    BY <1>0 DEF MessageInv, SetAndRemovedDisjoint, UnmutatedBodyIsWireBody,
        MutationReplaysPluginView, ForwardedHeaders, Message
<1> QED BY <1>1, <1>2 DEF MessageInv

\* A plugin that is not one of NamePlugins keeps the invariant (Step).
LEMMA StepKeepsInv ==
    ASSUME ChainInv, NEW m, Step(m), MessageInv'
    PROVE  ChainInv'
<1>1. CASE phase = "request"
    BY <1>1 DEF Step, ChainInv, NamesKept
<1>2. CASE phase = "response"
    BY <1>2 DEF Step, ChainInv, NamesKept
<1> QED BY <1>1, <1>2 DEF ChainInv, MessageInv, TypeOK

\* Every step of the chain keeps the invariant.
LEMMA ChainStep == ChainInv /\ [Next]_vars => ChainInv'
<1> SUFFICES ASSUME ChainInv, [Next]_vars PROVE ChainInv'
    OBVIOUS
<1> USE NoValueAssumption, ChainAssumption
<1>0. /\ MessageInv /\ NamesKept /\ TypeOK
      /\ message \in Message /\ message.Body \in BodyMap /\ message.Headers \in HeaderMap
    BY DEF ChainInv, MessageInv, TypeOK, Message
<1>a. ASSUME NEW m, Step(m) PROVE OtherTypes /\ message' = m /\ UNCHANGED <<wireHeaders, wireBody>>
    BY <1>0, <1>a DEF Step, OtherTypes, TypeOK
<1>1. CASE PluginSetsHeader
    BY <1>0, <1>1, <1>a, SetHeaderKeepsMessage, StepKeepsInv DEF PluginSetsHeader
<1>2. CASE PluginRemovesHeader
    BY <1>0, <1>2, <1>a, RemoveHeaderKeepsMessage, StepKeepsInv DEF PluginRemovesHeader
<1>3. CASE PluginSetsBody \/ PluginSetsBodyField \/ PluginRemovesBodyField
    <2>1. PICK m : /\ Step(m)
                   /\ \/ m = message
                      \/ \E b \in BodyMap : m = [message EXCEPT !.Body = b, !.bodyMutated = TRUE]
        <3>1. CASE PluginSetsBody
            BY <3>1 DEF PluginSetsBody, SetBody
        <3>2. CASE PluginSetsBodyField
            <4>1. PICK f \in BodyFields, v \in BodyValues : Step(SetBodyField(message, f, v))
                BY <3>2 DEF PluginSetsBodyField
            <4> DEFINE b == [message.Body EXCEPT ![f] = v]
            <4>2. b \in BodyMap
                BY <1>0 DEF BodyMap
            <4>3. SetBodyField(message, f, v) = [message EXCEPT !.Body = b, !.bodyMutated = TRUE]
                BY <1>0 DEF SetBodyField, Message
            <4> QED BY <4>1, <4>2, <4>3
        <3>3. CASE PluginRemovesBodyField
            <4>1. PICK f \in BodyFields : Step(RemoveBodyField(message, f))
                BY <3>3 DEF PluginRemovesBodyField
            <4> DEFINE b == [message.Body EXCEPT ![f] = NoValue]
            <4>2. b \in BodyMap
                BY <1>0 DEF BodyMap
            <4>3. \/ RemoveBodyField(message, f) = message
                  \/ RemoveBodyField(message, f) = [message EXCEPT !.Body = b, !.bodyMutated = TRUE]
                BY <1>0 DEF RemoveBodyField, Message
            <4> QED BY <4>1, <4>2, <4>3
        <3> QED BY <1>3, <3>1, <3>2, <3>3
    <2>2. MessageInv'
        BY <1>0, <1>a, <2>1, BodyKeepsMessage
    <2> QED BY <2>1, <2>2, StepKeepsInv
<1>4. ASSUME NEW m \in Models, ModelSelector(m) PROVE ChainInv'
    <2>1. /\ \E b \in BodyMap : message' = [message EXCEPT !.Body = b, !.bodyMutated = TRUE]
          /\ message'.Body[ModelField] = m
        <3> DEFINE b == [message.Body EXCEPT ![ModelField] = m]
        <3>1. b \in BodyMap /\ b[ModelField] = m
            BY <1>0, <1>4 DEF BodyMap
        <3>2. message' = [message EXCEPT !.Body = b, !.bodyMutated = TRUE]
            BY <1>0, <1>4 DEF ModelSelector, SetBodyField, Message
        <3>3. message'.Body = b
            BY <1>0, <3>2 DEF Message
        <3> QED BY <3>1, <3>2, <3>3
    <2>2. OtherTypes /\ UNCHANGED <<wireHeaders, wireBody>>
        BY <1>0, <1>4 DEF ModelSelector, OtherTypes, TypeOK, NamePlugins
    <2>3. MessageInv'
        BY <1>0, <2>1, <2>2, BodyKeepsMessage
    <2>4. NamesKept'
        BY <1>4, <2>1 DEF ModelSelector, NamesKept
    <2> QED BY <2>3, <2>4 DEF ChainInv
<1>5. CASE BodyFieldToHeader
    <2> DEFINE value == message.Body[ModelField]
    <2>1. CASE value # NoValue /\ Sprint[value] # EmptyString
        <3>1. /\ phase = "request" /\ UNCHANGED <<phase, wireHeaders, wireBody, selected, forwarded>>
              /\ message' = SetHeader(message, ModelHeader, Sprint[value])
              /\ since' = since \cup {"body-field-to-header"}
            BY <1>5, <2>1 DEF BodyFieldToHeader, NamePlugin
        <3>2. Sprint[value] \in HeaderValues
            BY <1>0, <2>1 DEF BodyMap
        <3>3. /\ message'.Body = message.Body
              /\ message'.Headers = [message.Headers EXCEPT ![ModelHeader] = Sprint[value]]
            BY <1>0, <3>1 DEF SetHeader, Message, HeaderMap
        <3>4. MessageInv'
            BY <1>0, <3>1, <3>2, SetHeaderKeepsMessage DEF OtherTypes, TypeOK, NamePlugins
        <3>5. /\ message'.Headers[ModelHeader] = Sprint[value]
              /\ message'.Headers[BaseHeader] = message.Headers[BaseHeader]
            BY <1>0, <3>3 DEF HeaderMap
        <3>6. NamesKept'
            BY <1>0, <3>1, <3>3, <3>5 DEF NamesKept
        <3> QED BY <3>4, <3>6 DEF ChainInv
    <2>2. CASE ~(value # NoValue /\ Sprint[value] # EmptyString)
        <3>1. /\ phase = "request" /\ UNCHANGED <<phase, wireHeaders, wireBody, selected, forwarded>>
              /\ message' = message
              /\ since' = since \cup {"body-field-to-header"}
            BY <1>5, <2>2 DEF BodyFieldToHeader, NamePlugin
        <3>2. MessageInv'
            BY <1>0, <3>1, BodyKeepsMessage DEF OtherTypes, TypeOK, NamePlugins
        <3>3. NamesKept'
            BY <1>0, <2>2, <3>1 DEF NamesKept
        <3> QED BY <3>2, <3>3 DEF ChainInv
    <2> QED BY <2>1, <2>2
<1>6. CASE BaseModelToHeader
    <2> DEFINE value == message.Body[ModelField]
    <2>1. CASE value # NoValue
        <3>1. /\ phase = "request" /\ UNCHANGED <<phase, wireHeaders, wireBody, selected, forwarded>>
              /\ message' = SetHeader(message, BaseHeader, BaseModelOf[Sprint[value]])
              /\ since' = since \cup {"base-model-to-header"}
            BY <1>6, <2>1 DEF BaseModelToHeader, NamePlugin
        <3>2. BaseModelOf[Sprint[value]] \in HeaderValues
            BY <1>0, <2>1 DEF BodyMap
        <3>3. /\ message'.Body = message.Body
              /\ message'.Headers = [message.Headers EXCEPT ![BaseHeader] = BaseModelOf[Sprint[value]]]
            BY <1>0, <3>1 DEF SetHeader, Message, HeaderMap
        <3>4. MessageInv'
            BY <1>0, <3>1, <3>2, SetHeaderKeepsMessage DEF OtherTypes, TypeOK, NamePlugins
        <3>5. /\ message'.Headers[BaseHeader] = BaseModelOf[Sprint[value]]
              /\ message'.Headers[ModelHeader] = message.Headers[ModelHeader]
            BY <1>0, <3>3 DEF HeaderMap
        <3>6. NamesKept'
            BY <1>0, <3>1, <3>3, <3>5 DEF NamesKept
        <3> QED BY <3>4, <3>6 DEF ChainInv
    <2>2. CASE value = NoValue
        <3>1. /\ phase = "request" /\ UNCHANGED <<phase, wireHeaders, wireBody, selected, forwarded>>
              /\ message' = message
              /\ since' = since \cup {"base-model-to-header"}
            BY <1>6, <2>2 DEF BaseModelToHeader, NamePlugin
        <3>2. MessageInv'
            BY <1>0, <3>1, BodyKeepsMessage DEF OtherTypes, TypeOK, NamePlugins
        <3>3. NamesKept'
            BY <1>0, <2>2, <3>1 DEF NamesKept
        <3> QED BY <3>2, <3>3 DEF ChainInv
    <2> QED BY <2>1, <2>2
<1>7. CASE ModelNameToHeader
    <2>1. /\ phase = "response" /\ UNCHANGED <<phase, wireHeaders, wireBody, selected, forwarded>>
          /\ since' = since \cup {"model-name-to-header"}
        BY <1>7 DEF ModelNameToHeader, NamePlugin
    <2>2. OtherTypes
        BY <1>0, <2>1 DEF OtherTypes, TypeOK, NamePlugins
    <2>3. CASE selected = NoValue
        <3>1. message' = message
            BY <1>7, <2>3 DEF ModelNameToHeader, NamePlugin
        <3>2. MessageInv'
            BY <1>0, <2>1, <2>2, <3>1, BodyKeepsMessage
        <3>3. NamesKept'
            BY <1>0, <2>1, <2>3, <3>1 DEF NamesKept
        <3> QED BY <3>2, <3>3 DEF ChainInv
    <2>4. CASE selected # NoValue
        <3>1. message' = SetHeader(message, ModelHeader, Sprint[selected])
            BY <1>7, <2>4 DEF ModelNameToHeader, NamePlugin
        <3>2. Sprint[selected] \in HeaderValues
            BY <1>0, <2>4 DEF TypeOK
        <3>3. message'.Headers[ModelHeader] = Sprint[selected]
            BY <1>0, <3>1 DEF SetHeader, Message, HeaderMap
        <3>4. MessageInv'
            BY <1>0, <2>1, <2>2, <3>1, <3>2, SetHeaderKeepsMessage
        <3>5. NamesKept'
            BY <1>0, <2>1, <3>3 DEF NamesKept
        <3> QED BY <3>4, <3>5 DEF ChainInv
    <2> QED BY <2>3, <2>4
<1>8. CASE HandleResponseHeaders
    <2>1. /\ phase = "request" /\ phase' = "response" /\ forwarded' = ForwardedBody[ModelField]
          /\ wireHeaders' \in HeaderMap /\ wireBody' = EmptyBody
          /\ message' = [newInferenceMessage EXCEPT !.Headers = wireHeaders']
          /\ selected' = selected /\ since' = since
        BY <1>8 DEF HandleResponseHeaders
    <2>2. ForwardedBody = message.Body
        BY <1>0 DEF MessageInv, UnmutatedBodyIsWireBody, ForwardedBody
    <2>3. TypeOK'
        BY <1>0, <2>1, <2>2 DEF TypeOK, Message, newInferenceMessage, HeaderMap, BodyMap,
            EmptyHeaders, EmptyBody
    <2>4. \A k \in HeaderNames : HeaderAccounted(k)'
        BY <2>1, <2>3 DEF HeaderAccounted, newInferenceMessage, EmptyHeaders
    <2>5. SetAndRemovedDisjoint' /\ UnmutatedBodyIsWireBody'
        BY <2>1 DEF SetAndRemovedDisjoint, UnmutatedBodyIsWireBody, newInferenceMessage
    <2>6. NamesKept'
        BY <1>0, <2>1, <2>2 DEF NamesKept
    <2> QED BY <2>3, <2>4, <2>5, <2>6, ReplayPointwiseNext DEF ChainInv, MessageInv
<1>9. CASE UNCHANGED vars
    BY <1>9 DEF vars, ChainInv, MessageInv, NamesKept, TypeOK, MutationReplaysPluginView,
        ForwardedHeaders, SetAndRemovedDisjoint, UnmutatedBodyIsWireBody
<1> QED BY <1>1, <1>2, <1>3, <1>4, <1>5, <1>6, <1>7, <1>8, <1>9 DEF Next

(***************************************************************************)
(* The message keeps its shape (InferenceMessage in types.go).             *)
(***************************************************************************)
THEOREM ChainTypeCorrect == Spec => []TypeOK
<1>1. ChainInv => TypeOK BY DEF ChainInv, MessageInv
<1> QED BY <1>1, ChainInit, ChainStep, PTL DEF Spec

(***************************************************************************)
(* The mutation sent to the proxy, applied to what the proxy holds, gives  *)
(* the headers the plugins agreed on (SetHeader, RemoveHeader).            *)
(***************************************************************************)
THEOREM ChainReplays == Spec => [](MutationReplaysPluginView /\ SetAndRemovedDisjoint)
<1>1. ChainInv => MutationReplaysPluginView /\ SetAndRemovedDisjoint BY DEF ChainInv, MessageInv
<1> QED BY <1>1, ChainInit, ChainStep, PTL DEF Spec

(***************************************************************************)
(* Forwarding the client's own bytes when bodyMutated is false forwards    *)
(* the body the plugins saw (SetBody, SetBodyField, RemoveBodyField).      *)
(***************************************************************************)
THEOREM ChainBodySound == Spec => []UnmutatedBodyIsWireBody
<1>1. ChainInv => UnmutatedBodyIsWireBody BY DEF ChainInv, MessageInv
<1> QED BY <1>1, ChainInit, ChainStep, PTL DEF Spec

(***************************************************************************)
(* The model selector and the header plugins keep the model's name the     *)
(* same in the body that is forwarded, the headers it is routed by, and    *)
(* what the client is told (ProcessRequest, ProcessResponseHeaders).       *)
(***************************************************************************)
THEOREM ChainNamesAgree == Spec => []ModelNamesAgree
<1>1. ChainInv => ModelNamesAgree
    <2> SUFFICES ASSUME ChainInv PROVE ModelNamesAgree
        OBVIOUS
    <2>1. ForwardedHeaders = message.Headers /\ ForwardedBody = message.Body
        BY DEF ChainInv, MessageInv, MutationReplaysPluginView, UnmutatedBodyIsWireBody,
            ForwardedBody
    <2> QED BY <2>1, NoValueAssumption, ChainAssumption DEF ChainInv, NamesKept, ModelNamesAgree
<1> QED BY <1>1, ChainInit, ChainStep, PTL DEF Spec
=============================================================================
