----------------------- MODULE ExtProcStream_proofs ------------------------
(***************************************************************************)
(* Proofs about a stream, for every set of headers and body fields, every  *)
(* bound and every plugin. Part 1: type correctness, that the stream       *)
(* implements StreamEvents, and that a notified message is not written     *)
(* again. Part 2: the answers come in protocol order, each header answer   *)
(* carries the plugins' view, and the post-processors are not passed over. *)
(* Part 3: the bodies arrive whole, with the length announced.             *)
(***************************************************************************)
EXTENDS ExtProcStream, SequenceLemmas

-----------------------------------------------------------------------------
(***************************************************************************)
(* PART 1: a stream's types, its events and its notified message.          *)
(***************************************************************************)

(***************************************************************************)
(* Operators on messages keep the shape of a message.                      *)
(***************************************************************************)
\* SetHeader on a message is a message.
LEMMA SetHeaderType ==
    ASSUME NEW m \in Message, NEW k \in HeaderNames, NEW v \in HeaderValues
    PROVE  SetHeader(m, k, v) \in Message
BY DEF SetHeader, Message, HeaderMap

\* The effect of a run of plugins on a message is a message.
LEMMA PluginEffectsType ==
    ASSUME NEW m \in Message, NEW r \in PluginEffects(m)
    PROVE  r \in Message
<1>0. PluginKeys \subseteq HeaderNames
    BY StreamAssumption
<1>1. ASSUME NEW k \in PluginKeys PROVE RemoveHeader(m, k) \in Message
    BY <1>0 DEF RemoveHeader, Message, HeaderMap
<1>2. ASSUME NEW f \in BodyFields, NEW v \in BodyValues PROVE SetBodyField(m, f, v) \in Message
    BY DEF SetBodyField, Message, BodyMap
<1>3. ASSUME NEW k \in PluginKeys, NEW v \in PluginValues PROVE SetHeader(m, k, v) \in Message
    BY SetHeaderType, StreamAssumption
<1> QED BY <1>1, <1>2, <1>3 DEF PluginEffects

\* A list of plugins, empty or not, turns a message into a message.
LEMMA RunPluginsType ==
    ASSUME NEW m \in Message, NEW installed, NEW r \in RunPlugins(m, installed)
    PROVE  r \in Message
BY PluginEffectsType DEF RunPlugins

\* Parsing a document into a message is a message.
LEMMA UnmarshalType ==
    ASSUME NEW m \in Message, NEW d \in BodyMap
    PROVE  Unmarshal(m, d) \in Message
BY DEF Unmarshal, Message, BodyMap

\* The context of a new stream holds two empty messages.
LEMMA NewMessageType == newInferenceMessage \in Message
BY DEF newInferenceMessage, Message, HeaderMap, BodyMap, EmptyHeaders, EmptyBody

(***************************************************************************)
(* Bytes, chunks and responses.                                            *)
(***************************************************************************)
\* Bytes written by plugins form a body of the length asked for.
LEMMA WrittenType ==
    ASSUME NEW n \in Nat
    PROVE  Written(n) \in Seq(Nat) /\ Len(Written(n)) = n
BY DEF Written, PluginByte

\* The next bytes of the wire form a body of the length asked for.
LEMMA WireBytesType ==
    ASSUME NEW n \in Nat, NEW len \in Nat
    PROVE  WireBytes(n, len) \in Seq(Nat) /\ Len(WireBytes(n, len)) = len
BY DEF WireBytes

\* A slice that ends inside the body is made of the body's bytes.
LEMMA SliceType ==
    ASSUME NEW s \in Seq(Nat), NEW m \in Nat \ {0}, NEW n \in 0 .. Len(s)
    PROVE  SubSeq(s, m, n) \in Seq(Nat)
<1>1. CASE m <= n
    BY <1>1, SubSeqProperties
<1>2. CASE ~(m <= n)
    <2>1. SubSeq(s, m, n) = <<>>
        BY <1>2
    <2> QED BY <2>1
<1> QED BY <1>1, <1>2

\* The chunks of a body are streamed body responses (BuildChunkedBodyResponses).
LEMMA StreamedBodyType ==
    ASSUME NEW side \in Sides, NEW bytes \in Seq(Nat)
    PROVE  StreamedBody(side, bytes) \in Seq(Response)
<1> DEFINE count == IF bytes = <<>> THEN 1 ELSE (Len(bytes) + BodyByteLimit - 1) \div BodyByteLimit
           chunks == Chunks(bytes, TRUE, BodyByteLimit)
<1>1. count \in Nat
    BY StreamAssumption
<1>2. chunks = [i \in 1 .. count |->
           [body |-> SubSeq(bytes, (i - 1) * BodyByteLimit + 1, Smaller(i * BodyByteLimit, Len(bytes))),
            eos |-> TRUE /\ i = count]]
    BY DEF Chunks
<1>3. ASSUME NEW i \in 1 .. count
      PROVE  BodyResponse(side, chunks[i]) \in Response
    <2>1. (i - 1) * BodyByteLimit \in Nat /\ i * BodyByteLimit \in Nat
        BY StreamAssumption, <1>1
    <2>2. Smaller(i * BodyByteLimit, Len(bytes)) \in 0 .. Len(bytes)
        BY <2>1 DEF Smaller
    <2>3. SubSeq(bytes, (i - 1) * BodyByteLimit + 1, Smaller(i * BodyByteLimit, Len(bytes))) \in Seq(Nat)
        BY <2>1, <2>2, SliceType
    <2>4. chunks[i].body \in Seq(Nat) /\ chunks[i].eos \in BOOLEAN
        <3> DEFINE slice == SubSeq(bytes, (i - 1) * BodyByteLimit + 1,
                                   Smaller(i * BodyByteLimit, Len(bytes)))
                   last == (TRUE /\ i = count)
        <3>1. last \in BOOLEAN
            OBVIOUS
        <3>2. chunks[i] = [body |-> slice, eos |-> last]
            BY <1>2
        <3>3. slice \in Seq(Nat)
            BY <2>3
        <3> HIDE DEF slice, last, chunks
        <3> QED BY <3>1, <3>2, <3>3
    <2> QED BY <2>4 DEF BodyResponse, Response
<1>4. StreamedBody(side, bytes) = [i \in 1 .. count |-> BodyResponse(side, chunks[i])]
    BY <1>2 DEF StreamedBody
<1> HIDE DEF count, chunks
<1> QED BY <1>1, <1>3, <1>4

\* A header answer built from a message is a response.
LEMMA HeadersResponseType ==
    ASSUME NEW side \in Sides, NEW m \in Message
    PROVE  HeadersResponse(side, m) \in Response
BY DEF HeadersResponse, Response, Message

\* A header answer followed by the chunks of a body is a list of responses.
LEMMA HeadersAndBodyType ==
    ASSUME NEW side \in Sides, NEW m \in Message, NEW bytes \in Seq(Nat)
    PROVE  <<HeadersResponse(side, m)>> \o StreamedBody(side, bytes) \in Seq(Response)
BY HeadersResponseType, StreamedBodyType, ConcatProperties

\* The answer to an error is an immediate response or nothing (BuildErrResponse).
LEMMA ErrorAnswerType ==
    ASSUME NEW err, BuildErrResponse(err)
    PROVE  pending' \in Seq(Response) /\ status' \in {"running", "failing", "closed"}
<1>1. ImmediateResponse \in Response
    BY DEF Response
<1>2. <<ImmediateResponse>> \in Seq(Response) /\ <<>> \in Seq(Response)
    BY <1>1
<1>3. \/ pending' = <<ImmediateResponse>> /\ status' = "failing"
      \/ pending' = <<>> /\ status' = "closed"
    BY DEF BuildErrResponse
<1> QED BY <1>2, <1>3

(***************************************************************************)
(* The two halves of TypeOK: what the proxy has sent, what the server has. *)
(***************************************************************************)
ProxyTypeOK ==
    /\ reqSide \in {"idle", "open", "ended", "trailers"}
    /\ respSide \in {"idle", "open", "ended", "trailers"}
    /\ reqBytes \in 0 .. MaxBody /\ respBytes \in 0 .. MaxBody
    /\ reqLast \in 0 .. reqBytes /\ respLast \in 0 .. respBytes
    /\ redelivered \in 0 .. MaxRedeliver
    /\ reqWire \in HeaderMap /\ respWire \in HeaderMap

ServerTypeOK ==
    /\ postProcessors \in BOOLEAN
    /\ reqCtx \in RequestContext
    /\ requestBody \in Seq(Nat) /\ responseBody \in Seq(Nat)
    /\ requestBodyComplete \in BOOLEAN /\ responseBodyComplete \in BOOLEAN
    /\ pending \in Seq(Response) /\ out \in Seq(Response)
    /\ status \in {"running", "failing", "closed"}
    /\ events \in Seq(Event)
    /\ postRan \in {"no", "ran", "skipped"}

\* TypeOK is the conjunction of its halves, in a state and in its successor.
LEMMA TypeHalves == /\ TypeOK <=> ProxyTypeOK /\ ServerTypeOK
                    /\ TypeOK' <=> ProxyTypeOK' /\ ServerTypeOK'
BY DEF TypeOK, ProxyTypeOK, ServerTypeOK

\* Fields of the request context (RequestContext in server.go).
LEMMA ContextFields ==
    ASSUME ServerTypeOK
    PROVE  /\ reqCtx.Request \in Message /\ reqCtx.Response \in Message
           /\ reqCtx.Profile \in Profile
           /\ reqCtx.Request.Body[ModelField] \in BodyValues \cup {NoValue}
BY StreamAssumption DEF ServerTypeOK, RequestContext, Message, BodyMap

\* A complete request body, processed: the handler's results are well typed.
LEMMA HandleRequestBodyType ==
    ASSUME ServerTypeOK, NEW bytes \in Seq(Nat), Len(bytes) <= MaxBody, HandleRequestBody(bytes)
    PROVE  /\ reqCtx' \in RequestContext /\ events' \in Seq(Event)
           /\ pending' \in Seq(Response) /\ status' = status
           /\ UNCHANGED <<postProcessors, out, postRan>>
<1>1. PICK body \in BodyMap : \E pre \in PluginEffects(Unmarshal(reqCtx.Request, body)) :
        \E p \in profiles, m \in PluginEffects(pre), n \in 1 .. MaxWrite :
            ForwardRequest(m, p, bytes, n)
    BY DEF HandleRequestBody
<1>2. PICK pre \in PluginEffects(Unmarshal(reqCtx.Request, body)) :
        \E p \in profiles, m \in PluginEffects(pre), n \in 1 .. MaxWrite :
            ForwardRequest(m, p, bytes, n)
    BY <1>1
<1>a. PICK p \in profiles, m \in PluginEffects(pre), n \in 1 .. MaxWrite :
        ForwardRequest(m, p, bytes, n)
    BY <1>2
<1> DEFINE sent == IF m.bodyMutated THEN Written(n) ELSE bytes
           request == SetHeader(m, ContentLength, Len(sent))
<1>3. m \in Message
    BY ContextFields, UnmarshalType, PluginEffectsType
<1>4. sent \in Seq(Nat) /\ Len(sent) \in HeaderValues
    BY WrittenType, StreamAssumption
<1>5. request \in Message
    BY <1>3, <1>4, SetHeaderType, StreamAssumption
<1>6. [type |-> "request", model |-> request.Body[ModelField]] \in Event
    BY <1>5, StreamAssumption DEF Event, Sides, Message, BodyMap
<1>7. p \in Profile
    BY DEF profiles
<1>8. /\ reqCtx' = [reqCtx EXCEPT !.Request = request, !.Profile = p]
      /\ events' = Append(events, [type |-> "request", model |-> request.Body[ModelField]])
      /\ Answer(<<HeadersResponse("request", request)>> \o StreamedBody("request", sent))
      /\ UNCHANGED <<postProcessors, out, postRan>>
    BY <1>a DEF ForwardRequest
<1>9. <<HeadersResponse("request", request)>> \o StreamedBody("request", sent) \in Seq(Response)
    BY <1>4, <1>5, HeadersAndBodyType DEF Sides
<1> HIDE DEF sent, request
<1>10. reqCtx' \in RequestContext
    BY <1>5, <1>7, <1>8 DEF ServerTypeOK, RequestContext
<1>11. events' \in Seq(Event)
    BY <1>6, <1>8, AppendProperties DEF ServerTypeOK
<1> QED BY <1>8, <1>9, <1>10, <1>11 DEF Answer

\* A request body message leaves the server's state well typed (Process, RequestBody case).
LEMMA RequestBodyType ==
    ASSUME ServerTypeOK, NEW chunk \in Seq(Nat), NEW eos \in BOOLEAN, RequestBody(chunk, eos),
           requestBodyComplete \/ Len(requestBody) + Len(chunk) <= MaxBody
    PROVE  ServerTypeOK'
<1>1. CASE requestBodyComplete
    BY <1>1 DEF RequestBody, Answer, ServerTypeOK, bodyVars, doneVars
<1>2. CASE ~requestBodyComplete
    <2>1. /\ requestBody' = requestBody \o chunk
          /\ requestBodyComplete' = eos
          /\ UNCHANGED <<responseBody, responseBodyComplete>>
        BY <1>2 DEF RequestBody
    <2>2. requestBody' \in Seq(Nat) /\ Len(requestBody') <= MaxBody
        BY <1>2, <2>1, ConcatProperties DEF ServerTypeOK
    <2>3. CASE HandleRequestBody(requestBody')
        BY <2>1, <2>2, <2>3, HandleRequestBodyType DEF ServerTypeOK
    <2>4. CASE HandleRequestBodyFails
        BY <2>1, <2>2, <2>4, ErrorAnswerType DEF HandleRequestBodyFails, ServerTypeOK, doneVars
    <2>5. CASE Answer(<<>>) /\ UNCHANGED <<postProcessors, reqCtx, doneVars>>
        BY <2>1, <2>2, <2>5 DEF Answer, ServerTypeOK, doneVars
    <2> QED BY <1>2, <2>3, <2>4, <2>5 DEF RequestBody
<1> QED BY <1>1, <1>2 DEF ServerTypeOK

\* Response headers leave the server's state well typed (HandleResponseHeaders).
LEMMA ResponseHeadersType ==
    ASSUME ServerTypeOK, NEW headers \in HeaderMap, NEW eos \in BOOLEAN,
           HandleResponseHeaders(headers, eos)
    PROVE  ServerTypeOK'
<1>1. ASSUME NEW m \in PluginEffects([reqCtx.Response EXCEPT !.Headers = headers]),
             reqCtx' = [reqCtx EXCEPT !.Response = m],
             Answer(IF eos THEN <<HeadersResponse("response", m)>> ELSE <<>>),
             UNCHANGED <<postProcessors, bodyVars, doneVars>>
      PROVE  ServerTypeOK'
    <2>1. [reqCtx.Response EXCEPT !.Headers = headers] \in Message
        BY ContextFields DEF Message
    <2>2. m \in Message
        BY <2>1, PluginEffectsType
    <2>3. pending' \in Seq(Response) /\ status' = status
        <3>1. HeadersResponse("response", m) \in Response
            BY <2>2, HeadersResponseType DEF Sides
        <3> QED BY <1>1, <3>1 DEF Answer
    <2>4. reqCtx' \in RequestContext
        BY <1>1, <2>2 DEF ServerTypeOK, RequestContext
    <2> QED BY <1>1, <2>3, <2>4 DEF ServerTypeOK, bodyVars, doneVars
<1>2. ASSUME NEW err \in Errors, BuildErrResponse(err),
             UNCHANGED <<postProcessors, reqCtx, bodyVars, doneVars>>
      PROVE  ServerTypeOK'
    BY <1>2, ErrorAnswerType DEF ServerTypeOK, bodyVars, doneVars
<1> QED BY <1>1, <1>2 DEF HandleResponseHeaders

\* What the handlers of a response body may change, well typed.
ResponseHandled ==
    /\ reqCtx' \in RequestContext /\ pending' \in Seq(Response)
    /\ status' \in {"running", "failing", "closed"}
    /\ postRan' \in {"no", "ran", "skipped"}
    /\ reqCtx'.Request = reqCtx.Request

\* A failing response handler leaves a well-typed context and answer.
LEMMA ResponseFailsType ==
    ASSUME ServerTypeOK, NEW err, BuildErrResponse(err),
           reqCtx' = [reqCtx EXCEPT !.ResponseStarted = TRUE], UNCHANGED postRan
    PROVE  ResponseHandled
<1>1. reqCtx' \in RequestContext /\ reqCtx'.Request = reqCtx.Request
    BY DEF ServerTypeOK, RequestContext
<1> QED BY <1>1, ErrorAnswerType DEF ServerTypeOK, ResponseHandled

\* A buffered response body, processed (HandleResponseBody).
LEMMA HandleResponseBodyType ==
    ASSUME ServerTypeOK, NEW bytes \in Seq(Nat), HandleResponseBody(bytes)
    PROVE  ResponseHandled
<1>1. CASE PassThrough(bytes)
    <2>1. reqCtx' \in RequestContext /\ reqCtx'.Request = reqCtx.Request
        BY <1>1 DEF PassThrough, ServerTypeOK, RequestContext
    <2>2. pending' \in Seq(Response) /\ status' = status
        BY <1>1, ContextFields, HeadersAndBodyType DEF PassThrough, Answer, Sides
    <2> QED BY <1>1, <2>1, <2>2 DEF PassThrough, ServerTypeOK, ResponseHandled
<1>2. CASE RunResponsePlugins(bytes)
    <2>1. PICK body \in BodyMap :
            \E own \in RunPlugins(Unmarshal(reqCtx.Response, body), reqCtx.Profile.ResponsePlugins) :
            \E m \in RunPlugins(own, postProcessors), n \in 1 .. MaxWrite :
                ForwardResponse(m, bytes, n)
        BY <1>2 DEF RunResponsePlugins
    <2>2. PICK own \in RunPlugins(Unmarshal(reqCtx.Response, body), reqCtx.Profile.ResponsePlugins) :
            \E m \in RunPlugins(own, postProcessors), n \in 1 .. MaxWrite :
                ForwardResponse(m, bytes, n)
        BY <2>1
    <2>3. PICK m \in RunPlugins(own, postProcessors), n \in 1 .. MaxWrite :
            ForwardResponse(m, bytes, n)
        BY <2>2
    <2> DEFINE sent == IF m.bodyMutated THEN Written(n) ELSE bytes
               response == IF m.bodyMutated THEN SetHeader(m, ContentLength, Len(sent)) ELSE m
    <2>4. m \in Message
        BY ContextFields, UnmarshalType, RunPluginsType
    <2>5. sent \in Seq(Nat) /\ (m.bodyMutated => Len(sent) \in HeaderValues)
        BY WrittenType, StreamAssumption
    <2>6. response \in Message
        BY <2>4, <2>5, SetHeaderType, StreamAssumption
    <2>7. /\ reqCtx' = [reqCtx EXCEPT !.Response = response, !.ResponseStarted = TRUE]
          /\ Answer(<<HeadersResponse("response", response)>> \o StreamedBody("response", sent))
          /\ postRan' = IF postProcessors THEN "ran" ELSE postRan
        BY <2>3 DEF ForwardResponse
    <2>8. <<HeadersResponse("response", response)>> \o StreamedBody("response", sent) \in Seq(Response)
        BY <2>5, <2>6, HeadersAndBodyType DEF Sides
    <2> HIDE DEF sent, response
    <2>9. reqCtx' \in RequestContext /\ reqCtx'.Request = reqCtx.Request
        BY <2>6, <2>7 DEF ServerTypeOK, RequestContext
    <2> QED BY <2>7, <2>8, <2>9 DEF Answer, ServerTypeOK, ResponseHandled
<1>3. ASSUME NEW err \in Errors, BuildErrResponse(err),
             reqCtx' = [reqCtx EXCEPT !.ResponseStarted = TRUE], UNCHANGED postRan
      PROVE  ResponseHandled
    BY <1>3, ResponseFailsType
<1> QED BY <1>1, <1>2, <1>3 DEF HandleResponseBody

\* One streamed response chunk, processed (HandleResponseChunk).
LEMMA HandleResponseChunkType ==
    ASSUME ServerTypeOK, NEW bytes \in Seq(Nat), NEW eos \in BOOLEAN,
           HandleResponseChunk(bytes, eos)
    PROVE  ResponseHandled
<1> DEFINE processed == reqCtx.Profile.ResponseChunkProcessors
           bodies == {bytes} \cup (IF processed THEN {Written(n) : n \in 0 .. MaxWrite} ELSE {})
<1>1. ASSUME NEW m \in RunPlugins(reqCtx.Response, processed), NEW sent \in bodies,
             reqCtx' = [reqCtx EXCEPT !.Response = m, !.ResponseHeadersSent = TRUE,
                                      !.ResponseStarted = TRUE],
             Answer(buildStreamedChunkResponse(m, [body |-> sent, eos |-> eos])),
             UNCHANGED postRan
      PROVE  ResponseHandled
    <2>1. m \in Message
        BY ContextFields, RunPluginsType
    <2>2. sent \in Seq(Nat)
        <3>1. \A n \in 0 .. MaxWrite : Written(n) \in Seq(Nat)
            BY WrittenType, StreamAssumption
        <3> QED BY <3>1
    <2>3. BodyResponse("response", [body |-> sent, eos |-> eos]) \in Response
        BY <2>2 DEF BodyResponse, Response, Sides
    <2>4. HeadersResponse("response", m) \in Response
        BY <2>1, HeadersResponseType DEF Sides
    <2>5. buildStreamedChunkResponse(m, [body |-> sent, eos |-> eos]) \in Seq(Response)
        BY <2>3, <2>4 DEF buildStreamedChunkResponse
    <2>6. reqCtx' \in RequestContext /\ reqCtx'.Request = reqCtx.Request
        BY <1>1, <2>1 DEF ServerTypeOK, RequestContext
    <2> QED BY <1>1, <2>5, <2>6 DEF Answer, ServerTypeOK, ResponseHandled
<1>2. ASSUME NEW err \in Errors, BuildErrResponse(err),
             reqCtx' = [reqCtx EXCEPT !.ResponseStarted = TRUE], UNCHANGED postRan
      PROVE  ResponseHandled
    BY <1>2, ResponseFailsType
<1> QED BY <1>1, <1>2 DEF HandleResponseChunk

(***************************************************************************)
(* What a step may do to the events, the completion flags and the request  *)
(* body they depend on.                                                    *)
(***************************************************************************)
QuietStep ==
    /\ events' = events
    /\ reqCtx'.Request.Body = reqCtx.Request.Body
    /\ requestBodyComplete => requestBodyComplete'
    /\ responseBodyComplete => responseBodyComplete'

RequestNotified ==
    /\ ~requestBodyComplete /\ requestBodyComplete'
    /\ responseBodyComplete' = responseBodyComplete
    /\ events' = Append(events, [type |-> "request", model |-> reqCtx'.Request.Body[ModelField]])

ResponseNotified ==
    /\ ~responseBodyComplete /\ responseBodyComplete'
    /\ requestBodyComplete' = requestBodyComplete
    /\ reqCtx'.Request = reqCtx.Request
    /\ events' = Append(events, ResponseEvent)

EventStep == QuietStep \/ (RequestNotified /\ respSide = "idle") \/ ResponseNotified

\* A request body message fires at most the request event, and only once (RequestBody).
LEMMA RequestBodyEvents ==
    ASSUME ServerTypeOK, NEW chunk \in Seq(Nat), NEW eos \in BOOLEAN, RequestBody(chunk, eos)
    PROVE  QuietStep \/ RequestNotified
<1>1. CASE requestBodyComplete
    BY <1>1 DEF RequestBody, QuietStep, bodyVars, doneVars
<1>2. CASE ~requestBodyComplete /\ ~eos
    BY <1>2 DEF RequestBody, QuietStep, doneVars
<1>3. CASE ~requestBodyComplete /\ eos /\ HandleRequestBodyFails
    BY <1>3 DEF RequestBody, HandleRequestBodyFails, QuietStep, doneVars
<1>4. CASE ~requestBodyComplete /\ eos /\ HandleRequestBody(requestBody')
    <2>1. PICK m, p, n : ForwardRequest(m, p, requestBody', n)
        BY <1>4 DEF HandleRequestBody
    <2>2. \A r : reqCtx' = [reqCtx EXCEPT !.Request = r, !.Profile = p] => reqCtx'.Request = r
        BY DEF ServerTypeOK, RequestContext
    <2>3. events' = Append(events, [type |-> "request", model |-> reqCtx'.Request.Body[ModelField]])
        BY <2>1, <2>2 DEF ForwardRequest
    <2>4. requestBodyComplete' /\ responseBodyComplete' = responseBodyComplete
        BY <1>4 DEF RequestBody
    <2> QED BY <1>4, <2>3, <2>4 DEF RequestNotified
<1> QED BY <1>1, <1>2, <1>3, <1>4 DEF RequestBody

\* A response body message keeps the types and fires at most the response event (ResponseBody).
LEMMA ResponseBodyStep ==
    ASSUME ServerTypeOK, NEW chunk \in Seq(Nat), NEW eos \in BOOLEAN, ResponseBody(chunk, eos)
    PROVE  ServerTypeOK' /\ (QuietStep \/ ResponseNotified)
           /\ UNCHANGED <<requestBody, requestBodyComplete>>
           /\ reqCtx'.Request = reqCtx.Request
<1>1. CASE responseBodyComplete
    BY <1>1 DEF ResponseBody, Answer, ServerTypeOK, QuietStep, bodyVars, doneVars
<1>2. CASE ~responseBodyComplete
    <2>1. /\ responseBodyComplete' = eos
          /\ events' = IF eos THEN Append(events, ResponseEvent) ELSE events
          /\ UNCHANGED <<postProcessors, requestBody, requestBodyComplete, out>>
        BY <1>2 DEF ResponseBody
    <2>2. responseBody \o chunk \in Seq(Nat)
        BY ConcatProperties DEF ServerTypeOK
    <2>3. ResponseHandled /\ responseBody' \in Seq(Nat)
        <3>1. CASE /\ responseBody' = responseBody \o chunk
                   /\ reqCtx' = [reqCtx EXCEPT !.ResponseStarted = TRUE]
                   /\ Answer(<<>>)
                   /\ UNCHANGED postRan
            <4>1. reqCtx' \in RequestContext /\ reqCtx'.Request = reqCtx.Request
                BY <3>1 DEF ServerTypeOK, RequestContext
            <4> QED BY <2>2, <3>1, <4>1 DEF Answer, ServerTypeOK, ResponseHandled
        <3>2. CASE responseBody' = responseBody \o chunk /\ HandleResponseBody(responseBody')
            BY <2>2, <3>2, HandleResponseBodyType
        <3>3. CASE HandleResponseChunk(chunk, eos) /\ UNCHANGED responseBody
            BY <3>3, HandleResponseChunkType DEF ServerTypeOK
        <3> QED BY <1>2, <3>1, <3>2, <3>3 DEF ResponseBody
    <2>4. ResponseEvent \in Event
        BY ContextFields DEF ResponseEvent, Event, Sides
    <2>5. events' \in Seq(Event)
        BY <2>1, <2>4, AppendProperties DEF ServerTypeOK
    <2>6. ServerTypeOK'
        BY <2>1, <2>3, <2>5 DEF ServerTypeOK, ResponseHandled
    <2>7. QuietStep \/ ResponseNotified
        BY <1>2, <2>1, <2>3 DEF QuietStep, ResponseNotified, ResponseHandled
    <2> QED BY <2>1, <2>3, <2>6, <2>7 DEF ResponseHandled
<1> QED BY <1>1, <1>2 DEF ServerTypeOK

(***************************************************************************)
(* The inductive invariant.  A buffer that is not complete holds what the  *)
(* proxy sent, so its length is a header value; a side that has not begun  *)
(* is not complete; an event of a side means that side is complete; and    *)
(* the events are those of StreamEvents for the model in the request body, *)
(* which is the model each of them was fired with.                         *)
(***************************************************************************)
BufferAccounted == ~requestBodyComplete => Len(requestBody) = reqBytes

IdleSides ==
    /\ reqSide = "idle" => ~requestBodyComplete
    /\ respSide = "idle" => ~responseBodyComplete

EventImpliesComplete ==
    \A i \in DOMAIN events :
        /\ events[i].type = "request" => requestBodyComplete
        /\ events[i].type = "response" => responseBodyComplete

RequestEvent == [type |-> "request", model |-> reqCtx.Request.Body[ModelField]]

EventShape ==
    \/ events = <<>> /\ reqCtx.Request.Body[ModelField] = NoValue
    \/ events = <<RequestEvent>>
    \/ events = <<ResponseEvent>> /\ reqCtx.Request.Body[ModelField] = NoValue
    \/ events = <<RequestEvent, ResponseEvent>>

EventInv == EventImpliesComplete /\ EventShape

StreamInv == TypeOK /\ BufferAccounted /\ IdleSides /\ EventInv

\* Appending to a list of at most one event.
LEMMA ShortAppend ==
    ASSUME NEW e, NEW f
    PROVE  Append(<<>>, f) = <<f>> /\ Append(<<e>>, f) = <<e, f>>
<1> DEFINE S == {e, f}
<1>1. e \in S /\ f \in S
    OBVIOUS
<1> HIDE DEF S
<1>2. <<e>> \in Seq(S) /\ <<>> \in Seq(S) /\ <<e, f>> \in Seq(S) /\ <<f>> \in Seq(S)
    BY <1>1
<1>3. Append(<<>>, f) = <<f>>
    BY <1>1, <1>2
<1>4. Append(<<e>>, f) = <<e, f>>
    <2>1. Append(<<e>>, f) \in Seq(S) /\ Len(Append(<<e>>, f)) = 2 /\ Len(<<e, f>>) = 2
        BY <1>1, <1>2
    <2>2. Append(<<e>>, f)[1] = e /\ Append(<<e>>, f)[2] = f
        BY <1>1, <1>2
    <2>3. \A i \in 1 .. 2 : Append(<<e>>, f)[i] = <<e, f>>[i]
        BY <2>2
    <2> QED BY <1>2, <2>1, <2>3, SeqEqual
<1> QED BY <1>3, <1>4

\* An event of a stream has the type it was made with.
LEMMA EventTypes == RequestEvent.type = "request" /\ ResponseEvent.type = "response"
BY DEF RequestEvent, ResponseEvent

\* The request event is the first of its stream: no event precedes it (HandleRequestBody).
LEMMA RequestEventIsFirst ==
    ASSUME EventInv, IdleSides, ~requestBodyComplete, respSide = "idle"
    PROVE  events = <<>>
<1>1. \A i \in DOMAIN events : events[i].type # "request" /\ events[i].type # "response"
    BY DEF EventInv, EventImpliesComplete, IdleSides
<1>2. ASSUME NEW e, NEW f, events = <<e, f>> PROVE 1 \in DOMAIN events /\ events[1] = e
    BY <1>2
<1>3. ASSUME NEW e, events = <<e>> PROVE 1 \in DOMAIN events /\ events[1] = e
    BY <1>3
<1> QED BY <1>1, <1>2, <1>3, EventTypes DEF EventInv, EventShape

\* The response event follows at most a request event (Process, at EndOfStream).
LEMMA ResponseEventIsLast ==
    ASSUME EventInv, ~responseBodyComplete
    PROVE  \/ events = <<>> /\ reqCtx.Request.Body[ModelField] = NoValue
           \/ events = <<RequestEvent>>
<1>1. \A i \in DOMAIN events : events[i].type # "response"
    BY DEF EventInv, EventImpliesComplete
<1>2. ASSUME NEW e, NEW f, events = <<e, f>> PROVE 2 \in DOMAIN events /\ events[2] = f
    BY <1>2
<1>3. ASSUME NEW e, events = <<e>> PROVE 1 \in DOMAIN events /\ events[1] = e
    BY <1>3
<1> QED BY <1>1, <1>2, <1>3, EventTypes DEF EventInv, EventShape

\* A step of one of the three kinds keeps the shape of the events (Notify in both handlers).
LEMMA EventStepKeepsInv ==
    ASSUME ServerTypeOK, ServerTypeOK', EventInv, IdleSides, EventStep
    PROVE  EventInv'
<1>1. CASE QuietStep
    <2>1. RequestEvent' = RequestEvent /\ ResponseEvent' = ResponseEvent
        BY <1>1 DEF QuietStep, RequestEvent, ResponseEvent
    <2>2. EventShape'
        BY <1>1, <2>1 DEF QuietStep, EventInv, EventShape
    <2> QED BY <1>1, <2>2 DEF QuietStep, EventInv, EventImpliesComplete
<1>2. CASE RequestNotified /\ respSide = "idle"
    <2>1. events' = <<RequestEvent'>>
        BY <1>2, RequestEventIsFirst DEF RequestNotified, RequestEvent
    <2>2. \A i \in DOMAIN events' : events'[i].type = "request"
        <3> DEFINE ev == RequestEvent'
        <3>1. ev.type = "request"
            BY DEF RequestEvent
        <3>2. events' = <<ev>>
            BY <2>1
        <3> HIDE DEF ev
        <3> QED BY <3>1, <3>2
    <2>3. EventImpliesComplete'
        BY <1>2, <2>2 DEF RequestNotified, EventImpliesComplete
    <2> QED BY <2>1, <2>3 DEF EventInv, EventShape
<1>3. CASE ResponseNotified
    <2>1. RequestEvent' = RequestEvent /\ ResponseEvent' = ResponseEvent
        BY <1>3 DEF ResponseNotified, RequestEvent, ResponseEvent
    <2>2. events' = Append(events, ResponseEvent)
        BY <1>3 DEF ResponseNotified
    <2>3. \/ events = <<>> /\ reqCtx.Request.Body[ModelField] = NoValue
          \/ events = <<RequestEvent>>
        BY <1>3, ResponseEventIsLast DEF ResponseNotified
    <2>4. EventShape'
        <3>1. \A e, f : Append(<<>>, f) = <<f>> /\ Append(<<e>>, f) = <<e, f>>
            BY ShortAppend
        <3>2. reqCtx'.Request.Body[ModelField] = reqCtx.Request.Body[ModelField]
            BY <1>3 DEF ResponseNotified
        <3>3. \/ events' = <<ResponseEvent>> /\ reqCtx.Request.Body[ModelField] = NoValue
              \/ events' = <<RequestEvent, ResponseEvent>>
            BY <2>2, <2>3, <3>1, Zenon
        <3> QED BY <2>1, <3>2, <3>3, Zenon DEF EventShape
    <2>5. requestBodyComplete' = requestBodyComplete /\ responseBodyComplete'
        BY <1>3 DEF ResponseNotified
    <2>6. EventImpliesComplete'
        <3> DEFINE ev == ResponseEvent
        <3>1. ev.type = "response" /\ events' = Append(events, ev)
            BY <2>2, EventTypes
        <3> HIDE DEF ev
        <3>a. /\ DOMAIN events = 1 .. Len(events) /\ DOMAIN events' = 1 .. (Len(events) + 1)
              /\ Len(events) \in Nat /\ events'[Len(events) + 1] = ev
              /\ \A i \in 1 .. Len(events) : events'[i] = events[i]
            BY <3>1 DEF ServerTypeOK
        <3>2. \A i \in DOMAIN events' : (i \in DOMAIN events /\ events'[i] = events[i])
                                           \/ events'[i] = ev
            BY <3>a
        <3> QED BY <2>5, <3>1, <3>2 DEF EventInv, EventImpliesComplete
    <2> QED BY <2>4, <2>6 DEF EventInv
<1> QED BY <1>1, <1>2, <1>3 DEF EventStep

(***************************************************************************)
(* What a step may do to the messages of the stream: the request is not    *)
(* written after its body is complete, nor the response after its own.     *)
(***************************************************************************)
Frozen ==
    /\ requestBodyComplete => reqCtx'.Request = reqCtx.Request
    /\ responseBodyComplete => reqCtx'.Response = reqCtx.Response

\* A complete side is left alone, and a side that has not begun stays incomplete (Process).
LEMMA SidesStep ==
    ASSUME StreamInv, [Next]_vars
    PROVE  IdleSides' /\ Frozen
<1>0. IdleSides /\ reqCtx \in RequestContext
    BY TypeHalves DEF StreamInv, ServerTypeOK
<1>1. CASE RecvRequestHeaders
    <2>1. PICK headers, eos : HandleRequestHeaders(headers, eos) /\ reqSide' # "idle"
        BY <1>1 DEF RecvRequestHeaders
    <2>2. reqCtx'.Response = reqCtx.Response
        BY <1>0, <2>1 DEF HandleRequestHeaders, RequestContext
    <2> QED BY <1>0, <1>1, <2>1, <2>2 DEF RecvRequestHeaders, HandleRequestHeaders, IdleSides,
            Frozen, bodyVars
<1>2. CASE RecvRequestBody
    <2>1. PICK chunk, eos : RequestBody(chunk, eos)
        BY <1>2 DEF RecvRequestBody
    <2>2. reqSide' # "idle" /\ respSide' = respSide /\ responseBodyComplete' = responseBodyComplete
        BY <1>2, <2>1 DEF RecvRequestBody, RequestBody, bodyVars
    <2>3. CASE requestBodyComplete
        BY <1>0, <2>1, <2>2, <2>3 DEF RequestBody, IdleSides, Frozen
    <2>4. CASE ~requestBodyComplete
        <3>1. respSide = "idle"
            BY <1>2 DEF RecvRequestBody
        <3> QED BY <1>0, <2>2, <2>4, <3>1 DEF IdleSides, Frozen
    <2> QED BY <2>3, <2>4
<1>3. CASE RedeliverRequestBody
    BY <1>0, <1>3 DEF RedeliverRequestBody, RequestBody, IdleSides, Frozen, bodyVars
<1>4. CASE RecvRequestTrailers \/ RecvResponseTrailers
    BY <1>0, <1>4 DEF RecvRequestTrailers, RecvResponseTrailers, HandleTrailers, IdleSides,
        Frozen, bodyVars
<1>5. CASE RecvResponseHeaders
    <2>1. PICK headers, eos : HandleResponseHeaders(headers, eos) /\ respSide' # "idle"
        BY <1>5 DEF RecvResponseHeaders
    <2>2. reqCtx'.Request = reqCtx.Request
        BY <1>0, <2>1 DEF HandleResponseHeaders, RequestContext
    <2> QED BY <1>0, <1>5, <2>1, <2>2 DEF RecvResponseHeaders, HandleResponseHeaders, IdleSides,
            Frozen, bodyVars
<1>6. CASE RecvResponseBody
    <2>1. PICK n \in 0 .. (MaxBody - respBytes), eos \in BOOLEAN :
            ResponseBody(WireBytes(respBytes, n), eos) /\ respSide' # "idle"
        BY <1>6 DEF RecvResponseBody
    <2>2. WireBytes(respBytes, n) \in Seq(Nat)
        BY WireBytesType, StreamAssumption, TypeHalves DEF StreamInv, ProxyTypeOK
    <2>3. reqCtx'.Request = reqCtx.Request /\ UNCHANGED requestBodyComplete
        BY <2>1, <2>2, ResponseBodyStep, TypeHalves DEF StreamInv
    <2>4. responseBodyComplete => reqCtx'.Response = reqCtx.Response
        BY <2>1 DEF ResponseBody
    <2> QED BY <1>0, <1>6, <2>1, <2>3, <2>4 DEF RecvResponseBody, IdleSides, Frozen
<1>7. CASE RedeliverResponseBody
    BY <1>0, <1>7 DEF RedeliverResponseBody, ResponseBody, IdleSides, Frozen, bodyVars
<1>8. CASE Send \/ EndStream \/ UNCHANGED vars
    BY <1>0, <1>8 DEF Send, EndStream, vars, IdleSides, Frozen, proxyVars, bodyVars
<1> QED BY <1>1, <1>2, <1>3, <1>4, <1>5, <1>6, <1>7, <1>8 DEF Next

\* A new stream satisfies the invariant (the locals Process starts with).
LEMMA StreamInit == Init => StreamInv
<1> SUFFICES ASSUME Init PROVE StreamInv
    OBVIOUS
<1>1. reqCtx \in RequestContext
    BY NewMessageType DEF Init, RequestContext, Profile, emptyProfile
<1>2. EmptyHeaders \in HeaderMap
    BY DEF EmptyHeaders, HeaderMap
<1>3. TypeOK
    <2>1. ProxyTypeOK
        BY <1>2, StreamAssumption DEF Init, ProxyTypeOK
    <2>2. /\ postProcessors \in BOOLEAN /\ status = "running" /\ postRan = "no"
          /\ requestBody = <<>> /\ responseBody = <<>>
          /\ requestBodyComplete = FALSE /\ responseBodyComplete = FALSE
          /\ pending = <<>> /\ out = <<>> /\ events = <<>>
        BY DEF Init
    <2>3. <<>> \in Seq(Nat) /\ <<>> \in Seq(Response) /\ <<>> \in Seq(Event)
        OBVIOUS
    <2>4. /\ requestBody \in Seq(Nat) /\ responseBody \in Seq(Nat)
          /\ pending \in Seq(Response) /\ out \in Seq(Response) /\ events \in Seq(Event)
        BY <2>2, <2>3, Zenon
    <2>5. /\ postProcessors \in BOOLEAN /\ requestBodyComplete \in BOOLEAN
          /\ responseBodyComplete \in BOOLEAN
          /\ status \in {"running", "failing", "closed"} /\ postRan \in {"no", "ran", "skipped"}
        BY <2>2
    <2>6. ServerTypeOK
        BY <1>1, <2>4, <2>5 DEF ServerTypeOK
    <2> QED BY <2>1, <2>6, TypeHalves
<1>4. BufferAccounted
    BY DEF Init, BufferAccounted
<1>5. EventInv /\ IdleSides
    BY StreamAssumption DEF Init, EventInv, EventImpliesComplete, EventShape, IdleSides,
        newInferenceMessage, EmptyBody
<1> QED BY <1>3, <1>4, <1>5 DEF StreamInv

\* Every step keeps the types and the buffer accounted for, and is one of the three kinds.
LEMMA StreamStepShape ==
    ASSUME StreamInv, [Next]_vars
    PROVE  TypeOK' /\ BufferAccounted' /\ EventStep
<1> USE StreamAssumption
<1>0. ProxyTypeOK /\ ServerTypeOK /\ BufferAccounted
    BY TypeHalves DEF StreamInv
<1>1. CASE RecvRequestHeaders
    <2>1. PICK headers \in WireHeaders, eos \in BOOLEAN :
            /\ reqWire' = headers
            /\ reqSide' = IF eos THEN "ended" ELSE "open"
            /\ HandleRequestHeaders(headers, eos)
        BY <1>1 DEF RecvRequestHeaders
    <2>2. /\ reqCtx' \in RequestContext
          /\ reqCtx'.Request.Body = reqCtx.Request.Body
        BY <1>0, <2>1 DEF HandleRequestHeaders, ServerTypeOK, RequestContext, Message
    <2>3. pending' \in Seq(Response) /\ status' = status
        <3>1. HeadersResponse("request", newInferenceMessage) \in Response
            BY NewMessageType, HeadersResponseType DEF Sides
        <3> QED BY <2>1, <3>1 DEF HandleRequestHeaders, Answer
    <2>4. ServerTypeOK'
        BY <1>0, <2>1, <2>2, <2>3 DEF HandleRequestHeaders, ServerTypeOK, bodyVars, doneVars
    <2>5. ProxyTypeOK'
        BY <1>0, <1>1, <2>1 DEF RecvRequestHeaders, ProxyTypeOK
    <2>6. QuietStep
        BY <2>1, <2>2 DEF HandleRequestHeaders, QuietStep, bodyVars, doneVars
    <2>7. BufferAccounted'
        BY <1>0, <1>1, <2>1 DEF RecvRequestHeaders, HandleRequestHeaders, BufferAccounted, bodyVars
    <2> QED BY <2>4, <2>5, <2>6, <2>7, TypeHalves DEF EventStep
<1>2. CASE RecvRequestBody
    <2>1. PICK n \in 0 .. (MaxBody - reqBytes), eos \in BOOLEAN :
            /\ reqBytes' = reqBytes + n
            /\ reqLast' = n
            /\ reqSide' = IF eos THEN "ended" ELSE "open"
            /\ RequestBody(WireBytes(reqBytes, n), eos)
        BY <1>2 DEF RecvRequestBody
    <2>2. WireBytes(reqBytes, n) \in Seq(Nat) /\ Len(WireBytes(reqBytes, n)) = n
        BY <1>0, WireBytesType DEF ProxyTypeOK
    <2>3. requestBodyComplete \/ Len(requestBody) + n <= MaxBody
        BY <1>0 DEF ProxyTypeOK, BufferAccounted
    <2>4. ServerTypeOK'
        BY <1>0, <2>1, <2>2, <2>3, RequestBodyType
    <2>5. ProxyTypeOK'
        BY <1>0, <1>2, <2>1 DEF RecvRequestBody, ProxyTypeOK
    <2>6. QuietStep \/ (RequestNotified /\ respSide = "idle")
        BY <1>0, <1>2, <2>1, <2>2, RequestBodyEvents DEF RecvRequestBody
    <2>7. BufferAccounted'
        <3>1. CASE requestBodyComplete
            BY <2>1, <3>1 DEF RequestBody, BufferAccounted, bodyVars
        <3>2. CASE ~requestBodyComplete
            <4>1. requestBody' = requestBody \o WireBytes(reqBytes, n)
                BY <2>1, <3>2 DEF RequestBody
            <4>2. requestBody \in Seq(Nat) /\ reqBytes \in Nat
                BY <1>0, StreamAssumption DEF ServerTypeOK, ProxyTypeOK
            <4>3. Len(requestBody') = Len(requestBody) + n
                <5>1. PICK a \in Seq(Nat), b \in Seq(Nat) : a = requestBody /\ b = WireBytes(reqBytes, n)
                    BY <2>2, <4>2
                <5>2. Len(a \o b) = Len(a) + Len(b)
                    BY ConcatProperties, Zenon
                <5> QED
                    BY <2>2, <4>1, <5>1, <5>2
            <4> QED
                BY <1>0, <2>1, <3>2, <4>2, <4>3 DEF BufferAccounted
        <3> QED BY <3>1, <3>2
    <2> QED BY <2>4, <2>5, <2>6, <2>7, TypeHalves DEF EventStep
<1>3. CASE RedeliverRequestBody
    <2>1. /\ requestBodyComplete
          /\ RequestBody(WireBytes(reqBytes - reqLast, reqLast), TRUE)
        BY <1>3 DEF RedeliverRequestBody
    <2>2. WireBytes(reqBytes - reqLast, reqLast) \in Seq(Nat)
        BY <1>0, WireBytesType DEF ProxyTypeOK
    <2>3. ServerTypeOK'
        BY <1>0, <2>1, <2>2, RequestBodyType
    <2>4. ProxyTypeOK'
        BY <1>0, <1>3 DEF RedeliverRequestBody, ProxyTypeOK
    <2>5. QuietStep
        BY <1>0, <2>1, <2>2, RequestBodyEvents DEF RequestNotified
    <2>6. BufferAccounted'
        BY <2>1 DEF RequestBody, BufferAccounted, bodyVars
    <2> QED BY <2>3, <2>4, <2>5, <2>6, TypeHalves DEF EventStep
<1>4. CASE RecvRequestTrailers \/ RecvResponseTrailers
    <2>1. PICK side \in Sides : HandleTrailers(side)
        BY <1>4 DEF RecvRequestTrailers, RecvResponseTrailers, Sides
    <2>2. TrailersResponse(side) \in Response
        BY DEF TrailersResponse, Response
    <2>3. ServerTypeOK'
        BY <1>0, <2>1, <2>2 DEF HandleTrailers, Answer, ServerTypeOK, bodyVars, doneVars
    <2>4. ProxyTypeOK'
        BY <1>0, <1>4 DEF RecvRequestTrailers, RecvResponseTrailers, ProxyTypeOK
    <2>5. QuietStep
        BY <2>1 DEF HandleTrailers, QuietStep, bodyVars, doneVars
    <2>6. BufferAccounted'
        BY <1>0, <1>4, <2>1 DEF HandleTrailers, BufferAccounted, bodyVars,
            RecvRequestTrailers, RecvResponseTrailers
    <2> QED BY <2>3, <2>4, <2>5, <2>6, TypeHalves DEF EventStep
<1>5. CASE RecvResponseHeaders
    <2>1. PICK headers \in WireHeaders, eos \in BOOLEAN :
            /\ respWire' = headers
            /\ respSide' = IF eos THEN "ended" ELSE "open"
            /\ HandleResponseHeaders(headers, eos)
        BY <1>5 DEF RecvResponseHeaders
    <2>2. ServerTypeOK'
        BY <1>0, <2>1, ResponseHeadersType
    <2>3. ProxyTypeOK'
        BY <1>0, <1>5, <2>1 DEF RecvResponseHeaders, ProxyTypeOK
    <2>4. reqCtx'.Request = reqCtx.Request /\ UNCHANGED <<bodyVars, doneVars>>
        BY <1>0, <2>1 DEF HandleResponseHeaders, ServerTypeOK, RequestContext
    <2>5. QuietStep
        BY <2>4 DEF QuietStep, bodyVars, doneVars
    <2>6. BufferAccounted'
        BY <1>0, <1>5, <2>4 DEF RecvResponseHeaders, BufferAccounted, bodyVars
    <2> QED BY <2>2, <2>3, <2>5, <2>6, TypeHalves DEF EventStep
<1>6. CASE RecvResponseBody
    <2>1. PICK n \in 0 .. (MaxBody - respBytes), eos \in BOOLEAN :
            /\ respBytes' = respBytes + n
            /\ respLast' = n
            /\ respSide' = IF eos THEN "ended" ELSE "open"
            /\ ResponseBody(WireBytes(respBytes, n), eos)
        BY <1>6 DEF RecvResponseBody
    <2>2. WireBytes(respBytes, n) \in Seq(Nat)
        BY <1>0, WireBytesType DEF ProxyTypeOK
    <2>3. /\ ServerTypeOK' /\ (QuietStep \/ ResponseNotified)
          /\ UNCHANGED <<requestBody, requestBodyComplete>>
        BY <1>0, <2>1, <2>2, ResponseBodyStep
    <2>4. ProxyTypeOK'
        BY <1>0, <1>6, <2>1 DEF RecvResponseBody, ProxyTypeOK
    <2>5. BufferAccounted'
        BY <1>0, <1>6, <2>3 DEF RecvResponseBody, BufferAccounted
    <2> QED BY <2>3, <2>4, <2>5, TypeHalves DEF EventStep
<1>7. CASE RedeliverResponseBody
    <2>1. ResponseBody(WireBytes(respBytes - respLast, respLast), TRUE)
        BY <1>7 DEF RedeliverResponseBody
    <2>2. WireBytes(respBytes - respLast, respLast) \in Seq(Nat)
        BY <1>0, WireBytesType DEF ProxyTypeOK
    <2>3. /\ ServerTypeOK' /\ (QuietStep \/ ResponseNotified)
          /\ UNCHANGED <<requestBody, requestBodyComplete>>
        BY <1>0, <2>1, <2>2, ResponseBodyStep
    <2>4. ProxyTypeOK'
        BY <1>0, <1>7 DEF RedeliverResponseBody, ProxyTypeOK
    <2>5. BufferAccounted'
        BY <1>0, <1>7, <2>3 DEF RedeliverResponseBody, BufferAccounted
    <2> QED BY <2>3, <2>4, <2>5, TypeHalves DEF EventStep
<1>8. CASE Send
    <2>1. Head(pending) \in Response /\ Tail(pending) \in Seq(Response)
        BY <1>0, <1>8, HeadTailProperties DEF Send, ServerTypeOK
    <2>2. out' \in Seq(Response) /\ pending' \in Seq(Response)
        BY <1>0, <1>8, <2>1, AppendProperties DEF Send, ServerTypeOK
    <2>3. status' \in {"running", "failing", "closed"}
        BY <1>0, <1>8 DEF Send, ServerTypeOK
    <2>4. ServerTypeOK'
        BY <1>0, <1>8, <2>2, <2>3 DEF Send, ServerTypeOK, bodyVars
    <2>5. ProxyTypeOK' /\ BufferAccounted' /\ QuietStep
        BY <1>0, <1>8 DEF Send, ProxyTypeOK, BufferAccounted, QuietStep, proxyVars, bodyVars
    <2> QED BY <2>4, <2>5, TypeHalves DEF EventStep
<1>9. CASE EndStream
    <2>1. ServerTypeOK'
        BY <1>0, <1>9 DEF EndStream, ServerTypeOK, bodyVars, doneVars
    <2>2. ProxyTypeOK' /\ BufferAccounted' /\ QuietStep
        BY <1>0, <1>9 DEF EndStream, ProxyTypeOK, BufferAccounted, QuietStep, proxyVars,
            bodyVars, doneVars
    <2> QED BY <2>1, <2>2, TypeHalves DEF EventStep
<1>10. CASE UNCHANGED vars
    <2>1. ServerTypeOK'
        BY <1>0, <1>10 DEF vars, ServerTypeOK, bodyVars, doneVars
    <2>2. ProxyTypeOK' /\ BufferAccounted' /\ QuietStep
        BY <1>0, <1>10 DEF vars, ProxyTypeOK, BufferAccounted, QuietStep, proxyVars,
            bodyVars, doneVars
    <2> QED BY <2>1, <2>2, TypeHalves DEF EventStep
<1> QED BY <1>1, <1>2, <1>3, <1>4, <1>5, <1>6, <1>7, <1>8, <1>9, <1>10 DEF Next

\* Every step keeps the inductive invariant.
LEMMA StreamStep == StreamInv /\ [Next]_vars => StreamInv'
<1> SUFFICES ASSUME StreamInv, [Next]_vars PROVE StreamInv'
    OBVIOUS
<1>1. TypeOK' /\ BufferAccounted' /\ EventStep
    BY StreamStepShape
<1>2. IdleSides'
    BY SidesStep
<1>3. EventInv'
    BY <1>1, EventStepKeepsInv, TypeHalves DEF StreamInv
<1> QED BY <1>1, <1>2, <1>3 DEF StreamInv

(***************************************************************************)
(* A stream's state is well typed; in particular the Content-Length the    *)
(* server sets is always a header value (Process, HandleRequestBody).      *)
(***************************************************************************)
THEOREM StreamTypeCorrect == Spec => []TypeOK
<1>1. StreamInv => TypeOK BY DEF StreamInv
<1> QED BY <1>1, StreamInit, StreamStep, PTL DEF Spec

(***************************************************************************)
(* The refinement.  Every event names the model that is in the request's   *)
(* body, so reading it through its pointer gives what Notify was given.    *)
(***************************************************************************)
\* Events that already name a model are not changed by reading it through them.
LEMMA ReadingKnownModel ==
    ASSUME NEW evs \in Seq(Event), NEW model,
           \/ evs = <<>>
           \/ evs = <<[type |-> "request", model |-> model]>>
           \/ evs = <<[type |-> "response", model |-> model]>>
           \/ evs = <<[type |-> "request", model |-> model], [type |-> "response", model |-> model]>>
    PROVE  [i \in DOMAIN evs |-> [evs[i] EXCEPT !.model = model]] = evs
<1>1. ASSUME NEW i \in DOMAIN evs PROVE [evs[i] EXCEPT !.model = model] = evs[i]
    OBVIOUS
<1> QED BY <1>1

\* What the event loop reads of the stream's events is what was notified.
LEMMA ReadAsNotified ==
    /\ StreamInv => EventsAsRead = events
    /\ StreamInv' => EventsAsRead' = events'
<1>1. ASSUME StreamInv PROVE EventsAsRead = events
    <2> DEFINE model == reqCtx.Request.Body[ModelField]
    <2>1. /\ events \in Seq(Event)
          /\ \/ events = <<>>
             \/ events = <<[type |-> "request", model |-> model]>>
             \/ events = <<[type |-> "response", model |-> model]>>
             \/ events = <<[type |-> "request", model |-> model],
                           [type |-> "response", model |-> model]>>
        BY <1>1, Zenon DEF StreamInv, TypeOK, EventInv, EventShape, RequestEvent, ResponseEvent
    <2>2. EventsAsRead = [i \in DOMAIN events |-> [events[i] EXCEPT !.model = model]]
        BY DEF EventsAsRead
    <2> HIDE DEF model
    <2> QED BY <2>1, <2>2, ReadingKnownModel
<1>2. ASSUME StreamInv' PROVE EventsAsRead' = events'
    <2> DEFINE model == reqCtx'.Request.Body[ModelField]
               evs == events'
    <2>1. /\ evs \in Seq(Event)
          /\ \/ evs = <<>>
             \/ evs = <<[type |-> "request", model |-> model]>>
             \/ evs = <<[type |-> "response", model |-> model]>>
             \/ evs = <<[type |-> "request", model |-> model], [type |-> "response", model |-> model]>>
        BY <1>2, Zenon DEF StreamInv, TypeOK, EventInv, EventShape, RequestEvent, ResponseEvent
    <2>2. EventsAsRead' = [i \in DOMAIN evs |-> [evs[i] EXCEPT !.model = model]]
        BY DEF EventsAsRead
    <2> HIDE DEF model, evs
    <2>3. EventsAsRead' = evs
        BY <2>1, <2>2, ReadingKnownModel
    <2> QED BY <2>3 DEF evs
<1> QED BY <1>1, <1>2

\* A new stream has notified nothing, as StreamEvents begins (Process).
LEMMA StreamRefinesInit == Init => AbstractStream!Init
BY DEF Init, AbstractStream!Init, EventsAsRead

\* Every step fires the request event, fires the response event, or fires none.
LEMMA StreamRefinesStep ==
    ASSUME StreamInv, StreamInv', [Next]_vars
    PROVE  [AbstractStream!Next]_([s \in {"stream"} |-> EventsAsRead])
<1>0. EventsAsRead = events /\ EventsAsRead' = events'
    BY ReadAsNotified
<1>1. EventStep /\ ServerTypeOK /\ ServerTypeOK'
    BY StreamStepShape, TypeHalves DEF StreamInv
<1>2. CASE QuietStep
    BY <1>0, <1>2 DEF QuietStep
<1>3. CASE RequestNotified /\ respSide = "idle"
    <2> DEFINE m == reqCtx'.Request.Body[ModelField]
    <2>1. events = <<>> /\ events' = <<[type |-> "request", model |-> m]>>
        BY <1>3, RequestEventIsFirst DEF RequestNotified, StreamInv
    <2>2. m \in BodyValues \cup {NoValue}
        BY <1>1, StreamAssumption DEF ServerTypeOK, RequestContext, Message, BodyMap
    <2> HIDE DEF m
    <2>3. AbstractStream!NotifyRequest("stream", m)
        BY <1>0, <2>1 DEF AbstractStream!NotifyRequest, AbstractStream!Event
    <2> QED BY <2>2, <2>3 DEF AbstractStream!Next
<1>4. CASE ResponseNotified
    <2> DEFINE m == reqCtx.Request.Body[ModelField]
    <2>1. events' = Append(events, [type |-> "response", model |-> m])
        BY <1>4 DEF ResponseNotified, ResponseEvent
    <2>2. \/ events = <<>> /\ m = NoValue
          \/ events = <<[type |-> "request", model |-> m]>>
        BY <1>4, ResponseEventIsLast DEF ResponseNotified, StreamInv, RequestEvent
    <2> HIDE DEF m
    <2>3. \A i \in DOMAIN events : events[i].type # "response"
        BY <2>2
    <2>4. AbstractStream!requestModel("stream") = m
        BY <1>0, <2>2 DEF AbstractStream!requestModel
    <2>5. AbstractStream!NotifyResponse("stream")
        BY <1>0, <2>1, <2>3, <2>4 DEF AbstractStream!NotifyResponse, AbstractStream!Event
    <2> QED BY <2>5 DEF AbstractStream!Next
<1> QED BY <1>1, <1>2, <1>3, <1>4 DEF EventStep

(***************************************************************************)
(* Whatever the proxy sends and plugins do, a stream implements            *)
(* StreamEvents: each data-layer event at most once, the request's first,  *)
(* both for one model (Notify in HandleRequestBody and in Process).        *)
(***************************************************************************)
THEOREM StreamImplementsEvents == Spec => ImplementsStreamEvents
<1>1. StreamInv /\ StreamInv' /\ [Next]_vars
        => [AbstractStream!Next]_([s \in {"stream"} |-> EventsAsRead])
    BY StreamRefinesStep
<1> QED BY <1>1, StreamInit, StreamStep, StreamRefinesInit, PTL
        DEF Spec, ImplementsStreamEvents, AbstractStream!Spec

(***************************************************************************)
(* A message whose event was fired is never written again, so the event    *)
(* loop's reads of its maps race with no write of the stream's goroutine   *)
(* (RequestPayload and ResponsePayload are pointers).                      *)
(***************************************************************************)
THEOREM StreamPayloadFrozen == Spec => EventPayloadFrozen
<1>1. StreamInv /\ [Next]_vars =>
        [/\ Fired("request") => reqCtx'.Request = reqCtx.Request
         /\ Fired("response") => reqCtx'.Response = reqCtx.Response]_vars
    <2> SUFFICES ASSUME StreamInv, [Next]_vars
                 PROVE  /\ Fired("request") => reqCtx'.Request = reqCtx.Request
                        /\ Fired("response") => reqCtx'.Response = reqCtx.Response
        OBVIOUS
    <2>1. /\ Fired("request") => requestBodyComplete
          /\ Fired("response") => responseBodyComplete
        BY DEF StreamInv, EventInv, EventImpliesComplete, Fired
    <2> QED BY <2>1, SidesStep DEF Frozen
<1> QED BY <1>1, StreamInit, StreamStep, PTL DEF Spec, EventPayloadFrozen

-----------------------------------------------------------------------------
(***************************************************************************)
(* PART 2: the answers of a stream.                                        *)
(***************************************************************************)

(***************************************************************************)
(* The answers of a stream are those sent and those still to be sent.      *)
(***************************************************************************)
answers == out \o pending

HeadersOf(q, side) == {i \in DOMAIN q : q[i].kind = "headers" /\ q[i].side = side}
BodyOf(q, side) == {i \in DOMAIN q : q[i].kind = "body" /\ q[i].side = side}
LastOf(q, side) == {i \in BodyOf(q, side) : q[i].eos}
ImmediateOf(q) == {i \in DOMAIN q : q[i].kind = "immediate"}

\* OutputOrder of a list of responses.
Ordered(q) ==
    /\ \A side \in Sides :
          /\ \A i, j \in HeadersOf(q, side) : i = j
          /\ \A j \in BodyOf(q, side) :
                /\ \E i \in HeadersOf(q, side) : i < j
                /\ \A i \in LastOf(q, side) : j <= i
    /\ \A i \in ImmediateOf(q) : i = Len(q)

\* The answers are in order.  A stream that runs has sent no immediate response;
\* a request that is not all there has no answer, nor a response that has not
\* begun; one that has begun has no last chunk, and a header answer exactly when
\* its chunks are streamed one by one.
OrderInv ==
    /\ Ordered(answers)
    /\ status = "running" =>
          /\ ImmediateOf(answers) = {}
          /\ reqSide \in {"idle", "open"} => HeadersOf(answers, "request") = {}
          /\ respSide = "idle" => ~reqCtx.ResponseHeadersSent
          /\ respSide \in {"idle", "open"} =>
                /\ LastOf(answers, "response") = {}
                /\ reqCtx.ResponseHeadersSent <=> HeadersOf(answers, "response") # {}
                /\ reqCtx.ResponseHeadersSent => ~reqCtx.Profile.NeedsResponseBuffering

\* The record of header mutations of a message, applied to the headers that came,
\* gives the headers plugins see.
View(m, wire) == ApplyHeaderMutation(wire, m.mutatedHeaders, m.removedHeaders)
Untouched(m) == m.mutatedHeaders = EmptyHeaders /\ m.removedHeaders = {}

ViewInv ==
    status = "running" =>
        /\ View(reqCtx.Request, reqWire) = reqCtx.Request.Headers
        /\ View(reqCtx.Response, respWire) = reqCtx.Response.Headers
        /\ reqSide = "idle" => Untouched(reqCtx.Request)
        /\ respSide = "idle" => Untouched(reqCtx.Response)

\* A processed request has a loaded profile, which buffers for the post-
\* processors; the end of a buffered response body is sent after they had it.
PostInv ==
    /\ postProcessors /\ Fired("request") => reqCtx.Profile.NeedsResponseBuffering
    /\ postProcessors /\ reqCtx.Profile.NeedsResponseBuffering /\ LastOf(answers, "response") # {}
          => postRan # "no"

-----------------------------------------------------------------------------
(***************************************************************************)
(* Order of a list of responses.                                           *)
(***************************************************************************)
\* The answers to one message: at most one header answer in all, a body only
\* after it, no body after its last chunk, an immediate response only at the end.
Follows(q, p) ==
    /\ ImmediateOf(q) = {}
    /\ \A i \in ImmediateOf(p) : i = Len(p)
    /\ \A side \in Sides :
          /\ \A i, j \in HeadersOf(p, side) : i = j
          /\ HeadersOf(p, side) = {} \/ HeadersOf(q, side) = {}
          /\ \A j \in BodyOf(p, side) :
                /\ HeadersOf(q, side) # {} \/ \E i \in HeadersOf(p, side) : i < j
                /\ \A i \in LastOf(p, side) : j <= i
                /\ LastOf(q, side) = {}

\* The responses of a kind in two lists put together are those of the first and,
\* further on, those of the second.
LEMMA ConcatParts ==
    ASSUME NEW q \in Seq(Response), NEW p \in Seq(Response), NEW side
    PROVE  /\ q \o p \in Seq(Response) /\ Len(q \o p) = Len(q) + Len(p)
           /\ HeadersOf(q \o p, side) = HeadersOf(q, side) \cup {Len(q) + i : i \in HeadersOf(p, side)}
           /\ BodyOf(q \o p, side) = BodyOf(q, side) \cup {Len(q) + i : i \in BodyOf(p, side)}
           /\ LastOf(q \o p, side) = LastOf(q, side) \cup {Len(q) + i : i \in LastOf(p, side)}
           /\ ImmediateOf(q \o p) = ImmediateOf(q) \cup {Len(q) + i : i \in ImmediateOf(p)}
<1> DEFINE r == q \o p
<1>1. /\ r \in Seq(Response) /\ Len(r) = Len(q) + Len(p)
      /\ Len(q) \in Nat /\ Len(p) \in Nat
      /\ DOMAIN q = 1 .. Len(q) /\ DOMAIN p = 1 .. Len(p) /\ DOMAIN r = 1 .. (Len(q) + Len(p))
      /\ \A i \in DOMAIN q : r[i] = q[i]
    BY ConcatProperties
<1>2. \A i \in DOMAIN p : r[Len(q) + i] = p[i]
    BY ConcatProperties
<1> HIDE DEF r
<1>3. \A i \in DOMAIN r : i \in DOMAIN q \/ \E j \in DOMAIN p : i = Len(q) + j
  <2> SUFFICES ASSUME NEW i \in DOMAIN r, i \notin DOMAIN q
               PROVE  \E j \in DOMAIN p : i = Len(q) + j
      OBVIOUS
  <2>1. i - Len(q) \in DOMAIN p /\ i = Len(q) + (i - Len(q))
      BY <1>1
  <2> QED
      BY <2>1
<1>4. DOMAIN q \subseteq DOMAIN r /\ \A i \in DOMAIN p : Len(q) + i \in DOMAIN r
    BY <1>1
<1>5. HeadersOf(r, side) = HeadersOf(q, side) \cup {Len(q) + i : i \in HeadersOf(p, side)}
    BY <1>1, <1>2, <1>3, <1>4 DEF HeadersOf
<1>6. BodyOf(r, side) = BodyOf(q, side) \cup {Len(q) + i : i \in BodyOf(p, side)}
    BY <1>1, <1>2, <1>3, <1>4 DEF BodyOf
<1>7. LastOf(r, side) = LastOf(q, side) \cup {Len(q) + i : i \in LastOf(p, side)}
    BY <1>1, <1>2, <1>3, <1>4 DEF LastOf, BodyOf
<1>8. ImmediateOf(r) = ImmediateOf(q) \cup {Len(q) + i : i \in ImmediateOf(p)}
    BY <1>1, <1>2, <1>3, <1>4 DEF ImmediateOf
<1> QED
    BY <1>1, <1>5, <1>6, <1>7, <1>8 DEF r

\* The places of responses in a list are numbers from 1 to its length.
LEMMA Places ==
    ASSUME NEW q \in Seq(Response), NEW side
    PROVE  /\ Len(q) \in Nat
           /\ HeadersOf(q, side) \subseteq 1 .. Len(q) /\ BodyOf(q, side) \subseteq 1 .. Len(q)
           /\ LastOf(q, side) \subseteq BodyOf(q, side) /\ ImmediateOf(q) \subseteq 1 .. Len(q)
BY DEF HeadersOf, BodyOf, LastOf, ImmediateOf

\* Answers that follow answers in order are in order.
LEMMA OrderedConcat ==
    ASSUME NEW q \in Seq(Response), NEW p \in Seq(Response), Ordered(q), Follows(q, p)
    PROVE  Ordered(q \o p)
<1> DEFINE r == q \o p
<1>1. Len(r) = Len(q) + Len(p) /\ Len(q) \in Nat /\ Len(p) \in Nat
    BY ConcatParts, Places
<1>2. ASSUME NEW side \in Sides
      PROVE  /\ \A i, j \in HeadersOf(r, side) : i = j
             /\ \A j \in BodyOf(r, side) :
                   /\ \E i \in HeadersOf(r, side) : i < j
                   /\ \A i \in LastOf(r, side) : j <= i
  <2>1. /\ HeadersOf(r, side) = HeadersOf(q, side) \cup {Len(q) + i : i \in HeadersOf(p, side)}
        /\ BodyOf(r, side) = BodyOf(q, side) \cup {Len(q) + i : i \in BodyOf(p, side)}
        /\ LastOf(r, side) = LastOf(q, side) \cup {Len(q) + i : i \in LastOf(p, side)}
      BY ConcatParts
  <2>2. /\ HeadersOf(q, side) \subseteq 1 .. Len(q) /\ BodyOf(q, side) \subseteq 1 .. Len(q)
        /\ HeadersOf(p, side) \subseteq 1 .. Len(p) /\ BodyOf(p, side) \subseteq 1 .. Len(p)
        /\ LastOf(q, side) \subseteq BodyOf(q, side) /\ LastOf(p, side) \subseteq BodyOf(p, side)
      BY Places
  <2>3. /\ \A i, j \in HeadersOf(q, side) : i = j
        /\ \A j \in BodyOf(q, side) : /\ \E i \in HeadersOf(q, side) : i < j
                                      /\ \A i \in LastOf(q, side) : j <= i
      BY DEF Ordered
  <2>4. /\ \A i, j \in HeadersOf(p, side) : i = j
        /\ HeadersOf(p, side) = {} \/ HeadersOf(q, side) = {}
        /\ \A j \in BodyOf(p, side) :
              /\ HeadersOf(q, side) # {} \/ \E i \in HeadersOf(p, side) : i < j
              /\ \A i \in LastOf(p, side) : j <= i
              /\ LastOf(q, side) = {}
      BY DEF Follows
  <2> HIDE DEF r
  <2>5. \A i, j \in HeadersOf(r, side) : i = j
      BY <2>1, <2>3, <2>4
  <2>6. ASSUME NEW j \in BodyOf(r, side)
        PROVE  /\ \E i \in HeadersOf(r, side) : i < j
               /\ \A i \in LastOf(r, side) : j <= i
    <3>1. CASE j \in BodyOf(q, side)
      <4>1. \E i \in HeadersOf(r, side) : i < j
          BY <2>1, <2>3, <3>1
      <4>2. \A i \in LastOf(r, side) : j <= i
          BY <1>1, <2>1, <2>2, <2>3, <3>1
      <4> QED
          BY <4>1, <4>2
    <3>2. ASSUME NEW k \in BodyOf(p, side), j = Len(q) + k
          PROVE  /\ \E i \in HeadersOf(r, side) : i < j
                 /\ \A i \in LastOf(r, side) : j <= i
      <4>1. CASE HeadersOf(q, side) # {}
        <5>1. PICK i \in HeadersOf(q, side) : i \in 1 .. Len(q)
            BY <2>2, <4>1
        <5>2. i < j /\ i \in HeadersOf(r, side)
            BY <1>1, <2>1, <2>2, <3>2, <5>1
        <5> QED
            BY <5>2, <3>2, <1>1, <2>1, <2>2, <2>4
      <4>2. ASSUME NEW i \in HeadersOf(p, side), i < k
            PROVE  Len(q) + i \in HeadersOf(r, side) /\ Len(q) + i < j
          BY <1>1, <2>1, <2>2, <3>2, <4>2
      <4>3. \A i \in LastOf(r, side) : j <= i
          BY <1>1, <2>1, <2>2, <2>4, <3>2
      <4> QED
          BY <4>1, <4>2, <4>3, <2>4
    <3> QED
        BY <2>1, <3>1, <3>2
  <2> QED
      BY <2>5, <2>6
<1>3. \A i \in ImmediateOf(r) : i = Len(r)
  <2>1. ImmediateOf(r) = ImmediateOf(q) \cup {Len(q) + i : i \in ImmediateOf(p)}
      BY ConcatParts
  <2> QED
      BY <1>1, <2>1 DEF Follows
<1> QED
    BY <1>2, <1>3 DEF Ordered

\* The beginning of answers in order is in order.
LEMMA OrderedPrefix ==
    ASSUME NEW q \in Seq(Response), NEW p \in Seq(Response), Ordered(q \o p)
    PROVE  Ordered(q)
<1> DEFINE r == q \o p
<1>1. Len(r) = Len(q) + Len(p) /\ Len(q) \in Nat /\ Len(p) \in Nat
    BY ConcatParts, Places
<1>2. ASSUME NEW side \in Sides
      PROVE  /\ \A i, j \in HeadersOf(q, side) : i = j
             /\ \A j \in BodyOf(q, side) :
                   /\ \E i \in HeadersOf(q, side) : i < j
                   /\ \A i \in LastOf(q, side) : j <= i
  <2>1. /\ HeadersOf(r, side) = HeadersOf(q, side) \cup {Len(q) + i : i \in HeadersOf(p, side)}
        /\ BodyOf(r, side) = BodyOf(q, side) \cup {Len(q) + i : i \in BodyOf(p, side)}
        /\ LastOf(r, side) = LastOf(q, side) \cup {Len(q) + i : i \in LastOf(p, side)}
      BY ConcatParts
  <2>2. /\ HeadersOf(q, side) \subseteq 1 .. Len(q) /\ BodyOf(q, side) \subseteq 1 .. Len(q)
        /\ HeadersOf(p, side) \subseteq 1 .. Len(p)
      BY Places
  <2>3. /\ \A i, j \in HeadersOf(r, side) : i = j
        /\ \A j \in BodyOf(r, side) : /\ \E i \in HeadersOf(r, side) : i < j
                                      /\ \A i \in LastOf(r, side) : j <= i
      BY DEF Ordered
  <2> HIDE DEF r
  <2>4. ASSUME NEW j \in BodyOf(q, side) PROVE \E i \in HeadersOf(q, side) : i < j
    <3>1. PICK i \in HeadersOf(r, side) : i < j
        BY <2>1, <2>3
    <3>2. i \in HeadersOf(q, side)
        BY <1>1, <2>1, <2>2, <3>1
    <3> QED
        BY <3>1, <3>2
  <2> QED
      BY <2>1, <2>3, <2>4
<1>3. \A i \in ImmediateOf(q) : i = Len(q)
  <2>1. ImmediateOf(q) \subseteq ImmediateOf(r) /\ ImmediateOf(q) \subseteq 1 .. Len(q)
      BY ConcatParts, Places
  <2>2. \A i \in ImmediateOf(r) : i = Len(r)
      BY DEF Ordered
  <2> HIDE DEF r
  <2> QED
      BY <1>1, <2>1, <2>2
<1> QED
    BY <1>2, <1>3 DEF Ordered

-----------------------------------------------------------------------------
(***************************************************************************)
(* The lists of answers the handlers make.                                 *)
(***************************************************************************)
\* No answer, or the answer to trailers: nothing of headers or body.
LEMMA QuietParts ==
    ASSUME NEW side, NEW p \in {<<>>, <<TrailersResponse(side)>>}, NEW s
    PROVE  HeadersOf(p, s) = {} /\ BodyOf(p, s) = {} /\ LastOf(p, s) = {} /\ ImmediateOf(p) = {}
<1> DEFINE t == TrailersResponse(side)
<1>1. t.kind = "trailers"
    BY DEF TrailersResponse
<1> HIDE DEF t
<1>2. \A i \in DOMAIN p : p[i].kind = "trailers"
    BY <1>1 DEF t
<1> QED
    BY <1>2 DEF HeadersOf, BodyOf, LastOf, ImmediateOf

\* The answer to an error.
LEMMA ErrorParts ==
    ASSUME NEW s
    PROVE  LET p == <<ImmediateResponse>>
           IN  HeadersOf(p, s) = {} /\ BodyOf(p, s) = {} /\ LastOf(p, s) = {} /\ ImmediateOf(p) = {1}
<1> DEFINE t == ImmediateResponse
           p == <<t>>
<1>1. t.kind = "immediate"
    BY DEF ImmediateResponse
<1> HIDE DEF t
<1>2. DOMAIN p = {1} /\ p[1].kind = "immediate"
    BY <1>1
<1> HIDE DEF p
<1>3. HeadersOf(p, s) = {} /\ BodyOf(p, s) = {} /\ LastOf(p, s) = {} /\ ImmediateOf(p) = {1}
    BY <1>2 DEF HeadersOf, BodyOf, LastOf, ImmediateOf
<1> QED
    BY <1>3 DEF p, t

\* A header answer alone.
LEMMA HeaderParts ==
    ASSUME NEW side \in Sides, NEW m, NEW s
    PROVE  LET p == <<HeadersResponse(side, m)>>
           IN  /\ HeadersOf(p, s) = IF s = side THEN {1} ELSE {}
               /\ BodyOf(p, s) = {} /\ LastOf(p, s) = {} /\ ImmediateOf(p) = {}
<1> DEFINE t == HeadersResponse(side, m)
           p == <<t>>
<1>1. t.kind = "headers" /\ t.side = side
    BY DEF HeadersResponse
<1> HIDE DEF t
<1>2. DOMAIN p = {1} /\ p[1].kind = "headers" /\ p[1].side = side
    BY <1>1
<1> HIDE DEF p
<1>3. /\ HeadersOf(p, s) = IF s = side THEN {1} ELSE {}
      /\ BodyOf(p, s) = {} /\ LastOf(p, s) = {} /\ ImmediateOf(p) = {}
    BY <1>2 DEF HeadersOf, BodyOf, LastOf, ImmediateOf
<1> QED
    BY <1>3 DEF p, t

\* A streamed chunk alone.
LEMMA ChunkParts ==
    ASSUME NEW side \in Sides, NEW chunk, chunk.eos \in BOOLEAN, NEW s
    PROVE  LET p == <<BodyResponse(side, chunk)>>
           IN  /\ HeadersOf(p, s) = {} /\ ImmediateOf(p) = {}
               /\ BodyOf(p, s) = IF s = side THEN {1} ELSE {}
               /\ LastOf(p, s) = IF s = side /\ chunk.eos THEN {1} ELSE {}
<1> DEFINE t == BodyResponse(side, chunk)
           p == <<t>>
<1>1. t.kind = "body" /\ t.side = side /\ t.eos = chunk.eos
    BY DEF BodyResponse
<1> HIDE DEF t
<1>2. DOMAIN p = {1} /\ p[1].kind = "body" /\ p[1].side = side /\ p[1].eos = chunk.eos
    BY <1>1
<1> HIDE DEF p
<1>3. /\ HeadersOf(p, s) = {} /\ ImmediateOf(p) = {}
      /\ BodyOf(p, s) = IF s = side THEN {1} ELSE {}
      /\ LastOf(p, s) = IF s = side /\ chunk.eos THEN {1} ELSE {}
    BY <1>2 DEF HeadersOf, BodyOf, LastOf, ImmediateOf
<1> QED
    BY <1>3 DEF p, t

\* The chunks of a whole body: EndOfStream is on the last one and no other.
LEMMA StreamedParts ==
    ASSUME NEW side \in Sides, NEW bytes \in Seq(Nat), NEW s
    PROVE  LET p == StreamedBody(side, bytes)
           IN  /\ Len(p) \in Nat \ {0}
               /\ HeadersOf(p, s) = {} /\ ImmediateOf(p) = {}
               /\ BodyOf(p, s) = IF s = side THEN 1 .. Len(p) ELSE {}
               /\ LastOf(p, s) = IF s = side THEN {Len(p)} ELSE {}
<1> DEFINE count == IF bytes = <<>> THEN 1 ELSE (Len(bytes) + BodyByteLimit - 1) \div BodyByteLimit
           chunks == Chunks(bytes, TRUE, BodyByteLimit)
           p == StreamedBody(side, bytes)
<1>1. count \in Nat \ {0}
  <2>1. CASE bytes = <<>>
      BY <2>1
  <2>2. CASE bytes # <<>>
    <3>1. Len(bytes) \in Nat \ {0}
        BY <2>2
    <3>2. ASSUME NEW a \in Nat \ {0}, NEW b \in Nat \ {0} PROVE (a + b - 1) \div b \in Nat \ {0}
      <4>1. a + b - 1 >= b /\ a + b - 1 \in Nat
          OBVIOUS
      <4>2. ASSUME NEW c \in Nat, c >= b PROVE c \div b \in Nat \ {0}
          BY <4>2
      <4> QED
          BY <4>1, <4>2
    <3> QED
        BY <2>2, <3>1, <3>2, StreamAssumption
  <2> QED
      BY <2>1, <2>2
<1>2. chunks = [i \in 1 .. count |->
           [body |-> SubSeq(bytes, (i - 1) * BodyByteLimit + 1, Smaller(i * BodyByteLimit, Len(bytes))),
            eos |-> TRUE /\ i = count]]
    BY DEF Chunks
<1>3. p = [i \in 1 .. count |-> BodyResponse(side, chunks[i])]
    BY <1>2 DEF StreamedBody
<1>4. ASSUME NEW i \in 1 .. count
      PROVE  p[i].kind = "body" /\ p[i].side = side /\ p[i].eos = (i = count)
  <2>1. chunks[i].eos = (i = count)
    <3> DEFINE slice == SubSeq(bytes, (i - 1) * BodyByteLimit + 1, Smaller(i * BodyByteLimit, Len(bytes)))
               last == (TRUE /\ i = count)
    <3>1. chunks[i] = [body |-> slice, eos |-> last]
        BY <1>2
    <3> HIDE DEF slice, last, chunks
    <3>2. chunks[i].eos = last
        BY <3>1
    <3> QED
        BY <3>2 DEF last
  <2> HIDE DEF chunks
  <2>2. p[i] = BodyResponse(side, chunks[i])
      BY <1>3
  <2> QED
      BY <2>1, <2>2 DEF BodyResponse
<1> HIDE DEF count, chunks, p
<1>5. DOMAIN p = 1 .. count /\ Len(p) = count
    BY <1>1, <1>3
<1>6. /\ \A i \in DOMAIN p : p[i].kind = "body" /\ p[i].side = side
      /\ \A i \in DOMAIN p : p[i].eos <=> i = count
    BY <1>4, <1>5
<1>7. HeadersOf(p, s) = {} /\ ImmediateOf(p) = {}
    BY <1>6 DEF HeadersOf, ImmediateOf
<1>8. BodyOf(p, s) = IF s = side THEN DOMAIN p ELSE {}
    BY <1>6 DEF BodyOf
<1>9. LastOf(p, s) = IF s = side THEN {count} ELSE {}
    BY <1>1, <1>5, <1>6, <1>8 DEF LastOf
<1> QED
    BY <1>1, <1>5, <1>7, <1>8, <1>9 DEF p

-----------------------------------------------------------------------------
(***************************************************************************)
(* What plugins see and what the record of their mutations says.           *)
(***************************************************************************)
\* A header set by a plugin is in the record.
LEMMA SetHeaderView ==
    ASSUME NEW m \in Message, NEW wire \in HeaderMap, View(m, wire) = m.Headers,
           NEW k \in HeaderNames, NEW v \in HeaderValues
    PROVE  LET r == SetHeader(m, k, v)
           IN  View(r, wire) = r.Headers /\ r.Headers[k] = v /\ r.bodyMutated = m.bodyMutated
<1>1. CASE m.Headers[k] = v
    BY <1>1 DEF SetHeader
<1>2. CASE m.Headers[k] # v
  <2> DEFINE r == [m EXCEPT !.Headers[k] = v, !.mutatedHeaders[k] = v,
                            !.removedHeaders = @ \ {k}]
  <2>1. SetHeader(m, k, v) = r
      BY <1>2 DEF SetHeader
  <2>2. /\ r.Headers = [m.Headers EXCEPT ![k] = v]
        /\ r.mutatedHeaders = [m.mutatedHeaders EXCEPT ![k] = v]
        /\ r.removedHeaders = m.removedHeaders \ {k}
        /\ r.bodyMutated = m.bodyMutated
      BY DEF Message
  <2>3. m.Headers \in HeaderMap /\ m.mutatedHeaders \in HeaderMap
      BY DEF Message
  <2> HIDE DEF r
  <2>4. r.Headers \in HeaderMap /\ r.Headers[k] = v
      BY <2>2, <2>3 DEF HeaderMap
  <2>5. ASSUME NEW h \in HeaderNames PROVE View(r, wire)[h] = r.Headers[h]
      BY <2>2, <2>3, NoValueAssumption DEF View, ApplyHeaderMutation, HeaderMap
  <2>6. View(r, wire) = r.Headers
      BY <2>4, <2>5 DEF View, ApplyHeaderMutation, HeaderMap
  <2> QED
      BY <2>1, <2>2, <2>4, <2>6
<1> QED
    BY <1>1, <1>2

\* The record keeps up with every call of the mutation API.
LEMMA EffectView ==
    ASSUME NEW m \in Message, NEW wire \in HeaderMap, View(m, wire) = m.Headers,
           NEW r \in PluginEffects(m)
    PROVE  View(r, wire) = r.Headers
<1>1. ASSUME NEW k \in PluginKeys PROVE View(RemoveHeader(m, k), wire) = RemoveHeader(m, k).Headers
  <2>1. CASE m.Headers[k] = NoValue
      BY <2>1 DEF RemoveHeader
  <2>2. CASE m.Headers[k] # NoValue
    <3> DEFINE x == [m EXCEPT !.Headers[k] = NoValue, !.mutatedHeaders[k] = NoValue,
                              !.removedHeaders = @ \cup {k}]
    <3>1. RemoveHeader(m, k) = x
        BY <2>2 DEF RemoveHeader
    <3>2. /\ x.Headers = [m.Headers EXCEPT ![k] = NoValue]
          /\ x.mutatedHeaders = [m.mutatedHeaders EXCEPT ![k] = NoValue]
          /\ x.removedHeaders = m.removedHeaders \cup {k}
        BY DEF Message
    <3>3. m.Headers \in HeaderMap /\ m.mutatedHeaders \in HeaderMap
        BY DEF Message
    <3> HIDE DEF x
    <3>4. x.Headers \in HeaderMap
        BY <3>2, <3>3 DEF HeaderMap
    <3>5. ASSUME NEW h \in HeaderNames PROVE View(x, wire)[h] = x.Headers[h]
        BY <3>2, <3>3 DEF View, ApplyHeaderMutation, HeaderMap
    <3> QED
        BY <3>1, <3>4, <3>5 DEF View, ApplyHeaderMutation, HeaderMap
  <2> QED
      BY <2>1, <2>2
<1>2. ASSUME NEW f \in BodyFields, NEW v \in BodyValues
      PROVE  View(SetBodyField(m, f, v), wire) = SetBodyField(m, f, v).Headers
    BY DEF SetBodyField, View, Message
<1>3. ASSUME NEW k \in PluginKeys, NEW v \in PluginValues
      PROVE  View(SetHeader(m, k, v), wire) = SetHeader(m, k, v).Headers
    BY SetHeaderView, StreamAssumption
<1> QED
    BY <1>1, <1>2, <1>3 DEF PluginEffects

\* So it does with a list of plugins, empty or not, ...
LEMMA RunView ==
    ASSUME NEW m \in Message, NEW wire \in HeaderMap, View(m, wire) = m.Headers,
           NEW installed, NEW r \in RunPlugins(m, installed)
    PROVE  View(r, wire) = r.Headers
BY EffectView DEF RunPlugins

\* ... and parsing the body leaves headers alone.
LEMMA UnmarshalView ==
    ASSUME NEW m \in Message, NEW wire \in HeaderMap, View(m, wire) = m.Headers, NEW d \in BodyMap
    PROVE  View(Unmarshal(m, d), wire) = Unmarshal(m, d).Headers
BY DEF Unmarshal, View, Message

\* Without a mutation plugins see the headers that came.
LEMMA UntouchedView ==
    ASSUME NEW m, NEW wire \in HeaderMap, Untouched(m)
    PROVE  View(m, wire) = wire
<1>1. \A h \in HeaderNames : View(m, wire)[h] = wire[h]
    BY DEF Untouched, View, ApplyHeaderMutation, EmptyHeaders
<1> QED
    BY <1>1 DEF View, ApplyHeaderMutation, HeaderMap

-----------------------------------------------------------------------------
(***************************************************************************)
(* What the handlers answer.                                               *)
(***************************************************************************)
\* A body that plugins wrote.
Rewritten(bytes) == \A i \in DOMAIN bytes : bytes[i] = PluginByte

\* The request goes on as plugins left it, with the length of the body that
\* follows (HandleRequestBody).
LEMMA RequestAnswer ==
    ASSUME ServerTypeOK, reqWire \in HeaderMap, View(reqCtx.Request, reqWire) = reqCtx.Request.Headers,
           NEW bytes \in Seq(Nat), Len(bytes) <= MaxBody, HandleRequestBody(bytes)
    PROVE  \E m \in Message, sent \in Seq(Nat) :
              /\ reqCtx'.Request = m /\ reqCtx'.Profile \in profiles
              /\ reqCtx'.Response = reqCtx.Response
              /\ reqCtx'.ResponseHeadersSent = reqCtx.ResponseHeadersSent
              /\ pending' = <<HeadersResponse("request", m)>> \o StreamedBody("request", sent)
              /\ UNCHANGED <<status, postProcessors, out, postRan>>
              /\ View(m, reqWire) = m.Headers /\ m.Headers[ContentLength] = Len(sent)
              /\ IF m.bodyMutated THEN Rewritten(sent) ELSE sent = bytes
<1>1. PICK body \in BodyMap : \E pre \in PluginEffects(Unmarshal(reqCtx.Request, body)) :
        \E p \in profiles, m \in PluginEffects(pre), n \in 1 .. MaxWrite :
            ForwardRequest(m, p, bytes, n)
    BY DEF HandleRequestBody
<1>2. PICK pre \in PluginEffects(Unmarshal(reqCtx.Request, body)) :
        \E p \in profiles, m \in PluginEffects(pre), n \in 1 .. MaxWrite :
            ForwardRequest(m, p, bytes, n)
    BY <1>1
<1>3. PICK p \in profiles, m \in PluginEffects(pre), n \in 1 .. MaxWrite :
        ForwardRequest(m, p, bytes, n)
    BY <1>2
<1> DEFINE sent == IF m.bodyMutated THEN Written(n) ELSE bytes
           request == SetHeader(m, ContentLength, Len(sent))
<1>4. Unmarshal(reqCtx.Request, body) \in Message /\ reqCtx.Request \in Message
    BY ContextFields, UnmarshalType
<1>5. View(Unmarshal(reqCtx.Request, body), reqWire) = Unmarshal(reqCtx.Request, body).Headers
    BY <1>4, UnmarshalView
<1>6. pre \in Message /\ View(pre, reqWire) = pre.Headers
    BY <1>4, <1>5, PluginEffectsType, EffectView
<1>7. m \in Message /\ View(m, reqWire) = m.Headers
    BY <1>6, PluginEffectsType, EffectView
<1>8. sent \in Seq(Nat) /\ Len(sent) \in HeaderValues
    BY WrittenType, StreamAssumption
<1>9. IF m.bodyMutated THEN Rewritten(sent) ELSE sent = bytes
    BY DEF Rewritten, Written
<1>10. /\ reqCtx' = [reqCtx EXCEPT !.Request = request, !.Profile = p]
       /\ pending' = <<HeadersResponse("request", request)>> \o StreamedBody("request", sent)
       /\ UNCHANGED <<status, postProcessors, out, postRan>>
    BY <1>3 DEF ForwardRequest, Answer
<1> HIDE DEF sent
<1>11. /\ request \in Message /\ View(request, reqWire) = request.Headers
       /\ request.Headers[ContentLength] = Len(sent) /\ request.bodyMutated = m.bodyMutated
    BY <1>7, <1>8, SetHeaderType, SetHeaderView, StreamAssumption
<1> HIDE DEF request
<1>12. /\ reqCtx'.Request = request /\ reqCtx'.Profile = p /\ reqCtx'.Response = reqCtx.Response
       /\ reqCtx'.ResponseHeadersSent = reqCtx.ResponseHeadersSent
    BY <1>10 DEF ServerTypeOK, RequestContext
<1>13. request.bodyMutated \in BOOLEAN /\ m.bodyMutated \in BOOLEAN
    BY <1>7, <1>11 DEF Message
<1>14. IF request.bodyMutated THEN Rewritten(sent) ELSE sent = bytes
    BY <1>9, <1>11, Zenon
<1> QED
    BY <1>8, <1>10, <1>11, <1>12, <1>14

\* An error is answered, or the stream ends; the context keeps its messages.
Failed ==
    /\ \/ pending' = <<ImmediateResponse>> /\ status' = "failing"
       \/ pending' = <<>> /\ status' = "closed"
    /\ reqCtx'.Request = reqCtx.Request /\ reqCtx'.Response = reqCtx.Response
    /\ reqCtx'.Profile = reqCtx.Profile
    /\ UNCHANGED postRan

\* A buffered response goes on as it came or as plugins left it, and in the second
\* case with the length of the body that follows when they rewrote it; post-
\* processors have had it, or could not read it (HandleResponseBody).
LEMMA ResponseAnswer ==
    ASSUME ServerTypeOK, respWire \in HeaderMap, View(reqCtx.Response, respWire) = reqCtx.Response.Headers,
           NEW bytes \in Seq(Nat), HandleResponseBody(bytes)
    PROVE  \/ \E m \in Message, sent \in Seq(Nat) :
                 /\ reqCtx'.Response = m /\ reqCtx'.Request = reqCtx.Request
                 /\ reqCtx'.Profile = reqCtx.Profile
                 /\ reqCtx'.ResponseHeadersSent = reqCtx.ResponseHeadersSent
                 /\ pending' = <<HeadersResponse("response", m)>> \o StreamedBody("response", sent)
                 /\ UNCHANGED status
                 /\ View(m, respWire) = m.Headers
                 /\ postProcessors => postRan' # "no"
                 /\ sent = bytes \/ (Rewritten(sent) /\ m.Headers[ContentLength] = Len(sent))
           \/ Failed
<1>1. CASE PassThrough(bytes)
  <2>1. /\ reqCtx' = [reqCtx EXCEPT !.ResponseStarted = TRUE] /\ postRan' = "skipped"
        /\ pending' = <<HeadersResponse("response", reqCtx.Response)>> \o StreamedBody("response", bytes)
        /\ UNCHANGED status
      BY <1>1 DEF PassThrough, Answer
  <2>2. /\ reqCtx'.Response = reqCtx.Response /\ reqCtx'.Request = reqCtx.Request
        /\ reqCtx'.Profile = reqCtx.Profile
        /\ reqCtx'.ResponseHeadersSent = reqCtx.ResponseHeadersSent
      BY <2>1 DEF ServerTypeOK, RequestContext
  <2>3. reqCtx.Response \in Message
      BY ContextFields
  <2> QED
      BY <2>1, <2>2, <2>3
<1>2. CASE RunResponsePlugins(bytes)
  <2>1. PICK body \in BodyMap :
          \E own \in RunPlugins(Unmarshal(reqCtx.Response, body), reqCtx.Profile.ResponsePlugins) :
          \E m \in RunPlugins(own, postProcessors), n \in 1 .. MaxWrite : ForwardResponse(m, bytes, n)
      BY <1>2 DEF RunResponsePlugins
  <2>2. PICK own \in RunPlugins(Unmarshal(reqCtx.Response, body), reqCtx.Profile.ResponsePlugins) :
          \E m \in RunPlugins(own, postProcessors), n \in 1 .. MaxWrite : ForwardResponse(m, bytes, n)
      BY <2>1
  <2>3. PICK m \in RunPlugins(own, postProcessors), n \in 1 .. MaxWrite : ForwardResponse(m, bytes, n)
      BY <2>2
  <2> DEFINE sent == IF m.bodyMutated THEN Written(n) ELSE bytes
             response == IF m.bodyMutated THEN SetHeader(m, ContentLength, Len(sent)) ELSE m
  <2>4. Unmarshal(reqCtx.Response, body) \in Message /\ reqCtx.Response \in Message
      BY ContextFields, UnmarshalType
  <2>5. View(Unmarshal(reqCtx.Response, body), respWire) = Unmarshal(reqCtx.Response, body).Headers
      BY <2>4, UnmarshalView
  <2>6. own \in Message /\ View(own, respWire) = own.Headers
      BY <2>4, <2>5, RunPluginsType, RunView
  <2>7. m \in Message /\ View(m, respWire) = m.Headers
      BY <2>6, RunPluginsType, RunView
  <2>8. sent \in Seq(Nat) /\ (m.bodyMutated => Len(sent) \in HeaderValues)
      BY WrittenType, StreamAssumption
  <2>9. IF m.bodyMutated THEN Rewritten(sent) ELSE sent = bytes
      BY DEF Rewritten, Written
  <2>10. /\ reqCtx' = [reqCtx EXCEPT !.Response = response, !.ResponseStarted = TRUE]
         /\ pending' = <<HeadersResponse("response", response)>> \o StreamedBody("response", sent)
         /\ UNCHANGED status
         /\ postRan' = IF postProcessors THEN "ran" ELSE postRan
      BY <2>3 DEF ForwardResponse, Answer
  <2> HIDE DEF sent
  <2>11. /\ response \in Message /\ View(response, respWire) = response.Headers
         /\ m.bodyMutated => response.Headers[ContentLength] = Len(sent)
      BY <2>7, <2>8, SetHeaderType, SetHeaderView, StreamAssumption
  <2> HIDE DEF response
  <2>12. /\ reqCtx'.Response = response /\ reqCtx'.Request = reqCtx.Request
         /\ reqCtx'.Profile = reqCtx.Profile
         /\ reqCtx'.ResponseHeadersSent = reqCtx.ResponseHeadersSent
      BY <2>10 DEF ServerTypeOK, RequestContext
  <2>13. sent = bytes \/ (Rewritten(sent) /\ response.Headers[ContentLength] = Len(sent))
      BY <2>9, <2>11, Zenon
  <2> QED
      BY <2>8, <2>10, <2>11, <2>12, <2>13
<1>3. ASSUME NEW err \in Errors, BuildErrResponse(err),
             reqCtx' = [reqCtx EXCEPT !.ResponseStarted = TRUE], UNCHANGED postRan
      PROVE  Failed
  <2>1. /\ reqCtx'.Request = reqCtx.Request /\ reqCtx'.Response = reqCtx.Response
        /\ reqCtx'.Profile = reqCtx.Profile
      BY <1>3 DEF ServerTypeOK, RequestContext
  <2> QED
      BY <1>3, <2>1 DEF Failed, BuildErrResponse
<1> QED
    BY <1>1, <1>2, <1>3 DEF HandleResponseBody

\* A streamed chunk goes on as it came or as chunk processors left it, after the
\* header answer if that has not been given (HandleResponseChunk).
LEMMA ChunkAnswer ==
    ASSUME ServerTypeOK, respWire \in HeaderMap, View(reqCtx.Response, respWire) = reqCtx.Response.Headers,
           NEW bytes \in Seq(Nat), NEW eos \in BOOLEAN, HandleResponseChunk(bytes, eos)
    PROVE  \/ \E m \in Message, sent \in Seq(Nat) :
                 /\ reqCtx'.Response = m /\ reqCtx'.Request = reqCtx.Request
                 /\ reqCtx'.Profile = reqCtx.Profile /\ reqCtx'.ResponseHeadersSent = TRUE
                 /\ pending' = IF reqCtx.ResponseHeadersSent
                               THEN <<BodyResponse("response", [body |-> sent, eos |-> eos])>>
                               ELSE <<HeadersResponse("response", m),
                                      BodyResponse("response", [body |-> sent, eos |-> eos])>>
                 /\ UNCHANGED <<status, postRan>>
                 /\ View(m, respWire) = m.Headers
                 /\ sent = bytes \/ (reqCtx.Profile.ResponseChunkProcessors /\ Rewritten(sent))
           \/ Failed
<1> DEFINE processed == reqCtx.Profile.ResponseChunkProcessors
           bodies == {bytes} \cup (IF processed THEN {Written(n) : n \in 0 .. MaxWrite} ELSE {})
<1>1. CASE \E m \in RunPlugins(reqCtx.Response, processed), sent \in bodies :
              /\ reqCtx' = [reqCtx EXCEPT !.Response = m, !.ResponseHeadersSent = TRUE,
                                          !.ResponseStarted = TRUE]
              /\ Answer(buildStreamedChunkResponse(m, [body |-> sent, eos |-> eos]))
              /\ UNCHANGED postRan
  <2>1. PICK m \in RunPlugins(reqCtx.Response, processed), sent \in bodies :
              /\ reqCtx' = [reqCtx EXCEPT !.Response = m, !.ResponseHeadersSent = TRUE,
                                          !.ResponseStarted = TRUE]
              /\ Answer(buildStreamedChunkResponse(m, [body |-> sent, eos |-> eos]))
              /\ UNCHANGED postRan
      BY <1>1
  <2>2. reqCtx.Response \in Message
      BY ContextFields
  <2>3. m \in Message /\ View(m, respWire) = m.Headers
      BY <2>2, RunPluginsType, RunView
  <2>4. sent = bytes \/ (processed /\ \E n \in 0 .. MaxWrite : sent = Written(n))
      OBVIOUS
  <2>5. \A n \in 0 .. MaxWrite : Written(n) \in Seq(Nat) /\ Rewritten(Written(n))
    <3>1. ASSUME NEW n \in 0 .. MaxWrite PROVE Written(n) \in Seq(Nat)
        BY WrittenType, StreamAssumption
    <3>2. ASSUME NEW n \in 0 .. MaxWrite PROVE Rewritten(Written(n))
        BY DEF Written, Rewritten
    <3> QED
        BY <3>1, <3>2
  <2>6. sent \in Seq(Nat) /\ (sent = bytes \/ (processed /\ Rewritten(sent)))
      BY <2>4, <2>5, Zenon
  <2>7. /\ reqCtx'.Response = m /\ reqCtx'.Request = reqCtx.Request
        /\ reqCtx'.Profile = reqCtx.Profile /\ reqCtx'.ResponseHeadersSent = TRUE
      BY <2>1 DEF ServerTypeOK, RequestContext
  <2> HIDE DEF bodies
  <2>8. /\ pending' = IF reqCtx.ResponseHeadersSent
                      THEN <<BodyResponse("response", [body |-> sent, eos |-> eos])>>
                      ELSE <<HeadersResponse("response", m),
                             BodyResponse("response", [body |-> sent, eos |-> eos])>>
        /\ UNCHANGED <<status, postRan>>
      BY <2>1 DEF buildStreamedChunkResponse, Answer
  <2> QED
      BY <2>3, <2>6, <2>7, <2>8
<1>2. ASSUME NEW err \in Errors, BuildErrResponse(err),
             reqCtx' = [reqCtx EXCEPT !.ResponseStarted = TRUE], UNCHANGED postRan
      PROVE  Failed
  <2>1. /\ reqCtx'.Request = reqCtx.Request /\ reqCtx'.Response = reqCtx.Response
        /\ reqCtx'.Profile = reqCtx.Profile
      BY <1>2 DEF ServerTypeOK, RequestContext
  <2> QED
      BY <1>2, <2>1 DEF Failed, BuildErrResponse
<1> QED
    BY <1>1, <1>2 DEF HandleResponseChunk

-----------------------------------------------------------------------------
(***************************************************************************)
(* The invariant, step by step.                                            *)
(***************************************************************************)
AnswersInv == OrderInv /\ ViewInv /\ PostInv

\* HeadersCarryPluginView of one step.
CarryStep ==
    \A i \in DOMAIN pending' :
        pending = <<>> /\ pending'[i].kind = "headers" =>
            IF pending'[i].side = "request"
            THEN ApplyHeaderMutation(reqWire', pending'[i].set, pending'[i].removed)
                     = reqCtx'.Request.Headers
            ELSE ApplyHeaderMutation(respWire', pending'[i].set, pending'[i].removed)
                     = reqCtx'.Response.Headers

\* The invariant in the next state, in terms of the answers there.
LEMMA Primed ==
    /\ OrderInv' <=>
         /\ Ordered(answers')
         /\ status' = "running" =>
               /\ ImmediateOf(answers') = {}
               /\ reqSide' \in {"idle", "open"} => HeadersOf(answers', "request") = {}
               /\ respSide' = "idle" => ~reqCtx'.ResponseHeadersSent
               /\ respSide' \in {"idle", "open"} =>
                     /\ LastOf(answers', "response") = {}
                     /\ reqCtx'.ResponseHeadersSent <=> HeadersOf(answers', "response") # {}
                     /\ reqCtx'.ResponseHeadersSent => ~reqCtx'.Profile.NeedsResponseBuffering
    /\ ViewInv' <=>
         (status' = "running" =>
             /\ View(reqCtx'.Request, reqWire') = reqCtx'.Request.Headers
             /\ View(reqCtx'.Response, respWire') = reqCtx'.Response.Headers
             /\ reqSide' = "idle" => Untouched(reqCtx'.Request)
             /\ respSide' = "idle" => Untouched(reqCtx'.Response))
    /\ PostInv' <=>
         /\ postProcessors' /\ Fired("request")' => reqCtx'.Profile.NeedsResponseBuffering
         /\ postProcessors' /\ reqCtx'.Profile.NeedsResponseBuffering /\ LastOf(answers', "response") # {}
               => postRan' # "no"
BY DEF OrderInv, ViewInv, PostInv, Ordered, HeadersOf, BodyOf, LastOf, ImmediateOf, View, Untouched,
       Fired, ApplyHeaderMutation

\* When the responses to one message have been sent, those to the next follow.
LEMMA NewAnswers ==
    ASSUME ServerTypeOK, OrderInv, Ready, UNCHANGED out, pending' \in Seq(Response),
           Follows(out, pending')
    PROVE  /\ answers = out /\ out \in Seq(Response) /\ answers' = out \o pending'
           /\ Ordered(answers') /\ ImmediateOf(out) = {}
           /\ \A s : /\ HeadersOf(answers', s) = {} <=> HeadersOf(out, s) = {} /\ HeadersOf(pending', s) = {}
                     /\ LastOf(answers', s) = {} <=> LastOf(out, s) = {} /\ LastOf(pending', s) = {}
           /\ ImmediateOf(answers') = {} <=> ImmediateOf(pending') = {}
<1>1. out \in Seq(Response) /\ answers = out
    BY ConcatProperties DEF ServerTypeOK, Ready, answers
<1>2. answers' = out \o pending'
    BY DEF answers
<1>3. Ordered(out) /\ ImmediateOf(out) = {}
    BY <1>1 DEF OrderInv, Ready, Follows
<1> DEFINE p == pending'
<1>4. p \in Seq(Response) /\ Follows(out, p)
    OBVIOUS
<1> HIDE DEF p
<1>5. Ordered(out \o p)
    BY <1>1, <1>3, <1>4, OrderedConcat
<1>6. ASSUME NEW s
      PROVE  /\ HeadersOf(out \o p, s) = {} <=> HeadersOf(out, s) = {} /\ HeadersOf(p, s) = {}
             /\ LastOf(out \o p, s) = {} <=> LastOf(out, s) = {} /\ LastOf(p, s) = {}
  <2>1. /\ HeadersOf(out \o p, s) = HeadersOf(out, s) \cup {Len(out) + i : i \in HeadersOf(p, s)}
        /\ LastOf(out \o p, s) = LastOf(out, s) \cup {Len(out) + i : i \in LastOf(p, s)}
      BY <1>1, <1>4, ConcatParts
  <2>2. ASSUME NEW S, NEW T, NEW R, R = S \cup {Len(out) + i : i \in T}
        PROVE  R = {} <=> S = {} /\ T = {}
      BY <2>2
  <2> QED
      BY <2>1, <2>2
<1>7. ImmediateOf(out \o p) = {} <=> ImmediateOf(p) = {}
  <2>1. ImmediateOf(out \o p) = ImmediateOf(out) \cup {Len(out) + i : i \in ImmediateOf(p)}
      BY <1>1, <1>4, ConcatParts
  <2> QED
      BY <1>3, <2>1
<1> QED
    BY <1>1, <1>2, <1>3, <1>5, <1>6, <1>7 DEF p

\* A message that is answered with nothing, or with trailers.
LEMMA QuietOrder ==
    ASSUME StreamInv, AnswersInv, Ready, UNCHANGED out,
           NEW side \in Sides, pending' \in {<<>>, <<TrailersResponse(side)>>}
    PROVE  /\ Ordered(answers') /\ ImmediateOf(answers') = {}
           /\ \A s : /\ HeadersOf(answers', s) = {} <=> HeadersOf(answers, s) = {}
                     /\ LastOf(answers', s) = {} <=> LastOf(answers, s) = {}
           /\ CarryStep
<1>1. ServerTypeOK /\ OrderInv /\ status = "running"
    BY TypeHalves DEF StreamInv, AnswersInv, Ready
<1>2. TrailersResponse(side) \in Response
    BY DEF TrailersResponse, Response
<1>3. pending' \in Seq(Response)
  <2>1. <<TrailersResponse(side)>> \in Seq(Response) /\ <<>> \in Seq(Response)
      BY <1>2
  <2> QED
      BY <2>1, Zenon
<1>4. \A s : HeadersOf(pending', s) = {} /\ BodyOf(pending', s) = {} /\ LastOf(pending', s) = {}
             /\ ImmediateOf(pending') = {}
    BY QuietParts
<1>5. answers = out
    BY <1>1, ConcatProperties DEF ServerTypeOK, Ready, answers
<1>6. Follows(out, pending')
    BY <1>1, <1>4, <1>5 DEF Follows, OrderInv
<1>7. /\ Ordered(answers') /\ ImmediateOf(answers') = {}
      /\ \A s : /\ HeadersOf(answers', s) = {} <=> HeadersOf(answers, s) = {}
                /\ LastOf(answers', s) = {} <=> LastOf(answers, s) = {}
    BY <1>1, <1>3, <1>4, <1>5, <1>6, NewAnswers
<1>8. CarryStep
    BY <1>4 DEF CarryStep, HeadersOf
<1> QED
    BY <1>7, <1>8

\* One that also leaves the messages of the stream as they are.
LEMMA QuietAnswer ==
    ASSUME StreamInv, AnswersInv, Ready, UNCHANGED <<out, status, postProcessors, postRan, reqWire, respWire>>,
           NEW side \in Sides, pending' \in {<<>>, <<TrailersResponse(side)>>},
           reqCtx'.Request = reqCtx.Request, reqCtx'.Response = reqCtx.Response,
           reqCtx'.Profile = reqCtx.Profile, reqCtx'.ResponseHeadersSent = reqCtx.ResponseHeadersSent,
           Fired("request")' => Fired("request"),
           reqSide' \in {"idle", "open"} => reqSide \in {"idle", "open"},
           respSide' = "idle" => respSide = "idle", reqSide' = "idle" => reqSide = "idle",
           respSide' \in {"idle", "open"} => respSide \in {"idle", "open"}
    PROVE  AnswersInv' /\ CarryStep
<1>1. OrderInv /\ ViewInv /\ PostInv /\ status = "running"
    BY DEF AnswersInv, Ready
<1>2. /\ Ordered(answers') /\ ImmediateOf(answers') = {}
      /\ \A s : /\ HeadersOf(answers', s) = {} <=> HeadersOf(answers, s) = {}
                /\ LastOf(answers', s) = {} <=> LastOf(answers, s) = {}
      /\ CarryStep
    BY QuietOrder
<1>3. OrderInv'
    BY <1>1, <1>2, Primed DEF OrderInv
<1>4. ViewInv' /\ PostInv'
    BY <1>1, <1>2, Primed DEF ViewInv, PostInv
<1> QED
    BY <1>2, <1>3, <1>4 DEF AnswersInv

\* A message that is answered with an error, or ends the stream.
LEMMA ErrorAnswer ==
    ASSUME StreamInv, AnswersInv, Ready, Failed, UNCHANGED <<out, postProcessors>>,
           Fired("request")' => Fired("request")
    PROVE  AnswersInv' /\ CarryStep
<1>1. ServerTypeOK /\ OrderInv /\ ViewInv /\ PostInv /\ status = "running"
    BY TypeHalves DEF StreamInv, AnswersInv, Ready
<1>2. pending' \in {<<>>, <<ImmediateResponse>>} /\ status' # "running"
    BY DEF Failed
<1>3. pending' \in Seq(Response)
  <2>1. ImmediateResponse \in Response
      BY DEF Response
  <2>2. <<ImmediateResponse>> \in Seq(Response) /\ <<>> \in Seq(Response)
      BY <2>1
  <2> QED
      BY <1>2, <2>2, Zenon
<1>4. \A s : HeadersOf(pending', s) = {} /\ BodyOf(pending', s) = {} /\ LastOf(pending', s) = {}
    BY <1>2, QuietParts, ErrorParts
<1>5. \A i \in ImmediateOf(pending') : i = Len(pending')
  <2>1. CASE pending' = <<>>
      BY <2>1 DEF ImmediateOf
  <2>2. CASE pending' = <<ImmediateResponse>>
      BY <2>2 DEF ImmediateOf
  <2> QED
      BY <1>2, <2>1, <2>2
<1>6. answers = out
    BY <1>1, ConcatProperties DEF ServerTypeOK, Ready, answers
<1>7. Follows(out, pending')
    BY <1>1, <1>4, <1>5, <1>6 DEF Follows, OrderInv
<1>8. /\ Ordered(answers')
      /\ LastOf(answers', "response") = {} <=> LastOf(answers, "response") = {}
    BY <1>1, <1>3, <1>4, <1>6, <1>7, NewAnswers
<1>9. OrderInv' /\ ViewInv'
    BY <1>2, <1>8, Primed
<1>10. PostInv'
    BY <1>1, <1>8, Primed DEF PostInv, Failed
<1>11. CarryStep
    BY <1>4 DEF CarryStep, HeadersOf
<1> QED
    BY <1>9, <1>10, <1>11 DEF AnswersInv

\* A header answer built from a message carries the view of that message.
LEMMA CarriedView ==
    ASSUME NEW side, NEW m, NEW wire
    PROVE  LET h == HeadersResponse(side, m)
           IN  /\ h.kind = "headers" /\ h.side = side
               /\ ApplyHeaderMutation(wire, h.set, h.removed) = View(m, wire)
BY DEF HeadersResponse, View

\* A side that is answered in headers only.
LEMMA HeadersAnswer ==
    ASSUME StreamInv, AnswersInv, Ready, NEW side \in Sides, NEW m \in Message,
           UNCHANGED <<out, status, postProcessors, postRan>>,
           pending' = <<HeadersResponse(side, m)>>, HeadersOf(answers, side) = {}
    PROVE  /\ Ordered(answers') /\ ImmediateOf(answers') = {}
           /\ HeadersOf(answers', side) # {}
           /\ \A s : s # side => (HeadersOf(answers', s) = {} <=> HeadersOf(answers, s) = {})
           /\ \A s : LastOf(answers', s) = {} <=> LastOf(answers, s) = {}
           /\ \A i \in DOMAIN pending' : pending'[i] = HeadersResponse(side, m)
<1>1. ServerTypeOK /\ OrderInv /\ status = "running"
    BY TypeHalves DEF StreamInv, AnswersInv, Ready
<1>2. pending' \in Seq(Response)
  <2>1. HeadersResponse(side, m) \in Response
      BY HeadersResponseType
  <2> QED
      BY <2>1
<1>3. /\ ImmediateOf(pending') = {}
      /\ \A s : /\ HeadersOf(pending', s) = IF s = side THEN {1} ELSE {}
                /\ BodyOf(pending', s) = {} /\ LastOf(pending', s) = {}
    BY HeaderParts
<1>4. answers = out
    BY <1>1, ConcatProperties DEF ServerTypeOK, Ready, answers
<1>5. Follows(out, pending')
    BY <1>1, <1>3, <1>4 DEF Follows, OrderInv
<1>6. /\ Ordered(answers') /\ ImmediateOf(answers') = {}
      /\ \A s : /\ HeadersOf(answers', s) = {} <=> HeadersOf(out, s) = {} /\ HeadersOf(pending', s) = {}
                /\ LastOf(answers', s) = {} <=> LastOf(out, s) = {} /\ LastOf(pending', s) = {}
    BY <1>1, <1>2, <1>3, <1>5, NewAnswers
<1>7. \A i \in DOMAIN pending' : pending'[i] = HeadersResponse(side, m)
  <2> DEFINE t == HeadersResponse(side, m)
  <2>1. pending' = <<t>>
      OBVIOUS
  <2> HIDE DEF t
  <2>2. \A i \in DOMAIN pending' : pending'[i] = t
      BY <2>1
  <2> QED
      BY <2>2 DEF t
<1>8. HeadersOf(answers', side) # {}
    BY <1>3, <1>6
<1>9. /\ \A s : s # side => (HeadersOf(answers', s) = {} <=> HeadersOf(answers, s) = {})
      /\ \A s : LastOf(answers', s) = {} <=> LastOf(answers, s) = {}
    BY <1>3, <1>4, <1>6
<1> QED
    BY <1>6, <1>7, <1>8, <1>9

\* A header answer and the chunks of a whole body after it.
LEMMA WholeParts ==
    ASSUME NEW side \in Sides, NEW m \in Message, NEW sent \in Seq(Nat), NEW s
    PROVE  LET p == <<HeadersResponse(side, m)>> \o StreamedBody(side, sent)
           IN  /\ p \in Seq(Response) /\ Len(p) \in Nat /\ Len(p) > 1
               /\ p[1] = HeadersResponse(side, m)
               /\ HeadersOf(p, s) = IF s = side THEN {1} ELSE {}
               /\ BodyOf(p, s) = IF s = side THEN 2 .. Len(p) ELSE {}
               /\ LastOf(p, s) = IF s = side THEN {Len(p)} ELSE {}
               /\ ImmediateOf(p) = {}
<1> DEFINE h == HeadersResponse(side, m)
           q == <<h>>
           b == StreamedBody(side, sent)
           p == q \o b
<1>1. /\ HeadersOf(q, s) = IF s = side THEN {1} ELSE {}
      /\ BodyOf(q, s) = {} /\ LastOf(q, s) = {} /\ ImmediateOf(q) = {}
    BY HeaderParts
<1>2. /\ Len(b) \in Nat \ {0} /\ HeadersOf(b, s) = {} /\ ImmediateOf(b) = {}
      /\ BodyOf(b, s) = IF s = side THEN 1 .. Len(b) ELSE {}
      /\ LastOf(b, s) = IF s = side THEN {Len(b)} ELSE {}
    BY StreamedParts
<1>3. h \in Response /\ b \in Seq(Response)
    BY HeadersResponseType, StreamedBodyType
<1> HIDE DEF h, b
<1>4. q \in Seq(Response) /\ Len(q) = 1 /\ q[1] = h
    BY <1>3
<1> HIDE DEF q
<1>5. p[1] = h
    BY <1>3, <1>4, ConcatProperties
<1>6. /\ p \in Seq(Response) /\ Len(p) = Len(q) + Len(b)
      /\ HeadersOf(p, s) = HeadersOf(q, s) \cup {Len(q) + i : i \in HeadersOf(b, s)}
      /\ BodyOf(p, s) = BodyOf(q, s) \cup {Len(q) + i : i \in BodyOf(b, s)}
      /\ LastOf(p, s) = LastOf(q, s) \cup {Len(q) + i : i \in LastOf(b, s)}
      /\ ImmediateOf(p) = ImmediateOf(q) \cup {Len(q) + i : i \in ImmediateOf(b)}
    BY <1>3, <1>4, ConcatParts
<1> HIDE DEF p
<1>7. Len(p) = 1 + Len(b) /\ Len(p) \in Nat /\ Len(p) > 1
    BY <1>2, <1>4, <1>6
<1>8. HeadersOf(p, s) = IF s = side THEN {1} ELSE {}
    BY <1>1, <1>2, <1>6
<1>9. ImmediateOf(p) = {}
    BY <1>1, <1>2, <1>6
<1>10. BodyOf(p, s) = IF s = side THEN 2 .. Len(p) ELSE {}
  <2>1. ASSUME NEW n \in Nat PROVE {1 + i : i \in 1 .. n} = 2 .. (1 + n)
    <3>1. ASSUME NEW k \in 2 .. (1 + n) PROVE k \in {1 + i : i \in 1 .. n}
      <4>1. k - 1 \in 1 .. n /\ k = 1 + (k - 1)
          OBVIOUS
      <4> QED
          BY <4>1
    <3>2. ASSUME NEW i \in 1 .. n PROVE 1 + i \in 2 .. (1 + n)
        OBVIOUS
    <3> QED
        BY <3>1, <3>2
  <2>2. BodyOf(p, s) = {1 + i : i \in BodyOf(b, s)}
      BY <1>1, <1>4, <1>6
  <2>3. CASE s = side
      BY <1>2, <1>7, <2>1, <2>2, <2>3
  <2>4. CASE s # side
      BY <1>2, <2>2, <2>4
  <2> QED
      BY <2>3, <2>4
<1>11. LastOf(p, s) = IF s = side THEN {Len(p)} ELSE {}
  <2>1. LastOf(p, s) = {1 + i : i \in LastOf(b, s)}
      BY <1>1, <1>4, <1>6
  <2>2. CASE s = side
      BY <1>2, <1>7, <2>1, <2>2
  <2>3. CASE s # side
      BY <1>2, <2>1, <2>3
  <2> QED
      BY <2>2, <2>3
<1>12. /\ p \in Seq(Response) /\ Len(p) \in Nat /\ Len(p) > 1 /\ p[1] = h
       /\ HeadersOf(p, s) = IF s = side THEN {1} ELSE {}
       /\ BodyOf(p, s) = IF s = side THEN 2 .. Len(p) ELSE {}
       /\ LastOf(p, s) = IF s = side THEN {Len(p)} ELSE {}
       /\ ImmediateOf(p) = {}
    BY <1>5, <1>6, <1>7, <1>8, <1>9, <1>10, <1>11
<1> QED
    BY <1>12 DEF p, q, b, h

\* A side that is answered with headers and a whole body.
LEMMA WholeAnswer ==
    ASSUME StreamInv, AnswersInv, Ready, NEW side \in Sides, NEW m \in Message, NEW sent \in Seq(Nat),
           UNCHANGED <<out, status, postProcessors>>,
           pending' = <<HeadersResponse(side, m)>> \o StreamedBody(side, sent),
           HeadersOf(answers, side) = {}
    PROVE  /\ Ordered(answers') /\ ImmediateOf(answers') = {}
           /\ HeadersOf(answers', side) # {}
           /\ \A s : s # side => /\ HeadersOf(answers', s) = {} <=> HeadersOf(answers, s) = {}
                                 /\ LastOf(answers', s) = {} <=> LastOf(answers, s) = {}
           /\ \A i \in DOMAIN pending' :
                 pending'[i].kind = "headers" => pending'[i] = HeadersResponse(side, m)
<1>1. ServerTypeOK /\ OrderInv /\ status = "running"
    BY TypeHalves DEF StreamInv, AnswersInv, Ready
<1>2. answers = out /\ out \in Seq(Response)
    BY <1>1, ConcatProperties DEF ServerTypeOK, Ready, answers
<1> DEFINE h == HeadersResponse(side, m)
           p == pending'
<1>3. h.kind = "headers" /\ h.side = side
    BY CarriedView
<1>4. p \in Seq(Response) /\ Len(p) \in Nat /\ Len(p) > 1 /\ p[1] = h /\ ImmediateOf(p) = {}
    BY WholeParts
<1>5. ASSUME NEW s
      PROVE  /\ HeadersOf(p, s) = IF s = side THEN {1} ELSE {}
             /\ BodyOf(p, s) = IF s = side THEN 2 .. Len(p) ELSE {}
             /\ LastOf(p, s) = IF s = side THEN {Len(p)} ELSE {}
  <2> DEFINE w == <<HeadersResponse(side, m)>> \o StreamedBody(side, sent)
  <2>1. /\ HeadersOf(w, s) = IF s = side THEN {1} ELSE {}
        /\ BodyOf(w, s) = IF s = side THEN 2 .. Len(w) ELSE {}
        /\ LastOf(w, s) = IF s = side THEN {Len(w)} ELSE {}
      BY WholeParts, Zenon
  <2>2. p = w
      OBVIOUS
  <2> HIDE DEF w, p
  <2> QED
      BY <2>1, <2>2
<1> HIDE DEF h, p
<1>6. LastOf(out, side) = {} /\ ImmediateOf(out) = {} /\ HeadersOf(out, side) = {}
  <2>1. BodyOf(out, side) = {}
      BY <1>1, <1>2 DEF OrderInv, Ordered
  <2> QED
      BY <1>1, <1>2, <2>1 DEF OrderInv, LastOf
<1>7. Follows(out, p)
  <2>1. ASSUME NEW s \in Sides
        PROVE  /\ \A i, j \in HeadersOf(p, s) : i = j
               /\ HeadersOf(p, s) = {} \/ HeadersOf(out, s) = {}
               /\ \A j \in BodyOf(p, s) :
                     /\ HeadersOf(out, s) # {} \/ \E i \in HeadersOf(p, s) : i < j
                     /\ \A i \in LastOf(p, s) : j <= i
                     /\ LastOf(out, s) = {}
    <3>1. CASE s = side
        BY <1>4, <1>5, <1>6, <3>1
    <3>2. CASE s # side
        BY <1>5, <3>2
    <3> QED
        BY <3>1, <3>2
  <2> QED
      BY <1>4, <1>6, <2>1 DEF Follows
<1>8. /\ Ordered(answers') /\ (ImmediateOf(answers') = {} <=> ImmediateOf(p) = {})
       /\ \A s : /\ HeadersOf(answers', s) = {} <=> HeadersOf(out, s) = {} /\ HeadersOf(p, s) = {}
                 /\ LastOf(answers', s) = {} <=> LastOf(out, s) = {} /\ LastOf(p, s) = {}
    BY <1>1, <1>4, <1>7, NewAnswers DEF p
<1>9. ImmediateOf(answers') = {} /\ HeadersOf(answers', side) # {}
    BY <1>4, <1>5, <1>8
<1>10. \A s : s # side => /\ HeadersOf(answers', s) = {} <=> HeadersOf(answers, s) = {}
                          /\ LastOf(answers', s) = {} <=> LastOf(answers, s) = {}
    BY <1>2, <1>5, <1>8
<1>11. ASSUME NEW i \in DOMAIN p, p[i].kind = "headers" PROVE p[i] = h
  <2>1. p[i] \in Response
      BY <1>4
  <2>2. p[i].side \in Sides
      BY <1>11, <2>1 DEF Response, ImmediateResponse
  <2>3. i \in HeadersOf(p, p[i].side)
      BY <1>11 DEF HeadersOf
  <2>4. i = 1
      BY <1>5, <2>3
  <2> QED
      BY <1>4, <2>4
<1> QED
    BY <1>8, <1>9, <1>10, <1>11 DEF p, h

\* The header answer and the first chunk of a streamed body.
LEMMA FirstChunkParts ==
    ASSUME NEW side \in Sides, NEW h, NEW b, h.kind = "headers", h.side = side,
           b.kind = "body", b.side = side, NEW eos \in BOOLEAN, b.eos = eos, NEW s
    PROVE  /\ HeadersOf(<<h, b>>, s) = IF s = side THEN {1} ELSE {}
           /\ BodyOf(<<h, b>>, s) = IF s = side THEN {2} ELSE {}
           /\ LastOf(<<h, b>>, s) = IF s = side /\ eos THEN {2} ELSE {}
           /\ ImmediateOf(<<h, b>>) = {}
<1> DEFINE p == <<h, b>>
<1>1. DOMAIN p = {1, 2} /\ p[1] = h /\ p[2] = b
    OBVIOUS
<1> HIDE DEF p
<1>2. HeadersOf(p, s) = IF s = side THEN {1} ELSE {}
    BY <1>1 DEF HeadersOf
<1>3. BodyOf(p, s) = IF s = side THEN {2} ELSE {}
    BY <1>1 DEF BodyOf
<1>4. LastOf(p, s) = IF s = side /\ eos THEN {2} ELSE {}
    BY <1>1, <1>3 DEF LastOf
<1>5. ImmediateOf(p) = {}
    BY <1>1 DEF ImmediateOf
<1> QED
    BY <1>2, <1>3, <1>4, <1>5 DEF p

\* A chunk of a response that is streamed.
LEMMA StreamedAnswer ==
    ASSUME StreamInv, AnswersInv, Ready, respSide = "open",
           NEW m \in Message, NEW sent \in Seq(Nat), NEW eos \in BOOLEAN,
           UNCHANGED <<out, status, postProcessors>>,
           pending' = IF reqCtx.ResponseHeadersSent
                      THEN <<BodyResponse("response", [body |-> sent, eos |-> eos])>>
                      ELSE <<HeadersResponse("response", m),
                             BodyResponse("response", [body |-> sent, eos |-> eos])>>
    PROVE  /\ Ordered(answers') /\ ImmediateOf(answers') = {}
           /\ HeadersOf(answers', "response") # {}
           /\ HeadersOf(answers', "request") = {} <=> HeadersOf(answers, "request") = {}
           /\ LastOf(answers', "response") = {} <=> eos = FALSE
           /\ \A i \in DOMAIN pending' :
                 pending'[i].kind = "headers" => pending'[i] = HeadersResponse("response", m)
<1>1. ServerTypeOK /\ OrderInv /\ status = "running"
    BY TypeHalves DEF StreamInv, AnswersInv, Ready
<1>2. answers = out /\ out \in Seq(Response)
    BY <1>1, ConcatProperties DEF ServerTypeOK, Ready, answers
<1>3. /\ LastOf(out, "response") = {} /\ ImmediateOf(out) = {}
      /\ reqCtx.ResponseHeadersSent <=> HeadersOf(out, "response") # {}
    BY <1>1, <1>2 DEF OrderInv
<1>4. "response" \in Sides /\ "request" \in Sides /\ \A s \in Sides : s = "response" \/ s = "request"
    BY DEF Sides
<1> DEFINE chunk == [body |-> sent, eos |-> eos]
           h == HeadersResponse("response", m)
           b == BodyResponse("response", chunk)
           p == pending'
<1>5. chunk.eos = eos
    OBVIOUS
<1>6. h \in Response /\ b \in Response
  <2>1. b = [kind |-> "body", side |-> "response", body |-> sent, eos |-> eos]
      BY DEF BodyResponse
  <2>2. b \in Response
      BY <1>4, <2>1 DEF Response
  <2> QED
      BY <1>4, <2>2, HeadersResponseType
<1>7. h.kind = "headers" /\ b.kind = "body"
    BY DEF HeadersResponse, BodyResponse
<1> HIDE DEF chunk
<1>8. CASE reqCtx.ResponseHeadersSent
  <2>1. p = <<b>>
      BY <1>8 DEF chunk
  <2>2. ASSUME NEW s
        PROVE  /\ HeadersOf(<<b>>, s) = {} /\ ImmediateOf(<<b>>) = {}
               /\ BodyOf(<<b>>, s) = IF s = "response" THEN {1} ELSE {}
               /\ LastOf(<<b>>, s) = IF s = "response" /\ eos THEN {1} ELSE {}
      BY <1>4, <1>5, ChunkParts
  <2> HIDE DEF b, h, p
  <2>3. p \in Seq(Response) /\ Len(p) = 1
      BY <1>6, <2>1
  <2>4. ASSUME NEW s
        PROVE  /\ HeadersOf(p, s) = {} /\ ImmediateOf(p) = {}
               /\ BodyOf(p, s) = IF s = "response" THEN {1} ELSE {}
               /\ LastOf(p, s) = IF s = "response" /\ eos THEN {1} ELSE {}
      BY <2>1, <2>2
  <2>5. Follows(out, p)
    <3>1. ASSUME NEW s \in Sides
          PROVE  /\ \A i, j \in HeadersOf(p, s) : i = j
                 /\ HeadersOf(p, s) = {} \/ HeadersOf(out, s) = {}
                 /\ \A j \in BodyOf(p, s) :
                       /\ HeadersOf(out, s) # {} \/ \E i \in HeadersOf(p, s) : i < j
                       /\ \A i \in LastOf(p, s) : j <= i
                       /\ LastOf(out, s) = {}
      <4>1. CASE s = "response"
          BY <1>3, <1>8, <2>4, <4>1
      <4>2. CASE s # "response"
          BY <2>4, <4>2
      <4> QED
          BY <4>1, <4>2
    <3> QED
        BY <1>3, <2>4, <3>1 DEF Follows
  <2>6. /\ Ordered(answers') /\ (ImmediateOf(answers') = {} <=> ImmediateOf(p) = {})
        /\ \A s : /\ HeadersOf(answers', s) = {} <=> HeadersOf(out, s) = {} /\ HeadersOf(p, s) = {}
                  /\ LastOf(answers', s) = {} <=> LastOf(out, s) = {} /\ LastOf(p, s) = {}
      BY <1>1, <2>3, <2>5, NewAnswers DEF p
  <2>7. \A i \in DOMAIN p : p[i].kind # "headers"
      BY <1>7, <2>1
  <2>8. /\ ImmediateOf(answers') = {} /\ HeadersOf(answers', "response") # {}
        /\ HeadersOf(answers', "request") = {} <=> HeadersOf(answers, "request") = {}
        /\ LastOf(answers', "response") = {} <=> eos = FALSE
      BY <1>2, <1>3, <1>8, <2>4, <2>6
  <2> QED
      BY <2>6, <2>7, <2>8 DEF p
<1>9. CASE ~reqCtx.ResponseHeadersSent
  <2>1. p = <<h, b>>
      BY <1>9 DEF chunk
  <2>2. ASSUME NEW s
        PROVE  /\ HeadersOf(<<h, b>>, s) = IF s = "response" THEN {1} ELSE {}
               /\ BodyOf(<<h, b>>, s) = IF s = "response" THEN {2} ELSE {}
               /\ LastOf(<<h, b>>, s) = IF s = "response" /\ eos THEN {2} ELSE {}
               /\ ImmediateOf(<<h, b>>) = {}
    <3>1. h.side = "response" /\ b.side = "response" /\ b.eos = eos
        BY <1>5 DEF HeadersResponse, BodyResponse
    <3> HIDE DEF h, b
    <3> QED
        BY <1>4, <1>7, <3>1, FirstChunkParts
  <2> HIDE DEF b, h, p
  <2>3. p \in Seq(Response) /\ Len(p) = 2
      BY <1>6, <2>1
  <2>4. ASSUME NEW s
        PROVE  /\ HeadersOf(p, s) = IF s = "response" THEN {1} ELSE {}
               /\ BodyOf(p, s) = IF s = "response" THEN {2} ELSE {}
               /\ LastOf(p, s) = IF s = "response" /\ eos THEN {2} ELSE {}
               /\ ImmediateOf(p) = {}
      BY <2>1, <2>2
  <2>5. Follows(out, p)
    <3>1. ASSUME NEW s \in Sides
          PROVE  /\ \A i, j \in HeadersOf(p, s) : i = j
                 /\ HeadersOf(p, s) = {} \/ HeadersOf(out, s) = {}
                 /\ \A j \in BodyOf(p, s) :
                       /\ HeadersOf(out, s) # {} \/ \E i \in HeadersOf(p, s) : i < j
                       /\ \A i \in LastOf(p, s) : j <= i
                       /\ LastOf(out, s) = {}
      <4>1. CASE s = "response"
          BY <1>3, <1>9, <2>4, <4>1
      <4>2. CASE s # "response"
          BY <2>4, <4>2
      <4> QED
          BY <4>1, <4>2
    <3> QED
        BY <1>3, <2>4, <3>1 DEF Follows
  <2>6. /\ Ordered(answers') /\ (ImmediateOf(answers') = {} <=> ImmediateOf(p) = {})
        /\ \A s : /\ HeadersOf(answers', s) = {} <=> HeadersOf(out, s) = {} /\ HeadersOf(p, s) = {}
                  /\ LastOf(answers', s) = {} <=> LastOf(out, s) = {} /\ LastOf(p, s) = {}
      BY <1>1, <2>3, <2>5, NewAnswers DEF p
  <2>7. \A i \in DOMAIN p : p[i].kind = "headers" => p[i] = h
      BY <1>7, <2>1
  <2>8. /\ ImmediateOf(answers') = {} /\ HeadersOf(answers', "response") # {}
        /\ HeadersOf(answers', "request") = {} <=> HeadersOf(answers, "request") = {}
        /\ LastOf(answers', "response") = {} <=> eos = FALSE
      BY <1>2, <1>3, <2>4, <2>6
  <2> QED
      BY <2>6, <2>7, <2>8 DEF p, h
<1> QED
    BY <1>8, <1>9

\* Only HandleRequestBody fires the request's event.
LEMMA FiredStep ==
    ASSUME ServerTypeOK, events' = events \/ events' = Append(events, ResponseEvent)
    PROVE  Fired("request")' => Fired("request")
<1>1. CASE events' = events
    BY <1>1 DEF Fired
<1>2. CASE events' = Append(events, ResponseEvent)
  <2> DEFINE e == ResponseEvent
  <2>0. e.type = "response"
      BY EventTypes
  <2>1. events \in Seq(Event) /\ events' = Append(events, e)
      BY <1>2 DEF ServerTypeOK
  <2> HIDE DEF e
  <2>2. DOMAIN events' = 1 .. (Len(events) + 1) /\ events'[Len(events) + 1] = e
        /\ Len(events) \in Nat /\ DOMAIN events = 1 .. Len(events)
        /\ \A i \in 1 .. Len(events) : events'[i] = events[i]
      BY <2>1
  <2>3. ASSUME NEW i \in DOMAIN events', events'[i].type = "request"
        PROVE  i \in DOMAIN events /\ events[i].type = "request"
    <3>1. i # Len(events) + 1
        BY <2>0, <2>2, <2>3, Zenon
    <3>2. i \in 1 .. Len(events)
        BY <2>2, <3>1
    <3> QED
        BY <2>2, <2>3, <3>2
  <2> QED
      BY <2>3 DEF Fired
<1> QED
    BY <1>1, <1>2

\* The request's headers: its plugins have done nothing yet (RecvRequestHeaders).
LEMMA RequestHeadersStep ==
    ASSUME StreamInv, AnswersInv, RecvRequestHeaders
    PROVE  AnswersInv' /\ CarryStep
<1>1. ServerTypeOK /\ OrderInv /\ ViewInv /\ PostInv /\ status = "running" /\ Ready /\ reqSide = "idle"
    BY TypeHalves DEF StreamInv, AnswersInv, Ready, RecvRequestHeaders
<1>2. PICK headers \in WireHeaders, eos \in BOOLEAN :
          /\ reqWire' = headers
          /\ reqSide' = IF eos THEN "ended" ELSE "open"
          /\ HandleRequestHeaders(headers, eos)
    BY DEF RecvRequestHeaders
<1>3. headers \in HeaderMap /\ newInferenceMessage \in Message /\ "request" \in Sides
    BY NewMessageType, StreamAssumption DEF Sides
<1>4. /\ UNCHANGED <<out, events, status, postProcessors, postRan, respSide, respWire>>
      /\ pending' = IF eos THEN <<HeadersResponse("request", newInferenceMessage)>> ELSE <<>>
      /\ reqCtx' = [reqCtx EXCEPT !.Request.Headers = headers]
    BY <1>2 DEF RecvRequestHeaders, HandleRequestHeaders, Answer, doneVars
<1>5. /\ reqCtx'.Request.Headers = headers
      /\ reqCtx'.Request.mutatedHeaders = reqCtx.Request.mutatedHeaders
      /\ reqCtx'.Request.removedHeaders = reqCtx.Request.removedHeaders
      /\ reqCtx'.Response = reqCtx.Response /\ reqCtx'.Profile = reqCtx.Profile
      /\ reqCtx'.ResponseHeadersSent = reqCtx.ResponseHeadersSent
    BY <1>1, <1>4 DEF ServerTypeOK, RequestContext, Message
<1>6. Untouched(reqCtx'.Request)
    BY <1>1, <1>5 DEF ViewInv, Untouched
<1>7. View(reqCtx'.Request, headers) = headers
    BY <1>3, <1>6, UntouchedView
<1>8. ViewInv'
    BY <1>1, <1>2, <1>4, <1>5, <1>6, <1>7, Primed DEF ViewInv
<1>9. Fired("request")' => Fired("request")
    BY <1>1, <1>4, FiredStep
<1>10. HeadersOf(answers, "request") = {}
    BY <1>1 DEF OrderInv
<1>11. CASE ~eos
  <2>1. pending' \in {<<>>, <<TrailersResponse("request")>>}
      BY <1>4, <1>11
  <2>2. /\ Ordered(answers') /\ ImmediateOf(answers') = {}
        /\ \A s : /\ HeadersOf(answers', s) = {} <=> HeadersOf(answers, s) = {}
                  /\ LastOf(answers', s) = {} <=> LastOf(answers, s) = {}
        /\ CarryStep
      BY <1>1, <1>3, <1>4, <2>1, QuietOrder
  <2>3. OrderInv'
      BY <1>1, <1>4, <1>5, <1>10, <2>2, Primed DEF OrderInv
  <2>4. PostInv'
      BY <1>1, <1>4, <1>5, <1>9, <2>2, Primed DEF PostInv
  <2> QED
      BY <1>8, <2>2, <2>3, <2>4 DEF AnswersInv
<1>12. CASE eos
  <2>1. pending' = <<HeadersResponse("request", newInferenceMessage)>>
      BY <1>4, <1>12
  <2>2. /\ Ordered(answers') /\ ImmediateOf(answers') = {}
        /\ HeadersOf(answers', "response") = {} <=> HeadersOf(answers, "response") = {}
        /\ \A s : LastOf(answers', s) = {} <=> LastOf(answers, s) = {}
        /\ \A i \in DOMAIN pending' : pending'[i] = HeadersResponse("request", newInferenceMessage)
      BY <1>1, <1>3, <1>4, <1>10, <2>1, HeadersAnswer
  <2>3. OrderInv'
      BY <1>1, <1>2, <1>4, <1>5, <1>12, <2>2, Primed DEF OrderInv
  <2>4. PostInv'
      BY <1>1, <1>4, <1>5, <1>9, <2>2, Primed DEF PostInv
  <2>5. CarryStep
    <3> DEFINE h == HeadersResponse("request", newInferenceMessage)
    <3>1. Untouched(newInferenceMessage)
        BY DEF Untouched, newInferenceMessage
    <3>2. h.side = "request" /\ ApplyHeaderMutation(headers, h.set, h.removed) = headers
        BY <1>3, <3>1, CarriedView, UntouchedView
    <3> HIDE DEF h
    <3> QED
        BY <1>2, <1>5, <2>2, <3>2 DEF CarryStep, h
  <2> QED
      BY <1>8, <2>3, <2>4, <2>5 DEF AnswersInv
<1> QED
    BY <1>11, <1>12

\* A chunk of the request's body: the answer comes with the last one, and the
\* profile with it, before the response begins (RecvRequestBody).
LEMMA RequestBodyStep ==
    ASSUME StreamInv, AnswersInv, RecvRequestBody
    PROVE  AnswersInv' /\ CarryStep
<1>1. /\ ProxyTypeOK /\ ServerTypeOK /\ OrderInv /\ ViewInv /\ PostInv /\ BufferAccounted
      /\ Ready /\ status = "running" /\ reqSide = "open" /\ respSide = "idle" /\ "request" \in Sides
    BY TypeHalves DEF StreamInv, AnswersInv, Ready, RecvRequestBody, Sides
<1>2. PICK n \in 0 .. (MaxBody - reqBytes), eos \in BOOLEAN :
          /\ reqSide' = IF eos THEN "ended" ELSE "open"
          /\ RequestBody(WireBytes(reqBytes, n), eos)
    BY DEF RecvRequestBody
<1> DEFINE chunk == WireBytes(reqBytes, n)
<1>3. chunk \in Seq(Nat) /\ Len(chunk) = n
    BY <1>1, WireBytesType, StreamAssumption DEF ProxyTypeOK
<1>4. UNCHANGED <<reqWire, respWire, respSide>>
    BY DEF RecvRequestBody
<1>5. CASE UNCHANGED <<postProcessors, reqCtx, doneVars>> /\ Answer(<<>>)
  <2>1. UNCHANGED <<out, status, postProcessors, postRan, reqCtx, events>> /\ pending' = <<>>
      BY <1>5 DEF Answer, doneVars
  <2>2. pending' \in {<<>>, <<TrailersResponse("request")>>}
      BY <2>1
  <2>3. Fired("request")' => Fired("request")
      BY <1>1, <2>1, FiredStep
  <2>4. reqSide' # "idle"
      BY <1>2
  <2> QED
      BY <1>1, <1>4, <2>1, <2>2, <2>3, <2>4, QuietAnswer
<1>6. CASE HandleRequestBodyFails
  <2>1. UNCHANGED <<out, postRan, postProcessors, reqCtx, events>>
      BY <1>6 DEF HandleRequestBodyFails, doneVars
  <2>2. Failed
      BY <1>6, <2>1 DEF HandleRequestBodyFails, BuildErrResponse, Failed
  <2>3. Fired("request")' => Fired("request")
      BY <1>1, <2>1, FiredStep
  <2> QED
      BY <1>1, <2>1, <2>2, <2>3, ErrorAnswer
<1>7. CASE ~requestBodyComplete /\ requestBody' = requestBody \o chunk /\ eos /\ HandleRequestBody(requestBody')
  <2>1. requestBody' \in Seq(Nat) /\ Len(requestBody') <= MaxBody
    <3>1. requestBody \o chunk \in Seq(Nat) /\ Len(requestBody \o chunk) = reqBytes + n
        BY <1>1, <1>3, <1>7, ConcatProperties DEF ServerTypeOK, BufferAccounted
    <3> QED
        BY <1>1, <1>7, <3>1, StreamAssumption DEF ProxyTypeOK
  <2>2. PICK bytes : bytes = requestBody'
      OBVIOUS
  <2>3. reqWire \in HeaderMap /\ View(reqCtx.Request, reqWire) = reqCtx.Request.Headers
      BY <1>1 DEF ProxyTypeOK, ViewInv
  <2>4. PICK m \in Message, sent \in Seq(Nat) :
              /\ reqCtx'.Request = m /\ reqCtx'.Profile \in profiles
              /\ reqCtx'.Response = reqCtx.Response
              /\ reqCtx'.ResponseHeadersSent = reqCtx.ResponseHeadersSent
              /\ pending' = <<HeadersResponse("request", m)>> \o StreamedBody("request", sent)
              /\ UNCHANGED <<status, postProcessors, out, postRan>>
              /\ View(m, reqWire) = m.Headers
      BY <1>1, <1>7, <2>1, <2>2, <2>3, RequestAnswer
  <2>5. HeadersOf(answers, "request") = {} /\ LastOf(answers, "response") = {}
        /\ ~reqCtx.ResponseHeadersSent /\ HeadersOf(answers, "response") = {}
      BY <1>1 DEF OrderInv
  <2>6. /\ Ordered(answers') /\ ImmediateOf(answers') = {}
        /\ HeadersOf(answers', "response") = {} /\ LastOf(answers', "response") = {}
        /\ \A i \in DOMAIN pending' :
              pending'[i].kind = "headers" => pending'[i] = HeadersResponse("request", m)
    <3>1. /\ Ordered(answers') /\ ImmediateOf(answers') = {}
          /\ \A s : s # "request" => /\ HeadersOf(answers', s) = {} <=> HeadersOf(answers, s) = {}
                                     /\ LastOf(answers', s) = {} <=> LastOf(answers, s) = {}
          /\ \A i \in DOMAIN pending' :
                pending'[i].kind = "headers" => pending'[i] = HeadersResponse("request", m)
        BY <1>1, <2>4, <2>5, WholeAnswer
    <3> QED
        BY <2>5, <3>1
  <2>7. OrderInv'
    <3>1. reqSide' = "ended" /\ ~reqCtx'.ResponseHeadersSent
        BY <1>2, <1>7, <2>4, <2>5
    <3> QED
        BY <2>6, <3>1, Primed
  <2>8. ViewInv'
    <3>1. /\ View(reqCtx'.Request, reqWire') = reqCtx'.Request.Headers
          /\ View(reqCtx'.Response, respWire') = reqCtx'.Response.Headers
          /\ reqSide' # "idle" /\ Untouched(reqCtx'.Response)
        BY <1>1, <1>2, <1>4, <2>4 DEF ViewInv
    <3> QED
        BY <3>1, Primed
  <2>9. PostInv'
    <3>1. postProcessors' => reqCtx'.Profile.NeedsResponseBuffering
        BY <1>1, <2>4 DEF profiles, ServerTypeOK
    <3> QED
        BY <2>6, <3>1, Primed
  <2>10. CarryStep
    <3> DEFINE h == HeadersResponse("request", m)
    <3>1. h.side = "request" /\ ApplyHeaderMutation(reqWire, h.set, h.removed) = m.Headers
        BY <2>4, CarriedView
    <3> HIDE DEF h
    <3> QED
        BY <1>4, <2>4, <2>6, <3>1 DEF CarryStep, h
  <2> QED
      BY <2>7, <2>8, <2>9, <2>10 DEF AnswersInv
<1> QED
    BY <1>2, <1>5, <1>6, <1>7 DEF RequestBody

\* The response's headers: post-processors of headers have run (RecvResponseHeaders).
LEMMA ResponseHeadersStep ==
    ASSUME StreamInv, AnswersInv, RecvResponseHeaders
    PROVE  AnswersInv' /\ CarryStep
<1>1. /\ ServerTypeOK /\ OrderInv /\ ViewInv /\ PostInv
      /\ Ready /\ status = "running" /\ reqSide # "idle" /\ respSide = "idle" /\ "response" \in Sides
    BY TypeHalves DEF StreamInv, AnswersInv, Ready, RecvResponseHeaders, Sides
<1>2. PICK headers \in WireHeaders, eos \in BOOLEAN :
          /\ respWire' = headers
          /\ respSide' = IF eos THEN "ended" ELSE "open"
          /\ HandleResponseHeaders(headers, eos)
    BY DEF RecvResponseHeaders
<1>3. headers \in HeaderMap /\ reqCtx.Response \in Message
    BY <1>1, ContextFields, StreamAssumption
<1>4. UNCHANGED <<reqWire, reqSide>>
    BY DEF RecvResponseHeaders
<1>5. UNCHANGED <<out, events, postRan, postProcessors>>
    BY <1>2 DEF HandleResponseHeaders, doneVars
<1>6. Fired("request")' => Fired("request")
    BY <1>1, <1>5, FiredStep
<1>7. ASSUME NEW err \in Errors, BuildErrResponse(err), UNCHANGED reqCtx
      PROVE  AnswersInv' /\ CarryStep
  <2>1. Failed
      BY <1>5, <1>7 DEF BuildErrResponse, Failed
  <2> QED
      BY <1>1, <1>5, <1>6, <2>1, ErrorAnswer
<1>8. ASSUME NEW m \in PluginEffects([reqCtx.Response EXCEPT !.Headers = headers]),
             reqCtx' = [reqCtx EXCEPT !.Response = m],
             Answer(IF eos THEN <<HeadersResponse("response", m)>> ELSE <<>>)
      PROVE  AnswersInv' /\ CarryStep
  <2> DEFINE r == [reqCtx.Response EXCEPT !.Headers = headers]
  <2>1. /\ r \in Message /\ r.Headers = headers
        /\ r.mutatedHeaders = reqCtx.Response.mutatedHeaders
        /\ r.removedHeaders = reqCtx.Response.removedHeaders
      BY <1>3 DEF Message
  <2>2. Untouched(r)
      BY <1>1, <2>1 DEF ViewInv, Untouched
  <2>3. m \in Message /\ View(m, headers) = m.Headers
    <3>1. View(r, headers) = r.Headers
        BY <1>3, <2>1, <2>2, UntouchedView
    <3>2. m \in PluginEffects(r)
        BY <1>8
    <3> HIDE DEF r
    <3> QED
        BY <1>3, <2>1, <3>1, <3>2, PluginEffectsType, EffectView
  <2>4. /\ reqCtx'.Response = m /\ reqCtx'.Request = reqCtx.Request
        /\ reqCtx'.Profile = reqCtx.Profile
        /\ reqCtx'.ResponseHeadersSent = reqCtx.ResponseHeadersSent
      BY <1>1, <1>8 DEF ServerTypeOK, RequestContext
  <2>5. UNCHANGED status /\ pending' = IF eos THEN <<HeadersResponse("response", m)>> ELSE <<>>
      BY <1>8 DEF Answer
  <2>6. ViewInv'
    <3>1. /\ View(reqCtx'.Request, reqWire') = reqCtx'.Request.Headers
          /\ View(reqCtx'.Response, respWire') = reqCtx'.Response.Headers
          /\ reqSide' # "idle" /\ respSide' # "idle"
        BY <1>1, <1>2, <1>4, <2>3, <2>4 DEF ViewInv
    <3> QED
        BY <3>1, Primed
  <2>7. HeadersOf(answers, "response") = {} /\ LastOf(answers, "response") = {} /\ ~reqCtx.ResponseHeadersSent
      BY <1>1 DEF OrderInv
  <2>8. CASE ~eos
    <3>1. pending' \in {<<>>, <<TrailersResponse("response")>>}
        BY <2>5, <2>8
    <3>2. /\ Ordered(answers') /\ ImmediateOf(answers') = {}
          /\ \A s : /\ HeadersOf(answers', s) = {} <=> HeadersOf(answers, s) = {}
                    /\ LastOf(answers', s) = {} <=> LastOf(answers, s) = {}
          /\ CarryStep
        BY <1>1, <1>5, <3>1, QuietOrder
    <3>3. OrderInv'
        BY <1>1, <1>4, <2>4, <2>5, <2>7, <3>2, Primed DEF OrderInv
    <3>4. PostInv'
        BY <1>1, <1>5, <1>6, <2>4, <3>2, Primed DEF PostInv
    <3> QED
        BY <2>6, <3>2, <3>3, <3>4 DEF AnswersInv
  <2>9. CASE eos
    <3>1. pending' = <<HeadersResponse("response", m)>>
        BY <2>5, <2>9
    <3>2. /\ Ordered(answers') /\ ImmediateOf(answers') = {}
          /\ HeadersOf(answers', "request") = {} <=> HeadersOf(answers, "request") = {}
          /\ \A s : LastOf(answers', s) = {} <=> LastOf(answers, s) = {}
          /\ \A i \in DOMAIN pending' : pending'[i] = HeadersResponse("response", m)
        BY <1>1, <1>5, <2>3, <2>5, <2>7, <3>1, HeadersAnswer
    <3>3. OrderInv'
        BY <1>1, <1>2, <1>4, <2>4, <2>5, <2>9, <3>2, Primed DEF OrderInv
    <3>4. PostInv'
        BY <1>1, <1>5, <1>6, <2>4, <3>2, Primed DEF PostInv
    <3>5. CarryStep
      <4> DEFINE h == HeadersResponse("response", m)
      <4>1. h.side = "response" /\ ApplyHeaderMutation(headers, h.set, h.removed) = m.Headers
          BY <2>3, CarriedView
      <4> HIDE DEF h
      <4> QED
          BY <1>2, <2>4, <3>2, <4>1 DEF CarryStep, h
    <3> QED
        BY <2>6, <3>3, <3>4, <3>5 DEF AnswersInv
  <2> QED
      BY <2>8, <2>9
<1> QED
    BY <1>2, <1>7, <1>8 DEF HandleResponseHeaders

\* A chunk of the response's body: a buffered body is answered with the last
\* chunk, another with every chunk (RecvResponseBody).
LEMMA ResponseBodyAnswers ==
    ASSUME StreamInv, AnswersInv, RecvResponseBody
    PROVE  AnswersInv' /\ CarryStep
<1>1. /\ ProxyTypeOK /\ ServerTypeOK /\ OrderInv /\ ViewInv /\ PostInv
      /\ Ready /\ status = "running" /\ respSide = "open" /\ "response" \in Sides
    BY TypeHalves DEF StreamInv, AnswersInv, Ready, RecvResponseBody, Sides
<1>2. PICK n \in 0 .. (MaxBody - respBytes), eos \in BOOLEAN :
          /\ respSide' = IF eos THEN "ended" ELSE "open"
          /\ ResponseBody(WireBytes(respBytes, n), eos)
    BY DEF RecvResponseBody
<1> DEFINE chunk == WireBytes(respBytes, n)
<1>3. chunk \in Seq(Nat)
    BY <1>1, WireBytesType, StreamAssumption DEF ProxyTypeOK
<1>4. UNCHANGED <<reqWire, respWire, reqSide, out, postProcessors>>
    BY <1>2 DEF RecvResponseBody, ResponseBody, doneVars
<1>5. Fired("request")' => Fired("request")
  <2>1. events' = events \/ events' = Append(events, ResponseEvent)
      BY <1>2 DEF ResponseBody, doneVars
  <2> QED
      BY <1>1, <2>1, FiredStep
<1>6. respWire \in HeaderMap /\ View(reqCtx.Response, respWire) = reqCtx.Response.Headers
    BY <1>1 DEF ProxyTypeOK, ViewInv
<1>7. CASE Failed
    BY <1>1, <1>4, <1>5, <1>7, ErrorAnswer
<1>8. CASE /\ UNCHANGED <<status, postRan>> /\ pending' = <<>>
           /\ reqCtx'.Request = reqCtx.Request /\ reqCtx'.Response = reqCtx.Response
           /\ reqCtx'.Profile = reqCtx.Profile
           /\ reqCtx'.ResponseHeadersSent = reqCtx.ResponseHeadersSent
  <2>1. pending' \in {<<>>, <<TrailersResponse("response")>>}
      BY <1>8
  <2>2. respSide' # "idle"
      BY <1>2
  <2> QED
      BY <1>1, <1>4, <1>5, <1>8, <2>1, <2>2, QuietAnswer
<1>9. CASE /\ reqCtx.Profile.NeedsResponseBuffering /\ eos
           /\ responseBody' = responseBody \o chunk /\ HandleResponseBody(responseBody')
  <2>1. responseBody' \in Seq(Nat)
      BY <1>1, <1>3, <1>9, ConcatProperties DEF ServerTypeOK
  <2>2. PICK bytes : bytes = responseBody'
      OBVIOUS
  <2>3. \/ \E m \in Message, sent \in Seq(Nat) :
                 /\ reqCtx'.Response = m /\ reqCtx'.Request = reqCtx.Request
                 /\ reqCtx'.Profile = reqCtx.Profile
                 /\ reqCtx'.ResponseHeadersSent = reqCtx.ResponseHeadersSent
                 /\ pending' = <<HeadersResponse("response", m)>> \o StreamedBody("response", sent)
                 /\ UNCHANGED status
                 /\ View(m, respWire) = m.Headers
                 /\ postProcessors => postRan' # "no"
        \/ Failed
      BY <1>1, <1>6, <1>9, <2>1, <2>2, ResponseAnswer
  <2>4. ASSUME NEW m \in Message, NEW sent \in Seq(Nat),
                 reqCtx'.Response = m, reqCtx'.Request = reqCtx.Request,
                 reqCtx'.Profile = reqCtx.Profile,
                 reqCtx'.ResponseHeadersSent = reqCtx.ResponseHeadersSent,
                 pending' = <<HeadersResponse("response", m)>> \o StreamedBody("response", sent),
                 UNCHANGED status,
                 View(m, respWire) = m.Headers,
                 postProcessors => postRan' # "no"
        PROVE  AnswersInv' /\ CarryStep
    <3>1. HeadersOf(answers, "response") = {}
        BY <1>1, <1>9 DEF OrderInv
    <3>2. /\ Ordered(answers') /\ ImmediateOf(answers') = {}
          /\ \A s : s # "response" => /\ HeadersOf(answers', s) = {} <=> HeadersOf(answers, s) = {}
                                      /\ LastOf(answers', s) = {} <=> LastOf(answers, s) = {}
          /\ \A i \in DOMAIN pending' :
                pending'[i].kind = "headers" => pending'[i] = HeadersResponse("response", m)
        BY <1>1, <1>4, <2>4, <3>1, WholeAnswer
    <3>3. HeadersOf(answers', "request") = {} <=> HeadersOf(answers, "request") = {}
        BY <3>2
    <3>4. respSide' = "ended"
        BY <1>2, <1>9
    <3>5. OrderInv'
        BY <1>1, <1>4, <3>2, <3>3, <3>4, Primed DEF OrderInv
    <3>6. ViewInv'
      <4>1. /\ View(reqCtx'.Request, reqWire') = reqCtx'.Request.Headers
            /\ View(reqCtx'.Response, respWire') = reqCtx'.Response.Headers
            /\ reqSide' = "idle" => Untouched(reqCtx'.Request)
          BY <1>1, <1>4, <2>4 DEF ViewInv
      <4> QED
          BY <3>4, <4>1, Primed
    <3>7. PostInv'
        BY <1>1, <1>4, <1>5, <2>4, Primed DEF PostInv
    <3>8. CarryStep
      <4> DEFINE h == HeadersResponse("response", m)
      <4>1. h.side = "response" /\ ApplyHeaderMutation(respWire, h.set, h.removed) = m.Headers
          BY <2>4, CarriedView
      <4> HIDE DEF h
      <4> QED
          BY <1>4, <2>4, <3>2, <4>1 DEF CarryStep, h
    <3> QED
        BY <3>5, <3>6, <3>7, <3>8 DEF AnswersInv
  <2> QED
      BY <1>7, <2>3, <2>4
<1>10. CASE ~reqCtx.Profile.NeedsResponseBuffering /\ HandleResponseChunk(chunk, eos)
  <2>1. \/ \E m \in Message, sent \in Seq(Nat) :
                 /\ reqCtx'.Response = m /\ reqCtx'.Request = reqCtx.Request
                 /\ reqCtx'.Profile = reqCtx.Profile /\ reqCtx'.ResponseHeadersSent = TRUE
                 /\ pending' = IF reqCtx.ResponseHeadersSent
                               THEN <<BodyResponse("response", [body |-> sent, eos |-> eos])>>
                               ELSE <<HeadersResponse("response", m),
                                      BodyResponse("response", [body |-> sent, eos |-> eos])>>
                 /\ UNCHANGED <<status, postRan>>
                 /\ View(m, respWire) = m.Headers
        \/ Failed
    <3> HIDE DEF chunk
    <3> QED
        BY <1>1, <1>3, <1>6, <1>10, ChunkAnswer
  <2>2. ASSUME NEW m \in Message, NEW sent \in Seq(Nat),
                 reqCtx'.Response = m, reqCtx'.Request = reqCtx.Request,
                 reqCtx'.Profile = reqCtx.Profile, reqCtx'.ResponseHeadersSent = TRUE,
                 pending' = IF reqCtx.ResponseHeadersSent
                               THEN <<BodyResponse("response", [body |-> sent, eos |-> eos])>>
                               ELSE <<HeadersResponse("response", m),
                                      BodyResponse("response", [body |-> sent, eos |-> eos])>>,
                 UNCHANGED <<status, postRan>>,
                 View(m, respWire) = m.Headers
        PROVE  AnswersInv' /\ CarryStep
    <3>1. /\ Ordered(answers') /\ ImmediateOf(answers') = {}
          /\ HeadersOf(answers', "response") # {}
          /\ HeadersOf(answers', "request") = {} <=> HeadersOf(answers, "request") = {}
          /\ LastOf(answers', "response") = {} <=> eos = FALSE
          /\ \A i \in DOMAIN pending' :
                pending'[i].kind = "headers" => pending'[i] = HeadersResponse("response", m)
        BY <1>1, <1>4, <2>2, StreamedAnswer
    <3>2. respSide' # "idle" /\ (respSide' = "open" => eos = FALSE)
        BY <1>2
    <3>3. OrderInv'
        BY <1>1, <1>4, <1>10, <2>2, <3>1, <3>2, Primed DEF OrderInv
    <3>4. ViewInv'
      <4>1. /\ View(reqCtx'.Request, reqWire') = reqCtx'.Request.Headers
            /\ View(reqCtx'.Response, respWire') = reqCtx'.Response.Headers
            /\ reqSide' = "idle" => Untouched(reqCtx'.Request)
          BY <1>1, <1>4, <2>2 DEF ViewInv
      <4> QED
          BY <3>2, <4>1, Primed
    <3>5. PostInv'
        BY <1>1, <1>4, <1>5, <1>10, <2>2, Primed DEF PostInv
    <3>6. CarryStep
      <4> DEFINE h == HeadersResponse("response", m)
      <4>1. h.side = "response" /\ ApplyHeaderMutation(respWire, h.set, h.removed) = m.Headers
          BY <2>2, CarriedView
      <4> HIDE DEF h
      <4>2. ASSUME NEW i \in DOMAIN pending', pending'[i].kind = "headers"
            PROVE  /\ pending'[i].side = "response"
                   /\ ApplyHeaderMutation(respWire', pending'[i].set, pending'[i].removed)
                        = reqCtx'.Response.Headers
        <5>1. pending'[i] = h
            BY <3>1, <4>2 DEF h
        <5> QED
            BY <1>4, <2>2, <4>1, <5>1
      <4> QED
          BY <4>2 DEF CarryStep
    <3> QED
        BY <3>3, <3>4, <3>5, <3>6 DEF AnswersInv
  <2> QED
      BY <1>7, <2>1, <2>2
<1>11. ASSUME reqCtx' = [reqCtx EXCEPT !.ResponseStarted = TRUE] \/ UNCHANGED reqCtx
       PROVE  /\ reqCtx'.Request = reqCtx.Request /\ reqCtx'.Response = reqCtx.Response
              /\ reqCtx'.Profile = reqCtx.Profile
              /\ reqCtx'.ResponseHeadersSent = reqCtx.ResponseHeadersSent
    BY <1>1, <1>11 DEF ServerTypeOK, RequestContext
<1> HIDE DEF chunk
<1>12. CASE responseBodyComplete /\ Answer(<<>>) /\ UNCHANGED <<postProcessors, reqCtx, bodyVars, doneVars>>
    BY <1>8, <1>11, <1>12 DEF Answer, doneVars
<1>13. CASE ~eos /\ reqCtx' = [reqCtx EXCEPT !.ResponseStarted = TRUE] /\ Answer(<<>>) /\ UNCHANGED postRan
    BY <1>8, <1>11, <1>13 DEF Answer
<1> QED
    BY <1>2, <1>9, <1>10, <1>12, <1>13 DEF ResponseBody, chunk

\* Sending moves the first of the answers still to be sent to those sent.
LEMMA SentAnswers ==
    ASSUME NEW q \in Seq(Response), NEW p \in Seq(Response), p # <<>>
    PROVE  Append(q, Head(p)) \o Tail(p) = q \o p
<1> DEFINE a == Append(q, Head(p))
           b == Tail(p)
<1>1. /\ Len(q) \in Nat /\ Len(p) \in Nat \ {0}
      /\ Head(p) = p[1] /\ Head(p) \in Response
    BY EmptySeq, HeadTailProperties
<1>2. b \in Seq(Response) /\ Len(b) = Len(p) - 1 /\ \A i \in 1 .. Len(b) : b[i] = p[i + 1]
    BY <1>1, HeadTailProperties
<1>3. a \in Seq(Response) /\ Len(a) = Len(q) + 1 /\ a[Len(q) + 1] = p[1]
      /\ \A i \in 1 .. Len(q) : a[i] = q[i]
    BY <1>1, AppendProperties
<1> HIDE DEF a, b
<1> DEFINE x == a \o b
           y == q \o p
           n == Len(q) + Len(p)
<1>4. /\ x \in Seq(Response) /\ Len(x) = Len(a) + Len(b)
      /\ \A i \in 1 .. (Len(a) + Len(b)) : x[i] = IF i <= Len(a) THEN a[i] ELSE b[i - Len(a)]
    BY <1>2, <1>3, ConcatProperties
<1>5. /\ y \in Seq(Response) /\ Len(y) = n
      /\ \A i \in 1 .. n : y[i] = IF i <= Len(q) THEN q[i] ELSE p[i - Len(q)]
    BY ConcatProperties
<1>6. Len(a) + Len(b) = n /\ n \in Nat
    BY <1>1, <1>2, <1>3
<1> HIDE DEF x, y
<1>7. ASSUME NEW i \in 1 .. n PROVE x[i] = y[i]
  <2>1. CASE i <= Len(q)
      BY <1>1, <1>3, <1>4, <1>5, <1>6, <2>1
  <2>2. CASE i = Len(q) + 1
      BY <1>1, <1>3, <1>4, <1>5, <1>6, <2>2
  <2>3. CASE i > Len(q) + 1
    <3>1. i - Len(a) \in 1 .. Len(b) /\ (i - Len(a)) + 1 = i - Len(q)
        BY <1>1, <1>2, <1>3, <2>3
    <3>2. b[i - Len(a)] = p[i - Len(q)]
        BY <1>2, <3>1
    <3>3. ~(i <= Len(a)) /\ ~(i <= Len(q)) /\ i \in 1 .. (Len(a) + Len(b))
        BY <1>1, <1>3, <1>6, <2>3
    <3>4. x[i] = b[i - Len(a)]
        BY <1>4, <3>3
    <3>5. y[i] = p[i - Len(q)]
        BY <1>5, <3>3
    <3> QED
        BY <3>2, <3>4, <3>5
  <2>4. i \in Int
      OBVIOUS
  <2> QED
      BY <1>1, <2>1, <2>2, <2>3, <2>4
<1>8. x = y
  <2>1. Len(x) = Len(y) /\ \A i \in 1 .. Len(x) : x[i] = y[i]
      BY <1>4, <1>5, <1>6, <1>7
  <2> QED
      BY <1>4, <1>5, <2>1, SeqEqual
<1> QED
    BY <1>8 DEF x, y, a, b

\* Initially nothing has been answered.
LEMMA AnswersInit == Init => AnswersInv
<1> SUFFICES ASSUME Init PROVE AnswersInv
    OBVIOUS
<1>1. answers = <<>>
    BY DEF Init, answers
<1>2. \A s : HeadersOf(answers, s) = {} /\ BodyOf(answers, s) = {} /\ LastOf(answers, s) = {}
             /\ ImmediateOf(answers) = {}
    BY <1>1 DEF HeadersOf, BodyOf, LastOf, ImmediateOf
<1>3. Ordered(answers)
    BY <1>2 DEF Ordered
<1>4. /\ reqCtx.Request = newInferenceMessage /\ reqCtx.Response = newInferenceMessage
      /\ ~reqCtx.ResponseHeadersSent
    BY DEF Init
<1>5. OrderInv
    BY <1>2, <1>3, <1>4 DEF OrderInv
<1>6. Untouched(newInferenceMessage) /\ newInferenceMessage.Headers = EmptyHeaders
    BY DEF Untouched, newInferenceMessage
<1>7. EmptyHeaders \in HeaderMap
    BY DEF EmptyHeaders, HeaderMap
<1>8. View(newInferenceMessage, EmptyHeaders) = EmptyHeaders
    BY <1>6, <1>7, UntouchedView
<1>9. ViewInv
    BY <1>4, <1>6, <1>8 DEF ViewInv, Init
<1>10. PostInv
    BY <1>2 DEF PostInv, Fired, Init
<1> QED
    BY <1>5, <1>9, <1>10 DEF AnswersInv

\* Every step keeps the invariant, and its header answers carry the plugins' view.
LEMMA AnswersStep ==
    ASSUME StreamInv, AnswersInv, [Next]_vars
    PROVE  AnswersInv' /\ CarryStep
<1>1. ProxyTypeOK /\ ServerTypeOK /\ OrderInv /\ ViewInv /\ PostInv
    BY TypeHalves DEF StreamInv, AnswersInv
<1>2. CASE RecvRequestHeaders
    BY <1>2, RequestHeadersStep
<1>3. CASE RecvRequestBody
    BY <1>3, RequestBodyStep
<1>4. CASE RecvResponseHeaders
    BY <1>4, ResponseHeadersStep
<1>5. CASE RecvResponseBody
    BY <1>5, ResponseBodyAnswers
<1>6. CASE RedeliverRequestBody \/ RedeliverResponseBody
  <2>1. /\ Ready /\ pending' = <<>>
        /\ UNCHANGED <<status, reqCtx, doneVars, postProcessors, reqWire, respWire, reqSide, respSide>>
    <3>1. CASE RedeliverRequestBody
        BY <3>1 DEF RedeliverRequestBody, RequestBody, Answer
    <3>2. CASE RedeliverResponseBody
        BY <3>2 DEF RedeliverResponseBody, ResponseBody, Answer
    <3> QED
        BY <1>6, <3>1, <3>2
  <2>2. UNCHANGED <<out, events, postRan>> /\ pending' \in {<<>>, <<TrailersResponse("request")>>}
        /\ "request" \in Sides
      BY <2>1 DEF doneVars, Sides
  <2>3. Fired("request")' => Fired("request")
      BY <1>1, <2>2, FiredStep
  <2> QED
      BY <2>1, <2>2, <2>3, QuietAnswer
<1>7. CASE RecvRequestTrailers \/ RecvResponseTrailers
  <2>1. PICK side \in Sides : HandleTrailers(side)
      BY <1>7 DEF RecvRequestTrailers, RecvResponseTrailers, Sides
  <2>2. /\ pending' = <<TrailersResponse(side)>>
        /\ UNCHANGED <<status, reqCtx, out, events, postRan, postProcessors>>
      BY <2>1 DEF HandleTrailers, Answer, doneVars
  <2>3. pending' \in {<<>>, <<TrailersResponse(side)>>}
      BY <2>2, Zenon
  <2>4. /\ Ready /\ UNCHANGED <<reqWire, respWire>>
        /\ reqSide' \in {"idle", "open"} => reqSide \in {"idle", "open"}
        /\ respSide' \in {"idle", "open"} => respSide \in {"idle", "open"}
      BY <1>7 DEF RecvRequestTrailers, RecvResponseTrailers
  <2>5. reqSide' = "idle" => reqSide = "idle"
      BY <1>7 DEF RecvRequestTrailers, RecvResponseTrailers
  <2>6. respSide' = "idle" => respSide = "idle"
      BY <1>7 DEF RecvRequestTrailers, RecvResponseTrailers
  <2>7. Fired("request")' => Fired("request")
      BY <1>1, <2>2, FiredStep
  <2> QED
      BY <2>2, <2>3, <2>4, <2>5, <2>6, <2>7, QuietAnswer
<1>8. CASE Send
  <2>1. /\ pending # <<>> /\ out' = Append(out, Head(pending)) /\ pending' = Tail(pending)
        /\ status' = "running" => status = "running"
        /\ UNCHANGED <<proxyVars, postProcessors, reqCtx, events, postRan>>
      BY <1>8 DEF Send
  <2>2. answers' = answers
    <3>1. Append(out, Head(pending)) \o Tail(pending) = out \o pending
        BY <1>1, <2>1, SentAnswers DEF ServerTypeOK
    <3> QED
        BY <2>1, <3>1 DEF answers
  <2>3. UNCHANGED <<reqWire, respWire, reqSide, respSide, postProcessors, reqCtx, events, postRan>>
      BY <2>1 DEF proxyVars
  <2>4. Fired("request")' <=> Fired("request")
      BY <2>3 DEF Fired
  <2>5. OrderInv'
      BY <1>1, <2>1, <2>2, <2>3, Primed DEF OrderInv
  <2>6. ViewInv' /\ PostInv'
      BY <1>1, <2>1, <2>2, <2>3, <2>4, Primed DEF ViewInv, PostInv
  <2>7. CarryStep
      BY <2>1 DEF CarryStep
  <2> QED
      BY <2>5, <2>6, <2>7 DEF AnswersInv
<1>9. CASE EndStream
  <2>1. /\ pending' = <<>> /\ status' = "closed"
        /\ UNCHANGED <<out, events, postRan, postProcessors, reqCtx>>
      BY <1>9 DEF EndStream, doneVars
  <2>2. answers' = out
    <3>1. out \o <<>> = out
        BY <1>1, ConcatEmptySeq DEF ServerTypeOK
    <3> QED
        BY <2>1, <3>1 DEF answers
  <2>3. Ordered(out)
      BY <1>1, OrderedPrefix DEF ServerTypeOK, OrderInv, answers
  <2>4. LastOf(out, "response") \subseteq LastOf(answers, "response")
      BY <1>1, ConcatParts DEF ServerTypeOK, answers
  <2>5. Fired("request")' <=> Fired("request")
      BY <2>1 DEF Fired
  <2>6. OrderInv' /\ ViewInv'
      BY <2>1, <2>2, <2>3, Primed
  <2>7. PostInv'
      BY <1>1, <2>1, <2>2, <2>4, <2>5, Primed DEF PostInv
  <2>8. CarryStep
      BY <2>1 DEF CarryStep
  <2> QED
      BY <2>6, <2>7, <2>8 DEF AnswersInv
<1>10. CASE UNCHANGED vars
  <2>1. /\ UNCHANGED <<reqWire, respWire, reqSide, respSide, postProcessors, reqCtx, events, postRan, status>>
        /\ UNCHANGED <<out, pending>>
      BY <1>10 DEF vars, proxyVars, doneVars
  <2>2. answers' = answers
      BY <2>1 DEF answers
  <2>3. Fired("request")' <=> Fired("request")
      BY <2>1 DEF Fired
  <2>4. OrderInv'
      BY <1>1, <2>1, <2>2, Primed DEF OrderInv
  <2>5. ViewInv' /\ PostInv'
      BY <1>1, <2>1, <2>2, <2>3, Primed DEF ViewInv, PostInv
  <2>6. CarryStep
      BY <2>1 DEF CarryStep
  <2> QED
      BY <2>4, <2>5, <2>6 DEF AnswersInv
<1> QED
    BY <1>2, <1>3, <1>4, <1>5, <1>6, <1>7, <1>8, <1>9, <1>10 DEF Next

(***************************************************************************)
(* For every plugin, profile and way of cutting a body: in each direction  *)
(* one header answer before any body chunk, nothing after EndOfStream, and *)
(* nothing after an immediate response (Process and the handlers).         *)
(***************************************************************************)
THEOREM StreamOutputOrder == Spec => []OutputOrder
<1>1. StreamInv /\ AnswersInv => OutputOrder
  <2> SUFFICES ASSUME StreamInv, AnswersInv PROVE OutputOrder
      OBVIOUS
  <2>1. ServerTypeOK /\ Ordered(answers)
      BY TypeHalves DEF StreamInv, AnswersInv, OrderInv
  <2>2. Ordered(out)
      BY <2>1, OrderedPrefix DEF ServerTypeOK, answers
  <2> QED
      BY <2>2 DEF Ordered, OutputOrder, Of, HeadersOf, BodyOf, LastOf, ImmediateOf
<1> QED
    BY <1>1, StreamInit, StreamStep, AnswersInit, AnswersStep, PTL DEF Spec

(***************************************************************************)
(* Whatever plugins did to the headers, and on whichever path the header   *)
(* answer is built, the mutation it carries turns the proxy's headers into *)
(* those the plugins saw (HandleRequestBody, HandleResponseHeaders,        *)
(* HandleResponseBody, buildStreamedChunkResponse).                        *)
(***************************************************************************)
THEOREM StreamHeadersCarryView == Spec => HeadersCarryPluginView
<1>1. ASSUME StreamInv, AnswersInv, [Next]_vars PROVE [CarryStep]_vars
    BY <1>1, AnswersStep
<1> QED
    BY <1>1, StreamInit, StreamStep, AnswersInit, AnswersStep, PTL
       DEF Spec, HeadersCarryPluginView, CarryStep

(***************************************************************************)
(* The end of the response to a processed request is not sent before the   *)
(* body post-processors had the body, or could not read it.                *)
(***************************************************************************)
THEOREM StreamPostProcessorsRun == Spec => []PostProcessorsRun
<1>1. StreamInv /\ AnswersInv => PostProcessorsRun
  <2> SUFFICES ASSUME StreamInv, AnswersInv, postProcessors, Ended("response"), Fired("request")
               PROVE  postRan # "no"
      BY DEF PostProcessorsRun
  <2>1. ServerTypeOK /\ PostInv
      BY TypeHalves DEF StreamInv, AnswersInv
  <2>2. LastOf(out, "response") # {}
      BY DEF Ended, Of, LastOf, BodyOf
  <2>3. LastOf(out, "response") \subseteq LastOf(answers, "response")
      BY <2>1, ConcatParts DEF ServerTypeOK, answers
  <2> QED
      BY <2>1, <2>2, <2>3 DEF PostInv
<1> QED
    BY <1>1, StreamInit, StreamStep, AnswersInit, AnswersStep, PTL DEF Spec

-----------------------------------------------------------------------------
(***************************************************************************)
(* PART 3: the bodies of a stream.                                         *)
(***************************************************************************)

(***************************************************************************)
(* The bytes of a side in a list of responses, and the Content-Length that *)
(* the proxy forwards for each of its header answers.                      *)
(***************************************************************************)
Pieces(q, side) == [i \in DOMAIN q |-> IF i \in BodyOf(q, side) THEN q[i].body ELSE <<>>]
Bytes(q, side) == FlattenSeq(Pieces(q, side))
Lengths(q, side, wire) ==
    {ApplyHeaderMutation(wire, q[i].set, q[i].removed)[ContentLength] : i \in HeadersOf(q, side)}

\* Bodies of which plugins wrote every byte, and bodies whose bytes off the wire,
\* among the first n, are in order.
PluginBodies == Seq({PluginByte})
InOrder(n) ==
    {b \in Seq(Nat) :
        /\ \A i \in DOMAIN b : b[i] <= n
        /\ \A i, j \in DOMAIN b : i < j /\ b[i] # PluginByte /\ b[j] # PluginByte => b[i] < b[j]}

\* A body that is answered to its end is the one that came, or the plugins', and
\* the header answer before it has its length.
RequestWhole ==
    LET b == Bytes(answers, "request")
    IN  /\ b \in IF reqCtx.Request.bodyMutated THEN PluginBodies ELSE {WireBytes(0, reqBytes)}
        /\ Lengths(answers, "request", reqWire) \subseteq {Len(b)}

ResponseWhole ==
    LET b == Bytes(answers, "response")
    IN  \/ b = WireBytes(0, respBytes)
        \/ /\ reqCtx.Profile.NeedsResponseBuffering
           /\ b \in PluginBodies /\ Lengths(answers, "response", respWire) \subseteq {Len(b)}
        \/ reqCtx.Profile.ResponseChunkProcessors /\ b \in InOrder(respBytes)

\* While a stream runs, a buffer that is not complete holds what came, and what has
\* been answered of a streamed response is what came, in order.
BuffersHeld ==
    /\ ~requestBodyComplete => requestBody = WireBytes(0, reqBytes)
    /\ respSide \in {"idle", "open"} => ~responseBodyComplete
    /\ respSide = "idle" => respBytes = 0 /\ responseBody = <<>>
    /\ ~responseBodyComplete /\ reqCtx.Profile.NeedsResponseBuffering
          => responseBody = WireBytes(0, respBytes)

StreamedSoFar ==
    respSide \in {"idle", "open"} /\ ~reqCtx.Profile.NeedsResponseBuffering =>
        LET b == Bytes(answers, "response")
        IN  \/ b = WireBytes(0, respBytes)
            \/ reqCtx.Profile.ResponseChunkProcessors /\ b \in InOrder(respBytes)

ProfileInv == reqCtx.Profile \in profiles \cup {emptyProfile}
RunningInv == status = "running" => BuffersHeld /\ StreamedSoFar
RequestInv == LastOf(answers, "request") # {} => RequestWhole
ResponseInv == LastOf(answers, "response") # {} => ResponseWhole
BodyInv == ProfileInv /\ RunningInv /\ RequestInv /\ ResponseInv

-----------------------------------------------------------------------------
(***************************************************************************)
(* The bytes of lists of responses.                                        *)
(***************************************************************************)
\* The pieces of a side are byte sequences, one for each response.
LEMMA PiecesType ==
    ASSUME NEW q \in Seq(Response), NEW side
    PROVE  Pieces(q, side) \in Seq(Seq(Nat)) /\ Len(Pieces(q, side)) = Len(q)
<1>1. DOMAIN q = 1 .. Len(q) /\ Len(q) \in Nat
    OBVIOUS
<1>2. ASSUME NEW i \in DOMAIN q
      PROVE  (IF i \in BodyOf(q, side) THEN q[i].body ELSE <<>>) \in Seq(Nat)
  <2>1. q[i] \in Response
      OBVIOUS
  <2>2. q[i].kind = "body" => q[i].body \in Seq(Nat)
      BY <2>1 DEF Response, ImmediateResponse
  <2> QED
      BY <2>2 DEF BodyOf
<1> QED
    BY <1>1, <1>2 DEF Pieces

\* The bytes of a side are numbers.
LEMMA BytesType ==
    ASSUME NEW q \in Seq(Response), NEW side
    PROVE  Bytes(q, side) \in Seq(Nat)
BY PiecesType, FlattenType DEF Bytes

\* The bytes of two lists of responses are those of the one, then of the other.
LEMMA BytesConcat ==
    ASSUME NEW q \in Seq(Response), NEW p \in Seq(Response), NEW side
    PROVE  Bytes(q \o p, side) = Bytes(q, side) \o Bytes(p, side)
<1> DEFINE r == q \o p
<1>1. /\ r \in Seq(Response) /\ Len(r) = Len(q) + Len(p)
      /\ Len(q) \in Nat /\ Len(p) \in Nat
      /\ DOMAIN q = 1 .. Len(q) /\ DOMAIN p = 1 .. Len(p) /\ DOMAIN r = 1 .. (Len(q) + Len(p))
      /\ \A i \in DOMAIN q : r[i] = q[i]
    BY ConcatProperties
<1>2. \A i \in DOMAIN p : r[Len(q) + i] = p[i]
    BY ConcatProperties
<1> HIDE DEF r
<1>3. /\ Pieces(q, side) \in Seq(Seq(Nat)) /\ Len(Pieces(q, side)) = Len(q)
      /\ Pieces(p, side) \in Seq(Seq(Nat)) /\ Len(Pieces(p, side)) = Len(p)
      /\ Pieces(r, side) \in Seq(Seq(Nat)) /\ Len(Pieces(r, side)) = Len(q) + Len(p)
    BY <1>1, PiecesType
<1>4. ASSUME NEW i \in 1 .. Len(q)
      PROVE  Pieces(r, side)[i] = Pieces(q, side)[i]
  <2>1. i \in DOMAIN q /\ i \in DOMAIN r /\ r[i] = q[i]
      BY <1>1
  <2> QED
      BY <2>1 DEF Pieces, BodyOf
<1>5. \A i \in 1 .. Len(p) : Pieces(r, side)[Len(q) + i] = Pieces(p, side)[i]
    BY <1>1, <1>2 DEF Pieces, BodyOf
<1>6. PICK a \in Seq(Seq(Nat)), b \in Seq(Seq(Nat)), c \in Seq(Seq(Nat)) :
          a = Pieces(q, side) /\ b = Pieces(p, side) /\ c = Pieces(r, side)
    BY <1>3
<1>7. a \o b = c
  <2>1. /\ a \o b \in Seq(Seq(Nat)) /\ Len(a \o b) = Len(a) + Len(b)
        /\ \A i \in 1 .. (Len(a) + Len(b)) : (a \o b)[i] = IF i <= Len(a) THEN a[i] ELSE b[i - Len(a)]
      BY ConcatProperties
  <2>2. Len(a) = Len(q) /\ Len(b) = Len(p) /\ Len(c) = Len(q) + Len(p)
      BY <1>3, <1>6
  <2>3. ASSUME NEW i \in 1 .. Len(c)
        PROVE  (a \o b)[i] = c[i]
    <3>1. CASE i <= Len(q)
      <4>1. i \in 1 .. Len(q) /\ i \in 1 .. (Len(a) + Len(b)) /\ i <= Len(a)
          BY <1>1, <2>2, <3>1
      <4>2. c[i] = a[i]
          BY <1>4, <1>6, <4>1
      <4>3. (a \o b)[i] = a[i]
          BY <2>1, <4>1
      <4> QED
          BY <4>2, <4>3
    <3>2. CASE ~(i <= Len(q))
      <4>1. i - Len(q) \in 1 .. Len(p) /\ Len(q) + (i - Len(q)) = i
          BY <1>1, <2>2, <3>2
      <4>2. c[i] = b[i - Len(q)]
          BY <1>5, <1>6, <4>1
      <4>3. (a \o b)[i] = b[i - Len(q)]
          BY <2>1, <2>2, <3>2
      <4> QED
          BY <4>2, <4>3
    <3> QED
        BY <3>1, <3>2
  <2> QED
      BY <2>1, <2>2, <2>3, SeqEqual
<1>8. FlattenSeq(c) = FlattenSeq(a) \o FlattenSeq(b)
    BY <1>7, FlattenConcat
<1> QED
    BY <1>6, <1>8 DEF Bytes, r

\* A list without a body response of a side has no bytes of it.
LEMMA NoBytes ==
    ASSUME NEW q \in Seq(Response), NEW side, BodyOf(q, side) = {}
    PROVE  Bytes(q, side) = <<>>
<1>1. Pieces(q, side) \in Seq({<<>>})
    BY DEF Pieces
<1> QED
    BY <1>1, FlattenNothing DEF Bytes

\* The lengths of two lists of responses are those of the one and of the other.
LEMMA LengthsConcat ==
    ASSUME NEW q \in Seq(Response), NEW p \in Seq(Response), NEW side, NEW wire
    PROVE  Lengths(q \o p, side, wire) = Lengths(q, side, wire) \cup Lengths(p, side, wire)
<1> DEFINE r == q \o p
           Length(x) == ApplyHeaderMutation(wire, x.set, x.removed)[ContentLength]
<1>1. /\ Len(q) \in Nat /\ DOMAIN q = 1 .. Len(q) /\ DOMAIN p = 1 .. Len(p)
      /\ \A i \in DOMAIN q : r[i] = q[i]
      /\ \A i \in DOMAIN p : r[Len(q) + i] = p[i]
    BY ConcatProperties
<1>2. HeadersOf(r, side) = HeadersOf(q, side) \cup {Len(q) + i : i \in HeadersOf(p, side)}
    BY ConcatParts
<1>3. HeadersOf(q, side) \subseteq DOMAIN q /\ HeadersOf(p, side) \subseteq DOMAIN p
    BY DEF HeadersOf
<1> HIDE DEF r
<1>4. ASSUME NEW l \in Lengths(r, side, wire)
      PROVE  l \in Lengths(q, side, wire) \cup Lengths(p, side, wire)
  <2>1. PICK i \in HeadersOf(r, side) : l = Length(r[i])
      BY <1>4 DEF Lengths
  <2>2. CASE i \in HeadersOf(q, side)
    <3>1. l = Length(q[i])
        BY <1>1, <1>3, <2>1, <2>2
    <3> QED
        BY <2>2, <3>1 DEF Lengths
  <2>3. ASSUME NEW j \in HeadersOf(p, side), i = Len(q) + j
        PROVE  l \in Lengths(p, side, wire)
    <3>1. l = Length(p[j])
        BY <1>1, <1>3, <2>1, <2>3
    <3> QED
        BY <3>1 DEF Lengths
  <2> QED
      BY <1>2, <2>2, <2>3
<1>5. ASSUME NEW l \in Lengths(q, side, wire)
      PROVE  l \in Lengths(r, side, wire)
  <2>1. PICK i \in HeadersOf(q, side) : l = Length(q[i])
      BY <1>5 DEF Lengths
  <2>2. i \in HeadersOf(r, side) /\ l = Length(r[i])
      BY <1>1, <1>2, <1>3, <2>1
  <2> QED
      BY <2>2 DEF Lengths
<1>6. ASSUME NEW l \in Lengths(p, side, wire)
      PROVE  l \in Lengths(r, side, wire)
  <2>1. PICK i \in HeadersOf(p, side) : l = Length(p[i])
      BY <1>6 DEF Lengths
  <2>2. Len(q) + i \in HeadersOf(r, side) /\ l = Length(r[Len(q) + i])
      BY <1>1, <1>2, <1>3, <2>1
  <2> QED
      BY <2>2 DEF Lengths
<1> QED
    BY <1>4, <1>5, <1>6 DEF r

-----------------------------------------------------------------------------
(***************************************************************************)
(* The chunks of a body put together are the body (chunking.go).           *)
(***************************************************************************)
\* A multiple of the limit for each whole chunk.
LEMMA Multiples ==
    ASSUME NEW limit \in Nat \ {0}, NEW len \in Nat, len # 0
    PROVE  LET count == (len + limit - 1) \div limit
           IN  /\ count \in Nat \ {0} /\ count * limit >= len
               /\ \A k \in Nat : k < count => k * limit \in Nat /\ k * limit < len
               /\ \A k \in Nat : (k + 1) * limit = k * limit + limit
<1> DEFINE count == (len + limit - 1) \div limit
<1>1. len + limit - 1 \in Nat
    OBVIOUS
<1>2. /\ count \in Int
      /\ limit * count <= len + limit - 1
      /\ len + limit - 1 < limit * (count + 1)
    BY <1>1
<1> HIDE DEF count
<1>3. /\ limit * count \in Int /\ limit * (count + 1) = limit * count + limit
      /\ count * limit = limit * count
    BY <1>2
<1>4. limit * count >= len
    BY <1>2, <1>3
<1>5. count \in Nat \ {0}
  <2>1. CASE count <= 0
    <3>1. limit * count <= 0
        BY <1>2, <2>1
    <3>2. FALSE
        BY <1>3, <1>4, <3>1
    <3> QED
        BY <3>2
  <2> QED
      BY <1>2, <2>1
<1>6. ASSUME NEW k \in Nat
      PROVE  /\ k * limit \in Nat /\ (k + 1) * limit = k * limit + limit
             /\ k < count => k * limit < len
  <2>1. k * limit \in Nat /\ (k + 1) * limit = k * limit + limit
      OBVIOUS
  <2>2. ASSUME k < count
        PROVE  k * limit < len
    <3>1. (count - k) - 1 \in Nat
        BY <1>5, <2>2
    <3>2. ((count - k) - 1) * limit >= 0
        BY <3>1
    <3>3. ((count - k) - 1) * limit = count * limit - k * limit - limit
        BY <1>5
    <3> QED
        BY <1>2, <1>3, <2>1, <3>2, <3>3
  <2> QED
      BY <2>1, <2>2
<1> QED
    BY <1>3, <1>4, <1>5, <1>6 DEF count

\* A slice and the one after it make one slice.
LEMMA AdjacentSlices ==
    ASSUME NEW bytes \in Seq(Nat), NEW a \in Nat, NEW z \in Nat, a <= z, z <= Len(bytes)
    PROVE  /\ SubSeq(bytes, a + 1, z) \in Seq(Nat)
           /\ SubSeq(bytes, 1, a) \o SubSeq(bytes, a + 1, z) = SubSeq(bytes, 1, z)
<1>1. Len(bytes) \in Nat /\ \A i \in 1 .. Len(bytes) : bytes[i] \in Nat
    OBVIOUS
<1>2. \A i \in a + 1 .. z : bytes[i] \in Nat
    BY <1>1
<1>3. SubSeq(bytes, a + 1, z) \in Seq(Nat)
    BY <1>2, SubSeqProperties
<1>4. 1 \in 1 .. Len(bytes) + 1 /\ a \in 1 - 1 .. Len(bytes) /\ z \in a .. Len(bytes)
    BY <1>1
<1>5. SubSeq(bytes, 1, a) \o SubSeq(bytes, a + 1, z) = SubSeq(bytes, 1, z)
    BY <1>4, ConcatAdjacentSubSeq
<1> QED
    BY <1>3, <1>5

\* Put together in their order, the chunks of a body are the body.
LEMMA ChunksJoin ==
    ASSUME NEW bytes \in Seq(Nat), NEW eos, NEW limit \in Nat \ {0}
    PROVE  LET chunks == Chunks(bytes, eos, limit)
           IN  FlattenSeq([i \in DOMAIN chunks |-> chunks[i].body]) = bytes
<1> DEFINE len == Len(bytes)
           count == IF bytes = <<>> THEN 1 ELSE (len + limit - 1) \div limit
           Slice(i) == SubSeq(bytes, (i - 1) * limit + 1, Smaller(i * limit, len))
           First(k) == [i \in 1 .. k |-> Slice(i)]
<1>1. LET chunks == Chunks(bytes, eos, limit)
      IN  [i \in DOMAIN chunks |-> chunks[i].body] = First(count)
    BY DEF Chunks
<1>2. len \in Nat /\ (len = 0 <=> bytes = <<>>)
    OBVIOUS
<1>3. /\ count \in Nat \ {0} /\ count * limit >= len
      /\ \A k \in Nat : k < count => k * limit \in Nat /\ k * limit <= len
      /\ \A k \in Nat : (k + 1) * limit = k * limit + limit
  <2>1. CASE bytes = <<>>
      BY <1>2, <2>1
  <2>2. CASE bytes # <<>>
    <3>1. PICK n \in Nat : n = len
        BY <1>2
    <3>2. PICK c : c = count
        OBVIOUS
    <3>3. n # 0 /\ c = (n + limit - 1) \div limit
        BY <1>2, <2>2, <3>1, <3>2
    <3> HIDE DEF count, len
    <3>4. /\ c \in Nat \ {0} /\ c * limit >= n
          /\ \A k \in Nat : k < c => k * limit \in Nat /\ k * limit < n
          /\ \A k \in Nat : (k + 1) * limit = k * limit + limit
        BY <3>3, Multiples
    <3>5. \A k \in Nat : k < c => k * limit \in Nat /\ k * limit <= n
        BY <3>4
    <3> QED
        BY <3>1, <3>2, <3>4, <3>5
  <2> QED
      BY <2>1, <2>2
<1> HIDE DEF count, len
<1> DEFINE End(k) == Smaller(k * limit, len)
           T == {k \in Nat : k <= count => /\ First(k) \in Seq(Seq(Nat))
                                           /\ FlattenSeq(First(k)) = SubSeq(bytes, 1, End(k))}
<1>4. 0 \in T
  <2>1. First(0) = <<>>
      OBVIOUS
  <2>2. End(0) = 0
      BY <1>2 DEF Smaller
  <2>3. SubSeq(bytes, 1, 0) = <<>> /\ <<>> \in Seq(Seq(Nat))
      OBVIOUS
  <2> QED
      BY <2>1, <2>2, <2>3, FlattenEmpty
<1>5. ASSUME NEW k \in Nat, k \in T, k + 1 <= count
      PROVE  /\ First(k + 1) \in Seq(Seq(Nat))
             /\ FlattenSeq(First(k + 1)) = SubSeq(bytes, 1, End(k + 1))
  <2>1. k < count /\ k <= count
      BY <1>3, <1>5
  <2>2. /\ k * limit \in Nat /\ k * limit <= len /\ (k + 1) * limit = k * limit + limit
        /\ End(k) = k * limit
      BY <1>2, <1>3, <2>1 DEF Smaller
  <2>3. End(k + 1) \in Nat /\ End(k + 1) <= len /\ k * limit <= End(k + 1)
      BY <1>2, <2>2 DEF Smaller
  <2>4. First(k) \in Seq(Seq(Nat)) /\ FlattenSeq(First(k)) = SubSeq(bytes, 1, k * limit)
      BY <1>5, <2>1, <2>2
  <2>5. (k + 1) - 1 = k
      OBVIOUS
  <2>6. Slice(k + 1) = SubSeq(bytes, k * limit + 1, End(k + 1))
      BY <2>5
  <2> HIDE DEF End, Slice
  <2>7. PICK a, z, slice : a = k * limit /\ z = End(k + 1) /\ slice = Slice(k + 1)
      OBVIOUS
  <2>8. /\ slice \in Seq(Nat) /\ slice = SubSeq(bytes, a + 1, z)
        /\ SubSeq(bytes, 1, a) \o slice = SubSeq(bytes, 1, z)
    <3>1. slice = SubSeq(bytes, a + 1, z)
        BY <2>6, <2>7
    <3>2. a \in Nat /\ z \in Nat /\ a <= z /\ z <= Len(bytes)
        BY <2>2, <2>3, <2>7 DEF len
    <3>3. /\ SubSeq(bytes, a + 1, z) \in Seq(Nat)
          /\ SubSeq(bytes, 1, a) \o SubSeq(bytes, a + 1, z) = SubSeq(bytes, 1, z)
        BY <3>2, AdjacentSlices, Zenon
    <3> QED
        BY <3>1, <3>3, Zenon
  <2>9. First(k + 1) = Append(First(k), slice)
      BY <2>4, <2>7, <2>8
  <2> HIDE DEF First
  <2>10. FlattenSeq(First(k + 1)) = SubSeq(bytes, 1, z)
      BY <2>4, <2>7, <2>8, <2>9, FlattenAppend
  <2>11. Append(First(k), slice) \in Seq(Seq(Nat))
    <3>1. \A q \in Seq(Seq(Nat)), t \in Seq(Nat) : Append(q, t) \in Seq(Seq(Nat))
        OBVIOUS
    <3> QED
        BY <2>4, <2>8, <3>1
  <2> QED
      BY <2>7, <2>9, <2>10, <2>11
<1>6. ASSUME NEW k \in Nat, k \in T
      PROVE  k + 1 \in T
  <2> HIDE DEF First, End
  <2> QED
      BY <1>5, <1>6
<1> HIDE DEF T
<1>7. count \in T
    BY <1>3, <1>4, <1>6, SetInduction
<1>8. count <= count /\ End(count) = len
    BY <1>2, <1>3 DEF Smaller
<1>9. FlattenSeq(First(count)) = SubSeq(bytes, 1, len)
    BY <1>7, <1>8 DEF T
<1>10. SubSeq(bytes, 1, len) = bytes
    BY DEF len
<1> QED
    BY <1>1, <1>9, <1>10

\* The number of chunks of so many bytes: one more than of what the first chunk leaves.
CountOf(n, limit) == (n + limit - 1) \div limit

LEMMA ChunkCount ==
    ASSUME NEW limit \in Nat \ {0}, NEW n \in Nat
    PROVE  /\ CountOf(n, limit) \in Nat
           /\ n = 0 => CountOf(n, limit) = 0
           /\ n # 0 /\ n <= limit => CountOf(n, limit) = 1
           /\ n > limit => CountOf(n, limit) = CountOf(n - limit, limit) + 1
<1>1. n + limit - 1 \in Nat
    OBVIOUS
<1>2. PICK c : c = (n + limit - 1) \div limit
    OBVIOUS
<1>3. c \in Int /\ limit * c <= n + limit - 1 /\ n + limit - 1 < limit * c + limit
    BY <1>1, <1>2
<1>4. c >= 0
  <2>1. ASSUME c < 0
        PROVE  limit * c + limit <= 0
    <3>1. 0 - (c + 1) \in Nat /\ limit * c + limit = 0 - limit * (0 - (c + 1))
        BY <1>3, <2>1
    <3> QED
        BY <3>1
  <2> QED
      BY <1>3, <2>1
<1>5. ASSUME n = 0
      PROVE  c = 0
  <2>1. ASSUME c >= 1
        PROVE  limit * c >= limit
    <3>1. c - 1 \in Nat /\ limit * c = limit * (c - 1) + limit
        BY <1>3, <2>1
    <3> QED
        BY <3>1
  <2> QED
      BY <1>3, <1>4, <1>5, <2>1
<1>6. ASSUME n # 0, n <= limit
      PROVE  c = 1
  <2>1. ASSUME c >= 2
        PROVE  limit * c >= 2 * limit
    <3>1. c - 2 \in Nat /\ limit * c = limit * (c - 2) + 2 * limit
        BY <1>3, <2>1
    <3> QED
        BY <3>1
  <2>2. c # 0
      BY <1>3, <1>6
  <2> QED
      BY <1>3, <1>4, <1>6, <2>1, <2>2
<1>7. ASSUME n > limit
      PROVE  c = ((n - limit) + limit - 1) \div limit + 1
  <2>1. (n - limit) + limit - 1 \in Nat
      BY <1>7
  <2>2. PICK d : d = ((n - limit) + limit - 1) \div limit
      OBVIOUS
  <2>3. d \in Int /\ limit * d <= n - 1 /\ n - 1 < limit * d + limit
      BY <2>1, <2>2
  <2>4. PICK e \in Int : e = c - (d + 1)
      BY <1>3, <2>3
  <2>5. limit * c = limit * d + limit + limit * e
      BY <1>3, <2>3, <2>4
  <2>6. limit * e < limit /\ limit * e > 0 - limit
      BY <1>3, <2>3, <2>5
  <2>7. e < 1
    <3>1. ASSUME e >= 1
          PROVE  limit * e >= limit
      <4>1. e - 1 \in Nat /\ limit * e = limit * (e - 1) + limit
          BY <3>1
      <4> QED
          BY <4>1
    <3> QED
        BY <2>6, <3>1
  <2>8. e > 0 - 1
    <3>1. ASSUME e <= 0 - 1
          PROVE  limit * e <= 0 - limit
      <4>1. (0 - e) - 1 \in Nat /\ limit * e = 0 - (limit * ((0 - e) - 1) + limit)
          BY <3>1
      <4> QED
          BY <4>1
    <3> QED
        BY <2>6, <3>1
  <2> QED
      BY <1>3, <2>2, <2>3, <2>4, <2>7, <2>8
<1> QED
    BY <1>2, <1>3, <1>4, <1>5, <1>6, <1>7 DEF CountOf

\* The chunks from a byte on, in closed form.
ChunksFrom(bytes, eos, limit, s) ==
    LET count == CountOf(Len(bytes) - s, limit)
    IN  [i \in 1 .. count |->
           [body |-> SubSeq(bytes, s + (i - 1) * limit + 1, Smaller(s + i * limit, Len(bytes))),
            eos |-> eos /\ i = count]]

\* The chunk that the loop builds at a byte.
LoopChunk(bytes, eos, s, len) ==
    [body |-> SubSeq(bytes, s + 1, s + len), eos |-> eos /\ s + len >= Len(bytes)]

(***************************************************************************)
(* The loop of BuildChunkedBodyResponses computes what the handlers' model *)
(* says of it, for every body and every limit.                             *)
(***************************************************************************)
THEOREM LoopComputesChunks ==
    ASSUME NEW bytes \in Seq(Nat), NEW eos \in BOOLEAN, NEW limit \in Nat \ {0}
    PROVE  BuildChunkedBodyResponses(bytes, eos, limit) = Chunks(bytes, eos, limit)
<1>1. PICK n \in Nat : n = Len(bytes)
    OBVIOUS
<1> DEFINE Len1(s) == Smaller(n - s, limit)
           First(s) == LoopChunk(bytes, eos, s, Len1(s))
           Body(f) == [s \in 0 .. n |-> IF s >= n THEN <<>> ELSE <<First(s)>> \o f[s + Len1(s)]]
           closed == [s \in 0 .. n |-> ChunksFrom(bytes, eos, limit, s)]
<1> HIDE DEF Len1, First, Body, closed
<1>2. ASSUME NEW s \in Nat, s < n
      PROVE  /\ s + Len1(s) \in 0 .. n /\ n - (s + Len1(s)) < n - s
             /\ ChunksFrom(bytes, eos, limit, s)
                  = <<First(s)>> \o ChunksFrom(bytes, eos, limit, s + Len1(s))
  <2>0. PICK len : len = Smaller(n - s, limit)
      OBVIOUS
  <2>1. PICK left \in Nat, then \in Nat :
          /\ len \in Nat \ {0} /\ s + len \in 0 .. n
          /\ left # 0 /\ n - s = left /\ n - (s + len) = then
          /\ left <= limit => then = 0 /\ len = left
          /\ left > limit => then = left - limit /\ then # 0 /\ len = limit
          /\ s + len >= n <=> then = 0
    <3>1. n - s \in Nat /\ n - (s + len) \in Nat
        BY <1>2, <2>0 DEF Smaller
    <3>2. PICK left \in Nat, then \in Nat : left = n - s /\ then = n - (s + len)
        BY <3>1, Zenon
    <3>3. /\ len \in Nat \ {0} /\ s + len \in 0 .. n /\ left # 0
          /\ left <= limit => then = 0 /\ len = left
          /\ left > limit => then = left - limit /\ then # 0 /\ len = limit
          /\ s + len >= n <=> then = 0
        BY <1>2, <2>0, <3>2 DEF Smaller
    <3> QED
        BY <3>2, <3>3, Zenon
  <2>2. PICK c \in Nat, d \in Nat : c = CountOf(left, limit) /\ d = CountOf(then, limit)
      BY ChunkCount
  <2>3. PICK first, rest, all :
            /\ first = LoopChunk(bytes, eos, s, len)
            /\ rest = ChunksFrom(bytes, eos, limit, s + len)
            /\ all = ChunksFrom(bytes, eos, limit, s)
      OBVIOUS
  <2>4. /\ all = [i \in 1 .. c |->
                    [body |-> SubSeq(bytes, s + (i - 1) * limit + 1, Smaller(s + i * limit, n)),
                     eos |-> eos /\ i = c]]
        /\ rest = [i \in 1 .. d |->
                    [body |-> SubSeq(bytes, (s + len) + (i - 1) * limit + 1,
                                     Smaller((s + len) + i * limit, n)),
                     eos |-> eos /\ i = d]]
      BY <1>1, <2>1, <2>2, <2>3 DEF ChunksFrom
  <2>5. c = d + 1 /\ (d = 0 <=> then = 0)
    <3>1. then # 0 /\ then <= limit => d = 1
        BY <2>2, ChunkCount
    <3>2. ASSUME then > limit
          PROVE  d # 0
      <4>1. PICK m \in Nat : m = then - limit
          BY <3>2
      <4>2. d = CountOf(m, limit) + 1 /\ CountOf(m, limit) \in Nat
          BY <2>2, <3>2, <4>1, ChunkCount
      <4> QED
          BY <4>2
    <3>3. then = 0 => d = 0
        BY <2>2, ChunkCount
    <3>4. left <= limit => c = 1
        BY <2>1, <2>2, ChunkCount
    <3>5. ASSUME left > limit
          PROVE  c = d + 1
      <4>1. CountOf(left, limit) = CountOf(left - limit, limit) + 1
          BY <3>5, ChunkCount
      <4>2. left - limit = then
          BY <2>1, <3>5
      <4> QED
          BY <2>2, <4>1, <4>2
    <3> QED
        BY <2>1, <3>1, <3>2, <3>3, <3>4, <3>5
  <2>6. all[1] = first
    <3>1. 1 \in 1 .. c /\ s + (1 - 1) * limit + 1 = s + 1
        BY <2>5
    <3>2. s + 1 * limit = s + limit
        OBVIOUS
    <3>3. Smaller(s + 1 * limit, n) = s + len
        BY <1>2, <2>1, <3>2 DEF Smaller
    <3>4. all[1] = [body |-> SubSeq(bytes, s + 1, s + len), eos |-> eos /\ 1 = c]
        BY <2>4, <3>1, <3>3
    <3>5. (eos /\ 1 = c) = (eos /\ s + len >= n)
        BY <2>1, <2>5
    <3> QED
        BY <1>1, <2>3, <3>4, <3>5 DEF LoopChunk
  <2>7. ASSUME NEW i \in 1 .. d
        PROVE  all[i + 1] = rest[i]
    <3>1. i \in Nat /\ i + 1 \in 1 .. c /\ (i + 1) - 1 = i /\ (i + 1 = c) = (i = d)
        BY <2>5
    <3>2. PICK from, to, from1, to1 :
              /\ from = (s + len) + (i - 1) * limit + 1 /\ to = Smaller((s + len) + i * limit, n)
              /\ from1 = s + i * limit + 1 /\ to1 = Smaller(s + (i + 1) * limit, n)
        OBVIOUS
    <3>3. rest[i] = [body |-> SubSeq(bytes, from, to), eos |-> eos /\ i = d]
        BY <2>4, <3>2
    <3>4. all[i + 1] = [body |-> SubSeq(bytes, from1, to1), eos |-> eos /\ i = d]
        BY <2>4, <3>1, <3>2
    <3>5. len = limit
        BY <2>1, <2>5, <3>1
    <3>6. PICK k \in Int : k = (i - 1) * limit
        BY <3>1
    <3>7. i * limit = k + limit /\ (i + 1) * limit = k + 2 * limit
        BY <3>1, <3>6
    <3>8. from = from1 /\ (s + len) + i * limit = s + (i + 1) * limit
      <4>1. PICK k1 \in Int, k2 \in Int : k1 = i * limit /\ k2 = (i + 1) * limit
          BY <3>1
      <4>2. k1 = k + limit /\ k2 = k + 2 * limit
          BY <3>7, <4>1
      <4>3. from = (s + limit) + k + 1 /\ from1 = s + k1 + 1
          BY <3>2, <3>5, <3>6, <4>1
      <4>4. (s + limit) + k + 1 = s + k1 + 1 /\ (s + limit) + k1 = s + k2
          BY <4>2
      <4> QED
          BY <3>5, <4>1, <4>3, <4>4
    <3>9. to = to1
        BY <3>2, <3>8
    <3> QED
        BY <3>3, <3>4, <3>8, <3>9
  <2>8. PICK X : X = {all[i] : i \in 1 .. c} \cup {rest[i] : i \in 1 .. d}
      OBVIOUS
  <2>9. all \in Seq(X) /\ rest \in Seq(X) /\ Len(all) = c /\ Len(rest) = d
    <3>1. /\ \A i \in 1 .. c : all[i] \in X
          /\ \A i \in 1 .. d : rest[i] \in X
        BY <2>8
    <3>2. all = [i \in 1 .. c |-> all[i]] /\ rest = [i \in 1 .. d |-> rest[i]]
        BY <2>4
    <3>3. DOMAIN all = 1 .. c /\ DOMAIN rest = 1 .. d
        BY <2>4
    <3>4. all \in [1 .. c -> X] /\ rest \in [1 .. d -> X]
        BY <3>1, <3>2, Zenon
    <3>5. all \in Seq(X) /\ rest \in Seq(X)
        BY <3>4, SeqDef
    <3> QED
        BY <3>3, <3>5
  <2>10. first \in X
      BY <2>5, <2>6, <2>8
  <2>11. all = <<first>> \o rest
      BY <2>5, <2>6, <2>7, <2>9, <2>10, FirstAndRest
  <2>12. s + len \in 0 .. n /\ n - (s + len) < n - s
      BY <2>1
  <2>13. Len1(s) = len /\ First(s) = first
      BY <2>0, <2>3 DEF Len1, First
  <2> QED
      BY <2>3, <2>11, <2>12, <2>13
<1>3. ChunksFrom(bytes, eos, limit, n) = <<>>
  <2>1. n - n = 0
      OBVIOUS
  <2>2. CountOf(0, limit) = 0
      BY ChunkCount
  <2> QED
      BY <1>1, <2>1, <2>2 DEF ChunksFrom
<1> USE DEF Body, closed
<1>4. closed = Body(closed)
  <2>1. ASSUME NEW s \in 0 .. n
        PROVE  closed[s] = IF s >= n THEN <<>> ELSE <<First(s)>> \o closed[s + Len1(s)]
    <3>1. CASE s < n
        BY <1>2, <3>1
    <3>2. CASE s >= n
      <4>1. s = n
          BY <3>2
      <4> QED
          BY <1>3, <4>1
    <3> QED
        BY <3>1, <3>2
  <2> QED
      BY <2>1
<1>5. ASSUME NEW f, f = Body(f)
      PROVE  f = closed
  <2> DEFINE T == {k \in Nat : \A s \in 0 .. n : n - s <= k => f[s] = closed[s]}
  <2> HIDE DEF closed
  <2>1. ASSUME NEW s \in 0 .. n, s >= n
        PROVE  f[s] = closed[s]
      BY <1>4, <1>5, <2>1
  <2>2. ASSUME NEW s \in 0 .. n, s < n, f[s + Len1(s)] = closed[s + Len1(s)]
        PROVE  f[s] = closed[s]
      BY <1>4, <1>5, <2>2
  <2>3. 0 \in T
      BY <2>1
  <2>4. ASSUME NEW k \in Nat, k \in T
        PROVE  k + 1 \in T
    <3>1. ASSUME NEW s \in 0 .. n, n - s <= k + 1
          PROVE  f[s] = closed[s]
      <4>1. CASE s >= n
          BY <2>1, <4>1
      <4>2. CASE s < n
        <5>1. s + Len1(s) \in 0 .. n /\ n - (s + Len1(s)) < n - s
          <6>1. s \in Nat
              OBVIOUS
          <6> QED
              BY <1>2, <4>2, <6>1
        <5>2. n - (s + Len1(s)) <= k
            BY <3>1, <5>1
        <5>3. f[s + Len1(s)] = closed[s + Len1(s)]
            BY <2>4, <5>1, <5>2
        <5> QED
            BY <2>2, <4>2, <5>3
      <4> QED
          BY <4>1, <4>2
    <3> QED
        BY <3>1
  <2> HIDE DEF T
  <2>5. n \in T
      BY <2>3, <2>4, SetInduction
  <2>6. \A s \in 0 .. n : f[s] = closed[s]
      BY <2>5 DEF T
  <2>7. DOMAIN f = 0 .. n /\ f = [s \in 0 .. n |-> f[s]]
      BY <1>5
  <2>8. DOMAIN closed = 0 .. n /\ closed = [s \in 0 .. n |-> closed[s]]
      BY DEF closed
  <2> QED
      BY <2>6, <2>7, <2>8
<1>6. closed = CHOOSE f : f = Body(f)
  <2>1. PICK g : g = CHOOSE f : f = Body(f)
      OBVIOUS
  <2> HIDE DEF Body, closed
  <2>2. g = Body(g)
      BY <1>4, <2>1, Zenon
  <2> QED
      BY <1>5, <2>1, <2>2
<1>7. BuildChunkedBodyResponses(bytes, eos, limit)
        = IF n = 0 THEN <<[body |-> <<>>, eos |-> eos]>> ELSE closed[0]
  <2> HIDE DEF closed
  <2> QED
      BY <1>1, <1>6 DEF BuildChunkedBodyResponses, First, Len1, LoopChunk
<1>8. CASE n = 0
  <2>1. bytes = <<>>
    <3>1. bytes = <<>> <=> Len(bytes) = 0
        OBVIOUS
    <3> QED
        BY <1>1, <1>8, <3>1
  <2>2. /\ (1 - 1) * limit + 1 = 1 /\ Smaller(1 * limit, Len(bytes)) = 0
        /\ SubSeq(bytes, 1, 0) = <<>>
      BY <1>1, <1>8, <2>1 DEF Smaller
  <2>3. Chunks(bytes, eos, limit) = [i \in 1 .. 1 |-> [body |-> <<>>, eos |-> eos]]
      BY <2>1, <2>2 DEF Chunks
  <2> QED
      BY <1>7, <1>8, <2>3
<1>9. CASE n # 0
  <2>1. bytes # <<>> /\ n - 0 = n /\ 0 \in 0 .. n
      BY <1>1, <1>9
  <2>2. \A i \in Nat : 0 + (i - 1) * limit + 1 = (i - 1) * limit + 1 /\ 0 + i * limit = i * limit
      OBVIOUS
  <2>3. CountOf(n, limit) \in Nat
      BY ChunkCount
  <2>4. ChunksFrom(bytes, eos, limit, 0) = Chunks(bytes, eos, limit)
    <3>1. PICK c, slice : /\ c = CountOf(n, limit)
                          /\ slice = [i \in 1 .. c |-> SubSeq(bytes, (i - 1) * limit + 1,
                                                              Smaller(i * limit, Len(bytes)))]
        OBVIOUS
    <3>2. \A i \in 1 .. c : i \in Nat
        BY <2>3, <3>1
    <3>3. ASSUME NEW i \in 1 .. c
          PROVE  SubSeq(bytes, 0 + (i - 1) * limit + 1, Smaller(0 + i * limit, Len(bytes))) = slice[i]
      <4>1. 0 + (i - 1) * limit + 1 = (i - 1) * limit + 1 /\ 0 + i * limit = i * limit
          BY <2>2, <3>2
      <4>2. slice[i] = SubSeq(bytes, (i - 1) * limit + 1, Smaller(i * limit, Len(bytes)))
          BY <3>1, Zenon
      <4> QED
          BY <4>1, <4>2, Zenon
    <3>4. c = (Len(bytes) + limit - 1) \div limit
        BY <1>1, <3>1 DEF CountOf
    <3>5. Chunks(bytes, eos, limit) = [i \in 1 .. c |-> [body |-> slice[i], eos |-> eos /\ i = c]]
        BY <2>1, <3>1, <3>4, Zenon DEF Chunks
    <3>6. ChunksFrom(bytes, eos, limit, 0) = [i \in 1 .. c |-> [body |-> slice[i], eos |-> eos /\ i = c]]
      <4>1. c = CountOf(Len(bytes) - 0, limit)
          BY <1>1, <2>1, <3>1
      <4> QED
          BY <3>3, <4>1, Zenon DEF ChunksFrom
    <3> QED
        BY <3>5, <3>6, Zenon
  <2> QED
      BY <1>7, <1>9, <2>1, <2>4
<1> QED
    BY <1>8, <1>9

\* What StreamedBody sends of a body is the body, all on its side.
LEMMA StreamedBytes ==
    ASSUME NEW side \in Sides, NEW sent \in Seq(Nat), NEW s
    PROVE  Bytes(StreamedBody(side, sent), s) = IF s = side THEN sent ELSE <<>>
<1> DEFINE p == StreamedBody(side, sent)
           chunks == Chunks(sent, TRUE, BodyByteLimit)
<1>1. p \in Seq(Response)
    BY StreamedBodyType
<1>2. BodyOf(p, s) = IF s = side THEN 1 .. Len(p) ELSE {}
    BY StreamedParts
<1>3. CASE s # side
    BY <1>1, <1>2, <1>3, NoBytes
<1>4. CASE s = side
  <2>1. DOMAIN p = DOMAIN chunks /\ \A i \in DOMAIN p : p[i] = BodyResponse(side, chunks[i])
      BY DEF StreamedBody
  <2>2. DOMAIN p = 1 .. Len(p)
      BY <1>1
  <2> HIDE DEF p, chunks
  <2>3. \A i \in DOMAIN p : p[i].body = chunks[i].body
      BY <2>1 DEF BodyResponse
  <2>4. Pieces(p, s) = [i \in DOMAIN chunks |-> chunks[i].body]
      BY <1>2, <1>4, <2>1, <2>2, <2>3 DEF Pieces
  <2>5. FlattenSeq([i \in DOMAIN chunks |-> chunks[i].body]) = sent
    <3>1. BodyByteLimit \in Nat \ {0}
        BY StreamAssumption
    <3> QED
        BY <3>1, ChunksJoin DEF chunks
  <2> QED
      BY <1>4, <2>4, <2>5 DEF Bytes, p
<1> QED
    BY <1>3, <1>4

\* A single chunk.
LEMMA SingleBytes ==
    ASSUME NEW side \in Sides, NEW sent \in Seq(Nat), NEW eos \in BOOLEAN, NEW s
    PROVE  LET p == <<BodyResponse(side, [body |-> sent, eos |-> eos])>>
           IN  /\ p \in Seq(Response)
               /\ Bytes(p, s) = IF s = side THEN sent ELSE <<>>
<1>1. PICK b : b = BodyResponse(side, [body |-> sent, eos |-> eos])
    OBVIOUS
<1>2. b \in Response /\ b.kind = "body" /\ b.side = side /\ b.body = sent
    BY <1>1 DEF BodyResponse, Response
<1>3. <<b>> \in Seq(Response) /\ DOMAIN <<b>> = {1} /\ <<b>>[1] = b
    BY <1>2
<1>4. CASE s = side
  <2>1. Pieces(<<b>>, s) = <<sent>>
      BY <1>2, <1>3, <1>4 DEF Pieces, BodyOf
  <2> QED
      BY <1>1, <1>3, <1>4, <2>1, FlattenSingle DEF Bytes
<1>5. CASE s # side
  <2>1. BodyOf(<<b>>, s) = {}
      BY <1>2, <1>3, <1>5 DEF BodyOf
  <2> QED
      BY <1>1, <1>3, <1>5, <2>1, NoBytes
<1> QED
    BY <1>4, <1>5

\* A header answer has no bytes, and the length its message says.
LEMMA HeaderBytes ==
    ASSUME NEW side \in Sides, NEW m \in Message, NEW s
    PROVE  /\ <<HeadersResponse(side, m)>> \in Seq(Response)
           /\ Bytes(<<HeadersResponse(side, m)>>, s) = <<>>
<1>1. PICK h : h = HeadersResponse(side, m)
    OBVIOUS
<1>2. h \in Response
    BY <1>1, HeadersResponseType
<1>3. <<h>> \in Seq(Response)
    BY <1>2
<1>4. BodyOf(<<h>>, s) = {}
    BY <1>1, HeaderParts
<1>5. Bytes(<<h>>, s) = <<>>
    BY <1>3, <1>4, NoBytes
<1> QED
    BY <1>1, <1>3, <1>5

\* The length that one header answer leaves the proxy with.
LEMMA HeaderLengths ==
    ASSUME NEW side \in Sides, NEW m \in Message, NEW wire
    PROVE  Lengths(<<HeadersResponse(side, m)>>, side, wire) = {View(m, wire)[ContentLength]}
<1>1. PICK h : h = HeadersResponse(side, m)
    OBVIOUS
<1>2. ApplyHeaderMutation(wire, h.set, h.removed) = View(m, wire)
    BY <1>1, CarriedView
<1>3. <<h>>[1] = h /\ HeadersOf(<<h>>, side) = {1}
    BY <1>1, HeaderParts
<1>4. Lengths(<<h>>, side, wire) = {View(m, wire)[ContentLength]}
    BY <1>2, <1>3 DEF Lengths
<1> QED
    BY <1>1, <1>4

-----------------------------------------------------------------------------
(***************************************************************************)
(* Bytes off the wire.                                                     *)
(***************************************************************************)
\* What came and what comes next are what has come then.
LEMMA WireConcat ==
    ASSUME NEW a \in Nat, NEW n \in Nat
    PROVE  WireBytes(0, a) \o WireBytes(a, n) = WireBytes(0, a + n)
<1>1. PICK x \in Seq(Nat) : x = WireBytes(0, a)
    BY WireBytesType
<1>2. PICK y \in Seq(Nat) : y = WireBytes(a, n)
    BY WireBytesType
<1>3. PICK z \in Seq(Nat) : z = WireBytes(0, a + n)
    BY WireBytesType
<1>4. /\ Len(x) = a /\ \A i \in 1 .. a : x[i] = i
      /\ Len(y) = n /\ \A i \in 1 .. n : y[i] = a + i
      /\ Len(z) = a + n /\ \A i \in 1 .. (a + n) : z[i] = i
    BY <1>1, <1>2, <1>3, WireBytesType DEF WireBytes
<1>5. /\ x \o y \in Seq(Nat) /\ Len(x \o y) = a + n
      /\ \A i \in 1 .. (a + n) : (x \o y)[i] = IF i <= a THEN x[i] ELSE y[i - a]
  <2>1. /\ x \o y \in Seq(Nat) /\ Len(x \o y) = Len(x) + Len(y)
        /\ \A i \in 1 .. Len(x) + Len(y) :
              (x \o y)[i] = IF i <= Len(x) THEN x[i] ELSE y[i - Len(x)]
      BY ConcatProperties, Zenon
  <2>2. Len(x) = a /\ Len(y) = n
      BY <1>4, Zenon
  <2> QED
      BY <2>1, <2>2, Zenon
<1>6. ASSUME NEW i \in 1 .. (a + n)
      PROVE  (x \o y)[i] = z[i]
  <2>1. CASE i <= a
      BY <1>4, <1>5, <2>1
  <2>2. CASE ~(i <= a)
    <3>1. i - a \in 1 .. n /\ a + (i - a) = i
        BY <2>2
    <3> QED
        BY <1>4, <1>5, <2>2, <3>1
  <2> QED
      BY <2>1, <2>2
<1>7. x \o y = z
    BY <1>4, <1>5, <1>6, SeqEqual
<1> QED
    BY <1>1, <1>2, <1>3, <1>7

\* A body that came is in order, and a body that plugins wrote has only their bytes.
LEMMA WireInOrder ==
    ASSUME NEW n \in Nat
    PROVE  WireBytes(0, n) \in InOrder(n)
<1>1. PICK z \in Seq(Nat) : z = WireBytes(0, n)
    BY WireBytesType
<1>2. DOMAIN z = 1 .. n /\ \A i \in 1 .. n : z[i] = i
    BY <1>1, WireBytesType DEF WireBytes
<1> QED
    BY <1>1, <1>2 DEF InOrder

\* A body that plugins rewrote has their bytes only.
LEMMA RewrittenIsPlugins ==
    ASSUME NEW b \in Seq(Nat)
    PROVE  Rewritten(b) <=> b \in PluginBodies
BY DEF Rewritten, PluginBodies

\* The next chunk, as it came or as chunk processors wrote it, keeps the order.
LEMMA OrderGrows ==
    ASSUME NEW a \in Nat, NEW n \in Nat, NEW b \in InOrder(a),
           NEW c \in PluginBodies \cup {WireBytes(a, n)}
    PROVE  b \o c \in InOrder(a + n)
<1>1. /\ b \in Seq(Nat) /\ \A i \in DOMAIN b : b[i] \in Nat /\ b[i] <= a
      /\ \A i, j \in DOMAIN b : i < j /\ b[i] # PluginByte /\ b[j] # PluginByte => b[i] < b[j]
    BY DEF InOrder
<1>2. c \in Seq(Nat) /\ \A i \in DOMAIN c : c[i] = PluginByte \/ c[i] = a + i
  <2>1. CASE c \in PluginBodies
    <3>1. c \in Seq({PluginByte}) /\ {PluginByte} \subseteq Nat
        BY <2>1 DEF PluginBodies, PluginByte
    <3>2. c \in Seq(Nat)
        BY <3>1, SeqMonotonic
    <3> QED
        BY <3>1, <3>2
  <2>2. CASE c = WireBytes(a, n)
      BY <2>2, WireBytesType DEF WireBytes
  <2> QED
      BY <2>1, <2>2
<1>3. \A i \in DOMAIN c : c[i] <= a + n
  <2>1. CASE c \in PluginBodies
      BY <2>1 DEF PluginBodies, PluginByte
  <2>2. CASE c = WireBytes(a, n)
      BY <2>2 DEF WireBytes
  <2> QED
      BY <2>1, <2>2
<1>4. PICK r : r = b \o c
    OBVIOUS
<1>5. /\ r \in Seq(Nat) /\ Len(b) \in Nat /\ Len(c) \in Nat
      /\ DOMAIN b = 1 .. Len(b) /\ DOMAIN c = 1 .. Len(c) /\ DOMAIN r = 1 .. (Len(b) + Len(c))
      /\ \A i \in 1 .. (Len(b) + Len(c)) : r[i] = IF i <= Len(b) THEN b[i] ELSE c[i - Len(b)]
    BY <1>1, <1>2, <1>4, ConcatProperties
<1>6. ASSUME NEW i \in DOMAIN r
      PROVE  r[i] <= a + n
  <2>1. CASE i <= Len(b)
    <3>1. i \in DOMAIN b /\ r[i] = b[i]
        BY <1>5, <2>1
    <3> QED
        BY <1>1, <3>1
  <2>2. CASE ~(i <= Len(b))
    <3>1. i - Len(b) \in DOMAIN c /\ r[i] = c[i - Len(b)]
        BY <1>5, <2>2
    <3> QED
        BY <1>3, <3>1
  <2> QED
      BY <2>1, <2>2
<1>7. ASSUME NEW i \in DOMAIN r, NEW j \in DOMAIN r, i < j, r[i] # PluginByte, r[j] # PluginByte
      PROVE  r[i] < r[j]
  <2>1. CASE j <= Len(b)
    <3>1. i \in DOMAIN b /\ j \in DOMAIN b /\ r[i] = b[i] /\ r[j] = b[j]
        BY <1>5, <1>7, <2>1
    <3> QED
        BY <1>1, <1>7, <3>1
  <2>2. CASE i <= Len(b) /\ ~(j <= Len(b))
    <3>1. i \in DOMAIN b /\ r[i] = b[i] /\ j - Len(b) \in DOMAIN c /\ r[j] = c[j - Len(b)]
      <4>1. i \in 1 .. (Len(b) + Len(c)) /\ j \in 1 .. (Len(b) + Len(c))
          BY <1>5, <1>7, Zenon
      <4>2. r[i] = b[i] /\ r[j] = c[j - Len(b)]
          BY <1>5, <2>2, <4>1, Zenon
      <4>3. i \in 1 .. Len(b) /\ j - Len(b) \in 1 .. Len(c)
        <5>1. PICK l, m : l = Len(b) /\ m = Len(c)
            OBVIOUS
        <5>2. l \in Nat /\ m \in Nat /\ i \in 1 .. (l + m) /\ j \in 1 .. (l + m) /\ i <= l /\ ~ (j <= l)
            BY <1>5, <2>2, <4>1, <5>1, Zenon
        <5>3. i \in 1 .. l /\ j - l \in 1 .. m
            BY <5>2, SMTT(20)
        <5> QED
            BY <5>1, <5>3, Zenon
      <4> QED
          BY <1>5, <4>2, <4>3, Zenon
    <3>2. r[j] = a + (j - Len(b)) /\ j - Len(b) > 0
        BY <1>2, <1>5, <1>7, <3>1
    <3>3. PICK k, x, y : k = j - Len(b) /\ x = r[i] /\ y = r[j]
        OBVIOUS
    <3>4. x \in Nat /\ x <= a
        BY <1>1, <3>1, <3>3, Zenon
    <3>5. k \in Int /\ k > 0 /\ y = a + k
      <4>1. j \in Int /\ Len(b) \in Int
          BY <1>5, <1>7
      <4> QED
          BY <3>2, <3>3, <4>1
    <3>6. x < y
        BY <3>4, <3>5
    <3> QED
        BY <3>3, <3>6
  <2>3. CASE ~(i <= Len(b))
    <3>1. i - Len(b) \in DOMAIN c /\ r[i] = c[i - Len(b)]
        BY <1>5, <2>3
    <3>2. ~(j <= Len(b))
        BY <1>5, <1>7, <2>3
    <3>3. j - Len(b) \in DOMAIN c /\ r[j] = c[j - Len(b)]
        BY <1>5, <3>2
    <3>4. r[i] = a + (i - Len(b)) /\ r[j] = a + (j - Len(b))
        BY <1>2, <1>7, <3>1, <3>3
    <3> QED
        BY <1>5, <1>7, <3>4
  <2> QED
      BY <2>1, <2>2, <2>3
<1> QED
    BY <1>4, <1>5, <1>6, <1>7 DEF InOrder

-----------------------------------------------------------------------------
(***************************************************************************)
(* The invariant, step by step.                                            *)
(***************************************************************************)
\* The invariant in the next state, in terms of the answers there.
LEMMA BodyPrimed ==
    /\ ProfileInv' <=> reqCtx'.Profile \in profiles' \cup {emptyProfile}
    /\ RunningInv' <=>
         (status' = "running" =>
            /\ ~requestBodyComplete' => requestBody' = WireBytes(0, reqBytes')
            /\ respSide' \in {"idle", "open"} => ~responseBodyComplete'
            /\ respSide' = "idle" => respBytes' = 0 /\ responseBody' = <<>>
            /\ ~responseBodyComplete' /\ reqCtx'.Profile.NeedsResponseBuffering
                  => responseBody' = WireBytes(0, respBytes')
            /\ respSide' \in {"idle", "open"} /\ ~reqCtx'.Profile.NeedsResponseBuffering =>
                  \/ Bytes(answers', "response") = WireBytes(0, respBytes')
                  \/ /\ reqCtx'.Profile.ResponseChunkProcessors
                     /\ Bytes(answers', "response") \in InOrder(respBytes'))
    /\ RequestInv' <=>
         (LastOf(answers', "request") # {} =>
            /\ Bytes(answers', "request") \in
                  IF reqCtx'.Request.bodyMutated THEN PluginBodies ELSE {WireBytes(0, reqBytes')}
            /\ Lengths(answers', "request", reqWire') \subseteq {Len(Bytes(answers', "request"))})
    /\ ResponseInv' <=>
         (LastOf(answers', "response") # {} =>
            \/ Bytes(answers', "response") = WireBytes(0, respBytes')
            \/ /\ reqCtx'.Profile.NeedsResponseBuffering
               /\ Bytes(answers', "response") \in PluginBodies
               /\ Lengths(answers', "response", respWire') \subseteq {Len(Bytes(answers', "response"))}
            \/ /\ reqCtx'.Profile.ResponseChunkProcessors
               /\ Bytes(answers', "response") \in InOrder(respBytes'))
<1>1. ProfileInv' <=> reqCtx'.Profile \in profiles' \cup {emptyProfile}
    BY DEF ProfileInv, emptyProfile
<1>2. \A s : Bytes(answers, s)' = Bytes(answers', s) /\ LastOf(answers, s)' = LastOf(answers', s)
    BY DEF Bytes, Pieces, LastOf, BodyOf
<1>3. \A n : InOrder(n)' = InOrder(n)
    BY DEF InOrder, PluginByte
<1> QED
    BY <1>1, <1>2, <1>3 DEF RunningInv, BuffersHeld, StreamedSoFar, RequestInv, RequestWhole, ResponseInv,
       ResponseWhole, Bytes, Pieces, LastOf, BodyOf, Lengths, HeadersOf, ApplyHeaderMutation, InOrder,
       PluginBodies, PluginByte, WireBytes

\* The responses to a message add their bytes to those answered before.
LEMMA NewBytes ==
    ASSUME ServerTypeOK, Ready, UNCHANGED out, pending' \in Seq(Response), NEW s
    PROVE  /\ Bytes(answers, s) \in Seq(Nat)
           /\ Bytes(answers', s) = Bytes(answers, s) \o Bytes(pending', s)
           /\ LastOf(answers', s) = {} <=> LastOf(answers, s) = {} /\ LastOf(pending', s) = {}
           /\ \A wire : Lengths(answers', s, wire) = Lengths(answers, s, wire) \cup Lengths(pending', s, wire)
<1>1. out \in Seq(Response) /\ answers = out
    BY ConcatProperties DEF ServerTypeOK, Ready, answers
<1>2. answers' = out \o pending'
    BY DEF answers
<1>3. PICK p : p = pending'
    OBVIOUS
<1>4. p \in Seq(Response)
    BY <1>3
<1>5. Bytes(out, s) \in Seq(Nat) /\ Bytes(out \o p, s) = Bytes(out, s) \o Bytes(p, s)
    BY <1>1, <1>4, BytesType, BytesConcat
<1>6. \A wire : Lengths(out \o p, s, wire) = Lengths(out, s, wire) \cup Lengths(p, s, wire)
    BY <1>1, <1>4, LengthsConcat
<1>7. LastOf(out \o p, s) = LastOf(out, s) \cup {Len(out) + i : i \in LastOf(p, s)}
    BY <1>1, <1>4, ConcatParts
<1>8. LastOf(out \o p, s) = {} <=> LastOf(out, s) = {} /\ LastOf(p, s) = {}
  <2>1. ASSUME NEW S, NEW T, NEW R, R = S \cup {Len(out) + i : i \in T}
        PROVE  R = {} <=> S = {} /\ T = {}
      BY <2>1
  <2> QED
      BY <1>7, <2>1
<1> QED
    BY <1>1, <1>2, <1>3, <1>5, <1>6, <1>8

\* Responses without a body of a side leave what is answered of it as it was.
LEMMA SideQuiet ==
    ASSUME ServerTypeOK, Ready, UNCHANGED out, pending' \in Seq(Response), NEW s,
           BodyOf(pending', s) = {}
    PROVE  /\ Bytes(answers', s) = Bytes(answers, s)
           /\ LastOf(answers', s) = {} <=> LastOf(answers, s) = {}
           /\ HeadersOf(pending', s) = {} =>
                 \A wire : Lengths(answers', s, wire) = Lengths(answers, s, wire)
<1>1. /\ Bytes(answers, s) \in Seq(Nat)
      /\ Bytes(answers', s) = Bytes(answers, s) \o Bytes(pending', s)
      /\ LastOf(answers', s) = {} <=> LastOf(answers, s) = {} /\ LastOf(pending', s) = {}
      /\ \A wire : Lengths(answers', s, wire) = Lengths(answers, s, wire) \cup Lengths(pending', s, wire)
    BY NewBytes
<1>2. PICK p : p = pending'
    OBVIOUS
<1>3. p \in Seq(Response) /\ BodyOf(p, s) = {}
    BY <1>2
<1>4. Bytes(p, s) = <<>> /\ LastOf(p, s) = {}
    BY <1>3, NoBytes DEF LastOf
<1>5. \A b \in Seq(Nat) : b \o <<>> = b
    BY ConcatEmptySeq
<1>6. HeadersOf(p, s) = {} => \A wire : Lengths(p, s, wire) = {}
    BY DEF Lengths
<1> QED
    BY <1>1, <1>2, <1>4, <1>5, <1>6

\* A side without a header answer has no answer at all.
LEMMA NoAnswerYet ==
    ASSUME ServerTypeOK, Ordered(answers), NEW s \in Sides, HeadersOf(answers, s) = {}
    PROVE  /\ Bytes(answers, s) = <<>> /\ LastOf(answers, s) = {}
           /\ \A wire : Lengths(answers, s, wire) = {}
<1>1. answers \in Seq(Response)
    BY ConcatParts DEF ServerTypeOK, answers
<1>2. BodyOf(answers, s) = {}
    BY DEF Ordered
<1>3. PICK q : q = answers
    OBVIOUS
<1>4. Bytes(q, s) = <<>>
    BY <1>1, <1>2, <1>3, NoBytes
<1> QED
    BY <1>2, <1>3, <1>4 DEF LastOf, Lengths

\* A header answer and the chunks of a whole body: the bytes are the body's.
LEMMA WholeBytes ==
    ASSUME NEW side \in Sides, NEW m \in Message, NEW sent \in Seq(Nat)
    PROVE  /\ <<HeadersResponse(side, m)>> \o StreamedBody(side, sent) \in Seq(Response)
           /\ Bytes(<<HeadersResponse(side, m)>> \o StreamedBody(side, sent), side) = sent
<1>1. PICK h, b : h = <<HeadersResponse(side, m)>> /\ b = StreamedBody(side, sent)
    OBVIOUS
<1>2. h \in Seq(Response) /\ Bytes(h, side) = <<>>
    BY <1>1, HeaderBytes, Zenon
<1>3. b \in Seq(Response) /\ Bytes(b, side) = sent
    BY <1>1, StreamedBodyType, StreamedBytes
<1>4. h \o b \in Seq(Response) /\ Bytes(h \o b, side) = Bytes(h, side) \o Bytes(b, side)
    BY <1>2, <1>3, ConcatProperties, BytesConcat
<1>5. <<>> \o sent = sent
    BY ConcatEmptySeq
<1>6. Bytes(h \o b, side) = sent
    BY <1>2, <1>3, <1>4, <1>5
<1> QED
    BY <1>1, <1>4, <1>6, Zenon

\* The lengths of a header answer followed by body answers are that of the header answer.
LEMMA WholeLengths ==
    ASSUME NEW side \in Sides, NEW m \in Message, NEW sent \in Seq(Nat), NEW wire
    PROVE  Lengths(<<HeadersResponse(side, m)>> \o StreamedBody(side, sent), side, wire)
              = {View(m, wire)[ContentLength]}
<1>1. PICK h, b : h = <<HeadersResponse(side, m)>> /\ b = StreamedBody(side, sent)
    OBVIOUS
<1>2. h \in Seq(Response) /\ Lengths(h, side, wire) = {View(m, wire)[ContentLength]}
    BY <1>1, HeaderBytes, HeaderLengths, Zenon
<1>3. b \in Seq(Response) /\ Lengths(b, side, wire) = {}
    BY <1>1, StreamedBodyType, StreamedParts DEF Lengths
<1>4. Lengths(h \o b, side, wire) = Lengths(h, side, wire) \cup Lengths(b, side, wire)
    BY <1>2, <1>3, LengthsConcat
<1>5. Lengths(h \o b, side, wire) = {View(m, wire)[ContentLength]}
    BY <1>2, <1>3, <1>4
<1> QED
    BY <1>1, <1>5, Zenon

\* A header answer and a chunk after it: the bytes are the chunk's.
LEMMA FirstChunkBytes ==
    ASSUME NEW side \in Sides, NEW m \in Message, NEW sent \in Seq(Nat), NEW eos \in BOOLEAN, NEW s
    PROVE  LET p == <<HeadersResponse(side, m), BodyResponse(side, [body |-> sent, eos |-> eos])>>
           IN  /\ p \in Seq(Response)
               /\ Bytes(p, s) = IF s = side THEN sent ELSE <<>>
<1>1. PICK h, b : /\ h = HeadersResponse(side, m)
                  /\ b = BodyResponse(side, [body |-> sent, eos |-> eos])
    OBVIOUS
<1>2. <<h>> \in Seq(Response) /\ Bytes(<<h>>, s) = <<>>
    BY <1>1, HeaderBytes
<1>3. <<b>> \in Seq(Response) /\ Bytes(<<b>>, s) = IF s = side THEN sent ELSE <<>>
    BY <1>1, SingleBytes
<1>4. PICK p, q, r : p = <<h>> /\ q = <<b>> /\ r = <<h, b>>
    OBVIOUS
<1>5. /\ p \in Seq(Response) /\ Len(p) = 1 /\ p[1] = h /\ q \in Seq(Response) /\ Len(q) = 1 /\ q[1] = b
      /\ h \in Response /\ b \in Response
    BY <1>2, <1>3, <1>4
<1>6. r \in Seq(Response) /\ Len(r) = 2 /\ r[1] = h /\ r[2] = b
    BY <1>4, <1>5
<1>7. p \o q = r
  <2>1. /\ p \o q \in Seq(Response) /\ Len(p \o q) = 2
        /\ \A i \in 1 .. 2 : (p \o q)[i] = IF i <= 1 THEN p[i] ELSE q[i - 1]
    <3>1. /\ p \o q \in Seq(Response) /\ Len(p \o q) = Len(p) + Len(q)
          /\ \A i \in 1 .. (Len(p) + Len(q)) : (p \o q)[i] = IF i <= Len(p) THEN p[i] ELSE q[i - Len(p)]
        BY <1>5, ConcatProperties
    <3>2. Len(p) + Len(q) = 2 /\ Len(p) = 1
        BY <1>5
    <3> QED
        BY <3>1, <3>2
  <2>2. \A i \in 1 .. 2 : (p \o q)[i] = r[i]
    <3>1. (p \o q)[1] = r[1] /\ (p \o q)[2] = r[2]
        BY <1>5, <1>6, <2>1
    <3>2. 1 .. 2 = {1, 2}
        OBVIOUS
    <3> QED
        BY <3>1, <3>2
  <2> QED
      BY <1>6, <2>1, <2>2, SeqEqual
<1>8. <<h, b>> \in Seq(Response) /\ Bytes(<<h, b>>, s) = Bytes(<<h>>, s) \o Bytes(<<b>>, s)
  <2>1. Bytes(p \o q, s) = Bytes(p, s) \o Bytes(q, s)
      BY <1>5, BytesConcat
  <2> QED
      BY <1>4, <1>6, <1>7, <2>1, Zenon
<1>9. \A x \in Seq(Nat) : <<>> \o x = x
    BY ConcatEmptySeq
<1>10. <<>> \in Seq(Nat)
    OBVIOUS
<1> QED
    BY <1>1, <1>2, <1>3, <1>8, <1>9, <1>10

\* A side keeps its part of the invariant when nothing is added to its body and
\* what the invariant compares it with stays, ...
LEMMA RequestKept ==
    ASSUME RequestInv, UNCHANGED <<reqBytes, reqWire>>,
           reqCtx'.Request.bodyMutated = reqCtx.Request.bodyMutated,
           LastOf(answers', "request") # {} =>
              /\ LastOf(answers, "request") # {}
              /\ Bytes(answers', "request") = Bytes(answers, "request")
              /\ \A wire : Lengths(answers', "request", wire) \subseteq Lengths(answers, "request", wire)
    PROVE  RequestInv'
BY BodyPrimed DEF RequestInv, RequestWhole

\* RequestKept, for the response.
LEMMA ResponseKept ==
    ASSUME ResponseInv, UNCHANGED <<respBytes, respWire>>, reqCtx'.Profile = reqCtx.Profile,
           LastOf(answers', "response") # {} =>
              /\ LastOf(answers, "response") # {}
              /\ Bytes(answers', "response") = Bytes(answers, "response")
              /\ \A wire : Lengths(answers', "response", wire) \subseteq Lengths(answers, "response", wire)
    PROVE  ResponseInv'
BY BodyPrimed DEF ResponseInv, ResponseWhole

\* ... and so do the buffers.
LEMMA RunningKept ==
    ASSUME RunningInv, status' = "running" => status = "running",
           UNCHANGED <<reqBytes, respBytes, bodyVars>>, reqCtx'.Profile = reqCtx.Profile,
           respSide' = "idle" => respSide = "idle",
           respSide' \in {"idle", "open"} => respSide \in {"idle", "open"},
           status' = "running" => Bytes(answers', "response") = Bytes(answers, "response")
    PROVE  RunningInv'
BY BodyPrimed DEF RunningInv, BuffersHeld, StreamedSoFar, bodyVars

\* The profile of a stream changes only to a loaded one.
LEMMA ProfileKept ==
    ASSUME ProfileInv, UNCHANGED postProcessors,
           reqCtx'.Profile = reqCtx.Profile \/ reqCtx'.Profile \in profiles
    PROVE  ProfileInv'
<1>1. profiles' = profiles
    BY DEF profiles
<1> QED
    BY <1>1, BodyPrimed DEF ProfileInv

\* A message that is answered with no part of a body, when nothing the invariant
\* speaks of changes.
LEMMA QuietBodies ==
    ASSUME StreamInv, BodyInv, Ready, UNCHANGED <<out, postProcessors, reqBytes, respBytes, bodyVars>>,
           pending' \in Seq(Response),
           \A s : BodyOf(pending', s) = {} /\ HeadersOf(pending', s) = {},
           UNCHANGED <<reqWire, respWire>>,
           reqCtx'.Request.bodyMutated = reqCtx.Request.bodyMutated,
           reqCtx'.Profile = reqCtx.Profile,
           respSide' = "idle" => respSide = "idle",
           respSide' \in {"idle", "open"} => respSide \in {"idle", "open"}
    PROVE  BodyInv'
<1>1. ServerTypeOK /\ status = "running" /\ ProfileInv /\ RunningInv /\ RequestInv /\ ResponseInv
    BY TypeHalves DEF StreamInv, BodyInv, Ready
<1>2. \A s : /\ Bytes(answers', s) = Bytes(answers, s)
             /\ LastOf(answers', s) = {} <=> LastOf(answers, s) = {}
             /\ \A wire : Lengths(answers', s, wire) = Lengths(answers, s, wire)
    BY <1>1, SideQuiet
<1>3. ProfileInv'
    BY <1>1, ProfileKept
<1>4. RequestInv'
    BY <1>1, <1>2, RequestKept
<1>5. ResponseInv'
    BY <1>1, <1>2, ResponseKept
<1>6. RunningInv'
    BY <1>1, <1>2, RunningKept
<1> QED
    BY <1>3, <1>4, <1>5, <1>6 DEF BodyInv

\* The request's headers: nothing of its body has been answered (RecvRequestHeaders).
LEMMA RequestHeadersBodies ==
    ASSUME StreamInv, StreamInv', AnswersInv, BodyInv, RecvRequestHeaders
    PROVE  BodyInv'
<1>1. /\ ServerTypeOK /\ ServerTypeOK' /\ OrderInv /\ Ready /\ status = "running" /\ reqSide = "idle"
      /\ ProfileInv /\ RunningInv /\ RequestInv /\ ResponseInv /\ "request" \in Sides
    BY TypeHalves DEF StreamInv, AnswersInv, BodyInv, Ready, RecvRequestHeaders, Sides
<1>2. PICK headers \in WireHeaders, eos \in BOOLEAN : HandleRequestHeaders(headers, eos)
    BY DEF RecvRequestHeaders
<1>3. /\ UNCHANGED <<out, status, postProcessors, respSide, respWire, reqBytes, respBytes, bodyVars>>
      /\ pending' = IF eos THEN <<HeadersResponse("request", newInferenceMessage)>> ELSE <<>>
      /\ reqCtx' = [reqCtx EXCEPT !.Request.Headers = headers]
    BY <1>2 DEF RecvRequestHeaders, HandleRequestHeaders, Answer, doneVars
<1>4. reqCtx'.Profile = reqCtx.Profile
    BY <1>1, <1>3 DEF ServerTypeOK, RequestContext
<1>5. pending' \in Seq(Response)
    BY <1>1 DEF ServerTypeOK
<1>6. \A s : BodyOf(pending', s) = {} /\ (s # "request" => HeadersOf(pending', s) = {})
  <2>1. CASE eos
      BY <1>1, <1>3, <2>1, HeaderParts
  <2>2. CASE ~eos
      BY <1>3, <2>2 DEF BodyOf, HeadersOf
  <2> QED
      BY <2>1, <2>2
<1>7. \A s : /\ Bytes(answers', s) = Bytes(answers, s)
             /\ LastOf(answers', s) = {} <=> LastOf(answers, s) = {}
             /\ s # "request" => \A wire : Lengths(answers', s, wire) = Lengths(answers, s, wire)
    BY <1>1, <1>3, <1>5, <1>6, SideQuiet
<1>8. LastOf(answers, "request") = {}
    BY <1>1, NoAnswerYet DEF OrderInv
<1>9. ProfileInv'
    BY <1>1, <1>3, <1>4, ProfileKept
<1>10. RequestInv'
    BY <1>7, <1>8, BodyPrimed
<1>11. ResponseInv'
    BY <1>1, <1>3, <1>4, <1>7, ResponseKept
<1>12. RunningInv'
    BY <1>1, <1>3, <1>4, <1>7, RunningKept
<1> QED
    BY <1>9, <1>10, <1>11, <1>12 DEF BodyInv

\* The response's headers, likewise (RecvResponseHeaders).
LEMMA ResponseHeadersBodies ==
    ASSUME StreamInv, StreamInv', AnswersInv, BodyInv, RecvResponseHeaders
    PROVE  BodyInv'
<1>1. /\ ServerTypeOK /\ ServerTypeOK' /\ OrderInv /\ Ready /\ status = "running" /\ respSide = "idle"
      /\ ProfileInv /\ RunningInv /\ RequestInv /\ ResponseInv /\ "response" \in Sides
    BY TypeHalves DEF StreamInv, AnswersInv, BodyInv, Ready, RecvResponseHeaders, Sides
<1>2. PICK headers \in WireHeaders, eos \in BOOLEAN : HandleResponseHeaders(headers, eos)
    BY DEF RecvResponseHeaders
<1>3. UNCHANGED <<out, postProcessors, reqWire, reqBytes, respBytes, bodyVars>>
    BY <1>2 DEF RecvResponseHeaders, HandleResponseHeaders, doneVars
<1>4. reqCtx'.Profile = reqCtx.Profile /\ reqCtx'.Request = reqCtx.Request
    BY <1>1, <1>2 DEF HandleResponseHeaders, ServerTypeOK, RequestContext
<1>5. pending' \in Seq(Response)
    BY <1>1 DEF ServerTypeOK
<1>6. \A s : BodyOf(pending', s) = {} /\ (s # "response" => HeadersOf(pending', s) = {})
  <2>1. ASSUME NEW m, pending' = <<HeadersResponse("response", m)>>
        PROVE  \A s : BodyOf(pending', s) = {} /\ (s # "response" => HeadersOf(pending', s) = {})
      BY <1>1, <2>1, HeaderParts
  <2>2. CASE pending' = <<>>
      BY <2>2 DEF BodyOf, HeadersOf
  <2>3. CASE pending' = <<ImmediateResponse>>
      BY <2>3, ErrorParts
  <2>4. \/ \E m : pending' = <<HeadersResponse("response", m)>>
        \/ pending' = <<>> \/ pending' = <<ImmediateResponse>>
      BY <1>2 DEF HandleResponseHeaders, Answer, BuildErrResponse
  <2> QED
      BY <2>1, <2>2, <2>3, <2>4
<1>7. \A s : /\ Bytes(answers', s) = Bytes(answers, s)
             /\ LastOf(answers', s) = {} <=> LastOf(answers, s) = {}
             /\ s # "response" => \A wire : Lengths(answers', s, wire) = Lengths(answers, s, wire)
    BY <1>1, <1>3, <1>5, <1>6, SideQuiet
<1>8. LastOf(answers, "response") = {}
    BY <1>1 DEF OrderInv
<1>9. ProfileInv'
    BY <1>1, <1>3, <1>4, ProfileKept
<1>10. RequestInv'
    BY <1>1, <1>3, <1>4, <1>7, RequestKept
<1>11. ResponseInv'
    BY <1>7, <1>8, BodyPrimed
<1>12. RunningInv'
    BY <1>1, <1>3, <1>4, <1>7, RunningKept
<1> QED
    BY <1>9, <1>10, <1>11, <1>12 DEF BodyInv

\* A message that is answered with an error: the body it was part of has no end.
LEMMA FailedBodies ==
    ASSUME StreamInv, StreamInv', BodyInv, Ready, Failed, UNCHANGED <<out, postProcessors, reqWire, respWire>>,
           LastOf(answers, "request") = {} \/ UNCHANGED reqBytes,
           LastOf(answers, "response") = {} \/ UNCHANGED respBytes
    PROVE  BodyInv'
<1>1. ServerTypeOK /\ ProfileInv /\ RunningInv /\ RequestInv /\ ResponseInv
    BY TypeHalves DEF StreamInv, BodyInv
<1>2. /\ pending' = <<ImmediateResponse>> \/ pending' = <<>>
      /\ status' # "running" /\ reqCtx'.Request = reqCtx.Request /\ reqCtx'.Profile = reqCtx.Profile
    BY DEF Failed
<1>3. pending' \in Seq(Response)
    BY TypeHalves DEF StreamInv, ServerTypeOK
<1>4. \A s : BodyOf(pending', s) = {} /\ HeadersOf(pending', s) = {}
  <2>1. CASE pending' = <<>>
      BY <2>1 DEF BodyOf, HeadersOf
  <2>2. CASE pending' = <<ImmediateResponse>>
      BY <2>2, ErrorParts
  <2> QED
      BY <1>2, <2>1, <2>2
<1>5. \A s : /\ Bytes(answers', s) = Bytes(answers, s)
             /\ LastOf(answers', s) = {} <=> LastOf(answers, s) = {}
             /\ \A wire : Lengths(answers', s, wire) = Lengths(answers, s, wire)
    BY <1>1, <1>3, <1>4, SideQuiet
<1>6. ProfileInv'
    BY <1>1, <1>2, ProfileKept
<1>7. RequestInv'
  <2>1. CASE LastOf(answers, "request") = {}
      BY <1>5, <2>1, BodyPrimed
  <2>2. CASE UNCHANGED reqBytes
      BY <1>1, <1>2, <1>5, <2>2, RequestKept
  <2> QED
      BY <2>1, <2>2
<1>8. ResponseInv'
  <2>1. CASE LastOf(answers, "response") = {}
      BY <1>5, <2>1, BodyPrimed
  <2>2. CASE UNCHANGED respBytes
      BY <1>1, <1>2, <1>5, <2>2, ResponseKept
  <2> QED
      BY <2>1, <2>2
<1>9. RunningInv'
    BY <1>2, BodyPrimed
<1> QED
    BY <1>6, <1>7, <1>8, <1>9 DEF BodyInv

\* A chunk of the request's body is buffered; with the last one the whole body is
\* answered, before anything of the response (RecvRequestBody).
LEMMA RequestBodyBodies ==
    ASSUME StreamInv, StreamInv', AnswersInv, BodyInv, RecvRequestBody
    PROVE  BodyInv'
<1>1. /\ ProxyTypeOK /\ ServerTypeOK /\ ServerTypeOK' /\ OrderInv /\ ViewInv /\ BufferAccounted
      /\ Ready /\ status = "running" /\ reqSide = "open" /\ respSide = "idle"
      /\ ProfileInv /\ RunningInv /\ RequestInv /\ ResponseInv
    BY TypeHalves DEF StreamInv, AnswersInv, BodyInv, Ready, RecvRequestBody
<1>2. PICK n \in 0 .. (MaxBody - reqBytes), eos \in BOOLEAN :
          /\ reqBytes' = reqBytes + n
          /\ RequestBody(WireBytes(reqBytes, n), eos)
    BY DEF RecvRequestBody
<1>3. reqBytes \in Nat /\ n \in Nat /\ reqBytes + n <= MaxBody
    BY <1>1, StreamAssumption DEF ProxyTypeOK
<1>4. PICK chunk : chunk = WireBytes(reqBytes, n)
    OBVIOUS
<1>5. chunk \in Seq(Nat) /\ Len(chunk) = n
    BY <1>3, <1>4, WireBytesType
<1>6. UNCHANGED <<reqWire, respWire, respSide, respBytes>>
    BY DEF RecvRequestBody
<1>7. pending' \in Seq(Response) /\ "request" \in Sides /\ "response" \in Sides
    BY <1>1 DEF ServerTypeOK, Sides
<1>8. /\ HeadersOf(answers, "request") = {} /\ HeadersOf(answers, "response") = {} /\ Ordered(answers)
      /\ LastOf(answers, "response") = {}
    BY <1>1 DEF OrderInv
<1>9. /\ Bytes(answers, "request") = <<>> /\ LastOf(answers, "request") = {}
      /\ \A wire : Lengths(answers, "request", wire) = {}
      /\ Bytes(answers, "response") = <<>>
    BY <1>1, <1>7, <1>8, NoAnswerYet
<1>10. /\ ~requestBodyComplete => requestBody = WireBytes(0, reqBytes)
       /\ ~responseBodyComplete /\ respBytes = 0 /\ responseBody = <<>>
    BY <1>1 DEF RunningInv, BuffersHeld
<1>11. WireBytes(0, 0) = <<>>
    BY DEF WireBytes
<1>12. ~requestBodyComplete => requestBody \o chunk = WireBytes(0, reqBytes + n)
    BY <1>3, <1>4, <1>10, WireConcat
<1>13. CASE HandleRequestBodyFails
  <2>1. Failed /\ UNCHANGED <<out, postProcessors>>
      BY <1>13 DEF HandleRequestBodyFails, BuildErrResponse, Failed, doneVars
  <2> QED
      BY <1>1, <1>6, <1>8, <1>9, <2>1, FailedBodies
<1>14. ASSUME UNCHANGED <<out, status, postProcessors, responseBody, responseBodyComplete>>,
              BodyOf(pending', "response") = {},
              ~requestBodyComplete' => requestBody' = WireBytes(0, reqBytes'),
              reqCtx'.Profile = reqCtx.Profile \/ reqCtx'.Profile \in profiles
       PROVE  ProfileInv' /\ RunningInv' /\ ResponseInv'
  <2>1. /\ Bytes(answers', "response") = <<>> /\ LastOf(answers', "response") = {}
      BY <1>1, <1>7, <1>8, <1>9, <1>14, SideQuiet
  <2>2. ProfileInv'
      BY <1>1, <1>14, ProfileKept
  <2>3. RunningInv'
      BY <1>6, <1>10, <1>11, <1>14, <2>1, BodyPrimed
  <2>4. ResponseInv'
      BY <2>1, BodyPrimed
  <2> QED
      BY <2>2, <2>3, <2>4
<1>15. CASE Answer(<<>>) /\ UNCHANGED <<postProcessors, reqCtx, doneVars, responseBody, responseBodyComplete>>
           /\ (~requestBodyComplete' => requestBody' = WireBytes(0, reqBytes'))
  <2>1. UNCHANGED <<out, status>> /\ pending' = <<>>
      BY <1>15 DEF Answer, doneVars
  <2>2. BodyOf(pending', "response") = {} /\ BodyOf(pending', "request") = {}
      BY <2>1 DEF BodyOf
  <2>3. ProfileInv' /\ RunningInv' /\ ResponseInv'
      BY <1>14, <1>15, <2>1, <2>2
  <2>4. LastOf(answers', "request") = {}
      BY <1>1, <1>7, <1>9, <2>1, <2>2, SideQuiet
  <2>5. RequestInv'
      BY <2>4, BodyPrimed
  <2> QED
      BY <2>3, <2>5 DEF BodyInv
<1>16. CASE /\ ~requestBodyComplete /\ requestBody' = requestBody \o chunk /\ requestBodyComplete' = TRUE
            /\ UNCHANGED <<responseBody, responseBodyComplete>> /\ HandleRequestBody(requestBody')
  <2>1. PICK bytes : bytes = requestBody'
      OBVIOUS
  <2>2. bytes = WireBytes(0, reqBytes') /\ reqBytes' \in Nat /\ reqBytes' <= MaxBody
      BY <1>2, <1>3, <1>12, <1>16, <2>1
  <2>3. bytes \in Seq(Nat) /\ Len(bytes) <= MaxBody
      BY <2>2, WireBytesType
  <2>4. reqWire \in HeaderMap /\ View(reqCtx.Request, reqWire) = reqCtx.Request.Headers
      BY <1>1 DEF ProxyTypeOK, ViewInv
  <2>5. PICK m \in Message, sent \in Seq(Nat) :
              /\ reqCtx'.Request = m /\ reqCtx'.Profile \in profiles
              /\ pending' = <<HeadersResponse("request", m)>> \o StreamedBody("request", sent)
              /\ UNCHANGED <<status, postProcessors, out>>
              /\ View(m, reqWire) = m.Headers /\ m.Headers[ContentLength] = Len(sent)
              /\ IF m.bodyMutated THEN Rewritten(sent) ELSE sent = bytes
      BY <1>1, <1>16, <2>1, <2>3, <2>4, RequestAnswer
  <2>6. Bytes(pending', "request") = sent /\ Lengths(pending', "request", reqWire) = {Len(sent)}
    <3>1. /\ Bytes(pending', "request") = sent
          /\ Lengths(pending', "request", reqWire) = {View(m, reqWire)[ContentLength]}
        BY <1>7, <2>5, WholeBytes, WholeLengths
    <3> QED
        BY <2>5, <3>1
  <2>7. BodyOf(pending', "response") = {}
      BY <1>7, <2>5, WholeParts
  <2>8. ProfileInv' /\ RunningInv' /\ ResponseInv'
      BY <1>14, <1>16, <2>5, <2>7
  <2>9. /\ Bytes(answers', "request") = <<>> \o sent
        /\ Lengths(answers', "request", reqWire) = {Len(sent)}
    <3>1. /\ Bytes(answers', "request") = Bytes(answers, "request") \o Bytes(pending', "request")
          /\ Lengths(answers', "request", reqWire)
                = Lengths(answers, "request", reqWire) \cup Lengths(pending', "request", reqWire)
        BY <1>1, <1>7, <2>5, NewBytes
    <3> QED
        BY <1>9, <2>6, <3>1
  <2>10. <<>> \o sent = sent
      BY ConcatEmptySeq
  <2>11. sent \in IF m.bodyMutated THEN PluginBodies ELSE {bytes}
    <3>1. Rewritten(sent) <=> sent \in PluginBodies
        BY RewrittenIsPlugins
    <3> QED
        BY <2>5, <3>1, Zenon
  <2>12. RequestInv'
      BY <1>6, <2>2, <2>5, <2>9, <2>10, <2>11, BodyPrimed
  <2> QED
      BY <2>8, <2>12 DEF BodyInv
<1>17. CASE requestBodyComplete /\ Answer(<<>>) /\ UNCHANGED <<postProcessors, reqCtx, bodyVars, doneVars>>
    BY <1>15, <1>17 DEF bodyVars
<1>18. CASE /\ ~requestBodyComplete /\ requestBody' = requestBody \o chunk /\ ~eos /\ Answer(<<>>)
            /\ UNCHANGED <<postProcessors, reqCtx, doneVars, responseBody, responseBodyComplete>>
  <2>1. requestBody' = WireBytes(0, reqBytes')
      BY <1>2, <1>12, <1>18
  <2> QED
      BY <1>15, <1>18, <2>1
<1> QED
    BY <1>2, <1>4, <1>13, <1>16, <1>17, <1>18 DEF RequestBody

\* One streamed chunk, with the header answer or without it.
LEMMA ChunkBytes ==
    ASSUME NEW m \in Message, NEW sent \in Seq(Nat), NEW eos \in BOOLEAN, NEW first, NEW p,
           p = IF first THEN <<BodyResponse("response", [body |-> sent, eos |-> eos])>>
               ELSE <<HeadersResponse("response", m),
                      BodyResponse("response", [body |-> sent, eos |-> eos])>>
    PROVE  /\ Bytes(p, "response") = sent
           /\ BodyOf(p, "request") = {} /\ HeadersOf(p, "request") = {}
<1> DEFINE h == HeadersResponse("response", m)
           b == BodyResponse("response", [body |-> sent, eos |-> eos])
<1>1. "response" \in Sides /\ "request" # "response"
    BY DEF Sides
<1>2. CASE p = <<b>>
  <2>1. Bytes(<<b>>, "response") = sent
      BY <1>1, SingleBytes
  <2>2. BodyOf(<<b>>, "request") = {} /\ HeadersOf(<<b>>, "request") = {}
    <3>1. PICK c : c = [body |-> sent, eos |-> eos]
        OBVIOUS
    <3>2. c.eos \in BOOLEAN
        BY <3>1
    <3>3. /\ BodyOf(<<BodyResponse("response", c)>>, "request") = {}
          /\ HeadersOf(<<BodyResponse("response", c)>>, "request") = {}
        BY <1>1, <3>2, ChunkParts
    <3> QED
        BY <3>1, <3>3
  <2> HIDE DEF b
  <2> QED
      BY <1>2, <2>1, <2>2
<1>3. CASE p = <<h, b>>
  <2>1. Bytes(<<h, b>>, "response") = sent
      BY <1>1, FirstChunkBytes
  <2>2. h.kind = "headers" /\ h.side = "response" /\ b.kind = "body" /\ b.side = "response" /\ b.eos = eos
      BY DEF HeadersResponse, BodyResponse
  <2> HIDE DEF h, b
  <2>3. BodyOf(<<h, b>>, "request") = {} /\ HeadersOf(<<h, b>>, "request") = {}
      BY <1>1, <2>2, FirstChunkParts
  <2> QED
      BY <1>3, <2>1, <2>3
<1>4. p = <<b>> \/ p = <<h, b>>
    OBVIOUS
<1> QED
    BY <1>2, <1>3, <1>4

\* A chunk of the response's body: a buffered body is answered as a whole with the
\* last chunk, another chunk by chunk (RecvResponseBody).
LEMMA ResponseBodyBodies ==
    ASSUME StreamInv, StreamInv', AnswersInv, BodyInv, RecvResponseBody
    PROVE  BodyInv'
<1>1. /\ ProxyTypeOK /\ ServerTypeOK /\ ServerTypeOK' /\ OrderInv /\ ViewInv
      /\ Ready /\ status = "running" /\ respSide = "open"
      /\ ProfileInv /\ RunningInv /\ RequestInv /\ ResponseInv
    BY TypeHalves DEF StreamInv, AnswersInv, BodyInv, Ready, RecvResponseBody
<1>2. PICK n \in 0 .. (MaxBody - respBytes), eos \in BOOLEAN :
          /\ respBytes' = respBytes + n
          /\ respSide' = IF eos THEN "ended" ELSE "open"
          /\ ResponseBody(WireBytes(respBytes, n), eos)
    BY DEF RecvResponseBody
<1>3. respBytes \in Nat /\ n \in Nat
    BY <1>1, StreamAssumption DEF ProxyTypeOK
<1>4. PICK chunk : chunk = WireBytes(respBytes, n)
    OBVIOUS
<1>5. chunk \in Seq(Nat)
    BY <1>3, <1>4, WireBytesType
<1>6. pending' \in Seq(Response) /\ "request" \in Sides /\ "response" \in Sides
    BY <1>1 DEF ServerTypeOK, Sides
<1>7. LastOf(answers, "response") = {}
    BY <1>1 DEF OrderInv
<1>8. /\ ~responseBodyComplete /\ Ordered(answers)
      /\ ~requestBodyComplete => requestBody = WireBytes(0, reqBytes)
    BY <1>1 DEF RunningInv, BuffersHeld, OrderInv
<1>9. /\ UNCHANGED <<reqWire, respWire, reqBytes, out, postProcessors, requestBody, requestBodyComplete>>
      /\ responseBodyComplete' = eos
    BY <1>2, <1>8 DEF RecvResponseBody, ResponseBody
<1>10. respWire \in HeaderMap /\ View(reqCtx.Response, respWire) = reqCtx.Response.Headers
    BY <1>1 DEF ProxyTypeOK, ViewInv
<1>11. CASE Failed
    BY <1>1, <1>7, <1>9, <1>11, FailedBodies
<1>12. ASSUME reqCtx'.Request = reqCtx.Request, reqCtx'.Profile = reqCtx.Profile,
              BodyOf(pending', "request") = {}, HeadersOf(pending', "request") = {}
       PROVE  ProfileInv' /\ RequestInv'
  <2>1. /\ Bytes(answers', "request") = Bytes(answers, "request")
        /\ LastOf(answers', "request") = {} <=> LastOf(answers, "request") = {}
        /\ \A wire : Lengths(answers', "request", wire) = Lengths(answers, "request", wire)
      BY <1>1, <1>6, <1>9, <1>12, SideQuiet
  <2>2. ProfileInv'
      BY <1>1, <1>9, <1>12, ProfileKept
  <2>3. RequestInv'
      BY <1>1, <1>9, <1>12, <2>1, RequestKept
  <2> QED
      BY <2>2, <2>3
<1>13. reqCtx.Profile.NeedsResponseBuffering => responseBody \o chunk = WireBytes(0, respBytes')
  <2>1. reqCtx.Profile.NeedsResponseBuffering => responseBody = WireBytes(0, respBytes)
      BY <1>1, <1>8 DEF RunningInv, BuffersHeld
  <2>2. WireBytes(0, respBytes) \o chunk = WireBytes(0, respBytes + n)
      BY <1>3, <1>4, WireConcat
  <2> QED
      BY <1>2, <2>1, <2>2
<1>14. CASE /\ reqCtx.Profile.NeedsResponseBuffering /\ ~eos /\ responseBody' = responseBody \o chunk
            /\ reqCtx' = [reqCtx EXCEPT !.ResponseStarted = TRUE] /\ Answer(<<>>)
  <2>1. pending' = <<>> /\ UNCHANGED status
      BY <1>14 DEF Answer
  <2>2. reqCtx'.Request = reqCtx.Request /\ reqCtx'.Profile = reqCtx.Profile
      BY <1>1, <1>14 DEF ServerTypeOK, RequestContext
  <2>3. \A s : BodyOf(pending', s) = {} /\ HeadersOf(pending', s) = {}
      BY <2>1 DEF BodyOf, HeadersOf
  <2>4. LastOf(answers', "response") = {}
      BY <1>1, <1>6, <1>7, <1>9, <2>3, SideQuiet
  <2>5. ProfileInv' /\ RequestInv'
      BY <1>12, <2>2, <2>3
  <2>6. ResponseInv'
      BY <2>4, BodyPrimed
  <2>7. RunningInv'
    <3>1. responseBody' = WireBytes(0, respBytes') /\ responseBodyComplete' = FALSE
        BY <1>9, <1>13, <1>14
    <3>2. respSide' = "open" /\ reqCtx'.Profile.NeedsResponseBuffering
        BY <1>2, <1>14, <2>2
    <3> QED
        BY <1>8, <1>9, <3>1, <3>2, BodyPrimed
  <2> QED
      BY <2>5, <2>6, <2>7 DEF BodyInv
<1>15. CASE /\ reqCtx.Profile.NeedsResponseBuffering /\ eos
            /\ responseBody' = responseBody \o chunk /\ HandleResponseBody(responseBody')
  <2>1. PICK bytes : bytes = responseBody'
      OBVIOUS
  <2>2. bytes = WireBytes(0, respBytes') /\ bytes \in Seq(Nat)
      BY <1>1, <1>13, <1>15, <2>1 DEF ServerTypeOK
  <2>3. \/ \E m \in Message, sent \in Seq(Nat) :
                 /\ reqCtx'.Request = reqCtx.Request
                 /\ reqCtx'.Profile = reqCtx.Profile
                 /\ pending' = <<HeadersResponse("response", m)>> \o StreamedBody("response", sent)
                 /\ View(m, respWire) = m.Headers
                 /\ sent = bytes \/ (Rewritten(sent) /\ m.Headers[ContentLength] = Len(sent))
        \/ Failed
      BY <1>1, <1>10, <1>15, <2>1, <2>2, ResponseAnswer
  <2>4. ASSUME NEW m \in Message, NEW sent \in Seq(Nat),
                 reqCtx'.Request = reqCtx.Request,
                 reqCtx'.Profile = reqCtx.Profile,
                 pending' = <<HeadersResponse("response", m)>> \o StreamedBody("response", sent),
                 View(m, respWire) = m.Headers,
                 sent = bytes \/ (Rewritten(sent) /\ m.Headers[ContentLength] = Len(sent))
        PROVE  BodyInv'
    <3>1. HeadersOf(answers, "response") = {}
        BY <1>1, <1>15 DEF OrderInv
    <3>2. Bytes(answers, "response") = <<>> /\ \A wire : Lengths(answers, "response", wire) = {}
        BY <1>1, <1>6, <1>8, <3>1, NoAnswerYet
    <3>3. /\ Bytes(pending', "response") = sent
          /\ Lengths(pending', "response", respWire) = {View(m, respWire)[ContentLength]}
        BY <1>6, <2>4, WholeBytes, WholeLengths
    <3>4. BodyOf(pending', "request") = {} /\ HeadersOf(pending', "request") = {}
        BY <1>6, <2>4, WholeParts
    <3>5. ProfileInv' /\ RequestInv'
        BY <1>12, <2>4, <3>4
    <3>6. /\ Bytes(answers', "response") = <<>> \o sent
          /\ Lengths(answers', "response", respWire) = {m.Headers[ContentLength]}
      <4>1. /\ Bytes(answers', "response") = Bytes(answers, "response") \o Bytes(pending', "response")
            /\ Lengths(answers', "response", respWire)
                 = Lengths(answers, "response", respWire) \cup Lengths(pending', "response", respWire)
          BY <1>1, <1>6, <1>9, NewBytes
      <4> QED
          BY <2>4, <3>2, <3>3, <4>1
    <3>7. <<>> \o sent = sent
        BY ConcatEmptySeq
    <3>8. ResponseInv'
      <4>1. CASE sent = bytes
          BY <2>2, <3>6, <3>7, <4>1, BodyPrimed
      <4>2. CASE Rewritten(sent) /\ m.Headers[ContentLength] = Len(sent)
        <5>1. sent \in PluginBodies
            BY <4>2, RewrittenIsPlugins
        <5>2. /\ Bytes(answers', "response") \in PluginBodies /\ reqCtx'.Profile.NeedsResponseBuffering
              /\ Lengths(answers', "response", respWire') \subseteq {Len(Bytes(answers', "response"))}
            BY <1>9, <1>15, <2>4, <3>6, <3>7, <4>2, <5>1
        <5> QED
            BY <5>2, BodyPrimed
      <4> QED
          BY <2>4, <4>1, <4>2
    <3>9. RunningInv'
        BY <1>2, <1>8, <1>9, <1>15, BodyPrimed
    <3> QED
        BY <3>5, <3>8, <3>9 DEF BodyInv
  <2> QED
      BY <1>11, <2>3, <2>4
<1>16. CASE /\ ~reqCtx.Profile.NeedsResponseBuffering /\ HandleResponseChunk(chunk, eos)
            /\ UNCHANGED responseBody
  <2>1. \/ \E m \in Message, sent \in Seq(Nat) :
                 /\ reqCtx'.Request = reqCtx.Request /\ reqCtx'.Profile = reqCtx.Profile
                 /\ pending' = IF reqCtx.ResponseHeadersSent
                               THEN <<BodyResponse("response", [body |-> sent, eos |-> eos])>>
                               ELSE <<HeadersResponse("response", m),
                                      BodyResponse("response", [body |-> sent, eos |-> eos])>>
                 /\ sent = chunk \/ (reqCtx.Profile.ResponseChunkProcessors /\ Rewritten(sent))
        \/ Failed
      BY <1>1, <1>5, <1>10, <1>16, ChunkAnswer
  <2>2. ASSUME NEW m \in Message, NEW sent \in Seq(Nat),
               reqCtx'.Request = reqCtx.Request, reqCtx'.Profile = reqCtx.Profile,
               pending' = IF reqCtx.ResponseHeadersSent
                          THEN <<BodyResponse("response", [body |-> sent, eos |-> eos])>>
                          ELSE <<HeadersResponse("response", m),
                                 BodyResponse("response", [body |-> sent, eos |-> eos])>>,
               sent = chunk \/ (reqCtx.Profile.ResponseChunkProcessors /\ Rewritten(sent))
        PROVE  BodyInv'
    <3>1. /\ Bytes(pending', "response") = sent
          /\ BodyOf(pending', "request") = {} /\ HeadersOf(pending', "request") = {}
        BY <1>6, <2>2, ChunkBytes
    <3>2. ProfileInv' /\ RequestInv'
        BY <1>12, <2>2, <3>1
    <3>3. PICK b : b = Bytes(answers, "response")
        OBVIOUS
    <3>4. Bytes(answers', "response") = b \o sent
        BY <1>1, <1>6, <1>9, <3>1, <3>3, NewBytes
    <3>5. \/ b = WireBytes(0, respBytes)
          \/ reqCtx.Profile.ResponseChunkProcessors /\ b \in InOrder(respBytes)
        BY <1>1, <1>16, <3>3 DEF RunningInv, StreamedSoFar
    <3>6. \/ b \o sent = WireBytes(0, respBytes')
          \/ reqCtx.Profile.ResponseChunkProcessors /\ b \o sent \in InOrder(respBytes')
      <4>1. CASE sent = chunk /\ b = WireBytes(0, respBytes)
          BY <1>2, <1>3, <1>4, <4>1, WireConcat
      <4>2. CASE reqCtx.Profile.ResponseChunkProcessors
        <5>1. sent \in PluginBodies \cup {WireBytes(respBytes, n)}
            BY <1>4, <2>2, RewrittenIsPlugins
        <5>2. b \in InOrder(respBytes)
            BY <1>3, <3>5, WireInOrder
        <5>3. b \o sent \in InOrder(respBytes + n)
            BY <1>3, <5>1, <5>2, OrderGrows
        <5> QED
            BY <1>2, <4>2, <5>3
      <4> QED
          BY <2>2, <3>5, <4>1, <4>2
    <3>7. ResponseInv'
        BY <2>2, <3>4, <3>6, BodyPrimed
    <3>8. RunningInv'
      <4>1. ~reqCtx'.Profile.NeedsResponseBuffering /\ respSide' # "idle"
          BY <1>2, <1>16, <2>2
      <4>2. respSide' \in {"idle", "open"} => ~responseBodyComplete'
          BY <1>2, <1>9
      <4> QED
          BY <1>8, <1>9, <2>2, <3>4, <3>6, <4>1, <4>2, BodyPrimed
    <3> QED
        BY <3>2, <3>7, <3>8 DEF BodyInv
  <2> QED
      BY <1>11, <2>1, <2>2
<1> QED
    BY <1>2, <1>4, <1>8, <1>14, <1>15, <1>16 DEF ResponseBody

\* A body that was sent to its end is all that was answered of it.
LEMMA SentWhole ==
    ASSUME NEW q \in Seq(Response), NEW p \in Seq(Response), Ordered(q \o p),
           NEW s \in Sides, LastOf(q, s) # {}
    PROVE  /\ Bytes(q, s) = Bytes(q \o p, s) /\ LastOf(q \o p, s) # {}
           /\ \A wire : Lengths(q, s, wire) \subseteq Lengths(q \o p, s, wire)
<1>1. /\ BodyOf(q \o p, s) = BodyOf(q, s) \cup {Len(q) + i : i \in BodyOf(p, s)}
      /\ LastOf(q \o p, s) = LastOf(q, s) \cup {Len(q) + i : i \in LastOf(p, s)}
    BY ConcatParts
<1>2. PICK i \in LastOf(q, s) : TRUE
    OBVIOUS
<1>3. /\ i \in 1 .. Len(q) /\ Len(q) \in Nat /\ BodyOf(p, s) \subseteq 1 .. Len(p) /\ Len(p) \in Nat
    BY <1>2, Places
<1>4. BodyOf(p, s) = {}
  <2> SUFFICES ASSUME NEW j \in BodyOf(p, s) PROVE FALSE
      OBVIOUS
  <2>1. Len(q) + j \in BodyOf(q \o p, s) /\ i \in LastOf(q \o p, s)
      BY <1>1, <1>2
  <2>2. Len(q) + j <= i
      BY <2>1 DEF Ordered
  <2> QED
      BY <1>3, <2>2
<1>5. Bytes(q, s) \in Seq(Nat) /\ Bytes(q \o p, s) = Bytes(q, s) \o Bytes(p, s) /\ Bytes(p, s) = <<>>
    BY <1>4, BytesType, BytesConcat, NoBytes
<1>6. \A b \in Seq(Nat) : b \o <<>> = b
    BY ConcatEmptySeq
<1>7. \A wire : Lengths(q \o p, s, wire) = Lengths(q, s, wire) \cup Lengths(p, s, wire)
    BY LengthsConcat
<1> QED
    BY <1>1, <1>2, <1>5, <1>6, <1>7

\* Initially nothing has come and nothing has been answered.
LEMMA BodiesInit == Init => BodyInv
<1> SUFFICES ASSUME Init PROVE BodyInv
    OBVIOUS
<1>1. answers = <<>>
    BY DEF Init, answers
<1>2. \A s : LastOf(answers, s) = {} /\ BodyOf(answers, s) = {}
    BY <1>1 DEF BodyOf, LastOf
<1>3. Bytes(answers, "response") = <<>>
  <2>1. <<>> \in Seq(Response) /\ BodyOf(<<>>, "response") = {}
      BY DEF BodyOf
  <2>2. Bytes(<<>>, "response") = <<>>
      BY <2>1, NoBytes
  <2> QED
      BY <1>1, <2>2
<1>4. WireBytes(0, 0) = <<>>
    BY DEF WireBytes
<1>5. ProfileInv
    BY DEF Init, ProfileInv
<1>6. RunningInv
    BY <1>3, <1>4 DEF Init, RunningInv, BuffersHeld, StreamedSoFar
<1> QED
    BY <1>2, <1>5, <1>6 DEF BodyInv, RequestInv, ResponseInv

\* Every step keeps the invariant.
LEMMA BodiesStep ==
    ASSUME StreamInv, StreamInv', AnswersInv, BodyInv, [Next]_vars
    PROVE  BodyInv'
<1>1. /\ ServerTypeOK /\ ServerTypeOK' /\ OrderInv /\ ProfileInv /\ RunningInv /\ RequestInv /\ ResponseInv
    BY TypeHalves DEF StreamInv, AnswersInv, BodyInv
<1>2. CASE RecvRequestHeaders
    BY <1>2, RequestHeadersBodies
<1>3. CASE RecvRequestBody
    BY <1>3, RequestBodyBodies
<1>4. CASE RecvResponseHeaders
    BY <1>4, ResponseHeadersBodies
<1>5. CASE RecvResponseBody
    BY <1>5, ResponseBodyBodies
<1>6. CASE RedeliverRequestBody \/ RedeliverResponseBody
  <2>1. /\ Ready /\ pending' = <<>>
        /\ UNCHANGED <<out, reqCtx, postProcessors, reqWire, respWire, respSide, reqBytes, respBytes, bodyVars>>
    <3>1. CASE RedeliverRequestBody
        BY <3>1 DEF RedeliverRequestBody, RequestBody, Answer, doneVars
    <3>2. CASE RedeliverResponseBody
        BY <3>2 DEF RedeliverResponseBody, ResponseBody, Answer, doneVars
    <3> QED
        BY <1>6, <3>1, <3>2
  <2>2. pending' \in Seq(Response) /\ \A s : BodyOf(pending', s) = {} /\ HeadersOf(pending', s) = {}
      BY <2>1 DEF BodyOf, HeadersOf
  <2> QED
      BY <2>1, <2>2, QuietBodies
<1>7. CASE RecvRequestTrailers \/ RecvResponseTrailers
  <2>1. PICK side \in Sides : HandleTrailers(side)
      BY <1>7 DEF RecvRequestTrailers, RecvResponseTrailers, Sides
  <2>2. pending' = <<TrailersResponse(side)>> /\ UNCHANGED <<reqCtx, out, postProcessors, bodyVars>>
      BY <2>1 DEF HandleTrailers, Answer, doneVars
  <2>3. \A s : BodyOf(pending', s) = {} /\ HeadersOf(pending', s) = {}
      BY <2>2, QuietParts
  <2>4. pending' \in Seq(Response)
      BY <1>1 DEF ServerTypeOK
  <2>5. /\ Ready /\ UNCHANGED <<reqWire, respWire, reqBytes, respBytes>>
        /\ respSide' \in {"idle", "open"} => respSide \in {"idle", "open"}
      BY <1>7 DEF RecvRequestTrailers, RecvResponseTrailers
  <2>6. respSide' = "idle" => respSide = "idle"
      BY <1>7 DEF RecvRequestTrailers, RecvResponseTrailers
  <2> QED
      BY <2>2, <2>3, <2>4, <2>5, <2>6, QuietBodies
<1>8. ASSUME answers' = answers, UNCHANGED <<proxyVars, postProcessors, reqCtx, bodyVars>>,
             status' = "running" => status = "running"
      PROVE  BodyInv'
  <2>1. UNCHANGED <<reqWire, respWire, respSide, reqBytes, respBytes>>
      BY <1>8 DEF proxyVars
  <2>2. ProfileInv'
      BY <1>1, <1>8, ProfileKept
  <2>3. RequestInv'
      BY <1>1, <1>8, <2>1, RequestKept
  <2>4. ResponseInv'
      BY <1>1, <1>8, <2>1, ResponseKept
  <2>5. RunningInv'
      BY <1>1, <1>8, <2>1, RunningKept
  <2> QED
      BY <2>2, <2>3, <2>4, <2>5 DEF BodyInv
<1>9. CASE Send
  <2>1. /\ pending # <<>> /\ out' = Append(out, Head(pending)) /\ pending' = Tail(pending)
        /\ status' = "running" => status = "running"
        /\ UNCHANGED <<proxyVars, postProcessors, reqCtx, bodyVars>>
      BY <1>9 DEF Send
  <2>2. Append(out, Head(pending)) \o Tail(pending) = out \o pending
      BY <1>1, <2>1, SentAnswers DEF ServerTypeOK
  <2>3. answers' = answers
      BY <2>1, <2>2 DEF answers
  <2> QED
      BY <1>8, <2>1, <2>3
<1>10. CASE EndStream
  <2>1. /\ pending' = <<>> /\ status' = "closed"
        /\ UNCHANGED <<out, proxyVars, postProcessors, reqCtx>>
      BY <1>10 DEF EndStream, doneVars
  <2>2. UNCHANGED <<reqWire, respWire, reqBytes, respBytes>>
      BY <2>1 DEF proxyVars
  <2>3. answers' = out
    <3>1. out \o <<>> = out
        BY <1>1, ConcatEmptySeq DEF ServerTypeOK
    <3> QED
        BY <2>1, <3>1 DEF answers
  <2>4. \A s \in Sides : LastOf(out, s) # {} =>
            /\ Bytes(out, s) = Bytes(answers, s) /\ LastOf(answers, s) # {}
            /\ \A wire : Lengths(out, s, wire) \subseteq Lengths(answers, s, wire)
      BY <1>1, SentWhole DEF ServerTypeOK, OrderInv, answers
  <2>5. ProfileInv'
      BY <1>1, <2>1, ProfileKept
  <2>6. RequestInv'
      BY <1>1, <2>1, <2>2, <2>3, <2>4, RequestKept DEF Sides
  <2>7. ResponseInv'
      BY <1>1, <2>1, <2>2, <2>3, <2>4, ResponseKept DEF Sides
  <2>8. RunningInv'
      BY <2>1, BodyPrimed
  <2> QED
      BY <2>5, <2>6, <2>7, <2>8 DEF BodyInv
<1>11. CASE UNCHANGED vars
  <2>1. UNCHANGED <<proxyVars, postProcessors, reqCtx, bodyVars, status, out, pending>>
      BY <1>11 DEF vars, doneVars
  <2> QED
      BY <1>8, <2>1 DEF answers
<1> QED
    BY <1>2, <1>3, <1>4, <1>5, <1>6, <1>7, <1>9, <1>10, <1>11 DEF Next

\* A body the proxy got to its end is one of the answers, whole.
LEMMA DeliveredWhole ==
    ASSUME StreamInv, AnswersInv, BodyInv, NEW s \in Sides, Ended(s)
    PROVE  /\ Delivered(s) = Bytes(answers, s) /\ Delivered(s) \in Seq(Nat)
           /\ LastOf(answers, s) # {} /\ HeadersOf(out, s) # {}
           /\ Lengths(out, s, IF s = "request" THEN reqWire ELSE respWire)
                \subseteq Lengths(answers, s, IF s = "request" THEN reqWire ELSE respWire)
<1>1. ServerTypeOK /\ Ordered(answers)
    BY TypeHalves DEF StreamInv, AnswersInv, OrderInv
<1>2. LastOf(out, s) # {} /\ BodyOf(out, s) # {}
    BY DEF Ended, Of, LastOf, BodyOf
<1>3. Of(s, "body") = BodyOf(out, s)
    BY DEF Of, BodyOf
<1>4. Delivered(s) = Bytes(out, s)
    BY <1>3 DEF Delivered, Bytes, Pieces
<1>5. /\ Bytes(out, s) = Bytes(answers, s) /\ LastOf(answers, s) # {}
      /\ \A wire : Lengths(out, s, wire) \subseteq Lengths(answers, s, wire)
    BY <1>1, <1>2, SentWhole DEF ServerTypeOK, answers
<1>6. Bytes(out, s) \in Seq(Nat)
    BY <1>1, BytesType DEF ServerTypeOK
<1>7. Ordered(out)
    BY <1>1, OrderedPrefix DEF ServerTypeOK, answers
<1>8. HeadersOf(out, s) # {}
    BY <1>2, <1>7 DEF Ordered
<1> QED
    BY <1>4, <1>5, <1>6, <1>8

(***************************************************************************)
(* For every plugin, profile and way of cutting a body: a body no plugin   *)
(* rewrote arrives byte for byte, once, also when its final chunk was      *)
(* delivered twice; one that plugins rewrote is replaced as a whole; and   *)
(* what chunk processors leave of a body stays in order (Process, the      *)
(* buffers, buildChunkedBodyResponses).                                    *)
(***************************************************************************)
THEOREM StreamBodyIntact == Spec => []BodyIntact
<1>1. StreamInv /\ AnswersInv /\ BodyInv => BodyIntact
  <2> SUFFICES ASSUME StreamInv, AnswersInv, BodyInv PROVE BodyIntact
      OBVIOUS
  <2>1. "request" \in Sides /\ "response" \in Sides
      BY DEF Sides
  <2>2. ASSUME Ended("request")
        PROVE  IF reqCtx.Request.bodyMutated
               THEN \A i \in DOMAIN Delivered("request") : Delivered("request")[i] = PluginByte
               ELSE Delivered("request") = WireBytes(0, reqBytes)
    <3>1. PICK b : b = Delivered("request")
        OBVIOUS
    <3>2. b = Bytes(answers, "request") /\ LastOf(answers, "request") # {}
        BY <2>1, <2>2, <3>1, DeliveredWhole
    <3>3. b \in IF reqCtx.Request.bodyMutated THEN PluginBodies ELSE {WireBytes(0, reqBytes)}
        BY <3>2 DEF BodyInv, RequestInv, RequestWhole
    <3>4. IF reqCtx.Request.bodyMutated THEN \A i \in DOMAIN b : b[i] = PluginByte
          ELSE b = WireBytes(0, reqBytes)
        BY <3>3 DEF PluginBodies
    <3> QED
        BY <3>1, <3>4
  <2>3. ASSUME Ended("response")
        PROVE  \/ Delivered("response") = WireBytes(0, respBytes)
               \/ /\ reqCtx.Profile.NeedsResponseBuffering
                  /\ \A i \in DOMAIN Delivered("response") : Delivered("response")[i] = PluginByte
               \/ /\ reqCtx.Profile.ResponseChunkProcessors
                  /\ \A i, j \in DOMAIN Delivered("response") :
                        LET b == Delivered("response")
                        IN  i < j /\ b[i] # PluginByte /\ b[j] # PluginByte => b[i] < b[j]
    <3>1. PICK b : b = Delivered("response")
        OBVIOUS
    <3>2. b = Bytes(answers, "response") /\ LastOf(answers, "response") # {}
        BY <2>1, <2>3, <3>1, DeliveredWhole
    <3>3. \/ b = WireBytes(0, respBytes)
          \/ reqCtx.Profile.NeedsResponseBuffering /\ b \in PluginBodies
          \/ reqCtx.Profile.ResponseChunkProcessors /\ b \in InOrder(respBytes)
        BY <3>2 DEF BodyInv, ResponseInv, ResponseWhole
    <3>4. b \in PluginBodies => \A i \in DOMAIN b : b[i] = PluginByte
        BY DEF PluginBodies
    <3>5. b \in InOrder(respBytes) =>
              \A i, j \in DOMAIN b : i < j /\ b[i] # PluginByte /\ b[j] # PluginByte => b[i] < b[j]
        BY DEF InOrder
    <3> QED
        BY <3>1, <3>3, <3>4, <3>5
  <2> QED
      BY <2>2, <2>3 DEF BodyIntact
<1> QED
    BY <1>1, StreamInit, StreamStep, AnswersInit, AnswersStep, BodiesInit, BodiesStep, PTL DEF Spec

\* The proxy's headers do not have the code's key: their names are in lower case.
WireInv == reqWire[ContentLength] = NoValue /\ respWire[ContentLength] = NoValue

\* No headers have come yet.
LEMMA WireInit == Init => WireInv
BY StreamAssumption DEF Init, WireInv, EmptyHeaders

\* Only the two header messages bring in headers.
LEMMA WireStep == WireInv /\ [Next]_vars => WireInv'
<1>1. ASSUME NEW headers \in WireHeaders PROVE headers[ContentLength] = NoValue
    BY <1>1, StreamAssumption
<1>2. SUFFICES ASSUME WireInv, [Next]_vars PROVE WireInv'
    OBVIOUS
<1>3. ASSUME UNCHANGED <<reqWire, respWire>> PROVE WireInv'
    BY <1>2, <1>3 DEF WireInv
<1>4. CASE RecvRequestHeaders
    BY <1>1, <1>2, <1>4 DEF WireInv, RecvRequestHeaders
<1>5. CASE RecvResponseHeaders
    BY <1>1, <1>2, <1>5 DEF WireInv, RecvResponseHeaders
<1>6. CASE RecvRequestBody \/ RedeliverRequestBody \/ RecvRequestTrailers
    BY <1>3, <1>6 DEF RecvRequestBody, RedeliverRequestBody, RecvRequestTrailers
<1>7. CASE RecvResponseBody \/ RedeliverResponseBody \/ RecvResponseTrailers
    BY <1>3, <1>7 DEF RecvResponseBody, RedeliverResponseBody, RecvResponseTrailers
<1>8. CASE Send \/ EndStream \/ UNCHANGED vars
    BY <1>3, <1>8 DEF Send, EndStream, vars, proxyVars
<1> QED
    BY <1>2, <1>4, <1>5, <1>6, <1>7, <1>8 DEF Next

(***************************************************************************)
(* What the code's own key says is what the proxy forwards, when no other  *)
(* spelling of the name is in the mutation, and may forward in any case.   *)
(***************************************************************************)
LEMMA OwnKeyForwarded ==
    ASSUME TypeOK, WireInv, NEW s \in Sides, Of(s, "headers") # {},
           ApplyHeaderMutation(IF s = "request" THEN reqWire ELSE respWire,
                               HeaderAnswer(s).set, HeaderAnswer(s).removed)[ContentLength]
               = Len(Delivered(s)),
           Len(Delivered(s)) \in Nat
    PROVE  LengthForwarded(s)
<1>1. PICK h, wire, n :
          /\ h = HeaderAnswer(s) /\ wire = (IF s = "request" THEN reqWire ELSE respWire)
          /\ n = Len(Delivered(s))
    OBVIOUS
<1>2. n \in Nat /\ n # NoValue
    BY <1>1, StreamAssumption
<1>3. wire[ContentLength] = NoValue
    BY <1>1 DEF WireInv
<1>4. ApplyHeaderMutation(wire, h.set, h.removed)[ContentLength] = n
    BY <1>1
<1>5. ContentLength \in HeaderNames
    BY StreamAssumption
<1>6. h.set[ContentLength] # NoValue
    BY <1>2, <1>3, <1>4, <1>5 DEF ApplyHeaderMutation
<1>7. PICK keys : keys = LengthKeys \cap Touched(h)
    OBVIOUS
<1>8. ContentLength \in keys
    BY <1>5, <1>6, <1>7 DEF LengthKeys, Touched
<1>9. ForwardedLengths(s) = {ApplyHeaderMutation(wire, h.set, h.removed)[k] : k \in keys}
    BY <1>1, <1>7, <1>8 DEF ForwardedLengths
<1>10. n \in ForwardedLengths(s)
    BY <1>4, <1>8, <1>9
<1>11. ASSUME keys \subseteq {ContentLength} PROVE ForwardedLengths(s) = {n}
    BY <1>4, <1>8, <1>9, <1>11
<1> QED
    BY <1>1, <1>7, <1>10, <1>11 DEF LengthForwarded

(***************************************************************************)
(* The Content-Length the server sends is the number of bytes it streams,  *)
(* always for a request, and for a buffered response that plugins rewrote  *)
(* (HandleRequestBody, HandleResponseBody), for any plugins, chunk limit   *)
(* and body; it is what the proxy forwards unless plugins touched the      *)
(* header under another spelling, which the code's maps keep apart.        *)
(***************************************************************************)
THEOREM StreamContentLength == Spec => []ContentLengthMatchesBody
<1>1. StreamInv /\ AnswersInv /\ BodyInv /\ WireInv => ContentLengthMatchesBody
  <2> SUFFICES ASSUME StreamInv, AnswersInv, BodyInv, WireInv PROVE ContentLengthMatchesBody
      OBVIOUS
  <2>1. "request" \in Sides /\ "response" \in Sides /\ "request" # "response"
      BY DEF Sides
  <2>2. ASSUME NEW s \in Sides, Ended(s), NEW wire, wire = IF s = "request" THEN reqWire ELSE respWire,
               Lengths(answers, s, wire) \subseteq {Len(Bytes(answers, s))}
        PROVE  LengthForwarded(s)
    <3>1. HeadersOf(out, s) # {} /\ Lengths(out, s, wire) \subseteq Lengths(answers, s, wire)
        BY <2>2, DeliveredWhole
    <3>2. Delivered(s) = Bytes(answers, s)
        BY <2>2, DeliveredWhole
    <3>3. PICK i : i = CHOOSE k \in Of(s, "headers") : TRUE
        OBVIOUS
    <3>4. i \in HeadersOf(out, s) /\ Of(s, "headers") # {}
        BY <3>1, <3>3 DEF Of, HeadersOf
    <3>5. HeaderAnswer(s) = out[i]
        BY <3>3 DEF HeaderAnswer
    <3>6. ApplyHeaderMutation(wire, out[i].set, out[i].removed)[ContentLength] \in Lengths(out, s, wire)
        BY <3>4 DEF Lengths
    <3>7. ApplyHeaderMutation(wire, out[i].set, out[i].removed)[ContentLength] = Len(Delivered(s))
        BY <2>2, <3>1, <3>2, <3>6
    <3>8. Delivered(s) \in Seq(Nat)
        BY <2>2, DeliveredWhole
    <3>9. Len(Delivered(s)) \in Nat
        BY <3>8
    <3> QED
        BY <2>2, <3>4, <3>5, <3>7, <3>9, OwnKeyForwarded DEF StreamInv
  <2>3. ASSUME Ended("request") PROVE LengthForwarded("request")
    <3>1. LastOf(answers, "request") # {}
        BY <2>1, <2>3, DeliveredWhole
    <3>2. Lengths(answers, "request", reqWire) \subseteq {Len(Bytes(answers, "request"))}
        BY <3>1 DEF BodyInv, RequestInv, RequestWhole
    <3> QED
        BY <2>1, <2>2, <2>3, <3>2
  <2>4. ASSUME Ended("response"), reqCtx.Profile.NeedsResponseBuffering,
               Delivered("response") # WireBytes(0, respBytes)
        PROVE  LengthForwarded("response")
    <3>1. Delivered("response") = Bytes(answers, "response") /\ LastOf(answers, "response") # {}
        BY <2>1, <2>4, DeliveredWhole
    <3>2. ~reqCtx.Profile.ResponseChunkProcessors
      <4>1. reqCtx.Profile \in profiles
          BY <2>4 DEF BodyInv, ProfileInv, emptyProfile
      <4>2. postProcessors \in BOOLEAN
          BY DEF StreamInv, TypeOK
      <4> QED
          BY <2>4, <4>1, <4>2 DEF profiles, Profile
    <3>3. Lengths(answers, "response", respWire) \subseteq {Len(Bytes(answers, "response"))}
        BY <2>4, <3>1, <3>2 DEF BodyInv, ResponseInv, ResponseWhole
    <3> QED
        BY <2>1, <2>2, <2>4, <3>3
  <2> QED
      BY <2>3, <2>4 DEF ContentLengthMatchesBody
<1> QED
    BY <1>1, StreamInit, StreamStep, AnswersInit, AnswersStep, BodiesInit, BodiesStep,
       WireInit, WireStep, PTL DEF Spec
=============================================================================
