--------------------------- MODULE ExtProcStream ---------------------------
(***************************************************************************)
(* One ext-proc stream: Server.Process and the request and response        *)
(* handlers it calls (pkg/handlers).  Envoy opens one gRPC stream per HTTP *)
(* request, sends it the request's and then the response's headers, body   *)
(* chunks and trailers, and the server answers with header mutations and   *)
(* a replacement body, and notifies the data layer.                        *)
(*                                                                         *)
(* The i-th byte of a body on the wire is the number i, so that a lost,    *)
(* reordered or repeated byte shows; a byte that a plugin wrote is         *)
(* PluginByte.  Plugins are arbitrary: a run of plugins is any effect in   *)
(* PluginEffects, or an error.                                             *)
(***************************************************************************)
EXTENDS InferenceMessage, ChunkedBody, SequencesExt

CONSTANTS
    ContentLength,   \* the key contentLengthHeader, "Content-Length"
    LowerCase,       \* header names as the proxy keeps them, in lower case
    ModelField,      \* the "model" key of a request body
    WireHeaders,     \* header maps the proxy sends
    PluginKeys,      \* header keys plugins set or remove
    PluginValues,    \* header values plugins write
    BodyByteLimit,   \* bytes per streamed chunk
    MaxBody,         \* bound: bytes of a body on the wire
    MaxWrite,        \* bound: bytes of a body or chunk written by plugins
    MaxRedeliver     \* bound: re-delivered final chunks in each direction

ASSUME StreamAssumption ==
    /\ LowerCase \in [HeaderNames -> HeaderNames]
    /\ ContentLength \in HeaderNames /\ LowerCase[ContentLength] # ContentLength
    /\ ModelField \in BodyFields
    /\ WireHeaders \subseteq HeaderMap
    /\ \A headers \in WireHeaders, k \in HeaderNames : headers[k] # NoValue => LowerCase[k] = k
    /\ PluginKeys \subseteq HeaderNames
    /\ PluginValues \subseteq HeaderValues
    /\ BodyByteLimit \in Nat \ {0}
    /\ MaxBody \in Nat
    /\ MaxWrite \in Nat
    /\ MaxRedeliver \in Nat
    /\ 0 .. MaxBody \subseteq HeaderValues     \* a length in decimal is a header value
    /\ 0 .. MaxWrite \subseteq HeaderValues
    /\ NoValue \notin Nat

VARIABLES
    \* What the proxy has sent.
    reqSide,    \* request: "idle", "open", then "ended" (EndOfStream) or "trailers"
    reqBytes,   \* bytes of request body sent
    reqLast,    \* length of the last request chunk
    reqWire,    \* request headers as the proxy holds them
    respSide, respBytes, respLast, respWire,
    redelivered,  \* number of re-delivered final chunks
    \* The locals of Process.
    postProcessors,  \* whether the Server has body post-processors
    reqCtx,     \* RequestContext
    requestBody, responseBody,
    requestBodyComplete, responseBodyComplete,
    pending,    \* responses of the current message, still to be sent
    status,     \* "running", "failing" (the error answer is to be sent), "closed"
    \* What the server has done.
    out,        \* responses sent to the proxy
    events,     \* events passed to eventNotifier.Notify
    postRan     \* what became of the body post-processors: "no" (not reached),
                \* "ran", or "skipped" (the body was passed through as it came)

proxyVars == <<reqSide, reqBytes, reqLast, reqWire, respSide, respBytes, respLast,
               respWire, redelivered>>
bodyVars == <<requestBody, responseBody, requestBodyComplete, responseBodyComplete>>
doneVars == <<out, events, postRan>>
vars == <<proxyVars, postProcessors, reqCtx, bodyVars, pending, status, doneVars>>

PluginByte == 0

(***************************************************************************)
(* Configuration as LoadConfiguration leaves it: a profile uses response   *)
(* plugins or chunk processors but not both, body post-processors exclude  *)
(* chunk processors and force every loaded profile to buffer.  The empty   *)
(* profile a stream starts with is not a loaded one.                       *)
(***************************************************************************)
Profile == [ResponsePlugins : BOOLEAN, ResponseChunkProcessors : BOOLEAN,
            NeedsResponseBuffering : BOOLEAN]

emptyProfile == [ResponsePlugins |-> FALSE, ResponseChunkProcessors |-> FALSE,
                 NeedsResponseBuffering |-> FALSE]

\* Mutant: the picker may return no profile without an error.
profilesOrNone == Profile \cup {NoValue}

\* Mutant: post-processors do not force a profile without response plugins to buffer.
profilesUnforced == {p \in Profile :
    /\ ~(p.ResponsePlugins /\ p.ResponseChunkProcessors)
    /\ ~(postProcessors /\ p.ResponseChunkProcessors)
    /\ p.NeedsResponseBuffering = p.ResponsePlugins}

profiles == {p \in Profile :
    /\ ~(p.ResponsePlugins /\ p.ResponseChunkProcessors)
    /\ ~(postProcessors /\ p.ResponseChunkProcessors)
    /\ p.NeedsResponseBuffering = (p.ResponsePlugins \/ postProcessors)}

RequestContext == [Request : Message, Response : Message, Profile : Profile,
                   ResponseHeadersSent : BOOLEAN, ResponseStarted : BOOLEAN]

(***************************************************************************)
(* Responses to the proxy.                                                 *)
(***************************************************************************)
HeadersResponse(side, m) ==
    [kind |-> "headers", side |-> side, set |-> m.mutatedHeaders, removed |-> m.removedHeaders]

BodyResponse(side, chunk) ==
    [kind |-> "body", side |-> side, body |-> chunk.body, eos |-> chunk.eos]

StreamedBody(side, bytes) ==
    LET chunks == Chunks(bytes, TRUE, BodyByteLimit)
    IN  [i \in DOMAIN chunks |-> BodyResponse(side, chunks[i])]

TrailersResponse(side) == [kind |-> "trailers", side |-> side]
ImmediateResponse == [kind |-> "immediate"]

(***************************************************************************)
(* Plugins.  PluginEffects is one call of the mutation API, or none (an    *)
(* empty list of plugins has that effect too); what longer chains can do   *)
(* to a message is the subject of PluginChain.  A list matters by being    *)
(* empty only on the response side, where it decides the path taken.       *)
(***************************************************************************)
PluginEffects(m) ==
    {m} \cup {SetHeader(m, k, v) : k \in PluginKeys, v \in PluginValues}
        \cup {RemoveHeader(m, k) : k \in PluginKeys}
        \cup {SetBodyField(m, f, v) : f \in BodyFields, v \in BodyValues}

RunPlugins(m, installed) == IF installed THEN PluginEffects(m) ELSE {m}

\* json.Unmarshal into the message's map: keys of the document are added to it.
Unmarshal(m, document) ==
    [m EXCEPT !.Body = [f \in BodyFields |->
                          IF document[f] # NoValue THEN document[f] ELSE m.Body[f]]]

\* What json.Marshal returns for a mutated body: not the bytes of the wire.
Written(n) == [i \in 1 .. n |-> PluginByte]

(***************************************************************************)
(* The error answer.  BuildErrResponse makes an ImmediateResponse of an    *)
(* error with a canonical code; any other error ends the stream as a gRPC  *)
(* error.                                                                  *)
(***************************************************************************)
Errors == {"canonical", "plain"}

BuildErrResponse(err) ==
    IF err = "canonical"
    THEN pending' = <<ImmediateResponse>> /\ status' = "failing"
    ELSE pending' = <<>> /\ status' = "closed"

Answer(responses) == pending' = responses /\ UNCHANGED status

Ready == status = "running" /\ pending = <<>>

-----------------------------------------------------------------------------
(***************************************************************************)
(* Request headers.  Without a body to come they are answered at once,     *)
(* with no profile picked and no event fired.                              *)
(***************************************************************************)
\* Mutant: the answer waits for a body even when none will come.
HandleRequestHeadersDeferred(headers, eos) ==
    /\ reqCtx' = [reqCtx EXCEPT !.Request.Headers = headers]
    /\ Answer(<<>>)
    /\ UNCHANGED <<postProcessors, bodyVars, doneVars>>

HandleRequestHeaders(headers, eos) ==
    /\ reqCtx' = [reqCtx EXCEPT !.Request.Headers = headers]
    /\ Answer(IF eos THEN <<HeadersResponse("request", newInferenceMessage)>> ELSE <<>>)
    /\ UNCHANGED <<postProcessors, bodyVars, doneVars>>

(***************************************************************************)
(* The whole request body: parse it, run pre-processors, pick a profile,   *)
(* run its request plugins, set Content-Length to the size of the body     *)
(* that will follow, notify the data layer, answer headers and body.       *)
(***************************************************************************)
\* Mutant: Content-Length is only set for a rewritten body.
ForwardRequestWithoutLength(m, p, bytes, n) ==
    LET sent == IF m.bodyMutated THEN Written(n) ELSE bytes
        request == IF m.bodyMutated THEN SetHeader(m, ContentLength, Len(sent)) ELSE m
    IN  /\ reqCtx' = [reqCtx EXCEPT !.Request = request, !.Profile = p]
        /\ events' = Append(events, [type |-> "request", model |-> request.Body[ModelField]])
        /\ Answer(<<HeadersResponse("request", request)>> \o StreamedBody("request", sent))
        /\ UNCHANGED <<postProcessors, out, postRan>>

ForwardRequest(m, p, bytes, n) ==
    LET sent == IF m.bodyMutated THEN Written(n) ELSE bytes
        request == SetHeader(m, ContentLength, Len(sent))
    IN  /\ reqCtx' = [reqCtx EXCEPT !.Request = request, !.Profile = p]
        /\ events' = Append(events, [type |-> "request", model |-> request.Body[ModelField]])
        /\ Answer(<<HeadersResponse("request", request)>> \o StreamedBody("request", sent))
        /\ UNCHANGED <<postProcessors, out, postRan>>

HandleRequestBody(bytes) ==
    \E body \in BodyMap :
    \E pre \in PluginEffects(Unmarshal(reqCtx.Request, body)) :
    \E p \in profiles, m \in PluginEffects(pre), n \in 1 .. MaxWrite :
        ForwardRequest(m, p, bytes, n)

\* Unparsable body, plugin error, no profile, a body that cannot be marshalled:
\* the request's context is dropped with the stream.
HandleRequestBodyFails ==
    /\ \E err \in Errors : BuildErrResponse(err)
    /\ UNCHANGED <<postProcessors, reqCtx, doneVars>>

\* Mutant: a chunk after EndOfStream is taken as more of the body.
RequestBodyUnguarded(chunk, eos) ==
    /\ requestBody' = requestBody \o chunk
    /\ requestBodyComplete' = eos
    /\ \/ /\ ~eos
          /\ Answer(<<>>)
          /\ UNCHANGED <<postProcessors, reqCtx, doneVars>>
       \/ /\ eos
          /\ HandleRequestBody(requestBody') \/ HandleRequestBodyFails
    /\ UNCHANGED <<responseBody, responseBodyComplete>>

RequestBody(chunk, eos) ==
    \/ /\ requestBodyComplete
       /\ Answer(<<>>)
       /\ UNCHANGED <<postProcessors, reqCtx, bodyVars, doneVars>>
    \/ /\ ~requestBodyComplete
       /\ requestBody' = requestBody \o chunk
       /\ requestBodyComplete' = eos
       /\ \/ /\ ~eos
             /\ Answer(<<>>)
             /\ UNCHANGED <<postProcessors, reqCtx, doneVars>>
          \/ /\ eos
             /\ HandleRequestBody(requestBody') \/ HandleRequestBodyFails
       /\ UNCHANGED <<responseBody, responseBodyComplete>>

HandleTrailers(side) ==
    /\ Answer(<<TrailersResponse(side)>>)
    /\ UNCHANGED <<postProcessors, reqCtx, bodyVars, doneVars>>

(***************************************************************************)
(* Response headers: the headers post-processors run here; the answer      *)
(* waits for the body unless there is none.                                *)
(***************************************************************************)
HandleResponseHeaders(headers, eos) ==
    \/ \E m \in PluginEffects([reqCtx.Response EXCEPT !.Headers = headers]) :
          /\ reqCtx' = [reqCtx EXCEPT !.Response = m]
          /\ Answer(IF eos THEN <<HeadersResponse("response", m)>> ELSE <<>>)
          /\ UNCHANGED <<postProcessors, bodyVars, doneVars>>
    \/ /\ \E err \in Errors : BuildErrResponse(err)
       /\ UNCHANGED <<postProcessors, reqCtx, bodyVars, doneVars>>

(***************************************************************************)
(* A buffered response body.  It is passed through as it came when there   *)
(* is no plugin to run or when it is not JSON; otherwise the profile's     *)
(* plugins and then the post-processors run on it.                         *)
(***************************************************************************)
\* Mutant: the header post-processors' mutations are left out.
PassThroughBare(bytes) ==
    /\ reqCtx' = [reqCtx EXCEPT !.ResponseStarted = TRUE]
    /\ Answer(<<HeadersResponse("response", newInferenceMessage)>> \o StreamedBody("response", bytes))
    /\ postRan' = "skipped"

PassThrough(bytes) ==
    /\ reqCtx' = [reqCtx EXCEPT !.ResponseStarted = TRUE]
    /\ Answer(<<HeadersResponse("response", reqCtx.Response)>> \o StreamedBody("response", bytes))
    /\ postRan' = "skipped"

ForwardResponse(m, bytes, n) ==
    LET sent == IF m.bodyMutated THEN Written(n) ELSE bytes
        response == IF m.bodyMutated THEN SetHeader(m, ContentLength, Len(sent)) ELSE m
    IN  /\ reqCtx' = [reqCtx EXCEPT !.Response = response, !.ResponseStarted = TRUE]
        /\ Answer(<<HeadersResponse("response", response)>> \o StreamedBody("response", sent))
        /\ postRan' = IF postProcessors THEN "ran" ELSE postRan

RunResponsePlugins(bytes) ==
    \E body \in BodyMap :
    \E own \in RunPlugins(Unmarshal(reqCtx.Response, body), reqCtx.Profile.ResponsePlugins) :
    \E m \in RunPlugins(own, postProcessors), n \in 1 .. MaxWrite :
        ForwardResponse(m, bytes, n)

HandleResponseBody(bytes) ==
    LET hasPlugins == reqCtx.Profile.ResponsePlugins \/ postProcessors
    IN  \/ PassThrough(bytes)
        \/ hasPlugins /\ RunResponsePlugins(bytes)
        \/ /\ hasPlugins
           /\ \E err \in Errors : BuildErrResponse(err)
           /\ reqCtx' = [reqCtx EXCEPT !.ResponseStarted = TRUE]
           /\ UNCHANGED postRan

(***************************************************************************)
(* One response chunk of a profile that does not buffer.  The deferred     *)
(* header answer goes out with the first chunk, and only with it.          *)
(***************************************************************************)
\* Mutant: the header answer is repeated with every chunk.
StreamedChunkWithHeaders(m, chunk) ==
    <<HeadersResponse("response", m), BodyResponse("response", chunk)>>

buildStreamedChunkResponse(m, chunk) ==
    IF reqCtx.ResponseHeadersSent
    THEN <<BodyResponse("response", chunk)>>
    ELSE <<HeadersResponse("response", m), BodyResponse("response", chunk)>>

HandleResponseChunk(bytes, eos) ==
    LET processed == reqCtx.Profile.ResponseChunkProcessors
    IN  \/ \E m \in RunPlugins(reqCtx.Response, processed),
              sent \in {bytes} \cup (IF processed THEN {Written(n) : n \in 0 .. MaxWrite} ELSE {}) :
             /\ reqCtx' = [reqCtx EXCEPT !.Response = m, !.ResponseHeadersSent = TRUE,
                                         !.ResponseStarted = TRUE]
             /\ Answer(buildStreamedChunkResponse(m, [body |-> sent, eos |-> eos]))
             /\ UNCHANGED postRan
        \/ /\ processed
           /\ \E err \in Errors : BuildErrResponse(err)
           /\ reqCtx' = [reqCtx EXCEPT !.ResponseStarted = TRUE]
           /\ UNCHANGED postRan

(***************************************************************************)
(* A response body message.  At EndOfStream the data layer is notified,    *)
(* whether or not the handler failed.                                      *)
(***************************************************************************)
ResponseEvent == [type |-> "response", model |-> reqCtx.Request.Body[ModelField]]

ResponseBody(chunk, eos) ==
    \/ /\ responseBodyComplete
       /\ Answer(<<>>)
       /\ UNCHANGED <<postProcessors, reqCtx, bodyVars, doneVars>>
    \/ /\ ~responseBodyComplete
       /\ \/ /\ reqCtx.Profile.NeedsResponseBuffering
             /\ responseBody' = responseBody \o chunk
             /\ \/ /\ ~eos
                   /\ reqCtx' = [reqCtx EXCEPT !.ResponseStarted = TRUE]
                   /\ Answer(<<>>)
                   /\ UNCHANGED postRan
                \/ eos /\ HandleResponseBody(responseBody')
          \/ /\ ~reqCtx.Profile.NeedsResponseBuffering
             /\ HandleResponseChunk(chunk, eos)
             /\ UNCHANGED responseBody
       /\ responseBodyComplete' = eos
       /\ events' = IF eos THEN Append(events, ResponseEvent) ELSE events
       /\ UNCHANGED <<postProcessors, requestBody, requestBodyComplete, out>>

-----------------------------------------------------------------------------
(***************************************************************************)
(* The loop of Process: receive one message when the responses to the last *)
(* one have been sent.  What Envoy sends is external: on each side headers *)
(* first, then chunks up to EndOfStream or trailers; a final chunk may be  *)
(* delivered again; and once a response starts (the upstream's, or a local *)
(* reply at any moment) no more of the request is sent.                    *)
(***************************************************************************)
\* The len bytes that follow the first n.
WireBytes(n, len) == [i \in 1 .. len |-> n + i]

RecvRequestHeaders ==
    /\ Ready /\ reqSide = "idle"
    /\ \E headers \in WireHeaders, eos \in BOOLEAN :
          /\ reqWire' = headers
          /\ reqSide' = IF eos THEN "ended" ELSE "open"
          /\ HandleRequestHeaders(headers, eos)
    /\ UNCHANGED <<reqBytes, reqLast, respSide, respBytes, respLast, respWire, redelivered>>

RecvRequestBody ==
    /\ Ready /\ reqSide = "open" /\ respSide = "idle"
    /\ \E n \in 0 .. (MaxBody - reqBytes), eos \in BOOLEAN :
          /\ n > 0 \/ eos
          /\ reqBytes' = reqBytes + n
          /\ reqLast' = n
          /\ reqSide' = IF eos THEN "ended" ELSE "open"
          /\ RequestBody(WireBytes(reqBytes, n), eos)
    /\ UNCHANGED <<reqWire, respSide, respBytes, respLast, respWire, redelivered>>

RedeliverRequestBody ==
    /\ Ready /\ reqSide = "ended" /\ requestBodyComplete
    /\ redelivered < MaxRedeliver
    /\ redelivered' = redelivered + 1
    /\ RequestBody(WireBytes(reqBytes - reqLast, reqLast), TRUE)
    /\ UNCHANGED <<reqSide, reqBytes, reqLast, reqWire, respSide, respBytes, respLast, respWire>>

RecvRequestTrailers ==
    /\ Ready /\ reqSide = "open" /\ respSide = "idle"
    /\ reqSide' = "trailers"
    /\ HandleTrailers("request")
    /\ UNCHANGED <<reqBytes, reqLast, reqWire, respSide, respBytes, respLast, respWire, redelivered>>

RecvResponseHeaders ==
    /\ Ready /\ reqSide # "idle" /\ respSide = "idle"
    /\ \E headers \in WireHeaders, eos \in BOOLEAN :
          /\ respWire' = headers
          /\ respSide' = IF eos THEN "ended" ELSE "open"
          /\ HandleResponseHeaders(headers, eos)
    /\ UNCHANGED <<reqSide, reqBytes, reqLast, reqWire, respBytes, respLast, redelivered>>

RecvResponseBody ==
    /\ Ready /\ respSide = "open"
    /\ \E n \in 0 .. (MaxBody - respBytes), eos \in BOOLEAN :
          /\ n > 0 \/ eos
          /\ respBytes' = respBytes + n
          /\ respLast' = n
          /\ respSide' = IF eos THEN "ended" ELSE "open"
          /\ ResponseBody(WireBytes(respBytes, n), eos)
    /\ UNCHANGED <<reqSide, reqBytes, reqLast, reqWire, respWire, redelivered>>

RedeliverResponseBody ==
    /\ Ready /\ respSide = "ended" /\ responseBodyComplete
    /\ redelivered < MaxRedeliver
    /\ redelivered' = redelivered + 1
    /\ ResponseBody(WireBytes(respBytes - respLast, respLast), TRUE)
    /\ UNCHANGED <<reqSide, reqBytes, reqLast, reqWire, respSide, respBytes, respLast, respWire>>

RecvResponseTrailers ==
    /\ Ready /\ respSide = "open"
    /\ respSide' = "trailers"
    /\ HandleTrailers("response")
    /\ UNCHANGED <<reqSide, reqBytes, reqLast, reqWire, respBytes, respLast, respWire, redelivered>>

\* The next response goes out; the answer to an error is the last one.
Send ==
    /\ status # "closed" /\ pending # <<>>
    /\ out' = Append(out, Head(pending))
    /\ pending' = Tail(pending)
    /\ status' = IF status = "failing" THEN "closed" ELSE status
    /\ UNCHANGED <<proxyVars, postProcessors, reqCtx, bodyVars, events, postRan>>

\* A failed Send; at the top of the loop a done context, io.EOF, a cancelled
\* or failed Recv, or a message of an unknown type.
EndStream ==
    /\ status # "closed"
    /\ status' = "closed" /\ pending' = <<>>
    /\ UNCHANGED <<proxyVars, postProcessors, reqCtx, bodyVars, doneVars>>

Init ==
    /\ reqSide = "idle" /\ reqBytes = 0 /\ reqLast = 0 /\ reqWire = EmptyHeaders
    /\ respSide = "idle" /\ respBytes = 0 /\ respLast = 0 /\ respWire = EmptyHeaders
    /\ redelivered = 0
    /\ postProcessors \in BOOLEAN
    /\ reqCtx = [Request |-> newInferenceMessage, Response |-> newInferenceMessage,
                 Profile |-> emptyProfile,
                 ResponseHeadersSent |-> FALSE, ResponseStarted |-> FALSE]
    /\ requestBody = <<>> /\ responseBody = <<>>
    /\ requestBodyComplete = FALSE /\ responseBodyComplete = FALSE
    /\ pending = <<>> /\ status = "running"
    /\ out = <<>> /\ events = <<>> /\ postRan = "no"

Next ==
    \/ RecvRequestHeaders \/ RecvRequestBody \/ RedeliverRequestBody \/ RecvRequestTrailers
    \/ RecvResponseHeaders \/ RecvResponseBody \/ RedeliverResponseBody \/ RecvResponseTrailers
    \/ Send
    \/ EndStream

\* The goroutine of the stream keeps running; nothing is assumed of the proxy.
Fairness == WF_vars(Send)

Spec == Init /\ [][Next]_vars
FairSpec == Spec /\ Fairness
-----------------------------------------------------------------------------
(***************************************************************************)
(* What the proxy got, by direction.                                       *)
(***************************************************************************)
Sides == {"request", "response"}
Of(side, kind) == {i \in DOMAIN out : out[i].kind = kind /\ out[i].side = side}
Ended(side) == \E i \in Of(side, "body") : out[i].eos
Delivered(side) ==
    FlattenSeq([i \in DOMAIN out |-> IF i \in Of(side, "body") THEN out[i].body ELSE <<>>])
HeaderAnswer(side) == out[CHOOSE i \in Of(side, "headers") : TRUE]

(***************************************************************************)
(* The Content-Length the proxy may forward.  A message's header maps are  *)
(* case-sensitive and the proxy's names are not: a header answer may touch *)
(* Content-Length under several keys, GenerateHeadersMutation lists them   *)
(* in the order of a map range, and the one applied last stands.           *)
(***************************************************************************)
LengthKeys == {k \in HeaderNames : LowerCase[k] = LowerCase[ContentLength]}
Touched(h) == {k \in HeaderNames : h.set[k] # NoValue \/ k \in h.removed}
ForwardedLengths(side) ==
    LET h == HeaderAnswer(side)
        wire == IF side = "request" THEN reqWire ELSE respWire
        keys == LengthKeys \cap Touched(h)
    IN  IF keys = {} THEN {wire[LowerCase[ContentLength]]}
        ELSE {ApplyHeaderMutation(wire, h.set, h.removed)[k] : k \in keys}

Response ==
    [kind : {"headers"}, side : Sides, set : HeaderMap, removed : SUBSET HeaderNames]
      \cup [kind : {"body"}, side : Sides, body : Seq(Nat), eos : BOOLEAN]
      \cup [kind : {"trailers"}, side : Sides]
      \cup {ImmediateResponse}

Event == [type : Sides, model : BodyValues \cup {NoValue}]

(***************************************************************************)
(* Types of the state of Process and of what it sends (server.go).         *)
(***************************************************************************)
TypeOK ==
    /\ reqSide \in {"idle", "open", "ended", "trailers"}
    /\ respSide \in {"idle", "open", "ended", "trailers"}
    /\ reqBytes \in 0 .. MaxBody /\ respBytes \in 0 .. MaxBody
    /\ reqLast \in 0 .. reqBytes /\ respLast \in 0 .. respBytes
    /\ redelivered \in 0 .. MaxRedeliver
    /\ reqWire \in HeaderMap /\ respWire \in HeaderMap
    /\ postProcessors \in BOOLEAN
    /\ reqCtx \in RequestContext
    /\ requestBody \in Seq(Nat) /\ responseBody \in Seq(Nat)
    /\ requestBodyComplete \in BOOLEAN /\ responseBodyComplete \in BOOLEAN
    /\ pending \in Seq(Response) /\ out \in Seq(Response)
    /\ status \in {"running", "failing", "closed"}
    /\ events \in Seq(Event)
    /\ postRan \in {"no", "ran", "skipped"}

(***************************************************************************)
(* Protocol order (buildStreamedChunkResponse, HandleRequestBody,          *)
(* HandleResponseBody): in each direction the proxy gets one header answer *)
(* before any body chunk, and nothing of the body after its EndOfStream;   *)
(* an immediate response is the last message of the stream.                *)
(***************************************************************************)
OutputOrder ==
    /\ \A side \in Sides :
          /\ \A i, j \in Of(side, "headers") : i = j
          /\ \A j \in Of(side, "body") :
                /\ \E i \in Of(side, "headers") : i < j
                /\ \A i \in Of(side, "body") : out[i].eos => j <= i
    /\ \A i \in DOMAIN out : out[i].kind = "immediate" => i = Len(out)

(***************************************************************************)
(* Body integrity (Process, request and response buffers): a body no       *)
(* plugin rewrote reaches the other side byte for byte, however it was cut *)
(* into chunks and even if its final chunk was delivered twice; a body     *)
(* that plugins rewrote is replaced as a whole.                            *)
(***************************************************************************)
BodyIntact ==
    /\ Ended("request") =>
          IF reqCtx.Request.bodyMutated
          THEN \A i \in DOMAIN Delivered("request") : Delivered("request")[i] = PluginByte
          ELSE Delivered("request") = WireBytes(0, reqBytes)
    /\ Ended("response") =>
          \/ Delivered("response") = WireBytes(0, respBytes)
          \/ /\ reqCtx.Profile.NeedsResponseBuffering
             /\ \A i \in DOMAIN Delivered("response") : Delivered("response")[i] = PluginByte
          \/ /\ reqCtx.Profile.ResponseChunkProcessors
             /\ \A i, j \in DOMAIN Delivered("response") :
                   LET b == Delivered("response")
                   IN  i < j /\ b[i] # PluginByte /\ b[j] # PluginByte => b[i] < b[j]

(***************************************************************************)
(* Content-Length (HandleRequestBody, "Always set Content-Length to inform *)
(* Envoy of the body size that will follow"; HandleResponseBody for a      *)
(* mutated body): the number of bytes the server streamed is a length the  *)
(* proxy may forward, and the only one unless plugins set or removed the   *)
(* header under another spelling than the code's own, such as the proxy's  *)
(* "content-length": the code does not notice the second key.              *)
(***************************************************************************)
LengthForwarded(side) ==
    /\ Len(Delivered(side)) \in ForwardedLengths(side)
    /\ LengthKeys \cap Touched(HeaderAnswer(side)) \subseteq {ContentLength} =>
           ForwardedLengths(side) = {Len(Delivered(side))}

ContentLengthMatchesBody ==
    /\ Ended("request") => LengthForwarded("request")
    /\ LET rewritten == reqCtx.Profile.NeedsResponseBuffering
                          /\ Delivered("response") # WireBytes(0, respBytes)
       IN  Ended("response") /\ rewritten => LengthForwarded("response")

(***************************************************************************)
(* The events of the stream as the data layer reads them (RequestPayload,  *)
(* ResponsePayload): an event points at the stream's request, so that its  *)
(* model is what the request's body says now, not what it said at Notify.  *)
(***************************************************************************)
EventsAsRead ==
    [i \in DOMAIN events |-> [events[i] EXCEPT !.model = reqCtx.Request.Body[ModelField]]]

AbstractStream == INSTANCE StreamEvents WITH
    Streams <- {"stream"}, Models <- BodyValues, NoModel <- NoValue,
    notified <- [s \in {"stream"} |-> EventsAsRead]

(***************************************************************************)
(* The stream implements StreamEvents (Notify in HandleRequestBody and     *)
(* Process): each event at most once, the request's first, for one model   *)
(* that never changes, whatever is delivered again, fails or starts early. *)
(***************************************************************************)
ImplementsStreamEvents == AbstractStream!Spec

(***************************************************************************)
(* The event loop reads a notified message's maps on its own goroutine     *)
(* (RequestPayload and ResponsePayload are pointers): once the request's   *)
(* event was fired no step of the stream writes the request any more, and  *)
(* once the response's was, none writes the response.                      *)
(***************************************************************************)
Fired(type) == \E i \in DOMAIN events : events[i].type = type
EventPayloadFrozen ==
    [][/\ Fired("request") => reqCtx'.Request = reqCtx.Request
       /\ Fired("response") => reqCtx'.Response = reqCtx.Response]_vars

(***************************************************************************)
(* Every header answer, on whatever path it is built (headers only, pass-  *)
(* through, buffered, first chunk), carries all header mutations plugins   *)
(* made up to then, key by key as the message's maps hold them.            *)
(***************************************************************************)
HeadersCarryPluginView ==
    [][\A i \in DOMAIN pending' :
          pending = <<>> /\ pending'[i].kind = "headers" =>
              IF pending'[i].side = "request"
              THEN ApplyHeaderMutation(reqWire', pending'[i].set, pending'[i].removed)
                       = reqCtx'.Request.Headers
              ELSE ApplyHeaderMutation(respWire', pending'[i].set, pending'[i].removed)
                       = reqCtx'.Response.Headers]_vars

(***************************************************************************)
(* A message side that ended with EndOfStream is answered to its end, or   *)
(* the stream is over (the deferral in HandleRequestHeaders and            *)
(* HandleResponseHeaders is temporary).                                    *)
(***************************************************************************)
Answered(side) == Of(side, "headers") # {} /\ (Of(side, "body") # {} => Ended(side))
EndedSideIsAnswered ==
    /\ (reqSide = "ended") ~> (Answered("request") \/ status = "closed")
    /\ (respSide = "ended") ~> (Answered("response") \/ status = "closed")

(***************************************************************************)
(* Body post-processors see the whole body of the response to every        *)
(* request that was processed, whatever its profile, even one without      *)
(* response plugins (pkg/config/config.go; the buffering LoadConfiguration *)
(* forces): "skipped" is a body that is not JSON.  A response to a request *)
(* that was not processed runs with the empty profile and is not covered.  *)
(***************************************************************************)
PostProcessorsRun ==
    postProcessors /\ Ended("response") /\ Fired("request")
        => postRan # "no"

(***************************************************************************)
(* A statement of the repository that the code does not keep.              *)
(***************************************************************************)
\* docs/configuration.md: FULL_DUPLEX_STREAMED mode is required "to observe and mutate full
\* bodies", with trailer events enabled.  A request body that trailers ended is to be answered.
TrailersEndTheBody == (reqSide = "trailers") ~> (Answered("request") \/ status = "closed")
=============================================================================
