-------------------------- MODULE InferenceMessage --------------------------
(***************************************************************************)
(* The message that plugins read and mutate                                *)
(* (pkg/framework/interface/requesthandling/types.go): the headers and the *)
(* parsed JSON body, and beside them the record of what plugins changed    *)
(* that the handlers turn into an ext-proc header and body mutation.       *)
(*                                                                         *)
(* A Go map is a total function whose value NoValue means "no such key".   *)
(* Header keys are compared as they are spelled: two spellings of one HTTP *)
(* header are two keys.                                                    *)
(***************************************************************************)
EXTENDS Naturals

CONSTANTS
    HeaderNames,   \* header keys that occur on the wire or in a plugin
    HeaderValues,  \* header values
    BodyFields,    \* top-level keys of the JSON body
    BodyValues,    \* values of those keys
    NoValue        \* an absent map entry

ASSUME NoValueAssumption == NoValue \notin HeaderValues /\ NoValue \notin BodyValues

HeaderMap == [HeaderNames -> HeaderValues \cup {NoValue}]
BodyMap == [BodyFields -> BodyValues \cup {NoValue}]

EmptyHeaders == [k \in HeaderNames |-> NoValue]
EmptyBody == [f \in BodyFields |-> NoValue]

Message == [Headers : HeaderMap, Body : BodyMap,
            mutatedHeaders : HeaderMap, removedHeaders : SUBSET HeaderNames,
            bodyMutated : BOOLEAN]

newInferenceMessage ==
    [Headers |-> EmptyHeaders, Body |-> EmptyBody,
     mutatedHeaders |-> EmptyHeaders, removedHeaders |-> {},
     bodyMutated |-> FALSE]

(***************************************************************************)
(* Header operations.  Setting a header to the value it already has, and   *)
(* removing one that is not there, leave the message alone.                *)
(***************************************************************************)
\* Mutants: forget that a header was set, do not mark a body as changed.
RemoveHeaderKeepingSet(m, key) ==
    [m EXCEPT !.Headers[key] = NoValue, !.removedHeaders = @ \cup {key}]
SetBodyFieldUnmarked(m, field, value) == [m EXCEPT !.Body[field] = value]

SetHeader(m, key, value) ==
    IF m.Headers[key] = value THEN m
    ELSE [m EXCEPT !.Headers[key] = value,
                   !.mutatedHeaders[key] = value,
                   !.removedHeaders = @ \ {key}]

RemoveHeader(m, key) ==
    IF m.Headers[key] = NoValue THEN m
    ELSE [m EXCEPT !.Headers[key] = NoValue,
                   !.mutatedHeaders[key] = NoValue,
                   !.removedHeaders = @ \cup {key}]

(***************************************************************************)
(* Body operations.                                                        *)
(***************************************************************************)
SetBody(m, body) == [m EXCEPT !.Body = body, !.bodyMutated = TRUE]

SetBodyField(m, field, value) ==
    [m EXCEPT !.Body[field] = value, !.bodyMutated = TRUE]

\* Mutant: removing a field loses the body.
RemoveBodyFieldWithBody(m, field) == [m EXCEPT !.Body = NoValue, !.bodyMutated = TRUE]

RemoveBodyField(m, field) ==
    IF m.Body[field] = NoValue THEN m
    ELSE [m EXCEPT !.Body[field] = NoValue, !.bodyMutated = TRUE]

(***************************************************************************)
(* What the proxy does with the HeaderMutation built from mutatedHeaders   *)
(* and removedHeaders: OVERWRITE_IF_EXISTS_OR_ADD every set header, drop   *)
(* every removed one, read key by key.  What becomes of two keys that are  *)
(* one header to the proxy is in ExtProcStream's ForwardedLengths.         *)
(***************************************************************************)
ApplyHeaderMutation(wire, set, removed) ==
    [k \in HeaderNames |-> IF set[k] # NoValue THEN set[k]
                           ELSE IF k \in removed THEN NoValue
                           ELSE wire[k]]
=============================================================================
