---------------------------- MODULE StreamEvents ----------------------------
(***************************************************************************)
(* What the ext-proc streams promise the data layer: each stream passes at *)
(* most one request event to Notify, then at most one response event, and  *)
(* both name the model the request was forwarded with.  A stream whose     *)
(* request was never processed has no model, and at most the response      *)
(* event.  An event does not change once it was passed on, although it     *)
(* only points at the stream's messages.                                   *)
(*                                                                         *)
(* ExtProcStream implements this specification; Datalayer is built on it.  *)
(* A stream may be cut off at any moment: nothing says that it goes on.    *)
(***************************************************************************)
EXTENDS Naturals, Sequences

CONSTANTS
    Streams,
    Models,     \* model names
    NoModel     \* the model of a body without one

VARIABLE notified   \* per stream: its events, as a reader of their payload finds them

Event(type, m) == [type |-> type, model |-> m]

NotifyRequest(s, m) ==
    /\ notified[s] = <<>>
    /\ notified' = [notified EXCEPT ![s] = <<Event("request", m)>>]

\* The model of the stream's request, if it was announced.
requestModel(s) == IF notified[s] = <<>> THEN NoModel ELSE notified[s][1].model

NotifyResponse(s) ==
    /\ \A i \in DOMAIN notified[s] : notified[s][i].type # "response"
    /\ notified' = [notified EXCEPT ![s] = Append(@, Event("response", requestModel(s)))]

Init == notified = [s \in Streams |-> <<>>]

Next == \E s \in Streams : \/ \E m \in Models \cup {NoModel} : NotifyRequest(s, m)
                           \/ NotifyResponse(s)

Spec == Init /\ [][Next]_notified
=============================================================================
