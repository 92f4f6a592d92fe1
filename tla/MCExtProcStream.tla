-------------------------- MODULE MCExtProcStream --------------------------
(***************************************************************************)
(* ExtProcStream with the proxy's "content-length" as the header plugins   *)
(* meddle with, beside the code's own "Content-Length", and "model" as the *)
(* body field they rewrite.                                                *)
(***************************************************************************)
EXTENDS ExtProcStream
LOCAL INSTANCE SequencesExt

MCHeaderNames == {"Content-Length", "content-length"}
MCHeaderValues == 0 .. 3
MCBodyFields == {"model"}
MCWireHeaders == {[EmptyHeaders EXCEPT !["content-length"] = 1]}
MCPluginKeys == {"content-length"}
MCPluginValues == {2}
MCContentLength == "Content-Length"
MCLowerCase == [k \in MCHeaderNames |-> "content-length"]
MCModelField == "model"

(***************************************************************************)
(* The chunking loop against the closed form the handlers use, for every   *)
(* length below, at, just above and at multiples of every limit up to 6:   *)
(* chunks put together are the body (byte i is the number i, so that a     *)
(* lost or repeated byte shows), none exceeds the limit, there is at least *)
(* one, and EndOfStream is on the last one and no other, or nowhere.       *)
(***************************************************************************)
ASSUME ChunkingCoversBody ==
    \A len \in 0 .. 12, limit \in 1 .. 6, setEos \in BOOLEAN :
        LET bodyBytes == [i \in 1 .. len |-> i]
            chunks == BuildChunkedBodyResponses(bodyBytes, setEos, limit)
        IN  /\ chunks = Chunks(bodyBytes, setEos, limit)
            /\ FlattenSeq([i \in DOMAIN chunks |-> chunks[i].body]) = bodyBytes
            /\ Len(chunks) >= 1
            /\ \A i \in DOMAIN chunks : /\ Len(chunks[i].body) <= limit
                                        /\ chunks[i].eos = (setEos /\ i = Len(chunks))
=============================================================================
