---------------------------- MODULE ChunkedBody ----------------------------
(***************************************************************************)
(* Splitting a body into streamed ext-proc chunks                          *)
(* (pkg/common/envoy/chunking.go).  A body is a sequence of bytes, a chunk *)
(* the StreamedBodyResponse [body, eos].                                   *)
(***************************************************************************)
EXTENDS Naturals, Sequences

Smaller(a, b) == IF a < b THEN a ELSE b

(***************************************************************************)
(* What the splitting computes, in closed form: equal slices of limit      *)
(* bytes, a shorter last one, and one empty chunk for an empty body.  The  *)
(* specifications of the handlers use this form.                           *)
(***************************************************************************)
Chunks(bodyBytes, setEos, limit) ==
    LET count == IF bodyBytes = <<>> THEN 1 ELSE (Len(bodyBytes) + limit - 1) \div limit
    IN  [i \in 1 .. count |->
           [body |-> SubSeq(bodyBytes, (i - 1) * limit + 1, Smaller(i * limit, Len(bodyBytes))),
            eos |-> setEos /\ i = count]]

(***************************************************************************)
(* The loop as it is written, a recursive function of startingIndex.       *)
(***************************************************************************)
BuildChunkedBodyResponses(bodyBytes, setEos, limit) ==
    LET bodyLen == Len(bodyBytes)
        from[startingIndex \in 0 .. bodyLen] ==
          IF startingIndex >= bodyLen THEN <<>>
          ELSE LET len == Smaller(bodyLen - startingIndex, limit)
               IN  <<[body |-> SubSeq(bodyBytes, startingIndex + 1, startingIndex + len),
                      eos |-> setEos /\ startingIndex + len >= bodyLen]>>
                     \o from[startingIndex + len]
    IN  IF bodyLen = 0 THEN <<[body |-> <<>>, eos |-> setEos]>> ELSE from[0]
=============================================================================
