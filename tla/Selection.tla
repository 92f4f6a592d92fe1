----------------------------- MODULE Selection -----------------------------
(***************************************************************************)
(* The loops that keep some elements of a list, in their order: the        *)
(* model-group filter over the candidates, and the configuration loader    *)
(* over references to plugins.                                             *)
(***************************************************************************)
EXTENDS Sequences, SequencesExt

\* The elements of s that are in S.
Selected(s, S) == FlattenSeq([i \in DOMAIN s |-> IF s[i] \in S THEN <<s[i]>> ELSE <<>>])
=============================================================================
