-------------------------- MODULE MCModelSelector --------------------------
(***************************************************************************)
(* Two model names, one of them with a second object to be registered      *)
(* again, and pipelines that use every scorer and every picker.            *)
(***************************************************************************)
EXTENDS ModelSelector

CONSTANTS m1, m2, m3, a, b, s1, s2

MCNameOf == m1 :> a @@ m2 :> b @@ m3 :> b

Config(filter, scorers, picker) == [filter |-> filter, scorers |-> scorers, picker |-> picker]
W(kind, weight) == [kind |-> kind, weight |-> weight]

MCPipelines == {
    Config(TRUE, <<W("cost", 1), W("inflight", 1)>>, "max-score"),
    Config(FALSE, <<W("cost", 1), W("session", 2)>>, "max-score"),
    Config(FALSE, <<W("costguard", 1), W("inflight", 2), W("session", 1)>>, "weighted-random"),
    Config(TRUE, <<>>, "random")}

\* Scale-ths tell the prices and the counts of this instance apart.
ASSUME ScaleIsFine == FineEnough

\* The two objects named b, and the two sessions, play the same part.
SelectorSymmetry == Permutations({m2, m3}) \cup Permutations({s1, s2})
=============================================================================
