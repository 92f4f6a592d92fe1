---------------------------- MODULE MCDatalayer ----------------------------
(***************************************************************************)
(* Small instances of the data layer for TLC.                              *)
(***************************************************************************)
EXTENDS Datalayer, TLC

CONSTANTS r1, r2, m1, m2, plain, grouped

\* A model that gains and loses its groups, a model that comes and goes, and a
\* file seen half written.
TwoModelFiles == {m1 :> plain @@ m2 :> None, m1 :> grouped @@ m2 :> plain, Malformed}

\* An OpenAI report, and one whose Gemini part is unusable and hides it.
OpenAI == [f \in UsageFields |-> CASE f = "prompt_tokens" -> 2
                                   [] f = "completion_tokens" -> 1 [] OTHER -> None]
TwoBodies == {OpenAI, [OpenAI EXCEPT !["promptTokenCount"] = 0]}

\* Both ask for the model that comes and goes, the first for more tokens than
\* the second, or the second asks the other one with a negative max_tokens.
TwoAsked == r1 :> {m2} @@ r2 :> {m1, m2}
TwoMaxTokens == r1 :> (m1 :> 0 @@ m2 :> 2) @@ r2 :> (m1 :> -2 @@ m2 :> 1)

OneAsked == r1 :> {m1}
OneMaxTokens == r1 :> (m1 :> 1)
OneModelFiles == {m1 :> plain, m1 :> None, Malformed}
=============================================================================
