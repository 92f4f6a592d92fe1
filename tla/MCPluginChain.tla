--------------------------- MODULE MCPluginChain ---------------------------
(***************************************************************************)
(* PluginChain with the two routing headers and the model field.  The      *)
(* model j2 is an adapter of j1; j0 is the empty JSON string.              *)
(***************************************************************************)
EXTENDS PluginChain, TLC

CONSTANTS j0, j1, j2

MCModelField == "model"
MCModelHeader == "X-Gateway-Model-Name"
MCBaseHeader == "X-Gateway-Base-Model-Name"
MCHeaderNames == {MCModelHeader, MCBaseHeader}
MCHeaderValues == {"", "m1", "m2"}
MCBodyFields == {MCModelField}
MCBodyValues == {j0, j1, j2}
MCModels == {j1, j2}
MCSprint == j0 :> "" @@ j1 :> "m1" @@ j2 :> "m2"
MCEmptyString == ""
MCBaseModelOf == "" :> "" @@ "m1" :> "m1" @@ "m2" :> "m1"
=============================================================================
