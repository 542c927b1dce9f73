------------------------- MODULE MCScriptVariables -------------------------
(* Three global variables whose values are text, or refer to one another,  *)
(* once or twice: chains, cycles, shared references; no script touches     *)
(* them.  Or one, that may be in the environment and in the data row too,  *)
(* and MaxOps calls of the pm object.                                      *)
EXTENDS ResolveVariables

CONSTANT a

MCScriptsInit ==
  /\ given \in [Scopes -> Maps]
  /\ given["collectionVariables"] = <<>>
  /\ \/ /\ DOMAIN given["globals"] = ScriptKeys /\ given["environment"] = <<>> /\ dataRow = <<>>
        /\ ops = MaxOps
     \/ /\ DOMAIN given["globals"] = {a} /\ ops = 0
        /\ given["environment"] \in {<<>>, [k \in {a} |-> <<"x">>]} /\ dataRow \in {<<>>, [k \in {a} |-> <<"x">>]}
  /\ mutations = given /\ iterationData = dataRow
  /\ event \in {"prerequest", "test"}
  /\ preResult = NoMaps /\ answer = NoMaps
=============================================================================
