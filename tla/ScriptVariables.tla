--------------------------- MODULE ScriptVariables ---------------------------
(***************************************************************************)
(* The variables of the two scripts of a request: the pm object of the     *)
(* Node process (runner/src/pm.js, executor.js) works on a copy of what it *)
(* was given; the agent hands what the pre-request script left on to the   *)
(* post-response script, and answers with what both left (agent/send.go).  *)
(* A call of the pm object is a step.  What references in values mean is   *)
(* in ResolveVariables.                                                    *)
(***************************************************************************)
EXTENDS Naturals, Sequences, FiniteSets, Functions

CONSTANTS
  ScriptKeys,
  ScriptValues,      \* sequences of text and references
  MaxOps       \* bound: calls of the pm object

Scopes == {"globals", "collectionVariables", "environment"}
NoValue == <<"undefined">>   \* what get returns when there is none; no script stores it

ASSUME ScriptsAssumption == NoValue \notin ScriptValues

VARIABLES
  event,          \* the script that runs, or "done"
  given,          \* the variables of the request
  mutations,      \* the copy the script works on
  dataRow,        \* ctx.iterationData
  iterationData,  \* _iterData, the script's copy of it
  preResult,      \* what the pre-request script left; <<>> if it did not return
  answer,         \* the mutations of the answer
  ops

scriptVars == <<event, given, mutations, dataRow, iterationData, preResult, answer, ops>>

Maps == UNION {[d -> ScriptValues] : d \in SUBSET ScriptKeys}
NoMaps == [s \in Scopes |-> <<>>]

ScriptsInit ==
  /\ given \in [Scopes -> Maps] /\ mutations = given
  /\ dataRow \in Maps /\ iterationData = dataRow
  /\ event \in {"prerequest", "test"}   \* a request may have no pre-request script
  /\ preResult = NoMaps /\ answer = NoMaps /\ ops = 0

(***************************************************************************)
(* The pm object.                                                          *)
(***************************************************************************)
Get(map, k) == IF k \in DOMAIN map THEN map[k] ELSE NoValue

(* One map over another one: what the first one has wins.                  *)
Over(map, under) ==
  [k \in DOMAIN map \cup DOMAIN under |-> IF k \in DOMAIN map THEN map[k] ELSE under[k]]

Set(s, k, v) == mutations' = [mutations EXCEPT ![s] = Over([j \in {k} |-> v], @)] /\ UNCHANGED iterationData
Unset(s, k) ==
  mutations' = [mutations EXCEPT ![s] = Restrict(@, DOMAIN @ \ {k})] /\ UNCHANGED iterationData
Clear(s) == mutations' = [mutations EXCEPT ![s] = <<>>] /\ UNCHANGED iterationData
UnsetData(k) ==
  iterationData' = Restrict(iterationData, DOMAIN iterationData \ {k}) /\ UNCHANGED mutations

(* pm.variables: get looks in one after the other, toObject merges them,   *)
(* set writes a collection variable.                                       *)
FirstOf(maps, k) ==
  IF \E n \in DOMAIN maps : k \in DOMAIN maps[n]
  THEN maps[CHOOSE n \in DOMAIN maps :
              k \in DOMAIN maps[n] /\ \A m \in 1..(n - 1) : k \notin DOMAIN maps[m]][k]
  ELSE NoValue

(* Mutant: the collection before the environment.                          *)
VariablesGetCollectionFirst(k) ==
  FirstOf(<<iterationData, mutations["collectionVariables"], mutations["environment"], mutations["globals"]>>, k)

VariablesGet(k) ==
  FirstOf(<<iterationData, mutations["environment"], mutations["collectionVariables"], mutations["globals"]>>, k)
VariablesHas(k) == k \in DOMAIN iterationData \cup UNION {DOMAIN mutations[s] : s \in Scopes}
VariablesToObject ==
  Over(iterationData,
       Over(mutations["environment"], Over(mutations["collectionVariables"], mutations["globals"])))
VariablesSet(k, v) == Set("collectionVariables", k, v)

(* replaceIn: one round only, and with the data row the script was given.  *)
Interpolate(k) ==
  FirstOf(<<dataRow, mutations["environment"], mutations["collectionVariables"], mutations["globals"]>>, k)

PmCall ==
  /\ event # "done" /\ ops < MaxOps /\ ops' = ops + 1
  /\ \/ \E s \in Scopes, k \in ScriptKeys, v \in ScriptValues : Set(s, k, v)
     \/ \E k \in ScriptKeys, v \in ScriptValues : VariablesSet(k, v)
     \/ \E s \in Scopes, k \in ScriptKeys : Unset(s, k)
     \/ \E s \in Scopes : Clear(s)
     \/ \E k \in ScriptKeys : UnsetData(k)
  /\ UNCHANGED <<event, given, dataRow, preResult, answer>>

(***************************************************************************)
(* The agent.  A script that throws has left what it had set; one that     *)
(* timed out has left nothing.                                             *)
(***************************************************************************)
(* Mutant: what the pre-request script left wins.                          *)
MergeMutationsPreWins(pre, test) == [s \in Scopes |-> Over(pre[s], test[s])]

(* What the post-response script left wins; nothing is ever taken away.    *)
MergeMutations(pre, test) == [s \in Scopes |-> Over(test[s], pre[s])]

PreRequestReturns(left) ==
  /\ event = "prerequest" /\ preResult' = left
  /\ \/ event' = "test" /\ mutations' = MergeMutations(given, left) /\ UNCHANGED answer
     \/ event' = "done" /\ answer' = left /\ UNCHANGED mutations   \* no test script, or skipRequest
  /\ iterationData' = dataRow /\ UNCHANGED <<given, dataRow, ops>>

TestReturns(left) ==
  /\ event = "test" /\ event' = "done"
  /\ answer' = MergeMutations(preResult, left)
  /\ UNCHANGED <<given, mutations, dataRow, iterationData, preResult, ops>>

ScriptReturns == PreRequestReturns(mutations) \/ TestReturns(mutations)
ScriptTimesOut == PreRequestReturns(NoMaps) \/ TestReturns(NoMaps)

ScriptsNext == PmCall \/ ScriptReturns \/ ScriptTimesOut

ScriptsSpec == ScriptsInit /\ [][ScriptsNext]_scriptVars
-----------------------------------------------------------------------------
ScriptsTypeOK ==
  /\ event \in {"prerequest", "test", "done"}
  /\ given \in [Scopes -> Maps] /\ mutations \in [Scopes -> Maps]
  /\ preResult \in [Scopes -> Maps] /\ answer \in [Scopes -> Maps]
  /\ dataRow \in Maps /\ iterationData \in Maps

(***************************************************************************)
(* pm.variables says one thing, whichever way it is asked: get, has,       *)
(* toObject and a reference in replaceIn agree.  (A reference still sees a *)
(* data column the script has unset.)                                      *)
(***************************************************************************)
ViewsAgree ==
  event # "done" =>
    \A k \in ScriptKeys :
      /\ VariablesGet(k) = Get(VariablesToObject, k)
      /\ VariablesHas(k) <=> VariablesGet(k) # NoValue
      /\ VariablesGet(k) = Interpolate(k) \/ k \in DOMAIN dataRow \ DOMAIN iterationData

(***************************************************************************)
(* What the last script that returned has in its variables is what the     *)
(* answer brings.  Beyond that it only has what the pre-request script     *)
(* left and the other one unset: an unset is never reported.               *)
(***************************************************************************)
AnswerIsLastView ==
  [][(event = "test" /\ event' = "done") =>
       \A left \in {mutations, NoMaps} : TestReturns(left) =>
         \A s \in Scopes :
           /\ \A k \in DOMAIN left[s] : Get(answer'[s], k) = left[s][k]
           /\ \A k \in DOMAIN answer'[s] \ DOMAIN left[s] : Get(preResult[s], k) = answer'[s][k]]_scriptVars
=============================================================================
