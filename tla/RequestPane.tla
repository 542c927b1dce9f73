---------------------------- MODULE RequestPane ----------------------------
(***************************************************************************)
(* components/layout/request-pane.tsx: sending a request, and what its     *)
(* answer does to the tabs and, when a script set variables, to the        *)
(* variables.  While it is under way the user goes on: edits variables,    *)
(* sends from other tabs, duplicates and closes tabs, changes the          *)
(* environment, or loads the page again.                                   *)
(*                                                                         *)
(* A click on Send captures the tab, the environment, the collection and   *)
(* their variables; the answer works with those.  The agent (SendCancel)   *)
(* runs the scripts on a copy of these variables and answers with all of   *)
(* them.                                                                   *)
(***************************************************************************)
EXTENDS Tabs, VariableScopes

CONSTANTS
  Requests, HomeOf,  \* the saved requests, and the collection each is in
  MaxActs, MaxSends, MaxRows  \* bounds: acts of the user, sends under way, rows of an owner

ASSUME PaneAssumption == HomeOf \in [Requests -> CollectionIds]

VARIABLES
  activeEnvironmentId,
  sends,   \* a sequence of the sends under way
  acts

vars == <<tabVars, scopeVars, activeEnvironmentId, sends, acts>>

Act == acts < MaxActs /\ acts' = acts + 1

Init ==
  /\ TabsInit /\ ScopesInit
  /\ activeEnvironmentId \in EnvironmentIds \cup {None}
  /\ sends = <<>> /\ acts = 0

Busy == {sends[n].tab : n \in DOMAIN sends}

(* The collection of a tab.                                                *)
CollectionId(t) == IF t.item \in Requests /\ HomeOf[t.item] \in owners THEN HomeOf[t.item] ELSE None

(* useVariableScope: whose variables a request sees, and with which value; *)
(* the environment before the collection before the globals.               *)
InScope(env, coll) == {Globals} \cup ({env, coll} \cap owners)
Scope(env, coll) == [o \in InScope(env, coll) |-> ScopeMap(rows[o])]

(***************************************************************************)
(* Send is disabled while the tab is sending.                              *)
(***************************************************************************)
HandleSend ==
  LET t == ActiveTab
      coll == CollectionId(t)
  IN /\ tabs # <<>> /\ t.type = "request" /\ ~t.isSending /\ Len(sends) < MaxSends
     /\ UpdateTab(activeTabId, LAMBDA u : [u EXCEPT !.isSending = TRUE, !.response = None])
     /\ sends' = Append(sends, [tab |-> activeTabId, env |-> activeEnvironmentId, coll |-> coll,
                                variables |-> Scope(activeEnvironmentId, coll)])
     /\ UNCHANGED <<scopeVars, activeEnvironmentId>>

(* What a script does to the variables of one kind: pm.environment.set and *)
(* so on, or unset.                                                        *)
SetKey(map, key, v) == [k \in DOMAIN map \cup {key} |-> IF k = key THEN v ELSE map[k]]
UnsetKey(map, key) == [k \in DOMAIN map \ {key} |-> map[k]]

(* What the scripts did to them: nothing, or one was set or unset.  The    *)
(* answer has the variables that are left.                                 *)
ScriptLeft(m) ==
  {m.variables} \cup
  {[m.variables EXCEPT ![o] = SetKey(@, key, v)] : o \in DOMAIN m.variables, key \in Keys, v \in Values}
  \cup
  {[m.variables EXCEPT ![o] = UnsetKey(@, key)] : o \in DOMAIN m.variables, key \in Keys}

(* Mutant: to the environment that is active when the answer comes.        *)
ApplyVariableMutationsNow(m, left) ==
  Apply([o \in InScope(activeEnvironmentId, m.coll) |->
           IF o = activeEnvironmentId THEN IF m.env \in DOMAIN left THEN left[m.env] ELSE <<>>
           ELSE left[o]])

(* The write-back, to the environment and the collection of the click.     *)
ApplyVariableMutations(m, left) == Apply(left)

Finish(n, Change(_)) ==
  /\ UpdateTab(sends[n].tab, Change)
  /\ sends' = RemoveAt(sends, n)
  /\ UNCHANGED activeEnvironmentId

Answered(n, left) ==
  /\ ApplyVariableMutations(sends[n], left)
  /\ Finish(n, LAMBDA t : [t EXCEPT !.isSending = FALSE, !.response = "response"])

(* Mutant: the error is shown and nothing else.                            *)
FailedStaysSending(n) == Finish(n, LAMBDA t : t) /\ UNCHANGED scopeVars

(* The catch: an error of the agent, of the network, or a body that is not *)
(* JSON.                                                                   *)
Failed(n) == Finish(n, LAMBDA t : [t EXCEPT !.isSending = FALSE]) /\ UNCHANGED scopeVars

(***************************************************************************)
(* What the user does meanwhile: in the tabs, in the panes of the globals, *)
(* of an environment and of a collection, in the header, in the side       *)
(* panel.                                                                  *)
(***************************************************************************)
UseTabs ==
  /\ \/ \E id \in OpenIds : SetActiveTab(id) \/ DuplicateTab(id, Busy) \/ CloseTab(id)
     \/ ReopenLastClosedTab(Busy) \/ OpenNewTab(Busy)
     \/ \E r \in Requests : OpenRequestTab(r, Busy)
  /\ UNCHANGED <<scopeVars, activeEnvironmentId, sends>>

EditRow(o, n) ==
  \/ \E b \in BOOLEAN : UpdateVariable(o, n, "enabled", b)
  \/ \E k \in Keys \cup {Empty} : UpdateVariable(o, n, "key", k)
  \/ \E v \in Values \cup {Empty} : UpdateVariable(o, n, "initialValue", v)
  \/ \E v \in Values \cup {Empty} : UpdateVariable(o, n, "currentValue", v)
  \/ DeleteVariable(o, n)

VariablePane(o) ==
  /\ \/ Len(rows[o]) < MaxRows /\ AddVariable(o)
     \/ \E n \in DOMAIN rows[o] : EditRow(o, n)
  /\ UNCHANGED <<tabVars, activeEnvironmentId, sends>>

GlobalsPane == VariablePane(Globals)
EnvironmentPane == \E e \in EnvironmentIds : VariablePane(e)
VariablesTab == \E c \in CollectionIds : VariablePane(c)

SelectEnvironment ==
  /\ \E e \in (EnvironmentIds \cap owners) \cup {None} : activeEnvironmentId' = e
  /\ UNCHANGED <<tabVars, scopeVars, sends>>

SidePanel ==
  /\ \E o \in EnvironmentIds \cup CollectionIds :
       DeleteOwner(o) /\ activeEnvironmentId' = IF o = activeEnvironmentId THEN None ELSE activeEnvironmentId
  /\ UNCHANGED <<tabVars, sends>>

(* The globals are in no store that outlives the page.                     *)
Reload ==
  /\ RestoreTabs /\ sends' = <<>>
  /\ rows' = [rows EXCEPT ![Globals] = <<>>]
  /\ UNCHANGED <<owners, activeEnvironmentId>>

UserAct ==
  HandleSend \/ UseTabs \/ GlobalsPane \/ EnvironmentPane \/ VariablesTab
    \/ SelectEnvironment \/ SidePanel \/ Reload

Next ==
  \/ UserAct /\ Act
  \/ /\ \E n \in DOMAIN sends : Failed(n) \/ \E left \in ScriptLeft(sends[n]) : Answered(n, left)
     /\ UNCHANGED acts

Spec == Init /\ [][Next]_vars
-----------------------------------------------------------------------------
TypeOK ==
  /\ \A n \in DOMAIN tabs : tabs[n].id \in TabIds /\ tabs[n].isSending \in BOOLEAN
  /\ DistinctIds /\ Len(closedTabs) <= MaxClosed
  /\ owners \subseteq Owners /\ rows \in [Owners -> Seq(Row)]
  /\ activeEnvironmentId \in EnvironmentIds \cup {None}
  /\ Busy \subseteq TabIds

RowsOf(o, k) == {n \in DOMAIN rows[o] : rows[o][n].key = k}

(***************************************************************************)
(* However late an answer comes, it only changes the current value of a    *)
(* variable it names, in the globals and in the environment and the        *)
(* collection that were meant at the click, although the user has since    *)
(* changed the environment, the tab or the rows.                           *)
(***************************************************************************)
WritesHome ==
  [][\A n \in DOMAIN sends : \A left \in ScriptLeft(sends[n]) : Answered(n, left) =>
       \A o \in Owners :
         /\ o \notin {Globals, sends[n].env, sends[n].coll} => UNCHANGED rows[o]
         /\ \A m \in DOMAIN rows[o] :
              \/ UNCHANGED rows[o][m]
              \/ /\ rows[o][m].key \in DOMAIN left[o]
                 /\ rows'[o][m] = [rows[o][m] EXCEPT !.currentValue = left[o][rows[o][m].key]]]_vars

(***************************************************************************)
(* What a script has set is what the next request of that environment and  *)
(* collection sees: if the key has one row and it is enabled, or none.     *)
(* With a disabled row of the key, or two rows, it is not.                 *)
(***************************************************************************)
ScriptWriteSeen ==
  [][\A n \in DOMAIN sends : \A left \in ScriptLeft(sends[n]) : Answered(n, left) =>
       \A o \in DOMAIN left \cap owners : \A k \in DOMAIN left[o] :
         /\ left[o][k] # Empty
         /\ RowsOf(o, k) = {} \/ \E m \in DOMAIN rows[o] : RowsOf(o, k) = {m} /\ rows[o][m].enabled
         => ScopeMap(rows'[o])[k] = left[o][k]]_vars

(***************************************************************************)
(* A tab that waits for an answer nobody will give it: only a copy, made   *)
(* by duplicating or reopening while the request was under way, can be in  *)
(* that state.  (It stays in it until the page is loaded again.)           *)
(***************************************************************************)
StuckOnlyCopies ==
  [][\A n \in DOMAIN tabs' :
       LET t == tabs'[n] IN
       t.isSending /\ t.id \notin Busy' =>
         \/ t.id \notin OpenIds
         \/ t.id \notin Busy /\ tabs[Open(t.id)].isSending]_vars
=============================================================================
