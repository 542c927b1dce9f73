--------------------------- MODULE VariableScopes ---------------------------
(***************************************************************************)
(* The variables of the front end: the rows of store/workspace.ts that the *)
(* globals, environment and collection panes edit, the map of keys and     *)
(* values a request sees of them (hooks/use-variable-scope.ts), and the    *)
(* write-back of what a script left (request-pane.tsx).                    *)
(***************************************************************************)
EXTENDS Naturals, SequencesExt

CONSTANTS
  Globals, EnvironmentIds, CollectionIds,  \* who owns variables
  Keys, Values,  \* what a row may hold beside Empty
  Empty          \* the empty string

Owners == {Globals} \cup EnvironmentIds \cup CollectionIds

ASSUME ScopesAssumption ==
  /\ Globals \notin EnvironmentIds \cup CollectionIds
  /\ EnvironmentIds \cap CollectionIds = {}
  /\ Empty \notin Keys \cup Values

VARIABLES
  owners,  \* the environments and collections there are, and the globals
  rows     \* the rows of each

scopeVars == <<owners, rows>>

Row == [enabled : BOOLEAN, key : Keys \cup {Empty},
        initialValue : Values \cup {Empty}, currentValue : Values \cup {Empty}]

EmptyRow == [enabled |-> TRUE, key |-> Empty, initialValue |-> Empty, currentValue |-> Empty]

(* What the rows of an owner say: a row counts if it is enabled and has a  *)
(* key, the last one of a key wins, and an empty current value is none.    *)
Counts(r) == r.enabled /\ r.key # Empty
ValueOf(r) == IF r.currentValue = Empty THEN r.initialValue ELSE r.currentValue
ScopeMap(s) ==
  [k \in {s[n].key : n \in {m \in DOMAIN s : Counts(s[m])}} |->
     ValueOf(s[CHOOSE n \in DOMAIN s :
                 /\ Counts(s[n]) /\ s[n].key = k
                 /\ \A m \in DOMAIN s : Counts(s[m]) /\ s[m].key = k => m <= n])]

(* Mutant: the initial value is written.                                   *)
PatchRowInitial(r, v) == [r EXCEPT !.initialValue = v]

PatchRow(r, v) == [r EXCEPT !.currentValue = v]
NewRow(k, v) == [enabled |-> TRUE, key |-> k, initialValue |-> v, currentValue |-> v]

(* patchVarList: the first row of a key takes the value, whether it counts *)
(* or not, and the keys without a row get one.  No row goes.               *)
IsFirst(s, n) == \A m \in DOMAIN s : s[m].key = s[n].key => n <= m
Missing(s, map) == {k \in DOMAIN map : \A n \in DOMAIN s : s[n].key # k}
PatchVarList(s, map) ==
  LET missing == SetToSeq(Missing(s, map)) IN
  [n \in DOMAIN s |-> IF s[n].key \in DOMAIN map /\ IsFirst(s, n)
                     THEN PatchRow(s[n], map[s[n].key]) ELSE s[n]]
    \o [n \in DOMAIN missing |-> NewRow(missing[n], map[missing[n]])]

ScopesInit == owners = Owners /\ rows = [o \in Owners |-> <<>>]

AddVariable(o) ==
  /\ o \in owners /\ rows' = [rows EXCEPT ![o] = Append(@, EmptyRow)]
  /\ UNCHANGED owners

UpdateVariable(o, n, field, value) ==
  /\ o \in owners /\ n \in DOMAIN rows[o]
  /\ rows' = [rows EXCEPT ![o][n][field] = value]
  /\ UNCHANGED owners

DeleteVariable(o, n) ==
  /\ o \in owners /\ n \in DOMAIN rows[o]
  /\ rows' = [rows EXCEPT ![o] = RemoveAt(@, n)]
  /\ UNCHANGED owners

DeleteOwner(o) ==
  /\ o \in owners \ {Globals}
  /\ owners' = owners \ {o} /\ rows' = [rows EXCEPT ![o] = <<>>]

(* applyVariableMutations, in one update of the store: the globals, the    *)
(* environment and the collection that were meant, if they still exist.    *)
Apply(mutations) ==
  /\ rows' = [o \in Owners |->
                IF o \in owners \cap DOMAIN mutations
                THEN PatchVarList(rows[o], mutations[o]) ELSE rows[o]]
  /\ UNCHANGED owners
=============================================================================
