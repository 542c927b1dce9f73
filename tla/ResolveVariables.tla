-------------------------- MODULE ResolveVariables --------------------------
(***************************************************************************)
(* The two resolvers of {{references}}: resolveRecursive of the front end  *)
(* (hooks/use-variable-scope.ts), with its memo and its guard against      *)
(* cycles, and Resolve of the engine (engine/variables/resolver.go), which *)
(* substitutes in rounds.  A value is a sequence; a script key in it is    *)
(* a reference, anything else is text.  Dynamic variables are left out.    *)
(***************************************************************************)
EXTENDS ScriptVariables
LOCAL INSTANCE SequencesExt
LOCAL INSTANCE TLC

RefsOf(value) == {value[n] : n \in DOMAIN value} \cap ScriptKeys

(* resolveValue: the keys in visiting are being resolved and left alone.   *)
RECURSIVE ResolveValue(_, _, _, _)
ResolveValue(raw, value, visiting, memo) ==
  FoldLeft(
    LAMBDA acc, token :
      IF token \notin DOMAIN raw \ visiting
      THEN [acc EXCEPT !.value = Append(@, token)]
      ELSE IF token \in DOMAIN acc.memo
      THEN [acc EXCEPT !.value = @ \o acc.memo[token]]
      ELSE LET r == ResolveValue(raw, raw[token], visiting \cup {token}, acc.memo) IN
           [value |-> acc.value \o r.value, memo |-> (token :> r.value) @@ r.memo],
    [value |-> <<>>, memo |-> memo], value)

(* Mutant: a key that has been resolved stays in visiting.                 *)
ResolveRecursiveKeepsVisiting(raw) ==
  [k \in DOMAIN raw |->
     FoldLeft(LAMBDA acc, token :
                IF token \in acc.visiting \/ token \notin DOMAIN raw
                THEN [acc EXCEPT !.value = Append(@, token)]
                ELSE [value |-> acc.value \o ResolveValue(raw, raw[token], acc.visiting \cup {token}, <<>>).value,
                      visiting |-> acc.visiting \cup {token}],
              [value |-> <<>>, visiting |-> {k}], raw[k]).value]

(* resolveRecursive: the keys in the order of the map.  What is found on   *)
(* the way is kept, also what was found inside a cycle.                    *)
ResolveRecursive(raw) ==
  FoldLeft(LAMBDA memo, k :
             IF k \in DOMAIN memo THEN memo
             ELSE LET r == ResolveValue(raw, raw[k], {k}, memo) IN (k :> r.value) @@ r.memo,
           <<>>, SetToSeq(DOMAIN raw))

(* Resolver.Resolve: every reference is replaced, at most ten times.       *)
MaxResolveDepth == 10
Substitute(raw, value) ==
  FlattenSeq([n \in DOMAIN value |-> IF value[n] \in DOMAIN raw THEN raw[value[n]] ELSE <<value[n]>>])
Resolve(raw, value) ==
  LET round[n \in 0..MaxResolveDepth] ==
        IF n = 0 THEN value ELSE Substitute(raw, round[n - 1])
  IN round[MaxResolveDepth]

(* The keys that resolving k comes to.                                     *)
Reached(raw, k) ==
  LET from[n \in Nat] ==
        IF n = 0 THEN RefsOf(raw[k]) \cap DOMAIN raw
        ELSE from[n - 1] \cup UNION {RefsOf(raw[j]) \cap DOMAIN raw : j \in from[n - 1]}
  IN from[Cardinality(ScriptKeys)]
InCycle(raw, k) == k \in Reached(raw, k)
-----------------------------------------------------------------------------
(***************************************************************************)
(* The value the front end shows and sends for a variable is the one the   *)
(* engine would put there ("consistent with what the Go engine does",      *)
(* docs/development.md), unless a cycle is behind it; then only members of *)
(* cycles are left as references.                                          *)
(***************************************************************************)
ResolvesLikeEngine ==
  LET raw == mutations["environment"] @@ mutations["collectionVariables"] @@ mutations["globals"]
      resolved == ResolveRecursive(raw)
  IN \A k \in DOMAIN raw :
       /\ (\A j \in Reached(raw, k) \cup {k} : ~InCycle(raw, j)) => resolved[k] = Resolve(raw, raw[k])
       /\ \A j \in RefsOf(resolved[k]) : j \notin DOMAIN raw \/ InCycle(raw, j)
=============================================================================
