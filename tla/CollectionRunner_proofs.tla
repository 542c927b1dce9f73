----------------------- MODULE CollectionRunner_proofs -----------------------
(***************************************************************************)
(* Theorems about module CollectionRunner: for every collection, whatever  *)
(* its scripts and targets do, with or without --bail and a deadline.      *)
(***************************************************************************)
EXTENDS CollectionRunner, Selection_proofs

InRequest == phase \in {"pre", "http", "test"}
GoesOn == InRequest \/ (phase = "loop" /\ pos <= Len(flat))
Failed(result) == result.kind \in {"failed", "error"}

IsList(s) == s \in Seq({s[i] : i \in DOMAIN s})

Typed ==
  /\ phase \in {"iterate", "loop", "pre", "http", "test", "done", "error"}
  /\ execCount \in Nat /\ IsList(current)
  /\ tally \in [Kinds -> Nat] /\ streamed \in [Kinds -> Nat]

(* Requests are counted when they begin, and in the list when they end.    *)
Counted ==
  /\ execCount <= MaxRequests
  /\ InRequest => execCount = Len(current) + 1
  /\ phase = "loop" => execCount = Len(current)

(* With --bail there is a request to come only if none has failed.         *)
CleanSoFar == bail /\ GoesOn => \A i \in 1 .. Len(current) : ~Failed(current[i])

(* The request under way, or to come, is the one the last result led to.   *)
Led(s, p) ==
  IF Len(s) = 0 THEN p = 1 ELSE s[Len(s)].next # Stop /\ p = Follower(s[Len(s)])
Arrived == GoesOn => Led(current, pos)

IInv ==
  Typed /\ Counted /\ CleanSoFar /\ LoopBounded /\ BailStops /\ StreamAgrees /\ IterationsIsolated

-----------------------------------------------------------------------------
(* Lists and the outcomes in them.                                         *)
LEMMA EmptyList == IsList(<<>>) /\ Len(<<>>) = 0
BY DEF IsList

LEMMA SingleList ==
  ASSUME NEW r
  PROVE  IsList(<<r>>) /\ Len(<<r>>) = 1 /\ <<r>>[1] = r
BY DEF IsList

LEMMA AppendList ==
  ASSUME NEW s, IsList(s), NEW r
  PROVE  /\ IsList(Append(s, r)) /\ Len(s) \in Nat /\ Len(Append(s, r)) = Len(s) + 1
         /\ \A i \in 1 .. Len(s) : Append(s, r)[i] = s[i]
         /\ Append(s, r)[Len(s) + 1] = r
<1> DEFINE S == {s[i] : i \in DOMAIN s} \cup {r}
           t == Append(s, r)
<1>1. s \in Seq(S) /\ r \in S
  BY DEF IsList
<1>2. /\ Len(s) \in Nat /\ t \in Seq(S) /\ Len(t) = Len(s) + 1
      /\ \A i \in 1 .. Len(s) : t[i] = s[i]
      /\ t[Len(s) + 1] = r
  BY <1>1
<1>3. /\ t \in [1 .. Len(t) -> S] /\ DOMAIN t = 1 .. Len(t) /\ Len(t) \in Nat
  BY <1>2, LenProperties
<1>4. t \in Seq({t[j] : j \in DOMAIN t})
  <2> DEFINE T == {t[j] : j \in DOMAIN t}
  <2> HIDE DEF t
  <2>1. t = [i \in 1 .. Len(t) |-> t[i]] /\ \A i \in 1 .. Len(t) : t[i] \in T
    BY <1>3
  <2>2. t \in [1 .. Len(t) -> T]
    BY <2>1
  <2> QED BY <1>3, <2>2, SeqDef
<1> QED BY <1>2, <1>4 DEF IsList

Of(s, k) == {i \in 1 .. Len(s) : s[i].kind = k}

LEMMA OfFinite ==
  ASSUME NEW s, Len(s) \in Nat, NEW k
  PROVE  IsFiniteSet(Of(s, k)) /\ Cardinality(Of(s, k)) \in Nat
<1>1. IsFiniteSet(1 .. Len(s))
  <2>1. 1 \in Int /\ Len(s) \in Int
    OBVIOUS
  <2> QED BY ONLY <2>1, FS_Interval
<1>2. Of(s, k) \subseteq 1 .. Len(s)
  BY DEF Of
<1>3. IsFiniteSet(Of(s, k))
  BY <1>1, <1>2, FS_Subset
<1> QED BY <1>3, FS_CardinalityType

LEMMA OutcomesType ==
  ASSUME NEW s, IsList(s)
  PROVE  Outcomes(s) \in [Kinds -> Nat] /\ \A k \in Kinds : Outcomes(s)[k] = Cardinality(Of(s, k))
<1>1. Len(s) \in Nat
  BY AppendList
<1> QED BY <1>1, OfFinite DEF Outcomes, Of

LEMMA OutcomesEmpty == Outcomes(<<>>) = NoOutcomes
<1>1. \A k \in Kinds : Of(<<>>, k) = {}
  BY EmptyList DEF Of
<1>2. \A k \in Kinds : Outcomes(<<>>)[k] = 0
  BY <1>1, EmptyList, OutcomesType, FS_EmptySet
<1> QED BY <1>2 DEF Outcomes, NoOutcomes

(* One outcome more, that of the result.                                   *)
LEMMA OutcomesAppend ==
  ASSUME NEW s, IsList(s), NEW r
  PROVE  Outcomes(Append(s, r)) = Plus(Outcomes(s), Outcomes(<<r>>))
<1> DEFINE t == Append(s, r)
<1>1. IsList(t) /\ Len(s) \in Nat /\ Len(t) = Len(s) + 1
      /\ (\A i \in 1 .. Len(s) : t[i] = s[i]) /\ t[Len(s) + 1] = r
  BY AppendList
<1>2. IsList(<<r>>) /\ Len(<<r>>) = 1 /\ <<r>>[1] = r
  BY SingleList
<1>3. ASSUME NEW k \in Kinds
      PROVE  Cardinality(Of(t, k)) = Cardinality(Of(s, k)) + Cardinality(Of(<<r>>, k))
  <2>1. IsFiniteSet(Of(s, k)) /\ Cardinality(Of(s, k)) \in Nat
    BY <1>1, OfFinite
  <2>2. CASE r.kind = k
    <3>1. Of(t, k) = Of(s, k) \cup {Len(s) + 1} /\ Len(s) + 1 \notin Of(s, k)
      BY <1>1, <2>2 DEF Of
    <3>2. Of(<<r>>, k) = {1}
      BY <1>2, <2>2 DEF Of
    <3>3. Cardinality(Of(t, k)) = Cardinality(Of(s, k)) + 1
      BY <2>1, <3>1, FS_AddElement
    <3>4. Cardinality(Of(<<r>>, k)) = 1
      BY <3>2, FS_Singleton
    <3> QED BY <3>3, <3>4
  <2>3. CASE r.kind # k
    <3>1. Of(t, k) = Of(s, k)
      BY <1>1, <2>3 DEF Of
    <3>2. Of(<<r>>, k) = {}
      BY <1>2, <2>3 DEF Of
    <3>3. Cardinality(Of(<<r>>, k)) = 0
      BY <3>2, FS_EmptySet
    <3> QED BY <2>1, <3>1, <3>3
  <2> QED BY <2>2, <2>3
<1>4. \A k \in Kinds : Outcomes(t)[k] = Plus(Outcomes(s), Outcomes(<<r>>))[k]
  BY <1>1, <1>2, <1>3, OutcomesType DEF Plus
<1> QED BY <1>4 DEF Outcomes, Plus

LEMMA PlusFacts ==
  ASSUME NEW f \in [Kinds -> Nat], NEW g \in [Kinds -> Nat], NEW h \in [Kinds -> Nat]
  PROVE  /\ Plus(f, g) \in [Kinds -> Nat]
         /\ Plus(Plus(f, g), h) = Plus(f, Plus(g, h))
         /\ Plus(f, NoOutcomes) = f
BY DEF Plus, NoOutcomes

-----------------------------------------------------------------------------
(* The collection that is run is a list of requests of it.                 *)
LEMMA FlatFrom ==
  Len(flat) \in Nat /\ \A i \in 1 .. Len(flat) : \E x \in 1 .. Len(Items) : flat[i] = Items[x]
<1> DEFINE T == {Items[i] : i \in DOMAIN Items}
           S == {i \in 1 .. Len(Items) : Items[i].folder = Folder}
<1>1. Items \in Seq(T) /\ Len(Items) \in Nat
  BY ItemsAssumption, LenProperties
<1>2. CASE Folder = AnyFolder
  BY <1>1, <1>2 DEF flat
<1>3. CASE Folder # AnyFolder
  <2>1. flat = Among(Items, S)
    BY <1>3 DEF flat
  <2>2. S \in SUBSET (1 .. Len(Items))
    OBVIOUS
  <2> HIDE DEF S, T
  <2>3. IsSelection(flat, T, Items, S, Cardinality(S))
    BY <1>1, <2>1, <2>2, AmongSelects
  <2>4. PICK k : k = Cardinality(S)
    OBVIOUS
  <2>5. k \in Nat /\ Len(flat) = k /\ \A i \in 1 .. k : \E x \in S : flat[i] = Items[x]
    BY <2>3, <2>4 DEF IsSelection
  <2> QED BY <2>2, <2>5
<1> QED BY <1>2, <1>3

LEMMA FlatList ==
  /\ Len(flat) \in Nat
  /\ \A i \in 1 .. Len(flat) :
       flat[i].name \notin {None, Stop} /\ flat[i].pre \in Nat /\ flat[i].tests \in Nat
BY FlatFrom, ItemsAssumption

(* What runIteration computes is the one ScriptsDecideOrder means.         *)
LEMMA AfterFollows ==
  ASSUME NEW result
  PROVE  After(result) = Follower(result)
<1> DEFINE named == {i \in 1 .. Len(flat) : flat[i].name = result.next}
<1>1. named \in SUBSET Nat /\ 0 \notin named
  BY FlatList
<1>2. CASE named = {}
  BY <1>2 DEF After, Follower, FindRequest
<1>3. CASE named # {}
  <2>1. result.next # None
    BY <1>3, FlatList
  <2>2. FindRequest(result.next) = CHOOSE i \in named : \A j \in named : i <= j
    BY <1>3 DEF FindRequest, Min
  <2>3. (CHOOSE i \in named : \A j \in named : i <= j) \in named
    <3> HIDE DEF named
    <3> QED BY <1>1, <1>3, HasLeast
  <2>4. FindRequest(result.next) # 0
    BY <1>1, <2>2, <2>3
  <2> QED BY <1>3, <2>1, <2>2, <2>4 DEF After, Follower
<1> QED BY <1>2, <1>3

LEMMA InitIInv == Init => IInv
<1> SUFFICES ASSUME Init PROVE IInv
  OBVIOUS
<1> USE OptionsAssumption DEF Init
<1>1. NoOutcomes \in [Kinds -> Nat] /\ Plus(NoOutcomes, NoOutcomes) = NoOutcomes
  BY PlusFacts DEF NoOutcomes
<1>2. Typed /\ Counted
  BY <1>1, EmptyList DEF Typed, Counted, InRequest
<1>3. CleanSoFar /\ LoopBounded
  BY EmptyList DEF CleanSoFar, GoesOn, InRequest, LoopBounded
<1>4. BailStops
  BY EmptyList DEF BailStops, NoOutcomes, Kinds
<1>5. StreamAgrees /\ IterationsIsolated
  BY DEF StreamAgrees, IterationsIsolated
<1> QED BY <1>2, <1>3, <1>4, <1>5 DEF IInv

(* A request ends: whatever has happened to it, and whatever comes next.   *)
LEMMA RecordStep ==
  ASSUME IInv, InRequest, NEW kind \in Kinds, NEW named, Record(kind, named),
         UNCHANGED <<iter, execCount, tally, expired>>, writers' \subseteq writers \cup {iter}
  PROVE  IInv'
<1> DEFINE r == [request |-> pos, kind |-> kind, next |-> named]
<1>1. /\ current' = Append(current, r) /\ streamed' = Plus(streamed, Outcomes(<<r>>))
      /\ phase' = "loop" /\ bail' = bail
      /\ Stops(r) => pos' = Len(flat) + 1
  BY DEF Record, Streamed
<1>2. /\ IsList(current') /\ Len(current) \in Nat /\ Len(current') = Len(current) + 1
      /\ \A i \in 1 .. Len(current) : current'[i] = current[i]
      /\ current'[Len(current) + 1] = r
  BY <1>1, AppendList DEF IInv, Typed
<1>3. Outcomes(<<r>>) \in [Kinds -> Nat] /\ Outcomes(current) \in [Kinds -> Nat]
  <2>1. IsList(<<r>>)
    BY SingleList
  <2>2. IsList(current)
    BY DEF IInv, Typed
  <2> QED BY <2>1, <2>2, OutcomesType
<1>4. Typed'
  BY <1>1, <1>2, <1>3, PlusFacts DEF IInv, Typed
<1>5. Counted' /\ LoopBounded'
  BY <1>1, <1>2 DEF IInv, Counted, InRequest, LoopBounded
<1>6. bail => \A i \in 1 .. Len(current) : ~Failed(current[i])
  BY DEF IInv, CleanSoFar, GoesOn
<1>7. bail /\ Failed(r) => Stops(r)
  BY DEF Failed, Stops, Passed
<1>8. CleanSoFar'
  <2> SUFFICES ASSUME bail', GoesOn', NEW i \in 1 .. Len(current') PROVE ~Failed(current'[i])
    BY DEF CleanSoFar, Failed
  <2>1. bail /\ ~Stops(r)
    BY <1>1, FlatList DEF GoesOn, InRequest
  <2>2. CASE i = Len(current) + 1
    BY <1>2, <1>7, <2>1, <2>2
  <2>3. CASE i \in 1 .. Len(current)
    BY <1>2, <1>6, <2>1, <2>3
  <2> QED BY <1>2, <2>2, <2>3
<1>9. BailStops'
  <2>1. \A k \in {"failed", "error"} : bail => tally[k] = 0
    BY DEF IInv, BailStops, InRequest
  <2>2. \A i \in 1 .. Len(current') - 1 : current'[i] = current[i] /\ (bail => ~Failed(current[i]))
    BY <1>2, <1>6
  <2> QED BY <1>1, <2>1, <2>2 DEF BailStops, Failed
<1>10. StreamAgrees'
  <2>1. streamed = Plus(tally, Outcomes(current))
    BY DEF IInv, StreamAgrees, InRequest
  <2>2. Outcomes(current') = Plus(Outcomes(current), Outcomes(<<r>>))
    BY <1>1, OutcomesAppend DEF IInv, Typed
  <2>3. Plus(Plus(tally, Outcomes(current)), Outcomes(<<r>>)) =
          Plus(tally, Plus(Outcomes(current), Outcomes(<<r>>)))
    <3>1. tally \in [Kinds -> Nat]
      BY DEF IInv, Typed
    <3> HIDE DEF r
    <3> QED BY <1>3, <3>1, PlusFacts
  <2>4. streamed' = Plus(tally', Outcomes(current'))
    BY <1>1, <2>1, <2>2, <2>3
  <2> QED BY <1>1, <2>4 DEF StreamAgrees
<1>11. IterationsIsolated'
  BY DEF IInv, IterationsIsolated, InRequest
<1> QED BY <1>4, <1>5, <1>8, <1>9, <1>10, <1>11 DEF IInv

(* Steps that leave the lists alone, and neither begin nor end anything.   *)
Inside == PreScript \/ SendRequest \/ HttpAnswered \/ TestScript \/ BeginRequest
Ending == Limit \/ DelayCancelled \/ HttpAborted \/ Expire

LEMMA InsideStep ==
  ASSUME IInv, Inside
  PROVE  IInv'
<1>1. /\ UNCHANGED <<bail, pos, current, tally, streamed, iter, expired>>
      /\ phase \in {"loop", "pre", "http", "test"} /\ phase' \in {"pre", "http", "test"}
      /\ phase = "loop" => pos <= Len(flat) /\ ~LimitReached /\ execCount' = execCount + 1
      /\ phase # "loop" => execCount' = execCount
      /\ writers' \subseteq writers \cup {iter}
  BY DEF Inside, PreScript, SendRequest, HttpAnswered, TestScript, BeginRequest, perRequest
<1>2. Len(current) \in Nat
  BY AppendList DEF IInv, Typed
<1>3. Typed'
  BY <1>1 DEF IInv, Typed
<1>4. Counted' /\ LoopBounded'
  BY <1>1, <1>2, OptionsAssumption DEF IInv, Typed, Counted, LoopBounded, LimitReached, InRequest
<1>5. CleanSoFar'
  BY <1>1 DEF IInv, CleanSoFar, GoesOn, InRequest, Failed
<1>6. BailStops' /\ StreamAgrees'
  BY <1>1 DEF IInv, BailStops, StreamAgrees
<1>7. IterationsIsolated'
  BY <1>1 DEF IInv, IterationsIsolated
<1> QED BY <1>3, <1>4, <1>5, <1>6, <1>7 DEF IInv

LEMMA EndingStep ==
  ASSUME IInv, Ending
  PROVE  IInv'
<1> USE DEF IInv, Ending, Limit, DelayCancelled, HttpAborted, Expire, perRequest
<1>1. UNCHANGED <<bail, pos, current, tally, streamed, iter, execCount, writers>> /\ Len(current) \in Nat
  BY AppendList DEF Typed
<1>2. Typed'
  BY <1>1 DEF Typed
<1>3. Counted' /\ LoopBounded'
  BY <1>1, OptionsAssumption DEF Typed, Counted, LoopBounded, LimitReached, InRequest
<1>4. CleanSoFar'
  BY <1>1 DEF CleanSoFar, GoesOn, InRequest, Failed
<1>5. BailStops' /\ StreamAgrees'
  BY <1>1 DEF BailStops, StreamAgrees
<1>6. IterationsIsolated'
  BY <1>1 DEF IterationsIsolated
<1> QED BY <1>2, <1>3, <1>4, <1>5, <1>6

LEMMA BeginIterationStep ==
  ASSUME IInv, BeginIteration
  PROVE  IInv'
<1> USE DEF IInv, BeginIteration, perRequest
<1>1. Typed' /\ Counted' /\ LoopBounded'
  BY EmptyList, OptionsAssumption DEF Typed, Counted, LoopBounded, InRequest
<1>2. CleanSoFar' /\ IterationsIsolated'
  BY EmptyList DEF CleanSoFar, IterationsIsolated
<1>3. BailStops'
  BY EmptyList DEF BailStops
<1>4. StreamAgrees'
  BY OutcomesEmpty, PlusFacts DEF StreamAgrees, Typed
<1> QED BY <1>1, <1>2, <1>3, <1>4

LEMMA EndIterationStep ==
  ASSUME IInv, EndIteration
  PROVE  IInv'
<1> USE DEF IInv, EndIteration, perRequest
<1>1. Outcomes(current) \in [Kinds -> Nat] /\ Len(current) \in Nat
      /\ \A k \in Kinds : Outcomes(current)[k] = Cardinality(Of(current, k))
  BY OutcomesType, AppendList DEF Typed
<1>2. Typed'
  BY <1>1, PlusFacts DEF Typed
<1>3. Counted' /\ LoopBounded' /\ CleanSoFar' /\ IterationsIsolated'
  BY <1>1 DEF Counted, LoopBounded, CleanSoFar, GoesOn, InRequest, IterationsIsolated
<1>4. StreamAgrees'
  BY DEF StreamAgrees
<1>5. BailStops'
  <2>1. ASSUME NEW k \in {"failed", "error"}, bail, phase' # "done" PROVE tally'[k] = 0
    <3>1. Of(current, k) = {}
      BY <2>1 DEF Of, Passed
    <3>2. Outcomes(current)[k] = 0 /\ tally[k] = 0
      BY <1>1, <2>1, <3>1, FS_EmptySet DEF Kinds, BailStops
    <3> QED BY <1>1, <3>2 DEF Plus, Kinds
  <2> QED BY <2>1 DEF BailStops
<1> QED BY <1>2, <1>3, <1>4, <1>5

LEMMA EndRunStep ==
  ASSUME IInv, EndRun
  PROVE  IInv'
BY DEF IInv, EndRun, perRequest, Typed, Counted, InRequest, LoopBounded, CleanSoFar, GoesOn, BailStops,
       StreamAgrees, IterationsIsolated, Failed

(* The steps at which a request ends.                                      *)
Finishing == PreScriptSkips \/ PreScriptFails \/ AuthFails \/ HttpFails \/ TestScriptFails \/ EndRequest

LEMMA FinishingStep ==
  ASSUME IInv, Finishing
  PROVE  IInv'
<1> USE DEF InRequest, Kinds
<1>1. CASE PreScriptSkips
  BY <1>1, RecordStep DEF PreScriptSkips
<1>2. CASE PreScriptFails
  BY <1>2, RecordStep DEF PreScriptFails
<1>3. CASE AuthFails
  BY <1>3, RecordStep DEF AuthFails
<1>4. CASE HttpFails
  BY <1>4, RecordStep DEF HttpFails
<1>5. CASE TestScriptFails
  BY <1>5, RecordStep DEF TestScriptFails
<1>6. CASE EndRequest
  BY <1>6, RecordStep DEF EndRequest
<1> QED BY <1>1, <1>2, <1>3, <1>4, <1>5, <1>6 DEF Finishing

LEMMA Stutter == IInv /\ UNCHANGED vars => IInv'
BY DEF IInv, vars, perRequest, Typed, Counted, InRequest, LoopBounded, CleanSoFar, GoesOn, BailStops,
       StreamAgrees, IterationsIsolated, Failed

LEMMA Invariance == Spec => []IInv
<1>1. IInv /\ [Next]_vars => IInv'
  BY InsideStep, EndingStep, BeginIterationStep, EndIterationStep, EndRunStep, FinishingStep, Stutter
     DEF Next, RunStep, Inside, Ending, Finishing
<1> QED BY InitIInv, <1>1, PTL DEF Spec

-----------------------------------------------------------------------------
(* --bail: nothing is run after a failure, of whatever kind, neither in    *)
(* the iteration nor in the run.                                           *)
THEOREM BailStopsHolds == Spec => []BailStops
<1>1. IInv => BailStops
  BY DEF IInv
<1> QED BY Invariance, <1>1, PTL

(* A loop of setNextRequest ends at the limit, in an error.                *)
THEOREM LoopBoundedHolds == Spec => []LoopBounded
<1>1. IInv => LoopBounded
  BY DEF IInv
<1> QED BY Invariance, <1>1, PTL

(* The events that were streamed add up to the result of the run, at any   *)
(* moment and however it ends.                                             *)
THEOREM StreamAgreesHolds == Spec => []StreamAgrees
<1>1. IInv => StreamAgrees
  BY DEF IInv
<1> QED BY Invariance, <1>1, PTL

(* What an iteration leaves in its variables no other one sees.            *)
THEOREM IterationsIsolatedHolds == Spec => []IterationsIsolated
<1>1. IInv => IterationsIsolated
  BY DEF IInv
<1> QED BY Invariance, <1>1, PTL

-----------------------------------------------------------------------------
(* The order.  Each result led to the next one, and the last one to where  *)
(* the iteration is.                                                       *)
OrderInv == Arrived /\ ScriptsDecideOrder

LEMMA RecordOrder ==
  ASSUME IInv, OrderInv, InRequest, NEW kind, NEW named, Record(kind, named)
  PROVE  OrderInv'
<1> DEFINE r == [request |-> pos, kind |-> kind, next |-> named]
<1>1. /\ current' = Append(current, r) /\ phase' = "loop"
      /\ pos' = IF Stops(r) \/ named = Stop THEN Len(flat) + 1 ELSE Follower(r)
  BY AfterFollows DEF Record
<1>2. PICK k \in Nat :
        /\ k = Len(current) /\ Len(current') = k + 1
        /\ \A i \in 1 .. k : current'[i] = current[i]
        /\ current'[k + 1] = r
  <2>1. IsList(current)
    BY DEF IInv, Typed
  <2>2. Len(current) \in Nat /\ Len(current') = Len(current) + 1
        /\ (\A i \in 1 .. Len(current) : current'[i] = current[i]) /\ current'[Len(current) + 1] = r
    BY <1>1, <2>1, AppendList
  <2> QED BY <2>2
<1>3. Led(current, pos)
  BY DEF OrderInv, Arrived, GoesOn
<1>4. Arrived'
  <2> SUFFICES ASSUME GoesOn' PROVE Led(current', pos')
    BY DEF Arrived
  <2>1. pos' = Follower(r) /\ r.next # Stop
    BY <1>1, FlatList DEF GoesOn, InRequest
  <2> QED BY <1>2, <2>1 DEF Led
<1>5. ScriptsDecideOrder'
  <2>1. current'[1].request = 1
    <3>1. CASE k = 0
      BY <1>2, <1>3, <3>1 DEF Led
    <3>2. CASE k # 0
      <4>1. current # <<>>
        BY <1>2, <3>2, EmptyList
      <4> QED BY <1>2, <3>2, <4>1 DEF OrderInv, ScriptsDecideOrder
    <3> QED BY <3>1, <3>2
  <2>2. ASSUME NEW i \in 1 .. k
        PROVE  current'[i].next # Stop /\ current'[i + 1].request = Follower(current'[i])
    <3>1. CASE i = k
      <4>1. current'[i + 1].request = pos /\ current'[i] = current[i]
        BY <1>2, <3>1
      <4> QED BY <1>2, <1>3, <3>1, <4>1 DEF Led
    <3>2. CASE i # k
      <4>1. i \in 1 .. k - 1 /\ i + 1 \in 1 .. k
        BY <3>2
      <4>2. current'[i] = current[i] /\ current'[i + 1] = current[i + 1]
        BY <1>2, <4>1
      <4> QED BY <1>2, <4>1, <4>2 DEF OrderInv, ScriptsDecideOrder
    <3> QED BY <3>1, <3>2
  <2>3. Len(current') - 1 = k
    BY <1>2
  <2> QED BY <2>1, <2>2, <2>3 DEF ScriptsDecideOrder
<1> QED BY <1>4, <1>5 DEF OrderInv

LEMMA OrderStep ==
  ASSUME IInv, OrderInv, [Next]_vars
  PROVE  OrderInv'
<1>1. CASE Finishing
  <2>1. InRequest /\ \E kind, named : Record(kind, named)
    BY <1>1 DEF Finishing, PreScriptSkips, PreScriptFails, AuthFails, HttpFails, TestScriptFails,
                EndRequest, InRequest
  <2> QED BY <2>1, RecordOrder
<1>2. CASE BeginIteration
  <2>1. current' = <<>> /\ pos' = 1
    BY <1>2 DEF BeginIteration
  <2> QED BY <2>1, EmptyList DEF OrderInv, Arrived, Led, ScriptsDecideOrder
<1>3. CASE Inside \/ Ending \/ EndIteration \/ EndRun \/ UNCHANGED vars
  <2>1. UNCHANGED <<current, pos>> /\ (GoesOn' => GoesOn)
    BY <1>3 DEF Inside, PreScript, SendRequest, HttpAnswered, TestScript, BeginRequest, Ending, Limit,
                DelayCancelled, HttpAborted, Expire, EndIteration, EndRun, vars, perRequest, GoesOn, InRequest
  <2> QED BY <2>1 DEF OrderInv, Arrived, Led, ScriptsDecideOrder
<1> QED BY <1>1, <1>2, <1>3 DEF Next, RunStep, Inside, Ending, Finishing

LEMMA OrderHolds == Spec => []OrderInv
<1>1. Init => OrderInv
  BY EmptyList DEF Init, OrderInv, Arrived, Led, GoesOn, ScriptsDecideOrder
<1>2. IInv /\ OrderInv /\ [Next]_vars => OrderInv'
  BY OrderStep
<1> QED BY Invariance, <1>1, <1>2, PTL DEF Spec

(* The requests of an iteration are those the scripts before them named,   *)
(* and otherwise the collection's, one after the other.                    *)
THEOREM ScriptsDecideOrderHolds == Spec => []ScriptsDecideOrder
<1>1. OrderInv => ScriptsDecideOrder
  BY DEF OrderInv
<1> QED BY OrderHolds, <1>1, PTL

-----------------------------------------------------------------------------
(* Types.  A result, a target of setNextRequest and the end of a loop are  *)
(* what can put pos outside the list.                                      *)
InIteration == InRequest \/ phase = "loop"
Placed ==
  /\ InRequest => pos \in 1 .. Len(flat)
  /\ InIteration \/ phase = "error" => iter <= Iterations


Result == [request : 1 .. Len(flat), kind : Kinds, next : Nexts]

LEMMA FoundInside ==
  ASSUME NEW name
  PROVE  FindRequest(name) \in 0 .. Len(flat)
<1> DEFINE named == {i \in 1 .. Len(flat) : flat[i].name = name}
<1>1. named \in SUBSET Nat /\ Len(flat) \in Nat
  BY FlatList
<1>2. CASE named = {}
  BY <1>1, <1>2 DEF FindRequest
<1>3. CASE named # {}
  <2>1. FindRequest(name) = CHOOSE i \in named : \A j \in named : i <= j
    BY <1>3 DEF FindRequest, Min
  <2>2. (CHOOSE i \in named : \A j \in named : i <= j) \in named
    <3> HIDE DEF named
    <3> QED BY <1>1, <1>3, HasLeast
  <2>3. FindRequest(name) \in 1 .. Len(flat)
    BY <2>1, <2>2
  <2> QED BY <1>1, <2>3
<1> QED BY <1>2, <1>3

\* A request ends with a result, and the loop goes on in the list or stops.
LEMMA RecordType ==
  ASSUME TypeOK, Placed, InRequest, NEW kind \in Kinds, NEW named \in Nexts, Record(kind, named)
  PROVE  /\ bail' \in BOOLEAN /\ phase' = "loop" /\ pos' \in 1 .. Len(flat) + 1
         /\ current' \in Seq(Result) /\ streamed' \in [Kinds -> Nat]
<1> DEFINE r == [request |-> pos, kind |-> kind, next |-> named]
<1>1. pos \in 1 .. Len(flat) /\ Len(flat) \in Nat
  BY FlatList DEF Placed
<1>2. r \in Result
  BY <1>1 DEF Result
<1>3. current \in Seq(Result) /\ streamed \in [Kinds -> Nat] /\ bail \in BOOLEAN
  BY DEF TypeOK, Result
<1>4. Append(current, r) \in Seq(Result)
  BY <1>2, <1>3, AppendProperties
<1>5. Streamed(r) \in [Kinds -> Nat]
  <2>1. IsList(<<r>>)
    BY SingleList
  <2>2. Outcomes(<<r>>) \in [Kinds -> Nat]
    BY <2>1, OutcomesType
  <2> QED BY <1>3, <2>2, PlusFacts DEF Streamed
<1>6. After(r) \in 1 .. Len(flat) + 1
  <2>1. FindRequest(named) \in 0 .. Len(flat) /\ r.request = pos /\ r.next = named
    BY FoundInside
  <2> HIDE DEF r
  <2> QED BY <1>1, <2>1 DEF After
<1>7. /\ current' = Append(current, r) /\ streamed' = Streamed(r) /\ phase' = "loop" /\ bail' = bail
      /\ pos' = Len(flat) + 1 \/ pos' = After(r)
  BY DEF Record
<1> QED BY <1>1, <1>3, <1>4, <1>5, <1>6, <1>7

LEMMA FinishingType ==
  ASSUME TypeOK, Placed, Finishing
  PROVE  TypeOK' /\ Placed'
<1>1. /\ InRequest /\ UNCHANGED <<iter, execCount, script, test, next, tally, expired>>
      /\ writers' \subseteq writers \cup {iter}
      /\ \E kind \in Kinds : \E named \in Nexts : Record(kind, named)
  BY DEF Finishing, PreScriptSkips, PreScriptFails, AuthFails, HttpFails, TestScriptFails,
         EndRequest, InRequest, perRequest, Kinds, Nexts, TypeOK
<1>2. /\ bail' \in BOOLEAN /\ phase' = "loop" /\ pos' \in 1 .. Len(flat) + 1
      /\ current' \in Seq(Result) /\ streamed' \in [Kinds -> Nat]
  BY <1>1, RecordType
<1>3. iter \in 1 .. Iterations
  BY <1>1, OptionsAssumption DEF Placed, InIteration, TypeOK
<1>4. flat' = flat
  BY DEF flat
<1> QED BY <1>1, <1>2, <1>3, <1>4 DEF TypeOK, Placed, InIteration, InRequest, Result

\* Steps that leave the position and the lists alone.
LEMMA OtherType ==
  ASSUME TypeOK, Placed, Inside \/ Ending \/ EndRun \/ UNCHANGED vars
  PROVE  TypeOK' /\ Placed'
<1> USE DEF Inside, PreScript, SendRequest, HttpAnswered, TestScript, BeginRequest, Ending, Limit,
            DelayCancelled, HttpAborted, Expire, EndRun, vars, perRequest
<1>1. /\ UNCHANGED <<bail, pos, current, tally, streamed, iter>>
      /\ test' = test \/ test' = FALSE \/ test' = TRUE
      /\ expired' = expired \/ expired' = TRUE
      /\ phase' = phase \/ phase' \in {"pre", "http", "test", "done", "error"}
      /\ next' = next \/ next' \in Nexts
      /\ script' = script \/ script' = script + 1 \/ script' = 1
      /\ execCount' = execCount \/ (execCount' = execCount + 1 /\ ~LimitReached)
  BY DEF Nexts
<1>2. /\ InRequest' => InRequest \/ (phase = "loop" /\ pos <= Len(flat))
      /\ InIteration' \/ phase' = "error" => InIteration \/ phase = "error"
      /\ writers' \subseteq writers \cup {iter} /\ (writers' # writers => InIteration)
  BY DEF InRequest, InIteration
<1> HIDE DEF Inside, PreScript, SendRequest, HttpAnswered, TestScript, BeginRequest, Ending, Limit,
             DelayCancelled, HttpAborted, Expire, EndRun, vars, perRequest
<1>3. flat' = flat /\ Len(flat) \in Nat
  BY FlatList DEF flat
<1>4. InIteration => iter \in 1 .. Iterations
  BY OptionsAssumption DEF Placed, TypeOK
<1>5. writers' \subseteq 1 .. Iterations
  BY <1>2, <1>4 DEF TypeOK
<1>6. test' \in BOOLEAN /\ expired' \in BOOLEAN
  BY <1>1 DEF TypeOK
<1>7. /\ execCount' \in 0 .. MaxRequests /\ script' \in Nat /\ next' \in Nexts
      /\ phase' \in {"iterate", "loop", "pre", "http", "test", "done", "error"}
  BY <1>1, OptionsAssumption DEF TypeOK, LimitReached
<1>8. TypeOK'
  BY <1>1, <1>3, <1>5, <1>6, <1>7 DEF TypeOK
<1>9. Placed'
  BY <1>1, <1>2, <1>3 DEF Placed, TypeOK
<1> QED BY <1>8, <1>9

LEMMA BeginIterationType ==
  ASSUME TypeOK, Placed, BeginIteration
  PROVE  TypeOK' /\ Placed'
<1>1. flat' = flat /\ Len(flat) \in Nat /\ <<>> \in Seq(Result)
  BY FlatList, EmptySeq DEF flat
<1>2. TypeOK'
  BY <1>1, OptionsAssumption DEF BeginIteration, TypeOK, perRequest, Result
<1>3. Placed'
  BY <1>1 DEF BeginIteration, Placed, InIteration, InRequest
<1> QED BY <1>2, <1>3

LEMMA EndIterationType ==
  ASSUME TypeOK, Placed, EndIteration, IInv
  PROVE  TypeOK' /\ Placed'
<1>1. flat' = flat
  BY DEF flat
<1>2. iter' \in 1 .. Iterations + 1 /\ phase' \in {"done", "iterate"}
  BY OptionsAssumption DEF EndIteration, Placed, InIteration, TypeOK
<1>3. tally' \in [Kinds -> Nat]
  <2>1. Outcomes(current) \in [Kinds -> Nat] /\ tally \in [Kinds -> Nat]
    BY OutcomesType DEF IInv, Typed
  <2> QED BY <2>1, PlusFacts DEF EndIteration
<1>4. UNCHANGED <<bail, pos, execCount, script, test, next, current, streamed, writers, expired>>
  BY DEF EndIteration, perRequest
<1> QED BY <1>1, <1>2, <1>3, <1>4 DEF TypeOK, Placed, InIteration, InRequest

LEMMA TypeStep == IInv /\ TypeOK /\ Placed /\ [Next]_vars => TypeOK' /\ Placed'
BY FinishingType, OtherType, BeginIterationType, EndIterationType
   DEF Next, RunStep, Inside, Ending, Finishing

LEMMA TypeInit == Init => TypeOK /\ Placed
<1>1. Len(flat) \in Nat /\ <<>> \in Seq(Result)
  BY FlatList, EmptySeq
<1>2. NoOutcomes \in [Kinds -> Nat]
  BY DEF NoOutcomes
<1> SUFFICES ASSUME Init PROVE TypeOK /\ Placed
  OBVIOUS
<1>3. bail \in BOOLEAN /\ test \in BOOLEAN /\ expired \in BOOLEAN
  BY DEF Init
<1>4. iter \in 1 .. Iterations + 1 /\ pos \in 1 .. Len(flat) + 1 /\ execCount \in 0 .. MaxRequests
  BY <1>1, OptionsAssumption DEF Init
<1>5. TypeOK
  BY <1>1, <1>2, <1>3, <1>4 DEF Init, TypeOK, Nexts, Result
<1>6. Placed
  BY DEF Init, Placed, InIteration, InRequest
<1> QED BY <1>5, <1>6

LEMMA TypeHolds == Spec => [](IInv /\ TypeOK /\ Placed)
BY InitIInv, TypeInit, TypeStep, Invariance, PTL DEF Spec

(* Every variable keeps its type; above all, a request that is run is one  *)
(* of the list, whatever scripts pass to setNextRequest.                   *)
Positioned == TypeOK /\ Placed
THEOREM PositionedHolds == Spec => []Positioned
<1>1. IInv /\ TypeOK /\ Placed => Positioned
  BY DEF Positioned
<1> QED BY <1>1, TypeHolds, PTL

-----------------------------------------------------------------------------
(* Every run is finite.  What is left of it: iterations, requests of this  *)
(* one, stages of the request, scripts of the stage, the timer.            *)
IterationsLeft == Iterations + 1 - iter
RequestsLeft ==
  IF phase = "iterate" THEN MaxRequests + 2
  ELSE IF phase \in {"done", "error"} THEN 0 ELSE MaxRequests + 1 - execCount
StagesLeft == IF phase = "pre" THEN 3 ELSE IF phase = "http" THEN 2 ELSE IF phase = "test" THEN 1 ELSE 0
Remaining(n) == IF script <= n THEN n + 1 - script ELSE 0
ScriptsLeft ==
  IF phase = "pre" THEN Remaining(flat[pos].pre)
  ELSE IF phase = "test" THEN Remaining(flat[pos].tests) ELSE 0
TimersLeft == IF expired THEN 0 ELSE 1
Left == <<IterationsLeft, RequestsLeft, StagesLeft, ScriptsLeft, TimersLeft>>

NatLess == {p \in Nat \X Nat : p[1] < p[2]}
RunOrder == LexProductOrdering(NatLess, Nat, 5)

LEMMA RunOrderWellFounded == IsWellFoundedOn(RunOrder, [1 .. 5 -> Nat])
<1>1. ASSUME NEW T \in SUBSET Nat, T # {} PROVE \E x \in T : \A y \in T : ~(<<y, x>> \in NatLess)
  <2>1. PICK x \in T : \A y \in T : x <= y
    BY <1>1, HasLeast
  <2> QED BY <2>1 DEF NatLess
<1>2. IsWellFoundedOn(NatLess, Nat)
  BY <1>1, MinWF
<1> QED BY <1>2, WFLexProductOrdering DEF RunOrder

LEMMA LowerAt ==
  ASSUME NEW s \in [1 .. 5 -> Nat], NEW t \in [1 .. 5 -> Nat], NEW j \in 1 .. 5,
         \A i \in 1 .. (j - 1) : s[i] = t[i], s[j] < t[j]
  PROVE  <<s, t>> \in RunOrder
<1>1. <<s[j], t[j]>> \in NatLess
  BY DEF NatLess
<1> QED BY <1>1 DEF RunOrder, LexProductOrdering

LeftTyped ==
  /\ IterationsLeft \in Nat /\ RequestsLeft \in Nat /\ StagesLeft \in Nat /\ ScriptsLeft \in Nat
  /\ TimersLeft \in Nat

LEMMA LeftType ==
  ASSUME TypeOK, Placed
  PROVE  LeftTyped
<1>1. IterationsLeft \in Nat
  BY OptionsAssumption DEF IterationsLeft, TypeOK
<1>2. RequestsLeft \in Nat
  BY OptionsAssumption DEF RequestsLeft, TypeOK
<1>3. ScriptsLeft \in Nat
  <2>1. InRequest => flat[pos].pre \in Nat /\ flat[pos].tests \in Nat
    BY FlatList DEF Placed
  <2>2. \A n \in Nat : Remaining(n) \in Nat
    BY DEF Remaining, TypeOK
  <2> QED BY <2>1, <2>2 DEF ScriptsLeft, InRequest
<1> QED BY <1>1, <1>2, <1>3 DEF LeftTyped, StagesLeft, TimersLeft

IsTuple(t, a, b, c, d, e) ==
  t \in [1 .. 5 -> Nat] /\ t[1] = a /\ t[2] = b /\ t[3] = c /\ t[4] = d /\ t[5] = e

LEMMA LeftTuple ==
  ASSUME NEW a \in Nat, NEW b \in Nat, NEW c \in Nat, NEW d \in Nat, NEW e \in Nat
  PROVE  IsTuple(<<a, b, c, d, e>>, a, b, c, d, e)
BY DEF IsTuple

\* Which part of what is left a step lowers.
LEMMA WhatGoes ==
  ASSUME TypeOK, Placed, Next
  PROVE  \/ IterationsLeft' < IterationsLeft
         \/ IterationsLeft' = IterationsLeft /\ RequestsLeft' < RequestsLeft
         \/ UNCHANGED <<IterationsLeft, RequestsLeft>> /\ StagesLeft' < StagesLeft
         \/ UNCHANGED <<IterationsLeft, RequestsLeft, StagesLeft>> /\ ScriptsLeft' < ScriptsLeft
         \/ UNCHANGED <<IterationsLeft, RequestsLeft, StagesLeft, ScriptsLeft>> /\ TimersLeft' < TimersLeft
<1>1. CASE EndIteration
  <2>1. iter \in 1 .. Iterations + 1 /\ iter' = iter + 1
    BY <1>1 DEF EndIteration, TypeOK
  <2> QED BY <2>1, OptionsAssumption DEF IterationsLeft
<1>2. CASE BeginIteration \/ EndRun \/ Limit \/ DelayCancelled \/ HttpAborted \/ BeginRequest
  <2>1. iter' = iter /\ execCount \in 0 .. MaxRequests /\ MaxRequests \in Nat
    BY <1>2, OptionsAssumption DEF BeginIteration, EndRun, Limit, DelayCancelled, HttpAborted, BeginRequest, TypeOK
  <2>2. RequestsLeft' < RequestsLeft
    BY <1>2, <2>1 DEF BeginIteration, EndRun, Limit, DelayCancelled, HttpAborted, BeginRequest, LimitReached, RequestsLeft
  <2> QED BY <2>1, <2>2 DEF IterationsLeft
<1>3. CASE SendRequest \/ HttpAnswered \/ Finishing
  <2>1. /\ UNCHANGED <<iter, execCount>> /\ phase \in {"pre", "http", "test"}
        /\ phase' \in {"http", "test", "loop"} /\ StagesLeft' < StagesLeft
    BY <1>3 DEF SendRequest, HttpAnswered, Finishing, PreScriptSkips, PreScriptFails, AuthFails, HttpFails,
                TestScriptFails, EndRequest, Record, StagesLeft
  <2> QED BY <2>1 DEF IterationsLeft, RequestsLeft
<1>4. CASE PreScript \/ TestScript
  <2>1. UNCHANGED <<iter, execCount, phase, pos>> /\ script' = script + 1 /\ script \in Nat
    BY <1>4 DEF PreScript, TestScript, TypeOK
  <2>2. flat' = flat /\ flat[pos].pre \in Nat /\ flat[pos].tests \in Nat
    BY <1>4, FlatList DEF flat, Placed, InRequest, PreScript, TestScript
  <2>3. \A n \in Nat : script <= n => Remaining(n)' < Remaining(n)
    BY <2>1 DEF Remaining
  <2>4. (phase = "pre" /\ script <= flat[pos].pre) \/ (phase = "test" /\ script <= flat[pos].tests)
    BY <1>4 DEF PreScript, TestScript
  <2>5. PICK n \in Nat : n = flat[pos].pre
    BY <2>2
  <2>6. PICK m \in Nat : m = flat[pos].tests
    BY <2>2
  <2>7. flat'[pos'].pre = n /\ flat'[pos'].tests = m
    BY <2>1, <2>2, <2>5, <2>6
  <2>8. ScriptsLeft' < ScriptsLeft
    BY <2>1, <2>3, <2>4, <2>5, <2>6, <2>7 DEF ScriptsLeft
  <2> QED BY <2>1, <2>8 DEF IterationsLeft, RequestsLeft, StagesLeft
<1>5. CASE Expire
  <2>1. UNCHANGED <<iter, execCount, phase, pos, script>> /\ flat' = flat
    BY <1>5 DEF Expire, flat, perRequest
  <2>2. TimersLeft' < TimersLeft
    BY <1>5 DEF Expire, TimersLeft
  <2> QED BY <2>1, <2>2 DEF IterationsLeft, RequestsLeft, StagesLeft, ScriptsLeft, Remaining
<1> QED BY <1>1, <1>2, <1>3, <1>4, <1>5 DEF Next, RunStep, Finishing

LEMMA LeftStep ==
  ASSUME TypeOK, Placed, LeftTyped, LeftTyped', Next
  PROVE  <<Left', Left>> \in RunOrder
<1>1. PICK a \in Nat, b \in Nat, c \in Nat, d \in Nat, e \in Nat :
         a = IterationsLeft /\ b = RequestsLeft /\ c = StagesLeft /\ d = ScriptsLeft /\ e = TimersLeft
  BY DEF LeftTyped
<1>3. PICK f \in Nat, g \in Nat, h \in Nat, k \in Nat, l \in Nat :
         f = IterationsLeft' /\ g = RequestsLeft' /\ h = StagesLeft' /\ k = ScriptsLeft' /\ l = TimersLeft'
  BY DEF LeftTyped
<1>4. \/ f < a
      \/ f = a /\ g < b
      \/ f = a /\ g = b /\ h < c
      \/ f = a /\ g = b /\ h = c /\ k < d
      \/ f = a /\ g = b /\ h = c /\ k = d /\ l < e
  BY <1>1, <1>3, WhatGoes
<1>5. PICK t : t = <<a, b, c, d, e>> /\ IsTuple(t, a, b, c, d, e)
  BY LeftTuple
<1>6. PICK s : s = <<f, g, h, k, l>> /\ IsTuple(s, f, g, h, k, l)
  BY LeftTuple
<1>7. Left' = s /\ Left = t
  BY <1>1, <1>3, <1>5, <1>6 DEF Left
<1>8. \E j \in 1 .. 5 : (\A i \in 1 .. (j - 1) : s[i] = t[i]) /\ s[j] < t[j]
  <2>1. /\ f < a => \A i \in 1 .. (1 - 1) : s[i] = t[i]
        /\ f = a => \A i \in 1 .. (2 - 1) : s[i] = t[i]
        /\ f = a /\ g = b => \A i \in 1 .. (3 - 1) : s[i] = t[i]
        /\ f = a /\ g = b /\ h = c => \A i \in 1 .. (4 - 1) : s[i] = t[i]
        /\ f = a /\ g = b /\ h = c /\ k = d => \A i \in 1 .. (5 - 1) : s[i] = t[i]
    BY <1>5, <1>6 DEF IsTuple
  <2> QED BY <1>4, <1>5, <1>6, <2>1 DEF IsTuple
<1>9. <<s, t>> \in RunOrder
  <2>1. s \in [1 .. 5 -> Nat] /\ t \in [1 .. 5 -> Nat]
    BY <1>5, <1>6 DEF IsTuple
  <2> QED BY <1>8, <2>1, LowerAt
<1> QED BY <1>7, <1>9

(* A step lowers what is left of the run.                                  *)
Lowers == <<Left', Left>> \in RunOrder
EveryStepLowers == [][Lowers]_vars

(* Every run ends unless something it waits for never comes: each step of  *)
(* it, and the timeout, lowers what is left, in an order in which nothing  *)
(* can be lowered for ever.  setNextRequest can lead anywhere in the list, *)
(* but not take a request, an iteration or a script back.                  *)
THEOREM RunsAreFinite ==
  IsWellFoundedOn(RunOrder, [1 .. 5 -> Nat]) /\ (Spec => EveryStepLowers)
<1>1. TypeOK /\ Placed => LeftTyped
  BY LeftType
<1>2. TypeOK /\ Placed /\ LeftTyped /\ LeftTyped' /\ [Next]_vars => [Lowers]_vars
  BY LeftStep DEF Lowers
<1>3. Spec => EveryStepLowers
  BY <1>1, <1>2, TypeHolds, PTL DEF Spec, EveryStepLowers
<1> QED BY <1>3, RunOrderWellFounded

-----------------------------------------------------------------------------
(* The requests a run can make.                                            *)
Total(f) == f["passed"] + f["failed"] + f["error"] + f["skipped"]
Answered == Total(streamed)
Allowed ==
  (iter - 1) * MaxRequests + (IF phase \in {"iterate", "done"} THEN 0 ELSE Len(current))
Budget == Answered <= Allowed

LEMMA TotalPlus ==
  ASSUME NEW f \in [Kinds -> Nat], NEW g \in [Kinds -> Nat]
  PROVE  Total(f) \in Nat /\ Total(Plus(f, g)) = Total(f) + Total(g)
<1>1. \A k \in Kinds : f[k] \in Nat /\ g[k] \in Nat /\ Plus(f, g)[k] = f[k] + g[k]
  BY DEF Plus
<1>2. {"passed", "failed", "error", "skipped"} \subseteq Kinds
  BY DEF Kinds
<1> QED BY <1>1, <1>2 DEF Total

LEMMA TotalOne ==
  ASSUME NEW r, r.kind \in Kinds
  PROVE  Outcomes(<<r>>) \in [Kinds -> Nat] /\ Total(Outcomes(<<r>>)) = 1
<1>1. IsList(<<r>>) /\ Len(<<r>>) = 1 /\ <<r>>[1] = r
  BY SingleList
<1>2. \A k \in Kinds : Of(<<r>>, k) = IF r.kind = k THEN {1} ELSE {}
  BY <1>1 DEF Of
<1>3. Cardinality({1}) = 1 /\ Cardinality({}) = 0
  BY FS_Singleton, FS_EmptySet
<1>4. \A k \in Kinds : Outcomes(<<r>>)[k] = IF r.kind = k THEN 1 ELSE 0
  BY <1>1, <1>2, <1>3, OutcomesType
<1> QED BY <1>1, <1>4, OutcomesType DEF Total, Kinds

LEMMA BudgetTypes ==
  ASSUME IInv, TypeOK
  PROVE  /\ Answered \in Nat /\ Len(current) \in Nat /\ MaxRequests \in Nat /\ Iterations \in Nat
         /\ iter \in Nat /\ iter - 1 \in Nat /\ iter - 1 <= Iterations
<1>1. Answered \in Nat
  <2>1. streamed \in [Kinds -> Nat]
    BY DEF TypeOK
  <2> QED BY <2>1, TotalPlus DEF Answered
<1>2. Len(current) \in Nat
  BY AppendList DEF IInv, Typed
<1>3. MaxRequests \in Nat /\ Iterations \in Nat
  BY OptionsAssumption
<1>4. iter \in 1 .. Iterations + 1
  BY DEF TypeOK
<1> QED BY <1>1, <1>2, <1>3, <1>4

LEMMA BudgetStep ==
  ASSUME IInv, TypeOK, Placed, Budget, [Next]_vars
  PROVE  Budget'
<1>1. Answered \in Nat /\ Len(current) \in Nat /\ iter \in Nat /\ iter - 1 \in Nat /\ MaxRequests \in Nat
  BY BudgetTypes
<1>2. PICK n \in Nat : n = (iter - 1) * MaxRequests
  BY <1>1
<1>3. CASE Finishing
  <2>1. PICK kind, named : kind \in Kinds /\ Record(kind, named)
    BY <1>3 DEF Finishing, PreScriptSkips, PreScriptFails, AuthFails, HttpFails, TestScriptFails, EndRequest, Kinds
  <2>2. iter' = iter /\ InRequest
    BY <1>3 DEF Finishing, PreScriptSkips, PreScriptFails, AuthFails, HttpFails, TestScriptFails, EndRequest, InRequest
  <2>3. PICK r : r = [request |-> pos, kind |-> kind, next |-> named]
    OBVIOUS
  <2>4. r.kind \in Kinds /\ current' = Append(current, r) /\ streamed' = Plus(streamed, Outcomes(<<r>>)) /\ phase' = "loop"
    BY <2>1, <2>3 DEF Record, Streamed
  <2>5. Len(current') = Len(current) + 1
    BY <2>4, AppendList DEF IInv, Typed
  <2>6. Answered' = Answered + 1
    <3>1. PICK f : f = Outcomes(<<r>>) /\ f \in [Kinds -> Nat] /\ Total(f) = 1
      BY <2>4, TotalOne
    <3>2. streamed \in [Kinds -> Nat] /\ streamed' = Plus(streamed, f)
      BY <2>4, <3>1 DEF TypeOK
    <3>3. Total(Plus(streamed, f)) = Total(streamed) + 1
      BY <3>1, <3>2, TotalPlus
    <3> QED BY <3>2, <3>3 DEF Answered
  <2>7. Allowed = n + Len(current) /\ Allowed' = n + Len(current')
    BY <1>2, <2>2, <2>4 DEF Allowed, InRequest
  <2> QED BY <1>1, <2>5, <2>6, <2>7 DEF Budget
<1>4. CASE EndIteration
  <2>1. /\ iter' = iter + 1 /\ UNCHANGED <<streamed, current>> /\ phase = "loop" /\ phase' \in {"done", "iterate"}
    BY <1>4 DEF EndIteration
  <2>2. Len(current) <= MaxRequests
    BY DEF IInv, LoopBounded
  <2>3. (iter' - 1) * MaxRequests = n + MaxRequests
    <3>1. iter' - 1 = (iter - 1) + 1 /\ iter - 1 \in Nat
      BY <1>1, <2>1
    <3>2. \A k, m \in Nat : (k + 1) * m = k * m + m
      OBVIOUS
    <3> QED BY <1>1, <1>2, <3>1, <3>2
  <2>4. Allowed = n + Len(current) /\ Allowed' = n + MaxRequests + 0
    BY <1>2, <2>1, <2>3 DEF Allowed
  <2> QED BY <1>1, <2>1, <2>2, <2>4 DEF Budget, Answered
<1>5. CASE BeginIteration
  <2>1. UNCHANGED <<iter, streamed>> /\ current' = <<>> /\ phase = "iterate" /\ phase' = "loop" /\ Len(<<>>) = 0
    BY <1>5 DEF BeginIteration
  <2>2. Allowed = n + 0 /\ Allowed' = n + 0
    BY <1>2, <2>1 DEF Allowed
  <2> QED BY <2>1, <2>2 DEF Budget, Answered
<1>6. CASE EndRun
  <2>1. UNCHANGED <<iter, streamed, current>> /\ phase = "iterate" /\ phase' = "done"
    BY <1>6 DEF EndRun
  <2> QED BY <2>1 DEF Budget, Answered, Allowed
<1>7. CASE Inside \/ Ending \/ UNCHANGED vars
  <2>1. UNCHANGED <<iter, streamed, current>> /\ (phase' = phase \/ (InIteration /\ phase' \notin {"iterate", "done"}))
    BY <1>7 DEF Inside, PreScript, SendRequest, HttpAnswered, TestScript, BeginRequest, Ending, Limit,
                DelayCancelled, HttpAborted, Expire, vars, perRequest, InIteration, InRequest
  <2>2. Allowed' = Allowed
    BY <2>1 DEF Allowed, InIteration, InRequest
  <2> QED BY <2>1, <2>2 DEF Budget, Answered
<1> QED BY <1>3, <1>4, <1>5, <1>6, <1>7 DEF Next, RunStep, Inside, Ending, Finishing

(* However scripts jump, a run makes at most Iterations times MaxRequests  *)
(* requests: the limit of an iteration is a limit of the run.              *)
RequestsBounded == Answered <= Iterations * MaxRequests
THEOREM RequestsBoundedHolds == Spec => []RequestsBounded
<1>1. Init => Budget
  <2> SUFFICES ASSUME Init PROVE Budget
    OBVIOUS
  <2>1. Total(NoOutcomes) = 0
    BY DEF Total, NoOutcomes, Kinds
  <2>2. Allowed = 0
    BY OptionsAssumption DEF Init, Allowed
  <2> QED BY <2>1, <2>2 DEF Init, Budget, Answered
<1>2. (IInv /\ TypeOK /\ Placed) /\ Budget /\ [Next]_vars => Budget'
  BY BudgetStep
<1>3. ASSUME IInv, TypeOK, Placed, Budget PROVE RequestsBounded
  <2>1. /\ Answered \in Nat /\ Len(current) \in Nat /\ MaxRequests \in Nat /\ Iterations \in Nat
        /\ iter - 1 \in Nat /\ iter - 1 <= Iterations /\ iter \in Nat
    BY <1>3, BudgetTypes
  <2>2. PICK k \in Nat : k = iter - 1
    BY <2>1
  <2>3. Len(current) <= MaxRequests /\ k <= Iterations
    BY <1>3, <2>1, <2>2 DEF IInv, LoopBounded
  <2>4. \A i, j, m \in Nat : i <= j => i * m <= j * m
    OBVIOUS
  <2>5. CASE phase \in {"iterate", "done"}
    <3>1. Allowed = k * MaxRequests + 0
      BY <2>2, <2>5 DEF Allowed
    <3>2. k * MaxRequests <= Iterations * MaxRequests
      BY <2>1, <2>3, <2>4
    <3> QED BY <1>3, <2>1, <3>1, <3>2 DEF Budget, RequestsBounded
  <2>6. CASE phase \notin {"iterate", "done"}
    <3>1. Allowed = k * MaxRequests + Len(current)
      BY <2>2, <2>6 DEF Allowed
    <3>2. k + 1 <= Iterations
      <4>1. InIteration \/ phase = "error"
        BY <1>3, <2>6 DEF TypeOK, InIteration, InRequest
      <4> QED BY <1>3, <2>1, <2>2, <4>1 DEF Placed
    <3>3. (k + 1) * MaxRequests <= Iterations * MaxRequests
      BY <2>1, <2>4, <3>2
    <3>4. (k + 1) * MaxRequests = k * MaxRequests + MaxRequests
      BY <2>1
    <3> QED BY <1>3, <2>1, <2>3, <3>1, <3>3, <3>4 DEF Budget, RequestsBounded
  <2> QED BY <2>5, <2>6
<1>4. IInv /\ TypeOK /\ Placed /\ Budget => RequestsBounded
  BY <1>3
<1> QED BY <1>1, <1>2, <1>4, TypeHolds, PTL DEF Spec
=============================================================================
