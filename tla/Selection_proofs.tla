-------------------------- MODULE Selection_proofs --------------------------
(***************************************************************************)
(* What other proofs need of finite sets of numbers: their bounds, their   *)
(* enumeration, and what a filter keeps.  The library's induction theorems *)
(* take a predicate; here induction over finite sets is the minimal        *)
(* element of the set of counterexamples (LeastSet).                       *)
(***************************************************************************)
EXTENDS Selection, SequencesExt, FiniteSetTheorems, SequenceTheorems, TLAPS

\* Among finite sets of naturals with some property there is one none of
\* whose parts has it: induction over finite sets.
LEMMA LeastSet ==
  ASSUME NEW S, NEW T \in SUBSET FiniteSubsetsOf(S), T # {}
  PROVE  \E A \in T : \A B \in T : ~ (B \subseteq A /\ B # A)
<1>1. \E A \in T : \A B \in T : ~ (<<B, A>> \in StrictSubsetOrdering(S))
  BY FS_StrictSubsetOrderingWellFounded, WFMin
<1>2. \A A, B \in T : A \in SUBSET S /\ B \in SUBSET S
  BY DEF FiniteSubsetsOf
<1> QED BY <1>1, <1>2 DEF StrictSubsetOrdering

\* A finite set of naturals that is not empty has a least and a greatest
\* element.
LEMMA FiniteHasBounds ==
  ASSUME NEW S \in SUBSET Nat, IsFiniteSet(S), S # {}
  PROVE  (\E n \in S : \A m \in S : n <= m) /\ (\E n \in S : \A m \in S : m <= n)
<1> DEFINE Bounded(A) == (\E n \in A : \A m \in A : n <= m) /\ (\E n \in A : \A m \in A : m <= n)
           T == {A \in SUBSET Nat : IsFiniteSet(A) /\ A # {} /\ ~ Bounded(A)}
<1>1. SUFFICES ASSUME T # {} PROVE FALSE
  OBVIOUS
<1>2. PICK A \in T : \A B \in T : ~ (B \subseteq A /\ B # A)
  <2>1. T \in SUBSET FiniteSubsetsOf(Nat)
    BY DEF FiniteSubsetsOf
  <2> HIDE DEF T
  <2> QED BY <1>1, <2>1, LeastSet
<1>3. PICK a \in A : TRUE
  OBVIOUS
<1>4. A \ {a} \notin T
  BY <1>2, <1>3
<1>5. IsFiniteSet(A \ {a})
  BY <1>2, FS_RemoveElement
<1>6. CASE A \ {a} = {}
  BY <1>3, <1>6
<1>7. CASE A \ {a} # {}
  <2>1. PICK n \in A \ {a} : \A m \in A \ {a} : n <= m
    BY <1>4, <1>5, <1>7
  <2>2. PICK x \in A \ {a} : \A m \in A \ {a} : m <= x
    BY <1>4, <1>5, <1>7
  <2>3. \E k \in A : \A m \in A : k <= m
    <3>1. CASE n <= a
      BY <2>1, <3>1
    <3>2. CASE a <= n
      BY <1>3, <2>1, <3>2
    <3> QED BY <1>3, <2>1, <3>1, <3>2
  <2>4. \E k \in A : \A m \in A : m <= k
    <3>1. CASE a <= x
      BY <2>2, <3>1
    <3>2. CASE x <= a
      BY <1>3, <2>2, <3>2
    <3> QED BY <1>3, <2>2, <3>1, <3>2
  <2> QED BY <2>3, <2>4
<1> QED BY <1>6, <1>7

\* A set of naturals that is not empty has a least element.
LEMMA HasLeast ==
  ASSUME NEW S \in SUBSET Nat, S # {}
  PROVE  \E n \in S : \A m \in S : n <= m
<1>1. PICK n \in S : TRUE
  OBVIOUS
<1> DEFINE A == {m \in S : m <= n}
<1>2. IsFiniteSet(A)
  BY <1>1, FS_BoundedSetOfNaturals
<1>3. PICK k \in A : \A m \in A : k <= m
  BY <1>1, <1>2, FiniteHasBounds
<1>4. ASSUME NEW m \in S PROVE k <= m
  <2>1. CASE m <= n
    BY <1>3, <1>4, <2>1
  <2>2. CASE n <= m
    BY <1>1, <1>3, <2>2
  <2> QED BY <1>1, <2>1, <2>2
<1> QED BY <1>3, <1>4

Increasing(at) == \A i, j \in DOMAIN at : i < j => at[i] < at[j]

\* Every finite set of naturals has an increasing enumeration.
LEMMA EnumerationExists ==
  ASSUME NEW S \in SUBSET Nat, IsFiniteSet(S)
  PROVE  \E at \in [1 .. Cardinality(S) -> S] : Increasing(at)
<1> DEFINE T == {A \in SUBSET Nat : IsFiniteSet(A) /\ ~ \E at \in [1 .. Cardinality(A) -> A] : Increasing(at)}
<1>1. SUFFICES ASSUME T # {} PROVE FALSE
  OBVIOUS
<1>2. PICK A \in T : \A B \in T : ~ (B \subseteq A /\ B # A)
  <2>1. T \in SUBSET FiniteSubsetsOf(Nat)
    BY DEF FiniteSubsetsOf
  <2> HIDE DEF T
  <2> QED BY <1>1, <2>1, LeastSet
<1>3. /\ A \in SUBSET Nat /\ IsFiniteSet(A) /\ ~ \E at \in [1 .. Cardinality(A) -> A] : Increasing(at)
      /\ \A B \in SUBSET A : IsFiniteSet(B) /\ B # A => \E at \in [1 .. Cardinality(B) -> B] : Increasing(at)
  BY <1>2
<1> HIDE DEF T
<1>4. CASE A = {}
  <2>1. 1 .. Cardinality(A) = {}
    BY <1>4, FS_EmptySet
  <2>2. [i \in {} |-> i] \in [1 .. Cardinality(A) -> A] /\ Increasing([i \in {} |-> i])
    BY <2>1 DEF Increasing
  <2> QED BY <1>3, <2>2
<1>5. CASE A # {}
  <2>1. PICK x \in A : \A m \in A : m <= x
    BY <1>3, <1>5, FiniteHasBounds
  <2> DEFINE B == A \ {x}
             k == Cardinality(B)
  <2>2. IsFiniteSet(B) /\ k \in Nat /\ Cardinality(A) = k + 1
    <3>1. IsFiniteSet(B) /\ k = Cardinality(A) - 1
      BY <1>3, <2>1, FS_RemoveElement
    <3>2. k \in Nat /\ Cardinality(A) \in Nat
      BY <1>3, <3>1, FS_CardinalityType
    <3> HIDE DEF B, k
    <3> QED BY <3>1, <3>2
  <2>3. PICK at \in [1 .. k -> B] : Increasing(at)
    BY <1>3, <2>1, <2>2
  <2> HIDE DEF k
  <2> DEFINE all == [i \in 1 .. k + 1 |-> IF i = k + 1 THEN x ELSE at[i]]
  <2>4. all \in [1 .. k + 1 -> A]
    BY <2>1, <2>2, <2>3
  <2>5. \A i, j \in 1 .. k + 1 : i < j => all[i] < all[j]
    <3>1. SUFFICES ASSUME NEW i \in 1 .. k + 1, NEW j \in 1 .. k + 1, i < j PROVE all[i] < all[j]
      OBVIOUS
    <3>2. i \in 1 .. k /\ all[i] = at[i] /\ at[i] \in B
      BY <2>2, <2>3, <3>1
    <3>3. CASE j = k + 1
      <4>1. at[i] <= x /\ at[i] # x /\ x \in Nat /\ at[i] \in Nat
        BY <1>3, <2>1, <3>2
      <4> QED BY <3>2, <3>3, <4>1
    <3>4. CASE j \in 1 .. k
      BY <2>2, <2>3, <3>1, <3>2, <3>4 DEF Increasing
    <3> QED BY <2>2, <3>3, <3>4
  <2>6. Increasing(all)
    BY <2>5 DEF Increasing
  <2> HIDE DEF all
  <2> QED BY <1>3, <2>2, <2>4, <2>6
<1> QED BY <1>4, <1>5

\* Positions enumerates its set in order, each element once.
LEMMA PositionsEnumerate ==
  ASSUME NEW S \in SUBSET Nat, IsFiniteSet(S)
  PROVE  /\ Cardinality(S) \in Nat
         /\ Positions(S) \in [1 .. Cardinality(S) -> S] /\ Increasing(Positions(S))
         /\ \A i, j \in 1 .. Cardinality(S) : Positions(S)[i] = Positions(S)[j] => i = j
         /\ \A x \in S : \E i \in 1 .. Cardinality(S) : Positions(S)[i] = x
<1> DEFINE at == Positions(S)
           k == Cardinality(S)
<1>1. k \in Nat
  BY FS_CardinalityType
<1>2. at \in [1 .. k -> S] /\ Increasing(at)
  BY EnumerationExists DEF Positions, Increasing
<1> HIDE DEF at
<1>3. \A i, j \in 1 .. k : at[i] = at[j] => i = j
  <2>1. SUFFICES ASSUME NEW i \in 1 .. k, NEW j \in 1 .. k, at[i] = at[j], i < j
                 PROVE  FALSE
    BY <1>1
  <2>2. at[i] < at[j] /\ at[i] \in Nat
    BY <1>2, <2>1 DEF Increasing
  <2> QED BY <2>1, <2>2
<1>4. at \in Injection(1 .. k, S)
  BY <1>2, <1>3 DEF Injection, IsInjective
<1>5. Cardinality(1 .. k) = k
  BY <1>1, FS_Interval
<1>6. at \in Surjection(1 .. k, S)
  BY <1>4, <1>5, FS_Injection
<1>7. \A x \in S : \E i \in 1 .. k : at[i] = x
  BY <1>6 DEF Surjection
<1> QED BY <1>1, <1>2, <1>3, <1>7 DEF at

\* A filter has one element for each of the positions, and no other.
IsSelection(q, T, s, S, k) ==
  /\ k \in Nat /\ (S = {} <=> k = 0)
  /\ q \in Seq(T) /\ Len(q) = k
  /\ \A i \in 1 .. k : \E x \in S : q[i] = s[x]
  /\ \A x \in S : \E i \in 1 .. k : q[i] = s[x]
  /\ \A i, j \in 1 .. k : i # j => \E x, y \in S : x # y /\ q[i] = s[x] /\ q[j] = s[y]

LEMMA AmongSelects ==
  ASSUME NEW T, NEW s \in Seq(T), NEW S \in SUBSET (1 .. Len(s))
  PROVE  IsSelection(Among(s, S), T, s, S, Cardinality(S))
<1> DEFINE at == Positions(S)
           k == Cardinality(S)
<1>1. Len(s) \in Nat /\ s \in [1 .. Len(s) -> T]
  BY LenProperties
<1>2. IsFiniteSet(S) /\ S \in SUBSET Nat
  <2>1. IsFiniteSet(1 .. Len(s))
    BY <1>1, FS_Interval
  <2>2. IsFiniteSet(S)
    BY <2>1, FS_Subset
  <2> QED BY <1>1, <2>2
<1>3. /\ k \in Nat /\ at \in [1 .. k -> S]
      /\ \A i, j \in 1 .. k : at[i] = at[j] => i = j
      /\ \A x \in S : \E i \in 1 .. k : at[i] = x
  <2> HIDE DEF at, k
  <2>1. at = Positions(S) /\ k = Cardinality(S)
    BY DEF at, k
  <2> QED BY <1>2, <2>1, PositionsEnumerate
<1>4. S = {} <=> k = 0
  BY <1>2, FS_EmptySet
<1>5. Among(s, S) = [i \in 1 .. k |-> s[at[i]]]
  BY DEF Among
<1> HIDE DEF at, k
<1>6. Among(s, S) \in Seq(T) /\ Len(Among(s, S)) = k
  <2>1. \A i \in 1 .. k : s[at[i]] \in T
    BY <1>1, <1>3
  <2>2. Among(s, S) \in [1 .. k -> T]
    BY <1>5, <2>1
  <2> QED BY <1>3, <2>2, SeqDef, LenProperties
<1>7. \A i \in 1 .. k : Among(s, S)[i] = s[at[i]] /\ at[i] \in S
  BY <1>3, <1>5
<1>8. \A x \in S : \E i \in 1 .. k : Among(s, S)[i] = s[x]
  BY <1>3, <1>7
<1>9. \A i, j \in 1 .. k : i # j => \E x, y \in S : x # y /\ Among(s, S)[i] = s[x] /\ Among(s, S)[j] = s[y]
  <2>1. SUFFICES ASSUME NEW i \in 1 .. k, NEW j \in 1 .. k, i # j
                 PROVE  \E x, y \in S : x # y /\ Among(s, S)[i] = s[x] /\ Among(s, S)[j] = s[y]
    OBVIOUS
  <2>2. at[i] # at[j] /\ at[i] \in S /\ at[j] \in S
    BY <1>3, <2>1
  <2> QED BY <1>7, <2>2
<1> QED BY <1>3, <1>4, <1>6, <1>7, <1>8, <1>9 DEF IsSelection, k

\* What a filter keeps and what it leaves out make up the whole.
LEMMA Complement ==
  ASSUME NEW n \in Nat, NEW S \in SUBSET (1 .. n)
  PROVE  Cardinality((1 .. n) \ S) = n - Cardinality(S)
<1>1. IsFiniteSet(1 .. n) /\ Cardinality(1 .. n) = n
  BY FS_Interval
<1>2. Cardinality((1 .. n) \ S) = Cardinality(1 .. n) - Cardinality((1 .. n) \cap S)
  BY <1>1, FS_Difference, FS_Subset
<1>3. (1 .. n) \cap S = S
  OBVIOUS
<1> QED BY <1>1, <1>2, <1>3

\* A piece of a sequence, and two sequences in a row.
IsPiece(q, T, s, m, n) ==
  /\ q \in Seq(T) /\ Len(q) = n + 1 - m
  /\ \A i \in 1 .. n + 1 - m : q[i] = s[m + i - 1]

IsRow(q, T, s, t) ==
  /\ q \in Seq(T) /\ Len(q) = Len(s) + Len(t)
  /\ \A i \in 1 .. Len(s) + Len(t) : q[i] = IF i <= Len(s) THEN s[i] ELSE t[i - Len(s)]

LEMMA Piece ==
  ASSUME NEW T, NEW s \in Seq(T), NEW m \in Nat \ {0}, NEW n \in Nat, n <= Len(s), m <= n + 1
  PROVE  IsPiece(SubSeq(s, m, n), T, s, m, n)
<1>1. Len(s) \in Nat /\ \A i \in 1 .. Len(s) : s[i] \in T
  BY LenProperties, ElementOfSeq
<1>2. \A i \in m .. n : s[i] \in T
  BY <1>1
<1>3. PICK q : q = SubSeq(s, m, n)
  OBVIOUS
<1>4. /\ q \in Seq(T) /\ Len(q) = IF m <= n THEN n - m + 1 ELSE 0
      /\ \A i \in 1 .. n - m + 1 : q[i] = s[m + i - 1]
  BY <1>2, <1>3, SubSeqProperties
<1>5. n - m + 1 = n + 1 - m /\ Len(q) = n + 1 - m
  BY <1>4
<1>6. IsPiece(q, T, s, m, n)
  BY <1>4, <1>5 DEF IsPiece
<1> QED BY <1>3, <1>6

LEMMA InARow ==
  ASSUME NEW T, NEW s \in Seq(T), NEW t \in Seq(T)
  PROVE  IsRow(s \o t, T, s, t)
BY ConcatProperties DEF IsRow

\* A sequence with one element more at p, and with the one at p less.
IsWith(q, T, s, p, e) ==
  /\ q \in Seq(T) /\ Len(q) = Len(s) + 1
  /\ \A n \in 1 .. Len(s) + 1 : q[n] = IF n < p THEN s[n] ELSE IF n = p THEN e ELSE s[n - 1]

IsWithout(q, T, s, p) ==
  /\ q \in Seq(T) /\ Len(q) = Len(s) - 1
  /\ \A n \in 1 .. Len(s) - 1 : q[n] = IF n < p THEN s[n] ELSE s[n + 1]

\* Inserting into a sequence.
LEMMA Inserted ==
  ASSUME NEW T, NEW s \in Seq(T), NEW p \in 1 .. Len(s) + 1, NEW e \in T
  PROVE  IsWith(InsertAt(s, p, e), T, s, p, e)
<1>1. PICK k \in Nat, a \in Nat : k = Len(s) /\ a = p - 1 /\ p = a + 1 /\ a <= k
  BY LenProperties
<1>2. PICK left : left = SubSeq(s, 1, a)
  OBVIOUS
<1>3. PICK right : right = SubSeq(s, p, k)
  OBVIOUS
<1>4. PICK mid : mid = <<e>>
  OBVIOUS
<1>5. PICK one : one = left \o mid
  OBVIOUS
<1>6. PICK q : q = one \o right
  OBVIOUS
<1>7. IsPiece(left, T, s, 1, a)
  BY <1>1, <1>2, Piece
<1>8. IsPiece(right, T, s, p, k)
  BY <1>1, <1>3, Piece
<1>9. mid \in Seq(T) /\ Len(mid) = 1 /\ mid[1] = e
  BY <1>4
<1>10. IsRow(one, T, left, mid)
  BY <1>5, <1>7, <1>9, InARow DEF IsPiece
<1>11. IsRow(q, T, one, right)
  <2>1. one \in Seq(T) /\ right \in Seq(T)
    BY <1>8, <1>10 DEF IsPiece, IsRow
  <2> QED BY <1>6, <2>1, InARow
<1>12. InsertAt(s, p, e) = q
  BY <1>1, <1>2, <1>3, <1>4, <1>5, <1>6 DEF InsertAt
<1>13. Len(left) = a /\ \A i \in 1 .. a : left[i] = s[i]
  BY <1>1, <1>7 DEF IsPiece
<1>14. Len(right) = k - a /\ \A i \in 1 .. k - a : right[i] = s[a + i]
  BY <1>1, <1>8 DEF IsPiece
<1>15. Len(one) = p /\ (\A i \in 1 .. a : one[i] = s[i]) /\ one[p] = e
  BY <1>1, <1>9, <1>10, <1>13 DEF IsRow
<1>16. /\ q \in Seq(T) /\ Len(q) = k + 1
       /\ \A i \in 1 .. k + 1 : q[i] = IF i <= p THEN one[i] ELSE right[i - p]
  BY <1>1, <1>11, <1>14, <1>15 DEF IsRow
<1>17. ASSUME NEW n \in 1 .. k + 1
       PROVE  q[n] = IF n < p THEN s[n] ELSE IF n = p THEN e ELSE s[n - 1]
  <2>1. CASE n < p
    BY <1>1, <1>15, <1>16, <2>1
  <2>2. CASE n = p
    BY <1>1, <1>15, <1>16, <2>2
  <2>3. CASE p < n
    <3>1. n - p \in 1 .. k - a /\ a + (n - p) = n - 1
      BY <1>1, <2>3
    <3>2. right[n - p] = s[n - 1]
      BY <1>14, <3>1
    <3> QED BY <1>1, <1>16, <2>3, <3>2
  <2> QED BY <1>1, <2>1, <2>2, <2>3
<1> QED BY <1>1, <1>12, <1>16, <1>17 DEF IsWith

\* Removing from a sequence.
LEMMA Removed ==
  ASSUME NEW T, NEW s \in Seq(T), NEW p \in 1 .. Len(s)
  PROVE  IsWithout(RemoveAt(s, p), T, s, p)
<1>1. PICK k \in Nat, a \in Nat, b \in Nat : k = Len(s) /\ a = p - 1 /\ b = p + 1 /\ p = a + 1 /\ p <= k
  BY LenProperties
<1>2. PICK left : left = SubSeq(s, 1, a)
  OBVIOUS
<1>3. PICK right : right = SubSeq(s, b, k)
  OBVIOUS
<1>4. PICK q : q = left \o right
  OBVIOUS
<1>5. IsPiece(left, T, s, 1, a)
  BY <1>1, <1>2, Piece
<1>6. IsPiece(right, T, s, b, k)
  BY <1>1, <1>3, Piece
<1>7. IsRow(q, T, left, right)
  BY <1>4, <1>5, <1>6, InARow DEF IsPiece
<1>8. RemoveAt(s, p) = q
  BY <1>1, <1>2, <1>3, <1>4 DEF RemoveAt
<1>9. Len(left) = a /\ \A i \in 1 .. a : left[i] = s[i]
  BY <1>1, <1>5 DEF IsPiece
<1>10. Len(right) = k - p /\ \A i \in 1 .. k - p : right[i] = s[p + i]
  BY <1>1, <1>6 DEF IsPiece
<1>11. /\ q \in Seq(T) /\ Len(q) = k - 1
       /\ \A i \in 1 .. k - 1 : q[i] = IF i <= a THEN left[i] ELSE right[i - a]
  BY <1>1, <1>7, <1>9, <1>10 DEF IsRow
<1>12. ASSUME NEW n \in 1 .. k - 1
       PROVE  q[n] = IF n < p THEN s[n] ELSE s[n + 1]
  <2>1. CASE n < p
    BY <1>1, <1>9, <1>11, <2>1
  <2>2. CASE ~(n < p)
    <3>1. n - a \in 1 .. k - p /\ p + (n - a) = n + 1
      BY <1>1, <2>2
    <3>2. right[n - a] = s[n + 1]
      BY <1>10, <3>1
    <3> QED BY <1>1, <1>11, <2>2, <3>2
  <2> QED BY <2>1, <2>2
<1> QED BY <1>1, <1>8, <1>11, <1>12 DEF IsWithout

LEMMA UpTo ==
  ASSUME NEW k \in Nat
  PROVE  IsFiniteSet(1 .. k) /\ Cardinality(1 .. k) = k
BY FS_Interval

\* The increasing enumeration of 1 .. k is the identity.
LEMMA PositionsOfAll ==
  ASSUME NEW k \in Nat
  PROVE  \A i \in 1 .. k : Positions(1 .. k)[i] = i
<1>1. IsFiniteSet(1 .. k) /\ Cardinality(1 .. k) = k /\ 1 .. k \in SUBSET Nat
  BY FS_Interval
<1>2. PICK at : at = Positions(1 .. k)
  OBVIOUS
<1>3. /\ at \in [1 .. k -> 1 .. k] /\ Increasing(at)
      /\ \A x \in 1 .. k : \E i \in 1 .. k : at[i] = x
  BY <1>1, <1>2, PositionsEnumerate
<1> DEFINE Moved == {i \in 1 .. k : at[i] # i}
<1>4. SUFFICES ASSUME Moved # {} PROVE FALSE
  BY <1>2
<1>5. PICK i \in Moved : \A j \in Moved : i <= j
  <2>1. Moved \in SUBSET Nat
    OBVIOUS
  <2> HIDE DEF Moved
  <2> QED BY <1>4, <2>1, HasLeast
<1>6. \A j \in 1 .. k : j < i => at[j] = j
  BY <1>5
<1>7. i < at[i]
  <2>1. i \in 1 .. k /\ at[i] \in 1 .. k /\ at[i] # i
    BY <1>3, <1>5
  <2>2. CASE at[i] < i
    <3>1. at[at[i]] = at[i]
      BY <1>6, <2>1, <2>2
    <3>2. at[at[i]] < at[i]
      BY <1>3, <2>1, <2>2 DEF Increasing
    <3> QED BY <2>1, <3>1, <3>2
  <2> QED BY <2>1, <2>2
<1>8. PICK j \in 1 .. k : at[j] = i
  BY <1>3, <1>5
<1>9. ~(j < i)
  BY <1>6, <1>8
<1>10. j # i
  BY <1>7, <1>8
<1>11. at[i] < at[j]
  BY <1>3, <1>5, <1>8, <1>9, <1>10 DEF Increasing
<1> QED BY <1>3, <1>5, <1>7, <1>8, <1>11

\* A filter that keeps everything.
LEMMA AmongAll ==
  ASSUME NEW T, NEW s \in Seq(T)
  PROVE  Among(s, 1 .. Len(s)) = s
<1>1. PICK k \in Nat : k = Len(s)
  BY LenProperties
<1>2. Cardinality(1 .. k) = k
  BY UpTo
<1>3. Among(s, 1 .. k) = [i \in 1 .. k |-> s[i]]
  BY <1>2, PositionsOfAll DEF Among
<1>4. s = [i \in 1 .. k |-> s[i]]
  BY <1>1, LenProperties
<1> QED BY <1>1, <1>3, <1>4

\* What a filter keeps depends on what is kept only.
LEMMA AmongDepends ==
  ASSUME NEW s, NEW t, NEW n \in Nat, NEW S \in SUBSET (1 .. n), \A x \in S : s[x] = t[x]
  PROVE  Among(s, S) = Among(t, S)
<1>1. IsFiniteSet(S) /\ S \in SUBSET Nat
  <2>1. IsFiniteSet(1 .. n)
    BY UpTo
  <2>2. IsFiniteSet(S)
    BY <2>1, FS_Subset
  <2> QED BY <2>2
<1>2. PICK at : at = Positions(S)
  OBVIOUS
<1>3. at \in [1 .. Cardinality(S) -> S]
  BY <1>1, <1>2, PositionsEnumerate
<1>4. \A i \in 1 .. Cardinality(S) : s[at[i]] = t[at[i]]
  BY <1>3
<1> QED BY <1>2, <1>4 DEF Among

\* A piece has elements of the sequence.
LEMMA PieceElements ==
  ASSUME NEW T, NEW s \in Seq(T), NEW m \in Nat \ {0}, NEW n \in Nat, n <= Len(s), NEW q, IsPiece(q, T, s, m, n)
  PROVE  \A i \in 1 .. Len(q) : \E j \in 1 .. Len(s) : q[i] = s[j]
<1>1. TAKE i \in 1 .. Len(q)
<1>2. PICK k \in Nat, l \in Int : k = Len(s) /\ l = n + 1 - m
  BY LenProperties
<1>3. Len(q) = l /\ \A x \in 1 .. l : q[x] = s[m + x - 1]
  BY <1>2 DEF IsPiece
<1>4. i \in 1 .. l
  BY <1>1, <1>3
<1>5. PICK j \in Int : j = m + i - 1
  BY <1>2, <1>4
<1>6. j \in 1 .. k
  BY <1>2, <1>4, <1>5
<1>7. q[i] = s[j]
  BY <1>3, <1>4, <1>5
<1> QED BY <1>2, <1>6, <1>7

\* A sequence is one over its own range.
LEMMA OwnRange ==
  ASSUME NEW T, NEW q \in Seq(T)
  PROVE  q \in Seq({q[n] : n \in DOMAIN q})
<1>1. Len(q) \in Nat /\ q \in [1 .. Len(q) -> T] /\ DOMAIN q = 1 .. Len(q)
  BY LenProperties
<1>2. q \in [1 .. Len(q) -> {q[n] : n \in DOMAIN q}]
  BY <1>1
<1> QED BY <1>1, <1>2, SeqDef
=============================================================================
