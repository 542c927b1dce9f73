-------------------------- MODULE Workbench_proofs --------------------------
(***************************************************************************)
(* Theorems of Workbench for any ids of collections, folders, requests and *)
(* tabs, and any number of acts.                                           *)
(***************************************************************************)
EXTENDS Workbench, Selection_proofs

(***************************************************************************)
(* What is inside what, for any function that says where items are.        *)
(***************************************************************************)
Closed(where, x, S) == \A i \in Items : where[i] = x \/ where[i] \in S => i \in S

\* A closed set has everything that is inside x.
LEMMA WithinLeast ==
  ASSUME NEW where, NEW x, NEW S, S \subseteq Items, Closed(where, x, S)
  PROVE  Within(where, x) \subseteq S
BY DEF Within, Closed

\* What is inside x is itself closed.
LEMMA WithinClosed ==
  ASSUME NEW where, NEW x
  PROVE  Within(where, x) \subseteq Items /\ Closed(where, x, Within(where, x))
<1>1. ASSUME NEW i \in Items, where[i] = x \/ where[i] \in Within(where, x)
      PROVE  i \in Within(where, x)
  <2>1. SUFFICES ASSUME NEW S \in SUBSET Items, Closed(where, x, S)
                 PROVE  i \in S
    BY DEF Within, Closed
  <2>2. Within(where, x) \subseteq S
    BY <2>1, WithinLeast
  <2> QED BY <1>1, <2>1, <2>2 DEF Closed
<1> QED BY <1>1 DEF Within, Closed

\* An item is inside x because it is directly in x or in something inside x.
LEMMA WithinStep ==
  ASSUME NEW where, NEW x, NEW i \in Within(where, x)
  PROVE  i \in Items /\ (where[i] = x \/ where[i] \in Within(where, x))
<1> DEFINE S == {j \in Within(where, x) : where[j] = x \/ where[j] \in Within(where, x)}
<1>1. S \subseteq Items /\ Closed(where, x, S)
  BY WithinClosed DEF Closed
<1>2. Within(where, x) \subseteq S
  BY <1>1, WithinLeast
<1> QED BY <1>1, <1>2

\* Nothing is inside what nothing is directly in.
LEMMA WithinEmpty ==
  ASSUME NEW where, NEW x, \A i \in Items : where[i] # x
  PROVE  Within(where, x) = {}
<1>1. Closed(where, x, {})
  BY DEF Closed
<1> QED BY <1>1, WithinLeast

\* What is inside an item is inside whatever the item is inside.
LEMMA WithinTransitive ==
  ASSUME NEW where, NEW x, NEW i \in Within(where, x)
  PROVE  Within(where, i) \subseteq Within(where, x)
<1>1. Closed(where, i, Within(where, x))
  BY WithinClosed DEF Closed
<1> QED BY <1>1, WithinClosed, WithinLeast

\* What is inside something is in the store.
LEMMA WithinPresent ==
  ASSUME NEW where, NEW x, x # Nowhere, NEW i \in Within(where, x)
  PROVE  where[i] # Nowhere
BY WithinStep, WithinClosed, TreeAssumption

\* No item is in two collections.
LEMMA WithinApart ==
  ASSUME NEW where, NEW c \in Collections, NEW d \in Collections, c # d
  PROVE  Within(where, c) \cap Within(where, d) = {}
<1> DEFINE S == Within(where, c) \ Within(where, d)
<1>1. ASSUME NEW i \in Items, where[i] = c \/ where[i] \in S
      PROVE  i \in S
  <2>1. i \in Within(where, c)
    BY <1>1, WithinClosed DEF Closed
  <2>2. ASSUME i \in Within(where, d) PROVE FALSE
    <3>1. where[i] = d \/ where[i] \in Within(where, d)
      BY <2>2, WithinStep
    <3>2. Within(where, c) \subseteq Items /\ Within(where, d) \subseteq Items
      BY WithinClosed
    <3> QED BY <1>1, <3>1, <3>2, TreeAssumption
  <2> QED BY <2>1, <2>2
<1>2. Within(where, c) \subseteq S
  <2>1. S \subseteq Items
    BY WithinClosed
  <2> QED BY <1>1, <2>1, WithinLeast DEF Closed
<1> QED BY <1>2

(***************************************************************************)
(* Sound placements: TreeSound of any function and any set of collections. *)
(***************************************************************************)
Placements == [Items -> Collections \cup Folders \cup {Nowhere}]

Sound(where, cs) ==
  /\ \A i \in Items : where[i] # Nowhere => \E c \in cs : i \in Within(where, c)
  /\ \A c \in Collections \ cs : Within(where, c) = {}

\* Nothing is inside an item that is not in the store, or inside a request.
LEMMA NothingInside ==
  ASSUME NEW where \in Placements, NEW cs \in SUBSET Collections, Sound(where, cs), NEW i \in Items,
         where[i] = Nowhere \/ i \notin Folders
  PROVE  Within(where, i) = {}
<1>1. ASSUME NEW j \in Items, where[j] = i PROVE FALSE
  <2>1. where[j] # Nowhere /\ i \notin Collections
    BY <1>1, TreeAssumption
  <2>2. where[i] = Nowhere
    BY <1>1, <2>1 DEF Placements
  <2>3. PICK c \in cs : j \in Within(where, c)
    BY <2>1 DEF Sound
  <2>4. i \in Within(where, c)
    BY <1>1, <2>1, <2>3, WithinStep
  <2> QED BY <2>2, <2>4, WithinPresent, TreeAssumption
<1> QED BY <1>1, WithinEmpty

\* Taking out a set of items that has everything inside its members takes
\* nothing else from a collection.
Out(where, gone) == [i \in Items |-> IF i \in gone THEN Nowhere ELSE where[i]]
Whole(where, gone) == \A i \in Items : where[i] \in gone => i \in gone

LEMMA WithinOut ==
  ASSUME NEW where, NEW gone, Whole(where, gone), NEW c \in Collections
  PROVE  Within(Out(where, gone), c) = Within(where, c) \ gone
<1> DEFINE q == Out(where, gone)
<1>1. \A i \in Items : q[i] = IF i \in gone THEN Nowhere ELSE where[i]
  BY DEF Out
<1> HIDE DEF q
<1>2. Within(where, c) \subseteq gone \cup Within(q, c)
  <2> DEFINE S == {i \in Items : i \in gone \/ i \in Within(q, c)}
  <2>1. ASSUME NEW i \in Items, where[i] = c \/ where[i] \in S
        PROVE  i \in S
    <3>1. CASE i \in gone \/ where[i] \in gone
      BY <3>1 DEF Whole
    <3>2. CASE i \notin gone /\ where[i] \notin gone
      <4>1. q[i] = c \/ q[i] \in Within(q, c)
        BY <1>1, <2>1, <3>2
      <4> QED BY <4>1, WithinClosed DEF Closed
    <3> QED BY <3>1, <3>2
  <2> QED BY <2>1, WithinLeast DEF Closed
<1>3. Within(q, c) \subseteq Within(where, c) \ gone
  <2> DEFINE S == Within(where, c) \ gone
  <2>1. ASSUME NEW i \in Items, q[i] = c \/ q[i] \in S
        PROVE  i \in S
    <3>1. q[i] # Nowhere
      BY <2>1, WithinClosed, TreeAssumption
    <3>2. i \notin gone /\ (where[i] = c \/ where[i] \in Within(where, c))
      BY <1>1, <2>1, <3>1
    <3> QED BY <3>2, WithinClosed DEF Closed
  <2>2. S \subseteq Items
    BY WithinClosed
  <2> QED BY <2>1, <2>2, WithinLeast DEF Closed
<1> QED BY <1>2, <1>3 DEF q

LEMMA SoundOut ==
  ASSUME NEW where \in Placements, NEW cs \in SUBSET Collections, Sound(where, cs),
         NEW gone, Whole(where, gone)
  PROVE  Out(where, gone) \in Placements /\ Sound(Out(where, gone), cs)
<1> DEFINE q == Out(where, gone)
<1>1. \A i \in Items : q[i] = IF i \in gone THEN Nowhere ELSE where[i]
  BY DEF Out
<1>2. \A c \in Collections : Within(q, c) = Within(where, c) \ gone
  BY WithinOut
<1>3. q \in Placements
  BY DEF Out, Placements
<1> HIDE DEF q
<1>4. ASSUME NEW i \in Items, q[i] # Nowhere
      PROVE  \E c \in cs : i \in Within(q, c)
  BY <1>1, <1>2, <1>4 DEF Sound
<1> QED BY <1>2, <1>3, <1>4 DEF Sound, q

\* What an item has with it when it goes, and what a collection has, is whole.
LEMMA SubtreesWhole ==
  ASSUME NEW where, NEW x
  PROVE  Whole(where, Within(where, x)) /\ Whole(where, {x} \cup Within(where, x))
BY WithinClosed DEF Whole, Closed

\* A collection that goes with all it has leaves the others as they were.
LEMMA SoundWithoutCollection ==
  ASSUME NEW where \in Placements, NEW cs \in SUBSET Collections, Sound(where, cs),
         NEW c \in Collections
  PROVE  Sound(Out(where, Within(where, c)), cs \ {c})
<1> DEFINE gone == Within(where, c)
           q == Out(where, gone)
<1>1. Sound(q, cs) /\ Whole(where, gone)
  BY SoundOut, SubtreesWhole
<1>2. Within(q, c) = {}
  BY <1>1, WithinOut
<1> HIDE DEF q
<1> QED BY <1>1, <1>2 DEF Sound, q

\* One more collection, with nothing in it.
LEMMA SoundWithCollection ==
  ASSUME NEW where, NEW cs \in SUBSET Collections, Sound(where, cs), NEW c \in Collections
  PROVE  Sound(where, cs \cup {c})
BY DEF Sound

\* An item goes, with what is inside it, to a collection there is, or to
\* a folder of one that is not the item or inside it.
LEMMA SoundMoved ==
  ASSUME NEW where \in Placements, NEW cs \in SUBSET Collections, Sound(where, cs),
         NEW i \in Items, NEW t, NEW c \in cs,
         \/ t = c
         \/ t \in Folders /\ t \in Within(where, c) /\ t # i /\ t \notin Within(where, i)
  PROVE  [where EXCEPT ![i] = t] \in Placements /\ Sound([where EXCEPT ![i] = t], cs)
<1> DEFINE q == [where EXCEPT ![i] = t]
           Sub == {i} \cup Within(where, i)
<1>1. q[i] = t /\ \A j \in Items : j # i => q[j] = where[j]
  BY DEF Placements
<1>2. q \in Placements /\ t # Nowhere /\ (t \in Items \/ t = c)
  BY TreeAssumption DEF Placements, Items
<1>3. \A j \in Items : where[j] \in Sub => j \in Sub
  BY SubtreesWhole DEF Whole
<1> HIDE DEF q
<1>4. ASSUME NEW d \in Collections
      PROVE  Within(where, d) \subseteq Sub \cup Within(q, d)
  <2> DEFINE S == {j \in Items : j \in Sub \/ j \in Within(q, d)}
  <2>1. ASSUME NEW j \in Items, where[j] = d \/ where[j] \in S
        PROVE  j \in S
    <3>1. CASE j \in Sub \/ where[j] \in Sub
      BY <1>3, <3>1
    <3>2. CASE j \notin Sub /\ where[j] \notin Sub
      <4>1. q[j] = d \/ q[j] \in Within(q, d)
        BY <1>1, <2>1, <3>2
      <4> QED BY <4>1, WithinClosed DEF Closed
    <3> QED BY <3>1, <3>2
  <2> QED BY <2>1, WithinLeast DEF Closed
<1>5. i \in Within(q, c)
  <2>1. t = c \/ t \in Within(q, c)
    BY <1>4
  <2> QED BY <1>1, <2>1, WithinClosed DEF Closed
<1>6. Within(where, i) \subseteq Within(q, c)
  <2>1. ASSUME NEW j \in Items, where[j] = i \/ where[j] \in Within(q, c)
        PROVE  j \in Within(q, c)
    <3>1. CASE j = i
      BY <1>5, <3>1
    <3>2. CASE j # i
      <4>1. q[j] \in Within(q, c)
        BY <1>1, <1>5, <2>1, <3>2
      <4> QED BY <4>1, WithinClosed DEF Closed
    <3> QED BY <3>1, <3>2
  <2> QED BY <2>1, WithinLeast, WithinClosed DEF Closed
<1>7. ASSUME NEW j \in Items, q[j] # Nowhere
      PROVE  \E d \in cs : j \in Within(q, d)
  <2>1. CASE j \in Sub
    BY <1>5, <1>6, <2>1
  <2>2. CASE j \notin Sub
    <3>1. PICK d \in cs : j \in Within(where, d)
      BY <1>1, <1>7, <2>2 DEF Sound
    <3> QED BY <1>4, <2>2, <3>1
  <2> QED BY <2>1, <2>2
<1>8. ASSUME NEW d \in Collections \ cs
      PROVE  Within(q, d) = {}
  <2>1. ASSUME NEW j \in Items, q[j] = d PROVE FALSE
    <3>1. CASE j = i
      BY <1>1, <1>2, <1>8, <2>1, <3>1, TreeAssumption
    <3>2. CASE j # i
      <4>1. j \in Within(where, d)
        BY <1>1, <2>1, <3>2, WithinClosed DEF Closed
      <4> QED BY <4>1 DEF Sound
    <3> QED BY <3>1, <3>2
  <2> QED BY <2>1, WithinEmpty
<1> QED BY <1>2, <1>7, <1>8 DEF Sound, q

\* What WithCopy gives: what was there stays, and a copy is where its
\* original says.
IsCopy(q, source, f, top, at) ==
  /\ \A i \in Items : (\A j \in source : f[j] # i) => q[i] = place[i]
  /\ \A i \in Present : q[i] = place[i]
  /\ \A j \in source : q[f[j]] = IF j \in top THEN at ELSE f[place[j]]

LEMMA CopyPlaces ==
  ASSUME place \in Placements, NEW source \in SUBSET Present, NEW f \in Clones(source),
         NEW top \in SUBSET source, NEW at \in Collections \cup Folders,
         \A j \in source \ top : place[j] \in source
  PROVE  WithCopy(f, top, at) \in Placements /\ IsCopy(WithCopy(f, top, at), source, f, top, at)
<1> DEFINE q == WithCopy(f, top, at)
<1>1. /\ f \in [source -> Items \ Present] /\ DOMAIN f = source
      /\ \A i, j \in source : f[i] = f[j] => i = j
      /\ \A j \in source : j \in Folders => f[j] \in Folders
  BY DEF Clones
<1>2. \A i \in Items : (\A j \in source : f[j] # i) => q[i] = place[i]
  BY <1>1 DEF WithCopy
<1>3. ASSUME NEW j \in source
      PROVE  q[f[j]] = IF j \in top THEN at ELSE f[place[j]]
  <2>1. \E k \in DOMAIN f : f[k] = f[j]
    BY <1>1
  <2>2. (CHOOSE k \in DOMAIN f : f[k] = f[j]) = j
    BY <1>1
  <2>3. f[j] \in Items
    BY <1>1
  <2> QED BY <2>1, <2>2, <2>3 DEF WithCopy
<1>4. \A j \in source \ top : place[j] \in Folders /\ f[place[j]] \in Folders
  BY <1>1, TreeAssumption DEF Placements, Present, Items
<1>5. ASSUME NEW i \in Items
      PROVE  q[i] \in Collections \cup Folders \cup {Nowhere}
  <2>1. CASE \A j \in source : f[j] # i
    BY <1>2, <2>1 DEF Placements
  <2>2. CASE \E j \in source : f[j] = i
    BY <1>3, <1>4, <2>2
  <2> QED BY <2>1, <2>2
<1>6. q \in Placements
  BY <1>5 DEF WithCopy, Placements
<1>7. \A i \in Present : q[i] = place[i]
  BY <1>1, <1>2 DEF Present
<1> QED BY <1>2, <1>3, <1>6, <1>7 DEF IsCopy

\* A copy of part of the tree, put into a collection or a folder of it.
LEMMA SoundCopied ==
  ASSUME place \in Placements, NEW old \in SUBSET Collections, Sound(place, old),
         NEW cs \in SUBSET Collections, old \subseteq cs,
         NEW source \in SUBSET Present, NEW f \in Clones(source), NEW top \in SUBSET source,
         \A j \in source \ top : place[j] \in source,
         \A T \in SUBSET source :
           top \subseteq T /\ (\A j \in source : place[j] \in T => j \in T) => source \subseteq T,
         NEW at, NEW c \in cs, at = c \/ (at \in Folders /\ at \in Within(place, c))
  PROVE  Sound(WithCopy(f, top, at), cs)
<1> DEFINE q == WithCopy(f, top, at)
<1>1. /\ \A i \in Items : (\A j \in source : f[j] # i) => q[i] = place[i]
      /\ \A i \in Present : q[i] = place[i]
      /\ \A j \in source : q[f[j]] = IF j \in top THEN at ELSE f[place[j]]
  <2>1. at \in Collections \cup Folders
    OBVIOUS
  <2>2. IsCopy(q, source, f, top, at)
    BY <2>1, CopyPlaces
  <2> QED BY <2>2 DEF IsCopy
<1>2. f \in [source -> Items \ Present]
  BY DEF Clones
<1> HIDE DEF q
<1>3. ASSUME NEW d \in Collections
      PROVE  Within(place, d) \subseteq Within(q, d)
  <2> DEFINE S == Within(q, d)
  <2>1. ASSUME NEW i \in Items, place[i] = d \/ place[i] \in S
        PROVE  i \in S
    <3>1. place[i] # Nowhere
      BY <2>1, WithinClosed, TreeAssumption
    <3>2. q[i] = place[i]
      BY <1>1, <3>1 DEF Present
    <3> QED BY <2>1, <3>2, WithinClosed DEF Closed
  <2> QED BY <2>1, WithinClosed, WithinLeast DEF Closed
<1>4. ASSUME NEW j \in source
      PROVE  f[j] \in Within(q, c)
  <2> DEFINE T == {k \in source : f[k] \in Within(q, c)}
  <2>1. ASSUME NEW k \in top PROVE k \in T
    <3>1. q[f[k]] = at /\ f[k] \in Items
      BY <1>1, <1>2
    <3>2. at = c \/ at \in Within(q, c)
      BY <1>3
    <3> QED BY <3>1, <3>2, WithinClosed DEF Closed
  <2>2. ASSUME NEW k \in source, place[k] \in T PROVE k \in T
    <3>1. CASE k \in top
      BY <2>1, <3>1
    <3>2. CASE k \notin top
      <4>1. q[f[k]] = f[place[k]] /\ f[k] \in Items
        BY <1>1, <1>2, <3>2
      <4> QED BY <2>2, <4>1, WithinClosed DEF Closed
    <3> QED BY <3>1, <3>2
  <2> QED BY <2>1, <2>2
<1>5. ASSUME NEW i \in Items, q[i] # Nowhere
      PROVE  \E d \in cs : i \in Within(q, d)
  <2>1. CASE \E j \in source : f[j] = i
    BY <1>4, <2>1
  <2>2. CASE \A j \in source : f[j] # i
    <3>1. PICK d \in old : i \in Within(place, d)
      BY <1>1, <1>5, <2>2 DEF Sound
    <3> QED BY <1>3, <3>1
  <2> QED BY <2>1, <2>2
<1>6. ASSUME NEW d \in Collections \ cs
      PROVE  Within(q, d) = {}
  <2>1. ASSUME NEW i \in Items, q[i] = d PROVE FALSE
    <3>1. CASE \A j \in source : f[j] # i
      <4>1. i \in Within(place, d)
        BY <1>1, <2>1, <3>1, WithinClosed DEF Closed
      <4> QED BY <1>6, <4>1 DEF Sound
    <3>2. CASE \E j \in source : f[j] = i
      <4>1. PICK j \in source : f[j] = i
        BY <3>2
      <4>2. at # d
        BY TreeAssumption DEF Items
      <4>3. j \notin top => f[place[j]] \in Items
        BY <1>2
      <4> QED BY <1>1, <2>1, <4>1, <4>2, <4>3, TreeAssumption
    <3> QED BY <3>1, <3>2
  <2> QED BY <2>1, WithinEmpty
<1> QED BY <1>5, <1>6 DEF Sound, q

(***************************************************************************)
(* What each operation of the tree does to a sound tree, and what it loses.*)
(***************************************************************************)
TreeOK == place \in Placements /\ collections \in SUBSET Collections /\ Sound(place, collections)

Lost == {i \in Present : place'[i] = Nowhere}

LEMMA SoundIsTreeSound == TreeOK => TreeSound
BY DEF TreeOK, Sound, TreeSound, Inside, Present

\* Every item that is somewhere has a home, which exists.
LEMMA HomeExists ==
  ASSUME TreeOK, NEW i \in Present
  PROVE  Home(i) \in collections /\ i \in Inside(Home(i))
<1>1. \E c \in Collections : i \in Inside(c)
  BY DEF TreeOK, Sound, Present, Inside
<1>2. Home(i) \in Collections /\ i \in Inside(Home(i))
  BY <1>1 DEF Home
<1> QED BY <1>2 DEF TreeOK, Sound, Inside

\* Without(gone) loses what is in gone, and keeps the tree sound.
LEMMA WithoutStep ==
  ASSUME TreeOK, NEW gone, Whole(place, gone), place' = Without(gone)
  PROVE  /\ place' \in Placements /\ Sound(place', collections)
         /\ Lost = gone \cap Present
<1>1. place' = Out(place, gone)
  BY DEF Without, Out
<1>2. \A i \in Items : place'[i] = IF i \in gone THEN Nowhere ELSE place[i]
  BY DEF Without
<1>3. Lost = gone \cap Present
  BY <1>2 DEF Lost, Present
<1> QED BY <1>1, <1>3, SoundOut DEF TreeOK

\* One branch goes, or nothing if it was not in the store.
LEMMA BranchStep ==
  ASSUME TreeOK, NEW i \in Items, place' = Without(Subtree(i)), UNCHANGED collections
  PROVE  TreeOK' /\ Lost = IF i \in Present THEN Subtree(i) ELSE {}
<1>1. Whole(place, Subtree(i))
  BY SubtreesWhole DEF Subtree, Inside
<1>2. TreeOK' /\ Lost = Subtree(i) \cap Present
  BY <1>1, WithoutStep DEF TreeOK
<1>3. \A j \in Inside(i) : j \in Present
  BY WithinPresent, WithinClosed, TreeAssumption DEF Inside, Present
<1>4. i \notin Present => Inside(i) = {}
  BY NothingInside DEF TreeOK, Present, Inside
<1> QED BY <1>2, <1>3, <1>4 DEF Subtree

LEMMA MovedStep ==
  ASSUME TreeOK, NEW i \in Items, NEW t, NEW c \in collections,
         t = c \/ (t \in Folders /\ t \in Inside(c) /\ t \notin Subtree(i)),
         place' = [place EXCEPT ![i] = t], UNCHANGED collections
  PROVE  TreeOK' /\ Lost = {}
<1>1. place' \in Placements /\ Sound(place', collections)
  BY SoundMoved DEF TreeOK, Inside, Subtree
<1>2. t # Nowhere
  BY TreeAssumption DEF TreeOK, Items
<1>3. \A j \in Items : place'[j] = IF j = i THEN t ELSE place[j]
  BY DEF TreeOK, Placements
<1>4. Lost = {}
  BY <1>2, <1>3 DEF Lost, Present
<1> QED BY <1>1, <1>4 DEF TreeOK

LEMMA AddCollectionStep ==
  ASSUME TreeOK, NEW c \in Collections, AddCollection(c)
  PROVE  TreeOK' /\ Lost = {}
<1>1. place' = place /\ collections' = collections \cup {c}
  BY DEF AddCollection
<1>2. Sound(place, collections \cup {c})
  BY SoundWithCollection DEF TreeOK
<1> QED BY <1>1, <1>2 DEF TreeOK, Lost, Present

LEMMA AddItemStep ==
  ASSUME TreeOK, NEW i \in Items, NEW c, NEW folder, AddItem(i, c, folder)
  PROVE  TreeOK' /\ Lost = {}
<1>1. i \notin Present /\ UNCHANGED collections
  BY DEF AddItem
<1>2. Inside(i) = {}
  BY <1>1, NothingInside DEF TreeOK, Present, Inside
<1>3. CASE c \notin collections
  <2>1. place' = place
    BY <1>3 DEF AddItem
  <2> QED BY <1>1, <2>1 DEF TreeOK, Lost, Present
<1>4. CASE c \in collections /\ folder = Nowhere
  <2>1. place' = [place EXCEPT ![i] = c]
    BY <1>4 DEF AddItem, InsertIntoList
  <2> QED BY <1>1, <1>4, <2>1, MovedStep
<1>5. CASE c \in collections /\ folder # Nowhere /\ folder \in Inside(c) \cap Folders
  <2>1. place' = [place EXCEPT ![i] = folder]
    BY <1>5 DEF AddItem, InsertIntoList
  <2>2. c # Nowhere /\ folder \in Items
    BY <1>5, TreeAssumption DEF TreeOK, Items
  <2>3. folder \notin Subtree(i)
    BY <1>1, <1>2, <1>5, <2>2, WithinPresent DEF Subtree, Present, Inside
  <2> QED BY <1>1, <1>5, <2>1, <2>3, MovedStep
<1>6. CASE c \in collections /\ folder # Nowhere /\ folder \notin Inside(c) \cap Folders
  <2>1. place' = Without(Subtree(i))
    BY <1>6 DEF AddItem, InsertIntoList
  <2> QED BY <1>1, <2>1, BranchStep
<1> QED BY <1>3, <1>4, <1>5, <1>6

LEMMA DeleteItemStep ==
  ASSUME TreeOK, NEW i, NEW c, DeleteItem(c, i)
  PROVE  TreeOK' /\ (Lost = {} \/ Lost = Subtree(i))
<1>1. CASE i \in Inside(c)
  <2>1. i \in Items /\ place' = Without(Subtree(i)) /\ UNCHANGED collections
    BY <1>1, WithinClosed DEF DeleteItem, Inside
  <2> QED BY <2>1, BranchStep
<1>2. CASE i \notin Inside(c)
  <2>1. place' = place /\ UNCHANGED collections
    BY <1>2 DEF DeleteItem
  <2> QED BY <2>1 DEF TreeOK, Lost, Present
<1> QED BY <1>1, <1>2

LEMMA DeleteCollectionStep ==
  ASSUME TreeOK, NEW c \in Collections, DeleteCollection(c)
  PROVE  TreeOK' /\ Lost = Inside(c)
<1>1. place' = Without(Inside(c)) /\ collections' = collections \ {c}
  BY DEF DeleteCollection
<1>2. place' = Out(place, Within(place, c))
  BY <1>1 DEF Without, Out, Inside
<1>3. Sound(place', collections \ {c})
  BY <1>2, SoundWithoutCollection DEF TreeOK
<1>4. Whole(place, Inside(c))
  BY SubtreesWhole DEF Inside
<1>5. place' \in Placements /\ Lost = Inside(c) \cap Present
  BY <1>1, <1>4, WithoutStep
<1>6. Inside(c) \subseteq Present
  BY WithinPresent, WithinClosed, TreeAssumption DEF Inside, Present
<1> QED BY <1>1, <1>3, <1>5, <1>6 DEF TreeOK

LEMMA DuplicateItemStep ==
  ASSUME TreeOK, NEW i \in Present, DuplicateItem(Home(i), i)
  PROVE  TreeOK' /\ Lost = {}
<1> DEFINE source == Subtree(i)
<1>1. PICK f \in Clones(source) : place' = WithCopy(f, {i}, place[i])
  BY DEF DuplicateItem
<1>2. Home(i) \in collections /\ i \in Within(place, Home(i)) /\ UNCHANGED collections
  BY HomeExists DEF DuplicateItem, Inside
<1>3. source \subseteq Present
  BY WithinPresent, WithinClosed, TreeAssumption DEF Subtree, Inside, Present
<1>4. \A j \in source \ {i} : place[j] \in source
  BY WithinStep DEF Subtree, Inside
<1>5. ASSUME NEW T \in SUBSET source, i \in T, \A j \in source : place[j] \in T => j \in T
      PROVE  source \subseteq T
  <2>1. Closed(place, i, T)
    <3>1. \A j \in Items : place[j] \in source => j \in source
      BY SubtreesWhole DEF Whole, Subtree, Inside
    <3> QED BY <1>5, <3>1 DEF Closed, Subtree
  <2>2. Within(place, i) \subseteq T
    BY <1>3, <2>1, WithinLeast DEF Present
  <2> QED BY <1>5, <2>2 DEF Subtree, Inside
<1>6. place[i] = Home(i) \/ (place[i] \in Folders /\ place[i] \in Within(place, Home(i)))
  <2>1. place[i] = Home(i) \/ place[i] \in Within(place, Home(i))
    BY <1>2, WithinStep
  <2>2. Within(place, Home(i)) \subseteq Items /\ i \in Items
    BY WithinClosed DEF Present
  <2> QED BY <2>1, <2>2, TreeAssumption DEF TreeOK, Placements
<1>7. place[i] \in Collections \cup Folders
  BY <1>2, <1>6 DEF TreeOK
<1> HIDE DEF source
<1>8. {i} \in SUBSET source
  BY DEF source, Subtree
<1>9. place' \in Placements /\ IsCopy(place', source, f, {i}, place[i])
  BY <1>1, <1>3, <1>4, <1>7, <1>8, CopyPlaces DEF TreeOK
<1>10. Sound(place', collections)
  BY <1>1, <1>2, <1>3, <1>4, <1>5, <1>6, <1>8, SoundCopied DEF TreeOK
<1>11. Lost = {}
  BY <1>9 DEF IsCopy, Lost, Present
<1> QED BY <1>2, <1>9, <1>10, <1>11 DEF TreeOK

LEMMA DuplicateCollectionStep ==
  ASSUME TreeOK, NEW c, NEW copy \in Collections, DuplicateCollection(c, copy)
  PROVE  TreeOK' /\ Lost = {}
<1> DEFINE source == Inside(c)
           top == {i \in Items : place[i] = c}
<1>1. c \in collections /\ collections' = collections \cup {copy}
  BY DEF DuplicateCollection
<1>2. PICK f \in Clones(source) : place' = WithCopy(f, top, copy)
  BY DEF DuplicateCollection
<1>3. source \subseteq Present
  BY <1>1, WithinPresent, WithinClosed, TreeAssumption DEF TreeOK, Inside, Present
<1>4. top \in SUBSET source
  BY WithinClosed DEF Inside, Closed
<1>5. \A j \in source \ top : place[j] \in source
  BY WithinStep DEF Inside
<1>6. ASSUME NEW T \in SUBSET source, top \subseteq T,
             \A j \in source : place[j] \in T => j \in T
      PROVE  source \subseteq T
  <2>1. Closed(place, c, T)
    <3>1. \A j \in Items : place[j] \in source => j \in source
      BY SubtreesWhole DEF Whole, Inside
    <3> QED BY <1>6, <3>1 DEF Closed
  <2> QED BY <1>3, <2>1, WithinLeast DEF Present, Inside
<1> HIDE DEF source, top
<1>7. place' \in Placements /\ IsCopy(place', source, f, top, copy)
  BY <1>2, <1>3, <1>4, <1>5, CopyPlaces DEF TreeOK
<1>8. Sound(place', collections \cup {copy})
  <2>1. /\ collections \cup {copy} \in SUBSET Collections /\ collections \in SUBSET Collections
        /\ collections \subseteq collections \cup {copy} /\ copy \in collections \cup {copy}
        /\ place \in Placements /\ Sound(place, collections)
    BY DEF TreeOK
  <2> QED BY <1>2, <1>3, <1>4, <1>5, <1>6, <2>1, SoundCopied
<1>9. Lost = {}
  BY <1>7 DEF IsCopy, Lost, Present
<1> QED BY <1>1, <1>7, <1>8, <1>9 DEF TreeOK

\* What a drop may lose: a branch, with a folder in it on which it was dropped.
DropLoses == Lost = {} \/ \E f \in Folders : Lost = Subtree(f) /\ Inside(f) \cap Folders # {}

LEMMA MoveItemStep ==
  ASSUME TreeOK, NEW i \in Present, NEW target \in collections, NEW folder,
         folder = Nowhere \/ (folder \in Folders /\ folder \in Inside(target)),
         MoveItem(Home(i), i, target, folder)
  PROVE  TreeOK' /\ DropLoses
<1>1. Home(i) \in collections /\ i \in Inside(Home(i)) /\ i \in Items
  BY HomeExists DEF Present
<1>2. UNCHANGED collections
  BY DEF MoveItem
<1>3. CASE i = folder
  <2>1. place' = place
    BY <1>3 DEF MoveItem
  <2> QED BY <1>2, <2>1 DEF TreeOK, DropLoses, Lost, Present
<1>4. CASE i # folder /\ folder = Nowhere
  <2>1. place' = [place EXCEPT ![i] = target]
    BY <1>1, <1>4 DEF MoveItem, InsertIntoList
  <2>2. TreeOK' /\ Lost = {}
    BY <1>1, <1>2, <2>1, MovedStep
  <2> QED BY <2>2 DEF DropLoses
<1>5. CASE i # folder /\ folder # Nowhere /\ folder \notin Subtree(i)
  <2>1. folder \in Remaining(target, i) \cap Folders
    BY <1>5 DEF Remaining
  <2>2. place' = [place EXCEPT ![i] = folder]
    BY <1>1, <1>5, <2>1 DEF MoveItem, InsertIntoList
  <2>3. TreeOK' /\ Lost = {}
    BY <1>1, <1>2, <1>5, <2>2, MovedStep
  <2> QED BY <2>3 DEF DropLoses
<1>6. CASE i # folder /\ folder # Nowhere /\ folder \in Subtree(i)
  <2>1. folder \notin Remaining(target, i)
    BY <1>6 DEF Remaining
  <2>2. place' = Without(Subtree(i))
    BY <1>1, <1>6, <2>1 DEF MoveItem, InsertIntoList
  <2>3. TreeOK' /\ Lost = Subtree(i)
    BY <1>1, <1>2, <2>2, BranchStep
  <2>4. folder \in Inside(i) \cap Folders
    BY <1>6 DEF Subtree
  <2>5. i \in Folders
    BY <1>1, <2>4, NothingInside DEF TreeOK, Inside
  <2> QED BY <2>3, <2>4, <2>5 DEF DropLoses
<1> QED BY <1>3, <1>4, <1>5, <1>6

LEMMA DropStep ==
  ASSUME TreeOK, NEW i \in Items, Drop(i)
  PROVE  TreeOK' /\ DropLoses
<1>1. i \in Present
  BY DEF Drop
<1>2. CASE \E target \in collections : MoveItem(Home(i), i, target, Nowhere)
  BY <1>1, <1>2, MoveItemStep
<1>3. CASE \E folder \in Present \cap Folders : MoveItem(Home(i), i, Home(folder), folder)
  <2>1. PICK folder \in Present \cap Folders : MoveItem(Home(i), i, Home(folder), folder)
    BY <1>3
  <2>2. Home(folder) \in collections /\ folder \in Inside(Home(folder))
    BY HomeExists
  <2> QED BY <1>1, <2>1, <2>2, MoveItemStep
<1> QED BY <1>2, <1>3 DEF Drop

LEMMA ImportedStep ==
  ASSUME TreeOK, NEW c \in Collections, NEW r \in Requests, Imported(c, r)
  PROVE  TreeOK' /\ Lost = {}
<1> DEFINE q == [place EXCEPT ![r] = c]
<1>1. /\ collections' = collections \cup {c} /\ place' = q
      /\ collections \cup {c} \in SUBSET Collections /\ r \in Items
  BY DEF Imported, TreeOK, Items
<1>2. Sound(place, collections \cup {c})
  BY SoundWithCollection DEF TreeOK
<1>3. q \in Placements /\ Sound(q, collections \cup {c})
  BY <1>1, <1>2, SoundMoved DEF TreeOK
<1>4. Lost = {}
  BY <1>1, TreeAssumption DEF Lost, Present, TreeOK, Placements
<1> QED BY <1>1, <1>3, <1>4 DEF TreeOK

(***************************************************************************)
(* Every step.  WorkInv adds to the sound tree that the one the agent will *)
(* answer with is sound, and that the dialog is about a collection.        *)
(***************************************************************************)
SavedOK ==
  ~Loaded =>
    /\ saved.place \in Placements /\ saved.collections \in SUBSET Collections
    /\ saved.environments \in SUBSET Environments
    /\ Sound(saved.place, saved.collections)

WorkInv ==
  /\ TreeOK /\ SavedOK /\ environments \in SUBSET Environments
  /\ confirm.op = "deleteCollection" => confirm.collection \in Collections

LossExplained ==
  \/ Lost = {} \/ Loaded # Loaded'
  \/ confirm.op = "deleteItem" /\ confirm' = Nothing /\ Lost = Subtree(confirm.item)
  \/ confirm.op = "deleteCollection" /\ confirm' = Nothing /\ Lost = Inside(confirm.collection)
  \/ (\E f \in Folders : Lost = Subtree(f) /\ Inside(f) \cap Folders # {}) /\ UNCHANGED confirm

\* What is left to show of a step that leaves the agent's copy alone.
Clean ==
  /\ TreeOK' /\ Lost = {} /\ UNCHANGED saved /\ environments' \in SUBSET Environments
  /\ confirm'.op = "deleteCollection" => confirm'.collection \in Collections

LEMMA CleanStep ==
  ASSUME WorkInv, Clean
  PROVE  WorkInv' /\ LossExplained
BY DEF WorkInv, Clean, SavedOK, Loaded, LossExplained

LEMMA SameTree ==
  ASSUME WorkInv, UNCHANGED treeVars
  PROVE  TreeOK' /\ Lost = {}
BY DEF WorkInv, TreeOK, treeVars, Lost, Present

LEMMA RequestNodeStep ==
  ASSUME WorkInv, NEW r \in Requests, RequestNode(r)
  PROVE  WorkInv' /\ LossExplained
<1>1. /\ r \in Present /\ UNCHANGED saved /\ UNCHANGED environments
      /\ \/ UNCHANGED <<treeVars, confirm>>
         \/ DuplicateItem(Home(r), r) /\ UNCHANGED confirm
         \/ UNCHANGED treeVars /\ confirm' = [op |-> "deleteItem", item |-> r, collection |-> Home(r)]
  BY DEF RequestNode, envVars
<1>2. TreeOK' /\ Lost = {}
  BY <1>1, SameTree, DuplicateItemStep DEF WorkInv
<1>3. confirm'.op = "deleteCollection" => confirm'.collection \in Collections
  BY <1>1 DEF WorkInv
<1> QED BY <1>1, <1>2, <1>3, CleanStep DEF Clean, WorkInv

LEMMA AddIntoStep ==
  ASSUME WorkInv, NEW c, NEW folder, AddInto(c, folder)
  PROVE  TreeOK' /\ Lost = {}
<1>1. PICK i \in Items : AddItem(i, c, folder)
  BY DEF AddInto
<1> QED BY <1>1, AddItemStep DEF WorkInv

LEMMA FolderNodeStep ==
  ASSUME WorkInv, NEW f \in Folders, FolderNode(f)
  PROVE  WorkInv' /\ LossExplained
<1>1. /\ f \in Present /\ UNCHANGED saved /\ UNCHANGED environments
      /\ \/ AddInto(Home(f), f) /\ UNCHANGED confirm
         \/ UNCHANGED <<treeVars, confirm>>
         \/ DuplicateItem(Home(f), f) /\ UNCHANGED confirm
         \/ UNCHANGED treeVars /\ confirm' = [op |-> "deleteItem", item |-> f, collection |-> Home(f)]
  BY DEF FolderNode, envVars
<1>2. TreeOK' /\ Lost = {}
  BY <1>1, SameTree, DuplicateItemStep, AddIntoStep DEF WorkInv
<1>3. confirm'.op = "deleteCollection" => confirm'.collection \in Collections
  BY <1>1 DEF WorkInv
<1> QED BY <1>1, <1>2, <1>3, CleanStep DEF Clean, WorkInv

LEMMA CollectionCardStep ==
  ASSUME WorkInv, NEW c \in Collections, CollectionCard(c)
  PROVE  WorkInv' /\ LossExplained
<1>1. /\ UNCHANGED saved /\ UNCHANGED environments
      /\ \/ AddInto(c, Nowhere) /\ UNCHANGED confirm
         \/ UNCHANGED <<treeVars, confirm>>
         \/ (\E copy \in Collections : DuplicateCollection(c, copy)) /\ UNCHANGED confirm
         \/ UNCHANGED treeVars /\ confirm' = [op |-> "deleteCollection", collection |-> c]
  BY DEF CollectionCard, envVars
<1>2. TreeOK' /\ Lost = {}
  BY <1>1, SameTree, DuplicateCollectionStep, AddIntoStep DEF WorkInv
<1>3. confirm'.op = "deleteCollection" => confirm'.collection \in Collections
  BY <1>1 DEF WorkInv
<1> QED BY <1>1, <1>2, <1>3, CleanStep DEF Clean, WorkInv

LEMMA ConfirmDeleteStep ==
  ASSUME WorkInv, ConfirmDelete
  PROVE  WorkInv' /\ LossExplained
<1>1. confirm' = Nothing /\ UNCHANGED saved
  BY DEF ConfirmDelete
<1>2. CASE confirm.op = "deleteItem"
  <2>1. DeleteItem(confirm.collection, confirm.item) /\ UNCHANGED environments
    BY <1>2 DEF ConfirmDelete, envVars
  <2>2. TreeOK' /\ (Lost = {} \/ Lost = Subtree(confirm.item))
    BY <2>1, DeleteItemStep DEF WorkInv
  <2>3. LossExplained
    BY <1>1, <1>2, <2>2 DEF LossExplained
  <2> QED BY <1>1, <2>1, <2>2, <2>3 DEF WorkInv, SavedOK, Loaded, Nothing
<1>3. CASE confirm.op = "deleteCollection"
  <2>1. DeleteCollection(confirm.collection) /\ UNCHANGED environments
    BY <1>3 DEF ConfirmDelete, envVars
  <2>2. TreeOK' /\ Lost = Inside(confirm.collection)
    BY <1>3, <2>1, DeleteCollectionStep DEF WorkInv
  <2>3. LossExplained
    BY <1>1, <1>3, <2>2 DEF LossExplained
  <2> QED BY <1>1, <2>1, <2>2, <2>3 DEF WorkInv, SavedOK, Loaded, Nothing
<1>4. CASE confirm.op \notin {"deleteItem", "deleteCollection"}
  <2>1. UNCHANGED treeVars /\ environments' \in SUBSET Environments
    BY <1>4 DEF ConfirmDelete, WorkInv
  <2> QED BY <1>1, <2>1, SameTree, CleanStep DEF Clean, Nothing
<1> QED BY <1>2, <1>3, <1>4

LEMMA DropWorkStep ==
  ASSUME WorkInv, NEW i \in Items, Drop(i)
  PROVE  WorkInv' /\ LossExplained
<1>1. UNCHANGED <<environments, confirm, saved>>
  BY DEF Drop, envVars
<1>2. TreeOK' /\ DropLoses
  BY DropStep DEF WorkInv
<1> QED BY <1>1, <1>2 DEF WorkInv, SavedOK, Loaded, LossExplained, DropLoses

LEMMA ReloadStep ==
  ASSUME WorkInv, Reload
  PROVE  WorkInv' /\ LossExplained
<1>1. /\ saved' = [collections |-> collections, place |-> place, environments |-> environments]
      /\ collections' = {} /\ place' = Without(Items) /\ environments' = {} /\ confirm' = Nothing
      /\ Loaded
  BY DEF Reload
<1>2. saved' # None
  BY <1>1, WorkbenchAssumption DEF WorkInv, TreeOK, Placements
<1>3. \A i \in Items : place'[i] = Nowhere
  BY <1>1 DEF Without
<1>4. \A c \in Collections : Within(place', c) = {}
  BY <1>3, WithinEmpty, TreeAssumption
<1>5. place' \in Placements
  BY <1>1 DEF Without, Placements
<1>6. TreeOK'
  BY <1>1, <1>3, <1>4, <1>5 DEF TreeOK, Sound
<1>7. SavedOK'
  BY <1>1, <1>2 DEF WorkInv, TreeOK, SavedOK, Loaded
<1>8. LossExplained
  BY <1>1, <1>2 DEF LossExplained, Loaded
<1> QED BY <1>1, <1>6, <1>7, <1>8 DEF WorkInv, Nothing

LEMMA LoadStep ==
  ASSUME WorkInv, Load
  PROVE  WorkInv' /\ LossExplained
<1>1. /\ ~Loaded /\ saved' = None /\ collections' = saved.collections /\ place' = saved.place
      /\ environments' = saved.environments /\ UNCHANGED confirm
  BY DEF Load
<1>2. TreeOK' /\ environments' \in SUBSET Environments
  BY <1>1 DEF WorkInv, SavedOK, TreeOK
<1> QED BY <1>1, <1>2 DEF WorkInv, SavedOK, Loaded, LossExplained

\* The steps that leave the tree alone.
LEMMA OtherSteps ==
  ASSUME WorkInv, UNCHANGED <<treeVars, saved>>,
         environments' \in SUBSET Environments,
         confirm' = confirm \/ confirm'.op # "deleteCollection"
  PROVE  WorkInv' /\ LossExplained
BY SameTree, CleanStep DEF Clean, WorkInv

LEMMA UserStep ==
  ASSUME WorkInv, UserAct
  PROVE  WorkInv' /\ LossExplained
<1>1. CASE \E r \in Requests : RequestNode(r)
  BY <1>1, RequestNodeStep
<1>2. CASE \E f \in Folders : FolderNode(f)
  BY <1>2, FolderNodeStep
<1>3. CASE \E c \in Collections : CollectionCard(c)
  BY <1>3, CollectionCardStep
<1>4. CASE \E c \in Collections : NewCollection(c)
  <2>1. PICK c \in Collections : NewCollection(c)
    BY <1>4
  <2>2. AddCollection(c) /\ UNCHANGED <<environments, confirm, saved>>
    BY <2>1 DEF NewCollection, envVars
  <2>3. TreeOK' /\ Lost = {}
    BY <2>2, AddCollectionStep DEF WorkInv
  <2> QED BY <2>2, <2>3, CleanStep DEF Clean, WorkInv
<1>5. CASE \E i \in Items : Drop(i)
  BY <1>5, DropWorkStep
<1>6. CASE \E c \in Collections, r \in Requests : Imported(c, r)
  <2>1. PICK c \in Collections, r \in Requests : Imported(c, r)
    BY <1>6
  <2>2. UNCHANGED <<environments, confirm, saved>>
    BY <2>1 DEF Imported, envVars
  <2>3. TreeOK' /\ Lost = {}
    BY <2>1, ImportedStep DEF WorkInv
  <2> QED BY <2>2, <2>3, CleanStep DEF Clean, WorkInv
<1>7. CASE \E e \in Environments : EnvironmentsPanel(e)
  <2>1. /\ UNCHANGED <<treeVars, saved>> /\ environments' \in SUBSET Environments
        /\ confirm' = confirm \/ confirm'.op = "deleteEnvironment"
    BY <1>7 DEF EnvironmentsPanel, WorkInv
  <2> QED BY <2>1, OtherSteps
<1>8. CASE Globals \/ (\E e \in environments \cup {None} : SelectEnvironment(e))
           \/ Search \/ Edit \/ KeyboardShortcuts
  <2>1. UNCHANGED <<treeVars, saved, environments, confirm>>
    BY <1>8 DEF Globals, SelectEnvironment, Search, Edit, KeyboardShortcuts, envVars
  <2> QED BY <2>1, OtherSteps DEF WorkInv
<1>9. CASE ConfirmDelete
  BY <1>9, ConfirmDeleteStep
<1>10. CASE ConfirmClose \/ Cancel
  <2>1. UNCHANGED <<treeVars, saved, environments>> /\ confirm' = Nothing
    BY <1>10 DEF ConfirmClose, Cancel, envVars
  <2> QED BY <2>1, OtherSteps DEF WorkInv, Nothing
<1>11. CASE \E id \in TabIds : TabBar(id)
  <2>1. /\ UNCHANGED <<treeVars, saved, environments>>
        /\ confirm' = confirm \/ confirm'.op \in {"close", "closeOthers", "closeRight"}
    BY <1>11 DEF TabBar, AskFirst, envVars
  <2> QED BY <2>1, OtherSteps DEF WorkInv
<1>12. CASE Reload
  BY <1>12, ReloadStep
<1> QED BY <1>1, <1>2, <1>3, <1>4, <1>5, <1>6, <1>7, <1>8, <1>9, <1>10, <1>11, <1>12 DEF UserAct

LEMMA WorkStep ==
  ASSUME WorkInv, [Next]_vars
  PROVE  WorkInv' /\ LossExplained
<1>1. CASE UserAct
  BY <1>1, UserStep
<1>2. CASE CleanupOrphans \/ EnvironmentPane
  <2>1. UNCHANGED <<treeVars, saved, environments, confirm>>
    BY <1>2 DEF CleanupOrphans, EnvironmentPane, envVars
  <2> QED BY <2>1, OtherSteps DEF WorkInv
<1>3. CASE Load
  BY <1>3, LoadStep
<1>4. CASE UNCHANGED vars
  <2>1. UNCHANGED <<treeVars, saved, environments, confirm>>
    BY <1>4 DEF vars, envVars
  <2> QED BY <2>1, OtherSteps DEF WorkInv
<1> QED BY <1>1, <1>2, <1>3, <1>4 DEF Next

LEMMA WorkInit ==
  ASSUME Init
  PROVE  WorkInv
<1>1. TreeOK
  BY DEF Init, TreeInit, TreeOK, TreeSound, Sound, Placements, Inside, Present
<1> QED BY <1>1 DEF Init, WorkInv, SavedOK, Loaded, Nothing

\* The invariant of the workspace: its tree is sound, in the page and as it
\* was saved, and what is asked to be deleted is a collection.
THEOREM WorkInvHolds == Spec => []WorkInv
<1>1. WorkInv /\ [Next]_vars => WorkInv'
  BY WorkStep
<1> QED BY <1>1, WorkInit, PTL DEF Spec

\* Whatever the user adds, deletes, duplicates, drags or imports, an item
\* is in exactly the collections that exist: nothing is detached.
THEOREM TreeIsSound == Spec => []TreeSound
<1>1. WorkInv => TreeSound
  BY SoundIsTreeSound DEF WorkInv
<1> QED BY <1>1, WorkInvHolds, PTL

\* An item goes only with a confirmed deletion, or with a branch that is
\* dropped into itself.
THEOREM NothingElseIsLost == Spec => NothingElseLost
<1>1. WorkInv /\ [Next]_vars => LossExplained
  BY WorkStep
<1>2. LossExplained =>
        LET lost == {i \in Present : place'[i] = Nowhere} IN
        \/ lost = {} \/ Loaded # Loaded'
        \/ confirm.op = "deleteItem" /\ confirm' = Nothing /\ lost = Subtree(confirm.item)
        \/ confirm.op = "deleteCollection" /\ confirm' = Nothing /\ lost = Inside(confirm.collection)
        \/ \E f \in Folders : lost = Subtree(f) /\ Inside(f) \cap Folders # {} /\ UNCHANGED confirm
  BY DEF LossExplained, Lost
<1> QED BY <1>1, <1>2, WorkInvHolds, PTL DEF Spec, NothingElseLost

(***************************************************************************)
(* The tabs.                                                               *)
(***************************************************************************)
TabsOf(ids) ==
  [id : ids, type : TabTypes, item : Items \cup Environments \cup {None},
   collection : Collections \cup {None}, dirty : BOOLEAN, isSending : BOOLEAN, response : {None}]

TabsInv ==
  /\ tabs \in Seq(TabsOf(TabIds))
  /\ closedTabs \in Seq(TabsOf({None})) /\ Len(closedTabs) <= MaxClosed
  /\ DistinctIds /\ ActiveIsOpen

EditsKept ==
  \A n \in DOMAIN tabs :
    tabs[n].dirty /\ tabs[n].id \notin OpenIds' /\ Len(tabs) - Len(tabs') <= MaxClosed
      => \E m \in DOMAIN closedTabs' : closedTabs'[m] = Forgotten(tabs[n])

LEMMA TabsShape ==
  ASSUME TabsInv
  PROVE  /\ Len(tabs) \in Nat /\ DOMAIN tabs = 1 .. Len(tabs) /\ (tabs = <<>> <=> Len(tabs) = 0)
         /\ \A n \in DOMAIN tabs : tabs[n] \in TabsOf(TabIds) /\ tabs[n].id \in TabIds
         /\ Len(closedTabs) \in Nat /\ DOMAIN closedTabs = 1 .. Len(closedTabs)
<1>1. Len(tabs) \in Nat /\ DOMAIN tabs = 1 .. Len(tabs) /\ (tabs = <<>> <=> Len(tabs) = 0)
  BY LenProperties, EmptySeq DEF TabsInv
<1>2. \A n \in DOMAIN tabs : tabs[n] \in TabsOf(TabIds)
  BY <1>1, ElementOfSeq DEF TabsInv
<1>3. \A n \in DOMAIN tabs : tabs[n].id \in TabIds
  BY <1>2 DEF TabsOf
<1>4. Len(closedTabs) \in Nat /\ DOMAIN closedTabs = 1 .. Len(closedTabs)
  BY LenProperties DEF TabsInv
<1> QED BY <1>1, <1>2, <1>3, <1>4

LEMMA OpenFinds ==
  ASSUME NEW id \in OpenIds
  PROVE  Open(id) \in DOMAIN tabs /\ tabs[Open(id)].id = id
BY DEF Open, OpenIds

\* The id of a new tab is no open tab's.
LEMMA NextIdFresh ==
  ASSUME NEW busy, RoomFor(1, busy)
  PROVE  NextId(busy) \in TabIds /\ NextId(busy) \notin busy /\ NextId(busy) \notin OpenIds
<1> DEFINE free == TabIds \ (busy \cup OpenIds)
<1>1. free # {}
  BY FS_EmptySet DEF RoomFor
<1>2. free \in SUBSET Nat
  BY TabsAssumption
<1>3. \E id \in free : \A other \in free : id <= other
  BY <1>1, <1>2, HasLeast
<1> QED BY <1>3 DEF NextId

\* A step that closes no tab loses no edits.
LEMMA NoneClosed ==
  ASSUME OpenIds \subseteq OpenIds'
  PROVE  EditsKept
BY DEF EditsKept, OpenIds

LEMMA ShowStep ==
  ASSUME TabsInv, NEW id \in OpenIds, Show(id)
  PROVE  TabsInv' /\ EditsKept
<1>1. UNCHANGED <<tabs, closedTabs>> /\ activeTabId' = id
  BY DEF Show
<1>2. OpenIds' = OpenIds
  BY <1>1 DEF OpenIds
<1>3. DistinctIds'
  BY <1>1 DEF TabsInv, DistinctIds
<1>4. ActiveIsOpen'
  <2>1. tabs # <<>>
    BY OpenFinds, TabsShape
  <2> QED BY <1>1, <1>2, <2>1 DEF ActiveIsOpen
<1> QED BY <1>1, <1>2, <1>3, <1>4, NoneClosed DEF TabsInv

\* A tab more, anywhere, with an id of its own, and shown.
LEMMA OneMoreStep ==
  ASSUME TabsInv, NEW id \in TabIds, id \notin OpenIds,
         tabs' \in Seq(TabsOf(TabIds)), NEW p \in 1 .. Len(tabs) + 1,
         Len(tabs') = Len(tabs) + 1,
         \A n \in 1 .. Len(tabs) + 1 :
           tabs'[n].id = IF n < p THEN tabs[n].id ELSE IF n = p THEN id ELSE tabs[n - 1].id,
         activeTabId' = id,
         closedTabs' \in Seq(TabsOf({None})), Len(closedTabs') <= MaxClosed
  PROVE  TabsInv' /\ EditsKept
<1>1. Len(tabs) \in Nat /\ DOMAIN tabs = 1 .. Len(tabs)
  BY TabsShape
<1>2. DOMAIN tabs' = 1 .. Len(tabs) + 1 /\ tabs' # <<>>
  BY <1>1, LenProperties, EmptySeq
<1>3. tabs'[p].id = id
  BY <1>1
<1>4. activeTabId' \in OpenIds'
  BY <1>2, <1>3 DEF OpenIds
<1>5. OpenIds \subseteq OpenIds'
  <2>1. SUFFICES ASSUME NEW n \in 1 .. Len(tabs) PROVE tabs[n].id \in OpenIds'
    BY <1>1 DEF OpenIds
  <2>2. CASE n < p
    <3>1. n \in 1 .. Len(tabs) + 1 /\ tabs'[n].id = tabs[n].id
      BY <1>1, <2>2
    <3> QED BY <1>2, <3>1 DEF OpenIds
  <2>3. CASE ~(n < p)
    <3>1. n + 1 \in 1 .. Len(tabs) + 1 /\ tabs'[n + 1].id = tabs[n].id
      BY <1>1, <2>3
    <3> QED BY <1>2, <3>1 DEF OpenIds
  <2> QED BY <2>2, <2>3
<1>6. \A n \in 1 .. Len(tabs) : tabs[n].id # id
  BY <1>1 DEF OpenIds
<1>7. ASSUME NEW m \in 1 .. Len(tabs) + 1, NEW n \in 1 .. Len(tabs) + 1, m < n
      PROVE  tabs'[m].id # tabs'[n].id
  <2>1. \A i, j \in 1 .. Len(tabs) : i # j => tabs[i].id # tabs[j].id
    BY <1>1 DEF TabsInv, DistinctIds
  <2>2. CASE n < p
    BY <1>1, <1>7, <2>1, <2>2
  <2>3. CASE n = p
    <3>1. m \in 1 .. Len(tabs) /\ tabs'[m].id = tabs[m].id
      BY <1>1, <1>7, <2>3
    <3> QED BY <1>3, <1>6, <2>3, <3>1
  <2>4. CASE p < n /\ m < p
    <3>1. m \in 1 .. Len(tabs) /\ n - 1 \in 1 .. Len(tabs) /\ m # n - 1
      BY <1>1, <1>7, <2>4
    <3> QED BY <1>1, <2>1, <2>4, <3>1
  <2>5. CASE p < n /\ m = p
    <3>1. n - 1 \in 1 .. Len(tabs)
      BY <1>1, <1>7, <2>5
    <3> QED BY <1>1, <1>6, <2>5, <3>1
  <2>6. CASE p < n /\ p < m
    <3>1. m - 1 \in 1 .. Len(tabs) /\ n - 1 \in 1 .. Len(tabs) /\ m - 1 # n - 1
      BY <1>1, <1>7, <2>6
    <3>2. tabs'[m].id = tabs[m - 1].id /\ tabs'[n].id = tabs[n - 1].id
      BY <1>1, <1>7, <2>6
    <3> QED BY <2>1, <3>1, <3>2
  <2> QED BY <1>1, <1>7, <2>2, <2>3, <2>4, <2>5, <2>6
<1>8. DistinctIds'
  <2>1. ASSUME NEW m \in 1 .. Len(tabs) + 1, NEW n \in 1 .. Len(tabs) + 1, m # n
        PROVE  tabs'[m].id # tabs'[n].id
    <3>1. m < n \/ n < m
      BY <1>1, <2>1
    <3> QED BY <1>7, <3>1
  <2> QED BY <1>2, <2>1 DEF DistinctIds
<1> QED BY <1>2, <1>4, <1>5, <1>8, NoneClosed DEF TabsInv, ActiveIsOpen

LEMMA AppendedStep ==
  ASSUME TabsInv, NEW busy, RoomFor(1, busy), NEW t \in TabsOf({None}),
         tabs' = Append(tabs, [t EXCEPT !.id = NextId(busy)]), activeTabId' = NextId(busy),
         closedTabs' \in Seq(TabsOf({None})), Len(closedTabs') <= MaxClosed
  PROVE  TabsInv' /\ EditsKept
<1> DEFINE id == NextId(busy)
           new == [t EXCEPT !.id = id]
<1>1. id \in TabIds /\ id \notin OpenIds
  BY NextIdFresh
<1> HIDE DEF id
<1>2. new \in TabsOf(TabIds) /\ new.id = id
  BY <1>1 DEF TabsOf
<1> HIDE DEF new
<1>3. tabs' = Append(tabs, new) /\ activeTabId' = id
  BY DEF new, id
<1>4. Len(tabs) \in Nat /\ DOMAIN tabs = 1 .. Len(tabs)
  BY TabsShape
<1>5. /\ tabs' \in Seq(TabsOf(TabIds)) /\ Len(tabs') = Len(tabs) + 1
      /\ \A n \in 1 .. Len(tabs) : tabs'[n] = tabs[n]
      /\ tabs'[Len(tabs) + 1] = new
  BY <1>2, <1>3, AppendProperties DEF TabsInv
<1>6. PICK p \in 1 .. Len(tabs) + 1 : p = Len(tabs) + 1
  BY <1>4
<1>7. ASSUME NEW n \in 1 .. Len(tabs) + 1
      PROVE  tabs'[n].id = IF n < p THEN tabs[n].id ELSE IF n = p THEN id ELSE tabs[n - 1].id
  <2>1. CASE n = p
    <3>1. tabs'[n] = new
      BY <1>5, <1>6, <2>1
    <3>2. ~(n < p)
      BY <1>4, <1>6, <2>1
    <3> QED BY <1>2, <2>1, <3>1, <3>2
  <2>2. CASE n \in 1 .. Len(tabs) /\ n < p
    BY <1>5, <2>2
  <2> QED BY <1>4, <1>6, <2>1, <2>2
<1> QED BY <1>1, <1>3, <1>5, <1>7, OneMoreStep

LEMMA AddTabStep ==
  ASSUME TabsInv, NEW busy, NEW t \in TabsOf({None}), AddTab(t, busy)
  PROVE  TabsInv' /\ EditsKept
BY AppendedStep DEF AddTab, TabsInv

\* What the Open...Tab operations come to.
LEMMA OpenStep ==
  ASSUME TabsInv, NEW busy, NEW t \in TabsOf({None}), NEW same \in SUBSET (DOMAIN tabs),
         IF same # {} THEN Show(tabs[CHOOSE n \in same : \A m \in same : n <= m].id)
         ELSE AddTab(t, busy)
  PROVE  TabsInv' /\ EditsKept
<1>1. CASE same # {}
  <2> DEFINE first == CHOOSE n \in same : \A m \in same : n <= m
  <2>1. same \in SUBSET Nat
    BY TabsShape
  <2>2. first \in same
    BY <1>1, <2>1, HasLeast
  <2>3. Show(tabs[first].id)
    BY <1>1
  <2> HIDE DEF first
  <2>4. tabs[first].id \in OpenIds
    BY <2>2 DEF OpenIds
  <2> QED BY <2>3, <2>4, ShowStep
<1>2. CASE same = {}
  BY <1>2, AddTabStep
<1> QED BY <1>1, <1>2

LEMMA NewTabs ==
  ASSUME NEW type \in TabTypes, NEW item \in Items \cup Environments \cup {None},
         NEW c \in Collections \cup {None}
  PROVE  Tab(type, item, c) \in TabsOf({None})
BY DEF Tab, TabsOf

LEMMA OpenTabSteps ==
  ASSUME TabsInv, NEW busy, NEW item \in Items \cup Environments \cup {None},
         NEW c \in Collections \cup {None},
         \/ OpenRequestTab(item, busy) \/ OpenFolderTab(item, c, busy) \/ OpenCollectionTab(c, busy)
         \/ OpenEnvironmentTab(item, busy) \/ OpenGlobalsTab(busy) \/ OpenNewTab(busy)
  PROVE  TabsInv' /\ EditsKept
<1>1. {"request", "folder", "collection", "environment", "globals"} \subseteq TabTypes
  BY DEF TabTypes
<1>2. CASE OpenRequestTab(item, busy)
  BY <1>1, <1>2, NewTabs, OpenStep DEF OpenRequestTab, OpenTab
<1>3. CASE OpenFolderTab(item, c, busy)
  BY <1>1, <1>3, NewTabs, OpenStep DEF OpenFolderTab, OpenTab
<1>4. CASE OpenCollectionTab(c, busy)
  BY <1>1, <1>4, NewTabs, OpenStep DEF OpenCollectionTab, OpenTab
<1>5. CASE OpenEnvironmentTab(item, busy)
  BY <1>1, <1>5, NewTabs, OpenStep DEF OpenEnvironmentTab, OpenTab
<1>6. CASE OpenGlobalsTab(busy)
  BY <1>1, <1>6, NewTabs, OpenStep DEF OpenGlobalsTab, OpenTab
<1>7. CASE OpenNewTab(busy)
  BY <1>1, <1>7, NewTabs, AddTabStep DEF OpenNewTab, NewTab
<1> QED BY <1>2, <1>3, <1>4, <1>5, <1>6, <1>7

LEMMA ReopenStep ==
  ASSUME TabsInv, NEW busy, ReopenLastClosedTab(busy)
  PROVE  TabsInv' /\ EditsKept
<1> DEFINE k == Len(closedTabs)
<1>1. k \in Nat /\ k # 0 /\ k <= MaxClosed /\ closedTabs \in Seq(TabsOf({None}))
  BY TabsShape, EmptySeq DEF TabsInv, ReopenLastClosedTab
<1>2. \A i \in 1 .. k : closedTabs[i] \in TabsOf({None})
  BY <1>1, ElementOfSeq
<1>3. Last(closedTabs) \in TabsOf({None})
  BY <1>1, <1>2 DEF Last
<1> HIDE DEF k
<1>4. PICK a \in Nat : a = k - 1
  BY <1>1
<1>5. PICK q : q = SubSeq(closedTabs, 1, a)
  OBVIOUS
<1>6. closedTabs' = q
  BY <1>4, <1>5 DEF ReopenLastClosedTab, Front, k
<1>7. IsPiece(q, TabsOf({None}), closedTabs, 1, a)
  BY <1>1, <1>4, <1>5, Piece DEF k
<1>8. closedTabs' \in Seq(TabsOf({None})) /\ Len(closedTabs') <= MaxClosed
  BY <1>1, <1>4, <1>6, <1>7, TabsAssumption DEF IsPiece
<1> QED BY <1>3, <1>8, AppendedStep DEF ReopenLastClosedTab

\* What is forgotten of tabs, and what is kept of what was forgotten.
IsForgotten(q, s) ==
  /\ q \in Seq(TabsOf({None})) /\ Len(q) = Len(s)
  /\ \A i \in 1 .. Len(s) : q[i] = Forgotten(s[i])

LEMMA Forgets ==
  ASSUME NEW s \in Seq(TabsOf(TabIds))
  PROVE  IsForgotten(Forget(s), s)
<1>1. PICK k \in Nat : k = Len(s) /\ DOMAIN s = 1 .. k
  BY LenProperties
<1>2. \A i \in 1 .. k : s[i] \in TabsOf(TabIds)
  BY <1>1, ElementOfSeq
<1>3. \A i \in 1 .. k : Forgotten(s[i]) \in TabsOf({None})
  BY <1>2 DEF Forgotten, TabsOf
<1>4. Forget(s) = [n \in 1 .. k |-> Forgotten(s[n])]
  BY <1>1 DEF Forget
<1>5. Forget(s) \in [1 .. k -> TabsOf({None})]
  BY <1>3, <1>4
<1>6. PICK q : q = Forget(s)
  OBVIOUS
<1>7. q \in Seq(TabsOf({None}))
  BY <1>5, <1>6, SeqDef
<1>8. Len(q) = k
  BY <1>5, <1>6, <1>7, LenProperties
<1>9. \A i \in 1 .. k : q[i] = Forgotten(s[i])
  BY <1>4, <1>6
<1> QED BY <1>1, <1>6, <1>7, <1>8, <1>9 DEF IsForgotten

Holds(q, T, b) ==
  /\ q \in Seq(T) /\ Len(q) <= MaxClosed
  /\ Len(b) <= MaxClosed => \A i \in 1 .. Len(b) : \E m \in DOMAIN q : q[m] = b[i]

LEMMA Remembers ==
  ASSUME NEW T, NEW a \in Seq(T), NEW b \in Seq(T), NEW q, q = LastOf(a \o b, MaxClosed)
  PROVE  Holds(q, T, b)
<1>1. PICK s : s = a \o b
  OBVIOUS
<1>2. IsRow(s, T, a, b)
  BY <1>1, InARow
<1>3. PICK k \in Nat, l \in Nat : k = Len(a) /\ l = Len(b)
  BY LenProperties
<1>4. s \in Seq(T) /\ Len(s) = k + l /\ \A i \in 1 .. l : s[k + i] = b[i]
  <2>1. s \in Seq(T) /\ Len(s) = k + l /\ \A i \in 1 .. k + l : s[i] = IF i <= k THEN a[i] ELSE b[i - k]
    BY <1>2, <1>3 DEF IsRow
  <2>2. ASSUME NEW i \in 1 .. l PROVE s[k + i] = b[i]
    <3>1. k + i \in 1 .. k + l /\ ~(k + i <= k) /\ (k + i) - k = i
      BY <1>3
    <3> QED BY <2>1, <3>1
  <2> QED BY <2>1, <2>2
<1>5. MaxClosed \in Nat /\ MaxClosed > 0
  BY TabsAssumption
<1>6. CASE k + l <= MaxClosed
  <2>1. q = s
    BY <1>1, <1>4, <1>6 DEF LastOf
  <2>2. DOMAIN q = 1 .. k + l
    BY <1>4, <2>1, LenProperties
  <2>3. \A i \in 1 .. l : k + i \in 1 .. k + l
    BY <1>3
  <2> QED BY <1>3, <1>4, <1>6, <2>1, <2>2, <2>3 DEF Holds
<1>7. CASE ~(k + l <= MaxClosed)
  <2>1. PICK from \in Nat \ {0} : from = (k + l) - MaxClosed + 1
    BY <1>3, <1>5, <1>7
  <2>2. q = SubSeq(s, from, k + l)
    BY <1>1, <1>4, <1>7, <2>1 DEF LastOf
  <2>3. IsPiece(q, T, s, from, k + l)
    BY <1>4, <1>5, <2>1, <2>2, Piece
  <2>4. q \in Seq(T) /\ Len(q) = MaxClosed /\ \A i \in 1 .. MaxClosed : q[i] = s[from + i - 1]
    BY <1>3, <1>5, <2>1, <2>3 DEF IsPiece
  <2>5. DOMAIN q = 1 .. MaxClosed
    BY <2>4, LenProperties
  <2>6. ASSUME l <= MaxClosed, NEW i \in 1 .. l
        PROVE  \E m \in DOMAIN q : q[m] = b[i]
    <3>1. PICK m \in 1 .. MaxClosed : from + m - 1 = k + i
      <4>1. (i + MaxClosed) - l \in 1 .. MaxClosed /\ from + ((i + MaxClosed) - l) - 1 = k + i
        BY <1>3, <1>5, <2>1, <2>6
      <4> QED BY <4>1
    <3> QED BY <1>4, <2>4, <2>5, <3>1
  <2> QED BY <1>3, <1>5, <2>4, <2>6 DEF Holds
<1> QED BY <1>6, <1>7

\* Closing the tabs that are not at the positions that stay.
LEMMA ClosingKeepsEdits ==
  ASSUME TabsInv, NEW stay \in SUBSET (1 .. Len(tabs)), NEW n,
         IsSelection(tabs', TabsOf(TabIds), tabs, stay, n),
         NEW b, NEW l, l = Len(tabs) - n,
         IsSelection(b, TabsOf(TabIds), tabs, (1 .. Len(tabs)) \ stay, l),
         closedTabs' = LastOf(closedTabs \o Forget(b), MaxClosed)
  PROVE  /\ tabs' \in Seq(TabsOf(TabIds)) /\ DistinctIds'
         /\ closedTabs' \in Seq(TabsOf({None})) /\ Len(closedTabs') <= MaxClosed
         /\ \A x \in stay : tabs[x].id \in OpenIds'
         /\ tabs' = <<>> <=> stay = {}
         /\ tabs' # <<>> => Last(tabs').id \in OpenIds'
         /\ EditsKept
<1>1. PICK k \in Nat : k = Len(tabs) /\ DOMAIN tabs = 1 .. k
  BY TabsShape
<1>2. tabs \in Seq(TabsOf(TabIds)) /\ closedTabs \in Seq(TabsOf({None}))
  BY DEF TabsInv
<1>4. IsSelection(tabs', TabsOf(TabIds), tabs, stay, n)
  OBVIOUS
<1>5. DOMAIN tabs' = 1 .. n /\ (tabs' = <<>> <=> n = 0)
  BY <1>4, LenProperties, EmptySeq DEF IsSelection
<1>6. \A x \in stay : tabs[x].id \in OpenIds'
  <2>1. \A x \in stay : \E i \in 1 .. n : tabs'[i] = tabs[x]
    BY <1>4 DEF IsSelection
  <2> QED BY <1>5, <2>1 DEF OpenIds
<1>7. DistinctIds'
  <2>1. \A x, y \in stay : x # y => tabs[x].id # tabs[y].id
    BY <1>1 DEF TabsInv, DistinctIds
  <2>2. \A i, j \in 1 .. n :
          i # j => \E x, y \in stay : x # y /\ tabs'[i] = tabs[x] /\ tabs'[j] = tabs[y]
    BY <1>4 DEF IsSelection
  <2> QED BY <1>5, <2>1, <2>2 DEF DistinctIds
<1>8. tabs' # <<>> => Last(tabs').id \in OpenIds'
  <2>1. n \in Nat /\ Len(tabs') = n /\ (n # 0 => n \in 1 .. n)
    BY <1>4 DEF IsSelection
  <2> QED BY <1>5, <2>1 DEF Last, OpenIds
<1> DEFINE gone == (1 .. Len(tabs)) \ stay
<1>12. IsSelection(b, TabsOf(TabIds), tabs, gone, l) /\ l = k - n
  BY <1>1
<1>13. PICK f : f = Forget(b)
  OBVIOUS
<1>14. IsForgotten(f, b)
  BY <1>12, <1>13, Forgets DEF IsSelection
<1>15. closedTabs' = LastOf(closedTabs \o f, MaxClosed)
  BY <1>13
<1>16. Holds(closedTabs', TabsOf({None}), f)
  BY <1>2, <1>14, <1>15, Remembers DEF IsForgotten
<1>17. EditsKept
  <2>1. SUFFICES ASSUME NEW x \in 1 .. k, tabs[x].id \notin OpenIds', k - n <= MaxClosed
                 PROVE  \E m \in DOMAIN closedTabs' : closedTabs'[m] = Forgotten(tabs[x])
    BY <1>1, <1>4 DEF EditsKept, IsSelection
  <2>2. x \in gone
    BY <1>1, <1>6, <2>1
  <2>3. PICK i \in 1 .. l : b[i] = tabs[x]
    BY <1>12, <2>2 DEF IsSelection
  <2>4. Len(b) = l /\ Len(f) = l /\ f[i] = Forgotten(tabs[x])
    BY <1>12, <1>14, <2>3 DEF IsSelection, IsForgotten
  <2> QED BY <1>12, <1>16, <2>1, <2>3, <2>4 DEF Holds
<1>18. stay = {} <=> n = 0
  BY <1>4 DEF IsSelection
<1>19. tabs' \in Seq(TabsOf(TabIds))
  BY <1>4 DEF IsSelection
<1>20. closedTabs' \in Seq(TabsOf({None})) /\ Len(closedTabs') <= MaxClosed
  BY <1>16 DEF Holds
<1> QED BY <1>5, <1>6, <1>7, <1>8, <1>17, <1>18, <1>19, <1>20

LEMMA CloseTabsStep ==
  ASSUME TabsInv, NEW ids, CloseTabs(ids)
  PROVE  TabsInv' /\ EditsKept
<1> DEFINE stay == {n \in DOMAIN tabs : tabs[n].id \notin ids}
           right == {n \in stay : n > Open(activeTabId)}
           first == CHOOSE n \in right : \A m \in right : n <= m
<1>1. Len(tabs) \in Nat /\ DOMAIN tabs = 1 .. Len(tabs) /\ (tabs = <<>> <=> Len(tabs) = 0)
  BY TabsShape
<1>2. /\ tabs' = Among(tabs, stay)
      /\ closedTabs' = LastOf(closedTabs \o Forget(Among(tabs, DOMAIN tabs \ stay)), MaxClosed)
      /\ activeTabId' = IF stay = {} THEN None
                        ELSE IF activeTabId \notin ids THEN activeTabId
                        ELSE IF right # {} THEN tabs[first].id ELSE Last(tabs').id
  BY DEF CloseTabs
<1>3. stay \in SUBSET (1 .. Len(tabs))
  BY <1>1
<1> DEFINE n == Cardinality(stay)
           l == Cardinality((1 .. Len(tabs)) \ stay)
<1>4. /\ tabs' \in Seq(TabsOf(TabIds)) /\ DistinctIds'
      /\ closedTabs' \in Seq(TabsOf({None})) /\ Len(closedTabs') <= MaxClosed
      /\ \A x \in stay : tabs[x].id \in OpenIds'
      /\ tabs' = <<>> <=> stay = {}
      /\ tabs' # <<>> => Last(tabs').id \in OpenIds'
      /\ EditsKept
  <2> HIDE DEF stay
  <2>1. PICK b : b = Among(tabs, (1 .. Len(tabs)) \ stay)
    OBVIOUS
  <2>2. IsSelection(tabs', TabsOf(TabIds), tabs, stay, n)
    BY <1>2, <1>3, AmongSelects DEF TabsInv
  <2>3. IsSelection(b, TabsOf(TabIds), tabs, (1 .. Len(tabs)) \ stay, l)
    BY <2>1, AmongSelects DEF TabsInv
  <2>4. l = Len(tabs) - n
    BY <1>1, <1>3, Complement
  <2>5. closedTabs' = LastOf(closedTabs \o Forget(b), MaxClosed)
    BY <1>1, <1>2, <2>1
  <2> HIDE DEF n, l
  <2> QED BY <1>3, <2>2, <2>3, <2>4, <2>5, ClosingKeepsEdits
<1>5. right # {} => first \in right
  <2>1. right \in SUBSET Nat
    BY <1>1
  <2> HIDE DEF right
  <2> QED BY <2>1, HasLeast
<1>6. stay # {} /\ activeTabId \notin ids => activeTabId \in OpenIds'
  <2>1. SUFFICES ASSUME stay # {}, activeTabId \notin ids PROVE activeTabId \in OpenIds'
    OBVIOUS
  <2>2. activeTabId \in OpenIds
    BY <1>1, <2>1 DEF TabsInv, ActiveIsOpen
  <2>3. \E x \in stay : tabs[x].id = activeTabId
    BY <2>1, <2>2 DEF OpenIds
  <2> QED BY <1>4, <2>3
<1>7. ActiveIsOpen'
  <2>1. right # {} => first \in stay
    BY <1>5
  <2> HIDE DEF stay, right, first
  <2> QED BY <1>2, <1>4, <1>6, <2>1 DEF ActiveIsOpen
<1> QED BY <1>4, <1>7 DEF TabsInv

LEMMA CloseOtherTabsStep ==
  ASSUME TabsInv, NEW id, CloseOtherTabs(id)
  PROVE  TabsInv' /\ EditsKept
<1>1. CASE id \notin OpenIds
  <2>1. UNCHANGED tabVars
    BY <1>1 DEF CloseOtherTabs
  <2> QED BY <2>1, NoneClosed DEF tabVars, TabsInv, DistinctIds, ActiveIsOpen, OpenIds
<1>2. CASE id \in OpenIds
  <2>1. Len(tabs) \in Nat /\ DOMAIN tabs = 1 .. Len(tabs)
    BY TabsShape
  <2>2. PICK o \in 1 .. Len(tabs) : o = Open(id) /\ tabs[o].id = id /\ tabs[o] \in TabsOf(TabIds)
    BY <1>2, <2>1, OpenFinds, TabsShape
  <2>3. PICK b, l : b = Among(tabs, (1 .. Len(tabs)) \ {o}) /\ l = Cardinality((1 .. Len(tabs)) \ {o})
    OBVIOUS
  <2>4. /\ tabs' = <<tabs[o]>> /\ activeTabId' = id
        /\ closedTabs' = LastOf(closedTabs \o Forget(b), MaxClosed)
    BY <1>2, <2>1, <2>2, <2>3 DEF CloseOtherTabs
  <2>5. IsSelection(tabs', TabsOf(TabIds), tabs, {o}, 1)
    BY <2>2, <2>4 DEF IsSelection
  <2>6. IsSelection(b, TabsOf(TabIds), tabs, (1 .. Len(tabs)) \ {o}, l)
    BY <2>3, AmongSelects DEF TabsInv
  <2>7. l = Len(tabs) - 1
    <3>1. Cardinality({o}) = 1
      BY FS_Singleton
    <3> QED BY <2>1, <2>2, <2>3, <3>1, Complement
  <2>8. {o} \in SUBSET (1 .. Len(tabs))
    BY <2>2
  <2>9. /\ tabs' \in Seq(TabsOf(TabIds)) /\ DistinctIds'
        /\ closedTabs' \in Seq(TabsOf({None})) /\ Len(closedTabs') <= MaxClosed
        /\ tabs[o].id \in OpenIds' /\ tabs' # <<>> /\ EditsKept
    BY <2>4, <2>5, <2>6, <2>7, <2>8, ClosingKeepsEdits
  <2> QED BY <2>2, <2>4, <2>9 DEF TabsInv, ActiveIsOpen
<1> QED BY <1>1, <1>2

LEMMA PieceSelects ==
  ASSUME NEW T, NEW s \in Seq(T), NEW m \in Nat \ {0}, NEW n \in Nat, n <= Len(s), m <= n + 1,
         NEW q, IsPiece(q, T, s, m, n)
  PROVE  IsSelection(q, T, s, m .. n, n + 1 - m)
<1>1. PICK k \in Nat : k = n + 1 - m
  OBVIOUS
<1>2. q \in Seq(T) /\ Len(q) = k /\ \A i \in 1 .. k : q[i] = s[m + i - 1]
  BY <1>1 DEF IsPiece
<1>3. \A i \in 1 .. k : m + i - 1 \in m .. n
  BY <1>1
<1>4. ASSUME NEW x \in m .. n PROVE \E i \in 1 .. k : q[i] = s[x]
  <2>1. x + 1 - m \in 1 .. k /\ m + (x + 1 - m) - 1 = x
    BY <1>1
  <2> QED BY <1>2, <2>1
<1>5. ASSUME NEW i \in 1 .. k, NEW j \in 1 .. k, i # j
      PROVE  \E x, y \in m .. n : x # y /\ q[i] = s[x] /\ q[j] = s[y]
  <2>1. m + i - 1 # m + j - 1
    BY <1>5
  <2> QED BY <1>2, <1>3, <2>1
<1>6. m .. n = {} <=> k = 0
  BY <1>1
<1>7. IsSelection(q, T, s, m .. n, k)
  BY <1>1, <1>2, <1>3, <1>4, <1>5, <1>6 DEF IsSelection
<1> QED BY <1>1, <1>7

LEMMA CloseTabsToRightStep ==
  ASSUME TabsInv, NEW id, CloseTabsToRight(id)
  PROVE  TabsInv' /\ EditsKept
<1>1. CASE id \notin OpenIds \/ id = Last(tabs).id
  <2>1. UNCHANGED tabVars
    BY <1>1 DEF CloseTabsToRight
  <2> QED BY <2>1, NoneClosed DEF tabVars, TabsInv, DistinctIds, ActiveIsOpen, OpenIds
<1>2. CASE id \in OpenIds /\ id # Last(tabs).id
  <2>1. PICK k \in Nat : k = Len(tabs) /\ DOMAIN tabs = 1 .. k /\ tabs \in Seq(TabsOf(TabIds))
    BY TabsShape DEF TabsInv
  <2>2. PICK o \in 1 .. k : o = Open(id) /\ tabs[o].id = id
    BY <1>2, <2>1, OpenFinds
  <2>3. PICK p \in Nat \ {0} : p = o + 1 /\ p <= k + 1
    BY <2>1, <2>2
  <2>4. PICK keep, b : keep = SubSeq(tabs, 1, o) /\ b = SubSeq(tabs, p, k)
    OBVIOUS
  <2>5. /\ tabs' = keep
        /\ closedTabs' = LastOf(closedTabs \o Forget(b), MaxClosed)
        /\ activeTabId' = IF \E n \in DOMAIN keep : keep[n].id = activeTabId THEN activeTabId ELSE id
    BY <1>2, <2>1, <2>2, <2>3, <2>4 DEF CloseTabsToRight
  <2>6. IsPiece(keep, TabsOf(TabIds), tabs, 1, o)
    BY <2>1, <2>2, <2>4, Piece
  <2>7. IsPiece(b, TabsOf(TabIds), tabs, p, k)
    BY <2>1, <2>3, <2>4, Piece
  <2>8. IsSelection(tabs', TabsOf(TabIds), tabs, 1 .. o, o)
    <3>1. IsSelection(keep, TabsOf(TabIds), tabs, 1 .. o, o + 1 - 1)
      BY <2>1, <2>2, <2>6, PieceSelects
    <3>2. o + 1 - 1 = o
      BY <2>2
    <3> QED BY <2>5, <3>1, <3>2
  <2>9. IsSelection(b, TabsOf(TabIds), tabs, (1 .. Len(tabs)) \ (1 .. o), k - o)
    <3>1. IsSelection(b, TabsOf(TabIds), tabs, p .. k, k + 1 - p)
      BY <2>1, <2>3, <2>7, PieceSelects
    <3>2. p .. k = (1 .. Len(tabs)) \ (1 .. o) /\ k + 1 - p = k - o
      BY <2>1, <2>2, <2>3
    <3> QED BY <3>1, <3>2
  <2>10. (1 .. o) \in SUBSET (1 .. Len(tabs)) /\ k - o = Len(tabs) - o /\ o \in 1 .. o
    BY <2>1, <2>2
  <2>11. /\ tabs' \in Seq(TabsOf(TabIds)) /\ DistinctIds'
         /\ closedTabs' \in Seq(TabsOf({None})) /\ Len(closedTabs') <= MaxClosed
         /\ \A x \in 1 .. o : tabs[x].id \in OpenIds'
         /\ tabs' = <<>> <=> 1 .. o = {}
         /\ EditsKept
    BY <2>5, <2>8, <2>9, <2>10, ClosingKeepsEdits
  <2>12. id \in OpenIds' /\ tabs' # <<>>
    BY <2>2, <2>10, <2>11
  <2>13. activeTabId' \in OpenIds'
    BY <2>5, <2>12 DEF OpenIds
  <2> QED BY <2>11, <2>12, <2>13 DEF TabsInv, ActiveIsOpen
<1> QED BY <1>1, <1>2

\* The copy of a tab is put next to it.
LEMMA DuplicateTabStep ==
  ASSUME TabsInv, NEW id, NEW busy, DuplicateTab(id, busy)
  PROVE  TabsInv' /\ EditsKept
<1>1. PICK k \in Nat : k = Len(tabs) /\ DOMAIN tabs = 1 .. k /\ tabs \in Seq(TabsOf(TabIds))
  BY TabsShape DEF TabsInv
<1>2. PICK o \in 1 .. k : o = Open(id) /\ tabs[o] \in TabsOf(TabIds)
  <2>1. id \in OpenIds
    BY DEF DuplicateTab
  <2> QED BY <1>1, <2>1, OpenFinds, TabsShape
<1>3. PICK fresh \in TabIds : fresh = NextId(busy) /\ fresh \notin OpenIds
  BY NextIdFresh DEF DuplicateTab
<1>4. PICK new \in TabsOf(TabIds) : new = [tabs[o] EXCEPT !.id = fresh, !.dirty = FALSE] /\ new.id = fresh
  <2>1. /\ [tabs[o] EXCEPT !.id = fresh, !.dirty = FALSE] \in TabsOf(TabIds)
        /\ [tabs[o] EXCEPT !.id = fresh, !.dirty = FALSE].id = fresh
    BY <1>2, <1>3 DEF TabsOf
  <2> QED BY <2>1
<1>5. PICK p \in 1 .. k + 1 : p = o + 1
  BY <1>1, <1>2
<1>6. tabs' = InsertAt(tabs, p, new) /\ activeTabId' = fresh /\ UNCHANGED closedTabs
  BY <1>2, <1>3, <1>4, <1>5 DEF DuplicateTab
<1>7. /\ tabs' \in Seq(TabsOf(TabIds)) /\ Len(tabs') = Len(tabs) + 1
      /\ \A n \in 1 .. Len(tabs) + 1 :
           tabs'[n] = IF n < p THEN tabs[n] ELSE IF n = p THEN new ELSE tabs[n - 1]
  <2>1. p \in 1 .. Len(tabs) + 1
    BY <1>1, <1>5
  <2>2. IsWith(tabs', TabsOf(TabIds), tabs, p, new)
    BY <1>1, <1>6, <2>1, Inserted
  <2> QED BY <2>2 DEF IsWith
<1>8. \A n \in 1 .. Len(tabs) + 1 :
        tabs'[n].id = IF n < p THEN tabs[n].id ELSE IF n = p THEN fresh ELSE tabs[n - 1].id
  BY <1>4, <1>7
<1>9. closedTabs' \in Seq(TabsOf({None})) /\ Len(closedTabs') <= MaxClosed
  BY <1>6 DEF TabsInv
<1>10. tabs' \in Seq(TabsOf(TabIds)) /\ Len(tabs') = Len(tabs) + 1 /\ p \in 1 .. Len(tabs) + 1 /\ activeTabId' = fresh
  BY <1>1, <1>5, <1>6, <1>7
<1> QED BY <1>3, <1>8, <1>9, <1>10, OneMoreStep

\* The same tabs in another order.
LEMMA ReorderedStep ==
  ASSUME TabsInv, tabs' \in Seq(TabsOf(TabIds)), UNCHANGED <<activeTabId, closedTabs>>,
         NEW k \in Nat, Len(tabs) = k, Len(tabs') = k,
         NEW g \in [1 .. k -> 1 .. k], \A n \in 1 .. k : tabs'[n] = tabs[g[n]],
         \A m, n \in 1 .. k : m # n => g[m] # g[n],
         \A x \in 1 .. k : \E n \in 1 .. k : g[n] = x
  PROVE  TabsInv' /\ EditsKept
<1>1. DOMAIN tabs = 1 .. k /\ DOMAIN tabs' = 1 .. k
  BY TabsShape, LenProperties
<1>2. DistinctIds'
  <2>1. \A x, y \in 1 .. k : x # y => tabs[x].id # tabs[y].id
    BY <1>1 DEF TabsInv, DistinctIds
  <2>2. ASSUME NEW m \in 1 .. k, NEW n \in 1 .. k, m # n PROVE tabs'[m].id # tabs'[n].id
    <3>1. g[m] # g[n] /\ g[m] \in 1 .. k /\ g[n] \in 1 .. k
      BY <2>2
    <3>2. tabs'[m] = tabs[g[m]] /\ tabs'[n] = tabs[g[n]]
      OBVIOUS
    <3>3. tabs[g[m]].id # tabs[g[n]].id
      BY <2>1, <3>1
    <3> QED BY <3>2, <3>3
  <2> QED BY <1>1, <2>2 DEF DistinctIds
<1>3. OpenIds \subseteq OpenIds'
  <2>1. ASSUME NEW x \in 1 .. k PROVE tabs[x].id \in OpenIds'
    <3>1. PICK n \in 1 .. k : g[n] = x
      OBVIOUS
    <3>2. tabs'[n] = tabs[x]
      BY <3>1
    <3> QED BY <1>1, <3>2 DEF OpenIds
  <2>2. SUFFICES ASSUME NEW y \in OpenIds PROVE y \in OpenIds'
    OBVIOUS
  <2>3. PICK x \in 1 .. k : y = tabs[x].id
    BY <1>1 DEF OpenIds
  <2> QED BY <2>1, <2>3
<1>4. tabs = <<>> <=> tabs' = <<>>
  BY EmptySeq, TabsShape
<1>5. ActiveIsOpen'
  BY <1>3, <1>4 DEF TabsInv, ActiveIsOpen
<1> QED BY <1>2, <1>3, <1>5, NoneClosed DEF TabsInv

LEMMA ReorderTabsStep ==
  ASSUME TabsInv, NEW from \in DOMAIN tabs, NEW to \in DOMAIN tabs, ReorderTabs(from, to)
  PROVE  TabsInv' /\ EditsKept
<1>1. PICK k \in Nat : k = Len(tabs) /\ DOMAIN tabs = 1 .. k /\ tabs \in Seq(TabsOf(TabIds))
  BY TabsShape DEF TabsInv
<1>2. from \in 1 .. k /\ to \in 1 .. k /\ tabs[from] \in TabsOf(TabIds)
  BY <1>1, TabsShape
<1>3. PICK rest : rest = RemoveAt(tabs, from)
  OBVIOUS
<1>4. PICK j \in Nat : j + 1 = k
  <2>1. k - 1 \in Nat /\ (k - 1) + 1 = k
    BY <1>2
  <2> QED BY <2>1
<1>5. /\ rest \in Seq(TabsOf(TabIds)) /\ Len(rest) = j
      /\ \A n \in 1 .. j : rest[n] = IF n < from THEN tabs[n] ELSE tabs[n + 1]
  <2>1. Len(tabs) - 1 = j /\ from \in 1 .. Len(tabs)
    BY <1>1, <1>2, <1>4
  <2>2. IsWithout(rest, TabsOf(TabIds), tabs, from)
    BY <1>1, <1>3, <2>1, Removed
  <2> QED BY <2>1, <2>2 DEF IsWithout
<1>6. tabs' = InsertAt(rest, to, tabs[from]) /\ UNCHANGED <<activeTabId, closedTabs>>
  BY <1>3 DEF ReorderTabs
<1>7. /\ tabs' \in Seq(TabsOf(TabIds)) /\ Len(tabs') = k
      /\ \A n \in 1 .. k :
           tabs'[n] = IF n < to THEN rest[n] ELSE IF n = to THEN tabs[from] ELSE rest[n - 1]
  <2>1. to \in 1 .. Len(rest) + 1 /\ Len(rest) + 1 = k
    BY <1>2, <1>4, <1>5
  <2>2. IsWith(tabs', TabsOf(TabIds), rest, to, tabs[from])
    BY <1>2, <1>5, <1>6, <2>1, Inserted
  <2> QED BY <2>1, <2>2 DEF IsWith
<1> DEFINE where(n) == IF n < to THEN IF n < from THEN n ELSE n + 1
                       ELSE IF n = to THEN from
                       ELSE IF n - 1 < from THEN n - 1 ELSE n
           g == [n \in 1 .. k |-> where(n)]
<1>8. \A n \in 1 .. k : where(n) \in 1 .. k
  BY <1>2
<1>9. ASSUME NEW n \in 1 .. k PROVE tabs'[n] = tabs[where(n)]
  <2>1. CASE n < to
    <3>1. n \in 1 .. j
      BY <1>2, <1>4, <2>1
    <3> QED BY <1>5, <1>7, <2>1, <3>1
  <2>2. CASE n = to
    BY <1>7, <2>2
  <2>3. CASE to < n
    <3>1. PICK m \in 1 .. j : m = n - 1 /\ m + 1 = n
      <4>1. n - 1 \in 1 .. j /\ (n - 1) + 1 = n
        BY <1>2, <1>4, <2>3
      <4> QED BY <4>1
    <3>2. tabs'[n] = rest[m] /\ where(n) = IF m < from THEN m ELSE n
      BY <1>2, <1>7, <2>3, <3>1
    <3> QED BY <1>5, <3>1, <3>2
  <2> QED BY <1>2, <2>1, <2>2, <2>3
<1>10. \A m, n \in 1 .. k : m # n => where(m) # where(n)
  BY <1>2
<1>11. ASSUME NEW x \in 1 .. k PROVE \E n \in 1 .. k : where(n) = x
  <2>1. CASE x = from
    BY <1>2, <2>1
  <2>2. CASE x < from /\ x < to
    BY <1>2, <2>2
  <2>3. CASE x < from /\ ~(x < to)
    <3>1. x + 1 \in 1 .. k /\ where(x + 1) = x
      BY <1>2, <2>3
    <3> QED BY <3>1
  <2>4. CASE from < x /\ x - 1 < to
    <3>1. x - 1 \in 1 .. k /\ where(x - 1) = x
      BY <1>2, <2>4
    <3> QED BY <3>1
  <2>5. CASE from < x /\ ~(x - 1 < to)
    <3>1. where(x) = x
      BY <1>2, <2>5
    <3> QED BY <3>1
  <2> QED BY <1>2, <2>1, <2>2, <2>3, <2>4, <2>5
<1>12. g \in [1 .. k -> 1 .. k] /\ \A n \in 1 .. k : g[n] = where(n)
  BY <1>8
<1>13. (\A m, n \in 1 .. k : m # n => g[m] # g[n]) /\ (\A x \in 1 .. k : \E n \in 1 .. k : g[n] = x)
  <2> HIDE DEF where, g
  <2> QED BY <1>10, <1>11, <1>12
<1>14. \A n \in 1 .. k : tabs'[n] = tabs[g[n]]
  <2> HIDE DEF where, g
  <2> QED BY <1>9, <1>12
<1> HIDE DEF where, g
<1> QED BY <1>1, <1>6, <1>7, <1>12, <1>13, <1>14, ReorderedStep

\* The same tabs in their places, changed in other ways than their ids.
LEMMA ChangedStep ==
  ASSUME TabsInv, DOMAIN tabs' = DOMAIN tabs, UNCHANGED activeTabId,
         tabs' \in [DOMAIN tabs -> TabsOf(TabIds)],
         \A n \in DOMAIN tabs : tabs'[n].id = tabs[n].id,
         closedTabs' \in Seq(TabsOf({None})), Len(closedTabs') <= MaxClosed
  PROVE  TabsInv' /\ EditsKept
<1>1. PICK k \in Nat : k = Len(tabs) /\ DOMAIN tabs = 1 .. k
  BY TabsShape
<1>2. tabs' \in Seq(TabsOf(TabIds))
  BY <1>1, SeqDef
<1>3. OpenIds' = OpenIds
  BY DEF OpenIds
<1>4. DistinctIds'
  BY DEF TabsInv, DistinctIds
<1>5. tabs = <<>> <=> tabs' = <<>>
  BY <1>1, <1>2, LenProperties, EmptySeq, TabsShape
<1>6. ActiveIsOpen'
  BY <1>3, <1>5 DEF TabsInv, ActiveIsOpen
<1> QED BY <1>2, <1>3, <1>4, <1>6, NoneClosed DEF TabsInv

LEMMA EditTabStep ==
  ASSUME TabsInv, NEW id, EditTab(id)
  PROVE  TabsInv' /\ EditsKept
<1>1. /\ tabs' = [n \in DOMAIN tabs |->
                    IF tabs[n].id = id THEN [tabs[n] EXCEPT !.dirty = TRUE] ELSE tabs[n]]
      /\ UNCHANGED <<activeTabId, closedTabs>>
  BY DEF EditTab, UpdateTab
<1>2. \A n \in DOMAIN tabs : tabs[n] \in TabsOf(TabIds)
  BY TabsShape
<1>3. \A n \in DOMAIN tabs : tabs'[n] \in TabsOf(TabIds) /\ tabs'[n].id = tabs[n].id
  BY <1>1, <1>2 DEF TabsOf
<1>4. tabs' \in [DOMAIN tabs -> TabsOf(TabIds)] /\ DOMAIN tabs' = DOMAIN tabs
  BY <1>1, <1>3
<1> QED BY <1>1, <1>3, <1>4, ChangedStep DEF TabsInv

LEMMA RestoreTabsStep ==
  ASSUME TabsInv, RestoreTabs
  PROVE  TabsInv' /\ EditsKept
<1>1. /\ tabs' = [n \in DOMAIN tabs |-> [tabs[n] EXCEPT !.isSending = FALSE]]
      /\ UNCHANGED activeTabId
  BY DEF RestoreTabs
<1>2. \A n \in DOMAIN tabs : tabs[n] \in TabsOf(TabIds)
  BY TabsShape
<1>3. \A n \in DOMAIN tabs : tabs'[n] \in TabsOf(TabIds) /\ tabs'[n].id = tabs[n].id
  BY <1>1, <1>2 DEF TabsOf
<1>4. tabs' \in [DOMAIN tabs -> TabsOf(TabIds)] /\ DOMAIN tabs' = DOMAIN tabs
  BY <1>1, <1>3
<1>5. closedTabs' \in Seq(TabsOf({None})) /\ Len(closedTabs') <= MaxClosed
  <2>1. closedTabs' = <<>>
    BY DEF RestoreTabs
  <2>2. <<>> \in Seq(TabsOf({None})) /\ Len(<<>>) = 0
    BY EmptySeq
  <2> QED BY <2>1, <2>2, TabsAssumption
<1> QED BY <1>1, <1>3, <1>4, <1>5, ChangedStep

(***************************************************************************)
(* Every step again, for the tabs.                                         *)
(***************************************************************************)
LEMMA SameTabs ==
  ASSUME TabsInv, UNCHANGED tabVars
  PROVE  TabsInv' /\ EditsKept
BY NoneClosed DEF tabVars, TabsInv, DistinctIds, ActiveIsOpen, OpenIds

\* What a click in the tree opens is an item that is there.
LEMMA TreeTabsStep ==
  ASSUME TreeOK, TabsInv,
         \/ \E r \in Requests : RequestNode(r)
         \/ \E f \in Folders : FolderNode(f)
         \/ \E c \in Collections : CollectionCard(c) \/ NewCollection(c)
  PROVE  TabsInv' /\ EditsKept
<1>1. ASSUME NEW c \in Collections, NEW folder, AddInto(c, folder) PROVE TabsInv' /\ EditsKept
  <2>1. PICK i \in Items : OpenRequestTab(i, Busy) \/ OpenFolderTab(i, c, Busy)
    BY <1>1 DEF AddInto
  <2> QED BY <2>1, OpenTabSteps
<1>2. CASE \E r \in Requests : RequestNode(r)
  <2>1. PICK r \in Requests : OpenRequestTab(r, Busy)
    BY <1>2 DEF RequestNode
  <2> QED BY <2>1, OpenTabSteps DEF Items
<1>3. CASE \E f \in Folders : FolderNode(f)
  <2>1. PICK f \in Present \cap Folders :
          AddInto(Home(f), f) \/ OpenFolderTab(f, Home(f), Busy)
    BY <1>3 DEF FolderNode
  <2>2. Home(f) \in Collections /\ f \in Items
    BY <2>1, HomeExists DEF TreeOK, Items
  <2> QED BY <1>1, <2>1, <2>2, OpenTabSteps
<1>4. CASE \E c \in Collections : CollectionCard(c) \/ NewCollection(c)
  <2>1. PICK c \in Collections : AddInto(c, Nowhere) \/ OpenCollectionTab(c, Busy)
    BY <1>4 DEF CollectionCard, NewCollection
  <2> QED BY <1>1, <2>1, OpenTabSteps
<1> QED BY <1>2, <1>3, <1>4

LEMMA TabBarStep ==
  ASSUME TabsInv, NEW id, TabBar(id)
  PROVE  TabsInv' /\ EditsKept
<1>1. /\ id \in OpenIds
      /\ \/ UNCHANGED tabVars \/ SetActiveTab(id) \/ DuplicateTab(id, Busy)
         \/ CloseTab(id) \/ CloseOtherTabs(id) \/ CloseTabsToRight(id)
         \/ \E to \in DOMAIN tabs : ReorderTabs(Open(id), to)
  BY DEF TabBar, AskFirst
<1>2. CASE SetActiveTab(id)
  BY <1>2, ShowStep DEF SetActiveTab
<1>3. CASE \E to \in DOMAIN tabs : ReorderTabs(Open(id), to)
  BY <1>1, <1>3, OpenFinds, ReorderTabsStep
<1> QED BY <1>1, <1>2, <1>3, SameTabs, DuplicateTabStep, CloseTabsStep, CloseOtherTabsStep,
           CloseTabsToRightStep DEF CloseTab

LEMMA UserTabsStep ==
  ASSUME TreeOK, TabsInv, UserAct
  PROVE  TabsInv' /\ EditsKept
<1>1. CASE \/ \E i \in Items : Drop(i)
           \/ \E c \in Collections, r \in Requests : Imported(c, r)
           \/ \E e \in environments \cup {None} : SelectEnvironment(e)
  <2>1. UNCHANGED tabVars
    BY <1>1 DEF Drop, Imported, SelectEnvironment
  <2> QED BY <2>1, SameTabs
<1>2. CASE (\E e \in Environments : EnvironmentsPanel(e)) \/ Globals
  <2>1. (\E e \in Environments : OpenEnvironmentTab(e, Busy)) \/ OpenGlobalsTab(Busy)
    BY <1>2 DEF EnvironmentsPanel, Globals
  <2> QED BY <2>1, OpenTabSteps
<1>3. CASE ConfirmDelete \/ Cancel
  <2>1. UNCHANGED tabVars \/ \E r \in Requests : OpenRequestTab(r, Busy)
    BY <1>3 DEF ConfirmDelete, Cancel, ClickReachesRow
  <2> QED BY <2>1, SameTabs, OpenTabSteps DEF Items
<1>4. CASE ConfirmClose
  <2>1. \E id : CloseTab(id) \/ CloseOtherTabs(id) \/ CloseTabsToRight(id)
    BY <1>4 DEF ConfirmClose
  <2> QED BY <2>1, CloseTabsStep, CloseOtherTabsStep, CloseTabsToRightStep DEF CloseTab
<1>5. CASE Search
  <2>1. \/ \E c \in collections : OpenCollectionTab(c, Busy)
        \/ \E f \in Present \cap Folders : OpenFolderTab(f, Home(f), Busy)
        \/ \E r \in Present \cap Requests : OpenRequestTab(r, Busy)
    BY <1>5 DEF Search
  <2>2. collections \subseteq Collections /\ Present \subseteq Items
    BY DEF TreeOK, Present
  <2>3. \A f \in Present : Home(f) \in Collections
    BY <2>2, HomeExists
  <2> QED BY <2>1, <2>2, <2>3, OpenTabSteps
<1>6. CASE Edit
  <2>1. EditTab(activeTabId)
    BY <1>6 DEF Edit
  <2> QED BY <2>1, EditTabStep
<1>7. CASE KeyboardShortcuts
  <2>1. OpenNewTab(Busy) \/ CloseTabs({activeTabId}) \/ ReopenLastClosedTab(Busy)
    BY <1>7 DEF KeyboardShortcuts, CloseTab
  <2> QED BY <2>1, OpenTabSteps, CloseTabsStep, ReopenStep
<1>8. CASE Reload
  <2>1. RestoreTabs
    BY <1>8 DEF Reload
  <2> QED BY <2>1, RestoreTabsStep
<1> QED BY <1>1, <1>2, <1>3, <1>4, <1>5, <1>6, <1>7, <1>8, TreeTabsStep, TabBarStep DEF UserAct

LEMMA TabsStep ==
  ASSUME TreeOK, TabsInv, [Next]_vars
  PROVE  TabsInv' /\ EditsKept
<1>1. CASE CleanupOrphans \/ EnvironmentPane
  <2>1. \E ids : CloseTabs(ids)
    BY <1>1 DEF CleanupOrphans, EnvironmentPane, CloseTab
  <2> QED BY <2>1, CloseTabsStep
<1>2. CASE Load \/ UNCHANGED vars
  <2>1. UNCHANGED tabVars
    BY <1>2 DEF Load, vars
  <2> QED BY <2>1, SameTabs
<1> QED BY <1>1, <1>2, UserTabsStep DEF Next

LEMMA TabsStart ==
  ASSUME Init
  PROVE  TabsInv
<1>1. tabs = <<[NewTab EXCEPT !.id = 1]>> /\ activeTabId = 1 /\ closedTabs = <<>>
  BY DEF Init, TabsInit
<1>2. PICK t \in TabsOf(TabIds) : t = [NewTab EXCEPT !.id = 1] /\ t.id = 1
  <2>1. [NewTab EXCEPT !.id = 1] \in TabsOf(TabIds) /\ [NewTab EXCEPT !.id = 1].id = 1
    BY TabsAssumption DEF NewTab, Tab, TabsOf, TabTypes
  <2> QED BY <2>1
<1>3. tabs \in Seq(TabsOf(TabIds)) /\ DOMAIN tabs = {1} /\ tabs[1].id = 1 /\ tabs # <<>>
  <2>1. tabs = <<t>>
    BY <1>1, <1>2
  <2>2. <<t>> \in Seq(TabsOf(TabIds)) /\ DOMAIN <<t>> = {1} /\ <<t>>[1] = t
    OBVIOUS
  <2>3. tabs # <<>>
    BY <2>1, <2>2
  <2> QED BY <1>2, <2>1, <2>2, <2>3
<1>4. closedTabs \in Seq(TabsOf({None})) /\ Len(closedTabs) = 0
  BY <1>1, EmptySeq
<1>5. DistinctIds /\ ActiveIsOpen
  BY <1>1, <1>3 DEF DistinctIds, ActiveIsOpen, OpenIds
<1> QED BY <1>3, <1>4, <1>5, TabsAssumption DEF TabsInv

\* The invariant of the tabs: open and closed tabs are well formed, ids are
\* distinct, the active tab is open and at most MaxClosed are remembered.
THEOREM TabsInvHolds == Spec => []TabsInv
<1>1. WorkInv /\ TabsInv /\ [Next]_vars => TabsInv'
  BY TabsStep DEF WorkInv
<1> QED BY <1>1, TabsStart, WorkInvHolds, PTL DEF Spec

\* However tabs are closed, reordered, reopened and restored, the active
\* one is open, or none is.
THEOREM ActiveTabIsOpen == Spec => []ActiveIsOpen
<1>1. TabsInv => ActiveIsOpen
  BY DEF TabsInv
<1> QED BY <1>1, TabsInvHolds, PTL

\* A tab with edits that goes can be reopened with them, whichever way it
\* went.
THEOREM EditsAreReopenable == Spec => EditsReopenable
<1>1. WorkInv /\ TabsInv /\ [Next]_vars =>
        \A n \in DOMAIN tabs :
          tabs[n].dirty /\ tabs[n].id \notin OpenIds' /\ Len(tabs) - Len(tabs') <= MaxClosed
            => \E m \in DOMAIN closedTabs' : closedTabs'[m] = Forgotten(tabs[n])
  BY TabsStep DEF WorkInv, EditsKept
<1> QED BY <1>1, WorkInvHolds, TabsInvHolds, PTL DEF Spec, EditsReopenable

ActiveEnvironmentOK == activeEnvironmentId \in Environments \cup {None, StaleEnvironment}

\* The whole state has its type.
THEOREM TypesOK == Spec => []TypeOK
<1>1. Init => ActiveEnvironmentOK
  BY DEF Init, ActiveEnvironmentOK
<1>2. WorkInv /\ ActiveEnvironmentOK /\ [Next]_vars => ActiveEnvironmentOK'
  <2> SUFFICES ASSUME WorkInv, ActiveEnvironmentOK, [Next]_vars PROVE ActiveEnvironmentOK'
    OBVIOUS
  <2>1. \/ activeEnvironmentId' = activeEnvironmentId
        \/ activeEnvironmentId' \in environments \cup {None}
    <3>1. CASE UserAct
      <4>1. CASE \E e \in environments \cup {None} : SelectEnvironment(e)
        BY <4>1 DEF SelectEnvironment
      <4>2. CASE ConfirmDelete
        BY <4>2 DEF ConfirmDelete, envVars
      <4> QED BY <3>1, <4>1, <4>2 DEF UserAct, RequestNode, FolderNode, CollectionCard, NewCollection,
                 Drop, Imported, EnvironmentsPanel, Globals, ConfirmClose, Cancel, Search, TabBar, Edit,
                 KeyboardShortcuts, Reload, envVars
    <3> QED BY <3>1 DEF Next, CleanupOrphans, EnvironmentPane, Load, vars, envVars
  <2> QED BY <2>1 DEF WorkInv, ActiveEnvironmentOK
<1>3. WorkInv /\ TabsInv /\ ActiveEnvironmentOK => TypeOK
  <2> SUFFICES ASSUME WorkInv, TabsInv, ActiveEnvironmentOK PROVE TypeOK
    OBVIOUS
  <2>1. \A n \in DOMAIN tabs :
          /\ tabs[n].id \in TabIds /\ tabs[n].type \in TabTypes
          /\ tabs[n].item \in Items \cup Environments \cup {None}
          /\ tabs[n].collection \in Collections \cup {None}
    BY TabsShape DEF TabsOf
  <2> QED BY <2>1 DEF TypeOK, WorkInv, TreeOK, Placements, TabsInv, ActiveEnvironmentOK
<1> QED BY <1>1, <1>2, <1>3, WorkInvHolds, TabsInvHolds, PTL DEF Spec

-----------------------------------------------------------------------------
(***************************************************************************)
(* The effects that run after a render: the cleanup of orphans, the pane   *)
(* of an environment that is gone, the lists that arrive.                  *)
(***************************************************************************)
Effect == CleanupOrphans \/ EnvironmentPane \/ Load
EffectsLeft == Len(tabs) + (IF Loaded THEN 0 ELSE 1)

LEMMA ClosingDrops ==
  ASSUME TabsInv, NEW ids, CloseTabs(ids), NEW S \in SUBSET (1 .. Len(tabs)),
         S = {n \in DOMAIN tabs : tabs[n].id \in ids}
  PROVE  /\ tabs' = Among(tabs, (1 .. Len(tabs)) \ S)
         /\ IsSelection(tabs', TabsOf(TabIds), tabs, (1 .. Len(tabs)) \ S, Len(tabs) - Cardinality(S))
<1>1. Len(tabs) \in Nat /\ DOMAIN tabs = 1 .. Len(tabs)
  BY TabsShape
<1>2. PICK stay : stay = (1 .. Len(tabs)) \ S
  OBVIOUS
<1>3. {n \in DOMAIN tabs : tabs[n].id \notin ids} = stay
  BY <1>1, <1>2
<1>4. tabs' = Among(tabs, stay)
  BY <1>3 DEF CloseTabs
<1>5. stay \in SUBSET (1 .. Len(tabs))
  BY <1>2
<1>6. IsSelection(tabs', TabsOf(TabIds), tabs, stay, Cardinality(stay))
  BY <1>4, <1>5, AmongSelects DEF TabsInv
<1>7. Cardinality(stay) = Len(tabs) - Cardinality(S)
  BY <1>1, <1>2, Complement
<1> QED BY <1>2, <1>4, <1>6, <1>7

LEMMA ClosingShrinks ==
  ASSUME TabsInv, NEW ids, CloseTabs(ids), NEW m \in DOMAIN tabs, tabs[m].id \in ids
  PROVE  Len(tabs') < Len(tabs)
<1>1. PICK k \in Nat : k = Len(tabs) /\ DOMAIN tabs = 1 .. k
  BY TabsShape
<1>2. PICK S : S = {n \in DOMAIN tabs : tabs[n].id \in ids}
  OBVIOUS
<1>3. S \in SUBSET (1 .. k) /\ S # {}
  BY <1>1, <1>2
<1>4. IsFiniteSet(S)
  BY <1>3, UpTo, FS_Subset
<1>5. Cardinality(S) \in Nat /\ Cardinality(S) # 0
  BY <1>3, <1>4, FS_CardinalityType, FS_EmptySet
<1>6. IsSelection(tabs', TabsOf(TabIds), tabs, (1 .. Len(tabs)) \ S, Len(tabs) - Cardinality(S))
  BY <1>1, <1>2, <1>3, ClosingDrops
<1>7. Len(tabs') = k - Cardinality(S)
  BY <1>1, <1>6 DEF IsSelection
<1> QED BY <1>1, <1>5, <1>7

\* The filter of closeTabs takes ids: only because no two tabs have one id
\* does it take the orphans alone.
CleansExactly ==
  /\ Orphans' = {}
  /\ tabs' = Among(tabs, (1 .. Len(tabs)) \ Orphans)
  /\ \A n \in DOMAIN tabs \ Orphans : \E m \in DOMAIN tabs' : tabs'[m] = tabs[n]

LEMMA CleanupExact ==
  ASSUME TabsInv, CleanupOrphans
  PROVE  CleansExactly
<1>1. Len(tabs) \in Nat /\ DOMAIN tabs = 1 .. Len(tabs)
  BY TabsShape
<1>2. CloseTabs({tabs[n].id : n \in Orphans}) /\ UNCHANGED treeVars
  BY DEF CleanupOrphans
<1>3. Orphans = {n \in DOMAIN tabs : tabs[n].id \in {tabs[m].id : m \in Orphans}}
  BY DEF Orphans, TabsInv, DistinctIds
<1>4. PICK S : S = Orphans
  OBVIOUS
<1>5. S \in SUBSET (1 .. Len(tabs))
  BY <1>1, <1>4 DEF Orphans
<1>6. PICK ids : ids = {tabs[n].id : n \in S}
  OBVIOUS
<1>7. CloseTabs(ids) /\ S = {n \in DOMAIN tabs : tabs[n].id \in ids}
  BY <1>2, <1>3, <1>4, <1>6
<1>8. /\ tabs' = Among(tabs, (1 .. Len(tabs)) \ S)
      /\ IsSelection(tabs', TabsOf(TabIds), tabs, (1 .. Len(tabs)) \ S, Len(tabs) - Cardinality(S))
  BY <1>5, <1>7, ClosingDrops
<1>9. PICK n : IsSelection(tabs', TabsOf(TabIds), tabs, (1 .. Len(tabs)) \ S, n)
  BY <1>8
<1>10. DOMAIN tabs' = 1 .. n
  BY <1>9, LenProperties DEF IsSelection
<1> DEFINE stay == (1 .. Len(tabs)) \ S
<1>11. DOMAIN tabs \ Orphans = stay
  BY <1>1, <1>4
<1>12. /\ \A i \in 1 .. n : \E x \in stay : tabs'[i] = tabs[x]
       /\ \A x \in stay : \E i \in 1 .. n : tabs'[i] = tabs[x]
  BY <1>9 DEF IsSelection
<1>13. \A i \in DOMAIN tabs' : \E x \in DOMAIN tabs \ Orphans : tabs'[i] = tabs[x]
  BY <1>10, <1>11, <1>12
<1>14. \A x \in DOMAIN tabs \ Orphans : \E i \in DOMAIN tabs' : tabs'[i] = tabs[x]
  BY <1>10, <1>11, <1>12
<1>15. collections' = collections /\ place' = place
  BY <1>2 DEF treeVars
<1>16. Orphans' = {}
  <2>1. SUFFICES ASSUME NEW i \in Orphans' PROVE FALSE
    OBVIOUS
  <2>2. PICK x \in DOMAIN tabs \ Orphans : tabs'[i] = tabs[x]
    BY <1>13, <2>1 DEF Orphans
  <2>3. ~Orphan(tabs[x])
    BY <2>2 DEF Orphans
  <2>4. PICK t : t = tabs'[i] /\ t = tabs[x]
    BY <2>2
  <2>5. \/ t.collection # None /\ t.collection \notin collections
        \/ t.type = "request" /\ t.item # None /\ t.item \notin Present
        \/ t.type = "folder" /\ t.item \notin Present
    BY <1>15, <2>1, <2>4 DEF Orphans, Orphan, Present
  <2> QED BY <2>3, <2>4, <2>5 DEF Orphan
<1> QED BY <1>4, <1>8, <1>14, <1>16 DEF CleansExactly

LEMMA EffectShrinks ==
  ASSUME TabsInv, Effect
  PROVE  EffectsLeft' < EffectsLeft
<1>1. Len(tabs) \in Nat
  BY TabsShape
<1>2. CASE CleanupOrphans
  <2>1. PICK m \in Orphans : TRUE
    BY <1>2 DEF CleanupOrphans
  <2>2. m \in DOMAIN tabs /\ tabs[m].id \in {tabs[n].id : n \in Orphans}
    BY <2>1 DEF Orphans
  <2>3. Len(tabs') < Len(tabs)
    BY <1>2, <2>2, ClosingShrinks DEF CleanupOrphans
  <2>4. Loaded' = Loaded
    BY <1>2 DEF CleanupOrphans, Loaded
  <2> QED BY <1>1, <2>3, <2>4 DEF EffectsLeft
<1>3. CASE EnvironmentPane
  <2>1. activeTabId \in OpenIds
    BY <1>3 DEF EnvironmentPane, Stranded, TabsInv, ActiveIsOpen
  <2>2. Len(tabs') < Len(tabs)
    BY <1>3, <2>1, OpenFinds, ClosingShrinks DEF EnvironmentPane, CloseTab
  <2>3. Loaded' = Loaded
    BY <1>3 DEF EnvironmentPane, Loaded
  <2> QED BY <1>1, <2>2, <2>3 DEF EffectsLeft
<1>4. CASE Load
  <2>1. Len(tabs') = Len(tabs) /\ ~Loaded /\ Loaded'
    BY <1>4 DEF Load, Loaded, tabVars
  <2> QED BY <1>1, <2>1 DEF EffectsLeft
<1> QED BY <1>2, <1>3, <1>4 DEF Effect

(* The effects of AppLayout are no loop of renders: each of them closes a  *)
(* tab or takes the answer of the agent, and nothing of theirs opens one.  *)
(* The cleanup closes the orphans and no other tab, in one step, and makes *)
(* no orphan.  While it has something to do it can run; so only the        *)
(* fairness of Spec is between this and OrphansGo.                         *)
EffectsEnd == [][(CleanupOrphans => CleansExactly) /\ (Effect => EffectsLeft' < EffectsLeft)]_vars
EffectsBounded == EffectsLeft \in Nat

(* For every tree, every set of tabs and whatever the user does between    *)
(* two effects.                                                            *)
THEOREM EffectsEndHolds == Spec => EffectsEnd /\ []EffectsBounded
<1>1. TabsInv => (CleanupOrphans => CleansExactly) /\ (Effect => EffectsLeft' < EffectsLeft)
  BY CleanupExact, EffectShrinks
<1>2. TabsInv => EffectsBounded
  BY TabsShape DEF EffectsBounded, EffectsLeft
<1> QED BY <1>1, <1>2, TabsInvHolds, PTL DEF EffectsEnd
=============================================================================
