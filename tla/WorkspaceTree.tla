--------------------------- MODULE WorkspaceTree ---------------------------
(***************************************************************************)
(* store/workspace.ts: collections, and in them folders and requests.  The *)
(* nested arrays are a function that says where each item is; the order of *)
(* siblings, names and the contents of items are left out.  As in the code *)
(* an operation that does not find what it is about changes nothing.       *)
(***************************************************************************)
EXTENDS Naturals, FiniteSets

CONSTANTS
  Nowhere,    \* not in the store; also the root of a collection
  Collections, Folders, Requests  \* ids the store may hold

Items == Folders \cup Requests

ASSUME TreeAssumption ==
  /\ Collections \cap Items = {} /\ Folders \cap Requests = {}
  /\ Nowhere \notin Collections \cup Items

VARIABLES
  collections,   \* the collections there are
  place          \* the collection or folder an item is in

treeVars == <<collections, place>>

Present == {i \in Items : place[i] # Nowhere}

(* The items in x at any depth, when each item is where it says: those no  *)
(* set escapes that has what is directly in x and what is in its members.  *)
Within(where, x) ==
  LET closed == {S \in SUBSET Items : \A i \in Items : where[i] = x \/ where[i] \in S => i \in S}
  IN {i \in Items : \A S \in closed : i \in S}
Inside(x) == Within(place, x)
Subtree(i) == {i} \cup Inside(i)

(* The collection an item is in.                                           *)
Home(i) == CHOOSE c \in Collections : i \in Inside(c)

Without(gone) == [i \in Items |-> IF i \in gone THEN Nowhere ELSE place[i]]

AddCollection(c) ==
  c \notin collections /\ collections' = collections \cup {c} /\ UNCHANGED place

DeleteCollection(c) ==
  collections' = collections \ {c} /\ place' = Without(Inside(c))

(* insertIntoList: i is put into the collection c, or into a folder if it  *)
(* is one of those; otherwise it is put nowhere, and with it what it holds.*)
InsertIntoList(i, c, folder, folders) ==
  IF folder = Nowhere THEN [place EXCEPT ![i] = c]
  ELSE IF folder \in folders THEN [place EXCEPT ![i] = folder]
  ELSE Without(Subtree(i))

(* addRequest, addFolder: into the collection, or a folder of it.          *)
AddItem(i, c, folder) ==
  /\ i \notin Present
  /\ place' = IF c \in collections
              THEN InsertIntoList(i, c, folder, Inside(c) \cap Folders) ELSE place
  /\ UNCHANGED collections

DeleteItem(c, i) ==
  /\ place' = IF i \in Inside(c) THEN Without(Subtree(i)) ELSE place
  /\ UNCHANGED collections

(* cloneItems: new ids for everything in the copy.                         *)
Clones(source) ==
  {f \in [source -> Items \ Present] :
     /\ \A i, j \in source : i # j => f[i] # f[j]
     /\ \A i \in source : i \in Folders <=> f[i] \in Folders}

(* place with copies of source: its top goes to at, the rest follows.      *)
WithCopy(f, top, at) ==
  [i \in Items |->
     IF \E j \in DOMAIN f : f[j] = i
     THEN LET j == CHOOSE j \in DOMAIN f : f[j] = i IN
          IF j \in top THEN at ELSE f[place[j]]
     ELSE place[i]]

DuplicateItem(c, i) ==
  /\ i \in Inside(c)
  /\ \E f \in Clones(Subtree(i)) : place' = WithCopy(f, {i}, place[i])
  /\ UNCHANGED collections

DuplicateCollection(c, copy) ==
  /\ c \in collections /\ copy \notin collections
  /\ collections' = collections \cup {copy}
  /\ \E f \in Clones(Inside(c)) : place' = WithCopy(f, {i \in Items : place[i] = c}, copy)

(* Mutants: the target is looked up before the item is taken out, and in   *)
(* the collection the item comes from.                                     *)
MoveItemBeforeExtract(c, i, target, folder) ==
  /\ place' = IF i \in Inside(c) /\ i # folder
              THEN [place EXCEPT ![i] = IF folder = Nowhere THEN target ELSE folder] ELSE place
  /\ UNCHANGED collections
MoveItemInSource(c, i, target, folder) ==
  /\ place' = IF i \notin Inside(c) \/ i = folder THEN place
              ELSE IF folder = Nowhere THEN [place EXCEPT ![i] = target]
              ELSE IF folder \in Inside(c) \ Subtree(i) THEN [place EXCEPT ![i] = folder]
              ELSE Without(Subtree(i))
  /\ UNCHANGED collections

(* extractFromList: what of c is left to be found once i is out of it.     *)
Remaining(c, i) == Inside(c) \ Subtree(i)

(* The item is taken out of its collection first; a folder inside the item *)
(* is then not found, and the item is put nowhere.                         *)
MoveItem(c, i, target, folder) ==
  /\ place' = IF c \notin collections \/ i = folder \/ i \notin Inside(c) THEN place
              ELSE IF target \notin collections THEN Without(Subtree(i))
              ELSE InsertIntoList(i, target, folder, Remaining(target, i) \cap Folders)
  /\ UNCHANGED collections

(***************************************************************************)
(* Every item that is somewhere is in a collection that exists, and in one *)
(* only: no operation leaves a detached folder or a cycle behind.          *)
(***************************************************************************)
TreeSound ==
  /\ \A i \in Present : \E c \in collections : i \in Inside(c)
  /\ \A c \in Collections \ collections : Inside(c) = {}

(* What the agent had saved: any workspace of these items.                 *)
TreeInit ==
  /\ collections \in SUBSET Collections
  /\ place \in [Items -> Collections \cup Folders \cup {Nowhere}]
  /\ TreeSound
=============================================================================
