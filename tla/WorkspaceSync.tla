--------------------------- MODULE WorkspaceSync ----------------------------
(***************************************************************************)
(* hooks/use-workspace-sync.ts: the workspace store of the browser and the *)
(* documents of the agent.  Two queries load collections and environments; *)
(* from then on every change of the store is sent as a call nobody waits   *)
(* for and whose failure is ignored.  The import of a file is a call after *)
(* which one of the queries is made again.                                 *)
(*                                                                         *)
(* A document is the number of the edit that made it, 0 where there is     *)
(* none.  What a call does to the disk of the agent is one step here:      *)
(* module JsonStore says how far that is so.                               *)
(***************************************************************************)
EXTENDS Naturals

CONSTANTS
  Docs,      \* ids of collections and environments
  Kind,      \* which of the two each is
  SavedDocs, \* documents that exist at the start
  MaxEdits,  \* bound on edits and reloads
  Importable,\* ids an imported file may be given
  CanLose    \* calls may fail

Kinds == {"collections", "environments"}

ASSUME DocsAssumption ==
  /\ Kind \in [Docs -> Kinds] /\ SavedDocs \subseteq Docs /\ Importable \subseteq Docs \ SavedDocs
  /\ MaxEdits \in Nat \ {0} /\ CanLose \in BOOLEAN

VARIABLES
  store,     \* useWorkspaceStore
  ready,     \* syncReady
  queryData, \* data of each query, unknown before the first answer
  queries,   \* where each query is
  listed,    \* the list under way to it
  calls,     \* calls of the browser the agent has not served
  disk,
  edits,     \* the number of the last edit
  used,      \* ids that have been given out
  disturbed  \* documents with two accesses under way at once or a lost call,
             \* or put back by the refetch of the other kind

syncVars == <<store, ready, queryData, queries, listed, calls, disk, edits, used, disturbed>>

Versions == 0 .. MaxEdits
Of(k) == {d \in Docs : Kind[d] = k}
NoDocs == [d \in Docs |-> 0]
ListNow(k) == [known |-> TRUE, docs |-> [d \in Of(k) |-> disk[d]]]
Unknown(k) == [known |-> FALSE, docs |-> [d \in Of(k) |-> 0]]

SyncTypeOK ==
  /\ store \in [Docs -> Versions] /\ disk \in [Docs -> Versions]
  /\ ready \in BOOLEAN /\ edits \in Versions
  /\ DOMAIN queryData = Kinds /\ DOMAIN listed = Kinds
  /\ \A k \in Kinds : {queryData[k], listed[k]} \subseteq [known : BOOLEAN, docs : [Of(k) -> Versions]]
  /\ queries \in [Kinds -> {"idle", "asked", "answered"}]
  /\ calls \subseteq [doc : Docs, version : Versions, import : BOOLEAN]
  /\ used \subseteq Docs /\ disturbed \subseteq Docs

SyncInit ==
  /\ disk = [d \in Docs |-> IF d \in SavedDocs THEN 1 ELSE 0] /\ edits = 1 /\ used = SavedDocs
  /\ store = NoDocs /\ ready = FALSE
  /\ queryData = [k \in Kinds |-> Unknown(k)] /\ listed = [k \in Kinds |-> Unknown(k)]
  /\ queries = [k \in Kinds |-> "asked"]
  /\ calls = {} /\ disturbed = {}

-----------------------------------------------------------------------------
(* Variants of steps below with a plausible mistake, for the sensitivity   *)
(* runs; the specification does not use them.                              *)

\* Documents that are gone are not looked for.
DiffNoDelete(curr) ==
  {[doc |-> d, version |-> curr[d], import |-> FALSE] :
     d \in {x \in Docs : curr[x] # store[x] /\ curr[x] # 0}}

-----------------------------------------------------------------------------
(* syncCollectionDiff and syncEnvironmentDiff: DELETE where a document is  *)
(* gone, POST where it is new, PUT where it is another; the last two save. *)
Diff(curr) ==
  {[doc |-> d, version |-> curr[d], import |-> FALSE] : d \in {x \in Docs : curr[x] # store[x]}}

\* A change of the store, and what the subscriber makes of it.
Change(curr) ==
  LET new == IF ready THEN Diff(curr) ELSE {}
      changed == {d \in Docs : curr[d] # store[d]}
  IN /\ store' = curr
     /\ calls' = calls \cup new
     /\ disturbed' = disturbed \cup
          {d \in changed : queries[Kind[d]] = "answered" \/ \E c \in calls : c.doc = d}

\* Something the user does; newId never gives an id twice.
UserActs(d) ==
  /\ edits < MaxEdits /\ edits' = edits + 1
  /\ used' = used \cup {d}

AddDocument(d) ==
  /\ d \notin used \cup Importable /\ UserActs(d)
  /\ Change([store EXCEPT ![d] = edits + 1])
  /\ UNCHANGED <<ready, queryData, queries, listed, disk>>

UpdateDocument(d) ==
  /\ store[d] # 0 /\ UserActs(d)
  /\ Change([store EXCEPT ![d] = edits + 1])
  /\ UNCHANGED <<ready, queryData, queries, listed, disk>>

DeleteDocument(d) ==
  /\ store[d] # 0 /\ UserActs(d)
  /\ Change([store EXCEPT ![d] = 0])
  /\ UNCHANGED <<ready, queryData, queries, listed, disk>>

\* An item is moved from one collection to another: two documents change at
\* once, each with a call of its own.
MoveItem(d, e) ==
  /\ d # e /\ Kind[d] = "collections" /\ Kind[e] = "collections"
  /\ store[d] # 0 /\ store[e] # 0 /\ UserActs(d)
  /\ Change([store EXCEPT ![d] = edits + 1, ![e] = edits + 1])
  /\ UNCHANGED <<ready, queryData, queries, listed, disk>>

\* importFile of the side panel: POST .../import, then refetch.
ImportFile(d) ==
  /\ d \in Importable \ used /\ UserActs(d)
  /\ calls' = calls \cup {[doc |-> d, version |-> edits + 1, import |-> TRUE]}
  /\ UNCHANGED <<store, ready, queryData, queries, listed, disk, disturbed>>

-----------------------------------------------------------------------------
(* The agent.  Calls travel on connections of their own, in any order.     *)

Serve(c) ==
  /\ c \in calls /\ calls' = calls \ {c}
  /\ disk' = [disk EXCEPT ![c.doc] = c.version]
  /\ queries' = IF c.import THEN [queries EXCEPT ![Kind[c.doc]] = "asked"] ELSE queries
  /\ UNCHANGED <<store, ready, queryData, listed, edits, used, disturbed>>

\* catch(() => {}): a failed call is not made again.
Lose(c) ==
  /\ CanLose /\ c \in calls /\ calls' = calls \ {c}
  /\ disturbed' = disturbed \cup {c.doc}
  /\ UNCHANGED <<store, ready, queryData, queries, listed, disk, edits, used>>

ListServed(k) ==
  /\ queries[k] = "asked"
  /\ queries' = [queries EXCEPT ![k] = "answered"] /\ listed' = [listed EXCEPT ![k] = ListNow(k)]
  /\ disturbed' = disturbed \cup {d \in Of(k) : \E c \in calls : c.doc = d}
  /\ UNCHANGED <<store, ready, queryData, calls, disk, edits, used>>

-----------------------------------------------------------------------------
AllKnown(data) == \A k \in Kinds : data[k].known

\* The query has its data; the effect runs if one of the two is new and both
\* are there.  It sets both halves of the store, and sync is off meanwhile.
ListAnswered(k) ==
  /\ queries[k] = "answered"
  /\ queries' = [queries EXCEPT ![k] = "idle"] /\ queryData' = [queryData EXCEPT ![k] = listed[k]]
  /\ IF AllKnown(queryData') /\ queryData' # queryData
       THEN store' = [d \in Docs |-> queryData'[Kind[d]].docs[d]] /\ ready' = TRUE
       ELSE UNCHANGED <<store, ready>>
  /\ disturbed' = disturbed \cup {d \in Docs \ Of(k) : ready /\ store'[d] # store[d]}
  /\ UNCHANGED <<listed, calls, disk, edits, used>>

\* The page is loaded again: calls under way may still arrive or not.
ReloadPage ==
  /\ edits < MaxEdits /\ edits' = edits + 1
  /\ store' = NoDocs /\ ready' = FALSE
  /\ queryData' = [k \in Kinds |-> Unknown(k)] /\ queries' = [k \in Kinds |-> "asked"]
  /\ \E still \in SUBSET calls :
       calls' = {[c EXCEPT !.import = FALSE] : c \in still}
  /\ UNCHANGED <<listed, disk, used, disturbed>>

SyncUser ==
  \/ \E d \in Docs : AddDocument(d) \/ UpdateDocument(d) \/ DeleteDocument(d) \/ ImportFile(d)
  \/ \E d, e \in Docs : MoveItem(d, e)
  \/ ReloadPage
Network ==
  \/ \E c \in calls : Serve(c)
  \/ \E k \in Kinds : ListServed(k) \/ ListAnswered(k)

SyncNext == SyncUser \/ Network \/ \E c \in calls : Lose(c)

SyncSpec == SyncInit /\ [][SyncNext]_syncVars

\* The agent answers what reaches it.  Nobody has to edit.
FairSyncSpec == SyncSpec /\ WF_syncVars(Network)

-----------------------------------------------------------------------------
(* In the end the disk holds what the user sees, through edits before the  *)
(* load, reloads and imports, of every document that never had two         *)
(* accesses under way at once, none of whose calls failed and that no      *)
(* import of the other kind put back.                                      *)
EventuallySaved == <>[](\A d \in Docs \ disturbed : disk[d] = store[d])

(* docs/development.md:289, "The store is the in-memory source of truth;   *)
(* the REST API is the persistence layer": to import a collection does not *)
(* take environments the user has edited back to what they were when the   *)
(* page was loaded.                                                        *)
ImportLeavesOthers ==
  [][\A k \in Kinds : ready /\ ListAnswered(k) =>
       \A d \in Docs \ Of(k) : store'[d] = store[d]]_syncVars
=============================================================================
