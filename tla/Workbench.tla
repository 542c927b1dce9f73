----------------------------- MODULE Workbench -----------------------------
(***************************************************************************)
(* The window around the panes: the side panel with its tree, the tab bar, *)
(* the search dialog, the header, the keyboard shortcuts, and the effect   *)
(* that closes the tabs whose request, folder or collection is gone.  All  *)
(* of them change the two stores of Tabs and WorkspaceTree.                *)
(*                                                                         *)
(* A dialog (Delete?  Close without saving?) is modal, but not for the     *)
(* shortcuts, which listen on the window, nor for answers that arrive.     *)
(* What it will do was captured when it was opened.                        *)
(*                                                                         *)
(* The store is taken to be saved when the page is loaded again            *)
(* (WorkspaceSync is about when it is not).  Names, expanded rows and      *)
(* filters are left out, and with them renaming.                           *)
(***************************************************************************)
EXTENDS Tabs, WorkspaceTree

CONSTANTS
  Environments,
  StaleEnvironment,  \* the environment that is active when nothing was stored: "env-dev"
  MaxActs            \* bound of a behaviour: what the user does in it

\* What the agent answers is not the value that says the page is loaded.
ASSUME WorkbenchAssumption ==
  None \notin [collections : SUBSET Collections, environments : SUBSET Environments,
               place : [Items -> Collections \cup Folders \cup {Nowhere}]]

VARIABLES
  environments,
  activeEnvironmentId,
  confirm,   \* what the open dialog would do
  saved,     \* while the page loads: what the agent will answer; else None
  acts       \* how many things the user has done

envVars == <<environments, activeEnvironmentId>>
vars == <<tabVars, treeVars, envVars, confirm, saved, acts>>

Nothing == [op |-> "nothing"]
Loaded == saved = None

(* One more thing the user does.                                           *)
Act == acts < MaxActs /\ acts' = acts + 1

(* A dialog over the window leaves only the shortcuts and itself to use.   *)
Idle == confirm = Nothing
Busy == IF "tab" \in DOMAIN confirm THEN {confirm.tab} ELSE {}

Init ==
  /\ TabsInit /\ TreeInit
  /\ environments \in SUBSET Environments /\ activeEnvironmentId = StaleEnvironment
  /\ confirm = Nothing /\ saved = None /\ acts = 0

(***************************************************************************)
(* The tree.  The menu of a row is inside the row: a click on Duplicate or *)
(* Delete reaches the row too, which opens its tab.  Adding is kept from   *)
(* doing so (actionTakenRef).                                              *)
(***************************************************************************)
RequestNode(r) ==
  /\ Idle /\ r \in Present \cap Requests
  /\ OpenRequestTab(r, Busy)
  /\ \/ UNCHANGED <<treeVars, confirm>>
     \/ DuplicateItem(Home(r), r) /\ UNCHANGED confirm
     \/ confirm' = [op |-> "deleteItem", item |-> r, collection |-> Home(r)] /\ UNCHANGED treeVars
  /\ UNCHANGED <<envVars, saved>>

AddInto(c, folder) ==
  \E i \in Items \ Present :
    /\ AddItem(i, c, folder)
    /\ IF i \in Requests THEN OpenRequestTab(i, Busy) ELSE OpenFolderTab(i, c, Busy)

FolderNode(f) ==
  /\ Idle /\ f \in Present \cap Folders
  /\ \/ AddInto(Home(f), f) /\ UNCHANGED confirm
     \/ /\ OpenFolderTab(f, Home(f), Busy)
        /\ \/ UNCHANGED <<treeVars, confirm>>
           \/ DuplicateItem(Home(f), f) /\ UNCHANGED confirm
           \/ confirm' = [op |-> "deleteItem", item |-> f, collection |-> Home(f)] /\ UNCHANGED treeVars
  /\ UNCHANGED <<envVars, saved>>

CollectionCard(c) ==
  /\ Idle /\ c \in collections
  /\ \/ AddInto(c, Nowhere) /\ UNCHANGED confirm
     \/ /\ OpenCollectionTab(c, Busy)
        /\ \/ UNCHANGED <<treeVars, confirm>>
           \/ (\E copy \in Collections : DuplicateCollection(c, copy)) /\ UNCHANGED confirm
           \/ confirm' = [op |-> "deleteCollection", collection |-> c] /\ UNCHANGED treeVars
  /\ UNCHANGED <<envVars, saved>>

(* An item is dropped on a collection or on a folder; the drag began with  *)
(* the collection it was in.                                               *)
Drop(i) ==
  /\ Idle /\ i \in Present
  /\ \/ \E target \in collections : MoveItem(Home(i), i, target, Nowhere)
     \/ \E folder \in Present \cap Folders : MoveItem(Home(i), i, Home(folder), folder)
  /\ UNCHANGED <<tabVars, envVars, confirm, saved>>

NewCollection(c) ==
  /\ Idle /\ AddCollection(c) /\ OpenCollectionTab(c, Busy)
  /\ UNCHANGED <<envVars, confirm, saved>>

(* The answer to an import, at any time: the list has a new collection.    *)
Imported(c, r) ==
  /\ Loaded /\ c \notin collections /\ r \in Requests \ Present
  /\ collections' = collections \cup {c} /\ place' = [place EXCEPT ![r] = c]
  /\ UNCHANGED <<tabVars, envVars, confirm, saved>>

EnvironmentsPanel(e) ==
  /\ Idle
  /\ \/ e \notin environments /\ environments' = environments \cup {e} /\ UNCHANGED confirm
     \/ e \in environments /\ UNCHANGED <<environments, confirm>>
     \/ /\ e \in environments /\ UNCHANGED environments
        /\ confirm' = [op |-> "deleteEnvironment", environment |-> e,
                       wasActive |-> activeEnvironmentId = e]
  /\ OpenEnvironmentTab(e, Busy)
  /\ UNCHANGED <<treeVars, activeEnvironmentId, saved>>

Globals ==
  /\ Idle /\ OpenGlobalsTab(Busy)
  /\ UNCHANGED <<treeVars, envVars, confirm, saved>>

SelectEnvironment(e) ==
  /\ Idle /\ activeEnvironmentId' = e
  /\ UNCHANGED <<tabVars, treeVars, environments, confirm, saved>>

(***************************************************************************)
(* The dialogs.                                                            *)
(***************************************************************************)
(* The dialog of a request is inside its row, so its buttons open a tab    *)
(* too, even for the request that has just been deleted.                   *)
ClickReachesRow ==
  IF confirm.op = "deleteItem" /\ confirm.item \in Requests
  THEN OpenRequestTab(confirm.item, Busy) ELSE UNCHANGED tabVars

ConfirmDelete ==
  /\ confirm.op \in {"deleteItem", "deleteCollection", "deleteEnvironment"}
  /\ confirm' = Nothing /\ ClickReachesRow
  /\ CASE confirm.op = "deleteItem" ->
            DeleteItem(confirm.collection, confirm.item) /\ UNCHANGED envVars
       [] confirm.op = "deleteCollection" ->
            DeleteCollection(confirm.collection) /\ UNCHANGED envVars
       [] OTHER ->
            /\ environments' = environments \ {confirm.environment}
            /\ activeEnvironmentId' = IF confirm.wasActive THEN None ELSE activeEnvironmentId
            /\ UNCHANGED treeVars
  /\ UNCHANGED saved

ConfirmClose ==
  /\ \/ confirm.op = "close" /\ CloseTab(confirm.tab)
     \/ confirm.op = "closeOthers" /\ CloseOtherTabs(confirm.tab)
     \/ confirm.op = "closeRight" /\ CloseTabsToRight(confirm.tab)
  /\ confirm' = Nothing
  /\ UNCHANGED <<treeVars, envVars, saved>>

Cancel ==
  /\ confirm # Nothing /\ confirm' = Nothing
  /\ \/ ClickReachesRow
     \/ UNCHANGED tabVars   \* Escape
  /\ UNCHANGED <<treeVars, envVars, saved>>

(* Ctrl+K, at any time: the search dialog lists what is in the store and   *)
(* opens it.                                                               *)
Search ==
  /\ \/ \E c \in collections : OpenCollectionTab(c, Busy)
     \/ \E f \in Present \cap Folders : OpenFolderTab(f, Home(f), Busy)
     \/ \E r \in Present \cap Requests : OpenRequestTab(r, Busy)
  /\ UNCHANGED <<treeVars, envVars, confirm, saved>>

(***************************************************************************)
(* The tab bar.  Closing asks when edits would go.                         *)
(***************************************************************************)
AskFirst(dirty, op, id, Close(_)) ==
  IF dirty THEN confirm' = [op |-> op, tab |-> id] /\ UNCHANGED tabVars
  ELSE Close(id) /\ UNCHANGED confirm

TabBar(id) ==
  /\ Idle /\ id \in OpenIds
  /\ \/ (SetActiveTab(id) \/ DuplicateTab(id, Busy)) /\ UNCHANGED confirm
     \/ AskFirst(tabs[Open(id)].dirty, "close", id, CloseTab)
     \/ AskFirst(\E n \in DOMAIN tabs : n # Open(id) /\ tabs[n].dirty,
                 "closeOthers", id, CloseOtherTabs)
     \/ AskFirst(\E n \in DOMAIN tabs : n > Open(id) /\ tabs[n].dirty,
                 "closeRight", id, CloseTabsToRight)
     \/ (\E to \in DOMAIN tabs : ReorderTabs(Open(id), to)) /\ UNCHANGED confirm
  /\ UNCHANGED <<treeVars, envVars, saved>>

Edit ==
  /\ Idle /\ tabs # <<>> /\ ActiveTab.type = "request" /\ ~ActiveTab.dirty /\ EditTab(activeTabId)
  /\ UNCHANGED <<treeVars, envVars, confirm, saved>>

(* Ctrl+T, Ctrl+W and Ctrl+Shift+T, whatever is on the screen: Ctrl+W does *)
(* not ask.                                                                *)
KeyboardShortcuts ==
  /\ OpenNewTab(Busy) \/ CloseTab(activeTabId) \/ ReopenLastClosedTab(Busy)
  /\ UNCHANGED <<treeVars, envVars, confirm, saved>>

(***************************************************************************)
(* The effect of AppLayout, and loading the page.                          *)
(***************************************************************************)
Orphan(t) ==
  \/ t.collection # None /\ t.collection \notin collections
  \/ t.type = "request" /\ t.item # None /\ t.item \notin Present
  \/ t.type = "folder" /\ t.item \notin Present

Orphans == {n \in DOMAIN tabs : Orphan(tabs[n])}

(* Mutant: only the tab that is shown is looked at.                        *)
CleanupOrphansActiveOnly ==
  /\ tabs # <<>> /\ Orphan(ActiveTab)
  /\ CloseTab(activeTabId)
  /\ UNCHANGED <<treeVars, envVars, confirm, saved>>

CleanupOrphans ==
  /\ Orphans # {}
  /\ CloseTabs({tabs[n].id : n \in Orphans})
  /\ UNCHANGED <<treeVars, envVars, confirm, saved>>

(* The effect of the pane of an environment that is gone: its own tab is   *)
(* closed, when it is shown.                                               *)
Stranded ==
  tabs # <<>> /\ ActiveTab.type = "environment" /\ ActiveTab.item \notin environments

EnvironmentPane ==
  /\ Stranded /\ CloseTab(activeTabId)
  /\ UNCHANGED <<treeVars, envVars, confirm, saved>>

Reload ==
  /\ Loaded
  /\ saved' = [collections |-> collections, place |-> place, environments |-> environments]
  /\ RestoreTabs
  /\ collections' = {} /\ place' = Without(Items) /\ environments' = {}
  /\ confirm' = Nothing
  /\ UNCHANGED activeEnvironmentId

(* Both lists have come.  What was made before is gone.                    *)
Load ==
  /\ ~Loaded /\ saved' = None
  /\ collections' = saved.collections /\ place' = saved.place
  /\ environments' = saved.environments
  /\ UNCHANGED <<tabVars, activeEnvironmentId, confirm>>

UserAct ==
  \/ \E r \in Requests : RequestNode(r)
  \/ \E f \in Folders : FolderNode(f)
  \/ \E c \in Collections : CollectionCard(c) \/ NewCollection(c)
  \/ \E i \in Items : Drop(i)
  \/ \E c \in Collections, r \in Requests : Imported(c, r)
  \/ \E e \in Environments : EnvironmentsPanel(e)
  \/ Globals
  \/ \E e \in environments \cup {None} : SelectEnvironment(e)
  \/ ConfirmDelete \/ ConfirmClose \/ Cancel \/ Search
  \/ \E id \in TabIds : TabBar(id)
  \/ Edit \/ KeyboardShortcuts \/ Reload

Next ==
  \/ UserAct /\ Act
  \/ (CleanupOrphans \/ EnvironmentPane \/ Load) /\ UNCHANGED acts

(* The effects run after every render, and the agent answers in the end.   *)
Spec ==
  /\ Init /\ [][Next]_vars
  /\ WF_vars(CleanupOrphans /\ UNCHANGED acts)
  /\ WF_vars(EnvironmentPane /\ UNCHANGED acts)
  /\ WF_vars(Load /\ UNCHANGED acts)
-----------------------------------------------------------------------------
TypeOK ==
  /\ \A n \in DOMAIN tabs :
       /\ tabs[n].id \in TabIds /\ tabs[n].type \in TabTypes
       /\ tabs[n].item \in Items \cup Environments \cup {None}
       /\ tabs[n].collection \in Collections \cup {None}
  /\ DistinctIds
  /\ Len(closedTabs) <= MaxClosed
  /\ collections \subseteq Collections
  /\ place \in [Items -> Collections \cup Folders \cup {Nowhere}]
  /\ environments \subseteq Environments
  /\ activeEnvironmentId \in Environments \cup {None, StaleEnvironment}

(***************************************************************************)
(* An item leaves the tree only by the deletion that was confirmed for it  *)
(* or for something around it.  The one drop the code does not guard is a  *)
(* folder on a folder inside it: the whole branch is lost, and nothing     *)
(* else (MoveItem extracts, then does not find the target).                *)
(***************************************************************************)
NothingElseLost ==
  [][LET lost == {i \in Present : place'[i] = Nowhere} IN
     \/ lost = {} \/ Loaded # Loaded'
     \/ confirm.op = "deleteItem" /\ confirm' = Nothing /\ lost = Subtree(confirm.item)
     \/ confirm.op = "deleteCollection" /\ confirm' = Nothing /\ lost = Inside(confirm.collection)
     \/ \E f \in Folders : lost = Subtree(f) /\ Inside(f) \cap Folders # {} /\ UNCHANGED confirm
    ]_vars

(***************************************************************************)
(* Edits live in the tab alone.  However a tab with edits is closed (with  *)
(* others, by Ctrl+W without a question, by the cleanup), it can be        *)
(* reopened with them; unless more than MaxClosed tabs go at once.         *)
(***************************************************************************)
EditsReopenable ==
  [][\A n \in DOMAIN tabs :
       tabs[n].dirty /\ tabs[n].id \notin OpenIds' /\ Len(tabs) - Len(tabs') <= MaxClosed
         => \E m \in DOMAIN closedTabs' : closedTabs'[m] = Forgotten(tabs[n])]_vars

(***************************************************************************)
(* A tab on something that is gone does not stay: not when it was reopened *)
(* or duplicated, not when the list arrives without it.  The tab of an     *)
(* environment may, unless it is the one that is shown.                    *)
(***************************************************************************)
OrphansGo == []<>(Orphans = {} /\ ~Stranded)

(***************************************************************************)
(* The tabs a reload brings back stay open: none of them is closed as an   *)
(* orphan if what it is on exists (docs/development.md, Tab types and      *)
(* Zustand tab store).                                                     *)
(***************************************************************************)
RestoredTabsStay ==
  [][~Loaded /\ CleanupOrphans
       => \A n \in Orphans : tabs[n].item \in Items => saved.place[tabs[n].item] = Nowhere]_vars
=============================================================================
