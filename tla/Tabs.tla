------------------------------- MODULE Tabs --------------------------------
(***************************************************************************)
(* store/tabs.ts: the open tabs of the front end, the active one and those *)
(* that were closed and can be reopened.  A tab on a request holds its own *)
(* copy of the request, so closing a tab is what can lose edits.           *)
(*                                                                         *)
(* The store is written by whatever the user touches and by answers that   *)
(* arrive later, so this module has the operations and no next-state       *)
(* relation: Workbench and RequestPane have.  Titles, sub-tabs and the     *)
(* request itself are left out.                                            *)
(***************************************************************************)
EXTENDS SequencesExt, Selection

CONSTANTS
  None,       \* no id
  TabIds,     \* ids a tab may be given, numbers
  MaxClosed   \* how many closed tabs are kept: 10 in the code

ASSUME TabsAssumption ==
  TabIds \subseteq Nat \ {0} /\ 1 \in TabIds /\ MaxClosed \in Nat \ {0} /\ None \notin TabIds

VARIABLES
  tabs,         \* the sequence of open tabs
  activeTabId,
  closedTabs    \* oldest first

tabVars == <<tabs, activeTabId, closedTabs>>

TabTypes == {"request", "collection", "folder", "environment", "globals"}

(* A tab: what it is on, whether it has edits and whether a send is in     *)
(* progress.  item is the id of its request, folder or environment.        *)
Tab(type, item, collection) ==
  [id |-> None, type |-> type, item |-> item, collection |-> collection,
   dirty |-> FALSE, isSending |-> FALSE, response |-> None]

NewTab == Tab("request", None, None)

OpenIds == {tabs[n].id : n \in DOMAIN tabs}
Open(id) == CHOOSE n \in DOMAIN tabs : tabs[n].id = id
ActiveTab == tabs[Open(activeTabId)]

(* An id no tab has and nothing refers to any more.                        *)
NextId(busy) ==
  CHOOSE id \in TabIds \ (busy \cup OpenIds) :
    \A other \in TabIds \ (busy \cup OpenIds) : id <= other
RoomFor(n, busy) == Cardinality(TabIds \ (busy \cup OpenIds)) >= n

LastOf(s, n) == IF Len(s) <= n THEN s ELSE SubSeq(s, Len(s) - n + 1, Len(s))
Forgotten(t) == [t EXCEPT !.id = None]  \* the id of a closed tab is never read
Forget(s) == [n \in DOMAIN s |-> Forgotten(s[n])]

TabsInit == tabs = <<[NewTab EXCEPT !.id = 1]>> /\ activeTabId = 1 /\ closedTabs = <<>>

(* closeTab for one id after the other.  When the active tab goes, the one *)
(* that takes its place is next, and goes too if it is one of them; the    *)
(* last one when there is none to the right.                               *)
CloseTabs(ids) ==
  LET stay == {n \in DOMAIN tabs : tabs[n].id \notin ids}
      right == {n \in stay : n > Open(activeTabId)}
  IN /\ tabs' = Among(tabs, stay)
     /\ closedTabs' = LastOf(closedTabs \o Forget(Among(tabs, DOMAIN tabs \ stay)), MaxClosed)
     /\ activeTabId' = IF stay = {} THEN None
                       ELSE IF activeTabId \notin ids THEN activeTabId
                       ELSE IF right # {}
                       THEN tabs[CHOOSE n \in right : \A m \in right : n <= m].id
                       ELSE Last(tabs').id

CloseTab(id) == CloseTabs({id})

Show(id) == activeTabId' = id /\ UNCHANGED <<tabs, closedTabs>>

SetActiveTab(id) == id \in OpenIds /\ Show(id)

AddTab(t, busy) ==
  /\ RoomFor(1, busy)
  /\ tabs' = Append(tabs, [t EXCEPT !.id = NextId(busy)])
  /\ activeTabId' = NextId(busy)
  /\ UNCHANGED closedTabs

OpenNewTab(busy) == AddTab(NewTab, busy)

(* openRequestTab, openFolderTab, openCollectionTab, openEnvironmentTab    *)
(* and openGlobalsTab: the first tab on the same thing is shown, and only  *)
(* if there is none a tab is added.                                        *)
OpenTab(t, Same(_), busy) ==
  LET same == {n \in DOMAIN tabs : Same(tabs[n])} IN
  IF same # {} THEN Show(tabs[CHOOSE n \in same : \A m \in same : n <= m].id)
  ELSE AddTab(t, busy)

OpenRequestTab(r, busy) ==
  OpenTab(Tab("request", r, None), LAMBDA t : t.type = "request" /\ t.item = r, busy)
OpenFolderTab(f, c, busy) ==
  OpenTab(Tab("folder", f, c), LAMBDA t : t.type = "folder" /\ t.item = f, busy)
OpenCollectionTab(c, busy) ==
  OpenTab(Tab("collection", None, c), LAMBDA t : t.type = "collection" /\ t.collection = c, busy)
OpenEnvironmentTab(e, busy) ==
  OpenTab(Tab("environment", e, None), LAMBDA t : t.type = "environment" /\ t.item = e, busy)
OpenGlobalsTab(busy) == OpenTab(Tab("globals", None, None), LAMBDA t : t.type = "globals", busy)

ReopenLastClosedTab(busy) ==
  /\ closedTabs # <<>> /\ RoomFor(1, busy)
  /\ tabs' = Append(tabs, [Last(closedTabs) EXCEPT !.id = NextId(busy)])
  /\ activeTabId' = NextId(busy)
  /\ closedTabs' = Front(closedTabs)

(* The copy keeps everything but its edits' mark: a send in progress too.  *)
DuplicateTab(id, busy) ==
  /\ id \in OpenIds /\ RoomFor(1, busy)
  /\ tabs' = InsertAt(tabs, Open(id) + 1, [tabs[Open(id)] EXCEPT !.id = NextId(busy), !.dirty = FALSE])
  /\ activeTabId' = NextId(busy)
  /\ UNCHANGED closedTabs

(* Mutant: what is closed with the others is not kept.                     *)
CloseOtherTabsForgets(id) ==
  id \in OpenIds /\ tabs' = <<tabs[Open(id)]>> /\ activeTabId' = id /\ UNCHANGED closedTabs

CloseOtherTabs(id) ==
  IF id \notin OpenIds THEN UNCHANGED tabVars
  ELSE /\ tabs' = <<tabs[Open(id)]>>
       /\ activeTabId' = id
       /\ closedTabs' = LastOf(closedTabs \o Forget(Among(tabs, DOMAIN tabs \ {Open(id)})), MaxClosed)

(* Mutant: the active tab may be one of those that are closed.             *)
CloseTabsToRightKeepsActive(id) ==
  /\ id \in OpenIds /\ tabs' = SubSeq(tabs, 1, Open(id))
  /\ closedTabs' = LastOf(closedTabs \o Forget(SubSeq(tabs, Open(id) + 1, Len(tabs))), MaxClosed)
  /\ UNCHANGED activeTabId

CloseTabsToRight(id) ==
  IF id \notin OpenIds \/ id = Last(tabs).id THEN UNCHANGED tabVars
  ELSE LET keep == SubSeq(tabs, 1, Open(id)) IN
       /\ tabs' = keep
       /\ closedTabs' = LastOf(closedTabs \o Forget(SubSeq(tabs, Open(id) + 1, Len(tabs))), MaxClosed)
       /\ activeTabId' = IF \E n \in DOMAIN keep : keep[n].id = activeTabId
                         THEN activeTabId ELSE id

ReorderTabs(from, to) ==
  /\ from # to
  /\ tabs' = InsertAt(RemoveAt(tabs, from), to, tabs[from])
  /\ UNCHANGED <<activeTabId, closedTabs>>

(* updateTab and updateTabRequest: nothing happens if the tab is gone.     *)
UpdateTab(id, Change(_)) ==
  /\ tabs' = [n \in DOMAIN tabs |-> IF tabs[n].id = id THEN Change(tabs[n]) ELSE tabs[n]]
  /\ UNCHANGED <<activeTabId, closedTabs>>
EditTab(id) == UpdateTab(id, LAMBDA t : [t EXCEPT !.dirty = TRUE])

(* What a reload of the page brings back from localStorage.                *)
RestoreTabs ==
  /\ tabs' = [n \in DOMAIN tabs |-> [tabs[n] EXCEPT !.isSending = FALSE]]
  /\ closedTabs' = <<>>
  /\ UNCHANGED activeTabId

(***************************************************************************)
(* The active tab is one of the open ones, through every way of closing,   *)
(* restoring and cleaning up; otherwise no pane is shown and Ctrl+W would  *)
(* read a tab that does not exist.                                         *)
(***************************************************************************)
ActiveIsOpen == IF tabs = <<>> THEN activeTabId = None ELSE activeTabId \in OpenIds

(* Two open tabs never have one id: an update would reach both.            *)
DistinctIds == \A m, n \in DOMAIN tabs : m # n => tabs[m].id # tabs[n].id
=============================================================================
