---------------------------- MODULE HistoryPanel ----------------------------
(***************************************************************************)
(* The History panel (side-panel.tsx, HistoryPanel), the calls it makes    *)
(* (lib/backend.ts) and the handlers of the agent (agent/history.go).      *)
(*                                                                         *)
(* The panel keeps the pages it has loaded in a list of its own, to which  *)
(* it adds each page the query cache comes to hold at its offset.  The     *)
(* cache (React Query) is modelled from how the panel uses it: it fetches  *)
(* a page whenever the panel turns to it, and shows meanwhile what it had; *)
(* a fetch under way is joined, except by an invalidation, which restarts  *)
(* it; data that is equal to what it had is no change.                     *)
(***************************************************************************)
EXTENDS SequencesExt, Selection

CONSTANTS
  NoPage,       \* no data, no fetch
  Sent,            \* a fetch without its answer
  All,             \* what Clear all deletes
  PageSize,
  MaxHistoryActs   \* bound: acts of the user, and windows that get the focus

ASSUME HistoryAssumption == PageSize \in Nat \ {0} /\ NoPage # Sent /\ NoPage \notin Seq(Nat)

VARIABLES
  sent,          \* how many requests were sent, which number the entries
  history,       \* of the agent, the last request first
  cache,         \* the pages in the query cache, by offset
  fetches,       \* the fetch under way of each: Undefined, Sent or its answer
  failed,        \* the offsets whose last fetch failed
  offset, entries, hasMore,   \* of the panel
  effectOf,      \* the data and the offset its effect ran for last
  deletes,       \* the deletions on their way, done or not at the agent
  gone,          \* the entries whose deletion was answered
  historyActs

panelVars == <<offset, entries, hasMore, effectOf>>
queryVars == <<cache, fetches, failed>>
historyVars == <<sent, history, queryVars, panelVars, deletes, gone, historyActs>>

Offsets == {n * PageSize : n \in 0..1}

HistoryInit ==
  /\ sent \in 0..(2 * PageSize) /\ history = [n \in 1..sent |-> sent + 1 - n]
  /\ cache = [o \in Offsets |-> NoPage]
  /\ fetches = [o \in Offsets |-> IF o = 0 THEN Sent ELSE NoPage] /\ failed = {}
  /\ offset = 0 /\ entries = <<>> /\ hasMore = FALSE /\ effectOf = <<NoPage, 0>>
  /\ deletes = {} /\ gone = {} /\ historyActs = 0

HistoryAct == historyActs < MaxHistoryActs /\ historyActs' = historyActs + 1

(***************************************************************************)
(* The agent.                                                              *)
(***************************************************************************)
ListHistory(o) ==
  /\ fetches[o] = Sent
  /\ fetches' = [fetches EXCEPT ![o] = SubSeq(history, o + 1, IF o + PageSize <= Len(history)
                                                              THEN o + PageSize ELSE Len(history))]
  /\ UNCHANGED <<sent, history, cache, failed, panelVars, deletes, gone, historyActs>>

DeleteHistory(d) ==
  /\ ~d.done
  /\ LET removed == IF d.of = All THEN Range(history) ELSE {d.of} IN
     /\ deletes' = (deletes \ {d}) \cup {[d EXCEPT !.done = TRUE, !.removed = removed]}
     /\ history' = Among(history, {n \in DOMAIN history : history[n] \notin removed})
  /\ UNCHANGED <<sent, queryVars, panelVars, gone, historyActs>>

(* A request is sent in some tab: SendCancel.                              *)
AddHistory ==
  /\ HistoryAct /\ sent' = sent + 1 /\ history' = <<sent'>> \o history
  /\ UNCHANGED <<queryVars, panelVars, deletes, gone>>

(***************************************************************************)
(* The query cache.                                                        *)
(***************************************************************************)
Fetched(o) == IF fetches[o] = NoPage THEN [fetches EXCEPT ![o] = Sent] ELSE fetches

(* Mutant: a fetch under way is joined.                                    *)
InvalidateJoining(o) == Fetched(o)

Invalidate(o) == [fetches EXCEPT ![o] = Sent]

FetchDone(o) ==
  /\ fetches[o] \notin {NoPage, Sent}
  /\ cache' = [cache EXCEPT ![o] = fetches[o]] /\ failed' = failed \ {o}
  /\ fetches' = [fetches EXCEPT ![o] = NoPage]
  /\ UNCHANGED <<sent, history, panelVars, deletes, gone, historyActs>>

FetchFails(o) ==
  /\ fetches[o] # NoPage /\ fetches' = [fetches EXCEPT ![o] = NoPage] /\ failed' = failed \cup {o}
  /\ UNCHANGED <<sent, history, cache, panelVars, deletes, gone, historyActs>>

Refocus ==
  /\ HistoryAct /\ fetches[offset] = NoPage /\ fetches' = Fetched(offset)
  /\ UNCHANGED <<sent, history, cache, failed, panelVars, deletes, gone>>

(***************************************************************************)
(* The panel.                                                              *)
(***************************************************************************)
Due == effectOf # <<cache[offset], offset>>

Effect ==
  /\ Due /\ effectOf' = <<cache[offset], offset>>
  /\ IF cache[offset] = NoPage THEN UNCHANGED <<entries, hasMore>>
     ELSE /\ entries' = IF offset = 0 THEN cache[0] ELSE entries \o cache[offset]
          /\ hasMore' = (Len(cache[offset]) = PageSize)
  /\ UNCHANGED <<sent, history, queryVars, offset, deletes, gone, historyActs>>

LoadMore ==
  /\ HistoryAct /\ entries # <<>> /\ hasMore /\ fetches[offset] = NoPage /\ offset + PageSize \in Offsets
  /\ offset' = offset + PageSize /\ fetches' = Fetched(offset')
  /\ UNCHANGED <<sent, history, cache, failed, entries, hasMore, effectOf, deletes, gone>>

(* The question it asks before is answered with yes.                       *)
AskDeletion ==
  /\ HistoryAct /\ entries # <<>>
  /\ \E what \in {All} \cup Range(entries) :
       deletes' = deletes \cup {[id |-> historyActs, of |-> what, removed |-> {}, done |-> FALSE]}
  /\ UNCHANGED <<sent, history, queryVars, panelVars, gone>>

(* The list starts anew: the page that is shown is fetched again, and then *)
(* the first one, if it was another.                                       *)
ReloadList ==
  /\ offset' = 0 /\ entries' = <<>> /\ UNCHANGED <<hasMore, effectOf>>
  /\ fetches' = LET again == Invalidate(offset) IN
                IF again[0] = NoPage THEN [again EXCEPT ![0] = Sent] ELSE again

(* Whatever the answer is, even that the agent could not delete.           *)
Deleted(d) ==
  /\ deletes' = deletes \ {d} /\ ReloadList
  /\ gone' = gone \cup d.removed
  /\ UNCHANGED <<sent, history, cache, failed, historyActs>>

DeleteLost(d) ==
  /\ deletes' = deletes \ {d}
  /\ UNCHANGED <<sent, history, queryVars, panelVars, gone, historyActs>>

HistoryNext ==
  \/ Effect
  \/ ~Due /\ (AddHistory \/ Refocus \/ LoadMore \/ AskDeletion)
  \/ ~Due /\ \E o \in Offsets : ListHistory(o) \/ FetchDone(o) \/ FetchFails(o)
  \/ ~Due /\ \E d \in deletes : DeleteHistory(d) \/ Deleted(d) \/ DeleteLost(d)

HistorySpec == HistoryInit /\ [][HistoryNext]_historyVars
-----------------------------------------------------------------------------
(***************************************************************************)
(* An entry whose deletion was answered does not come back: once the list  *)
(* has been loaded again it is not on the first page that is shown,        *)
(* however the fetches, the pages and several deletions overlapped.        *)
(***************************************************************************)
GoneIsGone ==
  ~Due /\ offset = 0 /\ fetches[0] = NoPage /\ 0 \notin failed =>
    \A n \in DOMAIN entries : entries[n] \notin gone
=============================================================================
