--------------------------- MODULE Frontend_proofs ---------------------------
(***************************************************************************)
(* Theorems about the parts of the web frontend that MCFrontend checks     *)
(* side by side: the history panel, the pane of a collection, the settings *)
(* dialog, the variables of scripts, the pane of a request with its        *)
(* editor, the table of a run and the input that offers variables; and     *)
(* about the workspace sync, which MCWorkspaceSync checks.  Each part has  *)
(* its inductive invariant and a section of its own; the parts share no    *)
(* variables and no section uses another.                                  *)
(***************************************************************************)
EXTENDS HistoryPanel, CollectionPane, SettingsDialog, ScriptVariables, RequestPane, RequestEditor,
        RunResults, VariableInput, WorkspaceSync, Selection_proofs

-----------------------------------------------------------------------------
(***************************************************************************)
(* The history panel.                                                      *)
(***************************************************************************)
Numbers == 1 .. sent
Deletes == [id : Nat, of : Nat \cup {All}, removed : SUBSET Nat, done : BOOLEAN]

(* A page of entries that were sent.                                       *)
IsPage(s) == s \in Seq(Nat) /\ \A n \in 1 .. Len(s) : s[n] \in Numbers

HistoryTyped ==
  /\ sent \in Nat /\ historyActs \in Nat /\ IsPage(history) /\ IsPage(entries)
  /\ DOMAIN fetches = Offsets /\ DOMAIN cache = Offsets /\ offset \in Offsets
  /\ \A o \in Offsets : fetches[o] \notin {NoPage, Sent} => IsPage(fetches[o])
  /\ \A o \in Offsets : cache[o] # NoPage => IsPage(cache[o])
  /\ deletes \subseteq Deletes
  /\ \A d \in deletes : /\ d.of = All \/ d.of \in Numbers
                        /\ d.removed \subseteq Numbers /\ (~d.done => d.removed = {})
  /\ gone \subseteq Numbers

(* The agent has no entry any more that a deletion has removed.            *)
IsRemoved(id) == id \in gone \/ \E d \in deletes : id \in d.removed
HistoryIsLeft == \A n \in 1 .. Len(history) : ~IsRemoved(history[n])

(* A page without entries whose deletion was answered.                     *)
Clean(page) == \A n \in DOMAIN page : page[n] \notin gone

(* The first page: what is known of it, unless it is being fetched anew or *)
(* could not be.                                                           *)
FirstPage ==
  /\ fetches[0] \notin {NoPage, Sent} => Clean(fetches[0])
  /\ fetches[0] = NoPage /\ 0 \notin failed => cache[0] # NoPage /\ Clean(cache[0])
  /\ offset # 0 => fetches[0] = NoPage

(* The list holds what the effect ran for last, or was emptied since.      *)
ListFollows ==
  /\ offset = 0 /\ effectOf[2] = 0 => entries = <<>> \/ entries = effectOf[1]
  /\ effectOf[2] = 0 /\ effectOf[1] # NoPage => cache[0] # NoPage
  /\ cache[0] = NoPage => entries = <<>> /\ offset = 0

HistoryInv == HistoryTyped /\ HistoryIsLeft /\ FirstPage /\ ListFollows

(* Two pages in a row.                                                     *)
LEMMA RowIsPage ==
  ASSUME NEW s, NEW t, IsPage(s), IsPage(t), NEW q, IsRow(q, Nat, s, t)
  PROVE  IsPage(q)
<1>1. PICK k \in Nat, l \in Nat : k = Len(s) /\ l = Len(t)
  BY LenProperties DEF IsPage
<1>2. q \in Seq(Nat) /\ Len(q) = k + l /\ \A i \in 1 .. k + l : q[i] = IF i <= k THEN s[i] ELSE t[i - k]
  BY <1>1 DEF IsRow
<1>3. ASSUME NEW i \in 1 .. k + l PROVE q[i] \in Numbers
  <2>1. CASE i <= k
    <3>1. i \in 1 .. k
      BY <1>1, <2>1
    <3> QED BY <1>1, <1>2, <2>1, <3>1 DEF IsPage
  <2>2. CASE ~(i <= k)
    <3>1. i - k \in 1 .. l
      BY <2>2
    <3>2. PICK j \in 1 .. l : j = i - k
      BY <3>1
    <3> QED BY <1>1, <1>2, <2>2, <3>2 DEF IsPage
  <2> QED BY <2>1, <2>2
<1> QED BY <1>2, <1>3 DEF IsPage

LEMMA OffsetsTyped == Offsets \subseteq Nat /\ 0 \in Offsets
BY HistoryAssumption DEF Offsets

LEMMA HistoryInitInv == HistoryInit => HistoryInv
<1> SUFFICES ASSUME HistoryInit PROVE HistoryInv
  OBVIOUS
<1>1. sent \in Nat /\ history \in Seq(Nat)
  BY HistoryAssumption DEF HistoryInit
<1>2. \A n \in 1 .. Len(history) : history[n] \in Numbers
  BY <1>1 DEF HistoryInit, Numbers
<1>3. IsPage(entries)
  BY DEF HistoryInit, IsPage
<1> QED BY <1>1, <1>2, <1>3, OffsetsTyped, HistoryAssumption
     DEF HistoryInit, HistoryInv, HistoryTyped, IsPage, HistoryIsLeft, FirstPage, ListFollows, IsRemoved,
         Clean

-----------------------------------------------------------------------------
(* A page of the history.                                                  *)
LEMMA ListStep ==
  ASSUME HistoryInv, NEW o \in Offsets, ListHistory(o)
  PROVE  HistoryInv'
<1> DEFINE last == IF o + PageSize <= Len(history) THEN o + PageSize ELSE Len(history)
<1>1. PICK page : page = SubSeq(history, o + 1, last)
  OBVIOUS
<1>2. /\ fetches[o] = Sent /\ fetches' = [fetches EXCEPT ![o] = page]
      /\ UNCHANGED <<sent, history, cache, failed, panelVars, deletes, gone, historyActs>>
  BY <1>1 DEF ListHistory
<1>3. IsPage(page) /\ Clean(page)
  <2> HIDE DEF last
  <2>1. o \in Nat /\ PageSize \in Nat /\ history \in Seq(Nat) /\ Len(history) \in Nat
    BY OffsetsTyped, HistoryAssumption, LenProperties DEF HistoryInv, HistoryTyped, IsPage
  <2>2. PICK n \in Nat, m \in Nat \ {0} : n = last /\ m = o + 1 /\ n <= Len(history)
    BY <2>1 DEF last
  <2>3. CASE m <= n + 1
    <3>1. IsPiece(page, Nat, history, m, n)
      BY <1>1, <2>1, <2>2, <2>3, Piece
    <3>2. page \in Seq(Nat) /\ \A i \in 1 .. Len(page) : \E j \in 1 .. Len(history) : page[i] = history[j]
      <4>1. page \in Seq(Nat)
        BY <3>1 DEF IsPiece
      <4>2. \A i \in 1 .. Len(page) : \E j \in 1 .. Len(history) : page[i] = history[j]
        BY <2>1, <2>2, <3>1, PieceElements
      <4> QED BY <4>1, <4>2
    <3>3. DOMAIN page = 1 .. Len(page)
      BY <3>2, LenProperties
    <3> QED BY <3>2, <3>3 DEF IsPage, Clean, HistoryInv, HistoryTyped, HistoryIsLeft, IsRemoved
  <2>4. CASE m > n + 1
    <3>1. page = <<>>
      BY <1>1, <2>1, <2>2, <2>4, SubSeqProperties
    <3> QED BY <3>1 DEF IsPage, Clean
  <2> QED BY <2>2, <2>3, <2>4
<1> HIDE DEF last
<1>4. HistoryTyped' /\ HistoryIsLeft'
  BY <1>2, <1>3 DEF HistoryInv, HistoryTyped, HistoryIsLeft, IsRemoved, IsPage, Numbers, panelVars
<1>5. FirstPage' /\ ListFollows'
  <2>1. page # NoPage
    BY <1>3, HistoryAssumption DEF IsPage
  <2> QED BY <1>2, <1>3, <2>1, HistoryAssumption, OffsetsTyped
     DEF HistoryInv, HistoryTyped, FirstPage, ListFollows, Clean, IsPage, panelVars
<1> QED BY <1>4, <1>5 DEF HistoryInv

(* The entries a deletion removes are numbered and are not in the list     *)
(* that is left.                                                           *)
LEMMA DeleteStep ==
  ASSUME HistoryInv, NEW d \in deletes, DeleteHistory(d)
  PROVE  HistoryInv'
<1>1. PICK removed : removed = IF d.of = All THEN Range(history) ELSE {d.of}
  OBVIOUS
<1>2. PICK left : left = Among(history, {n \in DOMAIN history : history[n] \notin removed})
  OBVIOUS
<1>3. PICK e : e = [d EXCEPT !.done = TRUE, !.removed = removed]
  OBVIOUS
<1>4. /\ ~d.done /\ deletes' = (deletes \ {d}) \cup {e} /\ history' = left
      /\ UNCHANGED <<sent, queryVars, panelVars, gone, historyActs>>
  BY <1>1, <1>2, <1>3 DEF DeleteHistory
<1>5. d \in Deletes /\ history \in Seq(Nat)
  BY DEF HistoryInv, HistoryTyped, IsPage
<1>6. removed \subseteq Numbers
  <2>1. Range(history) \subseteq Numbers
    BY <1>5 DEF Range, HistoryInv, HistoryTyped, IsPage
  <2> QED BY <1>1, <2>1 DEF HistoryInv, HistoryTyped
<1>7. e \in Deletes /\ e.of = d.of /\ e.removed = removed /\ e.done
  <2>1. removed \in SUBSET Nat
    BY <1>6 DEF Numbers, HistoryInv, HistoryTyped
  <2> QED BY <1>3, <1>5, <2>1 DEF Deletes
<1>8. left \in Seq(Nat) /\ \A i \in 1 .. Len(left) : \E n \in 1 .. Len(history) :
                             left[i] = history[n] /\ left[i] \notin removed
  <2>1. PICK T \in SUBSET (1 .. Len(history)) : T = {n \in DOMAIN history : history[n] \notin removed}
    <3>1. DOMAIN history = 1 .. Len(history)
      BY <1>5, LenProperties
    <3> QED BY <3>1
  <2>2. IsSelection(left, Nat, history, T, Cardinality(T))
    BY <1>2, <1>5, <2>1, AmongSelects
  <2> QED BY <2>1, <2>2 DEF IsSelection
<1>9. IsPage(left)
  BY <1>8 DEF IsPage, HistoryInv, HistoryTyped
<1>10. HistoryTyped'
  BY <1>4, <1>6, <1>7, <1>9 DEF HistoryInv, HistoryTyped, IsPage, Numbers, queryVars, panelVars
<1>11. HistoryIsLeft'
  BY <1>4, <1>7, <1>8 DEF HistoryInv, HistoryIsLeft, IsRemoved
<1> QED BY <1>4, <1>10, <1>11 DEF HistoryInv, FirstPage, ListFollows, Clean, queryVars, panelVars

(* A new entry has a new number.                                           *)
LEMMA AddStep ==
  ASSUME HistoryInv, AddHistory
  PROVE  HistoryInv'
<1>1. PICK new : new = <<sent + 1>>
  OBVIOUS
<1>2. PICK longer : longer = new \o history
  OBVIOUS
<1>3. /\ sent' = sent + 1 /\ history' = longer /\ historyActs' = historyActs + 1
      /\ UNCHANGED <<queryVars, panelVars, deletes, gone>>
  BY <1>1, <1>2 DEF AddHistory, HistoryAct
<1>4. new \in Seq(Nat) /\ Len(new) = 1 /\ new[1] = sent + 1 /\ history \in Seq(Nat) /\ Len(history) \in Nat
  BY <1>1, LenProperties DEF HistoryInv, HistoryTyped, IsPage
<1>5. IsRow(longer, Nat, new, history)
  BY <1>2, <1>4, InARow
<1>6. longer \in Seq(Nat) /\ \A i \in 1 .. Len(longer) :
                                longer[i] = sent + 1 \/ \E n \in 1 .. Len(history) : longer[i] = history[n]
  <2>1. PICK k \in Nat : k = Len(history)
    BY <1>4
  <2>2. Len(longer) = 1 + k /\ \A i \in 1 .. 1 + k : longer[i] = IF i <= 1 THEN new[i] ELSE history[i - 1]
    BY <1>4, <1>5, <2>1 DEF IsRow
  <2>3. \A i \in 1 .. 1 + k : i <= 1 => i = 1
    BY <2>1
  <2>4. \A i \in 1 .. 1 + k : ~(i <= 1) => i - 1 \in 1 .. k
    BY <2>1
  <2> QED BY <1>4, <1>5, <2>1, <2>2, <2>3, <2>4 DEF IsRow
<1>7. \A s : IsPage(s) => IsPage(s)'
  BY <1>3 DEF IsPage, Numbers, HistoryInv, HistoryTyped
<1>8. IsPage(longer)'
  <2>1. Numbers' = 1 .. sent + 1 /\ sent + 1 \in Numbers' /\ Numbers \subseteq Numbers'
    BY <1>3 DEF Numbers, HistoryInv, HistoryTyped
  <2>2. \A n \in 1 .. Len(history) : history[n] \in Numbers
    BY DEF HistoryInv, HistoryTyped, IsPage
  <2>3. \A i \in 1 .. Len(longer) : longer[i] \in Numbers'
    BY <1>6, <2>1, <2>2
  <2> QED BY <1>6, <2>3 DEF IsPage
<1>9. HistoryTyped'
  <2>1. sent' \in Nat /\ HistoryTyped
    BY <1>3 DEF HistoryInv, HistoryTyped
  <2>2. IsPage(history)'
    BY <1>3, <1>8 DEF IsPage
  <2>3. UNCHANGED <<cache, fetches, offset, entries, deletes, gone>> /\ historyActs' \in Nat
    BY <1>3, <2>1 DEF HistoryTyped, queryVars, panelVars
  <2>4. /\ IsPage(entries)'
        /\ \A o \in Offsets : fetches'[o] \notin {NoPage, Sent} => IsPage(fetches[o])'
        /\ \A o \in Offsets : cache'[o] # NoPage => IsPage(cache[o])'
    BY <1>7, <2>1, <2>3 DEF HistoryTyped
  <2>5. Numbers \subseteq Numbers'
    BY <1>3, <2>1 DEF Numbers, HistoryTyped
  <2>6. gone' \subseteq Numbers' /\ \A d \in deletes' : (d.of = All \/ d.of \in Numbers') /\ d.removed \subseteq Numbers'
    BY <2>1, <2>3, <2>5 DEF HistoryTyped
  <2>7. \A d \in deletes' : ~d.done => d.removed = {}
    BY <2>1, <2>3 DEF HistoryTyped
  <2> QED BY <2>1, <2>2, <2>3, <2>4, <2>6, <2>7 DEF HistoryTyped
<1>10. ~IsRemoved(sent + 1)
  BY DEF HistoryInv, HistoryTyped, IsRemoved, Numbers
<1>11. HistoryIsLeft'
  BY <1>3, <1>6, <1>10 DEF HistoryInv, HistoryIsLeft, IsRemoved
<1> QED BY <1>3, <1>9, <1>11 DEF HistoryInv, FirstPage, ListFollows, Clean, queryVars, panelVars

(* The query cache.                                                        *)
LEMMA FetchStep ==
  ASSUME HistoryInv, ~Due, (\E o \in Offsets : FetchDone(o) \/ FetchFails(o)) \/ Refocus
  PROVE  HistoryInv'
<1>1. UNCHANGED <<sent, history, panelVars, deletes, gone>> /\ historyActs' \in Nat
  BY DEF FetchDone, FetchFails, Refocus, HistoryAct, HistoryInv, HistoryTyped
<1>2. ASSUME NEW o \in Offsets, FetchDone(o)
      PROVE  HistoryTyped' /\ FirstPage' /\ ListFollows'
  BY <1>1, <1>2, OffsetsTyped, HistoryAssumption
     DEF HistoryInv, HistoryTyped, FirstPage, ListFollows, Clean, IsPage, Numbers, panelVars, FetchDone
<1>3. ASSUME NEW o \in Offsets, FetchFails(o)
      PROVE  HistoryTyped' /\ FirstPage' /\ ListFollows'
  BY <1>1, <1>3, OffsetsTyped, HistoryAssumption
     DEF HistoryInv, HistoryTyped, FirstPage, ListFollows, Clean, IsPage, Numbers, panelVars, FetchFails
<1>4. ASSUME Refocus
      PROVE  HistoryTyped' /\ FirstPage' /\ ListFollows'
  BY <1>1, <1>4, OffsetsTyped, HistoryAssumption
     DEF HistoryInv, HistoryTyped, FirstPage, ListFollows, Clean, IsPage, Numbers, panelVars, Refocus, Fetched
<1> QED BY <1>1, <1>2, <1>3, <1>4 DEF HistoryInv, HistoryIsLeft, IsRemoved

(* The effect of the panel.                                                *)
LEMMA EffectStep ==
  ASSUME HistoryInv, Effect
  PROVE  HistoryInv'
<1>1. /\ UNCHANGED <<sent, history, queryVars, offset, deletes, gone, historyActs>>
      /\ effectOf' = <<cache[offset], offset>>
  BY DEF Effect
<1>2. IsPage(entries') /\ (offset = 0 => entries' = entries \/ entries' = cache[0])
  <2>1. CASE cache[offset] = NoPage
    BY <2>1 DEF Effect, HistoryInv, HistoryTyped
  <2>2. CASE cache[offset] # NoPage /\ offset = 0
    BY <2>2 DEF Effect, HistoryInv, HistoryTyped
  <2>3. CASE cache[offset] # NoPage /\ offset # 0
    <3>1. entries' = entries \o cache[offset]
      BY <2>3 DEF Effect
    <3>2. IsPage(entries) /\ IsPage(cache[offset])
      BY <2>3 DEF HistoryInv, HistoryTyped
    <3>3. IsRow(entries', Nat, entries, cache[offset])
      BY <3>1, <3>2, InARow DEF IsPage
    <3> QED BY <2>3, <3>2, <3>3, RowIsPage
  <2> QED BY <2>1, <2>2, <2>3
<1>3. HistoryTyped'
  BY <1>1, <1>2 DEF HistoryInv, HistoryTyped, IsPage, Numbers, queryVars
<1>4. ListFollows'
  BY <1>1, <1>2, OffsetsTyped DEF HistoryInv, HistoryTyped, ListFollows, Effect, queryVars
<1> QED BY <1>1, <1>3, <1>4 DEF HistoryInv, HistoryIsLeft, IsRemoved, FirstPage, Clean, queryVars

LEMMA LoadMoreStep ==
  ASSUME HistoryInv, ~Due, LoadMore
  PROVE  HistoryInv'
<1>1. offset' \in Offsets /\ offset' # 0 /\ offset # offset'
  BY OffsetsTyped, HistoryAssumption DEF LoadMore, HistoryInv, HistoryTyped
<1>2. fetches' = [fetches EXCEPT ![offset'] = Sent] \/ fetches' = fetches
  BY DEF LoadMore, Fetched
<1>3. offset = 0
  BY OffsetsTyped, HistoryAssumption DEF LoadMore, HistoryInv, HistoryTyped, Offsets
<1>4. /\ UNCHANGED <<sent, history, cache, failed, entries, hasMore, effectOf, deletes, gone>>
      /\ entries # <<>> /\ fetches[0] = NoPage /\ historyActs' = historyActs + 1
  BY <1>3 DEF LoadMore, HistoryAct
<1>5. HistoryTyped'
  BY <1>1, <1>2, <1>4, HistoryAssumption DEF HistoryInv, HistoryTyped, IsPage, Numbers
<1>6. FirstPage' /\ ListFollows'
  BY <1>1, <1>2, <1>4, OffsetsTyped DEF HistoryInv, HistoryTyped, FirstPage, ListFollows, Clean
<1> QED BY <1>4, <1>5, <1>6 DEF HistoryInv, HistoryIsLeft, IsRemoved

(* Deletions are asked for and answered.                                   *)
LEMMA AskStep ==
  ASSUME HistoryInv, AskDeletion
  PROVE  HistoryInv'
<1>1. PICK what \in {All} \cup Range(entries) :
        deletes' = deletes \cup {[id |-> historyActs, of |-> what, removed |-> {}, done |-> FALSE]}
  BY DEF AskDeletion
<1>2. UNCHANGED <<sent, history, queryVars, panelVars, gone>> /\ historyActs' \in Nat
  BY DEF AskDeletion, HistoryAct, HistoryInv, HistoryTyped
<1>3. what = All \/ what \in Numbers
  <2>1. DOMAIN entries = 1 .. Len(entries)
    BY LenProperties DEF HistoryInv, HistoryTyped, IsPage
  <2> QED BY <1>1, <2>1 DEF Range, HistoryInv, HistoryTyped, IsPage
<1>4. PICK d : d = [id |-> historyActs, of |-> what, removed |-> {}, done |-> FALSE]
  OBVIOUS
<1>5. d \in Deletes /\ d.of = what /\ d.removed = {} /\ ~d.done
  BY <1>3, <1>4 DEF Deletes, HistoryInv, HistoryTyped, Numbers
<1>6. deletes' = deletes \cup {d}
  BY <1>1, <1>4
<1> QED BY <1>2, <1>3, <1>5, <1>6
     DEF HistoryInv, HistoryTyped, HistoryIsLeft, IsRemoved, FirstPage, ListFollows, Clean, IsPage, Numbers,
         queryVars, panelVars

LEMMA DeletedStep ==
  ASSUME HistoryInv, NEW d \in deletes, Deleted(d)
  PROVE  HistoryInv'
<1>1. /\ deletes' = deletes \ {d} /\ gone' = gone \cup d.removed
      /\ offset' = 0 /\ entries' = <<>> /\ UNCHANGED <<sent, history, cache, failed, historyActs, effectOf>>
  BY DEF Deleted, ReloadList
<1>2. /\ DOMAIN fetches' = Offsets
      /\ \A o \in Offsets : fetches'[o] = fetches[o] \/ fetches'[o] = Sent
      /\ fetches'[0] = Sent
  BY OffsetsTyped, HistoryAssumption DEF Deleted, ReloadList, Invalidate, HistoryInv, HistoryTyped, FirstPage
<1>3. HistoryTyped'
  <2>1. IsPage(entries)'
    BY <1>1 DEF IsPage
  <2>2. \A s : IsPage(s)' <=> IsPage(s)
    BY <1>1 DEF IsPage, Numbers
  <2>3. d.removed \subseteq Numbers
    BY DEF HistoryInv, HistoryTyped
  <2> QED BY <1>1, <1>2, <2>1, <2>2, <2>3, OffsetsTyped DEF HistoryInv, HistoryTyped, IsPage, Numbers
<1> QED BY <1>1, <1>2, <1>3, OffsetsTyped, HistoryAssumption
     DEF HistoryInv, HistoryIsLeft, IsRemoved, FirstPage, ListFollows, Clean

LEMMA DeleteLostStep ==
  ASSUME HistoryInv, NEW d \in deletes, DeleteLost(d)
  PROVE  HistoryInv'
BY DEF DeleteLost, HistoryInv, HistoryTyped, HistoryIsLeft, IsRemoved, FirstPage, ListFollows, Clean, IsPage, Numbers,
       queryVars, panelVars

LEMMA HistoryStep == HistoryInv /\ [HistoryNext]_historyVars => HistoryInv'
<1> SUFFICES ASSUME HistoryInv, [HistoryNext]_historyVars PROVE HistoryInv'
  OBVIOUS
<1>1. CASE UNCHANGED historyVars
  BY <1>1 DEF historyVars, HistoryInv, HistoryTyped, HistoryIsLeft, IsRemoved, FirstPage, ListFollows, Clean, IsPage,
              Numbers, queryVars, panelVars
<1>2. CASE HistoryNext
  BY <1>2, ListStep, DeleteStep, AddStep, FetchStep, EffectStep, LoadMoreStep, AskStep, DeletedStep, DeleteLostStep
     DEF HistoryNext
<1> QED BY <1>1, <1>2

(* An entry whose deletion was answered does not come back to the list,    *)
(* for any size of the pages, any number of entries, deletions and acts,   *)
(* and whatever fails.                                                     *)
THEOREM GoneIsGoneHolds == HistorySpec => []GoneIsGone
<1>1. HistoryInv => GoneIsGone
  BY OffsetsTyped DEF HistoryInv, HistoryTyped, FirstPage, ListFollows, Clean, GoneIsGone, Due
<1> QED BY <1>1, HistoryInitInv, HistoryStep, PTL DEF HistorySpec

-----------------------------------------------------------------------------
(***************************************************************************)
(* The pane of a collection or a folder.                                   *)
(***************************************************************************)
PaneScopes == {ScopeOf[t] : t \in PaneTabs}

PaneTyped ==
  /\ runs \in [Runs -> RunRecords \cup {Null}] /\ IsFiniteSet(Started)
  /\ DOMAIN streams \subseteq Started
  /\ \A p \in starts : p.scope \in PaneScopes
  /\ runSelectedRunId \in [PaneTabs -> Runs \cup {Null}]

(* What was started stays, with its collection and folder; so what a tab   *)
(* has selected is its own, and the active run is one that was started.    *)
SelectedIsOwn ==
  /\ activeRunId # Null => activeRunId \in Started
  /\ \A t \in PaneTabs : runSelectedRunId[t] # Null => runSelectedRunId[t] \in CollectionRuns(t)

PaneInv == PaneTyped /\ SelectedIsOwn

LEMMA PaneInitInv == PaneInit => PaneInv
<1> SUFFICES ASSUME PaneInit PROVE PaneInv
  OBVIOUS
<1>1. Started = {}
  BY DEF PaneInit, Started
<1>2. IsFiniteSet(Started)
  BY <1>1, FS_EmptySet
<1> QED BY <1>2 DEF PaneInit, PaneInv, PaneTyped, SelectedIsOwn

(* Steps that leave the runs alone.                                        *)
LEMMA SameRuns ==
  ASSUME PaneInv, UNCHANGED <<runs, activeRunId>>, DOMAIN streams' \subseteq DOMAIN streams,
         \A p \in starts' : p \in starts \/ p.scope \in PaneScopes,
         \/ runSelectedRunId' = runSelectedRunId
         \/ \E t \in PaneTabs : \E r \in CollectionRuns(t) :
           runSelectedRunId' = [runSelectedRunId EXCEPT ![t] = r]
  PROVE  PaneInv'
<1>1. Started' = Started /\ \A t : CollectionRuns(t)' = CollectionRuns(t)
  BY DEF Started, CollectionRuns
<1>2. \A t : CollectionRuns(t) \subseteq Runs
  BY DEF Started, CollectionRuns
<1>3. PaneTyped'
  BY <1>1, <1>2 DEF PaneInv, PaneTyped
<1>4. SelectedIsOwn'
  BY <1>1, <1>2 DEF PaneInv, PaneTyped, SelectedIsOwn
<1> QED BY <1>3, <1>4 DEF PaneInv

(* Steps that write a run, and keep the collection and folder of those     *)
(* that were started.                                                      *)
LEMMA RunWritten ==
  ASSUME PaneInv, NEW r \in Runs, NEW run \in RunRecords,
         runs' = [runs EXCEPT ![r] = run], runs[r] # Null => run.scope = runs[r].scope,
         activeRunId' = activeRunId \/ activeRunId' = r,
         DOMAIN streams' \subseteq DOMAIN streams \cup {r}, starts' \subseteq starts,
         runSelectedRunId' = runSelectedRunId
  PROVE  PaneInv'
<1>1. run # Null
  BY PaneTabsAssumption
<1>2. Started' = Started \cup {r}
  BY <1>1 DEF Started, PaneInv, PaneTyped
<1>3. IsFiniteSet(Started')
  BY <1>2, FS_AddElement DEF PaneInv, PaneTyped
<1>4. PaneTyped'
  BY <1>2, <1>3 DEF PaneInv, PaneTyped
<1>5. \A t : CollectionRuns(t) \subseteq CollectionRuns(t)'
  BY <1>2 DEF CollectionRuns, Started, PaneInv, PaneTyped
<1>6. SelectedIsOwn'
  BY <1>2, <1>5 DEF PaneInv, SelectedIsOwn
<1> QED BY <1>4, <1>6 DEF PaneInv

LEMMA SelectStep ==
  ASSUME PaneInv, AutoSelect \/ \E r \in Runs : SelectRun(r)
  PROVE  PaneInv'
<1>1. UNCHANGED <<starts, runs, activeRunId, streams>>
  BY DEF AutoSelect, SelectRun, runVars
<1>2. \/ runSelectedRunId' = runSelectedRunId
      \/ \E t \in PaneTabs : \E r \in CollectionRuns(t) :
           runSelectedRunId' = [runSelectedRunId EXCEPT ![t] = r]
  <2>1. CASE \E r \in Runs : SelectRun(r)
    BY <2>1 DEF SelectRun, RunsTab, OnPane
  <2>2. CASE AutoSelect /\ ActiveRunIsOwn /\ paneTabId \in PaneTabs
    <3>1. activeRunId \in CollectionRuns(paneTabId)
      BY <2>2 DEF ActiveRunIsOwn, PaneInv, SelectedIsOwn, CollectionRuns, PaneScope
    <3> QED BY <2>2, <3>1 DEF AutoSelect
  <2>3. CASE AutoSelect /\ ~(ActiveRunIsOwn /\ paneTabId \in PaneTabs)
    BY <2>3 DEF AutoSelect, PaneInv, PaneTyped
  <2> QED BY <2>1, <2>2, <2>3
<1> QED BY <1>1, <1>2, SameRuns

LEMMA HandleRunStep ==
  ASSUME PaneInv, HandleRun
  PROVE  PaneInv'
<1>1. PaneScope \in PaneScopes
  BY DEF HandleRun, RunsTab, OnPane, PaneScope, PaneScopes
<1> QED BY <1>1, SameRuns DEF HandleRun, paneTabVars, runVars

(* The steps of the user that are about other things.                      *)
LEMMA OtherStep ==
  ASSUME PaneInv,
         \/ \E t \in PaneTabs \cup OtherTabs : ShowPaneTab(t)
         \/ SetTabCollectionSubTab \/ EditCollection \/ OnOptsChange
         \/ \E e \in Environments : SetActiveEnvironment(e)
  PROVE  PaneInv'
<1>1. UNCHANGED <<runs, activeRunId, starts, runSelectedRunId>>
  BY DEF ShowPaneTab, SetTabCollectionSubTab, EditCollection, OnOptsChange, SetActiveEnvironment, paneTabVars,
         runVars
<1>2. DOMAIN streams' \subseteq DOMAIN streams
  BY DEF ShowPaneTab, Unmount, SetTabCollectionSubTab, EditCollection, OnOptsChange, SetActiveEnvironment,
         paneTabVars, runVars
<1> QED BY <1>1, <1>2, SameRuns

LEMMA StartStep ==
  ASSUME PaneInv, NEW p \in starts, RunAnswered(p) \/ NotStarted(p)
  PROVE  PaneInv'
<1>1. starts' \subseteq starts /\ runSelectedRunId' = runSelectedRunId
  BY DEF RunAnswered, NotStarted, StartEnds, paneTabVars
<1>2. CASE NotStarted(p)
  <2>1. UNCHANGED <<runs, activeRunId, streams>>
    BY <1>2 DEF NotStarted, runVars
  <2> QED BY <1>1, <2>1, SameRuns
<1>3. CASE RunAnswered(p)
  <2>1. PICK r : r = CHOOSE s \in Runs \ Started : \A other \in Runs \ Started : s <= other
    OBVIOUS
  <2>2. Runs \ Started # {} /\ StartRun(r, p.scope)
    BY <1>3, <2>1 DEF RunAnswered
  <2>3. r \in Runs \ Started
    <3>1. \E n \in Runs \ Started : \A m \in Runs \ Started : n <= m
      BY <2>2, PaneTabsAssumption, HasLeast
    <3> QED BY <2>1, <3>1
  <2>4. PICK run : run = [scope |-> p.scope, status |-> "running", events |-> 0]
    OBVIOUS
  <2>5. run \in RunRecords
    BY <2>4 DEF RunRecords, PaneInv, PaneTyped, PaneScopes
  <2>6. runs' = [runs EXCEPT ![r] = run] /\ activeRunId' = r /\ runs[r] = Null
    BY <2>2, <2>3, <2>4 DEF StartRun, Started
  <2>7. DOMAIN streams' \subseteq DOMAIN streams \cup {r}
    BY <1>3, <2>1 DEF RunAnswered, Stream
  <2> QED BY <1>1, <2>3, <2>5, <2>6, <2>7, RunWritten
<1> QED BY <1>2, <1>3

(* Only a run that was started has an open stream.                         *)
LEMMA StreamStep ==
  ASSUME PaneInv, NEW r \in Runs, OnEvent(r) \/ OnEnd(r)
  PROVE  PaneInv'
<1>1. runs[r] \in RunRecords
  BY DEF PaneInv, PaneTyped, Started, OnEvent, OnEnd
<1>2. PICK run \in RunRecords : runs' = [runs EXCEPT ![r] = run] /\ run.scope = runs[r].scope
  <2>1. CASE OnEvent(r)
    <3>1. PICK run : run = [runs[r] EXCEPT !.events = runs[r].events + 1]
      OBVIOUS
    <3>2. run \in RunRecords /\ run.scope = runs[r].scope
      BY <1>1, <3>1 DEF RunRecords
    <3>3. runs' = [runs EXCEPT ![r] = run]
      BY <2>1, <3>1 DEF OnEvent, AppendEvent
    <3> QED BY <3>2, <3>3
  <2>2. CASE OnEnd(r)
    BY <1>1, <2>2 DEF OnEnd, FinishRun, FailRun, RunRecords
  <2> QED BY <2>1, <2>2
<1>3. UNCHANGED <<starts, activeRunId, runSelectedRunId>>
  BY DEF OnEvent, OnEnd, paneTabVars
<1>4. DOMAIN streams' \subseteq DOMAIN streams \cup {r}
  BY DEF OnEvent, OnEnd
<1> QED BY <1>2, <1>3, <1>4, RunWritten

LEMMA PaneStep == PaneInv /\ [PaneNext]_paneVars => PaneInv'
<1> SUFFICES ASSUME PaneInv, [PaneNext]_paneVars PROVE PaneInv'
  OBVIOUS
<1>1. CASE UNCHANGED paneVars
  BY <1>1, SameRuns DEF paneVars, paneTabVars, runVars
<1>2. CASE PaneNext
  BY <1>2, SelectStep, HandleRunStep, OtherStep, StartStep, StreamStep DEF PaneNext, PaneUserAct, Agent
<1> QED BY <1>1, <1>2

(* A tab shows runs of its own collection and folder only, for any number  *)
(* of tabs and runs, whatever is started, selected and shown.              *)
THEOREM DisplayedRunIsOwnHolds == PaneSpec => []DisplayedRunIsOwn
<1>1. PaneInv => DisplayedRunIsOwn
  <2> SUFFICES ASSUME PaneInv, NEW t \in PaneTabs, DisplayRun(t) # Null
               PROVE  DisplayRun(t) \in CollectionRuns(t)
    BY DEF DisplayedRunIsOwn, CollectionRuns
  <2>1. CASE runSelectedRunId[t] # Null
    BY <2>1 DEF DisplayRun, PaneInv, SelectedIsOwn
  <2>2. CASE runSelectedRunId[t] = Null
    <3>1. PICK s : s = CollectionRuns(t)
      OBVIOUS
    <3>2. s # {} /\ DisplayRun(t) = Latest(s)
      BY <2>2, <3>1 DEF DisplayRun
    <3>3. s \in SUBSET Nat /\ IsFiniteSet(s)
      <4>1. s \subseteq Started /\ Started \subseteq Nat
        BY <3>1, PaneTabsAssumption DEF CollectionRuns, Started
      <4> QED BY <4>1, FS_Subset DEF PaneInv, PaneTyped
    <3>4. \E r \in s : \A other \in s : other <= r
      BY <3>2, <3>3, FiniteHasBounds
    <3>5. Latest(s) \in s
      BY <3>4 DEF Latest
    <3> QED BY <3>1, <3>2, <3>5
  <2> QED BY <2>1, <2>2
<1> QED BY <1>1, PaneInitInv, PaneStep, PTL DEF PaneSpec

-----------------------------------------------------------------------------
(***************************************************************************)
(* The settings dialog.                                                    *)
(***************************************************************************)
SettingsForms == [backend : BackendSettings, local : LocalSettings]
SettingsLoads == [id : Nat, local : LocalSettings, answer : BackendSettings \cup {NoForm}]
SettingsSaves == [id : Nat, form : SettingsForms, todo : SUBSET BackendKeys]

SettingsTyped ==
  /\ backend \in BackendSettings /\ local \in LocalSettings /\ form \in SettingsForms \cup {NoForm}
  /\ loads \subseteq SettingsLoads /\ saves \subseteq SettingsSaves /\ settingsActs \in Nat

(* The button is disabled while a save is under way.                       *)
OneSave == \A s, u \in saves : s = u

(* What the save under way has stored is still there.                      *)
StoredStays == \A s \in saves : \A k \in BackendKeys \ s.todo : backend[k] = s.form.backend[k]

SettingsInv == SettingsTyped /\ OneSave /\ StoredStays

(* What SaveIsWhole says of a step.                                        *)
WholeSave == local' # local => \E s \in saves : local' = s.form.local /\ backend = s.form.backend

LEMMA SettingsInvInit == SettingsInit => SettingsInv
BY DEF SettingsInit, SettingsInv, SettingsTyped, OneSave, StoredStays

(* The steps of the user, and of loads: no setting is stored.              *)
LEMMA SettingsUserStep ==
  ASSUME SettingsInv, OpenDialog \/ GeneralSection \/ ProxySection \/ Cancel
  PROVE  SettingsInv' /\ local' = local
<1>1. UNCHANGED <<backend, local, saves>>
  BY DEF OpenDialog, GeneralSection, ProxySection, Patch, Cancel
<1>2. settingsActs' \in Nat
  BY DEF SettingsInv, SettingsTyped, OpenDialog, GeneralSection, ProxySection, Patch, Cancel, SettingsAct
<1>3. loads' \subseteq SettingsLoads
  BY DEF SettingsInv, SettingsTyped, OpenDialog, GeneralSection, ProxySection, Patch, Cancel, SettingsLoads
<1>4. form' \in SettingsForms \cup {NoForm}
  <2>1. CASE OpenDialog \/ Cancel
    BY <2>1 DEF SettingsInv, SettingsTyped, OpenDialog, Cancel
  <2>2. CASE GeneralSection \/ ProxySection
    BY <2>2 DEF SettingsInv, SettingsTyped, GeneralSection, ProxySection, Patch, SettingsForms, BackendSettings, LocalSettings,
                BackendKeys
  <2> QED BY <2>1, <2>2
<1> QED BY <1>1, <1>2, <1>3, <1>4 DEF SettingsInv, SettingsTyped, OneSave, StoredStays

LEMMA SettingsLoadStep ==
  ASSUME SettingsInv, NEW l \in loads, LoadSettings(l) \/ Loaded(l) \/ LoadFails(l)
  PROVE  SettingsInv' /\ local' = local
<1>1. UNCHANGED <<backend, local, saves, settingsActs>>
  BY DEF LoadSettings, Loaded, LoadFails
<1>2. l \in SettingsLoads
  BY DEF SettingsInv, SettingsTyped
<1>3. loads' \subseteq SettingsLoads
  BY <1>2 DEF SettingsInv, SettingsTyped, LoadSettings, Loaded, LoadFails, SettingsLoads
<1>4. form' \in SettingsForms \cup {NoForm}
  BY <1>2 DEF SettingsInv, SettingsTyped, LoadSettings, Loaded, LoadFails, SettingsLoads, SettingsForms
<1> QED BY <1>1, <1>3, <1>4 DEF SettingsInv, SettingsTyped, OneSave, StoredStays

LEMMA HandleSaveStep ==
  ASSUME SettingsInv, HandleSave
  PROVE  SettingsInv' /\ local' = local
<1> DEFINE s == [id |-> settingsActs, form |-> form, todo |-> BackendKeys]
<1>1. /\ saves = {} /\ saves' = {s} /\ UNCHANGED <<backend, local, form, loads>>
      /\ settingsActs' \in Nat
  BY DEF SettingsInv, SettingsTyped, HandleSave, Saving, SettingsAct
<1>2. s \in SettingsSaves
  BY DEF SettingsInv, SettingsTyped, HandleSave, SettingsSaves
<1>3. StoredStays'
  BY <1>1 DEF StoredStays
<1> QED BY <1>1, <1>2, <1>3 DEF SettingsInv, SettingsTyped, OneSave

(* A key more, of the one save there is.                                   *)
LEMMA PutStep ==
  ASSUME SettingsInv, NEW s \in saves, PutSettings(s)
  PROVE  SettingsInv' /\ local' = local
<1>1. s \in SettingsSaves /\ saves = {s}
  BY DEF SettingsInv, SettingsTyped, OneSave
<1>2. PICK key \in s.todo :
        /\ backend' = [backend EXCEPT ![key] = s.form.backend[key]]
        /\ saves' = {[s EXCEPT !.todo = s.todo \ {key}]}
  BY <1>1 DEF PutSettings
<1>3. UNCHANGED <<local, form, loads, settingsActs>>
  BY DEF PutSettings
<1> DEFINE u == [s EXCEPT !.todo = s.todo \ {key}]
<1>4. key \in BackendKeys /\ u \in SettingsSaves /\ u.form = s.form /\ u.todo = s.todo \ {key}
  BY <1>1, <1>2 DEF SettingsSaves
<1>5. backend' \in BackendSettings
  BY <1>1, <1>2, <1>4 DEF SettingsInv, SettingsTyped, SettingsSaves, SettingsForms, BackendSettings
<1>6. \A k \in BackendKeys \ u.todo : backend'[k] = u.form.backend[k]
  BY <1>1, <1>2, <1>4 DEF SettingsInv, SettingsTyped, StoredStays, BackendSettings
<1>7. OneSave' /\ StoredStays'
  BY <1>2, <1>6 DEF OneSave, StoredStays
<1> QED BY <1>2, <1>3, <1>4, <1>5, <1>7 DEF SettingsInv, SettingsTyped

LEMMA SavedStep ==
  ASSUME SettingsInv, NEW s \in saves, Saved(s)
  PROVE  SettingsInv' /\ WholeSave
<1>1. s \in SettingsSaves /\ saves = {s} /\ s.todo = {}
  BY DEF SettingsInv, SettingsTyped, OneSave, Saved
<1>2. /\ saves' = {} /\ local' = s.form.local /\ UNCHANGED <<backend, loads, settingsActs>>
      /\ form' = IF form = NoForm THEN form ELSE [form EXCEPT !.backend = backend]
  BY <1>1 DEF Saved
<1>3. s.form \in SettingsForms
  BY <1>1 DEF SettingsSaves
<1>4. backend = s.form.backend
  <2>1. \A k \in BackendKeys : backend[k] = s.form.backend[k]
    BY <1>1 DEF SettingsInv, StoredStays
  <2>2. backend \in [BackendKeys -> SettingValues] /\ s.form.backend \in [BackendKeys -> SettingValues]
    BY <1>3 DEF SettingsInv, SettingsTyped, SettingsForms, BackendSettings
  <2> QED BY <2>1, <2>2
<1>5. SettingsTyped'
  BY <1>2, <1>3 DEF SettingsInv, SettingsTyped, SettingsForms
<1> QED BY <1>2, <1>4, <1>5 DEF SettingsInv, OneSave, StoredStays, WholeSave

LEMMA SaveFailsStep ==
  ASSUME SettingsInv, NEW s \in saves, SaveFails(s)
  PROVE  SettingsInv' /\ local' = local
BY DEF SettingsInv, SaveFails, SettingsTyped, OneSave, StoredStays

LEMMA SettingsStep == SettingsInv /\ [SettingsNext]_settingsVars => SettingsInv' /\ [WholeSave]_settingsVars
<1>1. SettingsInv /\ UNCHANGED settingsVars => SettingsInv'
  BY DEF SettingsInv, SettingsTyped, OneSave, StoredStays, settingsVars
<1> QED
  BY <1>1, SettingsUserStep, SettingsLoadStep, HandleSaveStep, PutStep, SavedStep, SaveFailsStep DEF SettingsNext, WholeSave

(* The browser's settings are only ever replaced by those of a form whose  *)
(* other half the agent holds at that moment, completely, whatever else    *)
(* was loaded, edited, cancelled or has failed.                            *)
THEOREM SaveIsWholeHolds == SettingsSpec => SaveIsWhole
<1>1. SettingsSpec => [][WholeSave]_settingsVars
  BY SettingsInvInit, SettingsStep, PTL DEF SettingsSpec
<1> QED BY <1>1 DEF SaveIsWhole, WholeSave

-----------------------------------------------------------------------------
(***************************************************************************)
(* The variables of scripts.                                               *)
(***************************************************************************)
LEMMA OverMaps ==
  ASSUME NEW m \in Maps, NEW n \in Maps
  PROVE  Over(m, n) \in Maps
<1>1. PICK c \in SUBSET ScriptKeys, d \in SUBSET ScriptKeys : m \in [c -> ScriptValues] /\ n \in [d -> ScriptValues]
  BY DEF Maps
<1>2. Over(m, n) \in [c \cup d -> ScriptValues]
  BY <1>1 DEF Over
<1>3. c \cup d \in SUBSET ScriptKeys
  BY <1>1
<1> QED BY <1>2, <1>3 DEF Maps

LEMMA SmallMaps == <<>> \in Maps /\ \A k \in ScriptKeys, v \in ScriptValues : [j \in {k} |-> v] \in Maps
<1>1. <<>> \in [{} -> ScriptValues]
  OBVIOUS
<1>2. \A k \in ScriptKeys, v \in ScriptValues : [j \in {k} |-> v] \in [{k} -> ScriptValues]
  OBVIOUS
<1>3. <<>> \in Maps
  <2>1. {} \in SUBSET ScriptKeys
    OBVIOUS
  <2> QED BY <1>1, <2>1 DEF Maps
<1>4. ASSUME NEW k \in ScriptKeys, NEW v \in ScriptValues PROVE [j \in {k} |-> v] \in Maps
  <2>1. {k} \in SUBSET ScriptKeys
    OBVIOUS
  <2>2. [j \in {k} |-> v] \in [{k} -> ScriptValues]
    BY <1>2
  <2> QED BY <2>1, <2>2 DEF Maps
<1> QED BY <1>3, <1>4

LEMMA RestrictedMaps ==
  ASSUME NEW m \in Maps, NEW S \in SUBSET DOMAIN m
  PROVE  Restrict(m, S) \in Maps /\ DOMAIN Restrict(m, S) = S /\ \A k \in S : Restrict(m, S)[k] = m[k]
<1>1. PICK d \in SUBSET ScriptKeys : m \in [d -> ScriptValues]
  BY DEF Maps
<1>2. S \in SUBSET ScriptKeys /\ Restrict(m, S) \in [S -> ScriptValues]
  BY <1>1 DEF Restrict
<1> QED BY <1>2 DEF Maps, Restrict

(* The first map of four that has a key.                                   *)
LEMMA FirstOfFour ==
  ASSUME NEW a, NEW b, NEW c, NEW d, NEW k
  PROVE  FirstOf(<<a, b, c, d>>, k) = IF k \in DOMAIN a THEN a[k] ELSE IF k \in DOMAIN b THEN b[k]
                                      ELSE IF k \in DOMAIN c THEN c[k] ELSE IF k \in DOMAIN d THEN d[k] ELSE NoValue
<1>1. PICK maps : maps = <<a, b, c, d>>
  OBVIOUS
<1>2. DOMAIN maps = 1 .. 4 /\ maps[1] = a /\ maps[2] = b /\ maps[3] = c /\ maps[4] = d
  BY <1>1
<1> DEFINE First(n) == k \in DOMAIN maps[n] /\ \A m \in 1 .. (n - 1) : k \notin DOMAIN maps[m]
<1>3. ASSUME NEW n \in 1 .. 4, First(n)
      PROVE  FirstOf(maps, k) = maps[n][k]
  <2>1. \A m \in 1 .. 4 : First(m) => m = n
    BY <1>3
  <2>2. (CHOOSE m \in DOMAIN maps : First(m)) = n
    BY <1>2, <1>3, <2>1
  <2> QED BY <1>2, <1>3, <2>2 DEF FirstOf
<1>4. (\A n \in 1 .. 4 : k \notin DOMAIN maps[n]) => FirstOf(maps, k) = NoValue
  BY <1>2 DEF FirstOf
<1>5. /\ k \in DOMAIN a => First(1)
      /\ k \notin DOMAIN a /\ k \in DOMAIN b => First(2)
      /\ k \notin DOMAIN a /\ k \notin DOMAIN b /\ k \in DOMAIN c => First(3)
      /\ k \notin DOMAIN a /\ k \notin DOMAIN b /\ k \notin DOMAIN c /\ k \in DOMAIN d => First(4)
  BY <1>2
<1>6. \A n \in 1 .. 4 : n = 1 \/ n = 2 \/ n = 3 \/ n = 4
  OBVIOUS
<1> HIDE DEF First
<1> QED BY <1>1, <1>2, <1>3, <1>4, <1>5, <1>6

(* The script's copy of the data row is the row without some columns.      *)
DataIsRow ==
  DOMAIN iterationData \subseteq DOMAIN dataRow /\ \A k \in DOMAIN iterationData : iterationData[k] = dataRow[k]

ScriptsInv == ScriptsTypeOK /\ DataIsRow

LEMMA NoMapsTyped == NoMaps \in [Scopes -> Maps]
BY SmallMaps DEF NoMaps

LEMMA ScriptsInitInv == ScriptsInit => ScriptsInv
BY NoMapsTyped DEF ScriptsInit, ScriptsInv, ScriptsTypeOK, DataIsRow

LEMMA PmCallStep ==
  ASSUME ScriptsInv, PmCall
  PROVE  ScriptsInv'
<1>1. UNCHANGED <<event, given, dataRow, preResult, answer>>
  BY DEF PmCall
<1>2. mutations' \in [Scopes -> Maps] /\ (iterationData' = iterationData \/ \E k : UnsetData(k))
  <2>1. ASSUME NEW s \in Scopes, NEW k \in ScriptKeys, NEW v \in ScriptValues, Set(s, k, v)
        PROVE  mutations' \in [Scopes -> Maps] /\ iterationData' = iterationData
    <3>1. mutations[s] \in Maps /\ [j \in {k} |-> v] \in Maps
      BY SmallMaps DEF ScriptsInv, ScriptsTypeOK
    <3>2. Over([j \in {k} |-> v], mutations[s]) \in Maps
      BY <3>1, OverMaps
    <3> QED BY <2>1, <3>2 DEF Set, ScriptsInv, ScriptsTypeOK
  <2>2. ASSUME NEW s \in Scopes, NEW k \in ScriptKeys, Unset(s, k)
        PROVE  mutations' \in [Scopes -> Maps] /\ iterationData' = iterationData
    <3>1. mutations[s] \in Maps
      BY DEF ScriptsInv, ScriptsTypeOK
    <3>2. Restrict(mutations[s], DOMAIN mutations[s] \ {k}) \in Maps
      BY <3>1, RestrictedMaps
    <3> QED BY <2>2, <3>2 DEF Unset, ScriptsInv, ScriptsTypeOK
  <2>3. ASSUME NEW s \in Scopes, Clear(s)
        PROVE  mutations' \in [Scopes -> Maps] /\ iterationData' = iterationData
    BY <2>3, SmallMaps DEF Clear, ScriptsInv, ScriptsTypeOK
  <2>4. "collectionVariables" \in Scopes
    BY DEF Scopes
  <2> QED BY <2>1, <2>2, <2>3, <2>4 DEF PmCall, VariablesSet, UnsetData, ScriptsInv, ScriptsTypeOK
<1>3. iterationData' \in Maps /\ DataIsRow'
  <2>1. CASE iterationData' = iterationData
    BY <1>1, <2>1 DEF ScriptsInv, ScriptsTypeOK, DataIsRow
  <2>2. ASSUME NEW k, UnsetData(k)
        PROVE  iterationData' \in Maps /\ DataIsRow'
    <3>1. PICK S \in SUBSET DOMAIN iterationData : iterationData' = Restrict(iterationData, S)
      BY <2>2 DEF UnsetData
    <3>2. iterationData \in Maps
      BY DEF ScriptsInv, ScriptsTypeOK
    <3>3. iterationData' \in Maps /\ DOMAIN iterationData' = S /\ \A x \in S : iterationData'[x] = iterationData[x]
      BY <3>1, <3>2, RestrictedMaps
    <3> QED BY <1>1, <3>3 DEF ScriptsInv, DataIsRow
  <2> QED BY <1>2, <2>1, <2>2
<1> QED BY <1>1, <1>2, <1>3 DEF ScriptsInv, ScriptsTypeOK

LEMMA MergedTyped ==
  ASSUME NEW pre \in [Scopes -> Maps], NEW test \in [Scopes -> Maps]
  PROVE  MergeMutations(pre, test) \in [Scopes -> Maps]
BY OverMaps DEF MergeMutations

LEMMA ReturnStep ==
  ASSUME ScriptsInv, NEW left \in [Scopes -> Maps], PreRequestReturns(left) \/ TestReturns(left)
  PROVE  ScriptsInv'
<1>1. /\ MergeMutations(given, left) \in [Scopes -> Maps]
      /\ MergeMutations(preResult, left) \in [Scopes -> Maps]
  BY MergedTyped DEF ScriptsInv, ScriptsTypeOK
<1> QED BY <1>1 DEF ScriptsInv, ScriptsTypeOK, DataIsRow, PreRequestReturns, TestReturns

LEMMA ScriptsStep == ScriptsInv /\ [ScriptsNext]_scriptVars => ScriptsInv'
<1> SUFFICES ASSUME ScriptsInv, [ScriptsNext]_scriptVars PROVE ScriptsInv'
  OBVIOUS
<1>1. CASE UNCHANGED scriptVars
  BY <1>1 DEF scriptVars, ScriptsInv, ScriptsTypeOK, DataIsRow
<1>2. CASE ScriptsNext
  <2>1. mutations \in [Scopes -> Maps]
    BY DEF ScriptsInv, ScriptsTypeOK
  <2> QED BY <1>2, <2>1, NoMapsTyped, PmCallStep, ReturnStep DEF ScriptsNext, ScriptReturns, ScriptTimesOut
<1> QED BY <1>1, <1>2

-----------------------------------------------------------------------------
(* All views a script has of a variable are of one state, for any keys and *)
(* values, after any calls of the pm object and in both scripts.           *)
THEOREM ViewsAgreeHolds == ScriptsSpec => []ViewsAgree
<1>1. ScriptsInv => ViewsAgree
  <2> SUFFICES ASSUME ScriptsInv, NEW k \in ScriptKeys
               PROVE  /\ VariablesGet(k) = Get(VariablesToObject, k)
                      /\ VariablesHas(k) <=> VariablesGet(k) # NoValue
                      /\ VariablesGet(k) = Interpolate(k) \/ k \in DOMAIN dataRow \ DOMAIN iterationData
    BY DEF ViewsAgree
  <2>1. PICK i \in Maps, e \in Maps, c \in Maps, g \in Maps :
          /\ i = iterationData /\ e = mutations["environment"] /\ c = mutations["collectionVariables"]
          /\ g = mutations["globals"]
    BY DEF ScriptsInv, ScriptsTypeOK, Scopes
  <2>2. VariablesGet(k) = IF k \in DOMAIN i THEN i[k] ELSE IF k \in DOMAIN e THEN e[k]
                          ELSE IF k \in DOMAIN c THEN c[k] ELSE IF k \in DOMAIN g THEN g[k] ELSE NoValue
    BY <2>1, FirstOfFour DEF VariablesGet
  <2>3. Interpolate(k) = IF k \in DOMAIN dataRow THEN dataRow[k] ELSE IF k \in DOMAIN e THEN e[k]
                         ELSE IF k \in DOMAIN c THEN c[k] ELSE IF k \in DOMAIN g THEN g[k] ELSE NoValue
    BY <2>1, FirstOfFour DEF Interpolate
  <2>4. VariablesToObject = Over(i, Over(e, Over(c, g)))
    BY <2>1 DEF VariablesToObject
  <2>5. VariablesGet(k) = Get(VariablesToObject, k)
    BY <2>2, <2>4 DEF Get, Over
  <2>6. \A m \in Maps : k \in DOMAIN m => m[k] # NoValue
    BY ScriptsAssumption DEF Maps
  <2>7. VariablesHas(k) <=> k \in DOMAIN i \cup DOMAIN e \cup DOMAIN c \cup DOMAIN g
    BY <2>1 DEF VariablesHas, Scopes
  <2>8. VariablesHas(k) <=> VariablesGet(k) # NoValue
    BY <2>2, <2>6, <2>7
  <2>9. VariablesGet(k) = Interpolate(k) \/ k \in DOMAIN dataRow \ DOMAIN iterationData
    BY <2>1, <2>2, <2>3 DEF ScriptsInv, DataIsRow
  <2> QED BY <2>5, <2>8, <2>9
<1> QED BY <1>1, ScriptsInitInv, ScriptsStep, PTL DEF ScriptsSpec

(* What the last script that returned has in its variables is what the     *)
(* answer brings, and beyond that it has what the script before it left.   *)
THEOREM AnswerIsLastViewHolds == ScriptsSpec => AnswerIsLastView
<1> DEFINE Brings(left) ==
      \A s \in Scopes :
        /\ \A k \in DOMAIN left[s] : Get(answer'[s], k) = left[s][k]
        /\ \A k \in DOMAIN answer'[s] \ DOMAIN left[s] : Get(preResult[s], k) = answer'[s][k]
    Whole == event = "test" /\ event' = "done" => \A left \in {mutations, NoMaps} : TestReturns(left) => Brings(left)
<1>1. ASSUME NEW left, TestReturns(left)
      PROVE  Brings(left)
  <2>1. \A s \in Scopes : answer'[s] = Over(left[s], preResult[s])
    BY <1>1 DEF TestReturns, MergeMutations
  <2> QED BY <2>1 DEF Get, Over
<1>2. Whole
  BY <1>1
<1>3. ScriptsSpec => [][Whole]_scriptVars
  BY <1>2, PTL DEF ScriptsSpec
<1> QED BY <1>3 DEF AnswerIsLastView

-----------------------------------------------------------------------------
(***************************************************************************)
(* The variables a request sees, and what its scripts leave of them.       *)
(***************************************************************************)
FiniteKeys == {K \in SUBSET Keys : IsFiniteSet(K)}
VarMaps == UNION {[K -> Values \cup {Empty}] : K \in FiniteKeys}
VarsSeen == UNION {[O -> VarMaps] : O \in SUBSET Owners}

\* A sequence that lists a finite set.
LEMMA Listed ==
  ASSUME NEW S, IsFiniteSet(S)
  PROVE  /\ SetToSeq(S) \in Seq(S)
         /\ \A x \in S : \E n \in DOMAIN SetToSeq(S) : SetToSeq(S)[n] = x
<1> DEFINE c == Cardinality(S)
           f == SetToSeq(S)
<1>1. c \in Nat /\ ExistsBijection(1 .. c, S)
  BY FS_CardinalityType
<1> HIDE DEF c
<1>2. \E g \in [1 .. c -> S] : IsInjective(g)
  BY <1>1 DEF ExistsBijection, Bijection, Injection, IsInjective
<1>3. f \in [1 .. c -> S] /\ IsInjective(f)
  BY <1>2 DEF SetToSeq, c
<1> HIDE DEF f
<1>4. f \in Injection(1 .. c, S)
  BY <1>3 DEF Injection, IsInjective
<1>5. Cardinality(1 .. c) = Cardinality(S)
  BY <1>1, FS_Interval DEF c
<1>6. f \in Surjection(1 .. c, S)
  BY <1>4, <1>5, FS_Injection
<1>7. f \in Seq(S)
  BY <1>1, <1>3, SeqDef
<1>8. \A x \in S : \E n \in DOMAIN f : f[n] = x
  BY <1>3, <1>6 DEF Surjection
<1> QED BY <1>7, <1>8 DEF f

\* What patchVarList makes of the rows of an owner.
IsPatched(q, s, map) ==
  /\ q \in Seq(Row) /\ Len(s) <= Len(q)
  /\ \A n \in 1 .. Len(s) :
       q[n] = IF s[n].key \in DOMAIN map /\ IsFirst(s, n) THEN PatchRow(s[n], map[s[n].key]) ELSE s[n]
  /\ \A n \in 1 .. Len(q) : n \in 1 .. Len(s) \/ \E k \in Missing(s, map) : q[n] = NewRow(k, map[k])
  /\ \A k \in Missing(s, map) : \E n \in 1 .. Len(q) : q[n] = NewRow(k, map[k])

LEMMA MapShape ==
  ASSUME NEW map \in VarMaps
  PROVE  /\ DOMAIN map \subseteq Keys /\ IsFiniteSet(DOMAIN map)
         /\ \A k \in DOMAIN map : map[k] \in Values \cup {Empty}
BY DEF VarMaps, FiniteKeys

LEMMA RowsPatched ==
  ASSUME NEW s \in Seq(Row), NEW map \in VarMaps
  PROVE  IsPatched(PatchVarList(s, map), s, map)
<1>1. PICK missing : missing = SetToSeq(Missing(s, map))
  OBVIOUS
<1>2. PICK old : old = [n \in DOMAIN s |-> IF s[n].key \in DOMAIN map /\ IsFirst(s, n)
                                           THEN PatchRow(s[n], map[s[n].key]) ELSE s[n]]
  OBVIOUS
<1>3. PICK new : new = [n \in DOMAIN missing |-> NewRow(missing[n], map[missing[n]])]
  OBVIOUS
<1>4. PICK q : q = old \o new
  OBVIOUS
<1>5. PatchVarList(s, map) = q
  BY <1>1, <1>2, <1>3, <1>4 DEF PatchVarList
<1>6. DOMAIN map \subseteq Keys /\ \A k \in DOMAIN map : map[k] \in Values \cup {Empty}
  BY MapShape
<1>7. missing \in Seq(Missing(s, map)) /\ \A k \in Missing(s, map) : \E n \in DOMAIN missing : missing[n] = k
  <2>1. IsFiniteSet(Missing(s, map))
    BY MapShape, FS_Subset DEF Missing
  <2> QED BY <1>1, <2>1, Listed
<1>8. PICK k \in Nat : k = Len(s)
  BY LenProperties
<1>9. DOMAIN s = 1 .. k /\ \A n \in 1 .. k : s[n] \in Row
  BY <1>8, LenProperties, ElementOfSeq
<1>10. old \in Seq(Row) /\ Len(old) = k
  <2>1. ASSUME NEW r \in Row, NEW v \in Values \cup {Empty} PROVE PatchRow(r, v) \in Row
    BY DEF Row, PatchRow
  <2>2. old \in [1 .. k -> Row]
    BY <1>2, <1>6, <1>9, <2>1
  <2> QED BY <2>2, SeqDef, LenProperties
<1>11. PICK j \in Nat : j = Len(missing)
  BY <1>7, LenProperties
<1>12. DOMAIN missing = 1 .. j /\ \A n \in 1 .. j : missing[n] \in Missing(s, map)
  BY <1>7, <1>11, LenProperties, ElementOfSeq
<1>13. new \in Seq(Row) /\ Len(new) = j
  <2>1. ASSUME NEW x \in Missing(s, map) PROVE NewRow(x, map[x]) \in Row
    BY <1>6 DEF Row, NewRow, Missing
  <2>2. new \in [1 .. j -> Row]
    BY <1>3, <1>12, <2>1
  <2> QED BY <2>2, SeqDef, LenProperties
<1>14. IsRow(q, Row, old, new)
  BY <1>4, <1>10, <1>13, InARow
<1>15. /\ q \in Seq(Row) /\ Len(q) = k + j
       /\ \A n \in 1 .. k + j : q[n] = IF n <= k THEN old[n] ELSE new[n - k]
  BY <1>10, <1>13, <1>14 DEF IsRow
<1>16. \A n \in 1 .. k : q[n] = old[n]
  BY <1>15
<1>17. ASSUME NEW n \in 1 .. Len(q), n \notin 1 .. Len(s)
       PROVE  \E x \in Missing(s, map) : q[n] = NewRow(x, map[x])
  <2>1. n - k \in 1 .. j /\ q[n] = new[n - k]
    BY <1>8, <1>15, <1>17
  <2> QED BY <1>3, <1>12, <2>1
<1>18. ASSUME NEW x \in Missing(s, map)
       PROVE  \E n \in 1 .. Len(q) : q[n] = NewRow(x, map[x])
  <2>1. PICK n \in 1 .. j : missing[n] = x
    BY <1>7, <1>12
  <2>2. k + n \in 1 .. Len(q) /\ q[k + n] = new[n]
    BY <1>15, <2>1
  <2> QED BY <1>3, <1>12, <2>1, <2>2
<1>19. \A n \in 1 .. Len(s) :
         q[n] = IF s[n].key \in DOMAIN map /\ IsFirst(s, n) THEN PatchRow(s[n], map[s[n].key]) ELSE s[n]
  BY <1>2, <1>8, <1>9, <1>16
<1>20. q \in Seq(Row) /\ Len(s) <= Len(q)
  BY <1>8, <1>15
<1>21. \A n \in 1 .. Len(q) : n \in 1 .. Len(s) \/ \E x \in Missing(s, map) : q[n] = NewRow(x, map[x])
  BY <1>17
<1>22. IsPatched(q, s, map)
  BY <1>18, <1>19, <1>20, <1>21, Zenon DEF IsPatched
<1> QED BY <1>5, <1>22

Counting(s, k) == {n \in DOMAIN s : Counts(s[n]) /\ s[n].key = k}

\* The row a request sees of a key is the last one that counts.
LEMMA ScopeMapShape ==
  ASSUME NEW s \in Seq(Row)
  PROVE  /\ ScopeMap(s) \in VarMaps
         /\ DOMAIN ScopeMap(s) = {s[n].key : n \in {m \in DOMAIN s : Counts(s[m])}}
         /\ \A k \in DOMAIN ScopeMap(s) : \E n \in Counting(s, k) : ScopeMap(s)[k] = ValueOf(s[n])
<1>1. PICK l \in Nat : l = Len(s)
  BY LenProperties
<1>2. DOMAIN s = 1 .. l /\ \A n \in 1 .. l : s[n] \in Row
  BY <1>1, LenProperties, ElementOfSeq
<1>3. PICK C : C = {m \in DOMAIN s : Counts(s[m])}
  OBVIOUS
<1>4. C \subseteq 1 .. l /\ IsFiniteSet(C)
  BY <1>2, <1>3, FS_Interval, FS_Subset
<1>5. PICK K : K = {s[n].key : n \in C}
  OBVIOUS
<1>6. K \in FiniteKeys
  <2>1. [n \in C |-> s[n].key] \in Surjection(C, K)
    BY <1>5 DEF Surjection
  <2>2. IsFiniteSet(K)
    BY <1>4, <2>1, FS_Surjection
  <2>3. K \subseteq Keys
    BY <1>2, <1>3, <1>5 DEF Counts, Row
  <2> QED BY <2>2, <2>3 DEF FiniteKeys
<1>7. PICK map : map = ScopeMap(s)
  OBVIOUS
<1>8. map = [k \in K |-> ValueOf(s[CHOOSE n \in DOMAIN s :
                 /\ Counts(s[n]) /\ s[n].key = k
                 /\ \A m \in DOMAIN s : Counts(s[m]) /\ s[m].key = k => m <= n])]
  BY <1>3, <1>5, <1>7 DEF ScopeMap
<1>9. ASSUME NEW k \in K
      PROVE  \E n \in Counting(s, k) : map[k] = ValueOf(s[n])
  <2>1. Counting(s, k) \in SUBSET Nat /\ IsFiniteSet(Counting(s, k)) /\ Counting(s, k) # {}
    <3>1. Counting(s, k) \subseteq 1 .. l
      BY <1>2 DEF Counting
    <3>2. Counting(s, k) # {}
      BY <1>3, <1>5, <1>9 DEF Counting
    <3>3. IsFiniteSet(1 .. l) /\ 1 .. l \subseteq Nat
      BY FS_Interval
    <3> QED BY <3>1, <3>2, <3>3, FS_Subset
  <2>2. \E n \in Counting(s, k) : \A m \in Counting(s, k) : m <= n
    BY <2>1, FiniteHasBounds
  <2>3. PICK n : n = CHOOSE j \in DOMAIN s :
                 /\ Counts(s[j]) /\ s[j].key = k
                 /\ \A m \in DOMAIN s : Counts(s[m]) /\ s[m].key = k => m <= j
    OBVIOUS
  <2>4. n \in DOMAIN s /\ Counts(s[n]) /\ s[n].key = k
    BY <2>2, <2>3 DEF Counting
  <2> QED BY <1>8, <2>3, <2>4 DEF Counting
<1>10. \A r \in Row : ValueOf(r) \in Values \cup {Empty}
  BY DEF Row, ValueOf
<1>11. \A k \in K : map[k] \in Values \cup {Empty}
  BY <1>2, <1>9, <1>10 DEF Counting
<1>12. map \in [K -> Values \cup {Empty}]
  BY <1>8, <1>11
<1>13. map \in VarMaps
  BY <1>6, <1>12 DEF VarMaps
<1>14. DOMAIN map = K
  BY <1>8
<1>15. map \in VarMaps /\ DOMAIN map = {s[n].key : n \in {m \in DOMAIN s : Counts(s[m])}}
  BY <1>3, <1>5, <1>13, <1>14
<1>16. \A k \in DOMAIN map : \E n \in Counting(s, k) : map[k] = ValueOf(s[n])
  BY <1>9, <1>14
<1> QED BY <1>7, <1>15, <1>16

SendTyped(m) ==
  /\ m.variables \in VarsSeen
  /\ DOMAIN m.variables \subseteq {Globals, m.env, m.coll}

RowsTyped == owners \subseteq Owners /\ rows \in [Owners -> Seq(Row)]
SendsTyped == sends \in Seq({sends[n] : n \in DOMAIN sends}) /\ \A n \in DOMAIN sends : SendTyped(sends[n])
VariablesInv == RowsTyped /\ SendsTyped

LEMMA SeenTyped ==
  ASSUME RowsTyped, NEW env, NEW coll
  PROVE  Scope(env, coll) \in VarsSeen /\ DOMAIN Scope(env, coll) \subseteq {Globals, env, coll}
<1>1. InScope(env, coll) \in SUBSET Owners
  BY DEF InScope, Owners, RowsTyped
<1>2. \A o \in Owners : ScopeMap(rows[o]) \in VarMaps
  BY ScopeMapShape DEF RowsTyped
<1>3. Scope(env, coll) \in [InScope(env, coll) -> VarMaps]
  BY <1>1, <1>2 DEF Scope
<1>4. DOMAIN Scope(env, coll) \subseteq {Globals, env, coll}
  BY DEF Scope, InScope
<1> QED BY <1>1, <1>3, <1>4 DEF VarsSeen

LEMMA LeftTyped ==
  ASSUME NEW m, m.variables \in VarsSeen, NEW left \in ScriptLeft(m)
  PROVE  left \in VarsSeen /\ DOMAIN left = DOMAIN m.variables
<1>1. PICK v : v = m.variables
  OBVIOUS
<1>2. PICK O \in SUBSET Owners : v \in [O -> VarMaps]
  BY <1>1 DEF VarsSeen
<1>3. ASSUME NEW o \in O, NEW map \in VarMaps
      PROVE  [v EXCEPT ![o] = map] \in VarsSeen /\ DOMAIN [v EXCEPT ![o] = map] = O
  BY <1>2 DEF VarsSeen
<1>4. ASSUME NEW map \in VarMaps, NEW key \in Keys, NEW w \in Values
      PROVE  SetKey(map, key, w) \in VarMaps
  <2>1. DOMAIN map \cup {key} \in FiniteKeys
    BY MapShape, FS_AddElement DEF FiniteKeys
  <2>2. SetKey(map, key, w) \in [DOMAIN map \cup {key} -> Values \cup {Empty}]
    BY MapShape DEF SetKey, UnsetKey
  <2> QED BY <2>1, <2>2 DEF VarMaps
<1>5. ASSUME NEW map \in VarMaps, NEW key \in Keys
      PROVE  UnsetKey(map, key) \in VarMaps
  <2>1. DOMAIN map \ {key} \in FiniteKeys
    BY MapShape, FS_RemoveElement DEF FiniteKeys
  <2>2. UnsetKey(map, key) \in [DOMAIN map \ {key} -> Values \cup {Empty}]
    BY MapShape DEF SetKey, UnsetKey
  <2> QED BY <2>1, <2>2 DEF VarMaps
<1>6. CASE left = m.variables
  BY <1>1, <1>2, <1>6
<1>7. CASE \E o \in DOMAIN v, key \in Keys, w \in Values :
             left = [v EXCEPT ![o] = SetKey(@, key, w)]
  <2>1. PICK o \in DOMAIN v, key \in Keys, w \in Values :
             left = [v EXCEPT ![o] = SetKey(@, key, w)]
    BY <1>7
  <2>2. v[o] \in VarMaps /\ o \in O
    BY <1>2
  <2>3. PICK map : map = SetKey(v[o], key, w)
    OBVIOUS
  <2>4. map \in VarMaps
    BY <1>4, <2>2, <2>3
  <2>5. left = [v EXCEPT ![o] = map]
    BY <2>1, <2>3
  <2> QED BY <1>1, <1>2, <1>3, <2>2, <2>4, <2>5
<1>8. CASE \E o \in DOMAIN v, key \in Keys : left = [v EXCEPT ![o] = UnsetKey(@, key)]
  <2>1. PICK o \in DOMAIN v, key \in Keys : left = [v EXCEPT ![o] = UnsetKey(@, key)]
    BY <1>8
  <2>2. v[o] \in VarMaps /\ o \in O
    BY <1>2
  <2>3. PICK map : map = UnsetKey(v[o], key)
    OBVIOUS
  <2>4. map \in VarMaps
    BY <1>5, <2>2, <2>3
  <2>5. left = [v EXCEPT ![o] = map]
    BY <2>1, <2>3
  <2> QED BY <1>1, <1>2, <1>3, <2>2, <2>4, <2>5
<1>9. \/ left = v
      \/ \E o \in DOMAIN v, key \in Keys, w \in Values :
             left = [v EXCEPT ![o] = SetKey(@, key, w)]
      \/ \E o \in DOMAIN v, key \in Keys : left = [v EXCEPT ![o] = UnsetKey(@, key)]
  BY <1>1 DEF ScriptLeft
<1> QED BY <1>1, <1>6, <1>7, <1>8, <1>9

\* A send more, and one less.
LEMMA SendAdded ==
  ASSUME SendsTyped, NEW m, SendTyped(m), sends' = Append(sends, m)
  PROVE  SendsTyped'
<1> DEFINE T == {sends[n] : n \in DOMAIN sends}
           U == T \cup {m}
<1>1. sends \in Seq(U) /\ m \in U
  BY SeqMonotonic DEF SendsTyped
<1>2. \A x \in U : SendTyped(x)
  BY DEF SendsTyped
<1> HIDE DEF U
<1>3. sends' \in Seq(U)
  BY <1>1, AppendProperties
<1>4. \A n \in DOMAIN sends' : sends'[n] \in U
  BY <1>3, LenProperties, ElementOfSeq
<1>5. \A n \in DOMAIN sends' : SendTyped(sends'[n])
  BY <1>2, <1>4
<1>6. sends' \in Seq({sends'[n] : n \in DOMAIN sends'})
  BY <1>3, OwnRange
<1> QED BY <1>5, <1>6 DEF SendsTyped, SendTyped

LEMMA SendGone ==
  ASSUME SendsTyped, NEW n \in DOMAIN sends, sends' = RemoveAt(sends, n)
  PROVE  SendsTyped'
<1> DEFINE T == {sends[i] : i \in DOMAIN sends}
<1>1. sends \in Seq(T) /\ \A x \in T : SendTyped(x)
  BY DEF SendsTyped
<1> HIDE DEF T
<1>2. n \in 1 .. Len(sends)
  BY <1>1, LenProperties
<1>3. sends' \in Seq(T)
  BY <1>1, <1>2, Removed DEF IsWithout
<1>4. \A i \in DOMAIN sends' : sends'[i] \in T
  BY <1>3, LenProperties, ElementOfSeq
<1>5. \A i \in DOMAIN sends' : SendTyped(sends'[i])
  BY <1>1, <1>4
<1>6. sends' \in Seq({sends'[i] : i \in DOMAIN sends'})
  BY <1>3, OwnRange
<1> QED BY <1>5, <1>6 DEF SendsTyped, SendTyped

LEMMA SameSends == ASSUME SendsTyped, sends' = sends PROVE SendsTyped'
BY DEF SendsTyped, SendTyped

\* What an answer writes.
IsWritten(m, left) ==
  /\ owners' = owners
  /\ DOMAIN left \subseteq {Globals, m.env, m.coll}
  /\ \A o \in Owners :
       IF o \in owners \cap DOMAIN left
       THEN left[o] \in VarMaps /\ IsPatched(rows'[o], rows[o], left[o])
       ELSE rows'[o] = rows[o]

LEMMA AnswerWrites ==
  ASSUME RowsTyped, NEW m, SendTyped(m), NEW left \in ScriptLeft(m), Apply(left)
  PROVE  RowsTyped' /\ IsWritten(m, left)
<1>1. left \in VarsSeen /\ DOMAIN left \subseteq {Globals, m.env, m.coll}
  BY LeftTyped DEF SendTyped
<1>2. \A o \in DOMAIN left : left[o] \in VarMaps
  BY <1>1 DEF VarsSeen
<1>3. owners' = owners /\ \A o \in Owners : rows[o] \in Seq(Row)
  BY DEF Apply, RowsTyped
<1>4. rows' = [o \in Owners |-> IF o \in owners \cap DOMAIN left
                               THEN PatchVarList(rows[o], left[o]) ELSE rows[o]]
  BY DEF Apply
<1>5. \A o \in Owners : IF o \in owners \cap DOMAIN left
                        THEN rows'[o] = PatchVarList(rows[o], left[o]) ELSE rows'[o] = rows[o]
  BY <1>4
<1>6. \A o \in Owners : o \in owners \cap DOMAIN left => IsPatched(rows'[o], rows[o], left[o])
  BY <1>2, <1>3, <1>5, RowsPatched
<1>7. \A o \in Owners : rows'[o] \in Seq(Row)
  BY <1>3, <1>5, <1>6 DEF IsPatched
<1>8. rows' \in [Owners -> Seq(Row)]
  BY <1>4, <1>7
<1> QED BY <1>1, <1>2, <1>3, <1>5, <1>6, <1>8 DEF RowsTyped, IsWritten

\* What a script has set counts, if the key had one row that counts or none.
LEMMA PatchedIsSeen ==
  ASSUME NEW s \in Seq(Row), NEW map \in VarMaps, NEW q, IsPatched(q, s, map),
         NEW k \in DOMAIN map, map[k] # Empty,
         \/ \A n \in DOMAIN s : s[n].key # k
         \/ \E m \in DOMAIN s : s[m].enabled /\ \A n \in DOMAIN s : s[n].key = k <=> n = m
  PROVE  ScopeMap(q)[k] = map[k]
<1>1. DOMAIN s = 1 .. Len(s) /\ DOMAIN q = 1 .. Len(q) /\ Len(s) <= Len(q) /\ Len(s) \in Nat /\ Len(q) \in Nat
  BY LenProperties DEF IsPatched
<1>2. k \in Keys /\ k # Empty
  BY MapShape, ScopesAssumption
<1>3. \A n \in 1 .. Len(s) : s[n] \in Row
  BY ElementOfSeq
<1>4. \A n \in 1 .. Len(s) :
        q[n] = IF s[n].key \in DOMAIN map /\ IsFirst(s, n) THEN PatchRow(s[n], map[s[n].key]) ELSE s[n]
  BY DEF IsPatched
<1>5. \A n \in 1 .. Len(s) : q[n].key = s[n].key /\ q[n].enabled = s[n].enabled
  BY <1>3, <1>4 DEF Row, PatchRow
<1>6. ASSUME NEW n \in 1 .. Len(q), q[n].key = k
      PROVE  q[n].currentValue = map[k]
  <2>1. CASE n \in 1 .. Len(s)
    <3>1. s[n].key = k
      BY <1>5, <1>6, <2>1
    <3>2. \A i \in DOMAIN s : s[i].key = k => i = n
      BY <1>1, <2>1, <3>1
    <3>3. IsFirst(s, n)
      BY <1>1, <2>1, <3>1, <3>2 DEF IsFirst
    <3>4. q[n] = PatchRow(s[n], map[k])
      BY <1>4, <2>1, <3>1, <3>3
    <3> QED BY <1>3, <2>1, <3>4 DEF PatchRow, Row
  <2>2. CASE n \notin 1 .. Len(s)
    <3>1. PICK j \in Missing(s, map) : q[n] = NewRow(j, map[j])
      BY <2>2 DEF IsPatched
    <3> QED BY <1>6, <3>1 DEF NewRow
  <2> QED BY <2>1, <2>2
<1>7. \E n \in 1 .. Len(q) : Counts(q[n]) /\ q[n].key = k
  <2>1. CASE \A n \in DOMAIN s : s[n].key # k
    <3>1. k \in Missing(s, map)
      BY <2>1 DEF Missing
    <3>2. PICK n \in 1 .. Len(q) : q[n] = NewRow(k, map[k])
      BY <3>1 DEF IsPatched
    <3> QED BY <1>2, <3>2 DEF NewRow, Counts
  <2>2. CASE \E m \in DOMAIN s : s[m].enabled /\ \A n \in DOMAIN s : s[n].key = k <=> n = m
    <3>1. PICK m \in DOMAIN s : s[m].enabled /\ s[m].key = k
      BY <2>2
    <3>2. m \in 1 .. Len(q) /\ q[m].enabled /\ q[m].key = k
      BY <1>1, <1>5, <3>1
    <3> QED BY <1>2, <3>2 DEF Counts
  <2> QED BY <2>1, <2>2
<1>8. q \in Seq(Row)
  BY DEF IsPatched
<1>9. k \in DOMAIN ScopeMap(q)
  <2>1. PICK n \in DOMAIN q : Counts(q[n]) /\ q[n].key = k
    BY <1>1, <1>7
  <2>2. k \in {q[i].key : i \in {m \in DOMAIN q : Counts(q[m])}}
    BY <2>1
  <2> QED BY <1>8, <2>2, ScopeMapShape
<1>10. PICK n \in Counting(q, k) : ScopeMap(q)[k] = ValueOf(q[n])
  BY <1>8, <1>9, ScopeMapShape
<1>11. q[n].currentValue = map[k]
  BY <1>1, <1>6, <1>10 DEF Counting
<1> QED BY <1>10, <1>11 DEF ValueOf

(***************************************************************************)
(* The steps.                                                              *)
(***************************************************************************)
LEMMA OwnerRows ==
  ASSUME RowsTyped, NEW o \in Owners, NEW s \in Seq(Row), rows' = [rows EXCEPT ![o] = s], owners' = owners
  PROVE  RowsTyped'
BY DEF RowsTyped

LEMMA EditRowStep ==
  ASSUME RowsTyped, NEW o \in Owners, NEW n \in DOMAIN rows[o], EditRow(o, n)
  PROVE  RowsTyped'
<1>1. rows[o] \in Seq(Row)
  BY DEF RowsTyped
<1>2. n \in 1 .. Len(rows[o]) /\ rows[o][n] \in Row
  BY <1>1, LenProperties, ElementOfSeq
<1>3. ASSUME NEW r \in Row, rows' = [rows EXCEPT ![o][n] = r], owners' = owners
      PROVE  RowsTyped'
  <2>1. PICK s : s = [rows[o] EXCEPT ![n] = r]
    OBVIOUS
  <2>2. s \in Seq(Row)
    BY <1>1, <1>2, <2>1, ExceptSeq
  <2>3. rows' = [rows EXCEPT ![o] = s]
    BY <1>3, <2>1
  <2> QED BY <1>3, <2>2, <2>3, OwnerRows
<1>4. CASE \E b \in BOOLEAN : UpdateVariable(o, n, "enabled", b)
  <2>1. PICK b \in BOOLEAN : UpdateVariable(o, n, "enabled", b)
    BY <1>4
  <2>2. [rows[o][n] EXCEPT !["enabled"] = b] \in Row
    BY <1>2 DEF Row
  <2>3. rows' = [rows EXCEPT ![o][n] = [rows[o][n] EXCEPT !["enabled"] = b]] /\ owners' = owners
    BY <2>1 DEF UpdateVariable
  <2> QED BY <1>3, <2>2, <2>3
<1>5. CASE \E k \in Keys \cup {Empty} : UpdateVariable(o, n, "key", k)
  <2>1. PICK k \in Keys \cup {Empty} : UpdateVariable(o, n, "key", k)
    BY <1>5
  <2>2. [rows[o][n] EXCEPT !["key"] = k] \in Row
    BY <1>2 DEF Row
  <2>3. rows' = [rows EXCEPT ![o][n] = [rows[o][n] EXCEPT !["key"] = k]] /\ owners' = owners
    BY <2>1 DEF UpdateVariable
  <2> QED BY <1>3, <2>2, <2>3
<1>6. ASSUME NEW f \in {"initialValue", "currentValue"}, NEW v \in Values \cup {Empty},
             UpdateVariable(o, n, f, v)
      PROVE  RowsTyped'
  <2>1. [rows[o][n] EXCEPT ![f] = v] \in Row
    BY <1>2 DEF Row
  <2>2. rows' = [rows EXCEPT ![o][n] = [rows[o][n] EXCEPT ![f] = v]] /\ owners' = owners
    BY <1>6 DEF UpdateVariable
  <2> QED BY <1>3, <2>1, <2>2
<1>7. CASE DeleteVariable(o, n)
  <2>1. RemoveAt(rows[o], n) \in Seq(Row)
    BY <1>1, <1>2, Removed DEF IsWithout
  <2>2. rows' = [rows EXCEPT ![o] = RemoveAt(rows[o], n)] /\ owners' = owners
    BY <1>7 DEF DeleteVariable
  <2> QED BY <2>1, <2>2, OwnerRows
<1> QED BY <1>4, <1>5, <1>6, <1>7 DEF EditRow

LEMMA VariablePaneStep ==
  ASSUME VariablesInv, NEW o \in Owners, VariablePane(o)
  PROVE  VariablesInv'
<1>1. SendsTyped'
  BY SameSends DEF VariablesInv, VariablePane
<1>2. CASE AddVariable(o)
  <2>1. Append(rows[o], EmptyRow) \in Seq(Row)
    <3>1. EmptyRow \in Row /\ rows[o] \in Seq(Row)
      BY DEF EmptyRow, Row, VariablesInv, RowsTyped
    <3> QED BY <3>1, AppendProperties
  <2>2. rows' = [rows EXCEPT ![o] = Append(rows[o], EmptyRow)] /\ owners' = owners
    BY <1>2 DEF AddVariable
  <2> QED BY <1>1, <2>1, <2>2, OwnerRows DEF VariablesInv
<1>3. CASE \E n \in DOMAIN rows[o] : EditRow(o, n)
  BY <1>1, <1>3, EditRowStep DEF VariablesInv
<1> QED BY <1>2, <1>3 DEF VariablePane

LEMMA HandleSendStep ==
  ASSUME VariablesInv, HandleSend
  PROVE  VariablesInv'
<1> DEFINE coll == CollectionId(ActiveTab)
           m == [tab |-> activeTabId, env |-> activeEnvironmentId, coll |-> coll,
                 variables |-> Scope(activeEnvironmentId, coll)]
<1>1. SendTyped(m)
  BY SeenTyped DEF SendTyped, VariablesInv
<1>2. sends' = Append(sends, m) /\ UNCHANGED scopeVars
  BY DEF HandleSend
<1> HIDE DEF m
<1>3. SendsTyped'
  BY <1>1, <1>2, SendAdded DEF VariablesInv
<1> QED BY <1>2, <1>3 DEF VariablesInv, RowsTyped, scopeVars

LEMMA VariablesStep ==
  ASSUME VariablesInv, [Next]_vars
  PROVE  VariablesInv'
<1>1. ASSUME UNCHANGED scopeVars, sends' = sends PROVE VariablesInv'
  BY <1>1, SameSends DEF VariablesInv, RowsTyped, scopeVars
<1>2. CASE HandleSend
  BY <1>2, HandleSendStep
<1>3. CASE UseTabs
  BY <1>1, <1>3 DEF UseTabs
<1>4. CASE GlobalsPane \/ EnvironmentPane \/ VariablesTab
  BY <1>4, VariablePaneStep DEF GlobalsPane, EnvironmentPane, VariablesTab, Owners
<1>5. CASE SelectEnvironment
  BY <1>1, <1>5 DEF SelectEnvironment
<1>6. CASE SidePanel
  <2>1. PICK o \in Owners : DeleteOwner(o)
    BY <1>6 DEF SidePanel, Owners
  <2>2. RowsTyped'
    BY <2>1 DEF DeleteOwner, VariablesInv, RowsTyped
  <2> QED BY <1>6, <2>2, SameSends DEF SidePanel, VariablesInv
<1>7. CASE Reload
  <2>1. RowsTyped'
    <3>1. <<>> \in Seq(Row)
      BY EmptySeq
    <3>2. rows' = [rows EXCEPT ![Globals] = <<>>] /\ owners' = owners
      BY <1>7 DEF Reload
    <3> QED BY <3>1, <3>2 DEF VariablesInv, RowsTyped
  <2>2. SendsTyped'
    BY <1>7, EmptySeq DEF Reload, SendsTyped
  <2> QED BY <2>1, <2>2 DEF VariablesInv
<1>8. CASE \E n \in DOMAIN sends : Failed(n)
  <2>1. PICK n \in DOMAIN sends : sends' = RemoveAt(sends, n) /\ UNCHANGED scopeVars
    BY <1>8 DEF Failed, Finish
  <2> QED BY <2>1, SendGone DEF VariablesInv, RowsTyped, scopeVars
<1>9. CASE \E n \in DOMAIN sends : \E left \in ScriptLeft(sends[n]) : Answered(n, left)
  <2>0. PICK n \in DOMAIN sends : \E left \in ScriptLeft(sends[n]) : Answered(n, left)
    BY <1>9
  <2>1. PICK left \in ScriptLeft(sends[n]) : Answered(n, left)
    BY <2>0
  <2>2. Apply(left) /\ sends' = RemoveAt(sends, n)
    BY <2>1 DEF Answered, ApplyVariableMutations, Finish
  <2>3. SendTyped(sends[n])
    BY DEF VariablesInv, SendsTyped
  <2> QED BY <2>2, <2>3, SendGone, AnswerWrites DEF VariablesInv
<1>10. CASE UNCHANGED vars
  BY <1>1, <1>10 DEF vars
<1> QED BY <1>2, <1>3, <1>4, <1>5, <1>6, <1>7, <1>8, <1>9, <1>10 DEF Next, UserAct

LEMMA VariablesInit == Init => VariablesInv
<1> SUFFICES ASSUME Init PROVE VariablesInv
  OBVIOUS
<1>1. owners = Owners /\ rows = [o \in Owners |-> <<>>] /\ sends = <<>>
  BY DEF Init, ScopesInit
<1>2. RowsTyped
  BY <1>1, EmptySeq DEF RowsTyped
<1>3. SendsTyped
  BY <1>1, EmptySeq DEF SendsTyped
<1> QED BY <1>2, <1>3 DEF VariablesInv

\* Rows keep their type, and every send under way has seen the variables of
\* the globals, its environment and its collection only.
THEOREM VariablesInvHolds == Spec => []VariablesInv
BY VariablesInit, VariablesStep, PTL DEF Spec

HomeOnly ==
  \A n \in DOMAIN sends : \A left \in ScriptLeft(sends[n]) : Answered(n, left) =>
    \A o \in Owners :
      /\ o \notin {Globals, sends[n].env, sends[n].coll} => UNCHANGED rows[o]
      /\ \A m \in DOMAIN rows[o] :
           \/ UNCHANGED rows[o][m]
           \/ /\ rows[o][m].key \in DOMAIN left[o]
              /\ rows'[o][m] = [rows[o][m] EXCEPT !.currentValue = left[o][rows[o][m].key]]

\* What an answer writes.
LEMMA AnsweredWrites ==
  ASSUME VariablesInv, NEW n \in DOMAIN sends, NEW left \in ScriptLeft(sends[n]), Answered(n, left)
  PROVE  RowsTyped' /\ IsWritten(sends[n], left)
<1>1. Apply(left) /\ SendTyped(sends[n])
  BY DEF Answered, ApplyVariableMutations, VariablesInv, SendsTyped
<1> QED BY <1>1, AnswerWrites DEF VariablesInv

LEMMA HomeOnlyHolds == VariablesInv => HomeOnly
<1>1. SUFFICES ASSUME VariablesInv,
                      NEW n \in DOMAIN sends, NEW left \in ScriptLeft(sends[n]), Answered(n, left),
                      NEW o \in Owners
               PROVE  /\ o \notin {Globals, sends[n].env, sends[n].coll} => rows'[o] = rows[o]
                      /\ \A m \in DOMAIN rows[o] :
                           \/ rows'[o][m] = rows[o][m]
                           \/ /\ rows[o][m].key \in DOMAIN left[o]
                              /\ rows'[o][m] = [rows[o][m] EXCEPT !.currentValue = left[o][rows[o][m].key]]
  BY DEF HomeOnly
<1>2. IsWritten(sends[n], left)
  BY <1>1, AnsweredWrites
<1>3. rows[o] \in Seq(Row) /\ DOMAIN rows[o] = 1 .. Len(rows[o])
  BY <1>1, LenProperties DEF VariablesInv, RowsTyped
<1>4. CASE o \in owners \cap DOMAIN left
  <2>1. o \in {Globals, sends[n].env, sends[n].coll} /\ IsPatched(rows'[o], rows[o], left[o])
    BY <1>2, <1>4 DEF IsWritten
  <2>2. ASSUME NEW m \in 1 .. Len(rows[o])
        PROVE  \/ rows'[o][m] = rows[o][m]
               \/ /\ rows[o][m].key \in DOMAIN left[o]
                  /\ rows'[o][m] = [rows[o][m] EXCEPT !.currentValue = left[o][rows[o][m].key]]
    BY <2>1 DEF IsPatched, PatchRow
  <2> QED BY <1>3, <2>1, <2>2
<1>5. CASE o \notin owners \cap DOMAIN left
  BY <1>2, <1>5 DEF IsWritten
<1> QED BY <1>4, <1>5

\* However late an answer comes, it only changes current values of variables
\* it names, of the owners that were meant at the click.
THEOREM WritesHomeHolds == Spec => WritesHome
<1>1. HomeOnly => \A n \in DOMAIN sends : \A left \in ScriptLeft(sends[n]) : Answered(n, left) =>
                    \A o \in Owners :
                      /\ o \notin {Globals, sends[n].env, sends[n].coll} => UNCHANGED rows[o]
                      /\ \A m \in DOMAIN rows[o] :
                           \/ UNCHANGED rows[o][m]
                           \/ /\ rows[o][m].key \in DOMAIN left[o]
                              /\ rows'[o][m] = [rows[o][m] EXCEPT !.currentValue = left[o][rows[o][m].key]]
  BY DEF HomeOnly
<1> QED BY <1>1, HomeOnlyHolds, VariablesInvHolds, PTL DEF WritesHome

WriteSeen ==
  \A n \in DOMAIN sends : \A left \in ScriptLeft(sends[n]) : Answered(n, left) =>
    \A o \in DOMAIN left \cap owners : \A k \in DOMAIN left[o] :
      /\ left[o][k] # Empty
      /\ RowsOf(o, k) = {} \/ \E m \in DOMAIN rows[o] : RowsOf(o, k) = {m} /\ rows[o][m].enabled
      => ScopeMap(rows'[o])[k] = left[o][k]

LEMMA WriteSeenHolds == VariablesInv => WriteSeen
<1>1. SUFFICES ASSUME VariablesInv,
                      NEW n \in DOMAIN sends, NEW left \in ScriptLeft(sends[n]), Answered(n, left),
                      NEW o \in DOMAIN left \cap owners, NEW k \in DOMAIN left[o],
                      left[o][k] # Empty,
                      RowsOf(o, k) = {} \/ \E m \in DOMAIN rows[o] : RowsOf(o, k) = {m} /\ rows[o][m].enabled
               PROVE  ScopeMap(rows'[o])[k] = left[o][k]
  BY DEF WriteSeen
<1>2. o \in Owners /\ rows[o] \in Seq(Row)
  BY <1>1 DEF VariablesInv, RowsTyped
<1>3. left[o] \in VarMaps /\ IsPatched(rows'[o], rows[o], left[o])
  BY <1>1, <1>2, AnsweredWrites DEF IsWritten
<1>4. \/ \A i \in DOMAIN rows[o] : rows[o][i].key # k
      \/ \E m \in DOMAIN rows[o] : rows[o][m].enabled /\ \A i \in DOMAIN rows[o] : rows[o][i].key = k <=> i = m
  BY <1>1 DEF RowsOf
<1> QED BY <1>1, <1>2, <1>3, <1>4, PatchedIsSeen

\* What a script has set is what the next request sees.
THEOREM ScriptWriteSeenHolds == Spec => ScriptWriteSeen
<1>1. WriteSeen => \A n \in DOMAIN sends : \A left \in ScriptLeft(sends[n]) : Answered(n, left) =>
                     \A o \in DOMAIN left \cap owners : \A k \in DOMAIN left[o] :
                       /\ left[o][k] # Empty
                       /\ RowsOf(o, k) = {} \/ \E m \in DOMAIN rows[o] : RowsOf(o, k) = {m} /\ rows[o][m].enabled
                       => ScopeMap(rows'[o])[k] = left[o][k]
  BY DEF WriteSeen
<1> QED BY <1>1, WriteSeenHolds, VariablesInvHolds, PTL DEF ScriptWriteSeen

(***************************************************************************)
(* The tabs of the pane.                                                   *)
(***************************************************************************)
TabRecords(ids) ==
  [id : ids, type : TabTypes, item : Requests \cup {None}, collection : {None},
   dirty : BOOLEAN, isSending : BOOLEAN, response : {None, "response"}]

OpenTabsInv ==
  /\ tabs \in Seq(TabRecords(TabIds)) /\ DistinctIds
  /\ closedTabs \in Seq(TabRecords({None}))

\* Every tab of the next state that was open before is as before.
TabsStay == \A n \in DOMAIN tabs' : tabs'[n].id \in OpenIds => \E m \in DOMAIN tabs : tabs'[n] = tabs[m]

\* What a step may do to the tabs and the sends: a tab that was open and is
\* still sending is sending for the same reason.
StaysSending ==
  \A n \in DOMAIN tabs' :
    LET t == tabs'[n] IN
    t.isSending /\ t.id \notin Busy' =>
      \/ t.id \notin OpenIds
      \/ /\ t.id \notin Busy
         /\ \E m \in DOMAIN tabs : tabs[m].id = t.id /\ tabs[m].isSending

LEMMA TabsAreRecords ==
  ASSUME OpenTabsInv
  PROVE  /\ Len(tabs) \in Nat /\ DOMAIN tabs = 1 .. Len(tabs)
         /\ \A n \in 1 .. Len(tabs) : tabs[n] \in TabRecords(TabIds) /\ tabs[n].id \in TabIds
         /\ OpenIds = {tabs[n].id : n \in 1 .. Len(tabs)}
<1>1. Len(tabs) \in Nat /\ DOMAIN tabs = 1 .. Len(tabs)
  BY LenProperties DEF OpenTabsInv
<1>2. \A n \in 1 .. Len(tabs) : tabs[n] \in TabRecords(TabIds)
  BY <1>1, ElementOfSeq DEF OpenTabsInv
<1> QED BY <1>1, <1>2 DEF TabRecords, OpenIds

\* The tabs are changed in place, and none gets another id.
LEMMA ChangedInPlace ==
  ASSUME OpenTabsInv, DOMAIN tabs' = DOMAIN tabs,
         tabs' = [n \in DOMAIN tabs |-> tabs'[n]],
         \A n \in DOMAIN tabs : tabs'[n] \in TabRecords(TabIds) /\ tabs'[n].id = tabs[n].id,
         closedTabs' \in Seq(TabRecords({None}))
  PROVE  OpenTabsInv'
<1>1. Len(tabs) \in Nat /\ DOMAIN tabs = 1 .. Len(tabs)
  BY TabsAreRecords
<1>2. tabs' \in [1 .. Len(tabs) -> TabRecords(TabIds)]
  BY <1>1
<1>3. tabs' \in Seq(TabRecords(TabIds))
  BY <1>1, <1>2, SeqDef
<1>4. DistinctIds'
  BY DEF DistinctIds, OpenTabsInv
<1> QED BY <1>3, <1>4 DEF OpenTabsInv

LEMMA FreshId ==
  ASSUME NEW busy, RoomFor(1, busy)
  PROVE  NextId(busy) \in TabIds /\ NextId(busy) \notin OpenIds
<1> DEFINE free == TabIds \ (busy \cup OpenIds)
<1>1. free # {}
  BY FS_EmptySet DEF RoomFor
<1>2. free \in SUBSET Nat
  BY TabsAssumption
<1>3. \E id \in free : \A other \in free : id <= other
  BY <1>1, <1>2, HasLeast
<1> QED BY <1>3 DEF NextId

\* A tab more, anywhere, with an id that no tab has.
LEMMA TabMore ==
  ASSUME OpenTabsInv, NEW t \in TabRecords(TabIds), t.id \notin OpenIds, NEW p \in 1 .. Len(tabs) + 1,
         IsWith(tabs', TabRecords(TabIds), tabs, p, t), closedTabs' \in Seq(TabRecords({None}))
  PROVE  OpenTabsInv' /\ TabsStay
<1>1. PICK k \in Nat : k = Len(tabs)
  BY TabsAreRecords
<1>2. /\ DOMAIN tabs = 1 .. k
      /\ \A n \in 1 .. k : tabs[n].id # t.id
      /\ \A i, j \in 1 .. k : i # j => tabs[i].id # tabs[j].id
  BY <1>1, TabsAreRecords DEF OpenTabsInv, DistinctIds
<1>3. /\ tabs' \in Seq(TabRecords(TabIds)) /\ Len(tabs') = k + 1 /\ DOMAIN tabs' = 1 .. k + 1
      /\ \A n \in 1 .. k + 1 : tabs'[n] = IF n < p THEN tabs[n] ELSE IF n = p THEN t ELSE tabs[n - 1]
  BY <1>1, LenProperties DEF IsWith
<1>4. ASSUME NEW n \in 1 .. k + 1, n # p
      PROVE  \E m \in 1 .. k : tabs'[n] = tabs[m] /\ m = IF n < p THEN n ELSE n - 1
  <2>1. CASE n < p
    <3>1. n \in 1 .. k
      BY <1>1, <2>1
    <3> QED BY <1>3, <2>1, <3>1
  <2>2. CASE ~(n < p)
    <3>1. n - 1 \in 1 .. k
      BY <1>1, <1>4, <2>2
    <3> QED BY <1>3, <1>4, <2>2, <3>1
  <2> QED BY <2>1, <2>2
<1>5. tabs'[p] = t
  BY <1>1, <1>3
<1>6. TabsStay
  BY <1>2, <1>3, <1>4, <1>5 DEF TabsStay
<1>7. ASSUME NEW i \in 1 .. k + 1, NEW j \in 1 .. k + 1, i # j
      PROVE  tabs'[i].id # tabs'[j].id
  <2>1. CASE i # p /\ j # p
    <3>1. PICK a \in 1 .. k : tabs'[i] = tabs[a] /\ a = IF i < p THEN i ELSE i - 1
      BY <1>4, <2>1
    <3>2. PICK b \in 1 .. k : tabs'[j] = tabs[b] /\ b = IF j < p THEN j ELSE j - 1
      BY <1>4, <2>1
    <3>3. a # b
      BY <1>1, <1>7, <2>1, <3>1, <3>2
    <3> QED BY <1>2, <3>1, <3>2, <3>3
  <2>2. CASE i = p
    <3>1. PICK b \in 1 .. k : tabs'[j] = tabs[b]
      BY <1>4, <1>7, <2>2
    <3> QED BY <1>2, <1>5, <2>2, <3>1
  <2>3. CASE j = p
    <3>1. PICK a \in 1 .. k : tabs'[i] = tabs[a]
      BY <1>4, <1>7, <2>3
    <3> QED BY <1>2, <1>5, <2>3, <3>1
  <2> QED BY <2>1, <2>2, <2>3
<1>8. DistinctIds'
  BY <1>3, <1>7 DEF DistinctIds
<1> QED BY <1>3, <1>6, <1>8 DEF OpenTabsInv

LEMMA TabAppended ==
  ASSUME OpenTabsInv, NEW busy, RoomFor(1, busy), NEW t \in TabRecords({None}),
         tabs' = Append(tabs, [t EXCEPT !.id = NextId(busy)]), closedTabs' \in Seq(TabRecords({None}))
  PROVE  OpenTabsInv' /\ TabsStay
<1>1. PICK new : new = [t EXCEPT !.id = NextId(busy)]
  OBVIOUS
<1>2. new \in TabRecords(TabIds) /\ new.id \notin OpenIds
  BY <1>1, FreshId DEF TabRecords
<1>3. PICK k \in Nat : k = Len(tabs)
  BY TabsAreRecords
<1>4. PICK p \in 1 .. k + 1 : p = k + 1
  BY <1>3
<1>5. /\ tabs' \in Seq(TabRecords(TabIds)) /\ Len(tabs') = k + 1
      /\ (\A n \in 1 .. k : tabs'[n] = tabs[n]) /\ tabs'[k + 1] = new
  BY <1>1, <1>2, <1>3, AppendProperties DEF OpenTabsInv
<1>6. \A n \in 1 .. k + 1 : tabs'[n] = IF n < p THEN tabs[n] ELSE IF n = p THEN new ELSE tabs[n - 1]
  BY <1>3, <1>4, <1>5
<1>7. IsWith(tabs', TabRecords(TabIds), tabs, p, new)
  BY <1>3, <1>5, <1>6 DEF IsWith
<1> QED BY <1>2, <1>3, <1>7, TabMore

LEMMA ClosedAfter ==
  ASSUME OpenTabsInv, NEW b \in Seq(TabRecords(TabIds)),
         closedTabs' = LastOf(closedTabs \o Forget(b), MaxClosed)
  PROVE  closedTabs' \in Seq(TabRecords({None}))
<1>1. PICK f : f = Forget(b)
  OBVIOUS
<1>2. f \in Seq(TabRecords({None}))
  <2>1. PICK k \in Nat : k = Len(b) /\ DOMAIN b = 1 .. k
    BY LenProperties
  <2>2. \A i \in 1 .. k : b[i] \in TabRecords(TabIds)
    BY <2>1, ElementOfSeq
  <2>3. ASSUME NEW t \in TabRecords(TabIds) PROVE Forgotten(t) \in TabRecords({None})
    BY DEF Forgotten, TabRecords
  <2>4. f = [i \in 1 .. k |-> Forgotten(b[i])]
    BY <1>1, <2>1 DEF Forget
  <2>5. f \in [1 .. k -> TabRecords({None})]
    BY <2>2, <2>3, <2>4
  <2> QED BY <2>5, SeqDef
<1>3. PICK s : s = closedTabs \o f
  OBVIOUS
<1>4. s \in Seq(TabRecords({None}))
  BY <1>2, <1>3, ConcatProperties DEF OpenTabsInv
<1>5. PICK l \in Nat : l = Len(s)
  BY <1>4, LenProperties
<1>6. MaxClosed \in Nat /\ MaxClosed > 0
  BY TabsAssumption
<1>7. CASE l <= MaxClosed
  BY <1>1, <1>3, <1>4, <1>5, <1>7 DEF LastOf
<1>8. CASE ~(l <= MaxClosed)
  <2>1. PICK from \in Nat \ {0} : from = l - MaxClosed + 1
    BY <1>5, <1>6, <1>8
  <2>2. closedTabs' = SubSeq(s, from, l)
    BY <1>1, <1>3, <1>5, <1>8, <2>1 DEF LastOf
  <2>3. IsPiece(closedTabs', TabRecords({None}), s, from, l)
    BY <1>4, <1>5, <1>6, <2>1, <2>2, Piece
  <2> QED BY <2>3 DEF IsPiece
<1> QED BY <1>7, <1>8

LEMMA TabClosed ==
  ASSUME OpenTabsInv, NEW id, CloseTab(id)
  PROVE  OpenTabsInv' /\ TabsStay
<1> DEFINE T == TabRecords(TabIds)
<1>1. PICK stay : stay = {n \in DOMAIN tabs : tabs[n].id \notin {id}}
  OBVIOUS
<1>2. PICK k \in Nat : k = Len(tabs) /\ DOMAIN tabs = 1 .. k
  BY TabsAreRecords
<1>3. /\ tabs' = Among(tabs, stay)
      /\ closedTabs' = LastOf(closedTabs \o Forget(Among(tabs, DOMAIN tabs \ stay)), MaxClosed)
  BY <1>1 DEF CloseTab, CloseTabs
<1>4. stay \in SUBSET (1 .. Len(tabs)) /\ (1 .. Len(tabs)) \ stay \in SUBSET (1 .. Len(tabs)) /\ tabs \in Seq(T)
  BY <1>1, <1>2 DEF OpenTabsInv
<1>5. PICK n : n = Cardinality(stay)
  OBVIOUS
<1> HIDE DEF T
<1>6. IsSelection(tabs', T, tabs, stay, n)
  BY <1>3, <1>4, <1>5, AmongSelects
<1>7. PICK b : b = Among(tabs, (1 .. Len(tabs)) \ stay)
  OBVIOUS
<1>8. b \in Seq(T)
  BY <1>4, <1>7, AmongSelects DEF IsSelection
<1>9. closedTabs' \in Seq(TabRecords({None}))
  BY <1>2, <1>3, <1>7, <1>8, ClosedAfter DEF T
<1>10. tabs' \in Seq(T) /\ DOMAIN tabs' = 1 .. n
  BY <1>6, LenProperties DEF IsSelection
<1>11. DistinctIds'
  <2>1. \A x, y \in stay : x # y => tabs[x].id # tabs[y].id
    BY <1>1 DEF OpenTabsInv, DistinctIds
  <2>2. \A i, j \in 1 .. n :
          i # j => \E x, y \in stay : x # y /\ tabs'[i] = tabs[x] /\ tabs'[j] = tabs[y]
    BY <1>6 DEF IsSelection
  <2> QED BY <1>10, <2>1, <2>2 DEF DistinctIds
<1>12. TabsStay
  <2>1. \A i \in 1 .. n : \E x \in stay : tabs'[i] = tabs[x]
    BY <1>6 DEF IsSelection
  <2> QED BY <1>1, <1>10, <2>1 DEF TabsStay
<1> QED BY <1>9, <1>10, <1>11, <1>12 DEF OpenTabsInv, T

LEMMA TabsSame ==
  ASSUME OpenTabsInv, UNCHANGED <<tabs, closedTabs>>
  PROVE  OpenTabsInv' /\ TabsStay
BY DEF OpenTabsInv, TabsStay, DistinctIds

LEMMA TabDuplicated ==
  ASSUME OpenTabsInv, NEW id, NEW busy, DuplicateTab(id, busy)
  PROVE  OpenTabsInv' /\ TabsStay
<1>1. PICK k \in Nat : k = Len(tabs) /\ DOMAIN tabs = 1 .. k
  BY TabsAreRecords
<1>2. PICK o \in 1 .. k : o = Open(id)
  BY <1>1 DEF DuplicateTab, OpenIds, Open
<1>3. PICK p \in 1 .. Len(tabs) + 1 : p = o + 1
  BY <1>1, <1>2
<1>4. PICK t : t = [tabs[o] EXCEPT !.id = NextId(busy), !.dirty = FALSE]
  OBVIOUS
<1>5. t \in TabRecords(TabIds) /\ t.id \notin OpenIds
  <2>1. tabs[o] \in TabRecords(TabIds)
    BY <1>1, TabsAreRecords
  <2>2. NextId(busy) \in TabIds /\ NextId(busy) \notin OpenIds
    BY FreshId DEF DuplicateTab
  <2> QED BY <1>4, <2>1, <2>2 DEF TabRecords
<1>6. tabs' = InsertAt(tabs, p, t) /\ closedTabs' = closedTabs
  BY <1>2, <1>3, <1>4 DEF DuplicateTab
<1>7. IsWith(tabs', TabRecords(TabIds), tabs, p, t)
  BY <1>5, <1>6, Inserted DEF OpenTabsInv
<1>8. closedTabs' \in Seq(TabRecords({None}))
  BY <1>6 DEF OpenTabsInv
<1> QED BY <1>5, <1>7, <1>8, TabMore

LEMMA TabReopened ==
  ASSUME OpenTabsInv, NEW busy, ReopenLastClosedTab(busy)
  PROVE  OpenTabsInv' /\ TabsStay
<1> DEFINE T == TabRecords({None})
<1>1. closedTabs \in Seq(T) /\ closedTabs # <<>>
  BY DEF OpenTabsInv, ReopenLastClosedTab
<1>2. Len(closedTabs) \in Nat \ {0}
  BY <1>1, EmptySeq
<1>3. PICK t \in T : t = Last(closedTabs)
  BY <1>1, <1>2, ElementOfSeq DEF Last
<1>4. closedTabs' \in Seq(T)
  <2>1. PICK l \in Nat : Len(closedTabs) = l + 1
    BY <1>2
  <2>2. closedTabs' = SubSeq(closedTabs, 1, l)
    BY <2>1 DEF ReopenLastClosedTab, Front
  <2> HIDE DEF T
  <2> QED BY <1>1, <2>1, <2>2, Piece DEF IsPiece
<1>5. tabs' = Append(tabs, [t EXCEPT !.id = NextId(busy)]) /\ RoomFor(1, busy)
  BY <1>3 DEF ReopenLastClosedTab
<1> QED BY <1>4, <1>5, TabAppended

LEMMA TabAdded ==
  ASSUME OpenTabsInv, NEW busy, NEW t \in TabRecords({None}), AddTab(t, busy)
  PROVE  OpenTabsInv' /\ TabsStay
BY TabAppended DEF AddTab, OpenTabsInv

LEMMA UseTabsStep ==
  ASSUME OpenTabsInv, UseTabs
  PROVE  OpenTabsInv' /\ TabsStay
<1>1. CASE \E id \in OpenIds : SetActiveTab(id)
  BY <1>1, TabsSame DEF SetActiveTab, Show
<1>2. CASE \E id \in OpenIds : DuplicateTab(id, Busy)
  BY <1>2, TabDuplicated
<1>3. CASE \E id \in OpenIds : CloseTab(id)
  BY <1>3, TabClosed
<1>4. CASE ReopenLastClosedTab(Busy)
  BY <1>4, TabReopened
<1>5. NewTab \in TabRecords({None}) /\ \A r \in Requests : Tab("request", r, None) \in TabRecords({None})
  BY DEF NewTab, Tab, TabRecords, TabTypes
<1>6. CASE OpenNewTab(Busy)
  BY <1>5, <1>6, TabAdded DEF OpenNewTab
<1>7. CASE \E r \in Requests : OpenRequestTab(r, Busy)
  <2>1. PICK r \in Requests : OpenRequestTab(r, Busy)
    BY <1>7
  <2>2. UNCHANGED <<tabs, closedTabs>> \/ AddTab(Tab("request", r, None), Busy)
    BY <2>1 DEF OpenRequestTab, OpenTab, Show
  <2> QED BY <1>5, <2>2, TabsSame, TabAdded
<1> QED BY <1>1, <1>2, <1>3, <1>4, <1>6, <1>7 DEF UseTabs

\* A step that changes no send, and no tab that stays.
LEMMA StayingSends ==
  ASSUME TabsStay, sends' = sends
  PROVE  StaysSending
<1>1. Busy' = Busy
  BY DEF Busy
<1>2. ASSUME NEW n \in DOMAIN tabs', tabs'[n].isSending, tabs'[n].id \notin Busy', tabs'[n].id \in OpenIds
      PROVE  tabs'[n].id \notin Busy /\ \E m \in DOMAIN tabs : tabs[m].id = tabs'[n].id /\ tabs[m].isSending
  <2>1. PICK m \in DOMAIN tabs : tabs'[n] = tabs[m]
    BY <1>2 DEF TabsStay
  <2>2. tabs[m].id = tabs'[n].id /\ tabs[m].isSending
    BY <1>2, <2>1
  <2> QED BY <1>1, <1>2, <2>2
<1> QED BY <1>2 DEF StaysSending

LEMMA MoreBusy ==
  ASSUME SendsTyped, NEW m, SendTyped(m), sends' = Append(sends, m)
  PROVE  Busy \subseteq Busy' /\ m.tab \in Busy'
<1> DEFINE U == {sends[n] : n \in DOMAIN sends} \cup {m}
<1>1. sends \in Seq(U) /\ m \in U
  BY SeqMonotonic DEF SendsTyped
<1> HIDE DEF U
<1>2. PICK k \in Nat : k = Len(sends) /\ DOMAIN sends = 1 .. k
  BY <1>1, LenProperties
<1>3. /\ sends' \in Seq(U) /\ Len(sends') = k + 1
      /\ (\A n \in 1 .. k : sends'[n] = sends[n]) /\ sends'[k + 1] = m
  BY <1>1, <1>2, AppendProperties
<1>4. DOMAIN sends' = 1 .. k + 1
  BY <1>3, LenProperties
<1>5. \A n \in 1 .. k : n \in 1 .. k + 1
  OBVIOUS
<1>6. k + 1 \in 1 .. k + 1
  OBVIOUS
<1> QED BY <1>2, <1>3, <1>4, <1>5, <1>6 DEF Busy

LEMMA LessBusy ==
  ASSUME SendsTyped, NEW n \in DOMAIN sends, sends' = RemoveAt(sends, n)
  PROVE  \A b \in Busy : b = sends[n].tab \/ b \in Busy'
<1> DEFINE T == {sends[i] : i \in DOMAIN sends}
<1>1. sends \in Seq(T)
  BY DEF SendsTyped
<1> HIDE DEF T
<1>2. PICK k \in Nat : k = Len(sends) /\ DOMAIN sends = 1 .. k
  BY <1>1, LenProperties
<1>3. /\ sends' \in Seq(T) /\ Len(sends') = k - 1
      /\ \A i \in 1 .. k - 1 : sends'[i] = IF i < n THEN sends[i] ELSE sends[i + 1]
  BY <1>1, <1>2, Removed DEF IsWithout
<1>4. DOMAIN sends' = 1 .. k - 1
  BY <1>3, LenProperties
<1>5. ASSUME NEW i \in 1 .. k, i # n
      PROVE  \E j \in 1 .. k - 1 : sends'[j] = sends[i]
  <2>1. CASE i < n
    <3>1. i \in 1 .. k - 1
      BY <1>2, <2>1
    <3> QED BY <1>3, <2>1, <3>1
  <2>2. CASE ~(i < n)
    <3>1. i - 1 \in 1 .. k - 1 /\ ~(i - 1 < n) /\ (i - 1) + 1 = i
      BY <1>2, <1>5, <2>2
    <3> QED BY <1>3, <3>1
  <2> QED BY <2>1, <2>2
<1>6. ASSUME NEW i \in 1 .. k PROVE sends[i].tab = sends[n].tab \/ sends[i].tab \in Busy'
  <2>1. CASE i = n
    BY <2>1
  <2>2. CASE i # n
    <3>1. PICK j \in 1 .. k - 1 : sends'[j] = sends[i]
      BY <1>5, <2>2
    <3>2. sends'[j].tab \in Busy'
      BY <1>4 DEF Busy
    <3> QED BY <3>1, <3>2
  <2> QED BY <2>1, <2>2
<1> QED BY <1>2, <1>6 DEF Busy

LEMMA SendingTab ==
  ASSUME OpenTabsInv, VariablesInv, HandleSend
  PROVE  OpenTabsInv' /\ StaysSending
<1> DEFINE coll == CollectionId(ActiveTab)
           m == [tab |-> activeTabId, env |-> activeEnvironmentId, coll |-> coll,
                 variables |-> Scope(activeEnvironmentId, coll)]
<1>1. SendTyped(m) /\ m.tab = activeTabId
  BY SeenTyped DEF SendTyped, VariablesInv
<1>2. sends' = Append(sends, m)
  BY DEF HandleSend
<1> HIDE DEF m
<1>3. Busy \subseteq Busy' /\ activeTabId \in Busy'
  BY <1>1, <1>2, MoreBusy DEF VariablesInv
<1>4. /\ tabs' = [n \in DOMAIN tabs |-> IF tabs[n].id = activeTabId
                                       THEN [tabs[n] EXCEPT !.isSending = TRUE, !.response = None] ELSE tabs[n]]
      /\ closedTabs' = closedTabs
  BY DEF HandleSend, UpdateTab
<1>5. \A n \in DOMAIN tabs : tabs[n] \in TabRecords(TabIds)
  BY TabsAreRecords
<1>6. \A n \in DOMAIN tabs : tabs'[n] \in TabRecords(TabIds) /\ tabs'[n].id = tabs[n].id
  BY <1>4, <1>5 DEF TabRecords
<1>7. DOMAIN tabs' = DOMAIN tabs /\ tabs' = [n \in DOMAIN tabs |-> tabs'[n]]
  BY <1>4
<1>8. OpenTabsInv'
  BY <1>4, <1>6, <1>7, ChangedInPlace DEF OpenTabsInv
<1>9. ASSUME NEW n \in DOMAIN tabs', tabs'[n].isSending, tabs'[n].id \notin Busy'
      PROVE  tabs'[n].id \notin Busy /\ \E i \in DOMAIN tabs : tabs[i].id = tabs'[n].id /\ tabs[i].isSending
  <2>1. tabs'[n].id = tabs[n].id /\ tabs[n].id # activeTabId /\ tabs'[n] = tabs[n]
    BY <1>3, <1>4, <1>6, <1>7, <1>9
  <2> QED BY <1>3, <1>7, <1>9, <2>1
<1> QED BY <1>8, <1>9 DEF StaysSending

\* The tab of the answer, if it is still open, no longer sends.
LEMMA FinishedTab ==
  ASSUME OpenTabsInv, VariablesInv, NEW n \in DOMAIN sends, sends' = RemoveAt(sends, n),
         NEW r \in {None, "response"}, NEW with \in BOOLEAN,
         closedTabs' = closedTabs,
         tabs' = [i \in DOMAIN tabs |->
                    IF tabs[i].id = sends[n].tab
                    THEN IF with THEN [tabs[i] EXCEPT !.isSending = FALSE, !.response = r]
                         ELSE [tabs[i] EXCEPT !.isSending = FALSE]
                    ELSE tabs[i]]
  PROVE  OpenTabsInv' /\ StaysSending
<1>1. \A b \in Busy : b = sends[n].tab \/ b \in Busy'
  BY LessBusy DEF VariablesInv
<1>2. \A i \in DOMAIN tabs : tabs[i] \in TabRecords(TabIds)
  BY TabsAreRecords
<1>3. \A i \in DOMAIN tabs : tabs'[i] \in TabRecords(TabIds) /\ tabs'[i].id = tabs[i].id
  BY <1>2 DEF TabRecords
<1>4. DOMAIN tabs' = DOMAIN tabs /\ tabs' = [i \in DOMAIN tabs |-> tabs'[i]]
  OBVIOUS
<1>5. OpenTabsInv'
  BY <1>3, <1>4, ChangedInPlace DEF OpenTabsInv
<1>6. ASSUME NEW i \in DOMAIN tabs', tabs'[i].isSending, tabs'[i].id \notin Busy'
      PROVE  tabs'[i].id \notin Busy /\ \E j \in DOMAIN tabs : tabs[j].id = tabs'[i].id /\ tabs[j].isSending
  <2>1. tabs[i].id # sends[n].tab
    BY <1>2, <1>4, <1>6 DEF TabRecords
  <2>2. tabs'[i] = tabs[i]
    BY <1>4, <2>1
  <2> QED BY <1>1, <1>4, <1>6, <2>1, <2>2
<1> QED BY <1>5, <1>6 DEF StaysSending

LEMMA ReloadedTabs ==
  ASSUME OpenTabsInv, Reload
  PROVE  OpenTabsInv' /\ StaysSending
<1>1. /\ tabs' = [n \in DOMAIN tabs |-> [tabs[n] EXCEPT !.isSending = FALSE]]
      /\ closedTabs' = <<>>
  BY DEF Reload, RestoreTabs
<1>2. \A n \in DOMAIN tabs : tabs[n] \in TabRecords(TabIds)
  BY TabsAreRecords
<1>3. \A n \in DOMAIN tabs : tabs'[n] \in TabRecords(TabIds) /\ tabs'[n].id = tabs[n].id /\ ~tabs'[n].isSending
  BY <1>1, <1>2 DEF TabRecords
<1>4. DOMAIN tabs' = DOMAIN tabs /\ tabs' = [n \in DOMAIN tabs |-> tabs'[n]]
  BY <1>1
<1>5. closedTabs' \in Seq(TabRecords({None}))
  BY <1>1, EmptySeq
<1>6. OpenTabsInv'
  BY <1>3, <1>4, <1>5, ChangedInPlace
<1> QED BY <1>3, <1>4, <1>6 DEF StaysSending

LEMMA OpenTabsStep ==
  ASSUME OpenTabsInv, VariablesInv, [Next]_vars
  PROVE  OpenTabsInv' /\ StaysSending
<1>1. ASSUME UNCHANGED tabVars, sends' = sends PROVE OpenTabsInv' /\ StaysSending
  BY <1>1, TabsSame, StayingSends DEF tabVars
<1>2. CASE HandleSend
  BY <1>2, SendingTab
<1>3. CASE UseTabs
  BY <1>3, UseTabsStep, StayingSends DEF UseTabs
<1>4. CASE GlobalsPane \/ EnvironmentPane \/ VariablesTab
  BY <1>1, <1>4 DEF GlobalsPane, EnvironmentPane, VariablesTab, VariablePane
<1>5. CASE SelectEnvironment
  BY <1>1, <1>5 DEF SelectEnvironment
<1>6. CASE SidePanel
  BY <1>1, <1>6 DEF SidePanel
<1>7. CASE Reload
  BY <1>7, ReloadedTabs
<1>8. CASE \E n \in DOMAIN sends : Failed(n)
  <2>1. PICK n \in DOMAIN sends : Failed(n)
    BY <1>8
  <2>2. /\ tabs' = [i \in DOMAIN tabs |-> IF tabs[i].id = sends[n].tab
                                         THEN [tabs[i] EXCEPT !.isSending = FALSE] ELSE tabs[i]]
        /\ closedTabs' = closedTabs /\ sends' = RemoveAt(sends, n)
    BY <2>1 DEF Failed, Finish, UpdateTab
  <2>3. tabs' = [i \in DOMAIN tabs |->
                   IF tabs[i].id = sends[n].tab
                   THEN IF FALSE THEN [tabs[i] EXCEPT !.isSending = FALSE, !.response = None]
                        ELSE [tabs[i] EXCEPT !.isSending = FALSE]
                   ELSE tabs[i]]
    BY <2>2
  <2> QED BY <2>2, <2>3, FinishedTab
<1>9. CASE \E n \in DOMAIN sends : \E left \in ScriptLeft(sends[n]) : Answered(n, left)
  <2>1. PICK n \in DOMAIN sends : \E left \in ScriptLeft(sends[n]) : Answered(n, left)
    BY <1>9
  <2>2. /\ tabs' = [i \in DOMAIN tabs |-> IF tabs[i].id = sends[n].tab
                                         THEN [tabs[i] EXCEPT !.isSending = FALSE, !.response = "response"]
                                         ELSE tabs[i]]
        /\ closedTabs' = closedTabs /\ sends' = RemoveAt(sends, n)
    BY <2>1 DEF Answered, Finish, UpdateTab
  <2>3. tabs' = [i \in DOMAIN tabs |->
                   IF tabs[i].id = sends[n].tab
                   THEN IF TRUE THEN [tabs[i] EXCEPT !.isSending = FALSE, !.response = "response"]
                        ELSE [tabs[i] EXCEPT !.isSending = FALSE]
                   ELSE tabs[i]]
    BY <2>2
  <2> QED BY <2>2, <2>3, FinishedTab
<1>10. CASE UNCHANGED vars
  BY <1>1, <1>10 DEF vars
<1> QED BY <1>2, <1>3, <1>4, <1>5, <1>6, <1>7, <1>8, <1>9, <1>10 DEF Next, UserAct

LEMMA OpenTabsInit == Init => OpenTabsInv
<1> SUFFICES ASSUME Init PROVE OpenTabsInv
  OBVIOUS
<1>1. tabs = <<[NewTab EXCEPT !.id = 1]>> /\ closedTabs = <<>>
  BY DEF Init, TabsInit
<1>2. [NewTab EXCEPT !.id = 1] \in TabRecords(TabIds)
  BY TabsAssumption DEF NewTab, Tab, TabRecords, TabTypes
<1>3. tabs \in Seq(TabRecords(TabIds))
  BY <1>1, <1>2
<1>4. DistinctIds
  BY <1>1 DEF DistinctIds
<1> QED BY <1>1, <1>3, <1>4, EmptySeq DEF OpenTabsInv

\* The open and the closed tabs of the pane are well formed, their ids
\* distinct.
THEOREM OpenTabsInvHolds == Spec => []OpenTabsInv
<1>1. OpenTabsInv /\ VariablesInv /\ [Next]_vars => OpenTabsInv'
  BY OpenTabsStep
<1> QED BY <1>1, OpenTabsInit, VariablesInvHolds, PTL DEF Spec

OnlyCopies ==
  \A n \in DOMAIN tabs' :
    LET t == tabs'[n] IN
    t.isSending /\ t.id \notin Busy' =>
      \/ t.id \notin OpenIds
      \/ t.id \notin Busy /\ tabs[Open(t.id)].isSending

LEMMA OnlyCopiesHolds == OpenTabsInv /\ StaysSending => OnlyCopies
<1> SUFFICES ASSUME OpenTabsInv, StaysSending PROVE OnlyCopies
  OBVIOUS
<1>1. ASSUME NEW i \in DOMAIN tabs PROVE Open(tabs[i].id) = i
  BY DEF Open, OpenTabsInv, DistinctIds
<1> QED BY <1>1 DEF StaysSending, OnlyCopies

\* A tab that waits for an answer nobody will give it is a copy.
THEOREM StuckOnlyCopiesHolds == Spec => StuckOnlyCopies
<1>1. OpenTabsInv /\ VariablesInv /\ [Next]_vars => OnlyCopies
  BY OpenTabsStep, OnlyCopiesHolds
<1>2. OnlyCopies => \A n \in DOMAIN tabs' :
                      LET t == tabs'[n] IN
                      t.isSending /\ t.id \notin Busy' =>
                        \/ t.id \notin OpenIds
                        \/ t.id \notin Busy /\ tabs[Open(t.id)].isSending
  BY DEF OnlyCopies
<1> QED BY <1>1, <1>2, OpenTabsInvHolds, VariablesInvHolds, PTL DEF Spec, StuckOnlyCopies

-----------------------------------------------------------------------------
(***************************************************************************)
(* The editor of a request.                                                *)
(***************************************************************************)

LEMMA UsedRows ==
  ASSUME NEW p \in Seq(KVRows)
  PROVE  /\ Used(p) \in Seq(KVRows)
         /\ \A i \in DOMAIN Used(p) : Used(p)[i] \in KVRows /\ Used(p)[i].key # Blank
<1>1. PICK S : S = {n \in DOMAIN p : p[n].enabled /\ p[n].key # Blank}
  OBVIOUS
<1>2. S \in SUBSET (1 .. Len(p))
  BY <1>1, LenProperties
<1>3. PICK q : q = Used(p)
  OBVIOUS
<1>4. IsSelection(q, KVRows, p, S, Cardinality(S))
  BY <1>1, <1>2, <1>3, AmongSelects DEF Used
<1>5. PICK k : k = Cardinality(S)
  OBVIOUS
<1>6. k \in Nat /\ q \in Seq(KVRows) /\ Len(q) = k /\ \A i \in 1 .. k : \E x \in S : q[i] = p[x]
  BY <1>4, <1>5 DEF IsSelection
<1>7. DOMAIN q = 1 .. k /\ \A i \in 1 .. k : q[i] \in KVRows
  <2>1. q \in [1 .. Len(q) -> KVRows]
    BY <1>6, LenProperties
  <2> QED BY <1>6, <2>1
<1>8. \A i \in DOMAIN q : q[i].key # Blank
  BY <1>1, <1>6, <1>7
<1> QED BY <1>3, <1>6, <1>7, <1>8

LEMMA PairsTyped ==
  ASSUME NEW q \in Seq(KVRows)
  PROVE  Pairs(q) \in Seq(Text \X Text) /\ DOMAIN Pairs(q) = DOMAIN q
<1>1. PICK k \in Nat : k = Len(q) /\ DOMAIN q = 1 .. k
  BY LenProperties
<1>2. \A n \in 1 .. k : q[n] \in KVRows
  BY <1>1, ElementOfSeq
<1>3. Pairs(q) \in [1 .. k -> Text \X Text]
  BY <1>1, <1>2 DEF Pairs, KVRows
<1> QED BY <1>1, <1>3, SeqDef

Agrees(url, params) == url.query # Nothing => Named(url.query) = Pairs(Used(params))

\* The URL is built from the parameters.
LEMMA BuiltAgrees ==
  ASSUME NEW url \in Urls, NEW p \in Seq(KVRows)
  PROVE  BuildUrlWithParams(url, p) \in Urls /\ Agrees(BuildUrlWithParams(url, p), p)
<1>1. PICK q : q = Used(p)
  OBVIOUS
<1>2. q \in Seq(KVRows) /\ \A i \in DOMAIN q : q[i] \in KVRows /\ q[i].key # Blank
  BY <1>1, UsedRows
<1>3. PICK l : l = Pairs(q)
  OBVIOUS
<1>4. l \in Seq(Text \X Text) /\ DOMAIN l = DOMAIN q
  BY <1>2, <1>3, PairsTyped
<1>5. \A n \in DOMAIN l : l[n][1] # Blank
  BY <1>2, <1>3, <1>4 DEF Pairs
<1>6. DOMAIN l = 1 .. Len(l) /\ {n \in DOMAIN l : l[n][1] # Blank} = 1 .. Len(l)
  BY <1>4, <1>5, LenProperties
<1>7. Named(l) = l
  BY <1>4, <1>6, AmongAll DEF Named
<1>8. PICK u : u = BuildUrlWithParams(url, p)
  OBVIOUS
<1>9. u = [url EXCEPT !.query = IF q = <<>> THEN Nothing ELSE l]
  BY <1>1, <1>3, <1>8 DEF BuildUrlWithParams
<1>10. u \in Urls /\ u.query = IF q = <<>> THEN Nothing ELSE l
  BY <1>4, <1>9 DEF Urls
<1>11. u.query # Nothing => u.query = l
  BY <1>10
<1> QED BY <1>1, <1>3, <1>7, <1>8, <1>10, <1>11 DEF Agrees

\* The parameters are parsed from the URL.
LEMMA ParsedAgrees ==
  ASSUME NEW url \in Urls, url.query # Nothing
  PROVE  ParseQueryParams(url) \in Seq(KVRows) /\ Agrees(url, ParseQueryParams(url))
<1>1. PICK q : q = url.query
  OBVIOUS
<1>2. q \in Seq(Text \X Text)
  BY <1>1 DEF Urls
<1>3. PICK k \in Nat : k = Len(q) /\ DOMAIN q = 1 .. k
  BY <1>2, LenProperties
<1>4. \A n \in 1 .. k : q[n] \in Text \X Text
  BY <1>2, <1>3, ElementOfSeq
<1>5. PICK p : p = ParseQueryParams(url)
  OBVIOUS
<1>6. p = [n \in 1 .. k |-> [enabled |-> TRUE, key |-> q[n][1], value |-> q[n][2]]]
  BY <1>1, <1>3, <1>5 DEF ParseQueryParams
<1>7. p \in [1 .. k -> KVRows]
  BY <1>4, <1>6 DEF KVRows
<1>8. p \in Seq(KVRows) /\ DOMAIN p = 1 .. k
  BY <1>7, SeqDef
<1>9. PICK S : S = {n \in 1 .. k : q[n][1] # Blank}
  OBVIOUS
<1>10. {n \in DOMAIN p : p[n].enabled /\ p[n].key # Blank} = S
  BY <1>6, <1>8, <1>9
<1>11. Used(p) = Among(p, S) /\ Named(q) = Among(q, S)
  BY <1>3, <1>9, <1>10 DEF Used, Named
<1>12. Pairs(Among(p, S)) = Among(q, S)
  <2>1. IsFiniteSet(S) /\ S \in SUBSET Nat
    <3>1. IsFiniteSet(1 .. k)
      BY FS_Interval
    <3> QED BY <1>9, <3>1, FS_Subset
  <2>2. PICK at, c : at = Positions(S) /\ c = Cardinality(S)
    OBVIOUS
  <2>3. at \in [1 .. c -> S]
    BY <2>1, <2>2, PositionsEnumerate
  <2>4. Among(p, S) = [i \in 1 .. c |-> p[at[i]]] /\ Among(q, S) = [i \in 1 .. c |-> q[at[i]]]
    BY <2>2 DEF Among
  <2>5. ASSUME NEW i \in 1 .. c PROVE <<p[at[i]].key, p[at[i]].value>> = q[at[i]]
    <3>1. at[i] \in 1 .. k
      BY <1>9, <2>3
    <3>2. p[at[i]].key = q[at[i]][1] /\ p[at[i]].value = q[at[i]][2]
      BY <1>6, <3>1
    <3>3. q[at[i]] \in Text \X Text
      BY <1>4, <3>1
    <3> QED BY <3>2, <3>3
  <2>6. Pairs(Among(p, S)) = [i \in 1 .. c |-> <<p[at[i]].key, p[at[i]].value>>]
    BY <2>4 DEF Pairs
  <2> QED BY <2>4, <2>5, <2>6
<1> QED BY <1>1, <1>5, <1>8, <1>11, <1>12 DEF Agrees

\* A new row is not used yet.
LEMMA AddedAgrees ==
  ASSUME NEW p \in Seq(KVRows)
  PROVE  Append(p, MakeKV) \in Seq(KVRows) /\ Used(Append(p, MakeKV)) = Used(p)
<1>1. PICK k \in Nat : k = Len(p) /\ DOMAIN p = 1 .. k
  BY LenProperties
<1>2. PICK q : q = Append(p, MakeKV)
  OBVIOUS
<1>3. MakeKV \in KVRows /\ MakeKV.key = Blank
  BY DEF MakeKV, KVRows, Text
<1>4. q \in Seq(KVRows) /\ Len(q) = k + 1 /\ (\A n \in 1 .. k : q[n] = p[n]) /\ q[k + 1] = MakeKV
  BY <1>1, <1>2, <1>3, AppendProperties
<1>5. DOMAIN q = 1 .. k + 1
  BY <1>4, LenProperties
<1>6. PICK S : S = {n \in 1 .. k : p[n].enabled /\ p[n].key # Blank}
  OBVIOUS
<1>7. {n \in DOMAIN q : q[n].enabled /\ q[n].key # Blank} = S
  <2>1. ASSUME NEW n \in 1 .. k + 1, q[n].key # Blank PROVE n \in 1 .. k
    BY <1>3, <1>4, <2>1
  <2> QED BY <1>4, <1>5, <1>6, <2>1
<1>8. Used(q) = Among(q, S) /\ Used(p) = Among(p, S)
  BY <1>1, <1>6, <1>7 DEF Used
<1>9. Among(q, S) = Among(p, S)
  <2>1. S \in SUBSET (1 .. k) /\ \A x \in S : q[x] = p[x]
    BY <1>4, <1>6
  <2> QED BY <2>1, AmongDepends
<1> QED BY <1>2, <1>4, <1>8, <1>9

\* What becomes of a request by an edit: still a request, and one whose URL
\* and parameters agree if they did.
Follows(r, s) == IsRequest(s) /\ (Agrees(r.url, r.params) => Agrees(s.url, s.params))

\* An edit that keeps the URL and the parameters.
HasSettings(r) == r.settings \in {Nothing} \cup RequestSettings /\ IsAuth(r.auth)
Kept(r, s) ==
  /\ DOMAIN s = DOMAIN r /\ s.url = r.url /\ s.params = r.params
  /\ HasSettings(r) => HasSettings(s)

LEMMA KeptFollows ==
  ASSUME NEW r, NEW s, IsRequest(r), Kept(r, s)
  PROVE  Follows(r, s)
BY DEF Follows, IsRequest, Kept, HasSettings

\* What the settings are changed to are settings.
LEMMA SettingsAreSettings ==
  ASSUME NEW s \in RequestSettings, NEW t \in GeneralSettings(s) \cup ProxySettings(s)
  PROVE  t \in RequestSettings
<1>1. ASSUME NEW switch \in Switches, t = [s EXCEPT ![switch] = ~@] PROVE t \in RequestSettings
  <2>1. switch \in {"followRedirects", "encodeUrl", "cookieJar", "sslVerify",
                    "followOriginalMethod", "followAuthHeader", "removeReferer"}
    BY DEF Switches
  <2> QED BY <1>1, <2>1 DEF RequestSettings
<1>2. ASSUME NEW n \in Nat, t = [s EXCEPT !.timeout = n] \/ t = [s EXCEPT !.maxRedirects = n]
      PROVE  t \in RequestSettings
  BY <1>2 DEF RequestSettings
<1>3. ASSUME NEW v \in {"auto", "http1", "http2"}, t = [s EXCEPT !.httpVersion = v]
      PROVE  t \in RequestSettings
  BY <1>3 DEF RequestSettings
<1>4. ASSUME NEW proxy \in [enabled : BOOLEAN, url : Text, username : Text, password : Text],
             t = [s EXCEPT !.proxy = proxy]
      PROVE  t \in RequestSettings
  BY <1>4 DEF RequestSettings
<1>5. s.proxy \in [enabled : BOOLEAN, url : Text, username : Text, password : Text]
  BY DEF RequestSettings
<1>6. ASSUME t = [s EXCEPT !.proxy.enabled = ~@] PROVE t \in RequestSettings
  <2>1. t = [s EXCEPT !.proxy = [s.proxy EXCEPT !.enabled = ~@]]
    BY <1>6
  <2>2. [s.proxy EXCEPT !.enabled = ~@] \in [enabled : BOOLEAN, url : Text, username : Text, password : Text]
    BY <1>5
  <2> QED BY <1>4, <2>1, <2>2
<1>7. ASSUME NEW f \in {"url", "username", "password"}, NEW e \in Text, t = [s EXCEPT !.proxy[f] = e]
      PROVE  t \in RequestSettings
  <2>1. t = [s EXCEPT !.proxy = [s.proxy EXCEPT ![f] = e]]
    BY <1>7
  <2>2. [s.proxy EXCEPT ![f] = e] \in [enabled : BOOLEAN, url : Text, username : Text, password : Text]
    BY <1>5
  <2> QED BY <1>4, <2>1, <2>2
<1> QED BY <1>1, <1>2, <1>3, <1>6, <1>7 DEF GeneralSettings, ProxySettings

LEMMA AuthsAreAuths ==
  ASSUME NEW auth, IsAuth(auth), NEW e \in EditedAuth(auth)
  PROVE  IsAuth(e)
<1>1. ASSUME NEW type, e = SetType(auth, type) PROVE IsAuth(e)
  BY <1>1 DEF SetType, IsAuth
<1>2. ASSUME NEW field, NEW value, e = SetField(auth, field, value) PROVE IsAuth(e)
  <2>1. PICK rec : e = [auth EXCEPT !.fields[auth.type] = rec]
    BY <1>2 DEF SetField
  <2>2. e = [auth EXCEPT !.fields = [auth.fields EXCEPT ![auth.type] = rec]]
    BY <2>1
  <2> QED BY <2>2 DEF IsAuth
<1> QED BY <1>1, <1>2 DEF EditedAuth

LEMMA ShownSettingsTyped ==
  ASSUME NEW r, IsRequest(r)
  PROVE  ShownSettings(r) \in RequestSettings /\ DefaultRequestSettings \in RequestSettings
<1>1. NoProxy \in [enabled : BOOLEAN, url : Text, username : Text, password : Text]
  BY DEF NoProxy, Text
<1>2. DefaultRequestSettings \in RequestSettings
  BY <1>1 DEF DefaultRequestSettings, RequestSettings
<1> QED BY <1>2 DEF ShownSettings, IsRequest

\* What the other forms write keeps them.
LEMMA OtherFormsKeep ==
  ASSUME NEW r, IsRequest(r),
         NEW s \in PathVarsSection(r) \cup HeadersTab(r) \cup AuthTab(r) \cup EditedBody(r)
                     \cup ScriptsTab(r) \cup SettingsTab(r) \cup {ResetSettings(r)}
  PROVE  Kept(r, s)
<1>1. Fields \subseteq DOMAIN r
  BY DEF IsRequest
<1>2. \A e : /\ Kept(r, [r EXCEPT !.pathVariables = e]) /\ Kept(r, [r EXCEPT !.headers = e])
             /\ IsAuth(e) => Kept(r, [r EXCEPT !.auth = e])
             /\ Kept(r, [r EXCEPT !.body = e])
             /\ Kept(r, [r EXCEPT !.preRequestScript = e]) /\ Kept(r, [r EXCEPT !.testScript = e])
             /\ e \in RequestSettings => Kept(r, [r EXCEPT !.settings = e])
  <2>1. ASSUME NEW e
        PROVE  /\ Kept(r, [r EXCEPT !.pathVariables = e]) /\ Kept(r, [r EXCEPT !.headers = e])
               /\ Kept(r, [r EXCEPT !.body = e])
               /\ Kept(r, [r EXCEPT !.preRequestScript = e]) /\ Kept(r, [r EXCEPT !.testScript = e])
    BY <1>1 DEF Fields, Kept, HasSettings
  <2>2. ASSUME NEW e, IsAuth(e) PROVE Kept(r, [r EXCEPT !.auth = e])
    BY <1>1, <2>2 DEF Fields, Kept, HasSettings
  <2>3. ASSUME NEW e \in RequestSettings PROVE Kept(r, [r EXCEPT !.settings = e])
    BY <1>1 DEF Fields, Kept, HasSettings
  <2> QED BY <2>1, <2>2, <2>3
<1>3. CASE s \in PathVarsSection(r)
  <2>1. PICK key \in PathVarKeys(r), value \in Text :
          s = [r EXCEPT !.pathVariables = WithValue(r.pathVariables, key, value)]
    BY <1>3 DEF PathVarsSection
  <2> QED BY <1>2, <2>1
<1>4. CASE s \in HeadersTab(r)
  BY <1>2, <1>4 DEF HeadersTab
<1>5. CASE s \in AuthTab(r)
  <2>1. PICK e \in EditedAuth(r.auth) : s = [r EXCEPT !.auth = e]
    BY <1>5 DEF AuthTab
  <2>2. IsAuth(e)
    BY AuthsAreAuths DEF IsRequest
  <2> QED BY <1>2, <2>1, <2>2
<1>6. CASE s \in EditedBody(r)
  BY <1>2, <1>6 DEF EditedBody
<1>7. CASE s \in ScriptsTab(r)
  BY <1>2, <1>7 DEF ScriptsTab
<1>8. CASE s \in SettingsTab(r)
  <2>1. PICK e \in GeneralSettings(ShownSettings(r)) \cup ProxySettings(ShownSettings(r)) :
          s = [r EXCEPT !.settings = e]
    BY <1>8 DEF SettingsTab
  <2>2. e \in RequestSettings
    BY ShownSettingsTyped, SettingsAreSettings
  <2> QED BY <1>2, <2>1, <2>2
<1>9. CASE s = ResetSettings(r)
  BY <1>2, <1>9, ShownSettingsTyped DEF ResetSettings
<1> QED BY <1>3, <1>4, <1>5, <1>6, <1>7, <1>8, <1>9

\* The URL bar rewrites the parameters, unless there is no query.
LEMMA UrlBarAgrees ==
  ASSUME NEW r, IsRequest(r), NEW s \in UrlBar(r)
  PROVE  Follows(r, s)
<1>1. Fields \subseteq DOMAIN r /\ r.url \in Urls /\ r.params \in Seq(KVRows) /\ HasSettings(r)
  BY DEF IsRequest, HasSettings
<1>2. ASSUME NEW m, s = [r EXCEPT !.method = m] PROVE Follows(r, s)
  <2>1. Kept(r, s)
    BY <1>1, <1>2 DEF Kept, Fields, HasSettings
  <2> QED BY <2>1, KeptFollows
<1>3. ASSUME NEW base \in Bases, NEW query \in {Nothing, <<>>} \cup {<<p>> : p \in Text \X Text},
             s = TypeUrl(r, [base |-> base, query |-> query])
      PROVE  Follows(r, s)
  <2>1. PICK url : url = [base |-> base, query |-> query]
    OBVIOUS
  <2>2. query \in {Nothing} \cup Seq(Text \X Text)
    <3>1. <<>> \in Seq(Text \X Text)
      BY EmptySeq
    <3>2. \A p \in Text \X Text : <<p>> \in Seq(Text \X Text)
      OBVIOUS
    <3> QED BY <3>1, <3>2
  <2>3. url \in Urls
    BY <2>1, <2>2 DEF Urls
  <2>4. /\ DOMAIN s = DOMAIN r /\ s.url = url /\ s.settings = r.settings /\ s.auth = r.auth
        /\ s.params = IF url.query = Nothing THEN r.params ELSE ParseQueryParams(url)
    BY <1>1, <1>3, <2>1 DEF TypeUrl, Fields
  <2>5. CASE url.query = Nothing
    BY <1>1, <2>3, <2>4, <2>5 DEF Follows, IsRequest, Agrees, HasSettings
  <2>6. CASE url.query # Nothing
    <3>1. ParseQueryParams(url) \in Seq(KVRows) /\ Agrees(url, ParseQueryParams(url))
      BY <2>3, <2>6, ParsedAgrees
    <3> QED BY <1>1, <2>3, <2>4, <2>6, <3>1 DEF Follows, IsRequest, HasSettings
  <2> QED BY <2>5, <2>6
<1> DEFINE Methods == {[r EXCEPT !.method = m] : m \in {"GET", "POST"}}
           Typed == {TypeUrl(r, [base |-> base, query |-> query]) :
                       base \in Bases, query \in {Nothing, <<>>} \cup {<<p>> : p \in Text \X Text}}
<1>4. s \in Methods => Follows(r, s)
  BY <1>2
<1>5. ASSUME s \in Typed PROVE Follows(r, s)
  <2>1. PICK base \in Bases, query \in {Nothing, <<>>} \cup {<<p>> : p \in Text \X Text} :
          s = TypeUrl(r, [base |-> base, query |-> query])
    BY <1>5
  <2> QED BY <1>3, <2>1
<1>6. UrlBar(r) = Methods \cup Typed
  BY DEF UrlBar
<1> HIDE DEF Methods, Typed
<1> QED BY <1>4, <1>5, <1>6

\* The table of parameters rewrites the URL, except when a row is added.
LEMMA TableTyped ==
  ASSUME NEW table \in Seq(KVRows), NEW p \in ChangedRows(table) \cup DeletedRows(table)
  PROVE  p \in Seq(KVRows)
<1>1. PICK k \in Nat : k = Len(table) /\ DOMAIN table = 1 .. k
  BY LenProperties
<1>2. table \in [1 .. k -> KVRows]
  BY <1>1, LenProperties
<1>3. ASSUME NEW n \in DOMAIN table, NEW row \in KVRow(table[n]), p = [table EXCEPT ![n] = row]
      PROVE  p \in Seq(KVRows)
  <2>1. table[n] \in KVRows
    BY <1>1, <1>2
  <2>2. row \in KVRows
    BY <2>1 DEF KVRow, KVRows
  <2>3. p \in [1 .. k -> KVRows]
    BY <1>1, <1>2, <1>3, <2>2
  <2> QED BY <1>1, <2>3, SeqDef
<1>4. ASSUME NEW n \in DOMAIN table, p = RemoveAt(table, n) PROVE p \in Seq(KVRows)
  <2>1. n \in 1 .. Len(table)
    BY <1>1
  <2>2. IsWithout(RemoveAt(table, n), KVRows, table, n)
    BY <2>1, Removed
  <2> QED BY <1>4, <2>2 DEF IsWithout
<1> QED BY <1>3, <1>4 DEF ChangedRows, DeletedRows

LEMMA ParamsTabAgrees ==
  ASSUME NEW r, IsRequest(r), NEW s \in ParamsTab(r)
  PROVE  Follows(r, s)
<1>1. Fields \subseteq DOMAIN r /\ r.url \in Urls /\ r.params \in Seq(KVRows) /\ HasSettings(r)
  BY DEF IsRequest, HasSettings
<1>2. ASSUME NEW p \in ChangedRows(r.params) \cup DeletedRows(r.params),
             s = [r EXCEPT !.params = p, !.url = BuildUrlWithParams(@, p)]
      PROVE  Follows(r, s)
  <2>1. p \in Seq(KVRows)
    BY <1>1, TableTyped
  <2>2. BuildUrlWithParams(r.url, p) \in Urls /\ Agrees(BuildUrlWithParams(r.url, p), p)
    BY <1>1, <2>1, BuiltAgrees
  <2>3. DOMAIN s = DOMAIN r /\ s.params = p /\ s.url = BuildUrlWithParams(r.url, p) /\ s.settings = r.settings /\ s.auth = r.auth
    BY <1>1, <1>2 DEF Fields
  <2> QED BY <1>1, <2>1, <2>2, <2>3 DEF Follows, IsRequest, HasSettings
<1>3. ASSUME NEW p \in AddedRow(r.params, MakeKV), s = [r EXCEPT !.params = p]
      PROVE  Follows(r, s)
  <2>1. p = Append(r.params, MakeKV)
    BY DEF AddedRow
  <2>2. p \in Seq(KVRows) /\ Used(p) = Used(r.params)
    BY <1>1, <2>1, AddedAgrees
  <2>3. DOMAIN s = DOMAIN r /\ s.params = p /\ s.url = r.url /\ s.settings = r.settings /\ s.auth = r.auth
    BY <1>1, <1>3 DEF Fields
  <2> QED BY <1>1, <2>2, <2>3 DEF Follows, IsRequest, Agrees, HasSettings
<1> QED BY <1>2, <1>3 DEF ParamsTab

LEMMA EditedAgrees ==
  ASSUME NEW r, IsRequest(r), NEW s \in Edited(r)
  PROVE  Follows(r, s)
<1>1. \/ s \in UrlBar(r) \/ s \in ParamsTab(r)
      \/ s \in PathVarsSection(r) \cup HeadersTab(r) \cup AuthTab(r) \cup EditedBody(r)
                 \cup ScriptsTab(r) \cup SettingsTab(r) \cup {ResetSettings(r)}
  BY DEF Edited
<1>2. CASE s \in PathVarsSection(r) \cup HeadersTab(r) \cup AuthTab(r) \cup EditedBody(r)
                   \cup ScriptsTab(r) \cup SettingsTab(r) \cup {ResetSettings(r)}
  <2>1. Kept(r, s)
    BY <1>2, OtherFormsKeep
  <2> QED BY <2>1, KeptFollows
<1> QED BY <1>1, <1>2, UrlBarAgrees, ParamsTabAgrees

(***************************************************************************)
(* The invariant of the editor: every tab has its request, the writes that *)
(* are waiting are for tabs that exist, and URL and table agree.           *)
(***************************************************************************)
EditorTyped ==
  /\ DOMAIN request = EditorTabs /\ \A t \in EditorTabs : IsRequest(request[t])
  /\ \A w \in readers : w.tab \in EditorTabs
  /\ confirm # Nothing => confirm.tab \in EditorTabs
  /\ editorTabId \in EditorTabs
EditorInv == EditorTyped /\ \A t \in EditorTabs : Agrees(request[t].url, request[t].params)

\* Writing the body of a request.
LEMMA WriteKeeps ==
  ASSUME EditorTyped, NEW tab \in EditorTabs, NEW body, Write(tab, body)
  PROVE  /\ DOMAIN request' = EditorTabs
         /\ \A t \in EditorTabs : Kept(request[t], request'[t])
         /\ \A t \in EditorTabs \ {tab} : request'[t] = request[t]
         /\ request'[tab] = [request[tab] EXCEPT !.body = body]
<1>1. DOMAIN request = EditorTabs /\ \A t \in EditorTabs : Fields \subseteq DOMAIN request[t]
  BY DEF EditorTyped, IsRequest
<1>2. request' = [request EXCEPT ![tab] = [request[tab] EXCEPT !.body = body]]
  BY DEF Write
<1>3. Kept(request[tab], [request[tab] EXCEPT !.body = body])
  BY <1>1 DEF Kept, Fields, HasSettings
<1>4. \A t \in EditorTabs : request'[t] = IF t = tab THEN [request[tab] EXCEPT !.body = body] ELSE request[t]
  BY <1>1, <1>2
<1>5. \A t \in EditorTabs : Kept(request[t], request[t])
  BY DEF Kept
<1> QED BY <1>1, <1>2, <1>3, <1>4, <1>5

\* A step of the editor is an edit of what is shown, or writes a body.
EditorFollows ==
  \A t \in EditorTabs : request'[t] = request[t] \/ Follows(request[t], request'[t])

LEMMA EditStep ==
  ASSUME EditorTyped, Edit
  PROVE  EditorTyped' /\ EditorFollows
<1>1. PICK r \in Edited(request[editorTabId]) : request' = [request EXCEPT ![editorTabId] = r]
  BY DEF Edit
<1>2. Follows(request[editorTabId], r)
  BY EditedAgrees DEF EditorTyped
<1>3. /\ DOMAIN request' = EditorTabs /\ request'[editorTabId] = r
      /\ \A t \in EditorTabs \ {editorTabId} : request'[t] = request[t]
  BY <1>1 DEF EditorTyped
<1>4. EditorFollows
  BY <1>2, <1>3 DEF EditorFollows
<1>5. \A t \in EditorTabs : IsRequest(request'[t])
  BY <1>2, <1>3 DEF EditorTyped, Follows
<1>6. readers' = readers /\ confirm' = confirm /\ editorTabId' = editorTabId
  BY DEF Edit
<1> QED BY <1>3, <1>4, <1>5, <1>6 DEF EditorTyped

LEMMA ResetStep ==
  ASSUME EditorTyped, Reset
  PROVE  EditorTyped' /\ EditorFollows
<1>1. PICK r : r = ResetSettings(request[editorTabId])
  OBVIOUS
<1>2. IsRequest(request[editorTabId])
  BY DEF EditorTyped
<1>3. Kept(request[editorTabId], r)
  BY <1>1, <1>2, OtherFormsKeep
<1>4. Follows(request[editorTabId], r)
  BY <1>2, <1>3, KeptFollows
<1>5. request' = [request EXCEPT ![editorTabId] = r]
  BY <1>1 DEF Reset
<1>6. /\ DOMAIN request' = EditorTabs /\ request'[editorTabId] = r
      /\ \A t \in EditorTabs \ {editorTabId} : request'[t] = request[t]
  BY <1>5 DEF EditorTyped
<1>7. EditorFollows
  BY <1>4, <1>6 DEF EditorFollows
<1>8. \A t \in EditorTabs : IsRequest(request'[t])
  BY <1>4, <1>6 DEF EditorTyped, Follows
<1>9. readers' = readers /\ confirm' = confirm /\ editorTabId' = editorTabId
  BY DEF Reset
<1> QED BY <1>6, <1>7, <1>8, <1>9 DEF EditorTyped

LEMMA WriteStep ==
  ASSUME EditorTyped, NEW tab \in EditorTabs, NEW body, Write(tab, body)
  PROVE  /\ DOMAIN request' = EditorTabs /\ \A t \in EditorTabs : IsRequest(request'[t])
         /\ EditorFollows
<1>1. DOMAIN request' = EditorTabs /\ \A t \in EditorTabs : Kept(request[t], request'[t])
  BY WriteKeeps
<1>2. \A t \in EditorTabs : Follows(request[t], request'[t])
  BY <1>1, KeptFollows DEF EditorTyped
<1> QED BY <1>1, <1>2 DEF EditorFollows, Follows

LEMMA EditorStep ==
  ASSUME EditorTyped, [EditorNext]_editorVars
  PROVE  EditorTyped' /\ EditorFollows
<1>1. CASE Edit
  BY <1>1, EditStep
<1>2. CASE Reset
  BY <1>2, ResetStep
<1>3. CASE ChooseFile
  <2>1. UNCHANGED <<request, editorTabId, confirm>> /\ editorTabId \in EditorTabs
    BY <1>3 DEF ChooseFile, EditorTyped
  <2>2. PICK late : readers' = readers \cup {[tab |-> editorTabId, body |-> late]}
    BY <1>3 DEF ChooseFile
  <2>3. \A w \in readers' : w.tab \in EditorTabs
    BY <2>1, <2>2 DEF EditorTyped
  <2> QED BY <2>1, <2>3 DEF EditorTyped, EditorFollows
<1>4. CASE RequestDelete
  <2>1. UNCHANGED <<request, editorTabId, readers>> /\ editorTabId \in EditorTabs
    BY <1>4 DEF RequestDelete, EditorTyped
  <2>2. PICK body : confirm' = [tab |-> editorTabId, body |-> body]
    BY <1>4 DEF RequestDelete
  <2>3. confirm'.tab \in EditorTabs
    BY <2>1, <2>2
  <2> QED BY <2>1, <2>3 DEF EditorTyped, EditorFollows
<1>5. CASE AnswerDelete
  <2>1. confirm' = Nothing /\ UNCHANGED <<editorTabId, readers>>
    BY <1>5 DEF AnswerDelete
  <2>2. CASE Write(confirm.tab, confirm.body)
    <3>1. confirm.tab \in EditorTabs
      BY <1>5 DEF AnswerDelete, EditorTyped
    <3> QED BY <2>1, <2>2, <3>1, WriteStep DEF EditorTyped
  <2>3. CASE UNCHANGED request
    BY <2>1, <2>3 DEF EditorTyped, EditorFollows
  <2> QED BY <1>5, <2>2, <2>3 DEF AnswerDelete
<1>6. CASE SetTabSubTab
  BY <1>6 DEF SetTabSubTab, EditorTyped, EditorFollows
<1>7. CASE SwitchTab
  BY <1>7 DEF SwitchTab, EditorTyped, EditorFollows
<1>8. ASSUME NEW w \in readers, FileRead(w), UNCHANGED <<editorTabId, confirm>>
      PROVE  EditorTyped' /\ EditorFollows
  <2>1. Write(w.tab, w.body) /\ readers' = readers \ {w} /\ w.tab \in EditorTabs
    BY <1>8 DEF FileRead, EditorTyped
  <2>2. /\ DOMAIN request' = EditorTabs /\ \A t \in EditorTabs : IsRequest(request'[t])
        /\ EditorFollows
    BY <2>1, WriteStep
  <2> QED BY <1>8, <2>1, <2>2 DEF EditorTyped
<1>9. CASE UNCHANGED editorVars
  BY <1>9 DEF editorVars, EditorTyped, EditorFollows
<1> QED BY <1>1, <1>2, <1>3, <1>4, <1>5, <1>6, <1>7, <1>8, <1>9 DEF EditorNext, EditorUserAct

LEMMA EditorTypedHolds == EditorSpec => []EditorTyped
<1>1. EditorInit => EditorTyped
  BY DEF EditorInit, EditorTyped
<1>2. EditorTyped /\ [EditorNext]_editorVars => EditorTyped'
  BY EditorStep
<1> QED BY <1>1, <1>2, PTL DEF EditorSpec

(***************************************************************************)
(* The URL and the table of parameters say the same, after any edit of     *)
(* either, of any other field and however late a file or an answer comes,  *)
(* if they did when the tabs were opened (request-pane.tsx, the URL input  *)
(* and ParamsTab).                                                         *)
(***************************************************************************)
THEOREM QueryIsParamsHolds == EditorSpec /\ QueryIsParams => []QueryIsParams
<1>1. QueryIsParams <=> \A t \in EditorTabs : Agrees(request[t].url, request[t].params)
  BY DEF QueryIsParams, Agrees
<1>2. EditorTyped /\ QueryIsParams /\ [EditorNext]_editorVars => QueryIsParams'
  <2>1. SUFFICES ASSUME EditorTyped, QueryIsParams, [EditorNext]_editorVars,
                        NEW t \in EditorTabs
                 PROVE  Agrees(request'[t].url, request'[t].params)
    BY DEF QueryIsParams, Agrees
  <2>2. Agrees(request[t].url, request[t].params)
    BY <1>1, <2>1
  <2>3. request'[t] = request[t] \/ Follows(request[t], request'[t])
    BY <2>1, EditorStep DEF EditorFollows
  <2> QED BY <2>2, <2>3 DEF Follows
<1> QED BY <1>2, EditorTypedHolds, PTL DEF EditorSpec

(***************************************************************************)
(* A file is written to the tab it was chosen in, whatever tab is shown by *)
(* then, and to nothing of it but the body (request-pane.tsx, the writes   *)
(* of BodyTab after a FileReader's onload).                                *)
(***************************************************************************)
THEOREM FilesLandHomeHolds == EditorSpec => FilesLandHome
<1>1. ASSUME EditorTyped, [EditorNext]_editorVars, NEW w \in readers \ readers'
      PROVE  /\ Differ(request, request') \subseteq {w.tab}
             /\ Differ(request[w.tab], request'[w.tab]) \subseteq {"body"}
             /\ \E v \in readers : v.tab = w.tab /\ v.body = request'[w.tab].body
  <2>1. PICK v \in readers : FileRead(v)
    BY <1>1 DEF EditorNext, EditorUserAct, Edit, Reset, ChooseFile, RequestDelete, AnswerDelete,
                SetTabSubTab, SwitchTab, editorVars
  <2>2. v = w /\ Write(w.tab, w.body) /\ w.tab \in EditorTabs
    BY <1>1, <2>1 DEF FileRead, EditorTyped
  <2>3. /\ DOMAIN request' = EditorTabs
        /\ \A t \in EditorTabs \ {w.tab} : request'[t] = request[t]
        /\ request'[w.tab] = [request[w.tab] EXCEPT !.body = w.body]
    BY <1>1, <2>2, WriteKeeps
  <2>4. DOMAIN request = EditorTabs /\ "body" \in DOMAIN request[w.tab]
    BY <1>1, <2>2 DEF EditorTyped, IsRequest, Fields
  <2>5. Differ(request, request') \subseteq {w.tab}
    BY <2>3, <2>4 DEF Differ
  <2>6. Differ(request[w.tab], request'[w.tab]) \subseteq {"body"} /\ request'[w.tab].body = w.body
    BY <2>3, <2>4 DEF Differ
  <2> QED BY <2>5, <2>6
<1>2. EditorTyped /\ [EditorNext]_editorVars =>
        [\A w \in readers \ readers' :
           /\ Differ(request, request') \subseteq {w.tab}
           /\ Differ(request[w.tab], request'[w.tab]) \subseteq {"body"}
           /\ \E v \in readers : v.tab = w.tab /\ v.body = request'[w.tab].body]_editorVars
  BY <1>1
<1> QED BY <1>2, EditorTypedHolds, PTL DEF EditorSpec, FilesLandHome

\* The parameters an authorization of a type is sent with.
SentParams(auth, type) == [f \in DOMAIN Defaults[type] |-> Param(auth, type, f)]

LEMMA ShownSent ==
  ASSUME NEW auth, NEW type \in DOMAIN Required, NEW f \in DOMAIN Defaults[type]
  PROVE  /\ SentParams(Auth(type, ShownAuth(auth)), type)[f] = ShownField(auth, type, f)
         /\ SentParams(auth, type)[f] = Param(auth, type, f)
<1>1. type \in FormTypes
  BY DEF Required, FormTypes, Defaults
<1>2. PICK fields : fields = ShownAuth(auth)
  OBVIOUS
<1>3. /\ DOMAIN fields[type] = DOMAIN Defaults[type]
      /\ fields[type][f] = ShownField(auth, type, f)
  BY <1>1, <1>2 DEF ShownAuth
<1>4. Param(Auth(type, fields), type, f) = fields[type][f]
  BY <1>3 DEF Param, Known, Auth
<1> QED BY <1>2, <1>3, <1>4 DEF SentParams

\* A type whose fields are all empty by default.
LEMMA EmptyDefaultsSent ==
  ASSUME NEW auth, NEW type \in DOMAIN Required \ {"apiKey"}
  PROVE  SentParams(Auth(type, ShownAuth(auth)), type) = SentParams(auth, type)
<1>1. \A f \in DOMAIN Defaults[type] : Defaults[type][f] = Blank
  <2>1. type \in {"bearer", "basic", "digest", "aws"}
    BY DEF Required
  <2> QED BY <2>1 DEF Defaults, Bearer, Basic, Digest, Aws
<1>2. \A f \in DOMAIN Defaults[type] : ShownField(auth, type, f) = Param(auth, type, f)
  BY <1>1 DEF ShownField, Param
<1>3. \A f \in DOMAIN Defaults[type] : SentParams(Auth(type, ShownAuth(auth)), type)[f] = SentParams(auth, type)[f]
  BY <1>2, ShownSent
<1>4. PICK p, q : p = SentParams(Auth(type, ShownAuth(auth)), type) /\ q = SentParams(auth, type)
  OBVIOUS
<1>5. p = [f \in DOMAIN Defaults[type] |-> p[f]] /\ q = [f \in DOMAIN Defaults[type] |-> q[f]]
  BY <1>4 DEF SentParams
<1> QED BY <1>3, <1>4, <1>5

\* What is sent depends on the parameters only.
SentAs(type, params) ==
  IF \E f \in Required[type] : params[f] = Blank THEN [error |-> "missing param"]
  ELSE IF type = "apiKey" /\ params.addTo = Blank
  THEN [type |-> type, params |-> [params EXCEPT !.addTo = "header"]]
  ELSE [type |-> type, params |-> params]

LEMMA ApplierSends ==
  ASSUME NEW auth, auth.type \in DOMAIN Required
  PROVE  Applier(auth) = SentAs(auth.type, SentParams(auth, auth.type))
<1>1. auth.type # "oauth2"
  BY DEF Required
<1> QED BY <1>1 DEF Applier, SentAs, SentParams

\* A key's place is the header wherever it is missing.
LEMMA PlaceSent ==
  ASSUME NEW auth
  PROVE  SentAs("apiKey", SentParams(Auth("apiKey", ShownAuth(auth)), "apiKey")) = SentAs("apiKey", SentParams(auth, "apiKey"))
<1>1. /\ "apiKey" \in DOMAIN Required /\ Required["apiKey"] = {"key"}
      /\ DOMAIN Defaults["apiKey"] = {"key", "value", "addTo"}
      /\ Defaults["apiKey"]["key"] = Blank /\ Defaults["apiKey"]["value"] = Blank
      /\ Defaults["apiKey"]["addTo"] = "header"
  BY DEF Required, Defaults, ApiKey
<1>2. PICK p, q : p = SentParams(Auth("apiKey", ShownAuth(auth)), "apiKey") /\ q = SentParams(auth, "apiKey")
  OBVIOUS
<1>3. /\ p = [f \in {"key", "value", "addTo"} |-> p[f]]
      /\ q = [f \in {"key", "value", "addTo"} |-> q[f]]
  BY <1>1, <1>2 DEF SentParams
<1>4. \A f \in {"key", "value", "addTo"} :
        p[f] = ShownField(auth, "apiKey", f) /\ q[f] = Param(auth, "apiKey", f)
  BY <1>1, <1>2, ShownSent
<1>5. p["key"] = q["key"] /\ p["value"] = q["value"]
  BY <1>1, <1>4 DEF ShownField, Param
<1>6. p["addTo"] = q["addTo"] \/ (p["addTo"] = "header" /\ q["addTo"] = Blank)
  BY <1>1, <1>4 DEF ShownField, Param
<1>7. CASE p["addTo"] = q["addTo"]
  BY <1>2, <1>3, <1>5, <1>7
<1>8. CASE p["addTo"] = "header" /\ q["addTo"] = Blank
  <2>1. p = [q EXCEPT !.addTo = "header"]
    BY <1>3, <1>5, <1>8
  <2>2. [p EXCEPT !.addTo = "header"] = p
    BY <1>3, <1>8
  <2>3. SentAs("apiKey", q) =
          IF q["key"] = Blank THEN [error |-> "missing param"] ELSE [type |-> "apiKey", params |-> p]
    BY <1>1, <1>8, <2>1 DEF SentAs
  <2>4. SentAs("apiKey", p) =
          IF p["key"] = Blank THEN [error |-> "missing param"] ELSE [type |-> "apiKey", params |-> p]
    BY <1>1, <2>2 DEF SentAs
  <2> QED BY <1>2, <1>5, <2>3, <2>4
<1> QED BY <1>6, <1>7, <1>8

(***************************************************************************)
(* What the form of an authorization shows is what is sent, whichever of   *)
(* its fields were ever written (auth-panel.tsx, send.go toParserAuth).    *)
(***************************************************************************)
THEOREM ShownIsSentHolds == EditorSpec => []ShownIsSent
<1>1. ASSUME NEW auth
      PROVE  Applier(auth) = Applier(Auth(auth.type, ShownAuth(auth)))
  <2>1. PICK type, shown : type = auth.type /\ shown = Auth(type, ShownAuth(auth))
    OBVIOUS
  <2>2. shown.type = type
    BY <2>1 DEF Auth
  <2>3. CASE type \in DOMAIN Required
    <3>1. Applier(auth) = SentAs(type, SentParams(auth, type)) /\ Applier(shown) = SentAs(type, SentParams(shown, type))
      BY <2>1, <2>2, <2>3, ApplierSends
    <3>2. CASE type = "apiKey"
      BY <2>1, <3>1, <3>2, PlaceSent
    <3>3. CASE type # "apiKey"
      BY <2>1, <2>3, <3>1, <3>3, EmptyDefaultsSent
    <3> QED BY <2>1, <3>2, <3>3
  <2>4. CASE type \notin DOMAIN Required
    BY <2>1, <2>2, <2>4 DEF Applier
  <2> QED BY <2>3, <2>4
<1>2. ShownIsSent
  BY <1>1 DEF ShownIsSent
<1> QED BY <1>2, PTL

\* Two functions that differ in one place at most.
LEMMA OneDiffers ==
  ASSUME NEW s, NEW x, s \subseteq {x}
  PROVE  AtMostOne(s)
<1>1. IsFiniteSet({x}) /\ Cardinality({x}) = 1
  BY FS_Singleton
<1>2. IsFiniteSet(s) /\ Cardinality(s) <= Cardinality({x})
  BY <1>1, FS_Subset
<1> QED BY <1>1, <1>2 DEF AtMostOne

LEMMA NoneDiffers == AtMostOne({})
BY OneDiffers

AuthsDiffer(auth, e) ==
  UNION {{type} \X Differ(ShownAuth(auth)[type], ShownAuth(e)[type]) : type \in FormTypes}

PathVarsDiffer(r, s) ==
  {key \in PathVarKeys(r) \cap PathVarKeys(s) : PathVarValue(r, key) # PathVarValue(s, key)}

\* What an edit may change of a request, as EditKeepsOthers says it.
EditKeeps(r, s) ==
  /\ AtMostOne(Differ(r, s) \ {"params"})
  /\ "params" \in Differ(r, s) => Differ(r, s) \subseteq {"params", "url"}
  /\ AtMostOne(Differ(r.body, s.body))
  /\ AtMostOne(Differ(ShownSettings(r), ShownSettings(s)))
  /\ r.auth # s.auth => AtMostOne(AuthsDiffer(r.auth, s.auth))
  /\ AtMostOne(PathVarsDiffer(r, s))

\* All but one of the fields, and what is in it.
Keeps(r, s, fields) == \A f \in Fields \ fields : s[f] = r[f]

Only(r, s, a) == Differ(r, s) \subseteq {a} /\ Keeps(r, s, {a})

LEMMA OnlyTheField ==
  ASSUME NEW r, Fields \subseteq DOMAIN r, NEW a \in Fields, NEW e
  PROVE  Only(r, [r EXCEPT ![a] = e], a) /\ [r EXCEPT ![a] = e][a] = e
BY DEF Differ, Keeps, Only

\* What is in the fields that are kept is kept.
LEMMA KeptParts ==
  ASSUME NEW r, NEW s, NEW kept, Keeps(r, s, kept)
  PROVE  /\ "body" \notin kept => AtMostOne(Differ(r.body, s.body))
         /\ "settings" \notin kept => AtMostOne(Differ(ShownSettings(r), ShownSettings(s)))
         /\ "auth" \notin kept => r.auth = s.auth
         /\ "pathVariables" \notin kept =>
              AtMostOne(PathVarsDiffer(r, s))
<1>1. \A f : Differ(f, f) = {}
  BY DEF Differ
<1> QED
  <2>1. "body" \notin kept => r.body = s.body
    BY DEF Keeps, Fields
  <2>2. "settings" \notin kept => ShownSettings(r) = ShownSettings(s)
    BY DEF Keeps, Fields, ShownSettings
  <2>3. "auth" \notin kept => r.auth = s.auth
    BY DEF Keeps, Fields
  <2>4. ASSUME "pathVariables" \notin kept
        PROVE  PathVarsDiffer(r, s) = {}
    <3>1. r.pathVariables = s.pathVariables
      BY <2>4 DEF Keeps, Fields
    <3>2. \A key : PathVarValue(r, key) = PathVarValue(s, key)
      BY <3>1 DEF PathVarValue
    <3> QED BY <3>2 DEF PathVarsDiffer
  <2> QED BY <1>1, <2>1, <2>2, <2>3, <2>4, NoneDiffers

\* An edit of the URL or of the parameters.
LEMMA UrlOrParams ==
  ASSUME NEW r, NEW s, Differ(r, s) \subseteq {"params", "url"}, Keeps(r, s, {"params", "url"})
  PROVE  EditKeeps(r, s)
<1>1. AtMostOne(Differ(r, s) \ {"params"})
  <2>1. Differ(r, s) \ {"params"} \subseteq {"url"}
    OBVIOUS
  <2> QED BY <2>1, OneDiffers
<1> QED BY <1>1, KeptParts DEF EditKeeps

\* An edit of one other field, in one place.
InOnePlace(r, s, a) ==
  /\ a = "body" => AtMostOne(Differ(r.body, s.body))
  /\ a = "settings" => AtMostOne(Differ(ShownSettings(r), ShownSettings(s)))
  /\ a = "auth" => AtMostOne(AuthsDiffer(r.auth, s.auth))
  /\ a = "pathVariables" => AtMostOne(PathVarsDiffer(r, s))

LEMMA OneField ==
  ASSUME NEW r, NEW a, a # "params", NEW s, Only(r, s, a), InOnePlace(r, s, a)
  PROVE  EditKeeps(r, s)
<1>1. Differ(r, s) \subseteq {a} /\ Keeps(r, s, {a})
  BY DEF Only
<1>2. AtMostOne(Differ(r, s) \ {"params"}) /\ "params" \notin Differ(r, s)
  <2>1. Differ(r, s) \ {"params"} \subseteq {a}
    BY <1>1
  <2> QED BY <1>1, <2>1, OneDiffers
<1>3. AtMostOne(Differ(r.body, s.body))
  BY <1>1, KeptParts DEF InOnePlace
<1>4. AtMostOne(Differ(ShownSettings(r), ShownSettings(s)))
  BY <1>1, KeptParts DEF InOnePlace
<1>5. r.auth # s.auth => AtMostOne(AuthsDiffer(r.auth, s.auth))
  BY <1>1, KeptParts DEF InOnePlace
<1>6. AtMostOne(PathVarsDiffer(r, s))
  BY <1>1, KeptParts DEF InOnePlace
<1> QED BY <1>2, <1>3, <1>4, <1>5, <1>6 DEF EditKeeps

\* The body: one of its parts.
LEMMA BodyKeeps ==
  ASSUME NEW body, NEW b \in BodyTab(body)
  PROVE  AtMostOne(Differ(body, b))
<1>1. \A x, e : Differ(body, [body EXCEPT ![x] = e]) \subseteq {x}
  BY DEF Differ
<1>2. \A x, e : AtMostOne(Differ(body, [body EXCEPT ![x] = e]))
  BY <1>1, OneDiffers
<1>3. \/ b \in {[body EXCEPT !.type = type] : type \in BodyTypes}
      \/ b \in RawBody(body) \/ b \in GraphqlBody(body) \/ b \in FormDataBody(body)
      \/ b \in UrlencodedBody(body)
  BY DEF BodyTab
<1>4. \E x, e : b = [body EXCEPT ![x] = e]
  BY <1>3 DEF RawBody, GraphqlBody, FormDataBody, UrlencodedBody
<1> QED BY <1>2, <1>4

\* The settings: one of those that are shown.
LEMMA SettingsKeep ==
  ASSUME NEW s \in RequestSettings, NEW t \in GeneralSettings(s) \cup ProxySettings(s)
  PROVE  AtMostOne(Differ(s, t))
<1>1. \A x, e : Differ(s, [s EXCEPT ![x] = e]) \subseteq {x}
  BY DEF Differ
<1>2. \A x, e : AtMostOne(Differ(s, [s EXCEPT ![x] = e]))
  BY <1>1, OneDiffers
<1>3. ASSUME t \in GeneralSettings(s) PROVE \E x, e : t = [s EXCEPT ![x] = e]
  BY <1>3 DEF GeneralSettings
<1>4. ASSUME t \in ProxySettings(s) PROVE \E x, e : t = [s EXCEPT ![x] = e]
  BY <1>4 DEF ProxySettings
<1> QED BY <1>2, <1>3, <1>4

\* An authorization: its type, or one field of its type.
LEMMA SameShown ==
  ASSUME NEW auth, NEW e, e.fields = auth.fields
  PROVE  ShownAuth(e) = ShownAuth(auth)
<1>1. \A type, field : Known(e, type, field) <=> Known(auth, type, field)
  BY DEF Known
<1>2. \A type, field : ShownField(e, type, field) = ShownField(auth, type, field)
  BY <1>1 DEF ShownField
<1> QED BY <1>2 DEF ShownAuth

LEMMA FieldShown ==
  ASSUME NEW auth, IsAuth(auth), auth.type \in FormTypes,
         NEW field \in DOMAIN Defaults[auth.type], NEW value,
         NEW e, e = SetField(auth, field, value),
         NEW type \in FormTypes, NEW f \in DOMAIN Defaults[type],
         type # auth.type \/ f # field
  PROVE  ShownField(e, type, f) = ShownField(auth, type, f)
<1> DEFINE known == DOMAIN auth.fields[auth.type]
           kept == {g \in DOMAIN Defaults[auth.type] \ {field} : g \in known \/ ~IsOptional(auth.type, g)}
           set == IF IsOptional(auth.type, field) /\ value = Blank THEN {} ELSE {field}
           rec == [g \in kept \cup set |-> IF g = field THEN value ELSE ShownField(auth, auth.type, g)]
<1>1. e = [auth EXCEPT !.fields[auth.type] = rec]
  BY DEF SetField
<1> HIDE DEF rec
<1>2. e.fields = [auth.fields EXCEPT ![auth.type] = rec]
  BY <1>1 DEF IsAuth
<1>3. CASE type # auth.type
  <2>1. e.fields[type] = auth.fields[type]
    BY <1>2, <1>3 DEF IsAuth
  <2> QED BY <2>1 DEF ShownField, Known
<1>4. CASE type = auth.type
  <2>1. f # field /\ e.fields[type] = rec /\ DOMAIN rec = kept \cup set
    BY <1>2, <1>4 DEF IsAuth, rec
  <2>2. CASE f \in kept
    <3>1. rec[f] = ShownField(auth, type, f)
      BY <1>4, <2>1, <2>2 DEF rec
    <3> QED BY <2>1, <2>2, <3>1 DEF ShownField, Known
  <2>3. CASE f \notin kept
    <3>1. f \notin DOMAIN auth.fields[type] /\ f \notin DOMAIN e.fields[type]
      BY <1>4, <2>1, <2>3
    <3> QED BY <3>1 DEF ShownField, Known
  <2> QED BY <2>2, <2>3
<1> QED BY <1>3, <1>4

LEMMA AuthKeeps ==
  ASSUME NEW auth, IsAuth(auth), NEW e \in EditedAuth(auth)
  PROVE  AtMostOne(AuthsDiffer(auth, e))
<1>1. ASSUME NEW type, e = SetType(auth, type) PROVE AtMostOne(AuthsDiffer(auth, e))
  <2>1. ShownAuth(e) = ShownAuth(auth)
    <3>1. e.fields = auth.fields
      BY <1>1 DEF SetType, IsAuth
    <3> QED BY <3>1, SameShown
  <2>2. AuthsDiffer(auth, e) = {}
    BY <2>1 DEF AuthsDiffer, Differ
  <2> QED BY <2>2, NoneDiffers
<1>2. ASSUME auth.type \in FormTypes, NEW field \in DOMAIN Defaults[auth.type], NEW value,
             e = SetField(auth, field, value)
      PROVE  AtMostOne(AuthsDiffer(auth, e))
  <2>1. ASSUME NEW type \in FormTypes, NEW f \in Differ(ShownAuth(auth)[type], ShownAuth(e)[type])
        PROVE  <<type, f>> = <<auth.type, field>>
    <3>1. /\ f \in DOMAIN Defaults[type]
          /\ ShownField(auth, type, f) # ShownField(e, type, f)
      BY DEF Differ, ShownAuth
    <3> QED BY <1>2, <3>1, FieldShown
  <2>2. AuthsDiffer(auth, e) \subseteq {<<auth.type, field>>}
    <3>1. ASSUME NEW p \in AuthsDiffer(auth, e) PROVE p = <<auth.type, field>>
      <4>1. PICK type \in FormTypes : p \in {type} \X Differ(ShownAuth(auth)[type], ShownAuth(e)[type])
        BY DEF AuthsDiffer
      <4>2. PICK f \in Differ(ShownAuth(auth)[type], ShownAuth(e)[type]) : p = <<type, f>>
        BY <4>1
      <4> QED BY <2>1, <4>2
    <3> QED BY <3>1
  <2> QED BY <2>2, OneDiffers
<1>3. CASE \E t : e = SetType(auth, t)
  BY <1>1, <1>3
<1>4. CASE ~ \E t : e = SetType(auth, t)
  <2> DEFINE named == IF auth.type \in FormTypes THEN DOMAIN Defaults[auth.type] ELSE {}
  <2>1. PICK p \in UNION {{field} \X Inputs(auth.type, field) : field \in named} : e = SetField(auth, p[1], p[2])
    BY <1>4 DEF EditedAuth
  <2>2. PICK field \in named : p \in {field} \X Inputs(auth.type, field)
    BY <2>1
  <2>3. p[1] = field /\ auth.type \in FormTypes /\ field \in DOMAIN Defaults[auth.type]
    BY <2>2
  <2> QED BY <1>2, <2>1, <2>3
<1> QED BY <1>3, <1>4

LEMMA PathVarsKeep ==
  ASSUME NEW r, Fields \subseteq DOMAIN r, NEW key, NEW value,
         NEW s, s = [r EXCEPT !.pathVariables = WithValue(r.pathVariables, key, value)]
  PROVE  AtMostOne(PathVarsDiffer(r, s))
<1>1. s.pathVariables = WithValue(r.pathVariables, key, value)
  BY DEF Fields
<1>2. \A k : k # key => PathVarValue(s, k) = PathVarValue(r, k)
  BY <1>1 DEF PathVarValue, WithValue
<1>3. PathVarsDiffer(r, s) \subseteq {key}
  BY <1>2 DEF PathVarsDiffer
<1> QED BY <1>3, OneDiffers

\* Every edit of a request keeps the rest of it.
LEMMA EditedKeeps ==
  ASSUME NEW r, IsRequest(r), NEW s \in Edited(r)
  PROVE  EditKeeps(r, s)
<1>1. Fields \subseteq DOMAIN r /\ IsAuth(r.auth)
  BY DEF IsRequest
<1>2. \A a \in Fields : \A e : Only(r, [r EXCEPT ![a] = e], a) /\ [r EXCEPT ![a] = e][a] = e
  BY <1>1, OnlyTheField
<1>3. \A e : /\ Only(r, [r EXCEPT !.method = e], "method")
             /\ Only(r, [r EXCEPT !.headers = e], "headers")
             /\ Only(r, [r EXCEPT !.preRequestScript = e], "preRequestScript")
             /\ Only(r, [r EXCEPT !.testScript = e], "testScript")
  BY <1>2 DEF Fields
<1>4. \A e : /\ Only(r, [r EXCEPT !.auth = e], "auth") /\ [r EXCEPT !.auth = e].auth = e
             /\ Only(r, [r EXCEPT !.body = e], "body") /\ [r EXCEPT !.body = e].body = e
             /\ Only(r, [r EXCEPT !.settings = e], "settings") /\ [r EXCEPT !.settings = e].settings = e
             /\ Only(r, [r EXCEPT !.pathVariables = e], "pathVariables")
  BY <1>2 DEF Fields
<1>5. \A a \in {"method", "headers", "preRequestScript", "testScript"} : Only(r, s, a) => EditKeeps(r, s)
  <2>1. \A a \in {"method", "headers", "preRequestScript", "testScript"} : InOnePlace(r, s, a)
    BY DEF InOnePlace
  <2> QED BY <2>1, OneField
<1>6. CASE s \in UrlBar(r)
  <2> DEFINE Methods == {[r EXCEPT !.method = m] : m \in {"GET", "POST"}}
             Urled == {TypeUrl(r, [base |-> base, query |-> query]) :
                         base \in Bases, query \in {Nothing, <<>>} \cup {<<p>> : p \in Text \X Text}}
  <2>1. UrlBar(r) = Methods \cup Urled
    BY DEF UrlBar
  <2>2. s \in Methods => Only(r, s, "method")
    BY <1>3
  <2>3. ASSUME s \in Urled PROVE \E url : s = TypeUrl(r, url)
    <3>1. PICK base \in Bases, query \in {Nothing, <<>>} \cup {<<p>> : p \in Text \X Text} :
            s = TypeUrl(r, [base |-> base, query |-> query])
      BY <2>3
    <3>2. PICK url : url = [base |-> base, query |-> query]
      OBVIOUS
    <3>3. s = TypeUrl(r, url)
      BY <3>1, <3>2
    <3> QED BY <3>3
  <2>4. ASSUME NEW url, s = TypeUrl(r, url) PROVE EditKeeps(r, s)
    <3>1. PICK e : s = [r EXCEPT !.url = url, !.params = e]
      BY <2>4 DEF TypeUrl
    <3>2. Differ(r, s) \subseteq {"params", "url"} /\ Keeps(r, s, {"params", "url"})
      BY <3>1, <1>1 DEF Differ, Keeps
    <3> QED BY <3>2, UrlOrParams
  <2> HIDE DEF Methods, Urled
  <2> QED BY <1>5, <1>6, <2>1, <2>2, <2>3, <2>4
<1>7. CASE s \in ParamsTab(r)
  <2>1. (\E e, u : s = [r EXCEPT !.params = e, !.url = u]) \/ (\E e : s = [r EXCEPT !.params = e])
    BY <1>7 DEF ParamsTab
  <2>2. Differ(r, s) \subseteq {"params", "url"} /\ Keeps(r, s, {"params", "url"})
    BY <1>1, <2>1 DEF Differ, Keeps
  <2> QED BY <2>2, UrlOrParams
<1>8. CASE s \in PathVarsSection(r)
  <2>1. PICK key \in PathVarKeys(r), value \in Text :
          s = [r EXCEPT !.pathVariables = WithValue(r.pathVariables, key, value)]
    BY <1>8 DEF PathVarsSection
  <2>2. AtMostOne(PathVarsDiffer(r, s))
    BY <1>1, <2>1, PathVarsKeep
  <2>3. Only(r, s, "pathVariables") /\ InOnePlace(r, s, "pathVariables")
    BY <1>4, <2>1, <2>2 DEF InOnePlace
  <2> QED BY <2>3, OneField
<1>9. CASE s \in HeadersTab(r)
  <2>1. Only(r, s, "headers")
    BY <1>3, <1>9 DEF HeadersTab
  <2> QED BY <1>5, <2>1
<1>10. CASE s \in ScriptsTab(r)
  <2>1. Only(r, s, "preRequestScript") \/ Only(r, s, "testScript")
    BY <1>3, <1>10 DEF ScriptsTab
  <2> QED BY <1>5, <2>1
<1>11. CASE s \in AuthTab(r)
  <2>1. PICK e \in EditedAuth(r.auth) : s = [r EXCEPT !.auth = e]
    BY <1>11 DEF AuthTab
  <2>2. s.auth = e /\ Only(r, s, "auth")
    BY <1>4, <2>1
  <2>3. AtMostOne(AuthsDiffer(r.auth, s.auth))
    BY <1>1, <2>2, AuthKeeps
  <2>4. InOnePlace(r, s, "auth")
    BY <2>3 DEF InOnePlace
  <2> QED BY <2>2, <2>4, OneField
<1>12. CASE s \in EditedBody(r)
  <2>1. PICK e \in BodyTab(r.body) : s = [r EXCEPT !.body = e]
    BY <1>12 DEF EditedBody
  <2>2. s.body = e /\ Only(r, s, "body")
    BY <1>4, <2>1
  <2>3. AtMostOne(Differ(r.body, s.body))
    BY <2>2, BodyKeeps
  <2>4. InOnePlace(r, s, "body")
    BY <2>3 DEF InOnePlace
  <2> QED BY <2>2, <2>4, OneField
<1>13. CASE s \in SettingsTab(r)
  <2>1. PICK e \in GeneralSettings(ShownSettings(r)) \cup ProxySettings(ShownSettings(r)) :
          s = [r EXCEPT !.settings = e]
    BY <1>13 DEF SettingsTab
  <2>2. e \in RequestSettings /\ AtMostOne(Differ(ShownSettings(r), e))
    BY ShownSettingsTyped, SettingsAreSettings, SettingsKeep
  <2>3. s.settings = e /\ Only(r, s, "settings")
    BY <1>4, <2>1
  <2>4. ShownSettings(s) = e
    BY <2>2, <2>3, EditorAssumption DEF ShownSettings
  <2>5. InOnePlace(r, s, "settings")
    BY <2>2, <2>4 DEF InOnePlace
  <2> QED BY <2>3, <2>5, OneField
<1>14. \/ s \in UrlBar(r) \/ s \in ParamsTab(r) \/ s \in PathVarsSection(r) \/ s \in HeadersTab(r)
       \/ s \in AuthTab(r) \/ s \in EditedBody(r) \/ s \in ScriptsTab(r) \/ s \in SettingsTab(r)
  BY DEF Edited
<1> QED BY <1>6, <1>7, <1>8, <1>9, <1>10, <1>11, <1>12, <1>13, <1>14

(***************************************************************************)
(* An edit on any sub-tab changes one thing of what is shown and nothing   *)
(* else: no field of another authorization, no other setting, no other     *)
(* part of the body, nothing of another tab (request-pane.tsx, the updates *)
(* that each form makes of the request it was rendered with).              *)
(***************************************************************************)
THEOREM EditKeepsOthersHolds == EditorSpec => EditKeepsOthers
<1> DEFINE One == request' # request /\ Edit =>
                    /\ Differ(request, request') \subseteq {editorTabId}
                    /\ EditKeeps(request[editorTabId], request'[editorTabId])
<1>1. EditorTyped => One
  <2>1. SUFFICES ASSUME EditorTyped, Edit
                 PROVE  /\ Differ(request, request') \subseteq {editorTabId}
                        /\ EditKeeps(request[editorTabId], request'[editorTabId])
    OBVIOUS
  <2>2. PICK r \in Edited(request[editorTabId]) : request' = [request EXCEPT ![editorTabId] = r]
    BY <2>1 DEF Edit
  <2>3. IsRequest(request[editorTabId]) /\ request'[editorTabId] = r
    BY <2>1, <2>2 DEF EditorTyped
  <2>4. Differ(request, request') \subseteq {editorTabId}
    BY <2>2 DEF Differ
  <2> QED BY <2>3, <2>4, EditedKeeps
<1>2. One =>
        (request' # request /\ Edit =>
           LET r == request[editorTabId]
               s == request'[editorTabId]
           IN /\ Differ(request, request') \subseteq {editorTabId}
              /\ AtMostOne(Differ(r, s) \ {"params"})
              /\ "params" \in Differ(r, s) => Differ(r, s) \subseteq {"params", "url"}
              /\ AtMostOne(Differ(r.body, s.body))
              /\ AtMostOne(Differ(ShownSettings(r), ShownSettings(s)))
              /\ r.auth # s.auth =>
                   AtMostOne(UNION {{type} \X Differ(ShownAuth(r.auth)[type], ShownAuth(s.auth)[type]) :
                                      type \in FormTypes})
              /\ AtMostOne({key \in PathVarKeys(r) \cap PathVarKeys(s) :
                              PathVarValue(r, key) # PathVarValue(s, key)}))
  BY DEF EditKeeps, PathVarsDiffer, AuthsDiffer
<1> QED BY <1>1, <1>2, EditorTypedHolds, PTL DEF EditKeepsOthers

-----------------------------------------------------------------------------
(***************************************************************************)
(* The table of a run.                                                     *)
(***************************************************************************)

(***************************************************************************)
(* The invariant of the table: events are of the iterations that were      *)
(* announced, and no event is of an earlier iteration than the one before. *)
(***************************************************************************)
RequestEvents(n) == [name : Names, iteration : 0 .. n - 1, outcome : Outcomes]
ResultsInv ==
  /\ totalIterations \in 1 .. MaxIterations
  /\ events \in Seq(RequestEvents(totalIterations))
  /\ \A m, n \in 1 .. Len(events) : m <= n => events[m].iteration <= events[n].iteration

LEMMA EventAppended ==
  ASSUME ResultsInv, NEW e \in RequestEvents(totalIterations),
         events # <<>> => e.iteration >= Last(events).iteration
  PROVE  /\ Append(events, e) \in Seq(RequestEvents(totalIterations))
         /\ \A m, n \in 1 .. Len(Append(events, e)) :
              m <= n => Append(events, e)[m].iteration <= Append(events, e)[n].iteration
<1>1. PICK k \in Nat : k = Len(events)
  BY LenProperties DEF ResultsInv
<1>2. PICK q : q = Append(events, e)
  OBVIOUS
<1>3. /\ q \in Seq(RequestEvents(totalIterations)) /\ Len(q) = k + 1
      /\ (\A n \in 1 .. k : q[n] = events[n]) /\ q[k + 1] = e
  BY <1>1, <1>2, AppendProperties DEF ResultsInv
<1>4. \A n \in 1 .. k : events[n].iteration \in Int /\ events[n].iteration <= e.iteration
  <2>1. SUFFICES ASSUME NEW n \in 1 .. k
                 PROVE  events[n].iteration \in Int /\ events[n].iteration <= e.iteration
    OBVIOUS
  <2>2. \A m \in 1 .. k : events[m] \in RequestEvents(totalIterations)
    BY <1>1, ElementOfSeq DEF ResultsInv
  <2>3. \A m \in 1 .. k : events[m].iteration \in Int
    BY <2>2 DEF RequestEvents
  <2>4. events # <<>> /\ Last(events) = events[k]
    BY <1>1, EmptySeq DEF ResultsInv, Last
  <2>5. e.iteration >= events[k].iteration /\ e.iteration \in Int
    BY <2>4 DEF RequestEvents
  <2>6. events[n].iteration <= events[k].iteration
    BY <1>1, <2>1 DEF ResultsInv
  <2> QED BY <1>1, <2>3, <2>5, <2>6
<1>5. ASSUME NEW m \in 1 .. k + 1, NEW n \in 1 .. k + 1, m <= n
      PROVE  q[m].iteration <= q[n].iteration
  <2>1. CASE n \in 1 .. k
    <3>1. m \in 1 .. k
      BY <1>5, <2>1
    <3> QED BY <1>1, <1>3, <1>5, <2>1, <3>1 DEF ResultsInv
  <2>2. CASE n = k + 1
    <3>1. e.iteration \in Int
      BY DEF RequestEvents
    <3>2. CASE m = k + 1
      BY <1>3, <2>2, <3>1, <3>2
    <3>3. CASE m \in 1 .. k
      BY <1>3, <1>4, <2>2, <3>3
    <3> QED BY <3>2, <3>3
  <2> QED BY <2>1, <2>2
<1> QED BY <1>2, <1>3, <1>5

LEMMA ResultsStep ==
  ASSUME ResultsInv, [ResultsNext]_resultVars
  PROVE  ResultsInv'
<1>1. CASE OnRequestEvent
  <2>1. PICK name \in Names : \E outcome \in Outcomes, iteration \in 0 .. totalIterations - 1 :
          /\ events # <<>> => iteration >= Last(events).iteration
          /\ events' = Append(events, [name |-> name, iteration |-> iteration, outcome |-> outcome])
    BY <1>1 DEF OnRequestEvent
  <2>2. PICK outcome \in Outcomes, iteration \in 0 .. totalIterations - 1 :
          /\ events # <<>> => iteration >= Last(events).iteration
          /\ events' = Append(events, [name |-> name, iteration |-> iteration, outcome |-> outcome])
    BY <2>1
  <2>3. PICK e : e = [name |-> name, iteration |-> iteration, outcome |-> outcome]
    OBVIOUS
  <2>4. e \in RequestEvents(totalIterations) /\ e.iteration = iteration
    BY <2>3 DEF RequestEvents
  <2>5. events' = Append(events, e) /\ (events # <<>> => e.iteration >= Last(events).iteration)
    BY <2>2, <2>3, <2>4
  <2>6. totalIterations' = totalIterations
    BY <1>1 DEF OnRequestEvent
  <2> QED BY <2>4, <2>5, <2>6, EventAppended DEF ResultsInv
<1>2. CASE Toggle \/ UNCHANGED resultVars
  <2>1. events' = events /\ totalIterations' = totalIterations
    BY <1>2 DEF Toggle, resultVars
  <2> QED BY <2>1 DEF ResultsInv
<1> QED BY <1>1, <1>2 DEF ResultsNext

LEMMA ResultsInvHolds == ResultsSpec => []ResultsInv
<1>1. ResultsInit => ResultsInv
  <2>1. SUFFICES ASSUME ResultsInit PROVE ResultsInv
    OBVIOUS
  <2>2. events = <<>> /\ Len(events) = 0
    BY <2>1, EmptySeq DEF ResultsInit
  <2>3. events \in Seq(RequestEvents(totalIterations))
    BY <2>2, EmptySeq
  <2> QED BY <2>1, <2>2, <2>3 DEF ResultsInit, ResultsInv
<1> QED BY <1>1, ResultsStep, PTL DEF ResultsSpec

\* The events, one by one.
LEMMA EventsTyped ==
  ASSUME ResultsInv
  PROVE  /\ Len(events) \in Nat /\ DOMAIN events = 1 .. Len(events)
         /\ totalIterations \in Int /\ totalIterations >= 1 /\ totalIterations <= MaxIterations
         /\ MaxIterations \in Nat
         /\ \A n \in DOMAIN events :
              /\ events[n].outcome \in Outcomes /\ events[n].iteration \in Int
              /\ 0 <= events[n].iteration /\ events[n].iteration <= totalIterations - 1
<1>1. Len(events) \in Nat /\ DOMAIN events = 1 .. Len(events)
  BY LenProperties DEF ResultsInv
<1>2. \A n \in DOMAIN events : events[n] \in RequestEvents(totalIterations)
  BY <1>1, ElementOfSeq DEF ResultsInv
<1>3. /\ totalIterations \in Int /\ totalIterations >= 1 /\ totalIterations <= MaxIterations
      /\ MaxIterations \in Nat
  BY ResultsAssumption DEF ResultsInv
<1> QED BY <1>1, <1>2, <1>3 DEF RequestEvents

\* There is a column for every iteration that was announced, and no other.
LEMMA ColumnsAnnounced ==
  ASSUME ResultsInv
  PROVE  Columns = totalIterations
<1> DEFINE IsMax(k) == /\ \A n \in DOMAIN events : events[n].iteration <= k
                       /\ k = 0 \/ \E n \in DOMAIN events : events[n].iteration = k
<1>1. \E k \in 0 .. MaxIterations - 1 : IsMax(k)
  <2>1. CASE DOMAIN events = {}
    <3>1. 0 \in 0 .. MaxIterations - 1
      BY EventsTyped
    <3> QED BY <2>1, <3>1
  <2>2. CASE DOMAIN events # {}
    <3>1. PICK k \in Nat : k = Len(events) /\ k \in DOMAIN events /\ DOMAIN events = 1 .. k
      <4>1. PICK k \in Nat : k = Len(events) /\ DOMAIN events = 1 .. k
        BY EventsTyped
      <4>2. k \in 1 .. k
        BY <2>2, <4>1
      <4> QED BY <4>1, <4>2
    <3>2. \A n \in DOMAIN events : events[n].iteration <= events[k].iteration
      BY <3>1 DEF ResultsInv
    <3>3. events[k].iteration \in 0 .. MaxIterations - 1
      BY <3>1, EventsTyped
    <3> QED BY <3>1, <3>2, <3>3
  <2> QED BY <2>1, <2>2
<1>2. PICK k : k = SeenMax
  OBVIOUS
<1>3. k \in 0 .. MaxIterations - 1 /\ IsMax(k)
  BY <1>1, <1>2 DEF SeenMax
<1>4. k \in Int /\ k <= totalIterations - 1
  BY <1>3, EventsTyped
<1> QED BY <1>2, <1>4, EventsTyped DEF Columns

\* The results of a row: those of its events.
LEMMA ResultOfEvent ==
  ASSUME ResultsInv, NamesOnce, NEW n \in DOMAIN events
  PROVE  /\ events[n].iteration \in DOMAIN IterResults(events[n].name)
         /\ IterResults(events[n].name)[events[n].iteration] = events[n].outcome
<1> DEFINE name == events[n].name
           i == events[n].iteration
           of(k) == {m \in DOMAIN events : events[m].name = name /\ events[m].iteration = k}
<1>1. of(i) = {n}
  BY DEF NamesOnce
<1>2. i \in 0 .. MaxIterations - 1
  BY EventsTyped
<1>3. (CHOOSE m \in of(i) : \A l \in of(i) : l <= m) = n
  <2>1. n <= n
    BY EventsTyped
  <2> QED BY <1>1, <2>1
<1>4. IterResults(name) = [k \in {j \in 0 .. MaxIterations - 1 : of(j) # {}} |->
                             events[CHOOSE m \in of(k) : \A l \in of(k) : l <= m].outcome]
  BY DEF IterResults
<1>5. i \in {j \in 0 .. MaxIterations - 1 : of(j) # {}}
  BY <1>1, <1>2
<1> HIDE DEF of
<1> QED BY <1>3, <1>4, <1>5

LEMMA EventOfResult ==
  ASSUME NEW name, NEW i \in DOMAIN IterResults(name)
  PROVE  i \in 0 .. MaxIterations - 1 /\ \E n \in DOMAIN events : events[n].name = name /\ events[n].iteration = i
BY DEF IterResults

\* A red cell for every request that failed.
LEMMA RedCells ==
  ASSUME ResultsInv, NamesOnce
  PROVE  Cardinality({c \in Rows \X (0 .. Columns - 1) : Cell(c[1], c[2]) = "failed"}) =
           Cardinality({n \in DOMAIN events : ~Passed(events[n].outcome)})
<1> DEFINE FailedEvents == {n \in DOMAIN events : ~Passed(events[n].outcome)}
           Red == {c \in Rows \X (0 .. Columns - 1) : Cell(c[1], c[2]) = "failed"}
           at == [n \in FailedEvents |-> <<events[n].name, events[n].iteration>>]
<1>1. ASSUME NEW n \in FailedEvents PROVE at[n] \in Red
  <2>1. events[n].name \in Rows /\ events[n].iteration \in 0 .. Columns - 1
    BY ColumnsAnnounced, EventsTyped DEF Rows
  <2>2. Cell(events[n].name, events[n].iteration) = "failed"
    BY ResultOfEvent DEF Cell
  <2> QED BY <2>1, <2>2
<1>2. \A m, n \in FailedEvents : at[m] = at[n] => m = n
  BY DEF NamesOnce
<1>3. ASSUME NEW c \in Red PROVE \E n \in FailedEvents : at[n] = c
  <2>1. c = <<c[1], c[2]>> /\ Cell(c[1], c[2]) = "failed"
    OBVIOUS
  <2>2. c[2] \in DOMAIN IterResults(c[1]) /\ ~Passed(IterResults(c[1])[c[2]])
    BY <2>1 DEF Cell
  <2>3. PICK n \in DOMAIN events : events[n].name = c[1] /\ events[n].iteration = c[2]
    BY <2>2, EventOfResult
  <2>4. ~Passed(events[n].outcome)
    BY <2>2, <2>3, ResultOfEvent
  <2> QED BY <2>1, <2>3, <2>4
<1>4. IsFiniteSet(FailedEvents)
  <2>1. IsFiniteSet(1 .. Len(events)) /\ DOMAIN events = 1 .. Len(events)
    BY EventsTyped, UpTo
  <2>2. FailedEvents \subseteq 1 .. Len(events)
    BY <2>1
  <2> QED BY <2>1, <2>2, FS_Subset
<1>5. at \in Bijection(FailedEvents, Red)
  <2>1. at \in [FailedEvents -> Red]
    BY <1>1
  <2>2. at \in Injection(FailedEvents, Red)
    BY <1>2, <2>1 DEF Injection, IsInjective
  <2>3. at \in Surjection(FailedEvents, Red)
    BY <1>3, <2>1 DEF Surjection
  <2> QED BY <2>2, <2>3 DEF Bijection
<1> HIDE DEF FailedEvents, Red, at
<1>6. Cardinality(Red) = Cardinality(FailedEvents)
  BY <1>4, <1>5, FS_Bijection DEF ExistsBijection
<1> QED BY <1>6 DEF FailedEvents, Red

\* What failed is among the lines, unless its row is closed and went on.
LEMMA FailureListed ==
  ASSUME ResultsInv, NamesOnce, NEW n \in DOMAIN events, ~Passed(events[n].outcome)
  PROVE  \/ \E line \in Lines(events[n].name) : line[1] = events[n].iteration
         \/ /\ events[n].name \notin expanded
            /\ \E m \in n + 1 .. Len(events) : events[m].name = events[n].name
<1>1. PICK name, i, outcome :
        name = events[n].name /\ i = events[n].iteration /\ outcome = events[n].outcome
  OBVIOUS
<1>2. i \in DOMAIN IterResults(name) /\ IterResults(name)[i] = outcome
  BY <1>1, ResultOfEvent
<1>3. CASE outcome = Error
  <2>1. <<i, Error>> \in ErrorLines(name)
    BY <1>2, <1>3 DEF ErrorLines
  <2> QED BY <1>1, <2>1 DEF Lines
<1>4. CASE outcome # Error
  <2>1. PICK x : x \in FailedTests(outcome)
    BY <1>1, <1>4 DEF Passed, FailedTests
  <2>2. <<i, x>> \in TestLines(name, i)
    BY <1>2, <2>1 DEF TestLines
  <2>3. CASE name \in expanded
    <3>1. <<i, x>> \in ExpandedLines(name)
      BY <1>2, <2>2 DEF ExpandedLines
    <3>2. <<i, x>> \in Lines(name)
      BY <2>3, <3>1 DEF Lines
    <3> QED BY <1>1, <3>2
  <2>4. CASE name \notin expanded
    <3> DEFINE all == DOMAIN IterResults(name)
    <3>1. all \in SUBSET Nat /\ IsFiniteSet(all)
      <4>1. all \subseteq 0 .. MaxIterations - 1
        BY EventOfResult
      <4>2. IsFiniteSet(0 .. MaxIterations - 1)
        BY ResultsAssumption, FS_Interval
      <4>3. IsFiniteSet(all)
        BY <4>1, <4>2, FS_Subset
      <4> QED BY <4>1, <4>3, ResultsAssumption
    <3>2. PICK last : last = CHOOSE j \in all : \A k \in all : k <= j
      OBVIOUS
    <3>3. last \in all /\ \A k \in all : k <= last
      BY <1>2, <3>1, <3>2, FiniteHasBounds
    <3>4. FailedTestLines(name) = TestLines(name, last)
      BY <3>2 DEF FailedTestLines
    <3>5. CASE last = i
      <4>1. <<i, x>> \in Lines(name)
        BY <2>2, <2>4, <3>4, <3>5 DEF Lines
      <4> QED BY <1>1, <4>1
    <3>6. CASE last # i
      <4>1. PICK m \in DOMAIN events : events[m].name = name /\ events[m].iteration = last
        BY <3>3, EventOfResult
      <4>2. i <= last /\ i \in Nat /\ last \in Nat
        BY <1>2, <3>1, <3>3
      <4>3. ~ (m <= n)
        <5>1. SUFFICES ASSUME m <= n PROVE FALSE
          OBVIOUS
        <5>2. m \in 1 .. Len(events) /\ n \in 1 .. Len(events)
          BY EventsTyped
        <5>3. events[m].iteration <= events[n].iteration
          BY <5>1, <5>2 DEF ResultsInv
        <5> QED BY <1>1, <3>6, <4>1, <4>2, <5>3
      <4>4. m \in n + 1 .. Len(events)
        BY <4>3, EventsTyped
      <4> QED BY <1>1, <2>4, <4>1, <4>4
    <3> QED BY <3>5, <3>6
  <2> QED BY <2>3, <2>4
<1> QED BY <1>3, <1>4

(***************************************************************************)
(* The table of a run agrees with its summary, for any number of           *)
(* iterations and of requests, as long as names are not reused: a red cell *)
(* for each request that failed, and what failed is listed under its row   *)
(* (collection-pane.tsx, buildRows and RunResultsTable).                   *)
(***************************************************************************)
THEOREM FailuresShownHolds == ResultsSpec => []FailuresShown
<1>1. ResultsInv => FailuresShown
  <2>1. SUFFICES ASSUME ResultsInv, NamesOnce
                 PROVE  /\ Cardinality({c \in Rows \X (0 .. Columns - 1) : Cell(c[1], c[2]) = "failed"}) =
                             Cardinality({n \in DOMAIN events : ~Passed(events[n].outcome)})
                        /\ \A n \in DOMAIN events :
                             ~Passed(events[n].outcome) =>
                               \/ \E line \in Lines(events[n].name) : line[1] = events[n].iteration
                               \/ /\ events[n].name \notin expanded
                                  /\ \E m \in n + 1 .. Len(events) : events[m].name = events[n].name
    BY DEF FailuresShown
  <2> QED BY <2>1, RedCells, FailureListed
<1> QED BY <1>1, ResultsInvHolds, PTL

-----------------------------------------------------------------------------
(***************************************************************************)
(* The input that offers variables.                                        *)
(***************************************************************************)

(***************************************************************************)
(* The invariant of the input: the cursor is in the text that is shown,    *)
(* and while a list is open the marked name is one of it.                  *)
(***************************************************************************)
InputInv ==
  /\ values \in [InputTabs -> Seq(Symbols)] /\ shownTab \in InputTabs
  /\ cursor \in 0 .. Len(Value)
  /\ dropdownItems \in Seq(Seq(Letters))
  /\ dropdownOpen => activeIndex \in DOMAIN dropdownItems

DropdownInv ==
  /\ dropdownItems \in Seq(Seq(Letters))
  /\ dropdownOpen => activeIndex \in DOMAIN dropdownItems

LEMMA OfferedNames ==
  ASSUME NEW value, NEW pos
  PROVE  Offered(value, pos) \in Seq(Seq(Letters))
<1>1. PICK partial : partial = SubSeq(value, ContextStart(value, pos) + 1, pos)
  OBVIOUS
<1>2. PICK S : S = {n \in DOMAIN Suggestions : IsPrefix(partial, Suggestions[n]) /\ Suggestions[n] # partial}
  OBVIOUS
<1>3. Suggestions \in Seq(Seq(Letters)) /\ DOMAIN Suggestions = 1 .. Len(Suggestions)
  BY InputAssumption, LenProperties
<1>4. S \in SUBSET (1 .. Len(Suggestions))
  BY <1>2, <1>3
<1>5. Among(Suggestions, S) \in Seq(Seq(Letters))
  BY <1>3, <1>4, AmongSelects DEF IsSelection
<1>6. Offered(value, pos) = IF ContextStart(value, pos) = 0 THEN <<>> ELSE Among(Suggestions, S)
  BY <1>1, <1>2 DEF Offered
<1>7. <<>> \in Seq(Seq(Letters))
  BY EmptySeq
<1> QED BY <1>5, <1>6, <1>7

LEMMA UpdateKeeps ==
  ASSUME DropdownInv, NEW value, NEW pos, UpdateDropdown(value, pos)
  PROVE  DropdownInv'
<1>1. PICK items : items = Offered(value, pos)
  OBVIOUS
<1>2. items \in Seq(Seq(Letters))
  BY <1>1, OfferedNames
<1>3. CASE items = <<>>
  BY <1>1, <1>3 DEF UpdateDropdown, DropdownInv
<1>4. CASE items # <<>>
  <2>1. dropdownItems' = items /\ activeIndex' = 1
    BY <1>1, <1>4 DEF UpdateDropdown
  <2>2. Len(items) \in Nat /\ DOMAIN items = 1 .. Len(items) /\ Len(items) # 0
    BY <1>2, <1>4, LenProperties, EmptySeq
  <2>3. 1 \in DOMAIN items
    BY <2>2
  <2> QED BY <1>2, <2>1, <2>3 DEF DropdownInv
<1> QED BY <1>3, <1>4

\* Where a reference begins: the last "{{" before the cursor, if there is no
\* "}}" behind it.
LEMMA Context ==
  ASSUME NEW value, NEW pos \in Nat, NEW start, start = ContextStart(value, pos), start # 0
  PROVE  /\ start \in 1 .. pos /\ value[start] = OpenBraces
         /\ \A n \in start + 1 .. pos : value[n] \notin {OpenBraces, CloseBraces}
<1> DEFINE opens == {n \in 1 .. pos : value[n] = OpenBraces}
           IsLast(n) == \A m \in opens : m <= n
<1>1. PICK last : last = CHOOSE n \in opens : IsLast(n)
  OBVIOUS
<1>2. opens # {} /\ (\A n \in last .. pos : value[n] # CloseBraces) /\ start = last
  BY <1>1 DEF ContextStart
<1>3. opens \in SUBSET Nat /\ IsFiniteSet(opens)
  <2>1. IsFiniteSet(1 .. pos)
    BY UpTo
  <2>2. opens \subseteq 1 .. pos
    OBVIOUS
  <2>3. IsFiniteSet(opens)
    BY <2>1, <2>2, FS_Subset
  <2> QED BY <2>3
<1>4. \E n \in opens : IsLast(n)
  <2> HIDE DEF opens
  <2> QED BY <1>2, <1>3, FiniteHasBounds
<1>5. last \in opens /\ IsLast(last)
  BY <1>1, <1>4
<1>6. ASSUME NEW n \in start + 1 .. pos PROVE value[n] \notin {OpenBraces, CloseBraces}
  <2>1. last \in 1 .. pos /\ n \in 1 .. pos /\ n > last /\ n \in last .. pos
    BY <1>2, <1>5
  <2>2. n \notin opens
    BY <1>5, <2>1
  <2> QED BY <1>2, <2>1, <2>2
<1> QED BY <1>2, <1>5, <1>6

\* A text with a completion in it.
Completion(value, start, key, end) ==
  SubSeq(value, 1, start) \o key \o <<CloseBraces>> \o SubSeq(value, end + 1, Len(value))
IsCompleted(v, start, key) ==
  /\ v \in Seq(Symbols) /\ start + Len(key) + 1 \in 1 .. Len(v)
  /\ v[start] = OpenBraces /\ v[start + Len(key) + 1] = CloseBraces
  /\ \A n \in start + 1 .. start + Len(key) : v[n] \in Letters

LEMMA Completed ==
  ASSUME NEW value \in Seq(Symbols), NEW pos \in 0 .. Len(value), NEW key \in Seq(Letters),
         NEW start \in 1 .. pos, value[start] = OpenBraces, NEW end \in Nat, end <= Len(value),
         NEW v, v = Completion(value, start, key, end)
  PROVE  IsCompleted(v, start, key)
<1>1. PICK l \in Nat, k \in Nat : l = Len(value) /\ k = Len(key)
  BY LenProperties
<1>2. PICK a, b : a = SubSeq(value, 1, start) /\ b = SubSeq(value, end + 1, Len(value))
  OBVIOUS
<1>3. start <= l /\ start \in Nat /\ 1 <= start /\ 1 <= start + 1 /\ end + 1 \in Nat \ {0} /\ end + 1 <= l + 1
  BY <1>1
<1>4. IsPiece(a, Symbols, value, 1, start)
  BY <1>1, <1>2, <1>3, Piece
<1>5. IsPiece(b, Symbols, value, end + 1, l)
  BY <1>1, <1>2, <1>3, Piece
<1>6. a \in Seq(Symbols) /\ Len(a) = start /\ a[start] = OpenBraces
  <2>1. a \in Seq(Symbols) /\ Len(a) = start /\ \A x \in 1 .. start : a[x] = value[1 + x - 1]
    BY <1>3, <1>4 DEF IsPiece
  <2>2. start \in 1 .. start /\ 1 + start - 1 = start
    BY <1>3
  <2> QED BY <2>1, <2>2
<1>7. b \in Seq(Symbols) /\ Len(b) \in Nat
  BY <1>5, LenProperties DEF IsPiece
<1>8. key \in Seq(Symbols) /\ \A n \in 1 .. k : key[n] \in Letters
  <2>1. key \in [1 .. k -> Letters]
    BY <1>1, LenProperties
  <2>2. key \in [1 .. k -> Symbols]
    BY <2>1 DEF Symbols
  <2>3. key \in Seq(Symbols)
    BY <2>2, SeqDef
  <2> QED BY <2>1, <2>3
<1>9. PICK p : p = a \o key
  OBVIOUS
<1>10. IsRow(p, Symbols, a, key)
  BY <1>6, <1>8, <1>9, InARow
<1>11. /\ p \in Seq(Symbols) /\ Len(p) = start + k /\ p[start] = OpenBraces
       /\ \A n \in start + 1 .. start + k : p[n] \in Letters
  <2>1. /\ p \in Seq(Symbols) /\ Len(p) = start + k
        /\ \A n \in 1 .. start + k : p[n] = IF n <= start THEN a[n] ELSE key[n - start]
    BY <1>1, <1>6, <1>10 DEF IsRow
  <2>2. start \in 1 .. start + k
    BY <1>3
  <2>3. \A n \in start + 1 .. start + k : n \in 1 .. start + k /\ ~ (n <= start) /\ n - start \in 1 .. k
    BY <1>3
  <2>4. p[start] = OpenBraces
    BY <1>3, <1>6, <2>1, <2>2
  <2>5. ASSUME NEW n \in start + 1 .. start + k PROVE p[n] \in Letters
    <3>1. p[n] = key[n - start] /\ n - start \in 1 .. k
      BY <2>1, <2>3
    <3> QED BY <1>8, <3>1
  <2> QED BY <2>1, <2>4, <2>5
<1>12. PICK close : close = <<CloseBraces>>
  OBVIOUS
<1>13. close \in Seq(Symbols) /\ Len(close) = 1 /\ close[1] = CloseBraces
  <2>1. CloseBraces \in Symbols
    BY DEF Symbols
  <2> QED BY <1>12, <2>1
<1>14. PICK q : q = p \o close
  OBVIOUS
<1>15. IsRow(q, Symbols, p, close)
  BY <1>11, <1>13, <1>14, InARow
<1>16. PICK m \in Nat : m = start + k
  BY <1>3
<1>17. /\ q \in Seq(Symbols) /\ Len(q) = m + 1 /\ q[start] = OpenBraces /\ q[m + 1] = CloseBraces
       /\ \A n \in start + 1 .. m : q[n] \in Letters
  <2>1. /\ q \in Seq(Symbols) /\ Len(q) = m + 1
        /\ \A n \in 1 .. m + 1 : q[n] = IF n <= m THEN p[n] ELSE close[n - m]
    BY <1>11, <1>13, <1>15, <1>16 DEF IsRow
  <2>2. start \in 1 .. m + 1 /\ start <= m /\ m + 1 \in 1 .. m + 1 /\ ~ (m + 1 <= m) /\ m + 1 - m = 1
    BY <1>3, <1>16
  <2>3. \A n \in start + 1 .. m : n \in 1 .. m + 1 /\ n <= m
    BY <1>3
  <2>4. q[start] = OpenBraces
    BY <1>11, <2>1, <2>2
  <2>5. q[m + 1] = CloseBraces
    BY <1>13, <2>1, <2>2
  <2>6. \A n \in start + 1 .. m : q[n] \in Letters
    BY <1>11, <1>16, <2>1, <2>3
  <2> QED BY <2>1, <2>4, <2>5, <2>6
<1>18. v = q \o b
  BY <1>2, <1>9, <1>12, <1>14 DEF Completion
<1>19. IsRow(v, Symbols, q, b)
  BY <1>7, <1>17, <1>18, InARow
<1>20. PICK j \in Nat : j = Len(b)
  BY <1>7
<1>21. /\ v \in Seq(Symbols) /\ Len(v) = m + 1 + j
       /\ \A n \in 1 .. m + 1 + j : v[n] = IF n <= m + 1 THEN q[n] ELSE b[n - (m + 1)]
  BY <1>17, <1>19, <1>20 DEF IsRow
<1>22. ASSUME NEW n \in 1 .. m + 1 PROVE v[n] = q[n]
  <2>1. n \in 1 .. m + 1 + j /\ n <= m + 1
    OBVIOUS
  <2> QED BY <1>21, <2>1
<1>23. start \in 1 .. m + 1 /\ m + 1 \in 1 .. m + 1 /\ \A n \in start + 1 .. m : n \in 1 .. m + 1
  BY <1>3, <1>16
<1>24. v[start] = OpenBraces /\ v[m + 1] = CloseBraces /\ \A n \in start + 1 .. m : v[n] \in Letters
  BY <1>17, <1>22, <1>23
<1>25. m + 1 \in 1 .. Len(v)
  BY <1>21
<1> QED BY <1>1, <1>16, <1>21, <1>24, <1>25 DEF IsCompleted

\* What the choice of a name does, where it does anything.
AppliedAt(key, start, end) ==
  /\ values' = [values EXCEPT ![shownTab] = Completion(Value, start, key, end)]
  /\ IsCompleted(Completion(Value, start, key, end), start, key)
  /\ cursor' = start + Len(key) + 1
  /\ \A n \in start + 1 .. cursor : Value[n] \in Letters
  /\ end > cursor => end <= Len(Value) /\ Value[end] = CloseBraces
  /\ dropdownOpen' = FALSE /\ dropdownItems' = dropdownItems

LEMMA ValueTyped ==
  ASSUME InputInv
  PROVE  Value \in Seq(Symbols) /\ Len(Value) \in Nat /\ cursor \in Nat /\ cursor <= Len(Value)
<1>1. Value \in Seq(Symbols)
  BY DEF InputInv, Value
<1>2. Len(Value) \in Nat
  BY <1>1, LenProperties
<1> QED BY <1>1, <1>2 DEF InputInv

LEMMA Applies ==
  ASSUME InputInv, NEW key \in Seq(Letters), ApplyCompletion(key)
  PROVE  \/ UNCHANGED <<values, cursor, dropdownVars>>
         \/ \E start \in 1 .. cursor : \E end \in {cursor, cursor + 1} : AppliedAt(key, start, end)
<1>1. PICK start, end :
        /\ start = ContextStart(Value, cursor)
        /\ end = IF cursor < Len(Value) /\ Value[cursor + 1] = CloseBraces THEN cursor + 1 ELSE cursor
  OBVIOUS
<1>2. CASE start = 0
  BY <1>1, <1>2 DEF ApplyCompletion
<1>3. CASE start # 0
  <2>1. /\ start \in 1 .. cursor /\ Value[start] = OpenBraces
        /\ \A n \in start + 1 .. cursor : Value[n] \notin {OpenBraces, CloseBraces}
    BY <1>1, <1>3, ValueTyped, Context
  <2>2. /\ end \in {cursor, cursor + 1} /\ end \in Nat /\ end <= Len(Value)
        /\ end > cursor => Value[end] = CloseBraces
    BY <1>1, ValueTyped
  <2>3. PICK v : v = Completion(Value, start, key, end)
    OBVIOUS
  <2>4. IsCompleted(v, start, key)
    BY <2>1, <2>2, <2>3, ValueTyped, Completed
  <2>5. \A n \in start + 1 .. cursor : Value[n] \in Letters
    <3>1. ASSUME NEW n \in start + 1 .. cursor PROVE Value[n] \in Letters
      <4>1. n \in 1 .. Len(Value)
        BY <2>1, ValueTyped
      <4>2. Value[n] \in Symbols
        BY <4>1, ValueTyped, ElementOfSeq
      <4> QED BY <2>1, <4>2 DEF Symbols
    <3> QED BY <3>1
  <2>6. /\ values' = [values EXCEPT ![shownTab] = v] /\ cursor' = start + Len(key) + 1
        /\ dropdownOpen' = FALSE /\ dropdownItems' = dropdownItems
    BY <1>1, <1>3, <2>3 DEF ApplyCompletion, Completion, Value
  <2>7. AppliedAt(key, start, end)
    BY <2>2, <2>3, <2>4, <2>5, <2>6 DEF AppliedAt
  <2> QED BY <2>1, <2>2, <2>7
<1> QED BY <1>2, <1>3

LEMMA AppliedKeeps ==
  ASSUME InputInv, NEW key \in Seq(Letters), NEW start, NEW end, AppliedAt(key, start, end),
         shownTab' = shownTab
  PROVE  InputInv'
<1>1. PICK v : v = Completion(Value, start, key, end)
  OBVIOUS
<1>2. v \in Seq(Symbols) /\ start + Len(key) + 1 \in 1 .. Len(v) /\ Len(v) \in Nat
  BY <1>1, LenProperties DEF AppliedAt, IsCompleted
<1>3. values' \in [InputTabs -> Seq(Symbols)] /\ values'[shownTab] = v
  BY <1>1, <1>2 DEF AppliedAt, InputInv
<1>4. shownTab' \in InputTabs /\ Value' = v
  BY <1>3 DEF InputInv, Value
<1>5. cursor' \in 0 .. Len(v)
  BY <1>2 DEF AppliedAt
<1>6. dropdownItems' \in Seq(Seq(Letters)) /\ ~dropdownOpen'
  BY DEF AppliedAt, InputInv
<1> QED BY <1>3, <1>4, <1>5, <1>6 DEF InputInv

\* A name is chosen, by key or mouse: one of the list that is open.
LEMMA NameChosen ==
  ASSUME InputInv, Enter \/ MouseDown
  PROVE  /\ shownTab' = shownTab
         /\ \E n \in DOMAIN dropdownItems : ApplyCompletion(dropdownItems[n])
<1>1. dropdownOpen
  BY DEF Enter, MouseDown
<1>2. activeIndex \in DOMAIN dropdownItems
  BY <1>1 DEF InputInv
<1>3. Enter => ApplyCompletion(dropdownItems[activeIndex])
  BY <1>2 DEF Enter
<1> QED BY <1>2, <1>3 DEF Enter, MouseDown

LEMMA NameTyped ==
  ASSUME InputInv, NEW n \in DOMAIN dropdownItems
  PROVE  dropdownItems[n] \in Seq(Letters)
BY LenProperties, ElementOfSeq DEF InputInv

LEMMA ChoiceKeeps ==
  ASSUME InputInv, Enter \/ MouseDown
  PROVE  InputInv'
<1>1. PICK n \in DOMAIN dropdownItems : ApplyCompletion(dropdownItems[n])
  BY NameChosen
<1>2. shownTab' = shownTab
  BY NameChosen
<1>3. PICK key \in Seq(Letters) : ApplyCompletion(key)
  BY <1>1, NameTyped
<1>4. CASE UNCHANGED <<values, cursor, dropdownVars>>
  BY <1>2, <1>4 DEF InputInv, dropdownVars, Value
<1>5. CASE \E start \in 1 .. cursor : \E end \in {cursor, cursor + 1} : AppliedAt(key, start, end)
  BY <1>2, <1>5, AppliedKeeps
<1> QED BY <1>3, <1>4, <1>5, Applies

\* A text is written, with the cursor in it, and the list made anew.
LEMMA WrittenKeeps ==
  ASSUME InputInv, NEW value \in Seq(Symbols), NEW pos, pos \in 0 .. Len(value),
         values' = [values EXCEPT ![shownTab] = value], cursor' = pos, shownTab' = shownTab,
         UpdateDropdown(value, pos)
  PROVE  InputInv'
<1>1. values' \in [InputTabs -> Seq(Symbols)] /\ values'[shownTab] = value
  BY DEF InputInv
<1>2. Value' = value
  BY <1>1 DEF Value
<1>3. DropdownInv'
  BY UpdateKeeps DEF DropdownInv, InputInv
<1> QED BY <1>1, <1>2, <1>3 DEF DropdownInv, InputInv

LEMMA InputStep ==
  ASSUME InputInv, [InputNext]_inputVars
  PROVE  InputInv'
<1>1. CASE HandleChange
  <2>1. PICK s \in Symbols :
          LET value == InsertAt(Value, cursor + 1, s)
          IN /\ values' = [values EXCEPT ![shownTab] = value] /\ cursor' = cursor + 1
             /\ UpdateDropdown(value, cursor + 1)
    BY <1>1 DEF HandleChange
  <2>2. PICK value : value = InsertAt(Value, cursor + 1, s)
    OBVIOUS
  <2>3. cursor + 1 \in 1 .. Len(Value) + 1
    BY ValueTyped
  <2>4. IsWith(value, Symbols, Value, cursor + 1, s)
    BY <2>2, <2>3, ValueTyped, Inserted
  <2>5. value \in Seq(Symbols) /\ Len(value) = Len(Value) + 1
    BY <2>4 DEF IsWith
  <2>6. cursor + 1 \in 0 .. Len(value)
    BY <2>5, ValueTyped
  <2>7. shownTab' = shownTab
    BY <1>1 DEF HandleChange
  <2> QED BY <2>1, <2>2, <2>5, <2>6, <2>7, WrittenKeeps
<1>2. CASE Backspace
  <2>1. PICK value : value = RemoveAt(Value, cursor)
    OBVIOUS
  <2>2. /\ cursor > 0 /\ shownTab' = shownTab
        /\ values' = [values EXCEPT ![shownTab] = value] /\ cursor' = cursor - 1
        /\ UpdateDropdown(value, cursor - 1)
    BY <1>2, <2>1 DEF Backspace
  <2>3. cursor \in 1 .. Len(Value)
    BY <2>2, ValueTyped
  <2>4. IsWithout(value, Symbols, Value, cursor)
    BY <2>1, <2>3, ValueTyped, Removed
  <2>5. value \in Seq(Symbols) /\ Len(value) = Len(Value) - 1
    BY <2>4 DEF IsWithout
  <2>6. cursor - 1 \in 0 .. Len(value)
    BY <2>3, <2>5, ValueTyped
  <2> QED BY <2>2, <2>5, <2>6, WrittenKeeps
<1>3. CASE Arrow
  <2>1. UNCHANGED <<values, shownTab, cursor, dropdownOpen, dropdownItems>> /\ dropdownOpen
    BY <1>3 DEF Arrow
  <2>2. PICK k \in Nat : k = Len(dropdownItems) /\ DOMAIN dropdownItems = 1 .. k
    BY LenProperties DEF InputInv
  <2>3. activeIndex \in 1 .. k
    BY <2>1, <2>2 DEF InputInv
  <2>4. activeIndex' \in {IF activeIndex < k THEN activeIndex + 1 ELSE k,
                          IF activeIndex > 1 THEN activeIndex - 1 ELSE 1}
    BY <1>3, <2>2 DEF Arrow
  <2>5. activeIndex' \in DOMAIN dropdownItems
    BY <2>2, <2>3, <2>4
  <2> QED BY <2>1, <2>5 DEF InputInv, Value
<1>4. CASE Enter \/ MouseDown
  BY <1>4, ChoiceKeeps
<1>5. CASE Escape
  BY <1>5 DEF Escape, InputInv, Value
<1>6. CASE MouseEnter
  BY <1>6 DEF MouseEnter, InputInv, Value
<1>7. CASE MoveCursor
  BY <1>7 DEF MoveCursor, InputInv, Value, dropdownVars
<1>8. CASE HandleFocus \/ HandleBlur \/ UNCHANGED inputVars
  <2>1. UNCHANGED <<values, shownTab, cursor, dropdownVars>>
    BY <1>8 DEF HandleFocus, HandleBlur, inputVars
  <2> QED BY <2>1 DEF InputInv, Value, dropdownVars
<1>9. CASE CloseLater
  BY <1>9 DEF CloseLater, InputInv, Value
<1>10. CASE SwitchInputTab
  <2>1. PICK t \in InputTabs : /\ shownTab' = t
                               /\ cursor' = IF values[t] = Value THEN cursor ELSE Len(values[t])
    BY <1>10 DEF SwitchInputTab
  <2>2. values' = values /\ UNCHANGED dropdownVars
    BY <1>10 DEF SwitchInputTab
  <2>3. Value' = values[t] /\ values[t] \in Seq(Symbols)
    BY <2>1, <2>2 DEF Value, InputInv
  <2>4. Len(values[t]) \in Nat
    BY <2>3, LenProperties
  <2>5. cursor' \in 0 .. Len(values[t])
    <3>1. CASE values[t] = Value
      BY <2>1, <3>1 DEF InputInv
    <3>2. CASE values[t] # Value
      BY <2>1, <2>4, <3>2
    <3> QED BY <3>1, <3>2
  <2>6. cursor' \in 0 .. Len(Value')
    BY <2>3, <2>5
  <2> QED BY <2>1, <2>2, <2>6 DEF InputInv, dropdownVars
<1> QED BY <1>1, <1>2, <1>3, <1>4, <1>5, <1>6, <1>7, <1>8, <1>9, <1>10 DEF InputNext, InputAct

LEMMA InputInvHolds == InputSpec => []InputInv
<1>1. InputInit => InputInv
  <2>1. SUFFICES ASSUME InputInit PROVE InputInv
    OBVIOUS
  <2>2. <<>> \in Seq(Symbols) /\ <<>> \in Seq(Seq(Letters))
    BY EmptySeq
  <2>3. <<OpenBraces>> \in Seq(Symbols)
    <3>1. OpenBraces \in Symbols
      BY DEF Symbols
    <3> QED BY <3>1
  <2>4. values \in [InputTabs -> Seq(Symbols)]
    BY <2>1, <2>2, <2>3 DEF InputInit
  <2>5. shownTab \in InputTabs /\ cursor = 0 /\ dropdownItems = <<>> /\ ~dropdownOpen
    BY <2>1 DEF InputInit
  <2>6. Value \in Seq(Symbols)
    BY <2>4, <2>5 DEF Value
  <2>7. cursor \in 0 .. Len(Value)
    <3>1. Len(Value) \in Nat
      BY <2>6, LenProperties
    <3> QED BY <2>5, <3>1
  <2> QED BY <2>2, <2>4, <2>5, <2>7 DEF InputInv
<1> QED BY <1>1, InputStep, PTL DEF InputSpec

\* The completion is a reference where it is.
LEMMA IsToken ==
  ASSUME NEW v, NEW start \in Nat \ {0}, NEW key \in Seq(Letters), IsCompleted(v, start, key)
  PROVE  <<start, start + Len(key) + 1>> \in VarTokens(v)
<1>1. PICK k \in Nat : k = Len(key)
  BY LenProperties
<1>2. PICK e \in Nat : e = start + k + 1
  OBVIOUS
<1>3. /\ v \in Seq(Symbols) /\ e \in 1 .. Len(v) /\ v[start] = OpenBraces /\ v[e] = CloseBraces
      /\ \A n \in start + 1 .. start + k : v[n] \in Letters
  BY <1>1, <1>2 DEF IsCompleted
<1>4. Len(v) \in Nat /\ DOMAIN v = 1 .. Len(v)
  BY <1>3, LenProperties
<1>5. start \in DOMAIN v /\ e \in DOMAIN v /\ start < e
  BY <1>2, <1>3, <1>4
<1>6. ASSUME NEW n \in start + 1 .. e - 1 PROVE v[n] \notin {OpenBraces, CloseBraces}
  <2>1. n \in start + 1 .. start + k
    BY <1>2
  <2> QED BY <1>3, <2>1, InputAssumption
<1>7. <<start, e>> \in VarTokens(v)
  BY <1>3, <1>5, <1>6 DEF VarTokens
<1> QED BY <1>1, <1>2, <1>7

(***************************************************************************)
(* Whenever a name is taken from the list, by key or mouse, and however    *)
(* old the list is: it stands as a reference in the text of the tab that   *)
(* is shown, in the place of what was typed of a name and one "}}", and    *)
(* nothing else is lost (variable-input.tsx, applyCompletion).             *)
(***************************************************************************)
THEOREM CompletionInPlaceHolds == InputSpec => CompletionInPlace
<1> DEFINE InPlace(key, i, j) ==
             /\ values'[shownTab] = SubSeq(Value, 1, i) \o key \o <<CloseBraces>> \o SubSeq(Value, j + 1, Len(Value))
             /\ \A n \in i + 1 .. cursor : Value[n] \in Letters
             /\ j > cursor => j <= Len(Value) /\ Value[j] = CloseBraces
             /\ <<i, i + Len(key) + 1>> \in VarTokens(values'[shownTab])
           Taken == values' # values /\ (Enter \/ MouseDown) =>
             /\ \A t \in InputTabs \ {shownTab} : values'[t] = values[t]
             /\ \E key \in ToSet(dropdownItems), i \in 1 .. cursor, j \in {cursor, cursor + 1} : InPlace(key, i, j)
<1>1. InputInv => Taken
  <2>1. SUFFICES ASSUME InputInv, values' # values, Enter \/ MouseDown
                 PROVE  /\ \A t \in InputTabs \ {shownTab} : values'[t] = values[t]
                        /\ \E key \in ToSet(dropdownItems) : \E i \in 1 .. cursor :
                             \E j \in {cursor, cursor + 1} : InPlace(key, i, j)
    OBVIOUS
  <2>2. PICK x \in DOMAIN dropdownItems : ApplyCompletion(dropdownItems[x])
    BY <2>1, NameChosen
  <2>3. PICK key : key = dropdownItems[x]
    OBVIOUS
  <2>4. key \in Seq(Letters) /\ key \in ToSet(dropdownItems) /\ ApplyCompletion(key)
    BY <2>1, <2>2, <2>3, NameTyped DEF ToSet
  <2>5. PICK i \in 1 .. cursor : \E j \in {cursor, cursor + 1} : AppliedAt(key, i, j)
    BY <2>1, <2>4, Applies
  <2>6. PICK j \in {cursor, cursor + 1} : AppliedAt(key, i, j)
    BY <2>5
  <2>7. PICK v : v = Completion(Value, i, key, j)
    OBVIOUS
  <2>8. values' = [values EXCEPT ![shownTab] = v] /\ IsCompleted(v, i, key)
    BY <2>6, <2>7 DEF AppliedAt
  <2>9. values'[shownTab] = v /\ \A t \in InputTabs \ {shownTab} : values'[t] = values[t]
    BY <2>1, <2>8 DEF InputInv
  <2>10. i \in Nat \ {0}
    BY <2>1, ValueTyped
  <2>11. <<i, i + Len(key) + 1>> \in VarTokens(v)
    BY <2>4, <2>8, <2>10, IsToken
  <2>12. v = SubSeq(Value, 1, i) \o key \o <<CloseBraces>> \o SubSeq(Value, j + 1, Len(Value))
    BY <2>7 DEF Completion
  <2>13. /\ \A n \in i + 1 .. cursor : Value[n] \in Letters
         /\ j > cursor => j <= Len(Value) /\ Value[j] = CloseBraces
    BY <2>6 DEF AppliedAt
  <2>14. InPlace(key, i, j)
    BY <2>9, <2>11, <2>12, <2>13
  <2> HIDE DEF InPlace
  <2> QED BY <2>4, <2>9, <2>14
<1> QED BY <1>1, InputInvHolds, PTL DEF CompletionInPlace

-----------------------------------------------------------------------------
(***************************************************************************)
(* The workspace store and the documents of the agent.                     *)
(***************************************************************************)

(***************************************************************************)
(* The invariant of the workspace sync, for a document and its calls.      *)
(*                                                                         *)
(* An id that was not given out is nowhere, and one that is being imported *)
(* is known to nobody yet, and no other call is about it.                  *)
(***************************************************************************)
CallsOf(d) == {c \in calls : c.doc = d}
Absent(d) ==
  /\ store[d] = 0 /\ disk[d] = 0
  /\ queryData[Kind[d]].docs[d] = 0 /\ listed[Kind[d]].docs[d] = 0
UnusedAbsent == \A d \in Docs \ used : Absent(d) /\ CallsOf(d) = {}
ImportsAbsent ==
  \A c \in calls : c.import =>
    Absent(c.doc) /\ c.version # 0 /\ c.doc \in Importable /\ \A e \in calls : e.doc = c.doc => e = c

(* Sync is on when both queries have been answered.                        *)
QueriesKnown ==
  /\ ready <=> AllKnown(queryData)
  /\ \A k \in Kinds : /\ queries[k] = "idle" => queryData[k].known
                      /\ queries[k] = "answered" => listed[k].known

(***************************************************************************)
(* A document with no two accesses at once: it has one call at most.       *)
(* While a list that has it is under way, or while sync is off and its     *)
(* kind is known, nothing is sent of it but an import, and what was listed *)
(* is on the disk.  Once sync is on, what is sent of it is what the store  *)
(* has; and when nothing is, the disk has what the store has, unless its   *)
(* kind is being listed again and the list will be another.                *)
(***************************************************************************)
OnlyImports(d) == \A c \in CallsOf(d) : c.import
Calm(d) ==
  LET k == Kind[d] IN
  /\ \A c, e \in CallsOf(d) : c = e
  /\ queries[k] = "answered" => OnlyImports(d) /\ listed[k].docs[d] = disk[d]
  /\ ~ready /\ queryData[k].known =>
       OnlyImports(d) /\ (queries[k] = "idle" => queryData[k].docs[d] = disk[d])
  /\ ready => \A c \in CallsOf(d) : ~c.import => c.version = store[d]
  /\ ready /\ CallsOf(d) = {} =>
       store[d] = disk[d] \/ (queries[k] # "idle" /\ queryData[k].docs[d] # disk[d])
UndisturbedCalm == \A d \in Docs \ disturbed : Calm(d)

SyncInv == SyncTypeOK /\ UnusedAbsent /\ ImportsAbsent /\ QueriesKnown /\ UndisturbedCalm

LEMMA SyncInvInit == SyncInit => SyncInv
<1> SUFFICES ASSUME SyncInit
             PROVE  SyncInv
  OBVIOUS
<1> USE DocsAssumption
<1>1. SyncTypeOK
  <2>1. 0 \in Versions /\ 1 \in Versions
    BY DEF Versions
  <2>2. NoDocs \in [Docs -> Versions] /\ disk \in [Docs -> Versions]
    BY <2>1 DEF SyncInit, NoDocs
  <2>3. \A k \in Kinds : Unknown(k) \in [known : BOOLEAN, docs : [Of(k) -> Versions]]
    BY <2>1 DEF Unknown
  <2>4. queries \in [Kinds -> {"idle", "asked", "answered"}]
    BY DEF SyncInit
  <2>5. calls \subseteq [doc : Docs, version : Versions, import : BOOLEAN]
    BY DEF SyncInit
  <2>6. DOMAIN queryData = Kinds /\ \A k \in Kinds : queryData[k] = Unknown(k)
    BY DEF SyncInit
  <2>7. DOMAIN listed = Kinds /\ \A k \in Kinds : listed[k] = Unknown(k)
    BY DEF SyncInit
  <2>8. \A k \in Kinds : {queryData[k], listed[k]} \subseteq [known : BOOLEAN, docs : [Of(k) -> Versions]]
    BY <2>3, <2>6, <2>7
  <2>9. /\ store = NoDocs /\ ready = FALSE /\ edits = 1
        /\ used \subseteq Docs /\ disturbed \subseteq Docs
    BY DEF SyncInit
  <2> QED BY <2>1, <2>2, <2>4, <2>5, <2>6, <2>7, <2>8, <2>9 DEF SyncTypeOK
<1>2. \A d \in Docs : Kind[d] \in Kinds /\ d \in Of(Kind[d])
  BY DEF Of
<1>3. UnusedAbsent
  BY <1>2 DEF SyncInit, UnusedAbsent, Absent, CallsOf, NoDocs, Unknown
<1>4. ImportsAbsent
  BY DEF SyncInit, ImportsAbsent
<1>5. QueriesKnown
  BY DEF SyncInit, QueriesKnown, AllKnown, Unknown, Kinds
<1>6. UndisturbedCalm
  <2>1. ASSUME NEW d \in Docs
        PROVE  CallsOf(d) = {} /\ ~ready /\ queries[Kind[d]] = "asked" /\ ~queryData[Kind[d]].known
    BY <1>2 DEF SyncInit, CallsOf, Unknown
  <2> QED BY <2>1 DEF UndisturbedCalm, Calm
<1> QED BY <1>1, <1>3, <1>4, <1>5, <1>6 DEF SyncInv

(* What the user does to the store changes d, and other documents only if  *)
(* they are there.                                                         *)
EditOf(d, curr) ==
  /\ Change(curr) /\ UserActs(d) /\ curr \in [Docs -> Versions]
  /\ \A x \in Docs : x = d \/ curr[x] = store[x] \/ store[x] # 0
  /\ d \notin Importable \/ store[d] # 0
  /\ UNCHANGED <<ready, queryData, queries, listed, disk>>

LEMMA SyncEditStep ==
  ASSUME SyncInv, NEW d \in Docs, NEW curr, EditOf(d, curr)
  PROVE  SyncInv'
<1> USE DocsAssumption
<1>1. calls \subseteq calls' /\ \A c \in calls' \ calls :
        ready /\ c.doc \in Docs /\ curr[c.doc] # store[c.doc] /\ ~c.import /\ c.version = curr[c.doc]
  BY DEF EditOf, Change, Diff
<1>2. \A x \in Docs : ready /\ curr[x] # store[x] => \E c \in calls' : c.doc = x
  <2> SUFFICES ASSUME NEW x \in Docs, ready, curr[x] # store[x]
               PROVE  \E c \in calls' : c.doc = x
    OBVIOUS
  <2> DEFINE c == [doc |-> x, version |-> curr[x], import |-> FALSE]
  <2>1. c \in Diff(curr)
    BY DEF Diff
  <2> QED BY <2>1 DEF EditOf, Change
<1>3. SyncTypeOK'
  <2>1. Diff(curr) \subseteq [doc : Docs, version : Versions, import : BOOLEAN]
    <3>1. \A x \in Docs : [doc |-> x, version |-> curr[x], import |-> FALSE]
                             \in [doc : Docs, version : Versions, import : BOOLEAN]
      BY DEF EditOf
    <3> QED BY <3>1 DEF Diff
  <2>2. calls' \subseteq [doc : Docs, version : Versions, import : BOOLEAN]
    BY <2>1 DEF EditOf, Change, SyncInv, SyncTypeOK
  <2>3. edits' \in Versions
    BY DEF EditOf, UserActs, SyncInv, SyncTypeOK, Versions
  <2> QED BY <2>2, <2>3 DEF EditOf, Change, UserActs, SyncInv, SyncTypeOK
<1>4. UnusedAbsent'
  BY <1>1 DEF SyncInv, UnusedAbsent, Absent, CallsOf, EditOf, Change, UserActs
<1>5. ImportsAbsent'
  <2> SUFFICES ASSUME NEW c \in calls', c.import
               PROVE  (Absent(c.doc) /\ c.version # 0 /\ c.doc \in Importable)' /\ \A e \in calls' : e.doc = c.doc => e = c
    BY DEF ImportsAbsent
  <2>1. c \in calls /\ c.doc \in Docs
    BY <1>1 DEF SyncInv, SyncTypeOK
  <2>2. Absent(c.doc) /\ c.version # 0 /\ c.doc \in Importable /\ \A e \in calls : e.doc = c.doc => e = c
    BY <2>1 DEF SyncInv, ImportsAbsent
  <2>3. curr[c.doc] = store[c.doc]
    BY <2>1, <2>2 DEF EditOf, Absent
  <2>4. Absent(c.doc)'
    BY <2>2, <2>3 DEF Absent, EditOf, Change
  <2> QED BY <1>1, <2>2, <2>3, <2>4
<1>6. QueriesKnown'
  BY DEF SyncInv, QueriesKnown, AllKnown, EditOf
<1>7. UndisturbedCalm'
  <2> SUFFICES ASSUME NEW x \in Docs, x \notin disturbed'
               PROVE  Calm(x)'
    BY DEF UndisturbedCalm
  <2>1. Calm(x)
    BY DEF SyncInv, UndisturbedCalm, EditOf, Change
  <2>2. CASE curr[x] = store[x]
    <3>1. CallsOf(x)' = CallsOf(x)
      BY <1>1, <2>2 DEF CallsOf
    <3> QED BY <2>1, <2>2, <3>1 DEF Calm, OnlyImports, EditOf, Change
  <2>3. CASE curr[x] # store[x]
    <3>1. queries[Kind[x]] # "answered" /\ CallsOf(x) = {}
      BY <2>3 DEF EditOf, Change, CallsOf
    <3>2. \A c \in CallsOf(x)' : ready /\ ~c.import /\ c.version = curr[x]
      BY <1>1, <3>1 DEF CallsOf
    <3>3. \A c, e \in CallsOf(x)' : c = e
      <4>1. \A c \in CallsOf(x)' : c = [doc |-> x, version |-> curr[x], import |-> FALSE]
        BY <3>1 DEF CallsOf, EditOf, Change, Diff
      <4> QED BY <4>1
    <3>4. ready => CallsOf(x)' # {}
      BY <1>2, <2>3 DEF CallsOf
    <3> QED BY <2>1, <3>1, <3>2, <3>3, <3>4 DEF Calm, OnlyImports, EditOf, Change
  <2> QED BY <2>2, <2>3
<1> QED BY <1>3, <1>4, <1>5, <1>6, <1>7 DEF SyncInv

LEMMA SyncAddStep == ASSUME SyncInv, NEW d \in Docs, AddDocument(d) PROVE SyncInv'
<1> DEFINE curr == [store EXCEPT ![d] = edits + 1]
<1>1. edits + 1 \in Versions
  BY DocsAssumption DEF AddDocument, UserActs, SyncInv, SyncTypeOK, Versions
<1>2. EditOf(d, curr)
  BY <1>1 DEF EditOf, AddDocument, SyncInv, SyncTypeOK
<1> QED BY <1>2, SyncEditStep

LEMMA SyncUpdateStep == ASSUME SyncInv, NEW d \in Docs, UpdateDocument(d) PROVE SyncInv'
<1> DEFINE curr == [store EXCEPT ![d] = edits + 1]
<1>1. edits + 1 \in Versions
  BY DocsAssumption DEF UpdateDocument, UserActs, SyncInv, SyncTypeOK, Versions
<1>2. EditOf(d, curr)
  BY <1>1 DEF EditOf, UpdateDocument, SyncInv, SyncTypeOK
<1> QED BY <1>2, SyncEditStep

LEMMA SyncDeleteStep == ASSUME SyncInv, NEW d \in Docs, DeleteDocument(d) PROVE SyncInv'
<1> DEFINE curr == [store EXCEPT ![d] = 0]
<1>1. 0 \in Versions
  BY DocsAssumption DEF Versions
<1>2. EditOf(d, curr)
  BY <1>1 DEF EditOf, DeleteDocument, SyncInv, SyncTypeOK
<1> QED BY <1>2, SyncEditStep

LEMMA SyncMoveStep == ASSUME SyncInv, NEW d \in Docs, NEW e \in Docs, MoveItem(d, e) PROVE SyncInv'
<1> DEFINE curr == [store EXCEPT ![d] = edits + 1, ![e] = edits + 1]
<1>1. edits + 1 \in Versions
  BY DocsAssumption DEF MoveItem, UserActs, SyncInv, SyncTypeOK, Versions
<1>2. EditOf(d, curr)
  BY <1>1 DEF EditOf, MoveItem, SyncInv, SyncTypeOK
<1> QED BY <1>2, SyncEditStep

LEMMA SyncImportStep == ASSUME SyncInv, NEW d \in Docs, ImportFile(d) PROVE SyncInv'
<1> USE DocsAssumption
<1>1. PICK c0 : c0 = [doc |-> d, version |-> edits + 1, import |-> TRUE]
  OBVIOUS
<1>2. c0.doc = d /\ c0.import /\ c0.version = edits + 1 /\ c0.version # 0
  BY <1>1 DEF SyncInv, SyncTypeOK, Versions
<1>3. calls' = calls \cup {c0}
  BY <1>1 DEF ImportFile
<1>4. Absent(d) /\ CallsOf(d) = {} /\ d \in Importable
  BY DEF ImportFile, SyncInv, UnusedAbsent
<1>5. SyncTypeOK'
  <2>1. edits' = edits + 1 /\ edits + 1 \in Versions
    BY DEF ImportFile, UserActs, SyncInv, SyncTypeOK, Versions
  <2>2. c0 \in [doc : Docs, version : Versions, import : BOOLEAN]
    BY <1>1, <2>1
  <2> QED BY <1>3, <2>1, <2>2 DEF ImportFile, UserActs, SyncInv, SyncTypeOK
<1>6. UnusedAbsent'
  BY <1>2, <1>3 DEF SyncInv, UnusedAbsent, Absent, CallsOf, ImportFile, UserActs
<1>7. ImportsAbsent'
  BY <1>2, <1>3, <1>4 DEF SyncInv, ImportsAbsent, Absent, CallsOf, ImportFile
<1>8. QueriesKnown'
  BY DEF SyncInv, QueriesKnown, AllKnown, ImportFile
<1>9. UndisturbedCalm'
  <2> SUFFICES ASSUME NEW x \in Docs, x \notin disturbed'
               PROVE  Calm(x)'
    BY DEF UndisturbedCalm
  <2>1. Calm(x)
    BY DEF SyncInv, UndisturbedCalm, ImportFile
  <2>2. CASE x = d
    <3>1. CallsOf(x)' = {c0}
      BY <1>2, <1>3, <1>4, <2>2 DEF CallsOf
    <3> QED BY <1>2, <1>4, <2>2, <3>1 DEF Calm, OnlyImports, Absent, ImportFile
  <2>3. CASE x # d
    <3>1. CallsOf(x)' = CallsOf(x)
      BY <1>2, <1>3, <2>3 DEF CallsOf
    <3> QED BY <2>1, <3>1 DEF Calm, OnlyImports, ImportFile
  <2> QED BY <2>2, <2>3
<1> QED BY <1>5, <1>6, <1>7, <1>8, <1>9 DEF SyncInv

LEMMA SyncServeStep == ASSUME SyncInv, NEW c \in calls, Serve(c) PROVE SyncInv'
<1> USE DocsAssumption
<1>1. c.doc \in Docs /\ c.version \in Versions /\ c.import \in BOOLEAN /\ Kind[c.doc] \in Kinds
  BY DEF SyncInv, SyncTypeOK
<1>2. calls' = calls \ {c} /\ UNCHANGED <<store, ready, queryData, listed, edits, used, disturbed>>
  BY DEF Serve
<1>3. disk' \in [Docs -> Versions] /\ disk'[c.doc] = c.version /\ \A x \in Docs : x # c.doc => disk'[x] = disk[x]
  BY <1>1 DEF Serve, SyncInv, SyncTypeOK
<1>4. /\ queries' \in [Kinds -> {"idle", "asked", "answered"}]
      /\ \A k \in Kinds : queries'[k] = queries[k] \/ queries'[k] = "asked"
      /\ ~c.import => queries' = queries
      /\ c.import => queries'[Kind[c.doc]] = "asked"
  BY <1>1 DEF Serve, SyncInv, SyncTypeOK
<1>5. c \in CallsOf(c.doc)
  BY DEF CallsOf
<1>6. SyncTypeOK'
  BY <1>2, <1>3, <1>4 DEF SyncInv, SyncTypeOK
<1>7. UnusedAbsent'
  BY <1>2, <1>3, <1>5 DEF SyncInv, UnusedAbsent, Absent, CallsOf
<1>8. ImportsAbsent'
  <2> SUFFICES ASSUME NEW e \in calls', e.import
               PROVE  (Absent(e.doc) /\ e.version # 0 /\ e.doc \in Importable)' /\ \A f \in calls' : f.doc = e.doc => f = e
    BY DEF ImportsAbsent
  <2>1. e \in calls /\ e # c /\ e.doc \in Docs
    BY <1>2 DEF SyncInv, SyncTypeOK
  <2>2. Absent(e.doc) /\ e.version # 0 /\ e.doc \in Importable /\ \A f \in calls : f.doc = e.doc => f = e
    BY <2>1 DEF SyncInv, ImportsAbsent
  <2>3. e.doc # c.doc
    BY <2>1, <2>2
  <2> QED BY <1>2, <1>3, <2>1, <2>2, <2>3 DEF Absent
<1>9. QueriesKnown'
  BY <1>2, <1>4 DEF SyncInv, QueriesKnown, AllKnown
<1>10. UndisturbedCalm'
  <2> SUFFICES ASSUME NEW x \in Docs, x \notin disturbed'
               PROVE  Calm(x)'
    BY DEF UndisturbedCalm
  <2>1. Calm(x)
    BY <1>2 DEF SyncInv, UndisturbedCalm
  <2>2. Kind[x] \in Kinds
    OBVIOUS
  <2>3. CASE x # c.doc
    <3>1. CallsOf(x)' = CallsOf(x)
      BY <1>2, <2>3 DEF CallsOf
    <3>2. queries'[Kind[x]] = queries[Kind[x]] \/ queries'[Kind[x]] = "asked"
      BY <1>4, <2>2
    <3> QED BY <1>2, <1>3, <2>1, <2>3, <3>1, <3>2 DEF Calm, OnlyImports
  <2>4. CASE x = c.doc
    <3>1. CallsOf(x) = {c} /\ CallsOf(x)' = {}
      BY <1>2, <1>5, <2>1, <2>4 DEF Calm, CallsOf
    <3>2. CASE c.import
      <4>1. Absent(x) /\ c.version # 0
        BY <2>4, <3>2 DEF SyncInv, ImportsAbsent
      <4>2. queries'[Kind[x]] = "asked"
        BY <1>4, <2>4, <3>2
      <4> QED BY <1>2, <1>3, <2>4, <3>1, <4>1, <4>2 DEF Calm, OnlyImports, Absent
    <3>3. CASE ~c.import
      <4>1. ~OnlyImports(x)
        BY <3>1, <3>3 DEF OnlyImports
      <4> QED BY <1>2, <1>3, <1>4, <2>1, <2>4, <3>1, <3>3, <4>1 DEF Calm
    <3> QED BY <3>2, <3>3
  <2> QED BY <2>3, <2>4
<1> QED BY <1>6, <1>7, <1>8, <1>9, <1>10 DEF SyncInv

LEMMA SyncLoseStep == ASSUME SyncInv, NEW c \in calls, Lose(c) PROVE SyncInv'
<1> USE DocsAssumption DEF Lose
<1>1. c.doc \in Docs
  BY DEF SyncInv, SyncTypeOK
<1>2. SyncTypeOK'
  BY <1>1 DEF SyncInv, SyncTypeOK
<1>3. UnusedAbsent'
  BY DEF SyncInv, UnusedAbsent, Absent, CallsOf
<1>4. ImportsAbsent'
  BY DEF SyncInv, ImportsAbsent, Absent
<1>5. QueriesKnown'
  BY DEF SyncInv, QueriesKnown, AllKnown
<1>6. UndisturbedCalm'
  <2> SUFFICES ASSUME NEW x \in Docs, x \notin disturbed'
               PROVE  Calm(x)'
    BY DEF UndisturbedCalm
  <2>1. Calm(x)
    BY DEF SyncInv, UndisturbedCalm
  <2>2. CallsOf(x)' = CallsOf(x)
    BY DEF CallsOf
  <2> QED BY <2>1, <2>2 DEF Calm, OnlyImports
<1> QED BY <1>2, <1>3, <1>4, <1>5, <1>6 DEF SyncInv

LEMMA ListServedStep == ASSUME SyncInv, NEW k \in Kinds, ListServed(k) PROVE SyncInv'
<1> USE DocsAssumption
<1>1. /\ queries' \in [Kinds -> {"idle", "asked", "answered"}]
      /\ queries'[k] = "answered" /\ \A j \in Kinds : j # k => queries'[j] = queries[j]
  BY DEF ListServed, SyncInv, SyncTypeOK
<1>2. /\ DOMAIN listed' = Kinds /\ listed'[k] = ListNow(k)
      /\ \A j \in Kinds : j # k => listed'[j] = listed[j]
  BY DEF ListServed, SyncInv, SyncTypeOK
<1>3. /\ ListNow(k) \in [known : BOOLEAN, docs : [Of(k) -> Versions]]
      /\ ListNow(k).known /\ \A d \in Docs : Kind[d] = k => ListNow(k).docs[d] = disk[d]
  BY DEF ListNow, Of, SyncInv, SyncTypeOK
<1>4. UNCHANGED <<store, ready, queryData, calls, disk, edits, used>>
  BY DEF ListServed
<1>5. SyncTypeOK'
  <2>1. disturbed' \subseteq Docs
    BY DEF ListServed, Of, SyncInv, SyncTypeOK
  <2>2. \A j \in Kinds : listed'[j] \in [known : BOOLEAN, docs : [Of(j) -> Versions]]
    BY <1>2, <1>3 DEF SyncInv, SyncTypeOK
  <2> QED BY <1>1, <1>2, <1>4, <2>1, <2>2 DEF SyncInv, SyncTypeOK
<1>6. \A d \in Docs : Absent(d) => Absent(d)'
  <2> SUFFICES ASSUME NEW d \in Docs, Absent(d)
               PROVE  Absent(d)'
    OBVIOUS
  <2>1. listed'[Kind[d]].docs[d] = 0
    <3>1. CASE Kind[d] = k
      BY <1>2, <1>3, <3>1 DEF Absent
    <3>2. CASE Kind[d] # k
      BY <1>2, <3>2 DEF Absent
    <3> QED BY <3>1, <3>2
  <2> QED BY <1>4, <2>1 DEF Absent
<1>7. UnusedAbsent'
  BY <1>4, <1>6 DEF SyncInv, UnusedAbsent, CallsOf
<1>8. ImportsAbsent'
  BY <1>4, <1>6 DEF SyncInv, SyncTypeOK, ImportsAbsent
<1>9. QueriesKnown'
  BY <1>1, <1>2, <1>3, <1>4 DEF SyncInv, QueriesKnown, AllKnown
<1>10. UndisturbedCalm'
  <2> SUFFICES ASSUME NEW x \in Docs, x \notin disturbed'
               PROVE  Calm(x)'
    BY DEF UndisturbedCalm
  <2>1. Calm(x)
    BY DEF SyncInv, UndisturbedCalm, ListServed
  <2>2. CallsOf(x)' = CallsOf(x)
    BY <1>4 DEF CallsOf
  <2>3. CASE Kind[x] = k
    <3>1. CallsOf(x) = {}
      BY <2>3 DEF ListServed, Of, CallsOf
    <3>2. listed'[k].docs[x] = disk[x]
      BY <1>2, <1>3, <2>3
    <3>3. queries[k] = "asked"
      BY DEF ListServed
    <3> QED BY <1>1, <1>4, <2>1, <2>2, <2>3, <3>1, <3>2, <3>3 DEF Calm, OnlyImports
  <2>4. CASE Kind[x] # k
    <3>1. queries'[Kind[x]] = queries[Kind[x]] /\ listed'[Kind[x]] = listed[Kind[x]]
      BY <1>1, <1>2, <2>4
    <3> QED BY <1>4, <2>1, <2>2, <3>1 DEF Calm, OnlyImports
  <2> QED BY <2>3, <2>4
<1> QED BY <1>5, <1>7, <1>8, <1>9, <1>10 DEF SyncInv

(* The two ways an answer goes: the effect sets the store and turns sync   *)
(* on, or nothing happens to them.                                         *)
EffectRan ==
  /\ AllKnown(queryData') /\ ready' = TRUE
  /\ store' = [d \in Docs |-> queryData'[Kind[d]].docs[d]]
NoEffect ==
  /\ ~AllKnown(queryData') \/ queryData' = queryData
  /\ UNCHANGED <<store, ready>>

LEMMA ListAnsweredStep == ASSUME SyncInv, NEW k \in Kinds, ListAnswered(k) PROVE SyncInv'
<1> USE DocsAssumption
<1>1. /\ queries' \in [Kinds -> {"idle", "asked", "answered"}]
      /\ queries'[k] = "idle" /\ \A j \in Kinds : j # k => queries'[j] = queries[j]
  BY DEF ListAnswered, SyncInv, SyncTypeOK
<1>2. /\ DOMAIN queryData' = Kinds /\ queryData'[k] = listed[k]
      /\ \A j \in Kinds : j # k => queryData'[j] = queryData[j]
  BY DEF ListAnswered, SyncInv, SyncTypeOK
<1>3. UNCHANGED <<listed, calls, disk, edits, used>> /\ queries[k] = "answered" /\ listed[k].known
  BY DEF ListAnswered, SyncInv, QueriesKnown
<1>4. EffectRan \/ NoEffect
  BY DEF ListAnswered, EffectRan, NoEffect
<1>5. \A j \in Kinds : queryData[j].known => queryData'[j].known
  BY <1>2, <1>3
<1>6. SyncTypeOK'
  <2>1. \A j \in Kinds : queryData'[j] \in [known : BOOLEAN, docs : [Of(j) -> Versions]]
    BY <1>2 DEF SyncInv, SyncTypeOK
  <2>2. \A d \in Docs : Kind[d] \in Kinds /\ d \in Of(Kind[d])
    BY DEF Of
  <2>3. store' \in [Docs -> Versions] /\ ready' \in BOOLEAN
    <3>1. CASE EffectRan
      <4>1. \A d \in Docs : queryData'[Kind[d]].docs[d] \in Versions
        BY <2>1, <2>2
      <4> QED BY <3>1, <4>1 DEF EffectRan
    <3>2. CASE NoEffect
      BY <3>2 DEF NoEffect, SyncInv, SyncTypeOK
    <3> QED BY <1>4, <3>1, <3>2
  <2>4. disturbed' \subseteq Docs
    BY DEF ListAnswered, SyncInv, SyncTypeOK
  <2> QED BY <1>1, <1>2, <1>3, <2>1, <2>3, <2>4 DEF SyncInv, SyncTypeOK
<1>7. \A d \in Docs : Absent(d) => Absent(d)'
  <2> SUFFICES ASSUME NEW d \in Docs, Absent(d)
               PROVE  Absent(d)'
    OBVIOUS
  <2>1. queryData'[Kind[d]].docs[d] = 0
    <3>1. CASE Kind[d] = k
      BY <1>2, <3>1 DEF Absent
    <3>2. CASE Kind[d] # k
      BY <1>2, <3>2 DEF Absent
    <3> QED BY <3>1, <3>2
  <2>2. store'[d] = 0
    BY <1>4, <2>1 DEF EffectRan, NoEffect, Absent
  <2> QED BY <1>3, <2>1, <2>2 DEF Absent
<1>8. UnusedAbsent'
  BY <1>3, <1>7 DEF SyncInv, UnusedAbsent, CallsOf
<1>9. ImportsAbsent'
  BY <1>3, <1>7 DEF SyncInv, SyncTypeOK, ImportsAbsent
<1>10. QueriesKnown'
  <2>1. ready' <=> AllKnown(queryData')
    <3>1. CASE EffectRan
      BY <3>1 DEF EffectRan
    <3>2. CASE NoEffect
      BY <1>5, <3>2 DEF NoEffect, SyncInv, QueriesKnown, AllKnown
    <3> QED BY <1>4, <3>1, <3>2
  <2>2. \A j \in Kinds : /\ queries'[j] = "idle" => queryData'[j].known
                         /\ queries'[j] = "answered" => listed'[j].known
    BY <1>1, <1>2, <1>3 DEF SyncInv, QueriesKnown
  <2> QED BY <2>1, <2>2 DEF QueriesKnown, AllKnown
<1>11. UndisturbedCalm'
  <2> SUFFICES ASSUME NEW x \in Docs, x \notin disturbed'
               PROVE  Calm(x)'
    BY DEF UndisturbedCalm
  <2>1. Calm(x)
    BY DEF SyncInv, UndisturbedCalm, ListAnswered
  <2>2. CallsOf(x)' = CallsOf(x)
    BY <1>3 DEF CallsOf
  <2>3. CASE Kind[x] = k
    <3>1. OnlyImports(x) /\ listed[k].docs[x] = disk[x]
      BY <1>3, <2>1, <2>3 DEF Calm
    <3>2. queryData'[k].docs[x] = disk[x]
      BY <1>2, <3>1
    <3>3. ready' /\ CallsOf(x) = {} => store'[x] = disk[x]
      <4>1. CASE EffectRan
        BY <2>3, <3>2, <4>1 DEF EffectRan
      <4>2. CASE NoEffect
        <5> SUFFICES ASSUME ready', CallsOf(x) = {}
                     PROVE  store'[x] = disk[x]
          OBVIOUS
        <5>1. ready /\ AllKnown(queryData')
          BY <1>5, <4>2 DEF NoEffect, SyncInv, QueriesKnown, AllKnown
        <5>2. queryData' = queryData /\ store' = store
          BY <4>2, <5>1 DEF NoEffect
        <5> QED BY <2>1, <2>3, <3>2, <5>1, <5>2 DEF Calm
      <4> QED BY <1>4, <4>1, <4>2
    <3>4. OnlyImports(x)'
      BY <2>2, <3>1 DEF OnlyImports
    <3>5. queries'[k] = "idle" /\ disk' = disk
      BY <1>1, <1>3
    <3>6. \A c, e \in CallsOf(x)' : c = e
      BY <2>1, <2>2 DEF Calm
    <3>7. \A c \in CallsOf(x)' : c.import
      BY <3>4 DEF OnlyImports
    <3> QED BY <2>2, <2>3, <3>2, <3>3, <3>4, <3>5, <3>6, <3>7 DEF Calm
  <2>4. CASE Kind[x] # k
    <3>1. /\ Kind[x] \in Kinds /\ queries'[Kind[x]] = queries[Kind[x]]
          /\ queryData'[Kind[x]] = queryData[Kind[x]]
      BY <1>1, <1>2, <2>4
    <3>2. CASE NoEffect
      BY <1>3, <2>1, <2>2, <3>1, <3>2 DEF Calm, OnlyImports, NoEffect
    <3>3. CASE EffectRan /\ ready
      <4>1. store'[x] = store[x]
        BY <2>4, <3>3 DEF ListAnswered, Of
      <4> QED BY <1>3, <2>1, <2>2, <3>1, <3>3, <4>1 DEF Calm, OnlyImports, EffectRan
    <3>4. CASE EffectRan /\ ~ready
      <4>1. queryData[Kind[x]].known /\ store'[x] = queryData[Kind[x]].docs[x]
        BY <3>1, <3>4 DEF EffectRan, AllKnown
      <4> QED BY <1>3, <2>1, <2>2, <3>1, <3>4, <4>1 DEF Calm, OnlyImports, EffectRan
    <3> QED BY <1>4, <3>2, <3>3, <3>4
  <2> QED BY <2>3, <2>4
<1> QED BY <1>6, <1>8, <1>9, <1>10, <1>11 DEF SyncInv

LEMMA SyncReloadStep == ASSUME SyncInv, ReloadPage PROVE SyncInv'
<1> USE DocsAssumption
<1>1. \A f \in calls' : \E c \in calls : f = [c EXCEPT !.import = FALSE]
  BY DEF ReloadPage
<1>2. \A c \in calls : c \in [doc : Docs, version : Versions, import : BOOLEAN]
  BY DEF SyncInv, SyncTypeOK
<1>3. \A f \in calls' : /\ f \in [doc : Docs, version : Versions, import : BOOLEAN] /\ ~f.import
                        /\ \E c \in calls : c.doc = f.doc /\ f = [c EXCEPT !.import = FALSE]
  BY <1>1, <1>2
<1>4. \A d \in Docs : Kind[d] \in Kinds /\ d \in Of(Kind[d])
  BY DEF Of
<1>5. SyncTypeOK'
  <2>1. 0 \in Versions /\ edits' \in Versions
    BY DEF ReloadPage, SyncInv, SyncTypeOK, Versions
  <2>2. \A k \in Kinds : Unknown(k) \in [known : BOOLEAN, docs : [Of(k) -> Versions]]
    BY <2>1 DEF Unknown
  <2>3. store' \in [Docs -> Versions]
    BY <2>1 DEF ReloadPage, NoDocs
  <2>4. queries' \in [Kinds -> {"idle", "asked", "answered"}]
    BY DEF ReloadPage
  <2>5. calls' \subseteq [doc : Docs, version : Versions, import : BOOLEAN]
    BY <1>3
  <2>6. \A k \in Kinds : queryData'[k] = Unknown(k) /\ listed'[k] = listed[k]
    BY DEF ReloadPage
  <2>7. DOMAIN queryData' = Kinds /\ UNCHANGED <<listed, disk, used, disturbed>> /\ ready' \in BOOLEAN
    BY DEF ReloadPage
  <2>8. \A k \in Kinds : {queryData'[k], listed'[k]} \subseteq [known : BOOLEAN, docs : [Of(k) -> Versions]]
    BY <2>2, <2>6 DEF SyncInv, SyncTypeOK
  <2>9. /\ disk' \in [Docs -> Versions] /\ DOMAIN listed' = Kinds
        /\ used' \subseteq Docs /\ disturbed' \subseteq Docs
    BY <2>7 DEF SyncInv, SyncTypeOK
  <2> QED BY <2>1, <2>3, <2>4, <2>5, <2>7, <2>8, <2>9 DEF SyncTypeOK
<1>6. UnusedAbsent'
  <2> SUFFICES ASSUME NEW d \in Docs \ used
               PROVE  Absent(d)' /\ CallsOf(d)' = {}
    BY DEF UnusedAbsent, ReloadPage
  <2>1. Absent(d) /\ CallsOf(d) = {}
    BY DEF SyncInv, UnusedAbsent
  <2>2. CallsOf(d)' = {}
    BY <1>3, <2>1 DEF CallsOf
  <2> QED BY <1>4, <2>1, <2>2 DEF Absent, ReloadPage, NoDocs, Unknown
<1>7. ImportsAbsent'
  BY <1>3 DEF ImportsAbsent
<1>8. QueriesKnown'
  BY DEF QueriesKnown, AllKnown, ReloadPage, Unknown, Kinds
<1>9. UndisturbedCalm'
  <2> SUFFICES ASSUME NEW x \in Docs, x \notin disturbed'
               PROVE  Calm(x)'
    BY DEF UndisturbedCalm
  <2>1. \A c, e \in CallsOf(x) : c = e
    BY DEF SyncInv, UndisturbedCalm, ReloadPage, Calm
  <2>2. \A f, g \in CallsOf(x)' : f = g
    BY <1>3, <2>1 DEF CallsOf
  <2>3. ~ready' /\ queries'[Kind[x]] = "asked" /\ ~queryData'[Kind[x]].known
    BY <1>4 DEF ReloadPage, Unknown
  <2> QED BY <2>2, <2>3 DEF Calm
<1> QED BY <1>5, <1>6, <1>7, <1>8, <1>9 DEF SyncInv

LEMMA SyncStep == ASSUME SyncInv, [SyncNext]_syncVars PROVE SyncInv'
<1>1. CASE SyncUser
  BY <1>1, SyncAddStep, SyncUpdateStep, SyncDeleteStep, SyncImportStep, SyncMoveStep, SyncReloadStep DEF SyncUser
<1>2. CASE Network
  BY <1>2, SyncServeStep, ListServedStep, ListAnsweredStep DEF Network
<1>3. CASE \E c \in calls : Lose(c)
  BY <1>3, SyncLoseStep
<1>4. CASE UNCHANGED syncVars
  BY <1>4 DEF syncVars, SyncInv, SyncTypeOK, UnusedAbsent, ImportsAbsent, QueriesKnown, AllKnown,
              UndisturbedCalm, Calm, OnlyImports, Absent, CallsOf
<1> QED BY <1>1, <1>2, <1>3, <1>4 DEF SyncNext

(* The store and the disk, the queries and the calls keep their types,     *)
(* whatever is edited, lost, imported and reloaded.                        *)
THEOREM SyncTypeHolds == SyncSpec => []SyncTypeOK
<1>1. SyncInv => SyncTypeOK
  BY DEF SyncInv
<1> QED BY <1>1, SyncInvInit, SyncStep, PTL DEF SyncSpec

(* What is left of EventuallySaved without time: whenever nothing is under *)
(* way between the browser and the agent, the disk holds what the user     *)
(* sees, of every document that is not disturbed.                          *)
SavedWhenIdle ==
  calls = {} /\ (\A k \in Kinds : queries[k] = "idle") =>
    \A d \in Docs \ disturbed : disk[d] = store[d]

LEMMA IdleSaved == SyncInv => SavedWhenIdle
<1> SUFFICES ASSUME SyncInv, calls = {}, \A k \in Kinds : queries[k] = "idle", NEW d \in Docs \ disturbed
             PROVE  disk[d] = store[d]
  BY DEF SavedWhenIdle
<1>1. Kind[d] \in Kinds
  BY DocsAssumption
<1>2. ready
  BY DEF SyncInv, QueriesKnown, AllKnown
<1>3. CallsOf(d) = {} /\ Calm(d)
  BY DEF CallsOf, SyncInv, UndisturbedCalm
<1> QED BY <1>1, <1>2, <1>3 DEF Calm

(* So however edits, calls that arrive in any order or never, answers,     *)
(* imports and reloads are mixed, hooks/use-workspace-sync.ts leaves no    *)
(* undisturbed document on the disk in a state the user does not see, once *)
(* nothing is on its way.                                                  *)
THEOREM SavedWhenIdleHolds == SyncSpec => []SavedWhenIdle
BY IdleSaved, SyncInvInit, SyncStep, PTL DEF SyncSpec

(***************************************************************************)
(* What is under way between the browser and the agent: calls, the refetch *)
(* that each import will ask for, and the queries.                         *)
(***************************************************************************)
NothingUnderWay == calls = {} /\ \A k \in Kinds : queries[k] = "idle"
ImportCalls == {c \in calls : c.import}
Ahead(k) == IF queries[k] = "asked" THEN 2 ELSE IF queries[k] = "answered" THEN 1 ELSE 0
UnderWay ==
  Cardinality(calls) + 2 * Cardinality(ImportCalls) + Ahead("collections") + Ahead("environments")
FewCalls == IsFiniteSet(calls)

LEMMA FewCallsInit == SyncInit => FewCalls
BY FS_EmptySet DEF SyncInit, FewCalls

LEMMA FewNewCalls ==
  ASSUME FewCalls, NEW a, NEW b, calls' \subseteq calls \cup {a, b}
  PROVE  FewCalls'
<1>1. IsFiniteSet(calls \cup {a})
  BY FS_AddElement DEF FewCalls
<1>2. IsFiniteSet((calls \cup {a}) \cup {b})
  BY <1>1, FS_AddElement
<1>3. calls' \in SUBSET ((calls \cup {a}) \cup {b})
  OBVIOUS
<1> QED BY <1>2, <1>3, FS_Subset DEF FewCalls

LEMMA FewCallsEdit ==
  ASSUME FewCalls, NEW d, NEW e, NEW curr, Change(curr),
         \A x \in Docs : curr[x] # store[x] => x = d \/ x = e
  PROVE  FewCalls'
<1>1. PICK a : a = [doc |-> d, version |-> curr[d], import |-> FALSE]
  OBVIOUS
<1>2. PICK b : b = [doc |-> e, version |-> curr[e], import |-> FALSE]
  OBVIOUS
<1>3. Diff(curr) \subseteq {a, b}
  BY <1>1, <1>2 DEF Diff
<1>4. calls' \subseteq calls \cup {a, b}
  BY <1>3 DEF Change
<1> QED BY <1>4, FewNewCalls

LEMMA FewCallsReload == ASSUME FewCalls, ReloadPage PROVE FewCalls'
<1>1. PICK still \in SUBSET calls : calls' = {[c EXCEPT !.import = FALSE] : c \in still}
  BY DEF ReloadPage
<1>2. IsFiniteSet(still)
  BY FS_Subset DEF FewCalls
<1>3. PICK f : f = [c \in still |-> [c EXCEPT !.import = FALSE]]
  OBVIOUS
<1>4. f \in Surjection(still, calls')
  BY <1>1, <1>3 DEF Surjection
<1> QED BY <1>2, <1>4, FS_Surjection DEF FewCalls

LEMMA FewCallsStep == ASSUME SyncInv, FewCalls, [SyncNext]_syncVars PROVE FewCalls'
<1> USE DEF SyncInv, SyncTypeOK
<1>1. ASSUME NEW d \in Docs, AddDocument(d) \/ UpdateDocument(d) PROVE FewCalls'
  <2>1. PICK curr : curr = [store EXCEPT ![d] = edits + 1]
    OBVIOUS
  <2>2. Change(curr) /\ \A x \in Docs : curr[x] # store[x] => x = d
    BY <1>1, <2>1 DEF AddDocument, UpdateDocument
  <2> QED BY <2>2, FewCallsEdit
<1>2. ASSUME NEW d \in Docs, DeleteDocument(d) PROVE FewCalls'
  <2>1. PICK curr : curr = [store EXCEPT ![d] = 0]
    OBVIOUS
  <2>2. Change(curr) /\ \A x \in Docs : curr[x] # store[x] => x = d
    BY <1>2, <2>1 DEF DeleteDocument
  <2> QED BY <2>2, FewCallsEdit
<1>3. ASSUME NEW d \in Docs, NEW e \in Docs, MoveItem(d, e) PROVE FewCalls'
  <2>1. PICK curr : curr = [store EXCEPT ![d] = edits + 1, ![e] = edits + 1]
    OBVIOUS
  <2>2. Change(curr) /\ \A x \in Docs : curr[x] # store[x] => x = d \/ x = e
    BY <1>3, <2>1 DEF MoveItem
  <2> QED BY <2>2, FewCallsEdit
<1>4. ASSUME NEW d \in Docs, ImportFile(d) PROVE FewCalls'
  <2>1. PICK a : calls' = calls \cup {a}
    BY <1>4 DEF ImportFile
  <2> QED BY <2>1, FewNewCalls
<1>5. ASSUME Network \/ UNCHANGED syncVars \/ \E c \in calls : Lose(c) PROVE FewCalls'
  <2>1. calls' \subseteq calls
    BY <1>5 DEF Network, Serve, ListServed, ListAnswered, Lose, syncVars
  <2> QED BY <2>1, FewNewCalls
<1> QED BY <1>1, <1>2, <1>3, <1>4, <1>5, FewCallsReload DEF SyncNext, SyncUser

LEMMA AheadType ==
  ASSUME SyncInv
  PROVE  /\ \A k \in Kinds : Ahead(k) \in Nat /\ (Ahead(k) = 0 <=> queries[k] = "idle")
         /\ Kinds = {"collections", "environments"}
BY DEF SyncInv, SyncTypeOK, Ahead, Kinds

LEMMA CallsCounted ==
  ASSUME FewCalls
  PROVE  /\ Cardinality(calls) \in Nat /\ Cardinality(ImportCalls) \in Nat
         /\ IsFiniteSet(ImportCalls)
         /\ Cardinality(calls) = 0 <=> calls = {}
         /\ calls = {} => Cardinality(ImportCalls) = 0
<1>1. ImportCalls \in SUBSET calls
  BY DEF ImportCalls
<1>2. IsFiniteSet(ImportCalls)
  BY <1>1, FS_Subset DEF FewCalls
<1> QED BY <1>1, <1>2, FS_CardinalityType, FS_EmptySet DEF FewCalls

LEMMA CallTaken ==
  ASSUME FewCalls, NEW c \in calls, calls' = calls \ {c}
  PROVE  /\ Cardinality(calls') = Cardinality(calls) - 1
         /\ c.import => Cardinality(ImportCalls') = Cardinality(ImportCalls) - 1
         /\ ~c.import => Cardinality(ImportCalls') = Cardinality(ImportCalls)
<1>1. c.import => c \in ImportCalls /\ ImportCalls' = ImportCalls \ {c}
  BY DEF ImportCalls
<1>2. ~c.import => ImportCalls' = ImportCalls
  BY DEF ImportCalls
<1>3. Cardinality(calls \ {c}) = Cardinality(calls) - 1
  BY FS_RemoveElement DEF FewCalls
<1>4. c \in ImportCalls => Cardinality(ImportCalls \ {c}) = Cardinality(ImportCalls) - 1
  BY CallsCounted, FS_RemoveElement
<1> QED BY <1>1, <1>2, <1>3, <1>4

LEMMA UnderWayZero ==
  ASSUME SyncInv, FewCalls
  PROVE  UnderWay \in Nat /\ (UnderWay = 0 <=> NothingUnderWay)
<1>1. Ahead("collections") \in Nat /\ Ahead("environments") \in Nat
  BY AheadType
<1>2. (\A k \in Kinds : queries[k] = "idle") <=> Ahead("collections") = 0 /\ Ahead("environments") = 0
  BY AheadType
<1>3. /\ Cardinality(calls) \in Nat /\ Cardinality(ImportCalls) \in Nat
      /\ Cardinality(calls) = 0 <=> calls = {}
      /\ calls = {} => Cardinality(ImportCalls) = 0
  BY CallsCounted
<1>4. UnderWay \in Nat
  BY <1>1, <1>3 DEF UnderWay
<1>5. UnderWay = 0 <=> Cardinality(calls) = 0 /\ Ahead("collections") = 0 /\ Ahead("environments") = 0
  <2>1. \A n, m, a, b \in Nat :
          (n = 0 => m = 0) => (n + 2 * m + a + b = 0 <=> n = 0 /\ a = 0 /\ b = 0)
    OBVIOUS
  <2>2. Cardinality(calls) = 0 => Cardinality(ImportCalls) = 0
    BY <1>3
  <2>3. PICK n \in Nat : n = Cardinality(calls)
    BY <1>3
  <2>4. PICK m \in Nat : m = Cardinality(ImportCalls)
    BY <1>3
  <2>5. UnderWay = n + 2 * m + Ahead("collections") + Ahead("environments")
    BY <2>3, <2>4 DEF UnderWay
  <2>6. n = 0 => m = 0
    BY <2>2, <2>3, <2>4
  <2>7. PICK a \in Nat : a = Ahead("collections")
    BY <1>1
  <2>8. PICK b \in Nat : b = Ahead("environments")
    BY <1>1
  <2>9. n + 2 * m + a + b = 0 <=> n = 0 /\ a = 0 /\ b = 0
    BY <2>1, <2>6
  <2> QED BY <2>3, <2>5, <2>7, <2>8, <2>9
<1> QED BY <1>2, <1>3, <1>4, <1>5 DEF NothingUnderWay

LEMMA CallLowers ==
  ASSUME SyncInv, FewCalls, NEW c \in calls, Serve(c) \/ Lose(c)
  PROVE  UnderWay' < UnderWay
<1>1. calls' = calls \ {c} /\ c.doc \in Docs /\ c.import \in BOOLEAN
  BY DEF Serve, Lose, SyncInv, SyncTypeOK
<1>2. Kind[c.doc] \in {"collections", "environments"}
  BY <1>1, DocsAssumption DEF Kinds
<1>3. ~c.import => queries' = queries
  BY DEF Serve, Lose
<1>4. \A k \in Kinds : queries'[k] # queries[k] => k = Kind[c.doc]
  BY DEF Serve, Lose, SyncInv, SyncTypeOK
<1>5. Ahead("collections") \in 0 .. 2 /\ Ahead("environments") \in 0 .. 2
  BY DEF Ahead
<1>6. Ahead("collections")' \in 0 .. 2 /\ Ahead("environments")' \in 0 .. 2
  BY DEF Ahead
<1>7. Ahead("collections")' = Ahead("collections") \/ Ahead("environments")' = Ahead("environments")
  BY <1>4 DEF Ahead, Kinds
<1>8. ~c.import => Ahead("collections")' = Ahead("collections") /\ Ahead("environments")' = Ahead("environments")
  BY <1>3 DEF Ahead
<1>9. CASE c.import
  <2>1. Cardinality(calls') = Cardinality(calls) - 1 /\ Cardinality(ImportCalls') = Cardinality(ImportCalls) - 1
    BY <1>1, <1>9, CallTaken
  <2> QED BY <1>5, <1>6, <1>7, <2>1, CallsCounted DEF UnderWay
<1>10. CASE ~c.import
  <2>1. Cardinality(calls') = Cardinality(calls) - 1 /\ Cardinality(ImportCalls') = Cardinality(ImportCalls)
    BY <1>1, <1>10, CallTaken
  <2> QED BY <1>5, <1>8, <1>10, <2>1, CallsCounted DEF UnderWay
<1> QED BY <1>9, <1>10

LEMMA ListLowers ==
  ASSUME SyncInv, FewCalls, NEW k \in Kinds, ListServed(k) \/ ListAnswered(k)
  PROVE  UnderWay' < UnderWay
<1>1. calls' = calls /\ \A j \in Kinds : j # k => queries'[j] = queries[j]
  BY DEF ListServed, ListAnswered, SyncInv, SyncTypeOK
<1>2. \/ queries[k] = "asked" /\ queries'[k] = "answered"
      \/ queries[k] = "answered" /\ queries'[k] = "idle"
  BY DEF ListServed, ListAnswered, SyncInv, SyncTypeOK
<1>3. Ahead(k)' = Ahead(k) - 1 /\ \A j \in Kinds : j # k => Ahead(j)' = Ahead(j)
  BY <1>1, <1>2 DEF Ahead
<1>4. ImportCalls' = ImportCalls
  BY <1>1 DEF ImportCalls
<1>5. Ahead("collections") \in Nat /\ Ahead("environments") \in Nat
  BY AheadType
<1>6. k = "collections" \/ k = "environments"
  BY DEF Kinds
<1> QED BY <1>1, <1>3, <1>4, <1>5, <1>6, CallsCounted DEF UnderWay, Kinds

LEMMA NetworkLowers ==
  ASSUME SyncInv, FewCalls, Network \/ \E c \in calls : Lose(c)
  PROVE  UnderWay' < UnderWay
BY CallLowers, ListLowers DEF Network

LEMMA FewCallsHold == SyncSpec => [](SyncInv /\ FewCalls)
BY SyncInvInit, SyncStep, FewCallsInit, FewCallsStep, PTL DEF SyncSpec

(* Once the user stops editing, what is under way comes to an end: every   *)
(* step of the network, a lost call included, leaves less of it, imports   *)
(* and the refetch each one asks for are no loop, and when nothing is left *)
(* all undisturbed documents are on the disk as the user sees them.  With  *)
(* the fairness of FairSyncSpec, that is EventuallySaved.                  *)
RunsDown == (Network \/ \E c \in calls : Lose(c)) => UnderWay' < UnderWay
Settled ==
  /\ UnderWay \in Nat /\ (UnderWay = 0 <=> NothingUnderWay)
  /\ UnderWay = 0 => \A d \in Docs \ disturbed : disk[d] = store[d]
THEOREM NetworkRunsDown == SyncSpec => []Settled /\ [][RunsDown]_syncVars
<1>1. SyncInv => SavedWhenIdle
  BY IdleSaved
<1>2. SyncInv /\ FewCalls => Settled
  BY <1>1, UnderWayZero DEF Settled, SavedWhenIdle, NothingUnderWay
<1>3. SyncInv /\ FewCalls /\ [SyncNext]_syncVars => [RunsDown]_syncVars
  BY NetworkLowers DEF RunsDown
<1> QED BY <1>2, <1>3, FewCallsHold, PTL DEF SyncSpec
=============================================================================
