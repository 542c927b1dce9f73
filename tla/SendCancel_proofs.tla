-------------------------- MODULE SendCancel_proofs --------------------------
(***************************************************************************)
(* Theorems about module SendCancel, for every set of sends, of DELETEs    *)
(* and of request ids.                                                     *)
(***************************************************************************)
EXTENDS SendCancel, TLAPS

(* A context is ended by the deferred function alone, and what is recorded *)
(* has been answered.                                                      *)
EndedLate == \A s \in Sends : ctx[s] = "ended" => pc[s] \in {"delete", "done"}
RecordedLate == \A s \in history : pc[s] \in {"respond", "cancel", "delete", "done"}

(* Whoever is about to delete an entry has an id.                          *)
DeletesOwnId == \A s \in Sends : pc[s] = "delete" => requestID[s] \in Ids

IInv == TypeOK /\ EndedLate /\ RecordedLate /\ DeletesOwnId /\ EntryInProgress /\ HistoryMatches

-----------------------------------------------------------------------------
LEMMA InitIInv == Init => IInv
BY IdAssumption DEF Init, IInv, TypeOK, EndedLate, RecordedLate, DeletesOwnId, EntryInProgress, HistoryMatches

(* One lemma for the steps of a send, by the part of the state they touch. *)
LEMMA StartStep ==
  ASSUME NEW s \in Sends, NEW id \in Ids \cup {NoId}, IInv, Start(s, id)
  PROVE  IInv'
<1> USE IdAssumption DEF IInv, Start, Goto, sendVars, cancelVars
<1>1. TypeOK'
  BY DEF TypeOK, Store
<1>2. EndedLate' /\ RecordedLate' /\ DeletesOwnId'
  BY DEF TypeOK, EndedLate, RecordedLate, DeletesOwnId
<1>3. EntryInProgress'
  BY DEF TypeOK, EntryInProgress, InProgress, Store
<1>4. HistoryMatches'
  BY DEF TypeOK, HistoryMatches
<1> QED BY <1>1, <1>2, <1>3, <1>4

LEMMA SendStepStep ==
  ASSUME NEW s \in Sends, IInv, SendStep(s) \/ RequestAnswered(s) \/ RequestFailed(s)
  PROVE  IInv'
<1> USE DEF IInv, SendStep, Goto, sendVars, cancelVars, PreScript, RequestAborted, TestScript, Insert,
            Respond, DeferredCancel, DeferredDelete, RequestAnswered, RequestFailed
<1>1. TypeOK'
  BY DEF TypeOK, Delete
<1>2. EndedLate' /\ RecordedLate' /\ DeletesOwnId'
  BY DEF TypeOK, EndedLate, RecordedLate, DeletesOwnId
<1>3. EntryInProgress'
  BY DEF TypeOK, EntryInProgress, InProgress, Delete, DeletesOwnId
<1>4. HistoryMatches'
  BY DEF TypeOK, HistoryMatches, EndedLate, RecordedLate
<1> QED BY <1>1, <1>2, <1>3, <1>4

(* The steps that change contexts from outside, and the entries.           *)
LEMMA ContextEndsStep ==
  ASSUME IInv, NEW s \in Sends, ContextEnds(s)
  PROVE  IInv'
<1> USE DEF IInv, sendVars, cancelVars, ContextEnds
<1>1. TypeOK'
  BY DEF TypeOK
<1>2. EndedLate' /\ RecordedLate' /\ DeletesOwnId'
  BY DEF TypeOK, EndedLate, RecordedLate, DeletesOwnId
<1>3. EntryInProgress'
  BY DEF TypeOK, EntryInProgress, InProgress
<1>4. HistoryMatches'
  BY DEF TypeOK, HistoryMatches
<1> QED BY <1>1, <1>2, <1>3, <1>4

LEMMA CallCancelStep ==
  ASSUME IInv, NEW c \in Cancels, CallCancel(c)
  PROVE  IInv'
<1> USE DEF IInv, sendVars, cancelVars, CallCancel
<1>1. TypeOK'
  BY DEF TypeOK
<1>2. EndedLate' /\ RecordedLate' /\ DeletesOwnId'
  BY DEF TypeOK, EndedLate, RecordedLate, DeletesOwnId
<1>3. EntryInProgress'
  BY DEF TypeOK, EntryInProgress, InProgress
<1>4. HistoryMatches'
  BY DEF TypeOK, HistoryMatches
<1> QED BY <1>1, <1>2, <1>3, <1>4

LEMMA LoadAndDeleteStep ==
  ASSUME IInv, NEW c \in Cancels, NEW id \in Ids, LoadAndDelete(c, id)
  PROVE  IInv'
<1> USE DEF IInv, sendVars, cancelVars, LoadAndDelete
<1>1. TypeOK'
  BY DEF TypeOK, Delete
<1>2. EndedLate' /\ RecordedLate' /\ DeletesOwnId'
  BY DEF TypeOK, EndedLate, RecordedLate, DeletesOwnId
<1>3. EntryInProgress'
  BY DEF TypeOK, EntryInProgress, InProgress, Delete
<1>4. HistoryMatches'
  BY DEF TypeOK, HistoryMatches
<1> QED BY <1>1, <1>2, <1>3, <1>4

LEMMA Stutter == IInv /\ UNCHANGED vars => IInv'
BY DEF IInv, TypeOK, EndedLate, RecordedLate, DeletesOwnId, EntryInProgress, HistoryMatches, InProgress,
       vars, sendVars, cancelVars

LEMMA Invariance == Spec => []IInv
<1>1. IInv /\ [Next]_vars => IInv'
  BY StartStep, SendStepStep, ContextEndsStep, CallCancelStep, LoadAndDeleteStep, Stutter DEF Next
<1> QED BY InitIInv, <1>1, PTL DEF Spec

-----------------------------------------------------------------------------
(* Every variable stays in its type, whatever the ids are.                 *)
THEOREM TypeCorrect == Spec => []TypeOK
<1>1. IInv => TypeOK
  BY DEF IInv
<1> QED BY Invariance, <1>1, PTL

(* No entry of s.cancels outlives the send that stored it, though two      *)
(* sends of one id replace and delete each other's entries.                *)
THEOREM EntryInProgressHolds == Spec => []EntryInProgress
<1>1. IInv => EntryInProgress
  BY DEF IInv
<1> QED BY Invariance, <1>1, PTL

(* A target's answer is in the history unless the send was cancelled       *)
(* before it could be recorded, and nothing else is.                       *)
THEOREM HistoryMatchesHolds == Spec => []HistoryMatches
<1>1. IInv => HistoryMatches
  BY DEF IInv
<1> QED BY Invariance, <1>1, PTL

-----------------------------------------------------------------------------
(***************************************************************************)
(* What a DELETE cancels.  Between LoadAndDelete and the call of the       *)
(* CancelFunc the send can go on, end, and be followed by another.         *)
(***************************************************************************)
(* The deferred function cancels before it deletes, so the context of a    *)
(* send with an id is not live when the send has returned.                 *)
Released == \A s \in Sends : requestID[s] \in Ids /\ pc[s] \in {"delete", "done"} => ctx[s] # "live"

\* A CancelFunc that was taken is that of a send with an id, which began.
HeldBegan ==
  \A c \in Cancels : cpc[c] = "took" =>
    held[c] \in Sends /\ requestID[held[c]] \in Ids /\ pc[held[c]] # "idle"

CancelInv == Released /\ HeldBegan

LEMMA CancelInit == Init => CancelInv
BY IdAssumption DEF Init, CancelInv, Released, HeldBegan

LEMMA CancelSendStep ==
  ASSUME IInv, CancelInv, NEW s \in Sends,
         SendStep(s) \/ RequestAnswered(s) \/ RequestFailed(s) \/ \E id \in Ids \cup {NoId} : Start(s, id)
  PROVE  CancelInv'
<1>1. /\ \A x \in Sends : x # s => pc'[x] = pc[x] /\ requestID'[x] = requestID[x] /\ ctx'[x] = ctx[x]
      /\ pc'[s] # "idle" /\ (pc[s] # "idle" => requestID'[s] = requestID[s])
      /\ UNCHANGED cancelVars
      /\ pc'[s] \in {"delete", "done"} /\ requestID'[s] \in Ids => ctx'[s] # "live"
  BY DEF IInv, TypeOK, CancelInv, Released, SendStep, Start, Goto, sendVars, PreScript, RequestAborted, TestScript,
         Insert, Respond, DeferredCancel, DeferredDelete, RequestAnswered, RequestFailed
<1> QED BY <1>1 DEF CancelInv, Released, HeldBegan, cancelVars

LEMMA CancelOtherStep ==
  ASSUME IInv, CancelInv,
         \/ \E s \in Sends : ContextEnds(s)
         \/ \E c \in Cancels : CallCancel(c) \/ \E id \in Ids : LoadAndDelete(c, id)
         \/ UNCHANGED vars
  PROVE  CancelInv'
<1>1. UNCHANGED <<pc, requestID>> /\ \A s \in Sends : ctx[s] # "live" => ctx'[s] # "live"
  BY DEF IInv, TypeOK, ContextEnds, CallCancel, LoadAndDelete, sendVars, vars
<1>2. Released'
  BY <1>1 DEF CancelInv, Released
<1>3. HeldBegan'
  <2>1. CASE \E c \in Cancels, id \in Ids : LoadAndDelete(c, id)
    BY <1>1, <2>1 DEF CancelInv, HeldBegan, LoadAndDelete, IInv, TypeOK, EntryInProgress, InProgress
  <2>2. CASE ~ \E c \in Cancels, id \in Ids : LoadAndDelete(c, id)
    BY <1>1, <2>2 DEF CancelInv, HeldBegan, ContextEnds, CallCancel, IInv, TypeOK, vars, cancelVars
  <2> QED BY <2>1, <2>2
<1> QED BY <1>2, <1>3 DEF CancelInv

(* A DELETE takes the CancelFunc of a send in progress that carries the id *)
(* of the DELETE; however late it calls it, it cancels no send that has    *)
(* returned and none of another id, because the deferred function of the   *)
(* send that returned has cancelled first.                                 *)
TakesItsOwn(c, id) ==
  LoadAndDelete(c, id) /\ cpc'[c] = "took" => InProgress(held'[c]) /\ requestID[held'[c]] = id
LateCallHarmless(c) ==
  CallCancel(c) => \A s \in Sends : ctx'[s] # ctx[s] => s = held[c] /\ InProgress(s)
CancelsItsOwn ==
  [][\A c \in Cancels : LateCallHarmless(c) /\ \A id \in Ids : TakesItsOwn(c, id)]_vars

(* No send leaves its context behind either: handleSend has cancelled the  *)
(* one it made, however it returned.                                       *)
ContextsReleased == \A s \in Sends : pc[s] = "done" /\ requestID[s] \in Ids => ctx[s] # "live"

(* Two sends of one id, or a DELETE that comes late, change none of this.  *)
THEOREM CancelsItsOwnHolds == Spec => CancelsItsOwn /\ []ContextsReleased
<1>1. IInv /\ CancelInv /\ [Next]_vars => CancelInv'
  BY CancelSendStep, CancelOtherStep DEF Next
<1>2. CancelInv => ContextsReleased
  BY DEF CancelInv, Released, ContextsReleased
<1>3. IInv /\ CancelInv => \A c \in Cancels : LateCallHarmless(c) /\ \A id \in Ids : TakesItsOwn(c, id)
  <2> SUFFICES ASSUME IInv, CancelInv, NEW c \in Cancels
               PROVE  LateCallHarmless(c) /\ \A id \in Ids : TakesItsOwn(c, id)
    OBVIOUS
  <2>1. LateCallHarmless(c)
    <3> SUFFICES ASSUME CallCancel(c), NEW s \in Sends, ctx'[s] # ctx[s]
                 PROVE  s = held[c] /\ InProgress(s)
      BY DEF LateCallHarmless
    <3>1. s = held[c] /\ ctx[s] = "live" /\ cpc[c] = "took"
      BY DEF CallCancel, IInv, TypeOK
    <3> QED BY <3>1 DEF CancelInv, Released, HeldBegan, InProgress
  <2>2. ASSUME NEW id \in Ids PROVE TakesItsOwn(c, id)
    BY DEF TakesItsOwn, LoadAndDelete, IInv, TypeOK, EntryInProgress, InProgress
  <2> QED BY <2>1, <2>2
<1> QED BY <1>1, <1>2, <1>3, CancelInit, Invariance, PTL DEF Spec, CancelsItsOwn
=============================================================================
