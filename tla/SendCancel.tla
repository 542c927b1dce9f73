----------------------------- MODULE SendCancel -----------------------------
(***************************************************************************)
(* agent/send.go: sends in progress, DELETE /api/send/{id} and the history *)
(* they leave.  A send with a request id gets a context of its own, whose  *)
(* CancelFunc is kept in s.cancels under that id; its deferred function    *)
(* cancels it and deletes whatever s.cancels then holds under the id.  The *)
(* id is the one of the saved request, so two tabs that show one request   *)
(* send it under one id, and the request of a new tab has none.            *)
(*                                                                         *)
(* A target's answer, a script's outcome and an error are outcomes, their  *)
(* content is left out.                                                    *)
(***************************************************************************)
EXTENDS Naturals

CONSTANTS
  Sends,     \* POST /api/send requests
  Cancels,   \* DELETE /api/send/{id} requests
  Ids,       \* request ids
  NoId,      \* the id of an unsaved request
  Nobody     \* no send

ASSUME IdAssumption == NoId \notin Ids /\ Nobody \notin Sends

VARIABLES
  pc,        \* where each send is inside handleSend
  requestID, \* the id it carries
  ctx,       \* its context: live, cancelled from outside, or ended by its own defer
  cancels,   \* s.cancels: id -> the send whose CancelFunc is stored
  outcome,   \* what each send answers
  history,   \* sends recorded in the history table
  cpc,       \* where each DELETE is inside cancelSend
  held       \* the send whose CancelFunc it took

sendVars == <<pc, requestID, outcome, history>>
cancelVars == <<cpc, held>>
vars == <<sendVars, ctx, cancels, cancelVars>>

TypeOK ==
  /\ pc \in [Sends -> {"idle", "pre", "request", "test", "insert", "respond", "cancel", "delete", "done"}]
  /\ ctx \in [Sends -> {"live", "cancelled", "ended"}]
  /\ DOMAIN cancels \subseteq Ids
  /\ cancels \in [DOMAIN cancels -> Sends]
  /\ outcome \in [Sends -> {"none", "ok", "skipped", "error"}]
  /\ requestID \in [Sends -> Ids \cup {NoId}]
  /\ history \subseteq Sends
  /\ cpc \in [Cancels -> {"idle", "took", "done"}]
  /\ held \in [Cancels -> Sends \cup {Nobody}]

Init ==
  /\ pc = [s \in Sends |-> "idle"] /\ ctx = [s \in Sends |-> "live"]
  /\ cancels = <<>> /\ outcome = [s \in Sends |-> "none"]
  /\ requestID = [s \in Sends |-> NoId] /\ history = {}
  /\ cpc = [c \in Cancels |-> "idle"] /\ held = [c \in Cancels |-> Nobody]

Store(id, s) == [n \in DOMAIN cancels \cup {id} |-> IF n = id THEN s ELSE cancels[n]]
Delete(id) == [n \in DOMAIN cancels \ {id} |-> cancels[n]]
Goto(s, here, there) == pc[s] = here /\ pc' = [pc EXCEPT ![s] = there]

-----------------------------------------------------------------------------
(* Variants of steps below with a plausible mistake, for the sensitivity   *)
(* runs; the specification does not use them.                              *)

\* The deferred function only cancels.
DeferredDeleteMissing(s) ==
  /\ Goto(s, "delete", "done")
  /\ UNCHANGED <<ctx, cancels, outcome, history, requestID, cancelVars>>

\* The script's context replaces the request's: it is cancelled with it.
TestScriptShadowsCtx(s) ==
  /\ Goto(s, "test", "insert")
  /\ ctx' = [ctx EXCEPT ![s] = IF @ = "live" THEN "ended" ELSE @]
  /\ UNCHANGED <<cancels, outcome, history, requestID, cancelVars>>

\* client.Execute is given context.Background().
RequestAbortedMissing(s) == FALSE /\ UNCHANGED vars

-----------------------------------------------------------------------------
(* handleSend. *)

Start(s, id) ==
  /\ Goto(s, "idle", "pre")
  /\ requestID' = [requestID EXCEPT ![s] = id]
  /\ cancels' = IF id \in Ids THEN Store(id, s) ELSE cancels
  /\ UNCHANGED <<ctx, outcome, history, cancelVars>>

\* No script, a script that succeeds, or one that fails, which is reported
\* and does not stop the send; a script that skips the request ends it.
PreScript(s) ==
  /\ \/ Goto(s, "pre", "request") /\ UNCHANGED outcome
     \/ Goto(s, "pre", "respond") /\ outcome' = [outcome EXCEPT ![s] = "skipped"]
  /\ UNCHANGED <<ctx, cancels, history, requestID, cancelVars>>

\* The target answers; a context that is no longer live aborts the exchange.
RequestAnswered(s) ==
  /\ ctx[s] = "live" /\ Goto(s, "request", "test")
  /\ UNCHANGED <<ctx, cancels, outcome, history, requestID, cancelVars>>

\* No client or auth can be built, or the exchange fails by itself.
RequestFailed(s) ==
  /\ Goto(s, "request", "respond")
  /\ outcome' = [outcome EXCEPT ![s] = "error"]
  /\ UNCHANGED <<ctx, cancels, history, requestID, cancelVars>>

RequestAborted(s) ==
  /\ ctx[s] # "live" /\ RequestFailed(s)

\* Whatever the test script does, the send goes on.
TestScript(s) ==
  /\ Goto(s, "test", "insert")
  /\ UNCHANGED <<ctx, cancels, outcome, history, requestID, cancelVars>>

\* History.Insert is given ctx: once that is cancelled nothing is recorded.
Insert(s) ==
  /\ Goto(s, "insert", "respond")
  /\ history' = IF ctx[s] = "live" THEN history \cup {s} ELSE history
  /\ outcome' = [outcome EXCEPT ![s] = "ok"]
  /\ UNCHANGED <<ctx, cancels, requestID, cancelVars>>

Respond(s) ==
  /\ Goto(s, "respond", "cancel")
  /\ UNCHANGED <<ctx, cancels, outcome, history, requestID, cancelVars>>

\* The deferred function, which only a send with an id has.
DeferredCancel(s) ==
  /\ \/ requestID[s] \in Ids /\ Goto(s, "cancel", "delete")
     \/ requestID[s] \notin Ids /\ Goto(s, "cancel", "done")
  /\ ctx' = [ctx EXCEPT ![s] = IF @ = "live" THEN "ended" ELSE @]
  /\ UNCHANGED <<cancels, outcome, history, requestID, cancelVars>>

DeferredDelete(s) ==
  /\ Goto(s, "delete", "done")
  /\ cancels' = Delete(requestID[s])
  /\ UNCHANGED <<ctx, outcome, history, requestID, cancelVars>>

-----------------------------------------------------------------------------
(* net/http, as agent/main.go configures it. *)

InProgress(s) == pc[s] \notin {"idle", "done"}

\* r.Context() ends: the client goes away, or its read deadline passes.
ContextEnds(s) ==
  /\ InProgress(s) /\ ctx[s] = "live"
  /\ ctx' = [ctx EXCEPT ![s] = "cancelled"]
  /\ UNCHANGED <<sendVars, cancels, cancelVars>>

-----------------------------------------------------------------------------
(* cancelSend. *)

\* 404 if there is no entry.
LoadAndDelete(c, id) ==
  /\ cpc[c] = "idle"
  /\ IF id \in DOMAIN cancels
       THEN /\ cpc' = [cpc EXCEPT ![c] = "took"]
            /\ held' = [held EXCEPT ![c] = cancels[id]]
            /\ cancels' = Delete(id)
       ELSE /\ cpc' = [cpc EXCEPT ![c] = "done"]
            /\ UNCHANGED <<held, cancels>>
  /\ UNCHANGED <<sendVars, ctx>>

CallCancel(c) ==
  /\ cpc[c] = "took" /\ cpc' = [cpc EXCEPT ![c] = "done"]
  /\ ctx' = [ctx EXCEPT ![held[c]] = IF @ = "live" THEN "cancelled" ELSE @]
  /\ UNCHANGED <<sendVars, cancels, held>>

\* The steps that need nothing but the agent and a live sandbox.
SendStep(s) ==
  \/ PreScript(s) \/ RequestAborted(s) \/ TestScript(s) \/ Insert(s)
  \/ Respond(s) \/ DeferredCancel(s) \/ DeferredDelete(s)

Next ==
  \/ \E s \in Sends :
       \/ \E id \in Ids \cup {NoId} : Start(s, id)
       \/ SendStep(s) \/ RequestAnswered(s) \/ RequestFailed(s) \/ ContextEnds(s)
  \/ \E c \in Cancels : CallCancel(c) \/ \E id \in Ids : LoadAndDelete(c, id)

Spec == Init /\ [][Next]_vars

\* Handlers run and scripts have a timeout; a target may never answer, and
\* with timeout 0 nothing but the context ends the wait.
FairSpec ==
  /\ Spec
  /\ \A s \in Sends : WF_vars(SendStep(s))
  /\ \A c \in Cancels : WF_vars(CallCancel(c))

-----------------------------------------------------------------------------
(* A stored CancelFunc belongs to a send that is in progress and carries   *)
(* the id: no entry outlives its send, whichever of two sends of one id    *)
(* ends first, so s.cancels does not grow.                                 *)
EntryInProgress ==
  \A id \in DOMAIN cancels : requestID[cancels[id]] = id /\ InProgress(cancels[id])

(* A target's answer is recorded unless the send was cancelled meanwhile,  *)
(* and nothing else ever is.                                               *)
HistoryMatches ==
  \A s \in Sends :
    /\ outcome[s] = "ok" => s \in history \/ ctx[s] = "cancelled"
    /\ s \in history => outcome[s] = "ok"

(* A send that was cancelled ends, although its target never answers.      *)
CancelEnds == \A s \in Sends : (InProgress(s) /\ ctx[s] = "cancelled") ~> (pc[s] = "done")
=============================================================================
