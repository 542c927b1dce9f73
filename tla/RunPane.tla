------------------------------ MODULE RunPane ------------------------------
(***************************************************************************)
(* The collection pane that starts a run and follows it: handleRun in      *)
(* collection-pane.tsx, api.runs.stream in lib/api.ts and the runs store,  *)
(* composed with the agent's side, RunStream.  Pane is the connection of   *)
(* the pane's EventSource, wire what the agent has written to it and the   *)
(* browser has not yet dispatched.                                         *)
(***************************************************************************)
EXTENDS RunStream

CONSTANT Pane
ASSUME PaneAssumption == Pane \in Subs

VARIABLES
  status,    \* of the run in the store; "none" before startRun
  shown,     \* the events of the run in the store
  es,        \* the EventSource
  completed, \* the flag of api.runs.stream
  broken,    \* the connection was lost on the way, or given up by the server
  wire

paneVars == <<status, shown, es, completed, broken>>
allVars == <<vars, paneVars, wire>>

PaneInit ==
  /\ Init
  /\ status = "none" /\ shown = <<>> /\ es = "none" /\ completed = FALSE
  /\ broken = FALSE /\ wire = <<>>

WholeLog == [i \in 1 .. Len(events) |-> i]

-----------------------------------------------------------------------------
(* Variants for the sensitivity runs. *)

\* The handler sends what the log holds so far and then goes live too.
PaneAcceptedReplays ==
  /\ CheckDone(Pane)
  /\ wire' = wire \o WholeLog
  /\ UNCHANGED paneVars

\* onerror is dispatched before the messages that came first.
OnServerEndEarly ==
  /\ es = "open" /\ conn[Pane] = "ended"
  /\ status' = IF completed THEN status ELSE "error"
  /\ es' = "closed" /\ wire' = <<>>
  /\ UNCHANGED <<vars, shown, completed, broken>>

-----------------------------------------------------------------------------
(* The agent's handler, writing to the wire. *)

PaneAccepted ==
  /\ CheckDone(Pane)
  /\ wire' = IF done THEN wire \o WholeLog ELSE wire
  /\ UNCHANGED paneVars

PaneWritten ==
  /\ Receive(Pane)
  /\ wire' = IF es = "open" THEN Append(wire, Head(ch)) ELSE wire
  /\ UNCHANGED paneVars

PaneHandlerEnds ==
  /\ ChannelClosed(Pane) \/ CtxDone(Pane)
  /\ UNCHANGED <<paneVars, wire>>

\* r.Context() ends: the EventSource was closed, the connection broke, or
\* the server gave it up (the ReadTimeout of agent/main.go:163).
PaneGone ==
  /\ ClientLeaves(Pane)
  /\ broken' = (broken \/ es = "open")
  /\ UNCHANGED <<status, shown, es, completed, wire>>

-----------------------------------------------------------------------------
(* The browser. *)

\* handleRun: the POST has answered; startRun, then new EventSource.
HandleRun ==
  /\ status = "none"
  /\ status' = "running" /\ es' = "open"
  /\ Connect(Pane)
  /\ UNCHANGED <<shown, completed, broken, wire>>

\* onmessage: appendEvent; on "done" also finishRun and es.close().
OnMessage ==
  /\ es = "open" /\ wire # <<>>
  /\ shown' = Append(shown, Head(wire))
  /\ IF events[Head(wire)] = "done"
       THEN status' = "done" /\ completed' = TRUE /\ es' = "closed" /\ wire' = <<>>
       ELSE wire' = Tail(wire) /\ UNCHANGED <<status, completed, es>>
  /\ UNCHANGED <<vars, broken>>

\* onerror: failRun unless completed, then es.close(), so no reconnection.
OnError ==
  /\ status' = IF completed THEN status ELSE "error"
  /\ es' = "closed" /\ wire' = <<>>
  /\ UNCHANGED <<vars, shown, completed>>

\* The agent has ended the response and all of it has been dispatched.
OnServerEnd ==
  /\ es = "open" /\ conn[Pane] = "ended" /\ wire = <<>>
  /\ UNCHANGED broken /\ OnError

OnConnectionLost ==
  /\ es = "open" /\ conn[Pane] \in {"asked", "live"}
  /\ broken' = TRUE /\ OnError

\* The pane is unmounted, or another run is started in it.
Cleanup ==
  /\ es = "open"
  /\ es' = "closed" /\ wire' = <<>>
  /\ UNCHANGED <<vars, status, shown, completed, broken>>

Agent == RunStep /\ UNCHANGED <<paneVars, wire>>

\* Others that follow the same run: they take events off the same channel.
OtherClient ==
  /\ \E s \in Subs \ {Pane} : Connect(s) \/ HandlerStep(s) \/ ClientLeaves(s)
  /\ UNCHANGED <<paneVars, wire>>

PaneHandler == PaneAccepted \/ PaneWritten \/ PaneHandlerEnds

PaneNext ==
  \/ Agent \/ PaneHandler \/ PaneGone \/ OtherClient
  \/ HandleRun \/ OnMessage \/ OnServerEnd \/ OnConnectionLost \/ Cleanup

PaneSpec == PaneInit /\ [][PaneNext]_allVars

\* The goroutine, the handler and the event loop of the browser run.  The
\* requests of a run end: the client has a timeout; scripts may not (module
\* SandboxIPC), the run then stays live.
PaneFairSpec ==
  PaneSpec /\ WF_allVars(Agent) /\ WF_allVars(PaneHandler)
           /\ WF_allVars(OnMessage) /\ WF_allVars(OnServerEnd)

-----------------------------------------------------------------------------
Shown == {shown[i] : i \in DOMAIN shown}
TakenByOthers == UNION {Taken(s) : s \in Subs \ {Pane}}

(* A run the store calls done has ended, and shows its events in order and *)
(* once, whether the stream was live or a replay: all but those for which  *)
(* the buffer had no room, or which another connection took.               *)
DoneShowsAll ==
  status = "done" =>
    /\ Ended(events)
    /\ \A i, j \in DOMAIN shown : i < j => shown[i] < shown[j]
    /\ \A n \in 1 .. Len(events) : n \in Shown \cup dropped \cup TakenByOthers

(* A run the store calls failed has failed, or its connection was lost, or *)
(* its final event did not fit in the buffer or went to another            *)
(* connection; a good run is not turned into a failed one by the agent     *)
(* closing the stream.                                                     *)
ErrorHasCause ==
  status = "error" =>
    broken \/ Last(events) = "error" \/ Len(events) \in dropped \cup TakenByOthers

(* A pane that stays mounted is told how its run ended.                    *)
PaneSettles == (status = "running") ~> (status # "running" \/ es = "closed")

(* What the pane shows of a run is what RunLog promises, whether it came   *)
(* from the live stream, from a replay, or stopped half-way.               *)
Promise == INSTANCE RunLog WITH log <- [i \in DOMAIN shown |-> events[shown[i]]]
KeepsRunLog == Promise!Spec
=============================================================================
