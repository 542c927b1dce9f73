----------------------------- MODULE RunStream -----------------------------
(***************************************************************************)
(* agent/run.go: one collection run of the agent and the connections that  *)
(* follow it.  handleRunCollection starts a goroutine that appends every   *)
(* event to entry.events under entry.mu and then offers it to entry.ch     *)
(* without blocking; handleRunStream replays the log of a finished run, or *)
(* else consumes the channel; handleGetRun reads done and summary.         *)
(*                                                                         *)
(* An event is named by its position in the log.  Subs are connections to  *)
(* /stream; a client that reconnects is another one.                       *)
(***************************************************************************)
EXTENDS Naturals, Sequences, FiniteSets

CONSTANTS
  Subs,        \* connections to the stream
  Planned,     \* requests of the collection times iterations
  Looped,      \* further requests setNextRequest may add (bound)
  Slack,       \* the code's 10
  MinBuf       \* the code's 100

ASSUME SizeAssumption ==
  /\ Planned \in Nat /\ Looped \in Nat /\ MinBuf \in Nat
  /\ Slack \in Nat /\ Slack >= 2

\* max(total*iterations + 10, 100)
BufSize == IF Planned + Slack > MinBuf THEN Planned + Slack ELSE MinBuf

VARIABLES
  events,   \* entry.events: the log of event types
  ch,       \* entry.ch
  closed,   \* entry.ch is closed
  done,     \* entry.done
  summary,  \* entry.summary is set
  phase,    \* where the run's goroutine is
  dropped,  \* events entry.ch had no room for
  conn,     \* each connection
  got,      \* events the handler of each connection took from entry.ch
  replayed, \* the log each connection was sent by replay
  polled    \* the last answer of GET /api/runs/{runId}

runVars == <<events, ch, closed, done, summary, phase, dropped>>
subVars == <<conn, got, replayed>>
vars == <<runVars, subVars, polled>>

Final == {"error", "done"}
Last(s) == s[Len(s)]
Ended(log) == log # <<>> /\ Last(log) \in Final

TypeOK ==
  /\ events \in Seq({"start", "request"} \cup Final)
  /\ ch \in Seq(1 .. Len(events)) /\ Len(ch) <= BufSize
  /\ closed \in BOOLEAN /\ done \in BOOLEAN /\ summary \in BOOLEAN
  /\ phase \in {"ready", "sending", "finishing", "closing", "end"}
  /\ dropped \subseteq 1 .. Len(events)
  /\ conn \in [Subs -> {"none", "asked", "live", "leaving", "ended"}]
  /\ got \in [Subs -> Seq(1 .. Len(events))]
  /\ replayed \in [Subs -> Seq({"start", "request"} \cup Final)]
  /\ polled \in {"none", "running", "summary"}

Init ==
  /\ events = <<>> /\ ch = <<>> /\ closed = FALSE /\ done = FALSE /\ summary = FALSE
  /\ phase = "ready" /\ dropped = {}
  /\ conn = [s \in Subs |-> "none"] /\ got = [s \in Subs |-> <<>>]
  /\ replayed = [s \in Subs |-> <<>>] /\ polled = "none"

-----------------------------------------------------------------------------
(* Variants of steps below with a plausible mistake, for the sensitivity   *)
(* runs; the specification does not use them.                              *)

\* close(entry.ch) is forgotten.
CloseMissing ==
  /\ phase = "closing" /\ phase' = "end"
  /\ UNCHANGED <<events, ch, closed, done, summary, dropped, subVars, polled>>

\* The channel is a broadcast nobody consumes from.
ReceivePeek(s) ==
  /\ conn[s] \in {"live", "leaving"} /\ ch # <<>> /\ Head(ch) \notin {got[s][i] : i \in DOMAIN got[s]}
  /\ got' = [got EXCEPT ![s] = Append(@, Head(ch))]
  /\ UNCHANGED <<runVars, conn, replayed, polled>>

-----------------------------------------------------------------------------
(* The run's goroutine. *)

\* appendAndSend, first half: append under entry.mu.  "start" comes first,
\* then one "request" per OnRequest, then "done", or "error" when Run fails.
AppendEvent(type) ==
  /\ phase = "ready"
  /\ type = "start" <=> events = <<>>
  /\ type = "request" => Len(events) <= Planned + Looped
  /\ events' = Append(events, type)
  /\ phase' = "sending"
  /\ UNCHANGED <<ch, closed, done, summary, dropped, subVars, polled>>

\* Second half: a select with a default.
SendEvent ==
  /\ phase = "sending"
  /\ \/ Len(ch) < BufSize /\ ch' = Append(ch, Len(events)) /\ UNCHANGED dropped
     \/ Len(ch) >= BufSize /\ dropped' = dropped \cup {Len(events)} /\ UNCHANGED ch
  /\ phase' = IF Last(events) \in Final THEN "finishing" ELSE "ready"
  /\ UNCHANGED <<events, closed, done, summary, subVars, polled>>

Finish ==
  /\ phase = "finishing"
  /\ done' = TRUE /\ summary' = (Last(events) = "done")
  /\ phase' = "closing"
  /\ UNCHANGED <<events, ch, closed, dropped, subVars, polled>>

CloseChannel ==
  /\ phase = "closing"
  /\ closed' = TRUE /\ phase' = "end"
  /\ UNCHANGED <<events, ch, done, summary, dropped, subVars, polled>>

-----------------------------------------------------------------------------
(* handleRunStream. *)

Connect(s) ==
  /\ conn[s] = "none"
  /\ conn' = [conn EXCEPT ![s] = "asked"]
  /\ UNCHANGED <<runVars, got, replayed, polled>>

\* Under entry.mu: copy the log of a finished run, or go live.
CheckDone(s) ==
  /\ conn[s] = "asked"
  /\ IF done THEN /\ replayed' = [replayed EXCEPT ![s] = events]
                  /\ conn' = [conn EXCEPT ![s] = "ended"]
             ELSE /\ conn' = [conn EXCEPT ![s] = "live"]
                  /\ UNCHANGED replayed
  /\ UNCHANGED <<runVars, got, polled>>

\* The select takes any ready arm: an event can still be taken, and written
\* to nobody, after the client has gone.
Receive(s) ==
  /\ conn[s] \in {"live", "leaving"} /\ ch # <<>>
  /\ got' = [got EXCEPT ![s] = Append(@, Head(ch))]
  /\ ch' = Tail(ch)
  /\ UNCHANGED <<events, closed, done, summary, phase, dropped, conn, replayed, polled>>

ChannelClosed(s) ==
  /\ conn[s] \in {"live", "leaving"} /\ ch = <<>> /\ closed
  /\ conn' = [conn EXCEPT ![s] = "ended"]
  /\ UNCHANGED <<runVars, got, replayed, polled>>

ClientLeaves(s) ==
  /\ conn[s] = "live"
  /\ conn' = [conn EXCEPT ![s] = "leaving"]
  /\ UNCHANGED <<runVars, got, replayed, polled>>

CtxDone(s) ==
  /\ conn[s] = "leaving"
  /\ conn' = [conn EXCEPT ![s] = "ended"]
  /\ UNCHANGED <<runVars, got, replayed, polled>>

-----------------------------------------------------------------------------
\* handleGetRun: done and summary are read under one lock.  A run that ended
\* with an error has no summary and is still reported as running.
GetRun ==
  /\ polled' = IF ~done \/ ~summary THEN "running" ELSE "summary"
  /\ UNCHANGED <<runVars, subVars>>

RunStep == (\E type \in {"start", "request", "error", "done"} : AppendEvent(type))
           \/ SendEvent \/ Finish \/ CloseChannel
HandlerStep(s) == CheckDone(s) \/ Receive(s) \/ ChannelClosed(s) \/ CtxDone(s)

Next ==
  \/ RunStep
  \/ \E s \in Subs : Connect(s) \/ HandlerStep(s) \/ ClientLeaves(s)
  \/ GetRun

Spec == Init /\ [][Next]_vars

-----------------------------------------------------------------------------
Taken(s) == {got[s][i] : i \in DOMAIN got[s]}
Queued == {ch[i] : i \in DOMAIN ch}
Unsent == IF phase = "sending" THEN {Len(events)} ELSE {}

(* No event is delivered twice or vanishes: each one the log holds is      *)
(* waiting to be sent, in the channel, dropped for want of room, or taken  *)
(* by exactly one connection, however many of them follow the run.         *)
EachEventOnce ==
  /\ \A i \in 1 .. Len(events) :
       i \in Unsent \cup Queued \cup dropped \cup UNION {Taken(s) : s \in Subs}
  /\ \A s, t \in Subs : s # t => Taken(s) \cap Taken(t) = {}
  /\ \A s \in Subs : Taken(s) \cap (Unsent \cup Queued \cup dropped) = {}

(* A connection sees the events in the order the run produced them.        *)
InOrder == \A s \in Subs : \A i, j \in DOMAIN got[s] : i < j => got[s][i] < got[s][j]

(* A replay is the whole run, to its final event: done is only set once    *)
(* the final event is in the log.                                          *)
ReplayComplete == \A s \in Subs : replayed[s] # <<>> => replayed[s] = events /\ Ended(events)

(* A run that does not loop loses no event, even if nobody ever listens:   *)
(* the buffer has room for its start, its requests and its end.            *)
NoDropWithinPlan == Len(events) <= Planned + 2 => dropped = {}

(* A summary is only answered for a run that ended well: its last event is *)
(* "done" and nothing will be added.  A failed run never has one.          *)
SummaryIsFinal == polled = "summary" => Ended(events) /\ Last(events) = "done" /\ phase \in {"closing", "end"}
=============================================================================
