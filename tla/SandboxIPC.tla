----------------------------- MODULE SandboxIPC -----------------------------
(***************************************************************************)
(* engine/sandbox/runner.go and runner/src/index.js: the Go host and the   *)
(* Node process that runs user scripts.  Any number of goroutines call     *)
(* Execute; each writes one line to Node's stdin while it holds r.mu, then *)
(* waits for its answer, its context or the end of Node.  One goroutine,   *)
(* readLoop, reads Node's stdout and hands every answer to the channel     *)
(* registered under its id.  Node is one thread: a script may log, never   *)
(* settle, loop, kill the process or answer with a line too long to scan.  *)
(*                                                                         *)
(* A pipe is a FIFO of lines.  A writer puts its line at the end and stays *)
(* blocked until at most Cap lines are left: Cap = 0 is a pipe that cannot *)
(* hold even one line (64 KB against bodies of megabytes).                 *)
(***************************************************************************)
EXTENDS Naturals, Sequences

CONSTANTS
  Calls,        \* the calls of Execute; each call carries a script of its own
  HasDeadline,  \* the calls whose context can be cancelled or time out
  StdinCap,     \* lines Node's stdin holds without blocking the writer
  StdoutCap,    \* lines Node's stdout holds without blocking Node
  Faults,       \* what scripts may do besides answering
  Nobody        \* no call

AllFaults == {"log", "hang", "spin", "crash", "huge"}

ASSUME CapAssumption == StdinCap \in Nat /\ StdoutCap \in Nat
ASSUME CallAssumption == HasDeadline \subseteq Calls /\ Nobody \notin Calls
ASSUME FaultAssumption == Faults \subseteq AllFaults

VARIABLES
  pc,       \* where each call is inside Execute
  id,       \* the id each call took, 0 before
  nextID,   \* r.nextID
  mu,       \* the call that holds r.mu across a write; Nobody when free
  inflight, \* r.inflight: id -> the call whose channel is registered
  chan,     \* the buffered channel of each call
  expired,  \* ctx.Done() is ready
  outcome,  \* how each call ended
  answer,   \* the script whose answer the call returned
  reader,   \* where readLoop is; "closed" once r.done is closed
  held,     \* the reply readLoop holds
  dest,     \* the call whose channel readLoop is about to send on
  stdin, stdout,
  node,     \* the Node thread
  running,  \* calls whose script has started and has not answered
  ran,      \* scripts Node has ever started
  closer    \* Close: not called, in cmd.Wait, returned

goVars == <<pc, id, nextID, mu, inflight, chan, expired, outcome, answer>>
readVars == <<reader, held, dest>>
nodeVars == <<node, running, ran>>
vars == <<goVars, readVars, stdin, stdout, nodeVars, closer>>

\* A line of stdin is named by the call that wrote it: the id it carries, and
\* that Node copies into its answer, is id[c], which a call takes once.
Replies == [script : Calls, kind : {"reply", "huge"}]
LogLine == [script |-> Nobody, kind |-> "log"]
ChanCap == 1

TypeOK ==
  /\ pc \in [Calls -> {"idle", "register", "write", "writing", "waiting", "remove", "done"}]
  /\ id \in [Calls -> Nat] /\ nextID \in Nat
  /\ mu \in Calls \cup {Nobody}
  /\ DOMAIN inflight \subseteq Nat
  /\ inflight \in [DOMAIN inflight -> Calls]
  /\ chan \in [Calls -> Seq(Calls)]
  /\ expired \in [Calls -> BOOLEAN]
  /\ outcome \in [Calls -> {"none", "answer", "timeout", "exited", "write"}]
  /\ answer \in [Calls -> Calls \cup {Nobody}]
  /\ reader \in {"scan", "take", "send", "closed"}
  /\ held \in Calls \cup {Nobody} /\ (reader \in {"take", "send"} => held \in Calls)
  /\ dest \in Calls \cup {Nobody} /\ (reader = "send" => dest \in Calls)
  /\ stdin \in Seq(Calls) /\ stdout \in Seq(Replies \cup {LogLine})
  /\ node \in {"ready", "writing", "spinning", "exited"}
  /\ running \subseteq Calls /\ ran \subseteq Calls
  /\ closer \in {"open", "waiting", "closed"}

Init ==
  /\ pc = [c \in Calls |-> "idle"] /\ id = [c \in Calls |-> 0] /\ nextID = 0
  /\ mu = Nobody /\ inflight = <<>>
  /\ chan = [c \in Calls |-> <<>>] /\ expired = [c \in Calls |-> FALSE]
  /\ outcome = [c \in Calls |-> "none"] /\ answer = [c \in Calls |-> Nobody]
  /\ reader = "scan" /\ held = Nobody /\ dest = Nobody
  /\ stdin = <<>> /\ stdout = <<>>
  /\ node = "ready" /\ running = {} /\ ran = {} /\ closer = "open"

-----------------------------------------------------------------------------
(* Execute.  json.Marshal cannot fail on a ScriptContext (strings, numbers *)
(* and maps of strings), so its error branch has no action.                *)

Delete(n) == [m \in DOMAIN inflight \ {n} |-> inflight[m]]
Goto(c, here, there) == pc[c] = here /\ pc' = [pc EXCEPT ![c] = there]

(* Variants of steps below with a plausible mistake, for the sensitivity   *)
(* runs; the specification does not use them.                              *)

\* The id is read and incremented in two steps: two calls may share one.
TakeIdNotAtomic(c) ==
  /\ closer = "open" /\ Goto(c, "idle", "register")
  /\ id' = [id EXCEPT ![c] = nextID + 1]
  /\ nextID' \in {nextID, nextID + 1}
  /\ UNCHANGED <<mu, inflight, chan, expired, outcome, answer, readVars, stdin, stdout, nodeVars, closer>>

\* removeInflight is given the latest id instead of its own.
RemoveInflightLatest(c) ==
  /\ mu = Nobody /\ Goto(c, "remove", "done")
  /\ inflight' = Delete(nextID)
  /\ UNCHANGED <<id, nextID, mu, chan, expired, outcome, answer, readVars, stdin, stdout, nodeVars, closer>>

\* The select has no arm for r.done.
SelectExitedMissing(c) == FALSE /\ UNCHANGED vars

\* A failed write returns with r.mu still locked.
FailWriteLocked(c) ==
  /\ node = "exited" /\ Goto(c, "writing", "remove")
  /\ outcome' = [outcome EXCEPT ![c] = "write"]
  /\ UNCHANGED <<id, nextID, mu, inflight, chan, expired, answer, readVars, stdin, stdout, nodeVars, closer>>

-----------------------------------------------------------------------------
TakeId(c) ==
  /\ closer = "open"
  /\ Goto(c, "idle", "register")
  /\ nextID' = nextID + 1
  /\ id' = [id EXCEPT ![c] = nextID + 1]
  /\ UNCHANGED <<mu, inflight, chan, expired, outcome, answer, readVars, stdin, stdout, nodeVars, closer>>

Register(c) ==
  /\ mu = Nobody
  /\ Goto(c, "register", "write")
  /\ inflight' = [m \in DOMAIN inflight \cup {id[c]} |-> IF m = id[c] THEN c ELSE inflight[m]]
  /\ UNCHANGED <<id, nextID, mu, chan, expired, outcome, answer, readVars, stdin, stdout, nodeVars, closer>>

\* r.mu is taken and the first bytes of the line enter the pipe.
BeginWrite(c) ==
  /\ mu = Nobody
  /\ Goto(c, "write", "writing")
  /\ mu' = c
  /\ stdin' = Append(stdin, c)
  /\ UNCHANGED <<id, nextID, inflight, chan, expired, outcome, answer, readVars, stdout, nodeVars, closer>>

EndWrite(c) ==
  /\ Len(stdin) <= StdinCap
  /\ Goto(c, "writing", "waiting")
  /\ mu' = Nobody
  /\ UNCHANGED <<id, nextID, inflight, chan, expired, outcome, answer, readVars, stdin, stdout, nodeVars, closer>>

\* EPIPE: the process has gone.
FailWrite(c) ==
  /\ node = "exited"
  /\ Goto(c, "writing", "remove")
  /\ mu' = Nobody
  /\ outcome' = [outcome EXCEPT ![c] = "write"]
  /\ UNCHANGED <<id, nextID, inflight, chan, expired, answer, readVars, stdin, stdout, nodeVars, closer>>

\* The three arms of the select; Go picks any that is ready.
SelectTimeout(c) ==
  /\ expired[c]
  /\ Goto(c, "waiting", "remove")
  /\ outcome' = [outcome EXCEPT ![c] = "timeout"]
  /\ UNCHANGED <<id, nextID, mu, inflight, chan, expired, answer, readVars, stdin, stdout, nodeVars, closer>>

SelectExited(c) ==
  /\ reader = "closed"
  /\ Goto(c, "waiting", "remove")
  /\ outcome' = [outcome EXCEPT ![c] = "exited"]
  /\ UNCHANGED <<id, nextID, mu, inflight, chan, expired, answer, readVars, stdin, stdout, nodeVars, closer>>

SelectAnswer(c) ==
  /\ chan[c] # <<>>
  /\ Goto(c, "waiting", "done")
  /\ outcome' = [outcome EXCEPT ![c] = "answer"]
  /\ answer' = [answer EXCEPT ![c] = Head(chan[c])]
  /\ chan' = [chan EXCEPT ![c] = Tail(@)]
  /\ UNCHANGED <<id, nextID, mu, inflight, expired, readVars, stdin, stdout, nodeVars, closer>>

RemoveInflight(c) ==
  /\ mu = Nobody
  /\ Goto(c, "remove", "done")
  /\ inflight' = Delete(id[c])
  /\ UNCHANGED <<id, nextID, mu, chan, expired, outcome, answer, readVars, stdin, stdout, nodeVars, closer>>

\* The caller's context: its timer fires or its client goes away.
Expire(c) ==
  /\ c \in HasDeadline /\ ~expired[c] /\ pc[c] \notin {"idle", "done"}
  /\ expired' = [expired EXCEPT ![c] = TRUE]
  /\ UNCHANGED <<pc, id, nextID, mu, inflight, chan, outcome, answer, readVars, stdin, stdout, nodeVars, closer>>

-----------------------------------------------------------------------------
(* readLoop.  A line that is not JSON (a script's console.log) is skipped; *)
(* a line over the 4 MB buffer ends the scan while Node is still alive,    *)
(* and what is left of it may or may not fit in the pipe.                  *)

ReaderScan ==
  /\ reader = "scan" /\ stdout # <<>>
  /\ \/ Head(stdout).kind = "log" /\ stdout' = Tail(stdout) /\ UNCHANGED <<reader, held>>
     \/ Head(stdout).kind = "reply" /\ stdout' = Tail(stdout) /\ reader' = "take" /\ held' = Head(stdout).script
     \/ Head(stdout).kind = "huge" /\ stdout' \in {stdout, Tail(stdout)} /\ reader' = "closed" /\ UNCHANGED held
  /\ UNCHANGED <<goVars, dest, stdin, nodeVars, closer>>

ReaderTake ==
  /\ reader = "take" /\ mu = Nobody
  /\ IF id[held] \in DOMAIN inflight
       THEN dest' = inflight[id[held]] /\ inflight' = Delete(id[held]) /\ reader' = "send"
         /\ UNCHANGED held
       ELSE reader' = "scan" /\ held' = Nobody /\ UNCHANGED <<dest, inflight>>
  /\ UNCHANGED <<pc, id, nextID, mu, chan, expired, outcome, answer, stdin, stdout, nodeVars, closer>>

ReaderSend ==
  /\ reader = "send" /\ Len(chan[dest]) < ChanCap
  /\ chan' = [chan EXCEPT ![dest] = Append(@, held)]
  /\ reader' = "scan" /\ held' = Nobody /\ dest' = Nobody
  /\ UNCHANGED <<pc, id, nextID, mu, inflight, expired, outcome, answer, stdin, stdout, nodeVars, closer>>

\* Once cmd.Wait has returned it has also closed the read end.
ReaderEnd ==
  /\ reader = "scan" /\ node = "exited" /\ (stdout = <<>> \/ closer = "closed")
  /\ reader' = "closed"
  /\ UNCHANGED <<goVars, held, dest, stdin, stdout, nodeVars, closer>>

-----------------------------------------------------------------------------
(* Node.  A write to stdout is synchronous: it blocks the whole process.   *)

NodeRead ==
  /\ node = "ready" /\ stdin # <<>>
  /\ stdin' = Tail(stdin)
  /\ running' = running \cup {Head(stdin)}
  /\ ran' = ran \cup {Head(stdin)}
  /\ \/ UNCHANGED <<node, stdout>>
     \/ "log" \in Faults /\ stdout' = Append(stdout, LogLine) /\ node' = "writing"
     \/ "spin" \in Faults /\ node' = "spinning" /\ UNCHANGED stdout
  /\ UNCHANGED <<goVars, readVars, closer>>

NodeReply(c) ==
  /\ node = "ready" /\ c \in running
  /\ running' = running \ {c}
  /\ \E kind \in {"reply"} \cup (Faults \cap {"huge"}) :
       stdout' = Append(stdout, [script |-> c, kind |-> kind])
  /\ node' = "writing"
  /\ UNCHANGED <<goVars, readVars, stdin, ran, closer>>

NodeWritten ==
  /\ node = "writing" /\ Len(stdout) <= StdoutCap
  /\ node' = "ready"
  /\ UNCHANGED <<goVars, readVars, stdin, stdout, running, ran, closer>>

\* A promise that never settles: no reply, and nothing else is disturbed.
NodeHang(c) ==
  /\ "hang" \in Faults /\ node = "ready" /\ c \in running
  /\ running' = running \ {c}
  /\ UNCHANGED <<goVars, readVars, stdin, stdout, node, ran, closer>>

\* An exception in a timer or a rejection nobody handles ends the process,
\* even when it belongs to a script that has already answered.
NodeCrash ==
  /\ "crash" \in Faults /\ node = "ready" /\ ran # {}
  /\ node' = "exited" /\ running' = {}
  /\ UNCHANGED <<goVars, readVars, stdin, stdout, ran, closer>>

\* onEnd: process.exit(0), whatever is still running.
NodeEnd ==
  /\ node = "ready" /\ closer # "open" /\ stdin = <<>>
  /\ node' = "exited" /\ running' = {}
  /\ UNCHANGED <<goVars, readVars, stdin, stdout, ran, closer>>

-----------------------------------------------------------------------------
(* Close.  Its only caller is the CLI, after the run has returned.         *)

Close ==
  /\ closer = "open" /\ \A c \in Calls : pc[c] \in {"idle", "done"}
  /\ closer' = "waiting"
  /\ UNCHANGED <<goVars, readVars, stdin, stdout, nodeVars>>

CloseReturn ==
  /\ closer = "waiting" /\ node = "exited"
  /\ closer' = "closed"
  /\ UNCHANGED <<goVars, readVars, stdin, stdout, nodeVars>>

\* Nothing is left to do: everything called has returned and Close with it.
Finished ==
  /\ closer = "closed" /\ reader = "closed"
  /\ UNCHANGED vars

CallStep(c) ==
  \/ Register(c) \/ BeginWrite(c) \/ EndWrite(c) \/ FailWrite(c)
  \/ SelectTimeout(c) \/ SelectExited(c) \/ SelectAnswer(c) \/ RemoveInflight(c)
ReaderStep == ReaderScan \/ ReaderTake \/ ReaderSend \/ ReaderEnd

Next ==
  \/ \E c \in Calls : TakeId(c) \/ CallStep(c) \/ Expire(c)
  \/ ReaderStep
  \/ NodeRead \/ (\E c \in Calls : NodeReply(c) \/ NodeHang(c))
  \/ NodeWritten \/ NodeCrash \/ NodeEnd
  \/ Close \/ CloseReturn \/ Finished

Spec == Init /\ [][Next]_vars

\* Goroutines run; r.mu is starvation free (sync.Mutex), so taking it is
\* strongly fair; timers fire; Node's event loop is a FIFO.  Nothing makes a
\* caller call, a script misbehave, or anyone call Close.
Fairness ==
  /\ \A c \in Calls : SF_vars(CallStep(c)) /\ WF_vars(Expire(c))
  /\ SF_vars(ReaderStep)
  /\ WF_vars(NodeRead) /\ WF_vars(NodeWritten) /\ WF_vars(NodeEnd)
  /\ \A c \in Calls : SF_vars(NodeReply(c))
  /\ WF_vars(CloseReturn)
FairSpec == Spec /\ Fairness

-----------------------------------------------------------------------------
(* Execute returns the answer to the script it was given, however late the *)
(* answers come and in whatever order Node writes them.                    *)
OwnAnswer == \A c \in Calls : outcome[c] = "answer" => answer[c] = c

(* A call that has returned, by whichever exit, has left no entry behind:  *)
(* r.inflight does not grow with calls that timed out or failed.           *)
NoLeak == \A c \in Calls : pc[c] = "done" => id[c] \notin DOMAIN inflight

(* readLoop never blocks on `ch <- response`: whoever is or is not still   *)
(* listening, the channel it found under r.mu has room.  Were it to block, *)
(* no other call would ever be answered.                                   *)
ReaderNeverBlocks == reader = "send" => Len(chan[dest]) < ChanCap

(* While a call waits and Node and readLoop live, its answer is still to   *)
(* come: its channel is registered, or being sent on, or holds the answer. *)
AnswerNotLost ==
  \A c \in Calls : pc[c] = "waiting" =>
     \/ id[c] \in DOMAIN inflight
     \/ reader = "send" /\ dest = c
     \/ chan[c] # <<>>

(* The script of c has started, will not answer, and Node is not aware of  *)
(* it: it waits for something that never comes.                            *)
Hangs(c) ==
  /\ c \in ran \ running /\ node # "exited" /\ held # c /\ chan[c] = <<>>
  /\ \A n \in DOMAIN stdout : stdout[n].script # c

(* Every call of Execute returns, with or without a deadline, unless its   *)
(* own script hangs or some script spins for ever.                         *)
EveryCallReturns ==
  \A c \in Calls : (pc[c] # "idle") ~> (pc[c] = "done" \/ Hangs(c) \/ node = "spinning")

(* agent/run.go:290, "the sandbox honours the context timeout": a call     *)
(* whose context is done returns, whatever its script and the others do;   *)
(* but not if a script spins while a request is written that the pipe does *)
(* not hold, since the write holds the mutex and no timeout ends it.       *)
WriteStuck == node = "spinning" /\ Len(stdin) > StdinCap
TimeoutHonoured == \A c \in Calls : expired[c] ~> (pc[c] = "done" \/ WriteStuck)


-----------------------------------------------------------------------------
(* The promise this module implements. *)
Phase(c) ==
  IF pc[c] = "idle" THEN "idle"
  ELSE IF pc[c] # "done" THEN "pending"
  ELSE IF outcome[c] = "answer" THEN "answered" ELSE "failed"

Promise == INSTANCE ScriptCalls WITH
  phase <- [c \in Calls |-> Phase(c)], result <- answer, ran <- ran

(* Every behaviour of host, pipes and Node is one that Runner promises: no *)
(* script runs twice, none is answered before it ran or with another's     *)
(* answer, and a call ends once.                                           *)
KeepsPromise == Promise!Spec
=============================================================================
