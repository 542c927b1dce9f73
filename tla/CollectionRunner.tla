-------------------------- MODULE CollectionRunner --------------------------
(***************************************************************************)
(* engine/runner: the sequential execution of a collection for the agent's *)
(* runs and for the CLI.  Scripts decide at run time what comes next: they *)
(* may fail, skip their request, or name the request to run next, so the   *)
(* order is not the collection's and a run may loop.                       *)
(*                                                                         *)
(* A request is named by its position in the flattened collection.  What   *)
(* scripts and targets do is a choice; of variables the module keeps which *)
(* iterations have written to the resolver.                                *)
(***************************************************************************)
EXTENDS Integers, FiniteSetsExt, Selection

CONSTANTS
  Items,      \* flatten(col.Item): [name, folder, pre, tests], scripts counted
  Folder,     \* Options.Folder; AnyFolder when empty
  AnyFolder,
  Names,      \* what a script may pass to setNextRequest
  None, Stop, \* no call of setNextRequest; setNextRequest(null)
  Iterations,
  Delay,      \* Options.DelayMS > 0
  CanExpire,  \* the context may be cancelled: the CLI's --timeout
  MaxRequests \* maxRequestsPerIteration, 1000 in the code

ASSUME OptionsAssumption ==
  /\ Iterations \in Nat \ {0} /\ MaxRequests \in Nat \ {0}
  /\ Delay \in BOOLEAN /\ CanExpire \in BOOLEAN
  /\ None \notin Names /\ Stop \notin Names /\ None # Stop
ASSUME ItemsAssumption ==
  /\ Items \in Seq({Items[i] : i \in DOMAIN Items})
  /\ \A i \in 1 .. Len(Items) :
       Items[i].pre \in Nat /\ Items[i].tests \in Nat /\ Items[i].name \notin {None, Stop}

flat ==
  IF Folder = AnyFolder THEN Items
  ELSE Among(Items, {i \in 1 .. Len(Items) : Items[i].folder = Folder})

\* Variant for the sensitivity runs: the last request of the name is found.
FindRequestLast(name) == Max({i \in 1 .. Len(flat) : flat[i].name = name} \cup {0})
FindRequest(name) ==
  LET found == {i \in 1 .. Len(flat) : flat[i].name = name}
  IN IF found = {} THEN 0 ELSE Min(found)

VARIABLES
  bail,      \* Options.Bail
  phase,     \* where Run is
  iter,      \* the iteration, from 1
  pos,       \* the request under way
  execCount,
  script,    \* the script of the request to execute next
  test,      \* every test so far has passed
  next,      \* the last setNextRequest of a test script
  current,   \* result.Requests of the iteration under way
  tally,     \* outcomes in RunResult
  streamed,  \* outcomes given to OnRequest
  writers,   \* iterations whose scripts wrote to the resolver in use
  expired    \* ctx.Done()

vars == <<bail, phase, iter, pos, execCount, script, test, next, current,
          tally, streamed, writers, expired>>
perRequest == <<script, test, next>>

Kinds == {"passed", "failed", "error", "skipped"}
Nexts == Names \cup {None, Stop}
Passed(result) == result.kind \in {"passed", "skipped"}
NoOutcomes == [k \in Kinds |-> 0]
Outcomes(results) ==
  [k \in Kinds |-> Cardinality({i \in 1 .. Len(results) : results[i].kind = k})]
Plus(s, t) == [k \in Kinds |-> s[k] + t[k]]

TypeOK ==
  /\ bail \in BOOLEAN
  /\ phase \in {"iterate", "loop", "pre", "http", "test", "done", "error"}
  /\ iter \in 1 .. Iterations + 1
  /\ pos \in 1 .. Len(flat) + 1 /\ execCount \in 0 .. MaxRequests
  /\ script \in Nat /\ test \in BOOLEAN /\ next \in Nexts
  /\ current \in Seq([request : 1 .. Len(flat), kind : Kinds, next : Nexts])
  /\ tally \in [Kinds -> Nat] /\ streamed \in [Kinds -> Nat]
  /\ writers \subseteq 1 .. Iterations /\ expired \in BOOLEAN

Init ==
  /\ bail \in BOOLEAN
  /\ phase = "iterate" /\ iter = 1 /\ pos = 1 /\ execCount = 0
  /\ script = 1 /\ test = TRUE /\ next = None
  /\ current = <<>> /\ tally = NoOutcomes /\ streamed = NoOutcomes
  /\ writers = {} /\ expired = FALSE

-----------------------------------------------------------------------------
(* Variants of steps below with a plausible mistake, for the sensitivity   *)
(* runs; the specification does not use them.                              *)

\* The resolver is built once, before the loop.
BeginIterationKeepsVars ==
  /\ phase = "iterate" /\ iter <= Iterations
  /\ phase' = "loop" /\ pos' = 1 /\ execCount' = 0 /\ current' = <<>>
  /\ UNCHANGED <<bail, iter, perRequest, tally, streamed, writers, expired>>

\* `continue` where the code returns.
LimitContinues ==
  /\ phase = "loop" /\ pos <= Len(flat) /\ execCount >= MaxRequests
  /\ UNCHANGED vars

\* The callback is skipped for the request that stops the run.
StreamBailFirst(result) ==
  IF bail /\ ~Passed(result) THEN streamed ELSE Plus(streamed, Outcomes(<<result>>))

-----------------------------------------------------------------------------
(* Run. *)

BeginIteration ==
  /\ phase = "iterate" /\ iter <= Iterations
  /\ phase' = "loop" /\ pos' = 1 /\ execCount' = 0 /\ current' = <<>> /\ writers' = {}
  /\ UNCHANGED <<bail, iter, perRequest, tally, streamed, expired>>

\* The loops of both functions end: result.Iterations grows, and Bail breaks.
EndIteration ==
  /\ phase = "loop" /\ pos > Len(flat)
  /\ tally' = Plus(tally, Outcomes(current))
  /\ iter' = iter + 1
  /\ phase' = IF bail /\ ~(\A i \in 1 .. Len(current) : Passed(current[i]))
                THEN "done" ELSE "iterate"
  /\ UNCHANGED <<bail, pos, execCount, perRequest, current, streamed, writers, expired>>

EndRun ==
  /\ phase = "iterate" /\ iter > Iterations
  /\ phase' = "done"
  /\ UNCHANGED <<bail, iter, pos, execCount, perRequest, current, tally, streamed, writers, expired>>

-----------------------------------------------------------------------------
(* runIteration. *)

LimitReached == execCount >= MaxRequests

Limit ==
  /\ phase = "loop" /\ pos <= Len(flat) /\ LimitReached
  /\ phase' = "error"
  /\ UNCHANGED <<bail, iter, pos, execCount, perRequest, current, tally, streamed, writers, expired>>

DelayCancelled ==
  /\ phase = "loop" /\ pos <= Len(flat) /\ ~LimitReached
  /\ Delay /\ execCount > 0 /\ expired
  /\ phase' = "error"
  /\ UNCHANGED <<bail, iter, pos, execCount, perRequest, current, tally, streamed, writers, expired>>

\* The context is looked at during the delay only, and there the timer may
\* have fired as well.
BeginRequest ==
  /\ phase = "loop" /\ pos <= Len(flat) /\ ~LimitReached
  /\ execCount' = execCount + 1
  /\ phase' = "pre" /\ script' = 1 /\ test' = TRUE /\ next' = None
  /\ UNCHANGED <<bail, iter, pos, current, tally, streamed, writers, expired>>

\* Where the loop goes on; past the end stops the iteration.
Stops(result) == bail /\ ~Passed(result)
After(result) ==
  IF result.next = None THEN result.request + 1
  ELSE IF FindRequest(result.next) = 0 THEN result.request + 1 ELSE FindRequest(result.next)
Streamed(result) == Plus(streamed, Outcomes(<<result>>))

\* runRequest returns a result: it is appended, streamed, and decides.
Record(kind, named) ==
  LET result == [request |-> pos, kind |-> kind, next |-> named]
  IN /\ current' = Append(current, result)
     /\ streamed' = Streamed(result)
     /\ pos' = IF Stops(result) \/ named = Stop THEN Len(flat) + 1 ELSE After(result)
     /\ phase' = "loop" /\ UNCHANGED bail

-----------------------------------------------------------------------------
(* runRequest. *)

\* What it passes to setNextRequest is read by nobody.
PreScript ==
  /\ phase = "pre" /\ script <= flat[pos].pre
  /\ writers' = writers \cup {iter}
  /\ script' = script + 1
  /\ UNCHANGED <<bail, phase, iter, pos, execCount, test, next, current, tally, streamed, expired>>

PreScriptSkips ==
  /\ phase = "pre" /\ script <= flat[pos].pre
  /\ writers' = writers \cup {iter}
  /\ Record("skipped", None)
  /\ UNCHANGED <<iter, execCount, perRequest, tally, expired>>

\* sandbox.Execute fails: by itself, or because the context is done, which
\* is not told apart and does not end the run.
PreScriptFails ==
  /\ phase = "pre" /\ script <= flat[pos].pre
  /\ Record("error", None)
  /\ UNCHANGED <<iter, execCount, perRequest, tally, writers, expired>>

AuthFails ==
  /\ phase = "pre" /\ script > flat[pos].pre
  /\ Record("error", None)
  /\ UNCHANGED <<iter, execCount, perRequest, tally, writers, expired>>

SendRequest ==
  /\ phase = "pre" /\ script > flat[pos].pre /\ ~expired
  /\ phase' = "http"
  /\ UNCHANGED <<bail, iter, pos, execCount, perRequest, current, tally, streamed, writers, expired>>

HttpAnswered ==
  /\ phase = "http"
  /\ phase' = "test" /\ script' = 1
  /\ UNCHANGED <<bail, iter, pos, execCount, test, next, current, tally, streamed, writers, expired>>

\* The target fails: no test script is run.
HttpFails ==
  /\ phase = "http" /\ ~expired
  /\ Record("error", None)
  /\ UNCHANGED <<iter, execCount, perRequest, tally, writers, expired>>

HttpAborted ==
  /\ phase = "http" \/ (phase = "pre" /\ script > flat[pos].pre)
  /\ expired
  /\ phase' = "error"
  /\ UNCHANGED <<bail, iter, pos, execCount, perRequest, current, tally, streamed, writers, expired>>

TestScript ==
  /\ phase = "test" /\ script <= flat[pos].tests
  /\ writers' = writers \cup {iter}
  /\ test' \in {test, FALSE}
  /\ next' \in Nexts /\ (next' = None => next = None)
  /\ script' = script + 1
  /\ UNCHANGED <<bail, phase, iter, pos, execCount, current, tally, streamed, expired>>

\* The tests and the setNextRequest of the scripts before it are lost.
TestScriptFails ==
  /\ phase = "test" /\ script <= flat[pos].tests
  /\ Record("error", None)
  /\ UNCHANGED <<iter, execCount, perRequest, tally, writers, expired>>

EndRequest ==
  /\ phase = "test" /\ script > flat[pos].tests
  /\ Record(IF test THEN "passed" ELSE "failed", next)
  /\ UNCHANGED <<iter, execCount, perRequest, tally, writers, expired>>

-----------------------------------------------------------------------------
Expire ==
  /\ CanExpire /\ ~expired /\ phase \notin {"done", "error"}
  /\ expired' = TRUE
  /\ UNCHANGED <<bail, phase, iter, pos, execCount, perRequest, current, tally, streamed, writers>>

RunStep ==
  \/ BeginIteration \/ EndIteration \/ EndRun
  \/ Limit \/ DelayCancelled \/ BeginRequest
  \/ PreScript \/ PreScriptSkips \/ PreScriptFails \/ AuthFails \/ SendRequest
  \/ HttpAnswered \/ HttpFails \/ HttpAborted
  \/ TestScript \/ TestScriptFails \/ EndRequest

Next == RunStep \/ Expire

Spec == Init /\ [][Next]_vars

\* Scripts settle and targets answer: whether they do is module SandboxIPC's
\* question, and the client's timeout.
FairSpec == Spec /\ WF_vars(RunStep)

-----------------------------------------------------------------------------
(* The requests of an iteration are run in the collection's order, except  *)
(* where a test script names the next one: then it is the first request of *)
(* that name, or the following one if there is none.                       *)
Follower(result) ==
  LET named == {i \in 1 .. Len(flat) : flat[i].name = result.next}
  IN IF named = {} THEN result.request + 1
     ELSE CHOOSE i \in named : \A j \in named : i <= j
ScriptsDecideOrder ==
  /\ current # <<>> => current[1].request = 1
  /\ \A i \in 1 .. Len(current) - 1 :
       /\ current[i].next # Stop
       /\ current[i + 1].request = Follower(current[i])

(* --bail: nothing is run after a request that failed, for whatever        *)
(* reason, neither in its iteration nor in another.                        *)
BailStops ==
  bail => \A k \in {"failed", "error"} :
    /\ tally[k] # 0 => phase = "done"
    /\ \A i \in 1 .. Len(current) - 1 : current[i].kind # k

(* A script's loop ends in an error, never in more requests than allowed:  *)
(* with the limit reached nothing but an end of the run can follow.        *)
LoopBounded == Len(current) <= MaxRequests /\ (phase = "error" /\ ~expired => Len(current) = MaxRequests)

(* What the callback streamed adds up to what the result of the run says,  *)
(* so the summary of a run agrees with the events that were shown.         *)
StreamAgrees ==
  streamed = IF phase = "done" \/ phase = "iterate" THEN tally ELSE Plus(tally, Outcomes(current))

(* No iteration sees a variable that another has written.                  *)
IterationsIsolated == phase \notin {"iterate", "done"} => writers \subseteq {iter}

(* Whatever the scripts do, a run ends.                                    *)
RunEnds == <>(phase \in {"done", "error"})
=============================================================================
