----------------------------- MODULE RunResults -----------------------------
(***************************************************************************)
(* The table of a run in the Runs tab (collection-pane.tsx, buildRows and  *)
(* RunResultsTable): a row for each request, a cell for each iteration,    *)
(* and the lines under a row that say what failed.                         *)
(*                                                                         *)
(* A row stands for a method and a name; but the agent takes the method    *)
(* of an event from a table by name (run.go, collectReqInfo), so all       *)
(* requests of one name are one row.                                       *)
(***************************************************************************)
EXTENDS Naturals, SequencesExt

CONSTANTS
  Names,
  MaxIterations, MaxRequestEvents   \* bounds

ASSUME ResultsAssumption == MaxIterations \in Nat \ {0}

VARIABLES
  events,          \* the request events of the run that is shown
  totalIterations, \* of its start event
  expanded         \* the rows that are expanded

resultVars == <<events, totalIterations, expanded>>

(* What an event says: an error, or the results of the tests, which are    *)
(* none also for a request that was skipped.                               *)
Error == "error"
Outcomes == {Error, <<>>, <<TRUE>>, <<FALSE>>, <<FALSE, TRUE>>}
Passed(outcome) == outcome # Error /\ \A n \in DOMAIN outcome : outcome[n]

ResultsInit == events = <<>> /\ totalIterations \in 1..MaxIterations /\ expanded = {}

(* Scripts may run a request again, or not at all.                         *)
OnRequestEvent ==
  /\ Len(events) < MaxRequestEvents
  /\ \E name \in Names, outcome \in Outcomes, iteration \in 0 .. totalIterations - 1 :
       /\ events # <<>> => iteration >= Last(events).iteration
       /\ events' = Append(events, [name |-> name, iteration |-> iteration, outcome |-> outcome])
  /\ UNCHANGED <<totalIterations, expanded>>

(***************************************************************************)
(* The table.                                                              *)
(***************************************************************************)
Rows == {events[n].name : n \in DOMAIN events}

(* The results of a row, by iteration: the last one of each.               *)
IterResults(name) ==
  LET of(i) == {n \in DOMAIN events : events[n].name = name /\ events[n].iteration = i}
  IN [i \in {k \in 0 .. MaxIterations - 1 : of(k) # {}} |->
        events[CHOOSE n \in of(i) : \A m \in of(i) : m <= n].outcome]

SeenMax == CHOOSE k \in 0 .. MaxIterations - 1 :
             /\ \A n \in DOMAIN events : events[n].iteration <= k
             /\ k = 0 \/ \E n \in DOMAIN events : events[n].iteration = k

(* Mutant: as many as have been seen.                                      *)
ColumnsSeen == IF SeenMax > 1 THEN SeenMax ELSE 1

Columns == IF totalIterations > SeenMax THEN totalIterations ELSE SeenMax

Cell(name, i) ==
  IF i \notin DOMAIN IterResults(name) THEN "none"
  ELSE IF Passed(IterResults(name)[i]) THEN "passed" ELSE "failed"

Toggle ==
  /\ \E name \in Rows :
       expanded' = IF name \in expanded THEN expanded \ {name} ELSE expanded \cup {name}
  /\ UNCHANGED <<events, totalIterations>>

(* The lines under a row: errors, and tests that failed.                   *)
FailedTests(outcome) == IF outcome = Error THEN {} ELSE {n \in DOMAIN outcome : ~outcome[n]}
ErrorLines(name) ==
  {<<i, Error>> : i \in {k \in DOMAIN IterResults(name) : IterResults(name)[k] = Error}}
TestLines(name, i) == {<<i, n>> : n \in FailedTests(IterResults(name)[i])}

(* Closed: of the last iteration only.                                     *)
FailedTestLines(name) ==
  LET all == DOMAIN IterResults(name) IN TestLines(name, CHOOSE i \in all : \A j \in all : j <= i)

ExpandedLines(name) == UNION {TestLines(name, i) : i \in DOMAIN IterResults(name)}

Lines(name) ==
  ErrorLines(name) \cup IF name \in expanded THEN ExpandedLines(name) ELSE FailedTestLines(name)

ResultsNext == OnRequestEvent \/ Toggle

ResultsSpec == ResultsInit /\ [][ResultsNext]_resultVars
-----------------------------------------------------------------------------
(* No name twice in an iteration: else a result takes the place of another. *)
NamesOnce ==
  \A m, n \in DOMAIN events :
    events[m].name = events[n].name /\ events[m].iteration = events[n].iteration => m = n

(***************************************************************************)
(* The table agrees with the summary of the run: there are as many red     *)
(* cells as requests failed, each in its place; an error is always listed, *)
(* and a test that failed is, unless its row is closed and went on.        *)
(***************************************************************************)
FailuresShown ==
  NamesOnce =>
    /\ Cardinality({c \in Rows \X (0 .. Columns - 1) : Cell(c[1], c[2]) = "failed"}) =
         Cardinality({n \in DOMAIN events : ~Passed(events[n].outcome)})
    /\ \A n \in DOMAIN events :
         LET e == events[n] IN
         ~Passed(e.outcome) =>
           \/ \E line \in Lines(e.name) : line[1] = e.iteration
           \/ e.name \notin expanded /\ \E m \in n + 1 .. Len(events) : events[m].name = e.name
=============================================================================
