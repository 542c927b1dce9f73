---------------------------- MODULE ScriptCalls ----------------------------
(***************************************************************************)
(* What engine/sandbox.Runner promises its callers, without processes,     *)
(* pipes or ids: a call ends once, either with the answer to its own       *)
(* script, which has then been run, or with an error; a script is run at   *)
(* most once, and possibly after its call has already failed.              *)
(***************************************************************************)
CONSTANTS Calls, Nobody

VARIABLES
  phase,  \* of each call
  result, \* the script whose answer the caller got
  ran     \* scripts that have been started

avars == <<phase, result, ran>>

Init ==
  /\ phase = [c \in Calls |-> "idle"]
  /\ result = [c \in Calls |-> Nobody]
  /\ ran = {}

Submit(c) ==
  /\ phase[c] = "idle"
  /\ phase' = [phase EXCEPT ![c] = "pending"]
  /\ UNCHANGED <<result, ran>>

\* Also after the call has failed: a timeout does not recall the script.
Run(c) ==
  /\ phase[c] # "idle" /\ c \notin ran
  /\ ran' = ran \cup {c}
  /\ UNCHANGED <<phase, result>>

Answer(c) ==
  /\ phase[c] = "pending" /\ c \in ran
  /\ phase' = [phase EXCEPT ![c] = "answered"]
  /\ result' = [result EXCEPT ![c] = c]
  /\ UNCHANGED ran

Fail(c) ==
  /\ phase[c] = "pending"
  /\ phase' = [phase EXCEPT ![c] = "failed"]
  /\ UNCHANGED <<result, ran>>

Next == \E c \in Calls : Submit(c) \/ Run(c) \/ Answer(c) \/ Fail(c)

Spec == Init /\ [][Next]_avars
=============================================================================
