------------------------------- MODULE RunLog -------------------------------
(***************************************************************************)
(* What anyone who follows a collection run is promised of its events: one *)
(* start before anything else, then requests, then one end, after which    *)
(* nothing comes.  Where several follow one run each is given a part of    *)
(* it, so the start may be missing.                                        *)
(***************************************************************************)
EXTENDS Sequences

VARIABLE log

Final == {"error", "done"}
Over == log # <<>> /\ log[Len(log)] \in Final

Init == log = <<>>

Start == log = <<>> /\ log' = <<"start">>
Request == ~Over /\ log' = Append(log, "request")
End == ~Over /\ \E type \in Final : log' = Append(log, type)

Next == Start \/ Request \/ End

Spec == Init /\ [][Next]_log
=============================================================================
