------------------------------ MODULE DocStore ------------------------------
(***************************************************************************)
(* What the handlers of collections and environments promise of the        *)
(* documents they keep: each call acts on its document at one moment, and  *)
(* a reader is given the document of that moment, whole, or an error.      *)
(***************************************************************************)
CONSTANTS Docs, Clients, Contents, Absent, Unreadable

VARIABLES
  doc,  \* the documents
  seen  \* what the call of each client has read so far

Nothing == [d \in {} |-> Absent]

Init == doc = [d \in Docs |-> Absent] /\ seen = [c \in Clients |-> Nothing]

Put(d) == \E v \in Contents : doc' = [doc EXCEPT ![d] = v] /\ UNCHANGED seen

Remove(d) == doc' = [doc EXCEPT ![d] = Absent] /\ UNCHANGED seen

Ask(c) == seen' = [seen EXCEPT ![c] = Nothing] /\ UNCHANGED doc

Look(c, d) ==
  /\ \E v \in {doc[d], Unreadable} :
       seen' = [seen EXCEPT ![c] = [e \in DOMAIN @ \cup {d} |-> IF e = d THEN v ELSE @[e]]]
  /\ UNCHANGED doc

Next ==
  \/ \E d \in Docs : Put(d) \/ Remove(d) \/ \E c \in Clients : Look(c, d)
  \/ \E c \in Clients : Ask(c)

Spec == Init /\ [][Next]_<<doc, seen>>
=============================================================================
