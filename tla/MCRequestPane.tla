--------------------------- MODULE MCRequestPane ---------------------------
(* Two environments, one with a variable; a collection with a request in   *)
(* it, open and not sent yet.                                              *)
EXTENDS RequestPane, TLC

CONSTANTS e1, e2, c1, r1, k1, v1, v2

MCTabIds == 1..3
MCEnvironmentIds == {e1, e2}
MCCollectionIds == {c1}
MCRequests == {r1}
MCKeys == {k1}
MCValues == {v1, v2}
MCHomeOf == r1 :> c1

MCRow == [enabled |-> TRUE, key |-> k1, initialValue |-> v1, currentValue |-> Empty]

MCInit ==
  /\ tabs = <<[Tab("request", r1, None) EXCEPT !.id = 1]>>
  /\ activeTabId = 1 /\ closedTabs = <<>>
  /\ owners = Owners
  /\ rows = [o \in Owners |-> IF o = e1 THEN <<MCRow>> ELSE <<>>]
  /\ activeEnvironmentId \in {e1, e2}
  /\ sends = <<>> /\ acts = 0
=============================================================================
