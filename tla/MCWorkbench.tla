---------------------------- MODULE MCWorkbench ----------------------------
(* The user has a collection with a folder in it, in that a request and    *)
(* another folder, and an environment; the request is open and has edits,  *)
(* the inner folder is open too.  A second collection and a second request *)
(* can be added, and a third tab.  Every sequence of MaxActs acts.         *)
EXTENDS Workbench, TLC

CONSTANTS c1, c2, f1, f2, r1, r2, e1

MCTabIds == 1..3
MCCollections == {c1, c2}
MCFolders == {f1, f2}
MCRequests == {r1, r2}
MCEnvironments == {e1}

MCInit ==
  /\ tabs = <<[Tab("request", r1, None) EXCEPT !.id = 1, !.dirty = TRUE],
              [Tab("folder", f2, c1) EXCEPT !.id = 2]>>
  /\ activeTabId = 1 /\ closedTabs = <<>>
  /\ collections = {c1} /\ place = f1 :> c1 @@ f2 :> f1 @@ r1 :> f1 @@ r2 :> Nowhere
  /\ environments = {e1} /\ activeEnvironmentId = e1
  /\ confirm = Nothing /\ saved = None /\ acts = 0

MCSpec ==
  /\ MCInit /\ [][Next]_vars
  /\ WF_vars(CleanupOrphans /\ UNCHANGED acts)
  /\ WF_vars(EnvironmentPane /\ UNCHANGED acts)
  /\ WF_vars(Load /\ UNCHANGED acts)
=============================================================================
