----------------------------- MODULE MCRunPane -----------------------------
(* Two connections to one run: the pane's and another client's.            *)
EXTENDS RunPane
CONSTANTS pane, other
MCSubs == {pane, other}
=============================================================================
