---- MODULE MCWorkspaceSync ----
EXTENDS WorkspaceSync, TLC
CONSTANTS c1, c2, e1
BothKinds == {c1, c2, e1}
KindOf == (c1 :> "collections") @@ (c2 :> "collections") @@ (e1 :> "environments")
====
