---- MODULE MCJsonStore ----
EXTENDS JsonStore, TLC
CONSTANTS d1, d2, v1, v2, c1, c2
TwoDocs == {d1, d2}
TwoContents == {v1, v2}
TwoClients == {c1, c2}
====
