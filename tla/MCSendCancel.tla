---- MODULE MCSendCancel ----
EXTENDS SendCancel
CONSTANTS s1, s2, c1, c2, id1, id2
TwoSends == {s1, s2}
TwoCancels == {c1, c2}
TwoIds == {id1, id2}
====
