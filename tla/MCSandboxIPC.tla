---- MODULE MCSandboxIPC ----
EXTENDS SandboxIPC
CONSTANTS a, b, d
ThreeCalls == {a, b, d}
TwoCalls == {a, b}
NoDeadline == {}
OneDeadline == {a}
====
