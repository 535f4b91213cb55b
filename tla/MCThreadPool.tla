---------------------------- MODULE MCThreadPool ----------------------------
(* Two clients and two threads: enough for a runner to be reused by another *)
(* caller while its thread still leaves the last task.                     *)
EXTENDS ThreadPool

CONSTANTS c1, c2, low, high

TwoClients == {c1, c2}
OneClient == {c1}
TwoPriorities == {low, high}
OnePriority == {low}
Forever == {"FOREVER"}
AnyTimeout == {"POLLING", "FOREVER"}
PollingOnly == {"POLLING"}
NoCalls == {}
=============================================================================
