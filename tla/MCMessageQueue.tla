--------------------------- MODULE MCMessageQueue ---------------------------
(* MessageQueue with three threads, each free to send and to receive, and  *)
(* a queue of two messages (three slots, so that the indices wrap).        *)
EXTENDS MessageQueue, TLC

CONSTANTS m1, m2, t1, t2, t3

MCMsgs == {m1, m2}
ThreeThreads == {t1, t2, t3}
AnyTimeout == {"POLLING", "FOREVER"}
Symmetric == Permutations(MCMsgs) \cup Permutations(ThreeThreads)
MayThrow == {"OtherError"}
=============================================================================
