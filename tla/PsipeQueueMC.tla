---------------------------- MODULE PsipeQueueMC ----------------------------
(* Instances of PsipeQueue for TLC.                                         *)
EXTENDS PsipeQueue, TLC

CONSTANTS t1, t2

MCThreads == {t1, t2}
MCOneThread == {t1}

\* Threads are interchangeable; used only by the runs without liveness.
MCSymmetry == Permutations(MCThreads)

MCIoctls == {"SEND", "RECV", "WAIT"}
MCAnyFlush == MCIoctls \cup {"FLUSH"}
MCDrainedFlush == MCIoctls \cup {"FLUSH_DRAINED"}
=============================================================================
