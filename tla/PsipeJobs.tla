------------------------------ MODULE PsipeJobs ------------------------------
(***************************************************************************)
(* What the operation queue of the kernel module promises to its callers:  *)
(* operations are handed to the device one at a time, in the order they    *)
(* were submitted; each is run exactly once, before it is retired, and     *)
(* every wait is answered only for a retired operation.  An operation the  *)
(* device refuses keeps its place for ever.  Whether a run moved the       *)
(* buffer is no part of the promise: the device says only that it ended.   *)
(***************************************************************************)
EXTENDS Integers, Sequences

CONSTANT Jobs       \* identities, handed out in increasing order

VARIABLES
  queue,            \* submitted and not retired, oldest first
  ran,              \* run by the device to an end, good or bad
  retired,          \* retired: reported complete, or about to be
  reported          \* reported complete to whoever waits

vars == <<queue, ran, retired, reported>>

Queued == {queue[k] : k \in DOMAIN queue}

Init == queue = <<>> /\ ran = {} /\ retired = {} /\ reported = {}

\* The oldest identity never used.
Submit(j) ==
  /\ j \notin Queued \cup retired
  /\ \A i \in Jobs : i < j => i \in Queued \cup retired
  /\ queue' = Append(queue, j)
  /\ UNCHANGED <<ran, retired, reported>>

Run ==
  /\ queue # <<>> /\ Head(queue) \notin ran
  /\ ran' = ran \cup {Head(queue)}
  /\ UNCHANGED <<queue, retired, reported>>

Retire ==
  /\ queue # <<>> /\ Head(queue) \in ran
  /\ queue' = Tail(queue)
  /\ retired' = retired \cup {Head(queue)}
  /\ UNCHANGED <<ran, reported>>

Report(j) ==
  /\ j \in retired \ reported
  /\ reported' = reported \cup {j}
  /\ UNCHANGED <<queue, ran, retired>>

Next ==
  \/ \E j \in Jobs : Submit(j) \/ Report(j)
  \/ Run
  \/ Retire

Spec == Init /\ [][Next]_vars

=============================================================================
