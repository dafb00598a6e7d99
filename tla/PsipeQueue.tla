----------------------------- MODULE PsipeQueue -----------------------------
(***************************************************************************)
(* The operation queue of the Proto-SIPE kernel module, with the part of   *)
(* the device it drives.  User threads enter through psipe_ioctl (SEND,    *)
(* RECV, WAIT, FLUSH); the completion interrupt runs psipe_irq_handler.    *)
(* An operation sits in the active list until its completion interrupt     *)
(* moves it to the inactive list, flags it and starts the next one; the    *)
(* last thread that waited for it frees it.                                *)
(*                                                                         *)
(* Grain.  A section under ops->lock is one step when it only walks or     *)
(* links the lists (psipe_ops_init, psipe_ops_get); psipe_ops_next and     *)
(* psipe_ops_flush keep the lock over several steps, because code that     *)
(* does not take the lock runs in between.  Every MMIO access holds the    *)
(* emulator's big lock, and a doorbell write keeps it for the whole run of *)
(* the DMA engine: Quiet is the guard of the other MMIO accesses.          *)
(*                                                                         *)
(* The peer and the pages themselves are in PsipeLink and PsipeDma: here a *)
(* run is on the buffer of the operation programmed into the device, takes *)
(* some time and ends.  Whether it moved the buffer or failed, the device  *)
(* raises the same interrupt, so the queue cannot tell and neither does    *)
(* this module.                                                            *)
(***************************************************************************)
EXTENDS Integers, Sequences, FiniteSets

CONSTANTS
  Threads,      \* user threads with the device file open
  Irq,          \* the context of the interrupt handler
  None,         \* no operation, no lock holder
  MaxOps,       \* bound: operations ever submitted
  Calls         \* the ioctls the user threads make

ASSUME ThreadsAssumption == IsFiniteSet(Threads) /\ Irq \notin Threads
ASSUME MaxOpsAssumption  == MaxOps \in Nat \ {0}
ASSUME NoneAssumption    == None \notin Threads \cup {Irq} \cup (0 .. MaxOps - 1)
ASSUME CallsAssumption   == Calls \subseteq
  {"SEND", "RECV", "WAIT", "FLUSH", "FLUSH_DRAINED"}

Contexts == Threads \cup {Irq}
Ids      == 0 .. MaxOps - 1      \* op->id; also stands for the struct psipe_op

VARIABLES
  active,       \* ops.active: sequence of ids, the head is the running one
  inactive,     \* ops.inactive: set of ids (its order is never read)
  next_id,      \* ops.next_id
  lock,         \* ops.lock, when it is held across steps
  mem,          \* the struct psipe_op: not allocated, live, freed
  cmd,          \* op->ioctl_fn
  flag,         \* op->flag
  nwaiting,     \* op->nwaiting
  retval,       \* op->retval ("unset": what kmalloc left there)
  pages,        \* the operation's user pages
  pc, cur,      \* per context: where it is, the op its local pointer holds
  todo,         \* per thread: entries psipe_ops_flush has yet to visit
  cfg_op,       \* device: the op whose length and page handles it holds
  cfg_mode,     \* device: dma.mode
  raised,       \* device: msi_vectors[0].raised
  msi,          \* a notified interrupt the guest has not taken yet
  ran,          \* history: ops whose run has ended, well or not
  crash         \* "none", or the undefined behaviour that was reached

queueVars  == <<active, inactive, next_id, lock>>
opVars     == <<mem, cmd, flag, nwaiting, retval, pages>>
ctxVars    == <<pc, cur, todo>>
deviceVars == <<cfg_op, cfg_mode, raised, msi, ran>>
vars       == <<queueVars, opVars, ctxVars, deviceVars, crash>>

ThreadPcs == {"user", "setup", "map", "ring", "running", "ret",
              "get", "test", "sleep", "del", "flush", "drop"}
IrqPcs    == {"idle", "check", "ack", "next", "flag", "wake",
              "setup", "map", "ring", "running", "store"}

ActiveIds == {active[k] : k \in DOMAIN active}

\* The list without its k-th entry (list_del, list_move_tail).
Without(s, k) == SubSeq(s, 1, k - 1) \o SubSeq(s, k + 1, Len(s))

TypeOK ==
  /\ active \in Seq(Ids) /\ inactive \subseteq Ids
  /\ next_id \in 0 .. MaxOps
  /\ lock \in Contexts \cup {None}
  /\ mem \in [Ids -> {"none", "live", "freed"}]
  /\ cmd \in [Ids -> {"SEND", "RECV"}]
  /\ flag \in [Ids -> BOOLEAN]
  /\ nwaiting \in [Ids -> Nat]
  /\ retval \in [Ids -> {"unset", "ok", "emsgsize"}]
  /\ pages \in [Ids -> {"none", "pinned", "mapped", "released"}]
  /\ pc \in [Contexts -> ThreadPcs \cup IrqPcs]
  /\ pc[Irq] \in IrqPcs
  /\ \A t \in Threads : pc[t] \in ThreadPcs
  /\ cur \in [Contexts -> Ids \cup {None}]
  /\ todo \in [Threads -> SUBSET Ids]
  /\ cfg_op \in Ids \cup {None}
  /\ cfg_mode \in {"ACTIVE", "PASSIVE"}
  /\ raised \in BOOLEAN /\ msi \in BOOLEAN
  /\ ran \subseteq Ids
  /\ crash \in {"none", "freed", "list"}

Init ==
  /\ active = <<>> /\ inactive = {} /\ next_id = 0 /\ lock = None
  /\ mem = [i \in Ids |-> "none"]
  /\ cmd = [i \in Ids |-> "SEND"]
  /\ flag = [i \in Ids |-> FALSE]
  /\ nwaiting = [i \in Ids |-> 0]
  /\ retval = [i \in Ids |-> "unset"]
  /\ pages = [i \in Ids |-> "none"]
  /\ pc = [c \in Contexts |-> IF c = Irq THEN "idle" ELSE "user"]
  /\ cur = [c \in Contexts |-> None]
  /\ todo = [t \in Threads |-> {}]
  /\ cfg_op = None /\ cfg_mode = "ACTIVE"
  /\ raised = FALSE /\ msi = FALSE /\ ran = {}
  /\ crash = "none"

Goto(c, label) == pc' = [pc EXCEPT ![c] = label]
Holds(c, i)    == cur' = [cur EXCEPT ![c] = i]

\* The context is at that label and its op pointer is not dangling.
At(c, label)   == crash = "none" /\ pc[c] = label
Valid(c)       == cur[c] \in Ids /\ mem[cur[c]] = "live"

\* No doorbell write is under way: the emulator's big lock is free.
Quiet == \A c \in Contexts : pc[c] # "running"

-----------------------------------------------------------------------------
(* The statements that several actions share, or that carry a decision.  A  *)
(* definition named ...Fault is the one after it with a plausible mistake;  *)
(* no specification uses it.                                                *)

\* list_add_tail; the fault is list_add.
AddTailFault(s, i) == <<i>> \o s
AddTail(s, i) == Append(s, i)

\* "empty" of psipe_ops_init; the fault starts every op at once.
FoundEmptyFault == TRUE
FoundEmpty == active = <<>>

\* psipe_dma_write_setup; the fault keeps the previous direction.
SetModeFault(c) == cfg_mode' = cfg_mode
SetMode(c) ==
  cfg_mode' = IF cmd[cur[c]] = "SEND" THEN "ACTIVE" ELSE "PASSIVE"

\* psipe_dma_map_pages; the fault programs pages that are only pinned.
MapPagesFault(i) == pages' = pages
MapPages(i) == pages' = [pages EXCEPT ![i] = "mapped"]

\* op->flag = 1; the fault wakes the waiters without it.
RaiseFlagFault(i) == flag' = flag
RaiseFlag(i) == flag' = [flag EXCEPT ![i] = TRUE]

\* wake_up_all: who sleeps on op->waitq tests op->flag again; the fault
\* wakes nobody.
WokenByFault(i) == pc
WokenBy(i) ==
  [c \in Contexts |-> IF pc[c] = "sleep" /\ cur[c] = i THEN "test" ELSE pc[c]]

\* psipe_ops_next starts the new head if there is one; the fault never does.
StartsNextFault == FALSE
StartsNext == active # <<>>

\* atomic_add, atomic_sub_return; the fault does not count the waiter in.
CountFault(i, d) == nwaiting' = [nwaiting EXCEPT ![i] = IF d > 0 THEN @ ELSE @ + d]
Count(i, d) == nwaiting' = [nwaiting EXCEPT ![i] = @ + d]

\* list_del of a completed op; the fault leaves it linked.
UnlinkFault(i) == inactive' = inactive
Unlink(i) == inactive' = inactive \ {i}

-----------------------------------------------------------------------------
(* psipe_ioctl SEND/RECV: psipe_ops_new, then psipe_ops_init.  A failure of *)
(* either before the lock leaves the queue as it was and is left out.       *)
(* flag and nwaiting are set by psipe_ops_new, retval is not.               *)

OpsInit(t, call) ==
  /\ At(t, "user") /\ call \in Calls \cap {"SEND", "RECV"}
  /\ lock = None /\ next_id < MaxOps
  /\ active' = AddTail(active, next_id)
  /\ next_id' = next_id + 1
  /\ mem' = [mem EXCEPT ![next_id] = "live"]
  /\ cmd' = [cmd EXCEPT ![next_id] = call]
  /\ pages' = [pages EXCEPT ![next_id] = "pinned"]
  /\ Holds(t, next_id)
  /\ Goto(t, IF FoundEmpty THEN "setup" ELSE "ret")
  /\ UNCHANGED <<inactive, lock, flag, nwaiting, retval, todo, deviceVars, crash>>

\* return op->id
Return(t) ==
  /\ At(t, "ret") /\ Valid(t)
  /\ Goto(t, "user") /\ Holds(t, None)
  /\ UNCHANGED <<queueVars, opVars, todo, deviceVars, crash>>

-----------------------------------------------------------------------------
(* op->ioctl_fn, run by the thread that found the list empty (no lock) or   *)
(* by psipe_ops_next (lock held).  dma.mode is written first; a sender then *)
(* reads the length the peer has room for and may give up.                  *)

Setup(c) ==
  /\ At(c, "setup") /\ Valid(c) /\ Quiet
  /\ SetMode(c)
  /\ Goto(c, "map")
  /\ UNCHANGED <<queueVars, opVars, cur, todo, cfg_op, raised, msi, ran, crash>>

\* -EMSGSIZE: psipe_ops_init returns it, psipe_ops_next stores it in retval.
\* The operation stays at the head of the active list.
Refuse(c) ==
  /\ At(c, "setup") /\ Valid(c) /\ Quiet
  /\ cmd[cur[c]] = "SEND"
  /\ SetMode(c)
  /\ Holds(c, None)
  /\ Goto(c, IF c = Irq THEN "idle" ELSE "user")
  /\ IF c = Irq
       THEN /\ retval' = [retval EXCEPT ![cur[c]] = "emsgsize"]
            /\ lock' = None
       ELSE UNCHANGED <<retval, lock>>
  /\ UNCHANGED <<active, inactive, next_id, mem, cmd, flag, nwaiting, pages,
                 todo, cfg_op, raised, msi, ran, crash>>

\* psipe_dma_map_pages, then LEN, PGS and the handles
Map(c) ==
  /\ At(c, "map") /\ Valid(c) /\ Quiet
  /\ MapPages(cur[c])
  /\ cfg_op' = cur[c]
  /\ Goto(c, "ring")
  /\ UNCHANGED <<queueVars, mem, cmd, flag, nwaiting, retval, cur, todo,
                 cfg_mode, raised, msi, ran, crash>>

\* The doorbell write starts psipe_execute ...
Ring(c) ==
  /\ At(c, "ring") /\ Quiet
  /\ Goto(c, "running")
  /\ UNCHANGED <<queueVars, opVars, cur, todo, deviceVars, crash>>

\* ... and completes when the run has ended and the interrupt is raised, after
\* a page loop that was left on a failure as after a complete one.
RunEnd(c) ==
  /\ At(c, "running")
  /\ ran' = ran \cup {cfg_op}
  /\ raised' = TRUE /\ msi' = TRUE
  /\ Goto(c, IF c = Irq THEN "store" ELSE "ret")
  /\ UNCHANGED <<queueVars, opVars, cur, todo, cfg_op, cfg_mode, crash>>

\* op->retval = rv, unlock, return from the handler
Store ==
  /\ At(Irq, "store") /\ Valid(Irq)
  /\ retval' = [retval EXCEPT ![cur[Irq]] = "ok"]
  /\ lock' = None
  /\ Goto(Irq, "idle") /\ Holds(Irq, None)
  /\ UNCHANGED <<active, inactive, next_id, mem, cmd, flag, nwaiting, pages,
                 todo, deviceVars, crash>>

-----------------------------------------------------------------------------
(* psipe_irq_handler: check and acknowledge (two MMIO accesses), then       *)
(* psipe_ops_next.  The kernel never runs it twice at a time.               *)

IrqEntry ==
  /\ At(Irq, "idle") /\ msi
  /\ msi' = FALSE
  /\ Goto(Irq, "check")
  /\ UNCHANGED <<queueVars, opVars, cur, todo, cfg_op, cfg_mode, raised, ran, crash>>

IrqCheck ==
  /\ At(Irq, "check") /\ Quiet
  /\ Goto(Irq, IF raised THEN "ack" ELSE "idle")
  /\ UNCHANGED <<queueVars, opVars, cur, todo, deviceVars, crash>>

IrqAck ==
  /\ At(Irq, "ack") /\ Quiet
  /\ raised' = FALSE
  /\ Goto(Irq, "next")
  /\ UNCHANGED <<queueVars, opVars, cur, todo, cfg_op, cfg_mode, msi, ran, crash>>

\* psipe_ops_current finds nothing
OpsNextEmpty ==
  /\ At(Irq, "next") /\ lock = None /\ active = <<>>
  /\ Goto(Irq, "idle")
  /\ UNCHANGED <<queueVars, opVars, cur, todo, deviceVars, crash>>

\* psipe_ops_fini up to list_move_tail
OpsNext ==
  /\ At(Irq, "next") /\ lock = None /\ active # <<>>
  /\ lock' = Irq
  /\ Holds(Irq, Head(active))
  /\ pages' = [pages EXCEPT ![Head(active)] = "released"]
  /\ active' = Tail(active)
  /\ inactive' = inactive \cup {Head(active)}
  /\ Goto(Irq, "flag")
  /\ UNCHANGED <<next_id, mem, cmd, flag, nwaiting, retval, todo, deviceVars, crash>>

SetFlag ==
  /\ At(Irq, "flag") /\ Valid(Irq)
  /\ RaiseFlag(cur[Irq])
  /\ Goto(Irq, "wake")
  /\ UNCHANGED <<queueVars, mem, cmd, nwaiting, retval, pages, cur, todo,
                 deviceVars, crash>>

\* wake_up_all uses op->waitq; then the new head is started, or unlock
WakeUp ==
  /\ At(Irq, "wake") /\ Valid(Irq)
  /\ pc' = [WokenBy(cur[Irq]) EXCEPT ![Irq] = IF StartsNext THEN "setup" ELSE "idle"]
  /\ IF StartsNext
       THEN lock' = lock /\ Holds(Irq, Head(active))
       ELSE lock' = None /\ Holds(Irq, None)
  /\ UNCHANGED <<active, inactive, next_id, opVars, todo, deviceVars, crash>>

-----------------------------------------------------------------------------
(* psipe_ioctl WAIT: psipe_ops_get under the lock, psipe_ops_wait without.  *)

\* An id that is in no list yields NULL and -EINVAL, and changes nothing.
OpsGet(t, i) ==
  /\ At(t, "user") /\ "WAIT" \in Calls /\ lock = None
  /\ i < next_id /\ i \in ActiveIds \cup inactive
  /\ Goto(t, "get") /\ Holds(t, i)
  /\ UNCHANGED <<queueVars, opVars, todo, deviceVars, crash>>

AddWaiter(t) ==
  /\ At(t, "get") /\ Valid(t)
  /\ Count(cur[t], 1)
  /\ Goto(t, "test")
  /\ UNCHANGED <<queueVars, mem, cmd, flag, retval, pages, cur, todo,
                 deviceVars, crash>>

\* wait_event finds the flag clear and sleeps until it is woken.  The thread is
\* in op->waitq before the test that decides, so no wake-up falls in between.
Sleep(t) ==
  /\ At(t, "test") /\ Valid(t) /\ ~flag[cur[t]]
  /\ Goto(t, "sleep")
  /\ UNCHANGED <<queueVars, opVars, cur, todo, deviceVars, crash>>

\* wait_event finds the flag set, at once or after a wake-up, and returns;
\* retval is read, the count is dropped
Woken(t) ==
  /\ At(t, "test") /\ Valid(t) /\ flag[cur[t]]
  /\ Count(cur[t], -1)
  /\ IF nwaiting[cur[t]] = 1
       THEN Goto(t, "del")  /\ UNCHANGED cur
       ELSE Goto(t, "user") /\ Holds(t, None)
  /\ UNCHANGED <<queueVars, mem, cmd, flag, retval, pages, todo, deviceVars, crash>>

\* list_del and kfree without ops->lock.  When another context is inside a
\* locked section the list it walks may be left broken.
DelFree(t) ==
  /\ At(t, "del") /\ Valid(t)
  /\ Unlink(cur[t])
  /\ mem' = [mem EXCEPT ![cur[t]] = "freed"]
  /\ Goto(t, "user") /\ Holds(t, None)
  /\ crash' \in IF lock = None THEN {"none"} ELSE {"none", "list"}
  /\ UNCHANGED <<active, next_id, lock, cmd, flag, nwaiting, retval, pages,
                 todo, deviceVars>>

-----------------------------------------------------------------------------
(* psipe_ioctl FLUSH: psipe_ops_flush walks both lists under the lock; the  *)
(* waiter count is read, and the op dropped, without excluding waiters.     *)
(* FLUSH_DRAINED is the use the user programs make of it: the thread that   *)
(* submitted everything has waited for its last operation.                  *)

Drained == \A i \in Ids : i < next_id => flag[i]

FlushBegin(t) ==
  /\ At(t, "user") /\ lock = None
  /\ \/ "FLUSH" \in Calls
     \/ "FLUSH_DRAINED" \in Calls /\ Drained
  /\ lock' = t
  /\ todo' = [todo EXCEPT ![t] = ActiveIds \cup inactive]
  /\ Goto(t, "flush")
  /\ UNCHANGED <<active, inactive, next_id, opVars, cur, deviceVars, crash>>

\* The active list is walked first, in order.
IsNext(t, i) ==
  /\ i \in todo[t]
  /\ i \in ActiveIds => \A j \in todo[t] \cap ActiveIds : i <= j
  /\ i \in inactive => todo[t] \cap ActiveIds = {}

FlushVisit(t, i) ==
  /\ At(t, "flush") /\ IsNext(t, i) /\ i \in ActiveIds \cup inactive
  /\ todo' = [todo EXCEPT ![t] = @ \ {i}]
  /\ IF nwaiting[i] = 0
       THEN Goto(t, "drop") /\ Holds(t, i)
       ELSE UNCHANGED <<pc, cur>>        \* "still has waiters, skipping"
  /\ UNCHANGED <<queueVars, opVars, deviceVars, crash>>

FlushDrop(t) ==
  /\ At(t, "drop") /\ Valid(t)
  /\ \/ \E k \in DOMAIN active :
          /\ active[k] = cur[t]
          /\ active' = Without(active, k)
          /\ pages' = [pages EXCEPT ![cur[t]] = "released"]
          /\ UNCHANGED inactive
     \/ /\ cur[t] \in inactive
        /\ Unlink(cur[t])
        /\ UNCHANGED <<active, pages>>
  /\ mem' = [mem EXCEPT ![cur[t]] = "freed"]
  /\ Goto(t, "flush") /\ Holds(t, None)
  /\ UNCHANGED <<next_id, lock, cmd, flag, nwaiting, retval, todo, deviceVars, crash>>

FlushEnd(t) ==
  /\ At(t, "flush") /\ todo[t] \cap (ActiveIds \cup inactive) = {}
  /\ lock' = None
  /\ todo' = [todo EXCEPT ![t] = {}]
  /\ Goto(t, "user")
  /\ UNCHANGED <<active, inactive, next_id, opVars, cur, deviceVars, crash>>

-----------------------------------------------------------------------------

\* Labels whose next statement goes through the context's op pointer.
Derefs == {"setup", "map", "ret", "get", "test", "del", "drop",
           "flag", "wake", "store"}

UseAfterFree(c) ==
  /\ crash = "none" /\ pc[c] \in Derefs
  /\ cur[c] \in Ids /\ mem[cur[c]] = "freed"
  /\ crash' = "freed"
  /\ UNCHANGED <<queueVars, opVars, ctxVars, deviceVars>>

Start(c) == Setup(c) \/ Refuse(c) \/ Map(c) \/ Ring(c) \/ RunEnd(c)

\* What a thread does inside the kernel, once it has made its call.
KernelStep(t) ==
  \/ Start(t) \/ Return(t)
  \/ AddWaiter(t) \/ Sleep(t) \/ Woken(t) \/ DelFree(t)
  \/ (\E i \in Ids : FlushVisit(t, i)) \/ FlushDrop(t) \/ FlushEnd(t)
  \/ UseAfterFree(t)

IrqStep ==
  \/ IrqEntry \/ IrqCheck \/ IrqAck
  \/ OpsNextEmpty \/ OpsNext \/ SetFlag \/ WakeUp \/ Start(Irq) \/ Store
  \/ UseAfterFree(Irq)

Call(t) ==
  \/ \E call \in {"SEND", "RECV"} : OpsInit(t, call)
  \/ \E i \in Ids : OpsGet(t, i)
  \/ FlushBegin(t)

Next == IrqStep \/ \E t \in Threads : Call(t) \/ KernelStep(t)

Spec == Init /\ [][Next]_vars

\* The scheduler lets every thread leave the kernel, the interrupt is
\* delivered, and a run ends: the peer has queued the matching operation.
\* No thread has to make another call.
Fairness == WF_vars(IrqStep) /\ \A t \in Threads : WF_vars(KernelStep(t))
FairSpec == Spec /\ Fairness

(***************************************************************************)
(* Properties                                                              *)
(***************************************************************************)

\* Contexts inside op->ioctl_fn.
Drivers == {c \in Contexts : pc[c] \in {"setup", "map", "ring", "running"}}

\* A run has ended and psipe_ops_next has still to take its operation.
Completing == raised \/ pc[Irq] = "next"

\* The head was refused with -EMSGSIZE: nobody starts it again.
StuckSend ==
  /\ active # <<>> /\ cmd[Head(active)] = "SEND" /\ pages[Head(active)] = "pinned"
  /\ Drivers = {} /\ pc[Irq] \notin {"flag", "wake"}

\* Ids are handed out in list order under one lock (psipe_ops_init), so the
\* active list is in submission order and every completed op precedes it.
SubmissionOrder ==
  /\ \A j, k \in DOMAIN active : j < k => active[j] < active[k]
  /\ \A i \in ActiveIds : i < next_id
  /\ \A i \in inactive, j \in ActiveIds : i < j

\* An allocated op is in exactly one list until it is freed: none is leaked
\* or freed while still linked (psipe_ops_fini, _wait, _flush).
LinkedWhileLive ==
  crash = "none" =>
    /\ inactive \cap ActiveIds = {}
    /\ \A i \in Ids : mem[i] = "live" <=> i \in ActiveIds \cup inactive

\* The device serves one operation at a time, always the head of the active
\* list, although it is started from two places, one without the lock.
OneRunAtATime ==
  /\ \A c, d \in Drivers : c = d
  /\ \A c \in Drivers :
       active # <<>> /\ cur[c] = Head(active) /\ ~Completing
  /\ Completing => active # <<>> /\ Head(active) \in ran

\* A non-empty active list is being worked on: somebody is starting its head,
\* or a completion is on its way; the only exception is a refused send.  No
\* order of psipe_ops_init's "empty" test against psipe_ops_next loses it.
SomebodyDrives ==
  \/ crash # "none" \/ active = <<>> \/ StuckSend
  \/ Drivers # {} \/ Completing \/ pc[Irq] \in {"flag", "wake"}

\* While the engine runs, the pages it was programmed with are mapped, belong
\* to the op whose doorbell was rung and have the direction of its ioctl.
DmaIntoMappedPages ==
  \A c \in Contexts : pc[c] = "running" =>
    /\ cfg_op = cur[c] /\ mem[cfg_op] = "live" /\ pages[cfg_op] = "mapped"
    /\ cfg_mode = "ACTIVE" <=> cmd[cfg_op] = "SEND"

\* Whoever starts an op, waits for its run or stores its retval, and the handler
\* up to op->flag = 1, works on memory that nobody has freed: what is left are
\* the uses after the flag is set (wake_up_all, op->id of psipe_ops_init).
StartersHoldLiveOps ==
  \A c \in Contexts :
    pc[c] \in {"setup", "map", "ring", "running", "store", "flag"} =>
      mem[cur[c]] = "live"

\* An op is reported complete (op->flag) only when its run has ended, and the
\* engine is never at work on the pages of an op that was reported: the caller
\* may use its buffer again.
CompletedHasRun ==
  \A i \in Ids : flag[i] =>
    i \in ran /\ \A c \in Contexts : ~(pc[c] = "running" /\ cfg_op = i)

\* Threads between atomic_add and atomic_sub_return in psipe_ops_wait.
Waiters(i) == {t \in Threads : pc[t] \in {"test", "sleep"} /\ cur[t] = i}

\* No wake-up is lost.  A thread that waits for an op that is not flagged yet
\* waits on allocated memory, and the op is where psipe_ops_next will still
\* find it; who sleeps although the flag is set is about to be woken.
SleepersCanBeWoken ==
  crash = "none" => \A i \in Ids : \A t \in Waiters(i) :
    /\ ~flag[i] =>
         /\ mem[i] = "live"
         /\ i \in ActiveIds \/ (pc[Irq] = "flag" /\ cur[Irq] = i)
    /\ flag[i] /\ pc[t] = "sleep" => pc[Irq] = "wake" /\ cur[Irq] = i

\* op->nwaiting, which decides who frees the op, counts exactly the threads
\* registered in psipe_ops_wait.
WaitersCounted == \A i \in Ids : nwaiting[i] = Cardinality(Waiters(i))

\* psipe_dma_unmap_pages is applied only to pages psipe_dma_map_pages mapped.
UnmapOnlyMapped ==
  [][\A i \in Ids : pages'[i] = "released" /\ pages[i] # "released" =>
       pages[i] = "mapped"]_vars

\* The completion a thread waits for comes and wakes it, whatever the order of
\* its test, its sleep, the flag and the wake-up, unless a refused send blocks
\* the queue in front of it.
WaitReturns ==
  \A t \in Threads :
    pc[t] \in {"test", "sleep"} ~>
      (pc[t] \notin {"test", "sleep"} \/ crash # "none" \/ StuckSend)

\* The queue keeps the promise of PsipeJobs: one run at a time, in the order of
\* submission, each operation run once and before anybody is told.
Jobs == INSTANCE PsipeJobs WITH
  Jobs     <- Ids,
  queue    <- active,
  retired  <- {i \in Ids : i < next_id /\ i \notin ActiveIds},
  reported <- {i \in Ids : flag[i]}

ServesJobsInOrder == Jobs!Spec

-----------------------------------------------------------------------------
(* Expectations stated in the sources that the code does not meet.          *)

\* "spinlock_t lock; // to lock queue access" (psipe_module.h): while one
\* context stays inside its locked section no other one changes the lists.
LockExcludes ==
  [][\A c \in Contexts : lock = c /\ lock' = c /\ pc'[c] = pc[c] =>
       UNCHANGED <<active, inactive>>]_vars

\* "if (psipe_wait(fd, id) < 0)" (chiplet-mm.c): the value a wait returns is
\* the one the operation's ioctl_fn gave.
RetvalIsSet == \A i \in Ids : flag[i] => retval[i] # "unset"

\* "op %lu still has waiters, skipping" (psipe_ops_flush): flush frees no op
\* that a thread has registered to wait for.
FlushSparesWaiters ==
  [][\A t \in Threads : pc[t] = "drop" /\ pc'[t] = "flush" =>
       nwaiting[cur[t]] = 0]_vars

=============================================================================
