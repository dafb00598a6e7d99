# Proto-SIPE in TLA+

Proto-SIPE is a prototype of a PCIe accelerator link: a device model for QEMU
(`src/src/hw`), a Linux kernel module that drives it (`src/src/sw/kernel`) and
programs that use it (`src/src/sw/userspace`).  A device of one virtual machine
and a device of another are joined by a TCP connection.  A program on one machine
submits a SEND, a program on the other a RECV, and the devices copy the pages of
the one buffer into the pages of the other.

This directory holds TLA+ models of that code, TLC configurations that check
them on small instances, and TLAPS proofs of their main safety properties for
every value of the constants.

## How to run

    tlc -workers 2 -config Queue.cfg PsipeQueueMC     (and the other runs below)
    tlapm PsipeQueueProofs.tla
    tlapm PsipeDmaProofs.tla
    tlapm PsipeLinkProofs.tla
    tlapm PsipeLifecycleProofs.tla
    tlapm PsipeMatmulProofs.tla

`PROJECT.json` lists the components, the runs, for every property of a passing
run a mutation of the code that breaks it, the source lines behind each
definition, the hazards, the findings and the theorems.

## Inventory

| Component | Source | State | Operations | Modelled in |
|---|---|---|---|---|
| Operation queue | `sw/kernel/psipe_queue.c` | active and inactive list, `next_id`, `ops->lock`; per operation `flag`, `nwaiting`, `retval`, pages | new, init, current, fini, next, get, wait, flush | PsipeQueue |
| Character device | `sw/kernel/psipe_module.c` | open files, the ioctl parameters | ioctl SEND, RECV, WAIT, FLUSH; open, probe, remove, module init and exit | PsipeQueue, PsipeLink (ioctls), PsipeLifecycle (the rest) |
| Interrupt handling | `sw/kernel/psipe_irq.c` | vectors, register pointers | handler; enable, disable | PsipeQueue (handler), PsipeLifecycle (enable, disable) |
| Page pinning and mapping | `sw/kernel/psipe_dma.c` | pinned pages, scatter list | pin, map, write maps, unmap, unpin | PsipeQueue (page state), PsipeDma (handles), PsipeMatmul (empty buffers) |
| DMA engine | `hw/dma.c` | `dma.config`, `dma.current`, status, mode | begin, rx/tx page, next address, end | PsipeDma |
| Device control | `hw/psipe.c` | the device object | execute, transfer pages, receive pages | PsipeQueue, PsipeDma, PsipeLink, PsipeMatmul |
| Device link | `hw/proxy.c` | the socket | accept/connect, issue, await and handle a request, rx/tx page, finish | PsipeLink |
| Interrupt state | `hw/irq.c` | `raised` of the vector and of the pin | raise, check, lower | PsipeQueue (vector), PsipeLifecycle (both) |
| MMIO registers | `hw/mmio.c` | none of its own | read and write of each register | as parts of actions |
| User library | `sw/userspace/psipe_wrappers.c` | descriptors | wrappers, directory scan, `PART_FOR_DEV` | PsipeMatmul (not the scan) |
| Matrix programs | `sw/userspace/*-mm.c` | matrices, ids | distribute, compute, collect | PsipeMatmul |
| Older programs, OpenMP original, scripts | `sw/userspace/{master,chiplet}[01].c`, `matmul-offload-1o.c`, `vm/`, `setup.sh` | - | - | no |

(paths below `src/src/`)

**How they interact.**  A user thread calls `psipe_ioctl`.  SEND and RECV pin the
buffer and append an operation to the active list; when the list was empty the
same thread starts it, otherwise the completion interrupt of the operation
before it does.  To start an operation is a series of MMIO accesses - mode,
length, page count, one handle for each page, doorbell.  The doorbell write does
not return until the device has done the whole run.  For a sender the run is
preceded by a read of LEN_AVAIL, during which its device asks the peer (SLN) and
waits for the answer (RLN and a length); the peer answers only from within its
own doorbell write for a receive.  Then the sender pushes pages and the receiver
takes them, each walking its own handles.  At the end both raise an interrupt,
whose handler acknowledges it, retires the head of the active list, wakes its
waiters and starts the next operation.  WAIT sleeps on an operation and the last
waiter frees it; FLUSH frees what nobody waits for.

**What is hard.**

* *Interleaving.*  The queue is changed by any number of threads and by the
  interrupt handler.  Some sections are under `ops->lock`; the start of an
  operation by the thread that found the list empty, the registration of a
  waiter, and the removal and release of a completed operation are not.
* *Stale reads.*  The "list was empty" test is acted on after the unlock; the
  operation `psipe_ops_get` found is used after the unlock.
* *Boundary arithmetic.*  A piece of a buffer that does not start on a page
  boundary lies on two pages; the last piece is short; the next handle is taken
  only when a piece straddles.
* *A protocol on a raw stream.*  Requests, lengths and pages share one TCP
  stream without framing; both sides must agree on what comes next.
* *Blocking with locks held.*  `psipe_ops_next` runs the next transfer inside an
  interrupt handler with a spinlock held, and the device with the emulator's big
  lock held; the peer decides when it ends.
* *Failure.*  The peer may exit in the middle; a send may be refused
  (-EMSGSIZE); `recv()` may return less than asked for; each of a dozen steps of
  probe may fail.
* *Things that come and go.*  Programs, interrupts, probe and remove run side by
  side: the node exists before the interrupt is set up, the registers are
  unmapped before the interrupt is freed, and the device structure is freed
  whether or not a file refers to it.
* *One machine, several devices.*  All devices of a machine share the emulator's
  lock, and a receiver keeps it until its sender has come.

Nothing is persisted, so there is no crash recovery beyond the loss of the peer.

**What makes each part correct.**

* Queue: submission order is kept; one operation is in the device at a time and
  it is the head; a non-empty queue is always being worked on; an operation is
  reported complete only after its run has ended; waiters are counted, sleep on
  memory that is allocated, miss no wake-up and return.
* DMA engine: it touches the pages of the buffer and nothing else, each byte at
  its place, once, and finds every page it needs.
* Lifecycle: a failed probe gives back exactly what it took; the handler never
  runs without its device; a well-behaved program meets no freed memory, and its
  operations complete over MSI as over the pin.
* Programs: the operations of the two sides match; waiting for the last one is
  enough; the result is the matrix product; everybody ends.
* Link: a completed receive holds the message that the peer sent with the
  operation of the same number; a sender never overruns the receiver; the ends
  do not misread each other; matched transfers end; the loss of the peer frees
  an end from its page loop.

## Modules

| Module | What it is |
|---|---|
| `PsipeJobs` | abstract specification: jobs are run one at a time in order, then retired, then reported |
| `PsipeQueue` | the queue, the ioctls, the interrupt handler and the registers they use |
| `PsipeQueueMC` | instances for TLC |
| `PsipeQueueProofs` | the inductive invariant of PsipeQueue, its theorems, the refinement of PsipeJobs |
| `PsipeDma` | the page walk of the DMA engine |
| `PsipeDmaMC`, `PsipeDmaProofs` | instances, inductive invariant and theorems |
| `PsipeLink` | two devices, their two streams, start-up, handshake and page loops |
| `PsipeLinkMC`, `PsipeLinkProofs` | instances, inductive invariant and theorems |
| `PsipeLifecycle` | probe, remove, open and close, with the interrupts that arrive in between |
| `PsipeLifecycleProofs` | its inductive invariant and theorems |
| `PsipeMatmul` | the master program and its chiplets over several devices, end to end |
| `PsipeMatmulProofs` | its inductive invariant and theorems |

PsipeQueue, PsipeDma and PsipeLink meet at the doorbell.  In PsipeQueue a run is
`Ring` followed at some later time by `RunEnd`; PsipeDma is what one such run
does to memory, PsipeLink what two of them do to each other.  `OneRunAtATime`
in PsipeQueue is what allows the other two to see the guest as a sequence of
operations, and `DmaIntoMappedPages` what allows PsipeDma to take the handles as
those of one buffer.  PsipeMatmul puts several such queues and links together,
each reduced to what the other modules show of it: operations are served in
order (`ServesJobsInOrder`) and a receive that completes holds what was sent
(`ReceivedIsSent`).  PsipeLifecycle is about the time before and after, and
counts the operations where PsipeQueue tells them apart.

### PsipeQueue

State: `active`, `inactive`, `next_id` and `lock` are `struct psipe_ops`; `mem`,
`cmd`, `flag`, `nwaiting`, `retval` and `pages` the fields of each
`struct psipe_op`, indexed by `op->id`; `cfg_op`, `cfg_mode`, `raised` the
registers; `msi` the pending interrupt; `pc`, `cur`, `todo` the program counter
and locals of each thread and of the handler; `ran` a history variable, the
operations whose run has ended; `crash` names an undefined behaviour that was reached.

| Action | Code |
|---|---|
| `OpsInit`, `Return` | `psipe_ops_new` and `psipe_ops_init`, before and after the start |
| `Setup`, `Refuse`, `Map`, `Ring`, `RunEnd` | `op->ioctl_fn`: `psipe_ioctl_send`, `psipe_ioctl_recv`, with the effect of each register write, and `psipe_execute` |
| `IrqEntry`, `IrqCheck`, `IrqAck` | `psipe_irq_handler` |
| `OpsNext`, `OpsNextEmpty`, `SetFlag`, `WakeUp`, `Store` | `psipe_ops_next`, `psipe_ops_fini` |
| `OpsGet`, `AddWaiter`, `Sleep`, `Woken`, `DelFree` | `psipe_ops_get`, `psipe_ops_wait` |
| `FlushBegin`, `FlushVisit`, `FlushDrop`, `FlushEnd` | `psipe_ops_flush` |
| `UseAfterFree` | any of the above through a pointer to a freed operation |

Grain: a locked section that only walks or links the lists is one step.
`psipe_ops_next` and `psipe_ops_flush` keep the lock over several steps, because
code that does not take it runs in between.  The emulator's big lock makes each
MMIO access atomic and is held for a whole run (`Quiet`).

wait_event is the test of `flag` (`Woken`, or `Sleep` when it is clear) and
wake_up_all what `WakeUp` does to the sleepers (`WokenBy`): they test again.  A
thread that saw the flag before the wake-up has left the queue of waiters
without it, as in the kernel.

Abstractions: the peer and the pages are elsewhere, so a send may be refused at
any time (`Refuse`) and a run takes any time.  A run may also fail: the page
loops of psipe.c are left on a failure, and the same interrupt follows
(psipe.c:172).  Neither the kernel module nor a waiter can tell, so `RunEnd` is
the end of either, and no property of this module says that the data arrived;
that is `ReceivedIsSent` in PsipeLink, which knows the result of a run.  kmalloc, copy_from_user and
pinning may fail before the lock is taken; the call then returns with nothing
changed and is left out.  Mapping succeeds.  The order of the inactive list is
never read, so it is a set.  The pool of ids is bounded (`MaxOps`), and an id is
never used twice, so it can stand for the address of the struct.

`Calls` selects the ioctls.  `FLUSH_DRAINED` is FLUSH as the user programs call
it, after the last operation was waited for; `FLUSH` is FLUSH at any time.  With
the latter an operation may be dropped while its DMA runs, and most of the
guarantees are lost (see *Hazards*).

### PsipeDma

State: `npages`, `len`, `handles`, `mode` are `dma.config`; `len_left`, `addr`,
`hnd_pos` are `dma.current`; `buffer` is the user buffer behind them; `accesses`
records the DMA accesses of the run.  A bus address is a frame and an offset.
`Plus` is the increment of `addr`, which may step into the next *physical*
frame.  `Program` is what the kernel module writes, `BeginRun` the doorbell,
`RxPage` and `TxPage` one iteration of the two page loops, `EndRun` and
`FailRun` the two ways out.  The handles of the previous operation stay behind
those of the current one, so stale handles are in the model.

Abstractions: bytes have no values (an access says which byte of the message
went where); the address mask is the identity on what the kernel maps; a
receiver gets pieces of the size its sender cuts, which is what PsipeLink
establishes for messages of equal length.

### PsipeLink

Each end is a sequential process: `pc` says where in the device code it is,
`want` the request it waits for, `avail` and `left` are `len_avail` and
`len_left`, `plen` the length word last read.  `wire[s]` is what `s` has sent
and its peer has not read, one entry for each send().  `script` holds the
operations the two guests submit, in order.

| Action | Code |
|---|---|
| `Listen`, `Accept`, `Connect`, `ConnectRefused`, `GetAck` | `psipe_proxy_init_server`, `psipe_proxy_init_client`, the connection test |
| `BeginSend`, `GetRln`, `GetAvail`, `CheckRoom` | `psipe_ioctl_send`, the read of LEN_AVAIL, `psipe_check_size_avail` |
| `BeginRecv`, `GetSln` | `psipe_ioctl_recv`, `psipe_execute`, `psipe_proxy_handle_req` |
| `Discard` | the loop of `psipe_proxy_await_req` |
| `TxLen`, `TxPage`, `TxFail` | `psipe_proxy_tx_page` in `psipe_transfer_pages` |
| `RxLen`, `RxPage`, `RxEofLen`, `RxEofPage`, `RxReset` | `psipe_proxy_rx_page` in `psipe_receive_pages` |
| `GoAstray` | an end reads something other than what its code takes it for |
| `Exit` | `psipe_proxy_fini`, or the end of the emulator |
| `RxPart` | a recv() that returns a part of a page (only in `ShortReadSpec`) |

An exit may lose what is still on the way (a reset) or not, and a recv() of a
page finds the end of the stream (0, taken for a page) or the reset (a failure);
a recv() of a length ends the loop either way.  An end that is
awaiting a request when the peer goes stays there: `recv()` returns 0 at once
and the loop of `psipe_proxy_await_req` goes round without end.

Abstractions: sockets of unbounded capacity (`Lockstep` and `SenderHasRoom`
bound what is ever in them); the model stops an end that has gone astray; the
requests SYN and RST are never sent by the code and are left out.

### PsipeLifecycle

State: `held` is what the driver has acquired and not given back, a subset of
the resources probe goes through; `pc` and `todo` say where the PCI core is in
probe, in the ladder of error labels or in remove; `file`, `stale` and `active`
are a program's file, whether its device was freed, and how many operations it
has queued; `stuck` says that the first of them was refused; `running`, `msi`, `vec`, `pin` the device; `hpc` the handler.
`past` records what a program or an administrator did that the properties name
(opened before probe returned, unbound while in use, closed with operations
queued).

| Action | Code |
|---|---|
| `BeginProbe`, `Rmmod`, `Unbind` | `psipe_module_init`, `psipe_module_exit`, the PCI core |
| `ProbeStep`, `ProbeDone`, `ProbeNoMem`, `ProbeFail` | `psipe_probe`, `psipe_dev_init`, `psipe_irq_enable_vectors` |
| `Release` | one statement of the error ladder or of `psipe_remove` |
| `Open`, `Close` | `psipe_open`; there is no release operation |
| `Submit`, `Doorbell` | `psipe_ops_init`, the register accesses of the start |
| `RunEnd`, `Interrupt`, `SharedInterrupt` | `psipe_irq_raise`; the delivery by MSI, by the pin, or for another device on a shared line |
| `HandlerCheck`, `HandlerAck`, `HandlerNext` | `psipe_irq_check_and_ack`, `psipe_irq_check`, `psipe_irq_lower`, `psipe_ops_next` |

`op->ioctl_fn` (`IoctlFn`), called by the thread that found the list empty
(`Doorbell`) or by the handler (`HandlerNext`), starts a run or, for a send
without room at the peer, returns -EMSGSIZE.  The refused operation stays at the
head of the list and nobody runs it; `OperationsComplete` excepts that.  Which
operation it is, and a FLUSH, are PsipeQueue's.

The ladder is data: `Ladder` lists its statements, `Goto` the label each failing
step jumps to, `RemoveOrder` the statements of remove.  A failure inside
`psipe_irq_enable_vectors` after the vectors were allocated (a number other than
the one asked for, no vector number, `request_irq`) is the failure of step
"irq", which frees them.  PCI_IRQ_ALL_TYPES allows the pin, so `msi` is chosen
when vectors are allocated; remove leaves them allocated, so a second probe may
find them in place and either fail or keep them.  `vec` and `pin` are separate
variables although `IRQStatus` is a union: `pin.raised` lies on the unused
pointer of the first vector, not on its flag.

External, from how the code uses it: the PCI core serialises probe and remove
and clears drvdata of an unbound device; free_irq (`CanRelease`) waits for the handler; rmmod
is refused while the owner of the file operations is in use; pci_disable_device
clears bus mastering.  A second program, a peer that never answers and
`psipe_ops_wait` are not here.

### PsipeMatmul

Each program is the sequence of calls it makes (`MasterText`, `ChipletText`,
with WAIT_ALL_OPS 0 as the header has it); `pc` is its next call and `inside`
says that it is in it; `ofs` is the local of `matmul` that runs along C, advanced
when the RECV of a round is over (`CallDone`).  A device has the operations it was ever given (`ops`),
how many it has run and how many the handler has retired, and `st`, how far the
start or the run of the current one is.  `C` and `chip` are the memories.

| Action | Code |
|---|---|
| `Submit`, `Refused`, `Return` (with `CallDone`) | `psipe_send`, `psipe_recv`, the two `_args` wrappers, over `psipe_ops_init` and `psipe_dma_pin_pages` |
| `Wait`, `Flush` | `psipe_ops_wait` with the retval it returns, `psipe_ops_flush` |
| `Compute` | the loop over g in chiplet-mm.c |
| `Ask`, `Grant`, `Ring` | LEN_AVAIL and its answer, the doorbell |
| `Tx`, `Rx` | the two page loops, each as a whole |
| `Handle` | `psipe_irq_handler` and `psipe_ops_next` |

An element of C is its history, a sequence: where it came from and which
products were added.  So `ProductRight` compares with `matmul_gold` without
arithmetic, and sees an element that was lost, exchanged, taken from stale
memory or added twice.  The buffer of `psipe_send_args` and `psipe_recv_args` is
a stack frame: it holds the parameters only while the call lasts, which is why
the wrappers depend on the caller's start of the operation (`FramesAlive`).  An
operation the caller started itself has a retval nobody wrote, so a wait for it
may end the program.  An empty part is refused when its address is that of a
page and accepted otherwise; both are in the model.  Pages, sizes in bytes and
refusals for want of room (excluded by `ProgramsAgree`) are not.

## Runs

| Run | Kind | What it shows |
|---|---|---|
| `queue` | pass | Two threads, three operations, drained flushes: the invariants in every interleaving; PsipeQueue implements PsipeJobs; no wake-up is lost and a wait returns under fairness |
| `queue_any_flush` | pass | FLUSH at any time: order is kept and no operation is leaked, and that is all |
| `queue_lock` | violation | `psipe_ops_wait` unlinks without `ops->lock` while another context is in its locked section |
| `queue_retval` | violation | the operation its own caller starts completes with a `retval` nobody wrote |
| `queue_flush_waiter` | violation | a flush frees an operation a thread has just registered for |
| `dma` | pass | the page walk is right for buffers that start inside a page |
| `dma_aligned` | violation | and wrong from the second page on for buffers that start on a page boundary |
| `link` | pass | handshake and page loops, all pairs of short programs, with exits |
| `link_short_read` | violation | a receive completes with a part of a page missing when recv() returns early |
| `lifecycle` | pass | probe, remove, a program and interrupts in every interleaving, with a failure of every step: no leak but the vectors, no crash without the misuse the property names, operations complete unless a send was refused |
| `lifecycle_probe` | violation | a probe without BAR 0 returns 0 after it has freed the device, and remove finds none |
| `matmul` | pass | two devices and their chiplets: the programs agree, the product is right, everybody ends |

The violation runs belong to the findings in `PROJECT.json`, which quote what
the sources say and what the code does.

**Bounds.**  *Queue:* two threads and the handler; three operations, so that one
is running, one queued and one completed, or one is at the start and two behind
it; both threads may wait for the same operation.  The threads are
interchangeable, so `queue_any_flush`, which has no temporal property, uses symmetry.  *Dma:* pages of
three bytes and up to three of them, so there is a first, a middle and a last
page, and every length (multiples of a page, one more, one less); frames 2, 3
and 5, so buffer pages may be adjacent, scattered or the same; two operations,
so the second finds handles of a longer one.  *Link:* pages of two bytes,
messages of one and of three (a short page; a page and a short one); every pair
of programs of two operations, matching or not - two senders, two receivers, a
message longer than the room, a shorter one - and every matching pair of three;
either end may exit at any moment after start-up.  *Lifecycle:* one device; two
operations, so that the handler starts one; any number of probes and removes.
*Matmul:* two devices, so that one may keep the lock the other needs; three
elements, so that the parts differ, and one, so that one part is empty.

**Deadlock** is not checked: users may stop calling, a refused send stops its
queue, mismatched programs wait for each other, and the bounds end the rest.
A crashed kernel stops, and the matrix programs end.  What must go on is stated
as `SomebodyDrives`, `WaitReturns`, `AllTransfersEnd`, `ExitEndsRuns`,
`OperationsComplete` and `Finishes`.

**Fairness.**  In PsipeQueue, weak fairness of what each thread does inside the
kernel and of the handler: Linux schedules runnable threads, the emulator
delivers the interrupt, and a run ends because the peer has queued the matching
operation (when it has not, the queue waits, as in the code).  Nobody is assumed
to make another call.  In PsipeLink, weak fairness of start-up and of each end:
both emulators run and each guest gets to its next operation.  Nobody is assumed
to exit.  In PsipeLifecycle, weak fairness of probe and remove once begun, of
the start and the end of a run, of interrupt delivery and of the handler; nobody
is assumed to load, bind, open, submit or close.  In PsipeMatmul, weak fairness
of each program and of each device with its handler: the programs contain no
wait other than on the device, and the emulators run.

## Proofs

**PsipeQueueProofs**, for any number of threads and of operations, assuming only
that no flush finds an unfinished operation (`"FLUSH" \notin Calls`).  None of
the properties is inductive.  The invariant `IInv` adds to `TypeOK`:

* `ListInv`: the active list is the interval of the last ids handed out, and
  everything before it has been run, and flagged but for the one the handler has
  in hand, which is allocated as long as its flag is not set.  This replaces the
  list by two numbers and gives `SubmissionOrder`, `CompletedHasRun` (with
  `DriveInv`), `LinkedWhileLive`.
* `LockInv`: who holds the lock, from the program counters; a flush holds it
  only while nothing is active.
* `DriveInv`: exactly one of - someone is starting or running the head; its
  completion is on the way; the handler is between two operations; the head was
  refused.  This is the heart of `OneRunAtATime`, `SomebodyDrives` and
  `DmaIntoMappedPages`: the thread that found the list empty works without the
  lock, and it is safe only because nobody else touches the head until its run
  has ended.
* `SignalInv`: the interrupt is neither lost nor taken twice between the device's
  `raised`, the pending `msi` and the two accesses of the handler.
* `PointerInv`: which operation each context's pointer may designate; a sleeper's
  is not flagged, or the handler is between its flag and its wake-up.  This gives
  `SleepersCanBeWoken`.
* `WaitersCounted`: the count equals the number of registered waiters.

There is one lemma for each action (`OpsInitIInv`, ... `FlushEndIInv`), `NextIInv`
combines them, and each property follows from the invariant in a theorem of its
own: `QueueTypeOK`, `QueueSubmissionOrder`, `QueueLinkedWhileLive`,
`QueueOneRunAtATime`, `QueueSomebodyDrives`, `QueueDmaIntoMappedPages`,
`QueueCompletedHasRun`, `QueueSleepersCanBeWoken`, `QueueStartersHoldLiveOps`,
`QueueWaitersCounted`, and `QueueUnmapOnlyMapped` for the action property.

`QueueServesJobsInOrder` shows that PsipeQueue implements PsipeJobs.  Under the
refinement mapping the retired jobs are the ids before the head of the active
list (`RetiredIsPrefix`, by `ListInv`); `OpsInit` is `Submit`, `RunEnd` is
`Run`, `OpsNext` is `Retire`, `SetFlag` is `Report` and every other step
stutters.  That `RunEnd` is the run of the head, and once, is `DriveInv`; that a flush
retires nothing is `LockInv`.

**PsipeDmaProofs**, for every page size, number of pages and placement of the
frames.  `DmaTiles` shows, for buffers at any offset, that the accesses of a run
cover the bytes moved so far and do not overlap; `DmaTypeOK` and
`DmaEachByteOnce` follow.  *Where* the bytes are is right only if no buffer
starts on a page boundary (`0 \notin Offsets`; the run `dma_aligned` shows the
other case).  The invariant of `DmaInvariant` ties `addr` to `hnd_pos` and to the
number of bytes moved, which is where the assumption is needed: with offset 0
`addr` may stand at the start of the frame after the page.  From it follow
`DmaAccessesInPlace`, `DmaHandleInRange` and `DmaLookupSucceeds`.

**PsipeLinkProofs**, for every page size, every pair of programs, matching or
not, every length, and exits at any moment; the only assumptions are those
PsipeLink makes on its constants.  No property says what is in the streams, so
none is inductive.  `IInv` says it, as a disjunction of phases the pair goes
through while both ends are there (`Phases`):

* `Booting`, `LastAck`: the connection and its two acknowledgements;
* `Free`: no transfer under way, and nothing in the streams but the request of a
  sender that asks;
* `Answered`: a receiver has answered, and its sender has not begun to send; a
  sender that was refused stays there;
* `Sending(s, i)`: s has sent i pieces; the stream holds those of them, lengths
  and pages in turn, that the receiver has not read;
* `Sent`: the sender is done and may have asked again, behind its message, which
  the receiver still reads;
* `Astray`: the message was shorter than the receive, and the receiver has taken
  the next request for the length of a page.

The invariant is more than a handshake because the receiver's loop ends only
when its own length is used up, whatever the length of the message.  Each phase
has a lemma that says which phases its steps lead to (`BootingStep`, ...
`AstrayStep`).  After an exit the phases no longer hold, since a reset may lose
any suffix of a stream, and only types and local facts (`AfterExit`, `LocalInv`)
are kept; `PhasesBounded` and `GoneStep` are about that moment.  Theorems
`LinkTypeOK`, `LinkReceivedIsSent`, `LinkSenderHasRoom` (with the cardinality of
the bytes in flight bounded by an injection, `InFlightBound`), `LinkLockstep`,
`LinkStreamsInStep`.

**PsipeLifecycleProofs**, for any number of operations, probes and removes.  The
invariant adds to `TypeOK`:

* `HoldsInv`: what is held is determined by where the PCI core is - the steps of
  probe done so far, the part of the ladder still to go, the part of remove still
  to go - up to the vectors, which remove leaves.  This is what makes
  `AllOrNothing` and `ReleasesWhatItHolds` inductive: the labels of the ladder
  undo exactly the steps before the one that failed.
* `DrvdataInv` and `FileInv`: drvdata is found only while there is a device, and
  a well-behaved program has its file open only while the driver is bound.
* `HandlerHasDevice`, inductive with `HoldsInv`.
* `TokenInv`: the run a well-behaved program may ask for is in at most one place
  at a time - being started, running, signalled, or being retired by the handler,
  and in none when it was refused - so the handler, when it comes, finds an
  operation, its device and its registers.
* `OnlyMisuseCrashes`.

Theorems `TypeCorrect`, `HoldsAllOrNothing`, `ReleasesOnlyWhatItHolds`,
`HandlerKeepsDevice`, `CrashesOnlyByMisuse`.

**PsipeMatmulProofs**, for any number of devices and any number of elements, fewer
than there are devices included.  The assumptions are that there is a device and
that the sizes are positive.  The invariant has two layers.

* `Control` is about queues and program counters.  `QueueInv` ties the state of a
  device to the number of its operations run and retired and says that they are
  those of `Plan`, a list of five for each end.  `MasterInv` and `ChipletInv`
  give, from the program counter, how many of the five were submitted and how
  many must have been retired, `FirstInv` keeps the caller of the first one, the
  parameters, in its ioctl until it has been run.  `FramesAlive` is `FirstInv`,
  `FlushesDrained` and `ProgramsAgree` follow from the others.
* `Data` is about links and memories.  `PairInv`: the two ends of a link are
  level with nothing between them (`Apart`), or joined by the handshake
  (`Joined`), or the receiver is one operation behind and the stream holds the
  one message that operation carries (`Behind`).  `ChipInv` gives the memory of a
  chiplet from what it has received and computed, `CInv` all of C from which
  parts have come back, `OfsInv` the value of `ofs`.

`Control` alone is not inductive: the length of a chiplet's operations comes from
the parameters in its memory, so that `SubmitsPlan` needs `ChipInv`.  That in turn
needs what was on the link, which needs the master's memory: that C still has the
first values where a device has not received (`MessageIs`) is where the parts of
different devices must not overlap (`PartsApart`), and that they cover C
(`PartsFollow`, `OfsInv`) is the last step of `ProductRight`.  Theorems
`MatmulTypeOK`, `MatmulFramesAlive`, `MatmulFlushesDrained`,
`MatmulProgramsAgree`, `MatmulProductRight`.

**Only model-checked:** liveness (`WaitReturns`, `AllTransfersEnd`,
`ExitEndsRuns`, `OperationsComplete`, `Finishes`), which the prover cannot
treat, and `queue_any_flush`.

## Hazards and what is left of them

`PROJECT.json` lists all of them at their lines, with the properties about each.
The ones that no property excludes, or only in part:

* Use of a freed operation.  `StartersHoldLiveOps` covers everything up to the
  setting of the flag, `FlushSparesWaiters` (which fails) a flush against a
  waiter.  Three windows remain: `psipe_ops_fini` uses `op->waitq` after the flag
  (psipe_queue.c:103); `psipe_ops_init` reads `op->id` after the run
  (psipe_queue.c:84); and of two threads that wait for one operation the second
  may register after the first has counted itself out, or find it freed after
  `psipe_ops_get` (psipe_queue.c:117, 173).  `WaitersCounted` does not exclude the
  last: the count is right, and zero.  The model reaches all three as
  `UseAfterFree`, and the properties claim nothing beyond it.
* A refused send stays at the head and stops its queue (psipe_module.c:65).
  `SomebodyDrives`, `WaitReturns` and `OperationsComplete` except it.
* FLUSH of an operation that runs or waits to run: `OneRunAtATime`,
  `CompletedHasRun`, `DmaIntoMappedPages` and `UnmapOnlyMapped` all fail in the
  model, which is why they are stated for drained flushes.  `FlushesDrained`
  shows that the matrix programs make no other.
* Interrupts on a shared line between `request_irq` and the setting of the
  register pointers (psipe_irq.c:85), or between the unmapping of the registers
  and `free_irq` (psipe_module.c:321), make the handler read through a pointer
  that is not there; so does a device that is unbound while in use.
  `OnlyMisuseCrashes` says that these, and a program that is too early or leaves
  operations behind, are the only ways.
* The vectors are not freed by remove (`AllOrNothing` excepts them).
* With fewer elements than devices a program is refused or waits for ever
  (`Finishes` excepts it).
* A run that failed raises the same interrupt as one that succeeded
  (psipe.c:172).
* An end that waits for a request when the peer exits (proxy.c:155).
* A failing `dma_map_sg` (psipe_dma.c:87), and the size of the BAR against the
  number of handles (mmio.c:133): not modelled.

## Not modelled, and why

The older programs are written for ioctls that no longer exist and are not
built; `matmul-offload-1o.c` does not use the device; the scripts have no state
of their own.  Floating point arithmetic, timing and the files the programs save
are of no interest here.  QOM registration and `psipe_dma_add_handle` (no caller)
change nothing the models see.  The reset of the device belongs to a restart of
the machine.  The size of the BAR and a failing `dma_map_sg` depend on the machine
around the device.  `psipe_open_devs` counts the directory in one pass and opens
it in another; devices that come in between are not modelled.  The retry of
`psipe_dma_pin_pages` and its error ladder happen before the operation is
queued and leave nothing behind but memory.

## Plan

1. (done) `PsipeJobs`, `PsipeQueue`: the concurrent core, its refinement and its
   inductive invariant.
2. (done) `PsipeDma` and its invariant; `PsipeLink`.
3. (done) `PsipeLifecycle`: module init, probe and its error ladder, open,
   remove, interrupts that arrive in between.
4. (done) `PsipeMatmul`: `PART_FOR_DEV` and the two programs end to end.
5. (done) Proofs of PsipeLifecycle, of PsipeLink and of `EachByteOnce`.
6. (done) Proofs of PsipeMatmul for any number of devices.
7. What remains true of the queue under FLUSH at any time.
