--------------------------- MODULE PsipeLifecycle ---------------------------
(***************************************************************************)
(* The life of one device in the kernel module: psipe_probe with a failure *)
(* of any of its steps and its ladder of error labels, psipe_remove, the   *)
(* character device a program opens, the interrupt handler that may run    *)
(* while all this goes on, and the two ways the device has to interrupt    *)
(* (its MSI vector, or the pin as long as MSI is not enabled).             *)
(*                                                                         *)
(* The PCI core runs probe and remove, one at a time; a program and the    *)
(* handler run beside them.  Operations are counted, not identified: what  *)
(* the queue does with them, FLUSH included, is PsipeQueue.  The start of  *)
(* an operation may fail with -EMSGSIZE, as there.                         *)
(***************************************************************************)
EXTENDS Integers, Sequences, SequencesExt

CONSTANT MaxOps       \* operations a program has in the queue at a time

ASSUME MaxOpsAssumption == MaxOps \in Nat \ {0}

VARIABLES
  loaded,    \* the module: "out", "in", or "going" (rmmod under way)
  bound,     \* probe returned 0, so the PCI core will call remove
  drvdata,   \* pci_get_drvdata would return the device
  pc,        \* the PCI core: "idle", a step of probe, "undo" or "remove"
  todo,      \* what is left of the error ladder or of remove
  err,       \* err of a failing probe, which it will return, is not 0
  held,      \* what the driver has acquired and not given back
  ptrs,      \* irq.mmio_check_irq and irq.mmio_ack_irq are set
  file,      \* the program's file: "closed", "open", or, inside an ioctl that
             \* starts an operation, "start" and "busy"
  stale,     \* the file refers to a device that was freed
  active,    \* number of operations in ops->active
  stuck,     \* the first of them was refused with -EMSGSIZE: nobody runs it
  running,   \* the device is doing a run
  msi,       \* MSI is enabled in the device
  vec, pin,  \* MSIVector.raised and pin.raised of the device
  pend,      \* an MSI was delivered and its handler has not started
  hpc,       \* the handler: "idle", "check", "ack", "next"
  foreign,   \* it was called for another device on a shared line
  crash,     \* the first undefined behaviour reached, "none" if none
  past       \* what happened so far, see Blame

module == <<loaded, bound, drvdata, pc, todo, err>>
driver == <<held, ptrs>>
user   == <<file, stale, active, stuck>>
device == <<running, msi, vec, pin>>
irqs   == <<pend, hpc, foreign>>
ends   == <<crash, past>>
vars   == <<module, driver, user, device, irqs, ends>>

-----------------------------------------------------------------------------
(* psipe_probe, step by step.  "mask", "select" and "pointers" acquire      *)
(* nothing; "vectors", "irq" and "pointers" are psipe_irq_enable.           *)

Steps == <<"alloc", "enable", "master", "mask", "select", "regions", "mmio",
           "chrdev", "cdev", "node", "vectors", "irq", "pointers">>

Resources == ToSet(Steps) \ {"mask", "select", "pointers"}

\* The statements of the error ladder, in order.
Ladder == <<"vectors", "node", "cdev", "chrdev", "mmio", "regions", "master",
            "enable", "alloc">>

\* The label each step jumps to, by the first statement after it.
Goto == [enable |-> "alloc", mask |-> "enable", select |-> "master",
         regions |-> "master", mmio |-> "regions", chrdev |-> "mmio",
         cdev |-> "chrdev", node |-> "cdev", vectors |-> "node",
         irq |-> "vectors"]

\* Faults: device_create jumps one label too far; cdev_add one too near.
EntryFault(s) == IF s = "node" THEN "chrdev" ELSE Goto[s]
EntryFault2(s) == IF s = "cdev" THEN "cdev" ELSE Goto[s]

\* Where a failure of step s enters the ladder.
Entry(s) == Goto[s]

From(s) == SubSeq(Ladder, CHOOSE i \in DOMAIN Ladder : Ladder[i] = s, Len(Ladder))

\* Fault: the interrupt is freed last, after the structure its handler uses.
RemoveOrderFault == <<"node", "cdev", "chrdev", "mmio", "master", "regions",
                      "enable", "alloc", "irq">>

\* The statements of psipe_remove; the vectors are not among them.
RemoveOrder == <<"node", "cdev", "chrdev", "mmio", "master", "irq", "regions",
                 "enable", "alloc">>

\* What a statement gives back: pci_disable_device also stops bus mastering.
Releases(s) == IF s = "enable" THEN {"enable", "master"} ELSE {s}

Init ==
  /\ loaded = "out" /\ bound = FALSE /\ drvdata = FALSE
  /\ pc = "idle" /\ todo = <<>> /\ err = FALSE
  /\ held = {} /\ ptrs = FALSE
  /\ file = "closed" /\ stale = FALSE /\ active = 0 /\ stuck = FALSE
  /\ running = FALSE /\ msi = FALSE /\ vec = FALSE /\ pin = FALSE
  /\ pend = FALSE /\ hpc = "idle" /\ foreign = FALSE
  /\ crash = "none" /\ past = {}

Crash(c) == crash' = c /\ past' = past

-----------------------------------------------------------------------------
(* The PCI core and whoever loads and unloads the module.                   *)

\* psipe_module_init registers the driver and the device is probed; so is one
\* that was unbound and is bound again.
BeginProbe ==
  /\ crash = "none" /\ pc = "idle" /\ ~bound
  /\ loaded' = "in" /\ pc' = "alloc"
  /\ UNCHANGED <<bound, drvdata, todo, err, driver, user, device, irqs, ends>>

NextStep(s) == Steps[1 + CHOOSE i \in DOMAIN Steps : Steps[i] = s]

\* A step of probe that succeeds.
ProbeStep ==
  /\ crash = "none" /\ pc \in ToSet(Steps) \ {"pointers"}
  /\ pc' = NextStep(pc)
  /\ held' = held \cup ({pc} \cap Resources)
  /\ drvdata' = (drvdata \/ pc = "mmio")
  /\ active' = IF pc = "mmio" THEN 0 ELSE active
  /\ stuck' = (stuck /\ pc # "mmio")
  /\ ptrs' = (ptrs /\ pc # "alloc")
  \* PCI_IRQ_ALL_TYPES: MSI, or the pin when MSI is not to be had
  /\ msi' \in IF pc = "vectors" /\ "vectors" \notin held THEN BOOLEAN ELSE {msi}
  /\ UNCHANGED <<loaded, bound, todo, err, file, stale, running, vec, pin, irqs,
                 ends>>

\* The last one: the handler's register pointers are set and probe returns 0.
ProbeDone ==
  /\ crash = "none" /\ pc = "pointers"
  /\ ptrs' = TRUE /\ bound' = TRUE /\ pc' = "idle"
  /\ UNCHANGED <<loaded, drvdata, todo, err, held, user, device, irqs, ends>>

\* Nothing was allocated: probe returns -ENOMEM at once.
ProbeNoMem ==
  /\ crash = "none" /\ pc = "alloc"
  /\ pc' = "idle"
  /\ UNCHANGED <<loaded, bound, drvdata, todo, err, driver, user, device, irqs,
                 ends>>

\* pci_set_master cannot fail.  err is still 0 when BAR 0 is not available.
ProbeFail ==
  /\ crash = "none" /\ pc \in ToSet(Steps) \ {"alloc", "master", "pointers"}
  /\ todo' = From(Entry(pc)) /\ err' = (pc # "select") /\ pc' = "undo"
  /\ UNCHANGED <<loaded, bound, drvdata, driver, user, device, irqs, ends>>

\* Unbinding by hand or hot unplug, whatever a program has open ...
Unbind ==
  /\ crash = "none" /\ pc = "idle" /\ bound /\ loaded = "in"
  /\ pc' = "remove" /\ todo' = RemoveOrder
  /\ IF drvdata
       THEN /\ past' = past \cup {"removed"} \cup
                       (IF file # "closed" \/ active > 0 THEN {"unbound"} ELSE {})
            /\ UNCHANGED crash
       ELSE Crash("null")
  /\ UNCHANGED <<loaded, bound, drvdata, err, driver, user, device, irqs>>

\* Fault: the file operations have no owner.
FilesClosedFault == TRUE

FilesClosed == file = "closed"

\* ... and rmmod, which is refused while a file that psipe_fops.owner counts is
\* open.
Rmmod ==
  /\ crash = "none" /\ pc = "idle" /\ loaded = "in" /\ FilesClosed
  /\ IF bound
       THEN /\ loaded' = "going" /\ pc' = "remove" /\ todo' = RemoveOrder
            /\ IF drvdata THEN past' = past \cup {"removed"} /\ UNCHANGED crash
                          ELSE Crash("null")
       ELSE /\ loaded' = "out"
            /\ UNCHANGED <<pc, todo, ends>>
  /\ UNCHANGED <<bound, drvdata, err, driver, user, device, irqs>>

\* free_irq waits for a handler that is running.
CanRelease(s) == s = "irq" => hpc = "idle"

\* One statement of the ladder or of remove.  After the last one the PCI core
\* records the outcome, and clears drvdata of a device that is not bound.
Release ==
  LET s == Head(todo) last == Len(todo) = 1 IN
  /\ crash = "none" /\ pc \in {"undo", "remove"} /\ CanRelease(s)
  /\ held' = held \ Releases(s) /\ todo' = Tail(todo)
  /\ pend' = (pend /\ s # "irq")
  /\ msi' = (msi /\ s # "vectors")
  /\ stale' = (stale \/ (s = "alloc" /\ file # "closed"))
  /\ pc' = IF last THEN "idle" ELSE pc
  /\ bound' = IF last THEN pc = "undo" /\ ~err ELSE bound
  /\ drvdata' = (drvdata /\ (last => bound'))
  /\ loaded' = IF last /\ loaded = "going" THEN "out" ELSE loaded
  /\ err' = (err /\ ~last)
  /\ UNCHANGED <<ptrs, file, active, stuck, running, vec, pin, hpc, foreign, ends>>

-----------------------------------------------------------------------------
(* A program.                                                               *)

\* psipe_open, as soon as device_create has made the node.
Open ==
  /\ crash = "none" /\ file = "closed"
  /\ loaded = "in" /\ {"node", "cdev", "mmio"} \subseteq held
  /\ file' = "open" /\ stale' = FALSE
  /\ past' = past \cup (IF bound THEN {} ELSE {"early"})
                  \cup (IF pc = "remove" THEN {"unbound"} ELSE {})
  /\ UNCHANGED <<module, driver, active, stuck, device, irqs, crash>>

\* SEND or RECV: queue an operation, and start it if the list was empty.
Submit ==
  /\ crash = "none" /\ file = "open" /\ active < MaxOps
  /\ IF stale THEN Crash("freed") /\ UNCHANGED <<file, active>>
     ELSE /\ active' = active + 1
          /\ file' = IF active = 0 THEN "start" ELSE file
          /\ UNCHANGED ends
  /\ UNCHANGED <<module, driver, stale, stuck, device, irqs>>

\* op->ioctl_fn: its register accesses end with the doorbell, or a send finds
\* too little room at the peer and returns -EMSGSIZE.  Nothing takes the refused
\* operation from the head of the list.
IoctlFn ==
  \/ running' = TRUE /\ stuck' = FALSE
  \/ running' = running /\ stuck' = TRUE

\* The thread that found the list empty calls it, and is in the doorbell write
\* for as long as the run takes; an error ends its ioctl.
Doorbell ==
  /\ crash = "none" /\ file = "start" /\ ~running
  /\ IF stale \/ "mmio" \notin held
       THEN /\ Crash(IF stale THEN "freed" ELSE "unmapped")
            /\ UNCHANGED <<file, running, stuck>>
       ELSE /\ IoctlFn /\ UNCHANGED ends
            /\ file' = IF running' THEN "busy" ELSE "open"
  /\ UNCHANGED <<module, driver, stale, active, msi, vec, pin, irqs>>

\* There is no release operation: operations may be left behind.  The cdev that
\* the last close puts is a part of the device structure.
Close ==
  /\ crash = "none" /\ file = "open"
  /\ file' = "closed" /\ stale' = FALSE
  /\ IF stale THEN Crash("freed")
     ELSE /\ past' = past \cup (IF active > 0 THEN {"undrained"} ELSE {})
          /\ UNCHANGED crash
  /\ UNCHANGED <<module, driver, active, stuck, device, irqs>>

-----------------------------------------------------------------------------
(* The device and the interrupt handler.  A run keeps the big lock of QEMU,  *)
(* so a register access waits for its end.                                  *)

\* The run ends with psipe_irq_raise, and so does the doorbell write.
RunEnd ==
  /\ crash = "none" /\ running
  /\ running' = FALSE /\ file' = IF file = "busy" THEN "open" ELSE file
  /\ vec' = (vec \/ msi) /\ pin' = (pin \/ ~msi)
  /\ pend' = (pend \/ (msi /\ "irq" \in held))
  /\ UNCHANGED <<module, driver, stale, active, stuck, msi, hpc, foreign, ends>>

\* Fault: the register always shows the pin.
IrqCheckFault == pin

\* psipe_irq_check of the device, read through the IRQ register.
IrqCheck == IF msi THEN vec ELSE pin

\* psipe_irq_handler is called: for an MSI or the level of the pin ...
Interrupt ==
  /\ crash = "none" /\ hpc = "idle" /\ "irq" \in held
  /\ pend \/ (~msi /\ pin)
  /\ hpc' = "check" /\ pend' = FALSE /\ foreign' = FALSE
  /\ UNCHANGED <<module, driver, user, device, ends>>

\* ... or for another device: it is registered with IRQF_SHARED.
SharedInterrupt ==
  /\ crash = "none" /\ hpc = "idle" /\ "irq" \in held
  /\ ~msi /\ ~pin
  /\ hpc' = "check" /\ foreign' = TRUE
  /\ UNCHANGED <<module, driver, user, device, pend, ends>>

\* ioread32 of mmio_check_irq.
HandlerCheck ==
  /\ crash = "none" /\ hpc = "check" /\ ~running
  /\ IF ptrs /\ "mmio" \in held
       THEN hpc' = (IF IrqCheck THEN "ack" ELSE "idle") /\ UNCHANGED ends
       ELSE Crash(IF ptrs THEN "unmapped" ELSE "wild") /\ UNCHANGED hpc
  /\ UNCHANGED <<module, driver, user, device, pend, foreign>>

\* iowrite32 to mmio_ack_irq.
HandlerAck ==
  /\ crash = "none" /\ hpc = "ack" /\ ~running
  /\ IF "mmio" \in held
       THEN /\ hpc' = "next" /\ vec' = (vec /\ ~msi) /\ pin' = (pin /\ msi)
            /\ UNCHANGED ends
       ELSE Crash("unmapped") /\ UNCHANGED <<hpc, vec, pin>>
  /\ UNCHANGED <<module, driver, user, running, msi, pend, foreign>>

\* Fault: psipe_ops_next without the test for an empty list.
RetiredFault(n) == n - 1

\* How many operations are left when the current one, if any, is retired.
Retired(n) == IF n > 0 THEN n - 1 ELSE 0

\* psipe_ops_next: the head is retired and the next operation started; what its
\* ioctl_fn returns goes to retval and changes nothing here.
HandlerNext ==
  /\ crash = "none" /\ hpc = "next" /\ (active > 1 => ~running)
  /\ hpc' = "idle"
  /\ active' = Retired(active)
  /\ IF active <= 1 THEN stuck' = FALSE /\ UNCHANGED <<running, ends>>
     ELSE IF "mmio" \in held THEN IoctlFn /\ UNCHANGED ends
     ELSE Crash("unmapped") /\ UNCHANGED <<running, stuck>>
  /\ UNCHANGED <<module, driver, file, stale, msi, vec, pin, pend, foreign>>

-----------------------------------------------------------------------------

Core    == BeginProbe \/ Unbind \/ Rmmod
Probe   == ProbeStep \/ ProbeDone \/ ProbeNoMem \/ ProbeFail
Program == Open \/ Submit \/ Close
Handler == HandlerCheck \/ HandlerAck \/ HandlerNext

Next == Core \/ Probe \/ Release \/ Program \/ Doorbell \/ RunEnd
        \/ Interrupt \/ SharedInterrupt \/ Handler

Spec == Init /\ [][Next]_vars

\* The kernel finishes what it has begun, a run ends when the peer does its
\* part, and a pending interrupt is delivered.
FairSpec ==
  /\ Spec
  /\ WF_vars(Probe) /\ WF_vars(Release)
  /\ WF_vars(Doorbell) /\ WF_vars(RunEnd)
  /\ WF_vars(Interrupt) /\ WF_vars(Handler)

-----------------------------------------------------------------------------
(* Properties.                                                              *)

\* Every variable has a value of its kind.
TypeOK ==
  /\ loaded \in {"out", "in", "going"}
  /\ pc \in {"idle", "undo", "remove"} \cup ToSet(Steps)
  /\ held \subseteq Resources /\ ToSet(todo) \subseteq Resources
  /\ file \in {"closed", "open", "start", "busy"} /\ active \in 0..MaxOps
  /\ hpc \in {"idle", "check", "ack", "next"}
  /\ crash \in {"none", "null", "freed", "unmapped", "wild"}
  /\ past \subseteq {"early", "unbound", "undrained", "removed"}
  /\ \A b \in {bound, drvdata, err, ptrs, stale, stuck, running, msi, vec, pin,
               pend, foreign} : b \in BOOLEAN

\* Between calls of the PCI core a driver that holds the device holds all of
\* it, and one that does not holds nothing, wherever probe failed - but for the
\* interrupt vectors, which psipe_remove does not free.
AllOrNothing ==
  pc = "idle" /\ crash = "none" =>
    \/ bound /\ held = Resources
    \/ held = {}
    \/ held = {"vectors"} /\ "removed" \in past

\* Every statement of the error ladder and of remove gives back something that
\* is held: nothing is freed, unmapped or unregistered twice or for nothing.
ReleasesWhatItHolds ==
  pc \in {"undo", "remove"} /\ crash = "none" => Head(todo) \in held

\* While the handler runs, the device structure it was given is allocated and
\* its interrupt is not freed (remove frees the structure last, after free_irq).
HandlerHasDevice == hpc # "idle" => {"alloc", "irq"} \subseteq held

\* A program that opens the device after probe has returned, waits for its
\* operations before it closes, and is not unbound meanwhile, never makes the
\* kernel touch memory or registers that are gone.  Only an interrupt of another
\* device on a shared line can: between request_irq and the pointers, and
\* between the unmapping and free_irq.
OnlyMisuseCrashes ==
  /\ crash = "freed" => past \cap {"early", "unbound"} # {}
  /\ crash \in {"unmapped", "wild"} =>
       foreign \/ past \cap {"early", "unbound", "undrained"} # {}

\* Under such use every operation completes, unless a send was refused and
\* stays at the head of the list: the device signals on the line the handler
\* listens to, and looks at the same line when it is asked.
OperationsComplete ==
  \A n \in 1..MaxOps :
    active = n ~> \/ active # n \/ stuck \/ crash # "none"
                  \/ past \cap {"early", "unbound", "undrained"} # {}

\* psipe_remove is called only for a device that probe has set up: a probe that
\* fails and frees its device says so to the PCI core.
RemoveFindsItsDevice == crash # "null"

=============================================================================
