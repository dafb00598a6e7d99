---------------------------- MODULE PsipeMatmul ----------------------------
(***************************************************************************)
(* The matrix product over several devices: master-mm.c on one machine, a  *)
(* chiplet-mm.c on the machine behind each of its devices, and what joins  *)
(* them.  Every device has a queue that serves its operations in order, as *)
(* PsipeJobs promises and PsipeQueue shows; an operation is started by the *)
(* caller that finds the queue empty, who stays in its ioctl for the whole *)
(* run, or by the interrupt of the one before, whose handler then keeps    *)
(* ops->lock.  A SEND and the RECV it meets go through the handshake of    *)
(* PsipeLink.  All devices of a machine share the big lock of its QEMU.    *)
(***************************************************************************)
EXTENDS Integers, Sequences

CONSTANTS
  NumDevs,    \* devices of the master machine
  Sizes       \* numbers of elements of C (sz_n * sz_m) to consider

ASSUME NumDevsAssumption == NumDevs \in Nat \ {0}
ASSUME SizesAssumption == Sizes \subseteq Nat \ {0}

VARIABLES
  n,          \* elements of C
  ofs,        \* of matmul: where the part of the next device begins
  pc, inside, \* of each program: next call of its text, and whether it is in it
  ops,        \* of each device: every operation submitted to it, oldest first
  nmoved,     \* how many of them the device has run
  nretired,   \* how many the interrupt handler has retired
  self,       \* the last of them was started by its own caller
  st,         \* the operation being started or run, see below
  byirq,      \* it was started by the handler, which holds ops->lock
  irq,        \* the device has raised its interrupt
  link,       \* of each pair: the message the sender has put on the stream
  C,          \* matrix C of the master
  chip        \* memory of each chiplet

progs  == <<pc, inside>>
queues == <<ops, nretired, self>>
runs   == <<nmoved, st, byirq, irq>>
memory == <<C, chip>>
vars   == <<n, ofs, progs, queues, runs, link, memory>>

-----------------------------------------------------------------------------
(* Who is who.  A program also names the machine it runs on.                *)

Devs   == 0 .. NumDevs - 1
Master == -1
Progs  == Devs \cup {Master}

\* <<p, d>>: the end of link d on the machine of p.
Ends == {<<Master, d>> : d \in Devs} \cup {<<d, d>> : d \in Devs}

Peer(e) == IF e[1] = Master THEN <<e[2], e[2]>> ELSE <<Master, e[2]>>

-----------------------------------------------------------------------------
(* The division of C among the devices.                                     *)

\* PART_FOR_DEV.
Part(d) == n \div NumDevs + (IF d < n % NumDevs THEN 1 ELSE 0)

\* The parameters as psipe_send_args puts them into its frame.
Args(d) == [n |-> n, len |-> Part(d), ofs |-> ofs]
Junk == [n |-> 0, len |-> 0, ofs |-> 0]       \* a stack frame never written

-----------------------------------------------------------------------------
(* The texts of the two programs.                                           *)

Call(do, d, buf) == [do |-> do, dev |-> d, buf |-> buf]

\* A round of each of the two loops of matmul.
Distribute(d) ==
  <<Call("SEND", d, "args"), Call("SEND", d, "A"), Call("SEND", d, "B"),
    Call("SEND", d, "C"), Call("RECV", d, "C")>>

Collect(d) == <<Call("WAIT", d, "C"), Call("FLUSH", d, "C")>>

\* Both loops, one after the other.
MasterText ==
  [i \in 1 .. 7 * NumDevs |->
     IF i <= 5 * NumDevs
       THEN Distribute((i - 1) \div 5)[((i - 1) % 5) + 1]
       ELSE Collect((i - 5 * NumDevs - 1) \div 2)[((i - 5 * NumDevs - 1) % 2) + 1]]

\* The parts of main of chiplet-mm.c: the parameters, ...
GetArgs(d) == <<Call("RECV", d, "args"), Call("WAIT", d, "args")>>

\* Faults: B is taken before A; the wait is missing.
GetMatricesFault(d) ==
  <<Call("RECV", d, "B"), Call("RECV", d, "A"), Call("RECV", d, "C"),
    Call("WAIT", d, "C")>>

GetMatricesFault2(d) ==
  <<Call("RECV", d, "A"), Call("RECV", d, "B"), Call("RECV", d, "C")>>

\* ... the matrices, ...
GetMatrices(d) ==
  <<Call("RECV", d, "A"), Call("RECV", d, "B"), Call("RECV", d, "C"),
    Call("WAIT", d, "C")>>

\* Fault: the last wait is missing.
SendBackFault(d) == <<Call("SEND", d, "C"), Call("FLUSH", d, "C")>>

\* ... and, after the computation, the result.
SendBack(d) == <<Call("SEND", d, "C"), Call("WAIT", d, "C"), Call("FLUSH", d, "C")>>

ChipletText(d) ==
  GetArgs(d) \o GetMatrices(d) \o <<Call("COMPUTE", d, "C")>> \o SendBack(d)

Text == [p \in Progs |-> IF p = Master THEN MasterText ELSE ChipletText(p)]

Dead == 0                                     \* pc after exit(1)
Ended(p) == pc[p] = Len(Text[p]) + 1
At(p, do) == pc[p] # Dead /\ ~Ended(p) /\ Text[p][pc[p]].do \in do

CallOf(p) == Text[p][pc[p]]
EndOf(p) == <<p, CallOf(p).dev>>

\* The operation a call of p submits: its buffer, its length in elements and its
\* place in the buffer.  A and B have sizes both sides derive from n.
Operation(p) ==
  LET c == CallOf(p) a == IF p = Master THEN Args(c.dev) ELSE chip[p].args IN
  [do  |-> c.do, buf |-> c.buf,
   len |-> CASE c.buf = "args" -> 1 [] c.buf = "C" -> a.len [] OTHER -> a.n,
   ofs |-> IF p = Master /\ c.buf = "C" THEN a.ofs ELSE 0]

-----------------------------------------------------------------------------
(* Queues, locks and runs.                                                  *)

Active(e)  == nretired[e] < Len(ops[e])
Current(e) == ops[e][nretired[e] + 1]

\* Fault: the caller always starts its operation.
FoundEmptyFault(e) == TRUE

\* psipe_ops_init: the caller starts its operation if there is no other.
FoundEmpty(e) == ~Active(e)

\* Fault: a completed operation starts no other.
StartsNextFault(e) == FALSE

\* psipe_ops_next: the handler starts the operation after the one it retires.
StartsNext(e) == nretired[e] + 1 < Len(ops[e])

\* st[e]: "none", "ready" (to be started), "ask" (reads LEN_AVAIL), "granted"
\* (may ring), "run" (doorbell rung; a receiver awaits its sender), "open" (a
\* receiver whose sender may send).
LockFree(e) == ~byirq[e]
BigLockFree(p) == \A e \in Ends : e[1] = p => st[e] \notin {"ask", "run", "open"}

Init ==
  /\ n \in Sizes /\ ofs = 0
  /\ pc = [p \in Progs |-> 1] /\ inside = [p \in Progs |-> FALSE]
  /\ ops = [e \in Ends |-> <<>>]
  /\ nmoved = [e \in Ends |-> 0] /\ nretired = [e \in Ends |-> 0]
  /\ self = [e \in Ends |-> FALSE]
  /\ st = [e \in Ends |-> "none"] /\ byirq = [e \in Ends |-> FALSE]
  /\ irq = [e \in Ends |-> FALSE]
  /\ link = [d \in Devs |-> <<>>]
  /\ C = [g \in 0 .. n - 1 |-> <<g>>]
  /\ chip = [d \in Devs |-> [frame |-> Junk, args |-> Junk, A |-> "none",
                             B |-> "none", C |-> <<>>]]

-----------------------------------------------------------------------------
(* The programs.                                                            *)

\* psipe_send or psipe_recv is over.  The RECV is the last of a round of matmul,
\* which then advances ofs.
CallDone(p) ==
  /\ pc' = [pc EXCEPT ![p] = @ + 1]
  /\ ofs' = IF p = Master /\ CallOf(p).do = "RECV"
              THEN ofs + Part(CallOf(p).dev) ELSE ofs

\* psipe_send or psipe_recv; the caller stays inside if it finds the queue empty.
Submit(p) ==
  LET e == EndOf(p) IN
  /\ At(p, {"SEND", "RECV"}) /\ ~inside[p] /\ LockFree(e)
  /\ ops' = [ops EXCEPT ![e] = Append(@, Operation(p))]
  /\ self' = [self EXCEPT ![e] = FoundEmpty(e)]
  /\ IF FoundEmpty(e)
       THEN /\ inside' = [inside EXCEPT ![p] = TRUE]
            /\ st' = [st EXCEPT ![e] = "ready"]
            /\ UNCHANGED <<pc, ofs>>
       ELSE /\ CallDone(p)
            /\ UNCHANGED <<inside, st>>
  /\ UNCHANGED <<n, nretired, nmoved, byirq, irq, link, memory>>

\* A buffer of length 0 at a page boundary has no pages to pin: -EMSGSIZE, and
\* the program exits.
Refused(p) ==
  /\ At(p, {"SEND", "RECV"}) /\ ~inside[p] /\ Operation(p).len = 0
  /\ pc' = [pc EXCEPT ![p] = Dead]
  /\ UNCHANGED <<n, ofs, inside, queues, runs, link, memory>>

\* Fault: the doorbell write returns at once.
CallerReturnsFault(e) == TRUE

\* The doorbell write returns when the run is over.
CallerReturns(e) == nmoved[e] = Len(ops[e])

\* The caller leaves its ioctl; psipe_recv_args copies the frame it received.
Return(p) ==
  /\ At(p, {"SEND", "RECV"}) /\ inside[p] /\ CallerReturns(EndOf(p))
  /\ inside' = [inside EXCEPT ![p] = FALSE]
  /\ CallDone(p)
  /\ chip' = IF p # Master /\ CallOf(p).buf = "args"
               THEN [chip EXCEPT ![p].args = chip[p].frame] ELSE chip
  /\ UNCHANGED <<n, queues, runs, link, C>>

\* psipe_wait for the operation submitted last: each wait of the programs is one
\* for that operation, so nothing follows it in the queue.  retval of an
\* operation its caller started was never written; negative, it ends the program.
Wait(p) ==
  LET e == EndOf(p) IN
  /\ At(p, {"WAIT"}) /\ LockFree(e) /\ nretired[e] = Len(ops[e])
  /\ \/ pc' = [pc EXCEPT ![p] = @ + 1]
     \/ self[e] /\ pc' = [pc EXCEPT ![p] = Dead]
  /\ UNCHANGED <<n, ofs, inside, queues, runs, link, memory>>

\* psipe_flush drops what is queued.
Flush(p) ==
  LET e == EndOf(p) IN
  /\ At(p, {"FLUSH"}) /\ LockFree(e)
  /\ pc' = [pc EXCEPT ![p] = @ + 1]
  /\ nretired' = [nretired EXCEPT ![e] = Len(ops[e])]
  /\ UNCHANGED <<n, ofs, inside, ops, self, runs, link, memory>>

\* The loop of chiplet-mm.c: element g of the product is added to element
\* g - g_ofs of the part.  An element is its history: where it came from and
\* which products were added, -1 for one made of a matrix that is not there.
Compute(d) ==
  LET a == chip[d].args
      prod(g) == IF chip[d].A = "A" /\ chip[d].B = "B" THEN g ELSE -1
      part == [k \in 1 .. a.len |->
                 IF k \in DOMAIN chip[d].C THEN chip[d].C[k] ELSE <<>>] IN
  /\ At(d, {"COMPUTE"})
  /\ pc' = [pc EXCEPT ![d] = @ + 1]
  /\ chip' = [chip EXCEPT ![d].C =
                [k \in 1 .. a.len |-> Append(part[k], prod(a.ofs + k - 1))]]
  /\ UNCHANGED <<n, ofs, inside, queues, runs, link, C>>

-----------------------------------------------------------------------------
(* The devices and the interrupt handlers.                                  *)

\* psipe_ioctl_send: the sender asks for room ...
Ask(e) ==
  /\ st[e] = "ready" /\ Current(e).do = "SEND" /\ BigLockFree(e[1])
  /\ st' = [st EXCEPT ![e] = "ask"]
  /\ UNCHANGED <<n, ofs, progs, queues, nmoved, byirq, irq, link, memory>>

\* ... and is answered by a receiver that has rung and has no sender yet.  The
\* room is enough: ProgramsAgree.  (What a refusal does is in PsipeQueue.)
Grant(e) ==
  LET r == Peer(e) IN
  /\ st[e] = "ask" /\ st[r] = "run" /\ Current(r).do = "RECV"
  /\ Current(e).len <= Current(r).len
  /\ st' = [st EXCEPT ![e] = "granted", ![r] = "open"]
  /\ UNCHANGED <<n, ofs, progs, queues, nmoved, byirq, irq, link, memory>>

\* The doorbell, of a sender that may send or of a receiver.
Ring(e) ==
  /\ \/ st[e] = "granted"
     \/ st[e] = "ready" /\ Current(e).do = "RECV"
  /\ BigLockFree(e[1])
  /\ st' = [st EXCEPT ![e] = "run"]
  /\ UNCHANGED <<n, ofs, progs, queues, nmoved, byirq, irq, link, memory>>

\* The end of a run: an interrupt, and ops->lock if the handler had it.
EndRun(e) ==
  /\ st' = [st EXCEPT ![e] = "none"]
  /\ nmoved' = [nmoved EXCEPT ![e] = @ + 1]
  /\ byirq' = [byirq EXCEPT ![e] = FALSE]
  /\ irq' = [irq EXCEPT ![e] = TRUE]

\* What DMA reads from the buffer of operation o.  The frame of psipe_send_args
\* is there as long as the call.
Message(e, o) ==
  [buf  |-> o.buf,
   args |-> IF o.buf = "args" /\ inside[e[1]] THEN Args(e[2]) ELSE Junk,
   C    |-> IF o.buf # "C" THEN <<>>
            ELSE IF e[1] # Master THEN chip[e[2]].C
            ELSE [k \in 1 .. o.len |-> C[o.ofs + k - 1]]]

\* The run of a sender; with nothing to send psipe_proxy_tx_page fails at once
\* and the receiver gets nothing.
Tx(e) ==
  LET o == Current(e) IN
  /\ st[e] = "run" /\ o.do = "SEND"
  /\ link' = IF o.len = 0 THEN link
             ELSE [link EXCEPT ![e[2]] = Append(@, Message(e, o))]
  /\ EndRun(e)
  /\ UNCHANGED <<n, ofs, progs, queues, memory>>

\* The run of a receiver writes what it gets to the buffer of its operation.
Rx(e) ==
  LET o == Current(e) d == e[2] IN
  /\ st[e] = "open" /\ link[d] # <<>>
  /\ LET m == Head(link[d]) IN
     IF e[1] = Master
       THEN /\ C' = [g \in DOMAIN C |->
                       IF g - o.ofs + 1 \in DOMAIN m.C THEN m.C[g - o.ofs + 1]
                       ELSE C[g]]
            /\ UNCHANGED chip
       ELSE /\ chip' =
                 CASE o.buf = "args" -> [chip EXCEPT ![d].frame =
                                           IF inside[d] THEN m.args ELSE @]
                   [] o.buf = "A" -> [chip EXCEPT ![d].A = m.buf]
                   [] o.buf = "B" -> [chip EXCEPT ![d].B = m.buf]
                   [] o.buf = "C" -> [chip EXCEPT ![d].C = m.C]
            /\ UNCHANGED C
  /\ link' = [link EXCEPT ![d] = Tail(@)]
  /\ EndRun(e)
  /\ UNCHANGED <<n, ofs, progs, queues>>

\* psipe_irq_handler and psipe_ops_next.
Handle(e) ==
  /\ irq[e] /\ LockFree(e) /\ BigLockFree(e[1])
  /\ irq' = [irq EXCEPT ![e] = FALSE]
  /\ nretired' = [nretired EXCEPT ![e] = IF Active(e) THEN @ + 1 ELSE @]
  /\ IF StartsNext(e)
       THEN st' = [st EXCEPT ![e] = "ready"] /\ byirq' = [byirq EXCEPT ![e] = TRUE]
       ELSE UNCHANGED <<st, byirq>>
  /\ UNCHANGED <<n, ofs, progs, ops, self, nmoved, link, memory>>

-----------------------------------------------------------------------------

ProgStep(p) ==
  \/ Submit(p) \/ Refused(p) \/ Return(p) \/ Wait(p) \/ Flush(p)
  \/ p # Master /\ Compute(p)

DevStep(e) == Ask(e) \/ Grant(e) \/ Ring(e) \/ Tx(e) \/ Rx(e) \/ Handle(e)

Next == (\E p \in Progs : ProgStep(p)) \/ (\E e \in Ends : DevStep(e))

\* Programs that can run do, and so do devices and interrupt handlers.
Spec ==
  /\ Init /\ [][Next]_vars
  /\ \A p \in Progs : WF_vars(ProgStep(p))
  /\ \A e \in Ends : WF_vars(DevStep(e))

-----------------------------------------------------------------------------
(* Properties.                                                              *)

\* Every variable has a value of its kind; a device runs an operation only from
\* among those it was given.
TypeOK ==
  /\ n \in Sizes /\ ofs \in 0 .. n /\ DOMAIN C = 0 .. n - 1
  /\ \A p \in Progs : pc[p] \in 0 .. Len(Text[p]) + 1 /\ inside[p] \in BOOLEAN
  /\ \A e \in Ends :
       /\ nretired[e] \in 0 .. Len(ops[e]) /\ nmoved[e] \in 0 .. Len(ops[e])
       /\ st[e] \in {"none", "ready", "ask", "granted", "run", "open"}
       /\ byirq[e] \in BOOLEAN /\ irq[e] \in BOOLEAN /\ self[e] \in BOOLEAN
  /\ \A d \in Devs : \A i \in DOMAIN link[d] : link[d][i].buf \in {"args", "A", "B", "C"}

\* matmul_gold: element g is its first value with its own product added, once.
Gold(g) == <<g, g>>

\* As soon as a device of the master has run its RECV, every element it has put
\* into C is the one matmul_gold computes.  When matmul returns that is so of every
\* element, whatever the number of devices and the order in which they and the
\* chiplets ran.
ProductRight ==
  LET right(g) == C[g] = Gold(g) IN
  /\ \A d \in Devs : \A i \in 1 .. nmoved[<<Master, d>>] :
       LET o == ops[<<Master, d>>][i] IN
       o.do = "RECV" => \A k \in 0 .. o.len - 1 : right(o.ofs + k)
  /\ Ended(Master) => \A g \in 0 .. n - 1 : right(g)

\* The two programs name the same buffer and the same length in operations that
\* meet, one to send and one to receive.
ProgramsAgree ==
  \A d \in Devs : LET m == ops[<<Master, d>>] c == ops[<<d, d>>] IN
    \A i \in DOMAIN m \cap DOMAIN c :
      /\ {m[i].do, c[i].do} = {"SEND", "RECV"}
      /\ m[i].buf = c[i].buf /\ m[i].len = c[i].len

\* A program flushes a queue only when it is empty and the device is idle: one
\* wait for the last operation is enough.
FlushesDrained ==
  \A p \in Progs : At(p, {"FLUSH"}) => ~Active(EndOf(p)) /\ st[EndOf(p)] = "none"

\* No operation that has yet to run refers to the stack frame of a call of
\* psipe_send_args or psipe_recv_args that has returned.
FramesAlive ==
  \A e \in Ends : \A i \in DOMAIN ops[e] :
    i > nmoved[e] /\ ops[e][i].buf = "args" => inside[e[1]]

\* With an element for each device, all programs end - unless one gives up on the
\* retval of an operation it started itself.
Finishes ==
  <>(\/ \A p \in Progs : Ended(p)
     \/ \E p \in Progs : pc[p] = Dead
     \/ n < NumDevs)

=============================================================================
