------------------------------ MODULE PsipeDma ------------------------------
(***************************************************************************)
(* The DMA engine of the device: how one run walks the scattered pages of  *)
(* a user buffer, a page-sized piece at a time, from the handles that the  *)
(* kernel module wrote.  A piece of a buffer that does not start on a page *)
(* boundary lies on two pages.                                             *)
(*                                                                         *)
(* A bus address is a frame and an offset in it; adding to it may run into *)
(* the next physical frame, which is not the buffer's next page.  The      *)
(* bytes themselves are left out: accesses records which byte of the       *)
(* message was moved at which address.                                     *)
(***************************************************************************)
EXTENDS Integers

CONSTANTS
  P,            \* page size, of the target and of the guest kernel
  MaxPages,     \* PSIPE_HW_BAR0_DMA_HANDLES_CNT
  Frames,       \* physical frames that can back a user page
  Offsets,      \* offsets at which user buffers start in their first page
  Lens,         \* lengths of user buffers
  MaxRuns       \* bound: operations programmed

ASSUME PAssumption       == P \in Nat \ {0}
ASSUME PagesAssumption   == MaxPages \in Nat \ {0}
ASSUME FramesAssumption  == Frames \subseteq Nat \ {0}
ASSUME OffsetsAssumption == Offsets \subseteq 0 .. P - 1
ASSUME LensAssumption    == Lens \subseteq Nat \ {0}
ASSUME RunsAssumption    == MaxRuns \in Nat

VARIABLES
  buffer,       \* the user buffer of the op: offset, length, frame of each page
  mode,         \* dma.mode
  npages, len,  \* dma.config
  handles,      \* dma.config.handles, and what lies behind its last entry
  status,       \* dma.status
  len_left, addr, hnd_pos,   \* dma.current
  accesses,     \* history: the DMA accesses of this run
  outcome,      \* how the last run ended, or that the op has not been run
  runs          \* operations programmed so far

configVars  == <<buffer, mode, npages, len, handles>>
currentVars == <<len_left, addr, hnd_pos>>
vars == <<configVars, currentVars, status, accesses, outcome, runs>>

Address == [frame : Nat, ofs : 0 .. P - 1]
Null    == [frame |-> 0, ofs |-> 0]      \* a handle that was never written

\* addr + n, for n that reaches the start of the next frame at most
Plus(a, n) ==
  IF a.ofs + n < P THEN [a EXCEPT !.ofs = @ + n]
                   ELSE [frame |-> a.frame + 1, ofs |-> a.ofs + n - P]

Least(a, b) == IF a <= b THEN a ELSE b

\* psipe_dma_pin_pages: last_page - first_page + 1
IsPageCount(n, ofs, l) == (n - 1) * P < ofs + l /\ ofs + l <= n * P

Buffers == [ofs : 0 .. P - 1, len : Nat, frames : [0 .. MaxPages - 1 -> Nat]]

TypeOK ==
  /\ buffer \in Buffers
  /\ mode \in {"ACTIVE", "PASSIVE"}
  /\ npages \in 0 .. MaxPages /\ len \in Nat
  /\ handles \in [0 .. MaxPages -> Address]
  /\ status \in {"IDLE", "EXECUTING"}
  /\ len_left \in Nat /\ addr \in Address /\ hnd_pos \in 0 .. MaxPages
  /\ accesses \subseteq [byte : Nat, at : Address, n : Nat]
  /\ outcome \in {"none", "ok", "failed"}
  /\ runs \in 0 .. MaxRuns

Init ==
  /\ buffer = [ofs |-> 0, len |-> 0, frames |-> [k \in 0 .. MaxPages - 1 |-> 0]]
  /\ mode = "ACTIVE" /\ npages = 0 /\ len = 0
  /\ handles = [k \in 0 .. MaxPages |-> Null]
  /\ status = "IDLE"
  /\ len_left = 0 /\ addr = Null /\ hnd_pos = 0
  /\ accesses = {} /\ outcome = "ok" /\ runs = 0

-----------------------------------------------------------------------------
(* A definition named ...Fault is the one after it with a plausible         *)
(* mistake; no specification uses it.                                       *)

\* psipe_dma_write_maps: one handle for each page, the first with the offset
\* of the buffer; the fault writes page-aligned handles only.
WriteHandlesFault(ofs, n, f) ==
  [k \in 0 .. MaxPages |-> IF k < n THEN [frame |-> f[k], ofs |-> 0] ELSE handles[k]]
WriteHandles(ofs, n, f) ==
  [k \in 0 .. MaxPages |->
     IF k < n THEN [frame |-> f[k], ofs |-> IF k = 0 THEN ofs ELSE 0]
              ELSE handles[k]]

\* psipe_ioctl_send, psipe_ioctl_recv: MOD, LEN, PGS and the handles.  A
\* buffer on more pages than there are handles was refused with -EMSGSIZE.
Program(m, ofs, l, f) ==
  /\ outcome # "none" /\ status = "IDLE" /\ runs < MaxRuns
  /\ \E n \in 1 .. MaxPages :
       /\ IsPageCount(n, ofs, l)
       /\ npages' = n
       /\ handles' = WriteHandles(ofs, n, f)
  /\ buffer' = [ofs |-> ofs, len |-> l, frames |-> f]
  /\ mode' = m /\ len' = l
  /\ outcome' = "none" /\ runs' = runs + 1
  /\ UNCHANGED <<currentVars, status, accesses>>

\* The doorbell: psipe_execute, psipe_dma_begin_run
BeginRun ==
  /\ outcome = "none" /\ status = "IDLE"
  /\ status' = "EXECUTING"
  /\ len_left' = len /\ addr' = handles[0] /\ hnd_pos' = 0
  /\ accesses' = {}
  /\ UNCHANGED <<configVars, outcome, runs>>

\* psipe_dma_next_addr; the fault stays on the same page.
NextPosFault == hnd_pos
NextPos == hnd_pos + 1

\* Bytes of the message moved so far.
Done == len - len_left

\* len_have; the fault is off by one.
LenHaveFault == P - addr.ofs - 1
LenHave == P - addr.ofs

\* len_left after a piece of want bytes; one fault forgets that the piece was
\* on two pages, the other takes every piece for a whole page.
LenLeftFault(want)  == len_left - Least(want, LenHave)
LenLeftFault2(want) == len_left - P
LenLeft(want) == len_left - want

\* The body of psipe_dma_rx_page and psipe_dma_tx_page, for a piece of want
\* bytes, when every access and the page lookup succeed.
OnOnePage(want) ==
  /\ want <= LenHave
  /\ accesses' = accesses \cup {[byte |-> Done, at |-> addr, n |-> want]}
  /\ addr' = Plus(addr, want)
  /\ UNCHANGED hnd_pos

OnTwoPages(want) ==
  /\ want > LenHave
  /\ hnd_pos < npages                  \* else next_addr returns 0
  /\ hnd_pos' = NextPos
  /\ LET next == handles[NextPos] IN
     /\ next # Null
     /\ accesses' = accesses \cup
          {[byte |-> Done, at |-> addr, n |-> LenHave],
           [byte |-> Done + LenHave, at |-> next, n |-> want - LenHave]}
     /\ addr' = Plus(next, want - LenHave)

Walk(want) ==
  /\ OnOnePage(want) \/ OnTwoPages(want)
  /\ len_left' = LenLeft(want)

\* Executing, and the loop has an iteration to go: it is left as soon as
\* psipe_dma_is_finished.
InLoop == status = "EXECUTING" /\ len_left > 0

\* One iteration of psipe_transfer_pages.
RxPage ==
  /\ InLoop /\ mode = "ACTIVE"
  /\ Walk(Least(P, len_left))
  /\ UNCHANGED <<configVars, status, outcome, runs>>

\* One iteration of psipe_receive_pages.  The length of the piece comes from
\* the peer, which cuts a message of this length as psipe_dma_rx_page does.
TxPage ==
  /\ InLoop /\ mode = "PASSIVE"
  /\ Walk(Least(P, len_left))
  /\ UNCHANGED <<configVars, status, outcome, runs>>

\* psipe_dma_end_run; the interrupt is raised however the loop was left.
EndRun ==
  /\ status = "EXECUTING" /\ len_left = 0
  /\ status' = "IDLE" /\ outcome' = "ok"
  /\ UNCHANGED <<configVars, currentVars, accesses, runs>>

\* The page lookup failed, or the socket did.
FailRun ==
  /\ InLoop
  /\ status' = "IDLE" /\ outcome' = "failed"
  /\ UNCHANGED <<configVars, currentVars, accesses, runs>>

Next ==
  \/ \E m \in {"ACTIVE", "PASSIVE"}, ofs \in Offsets, l \in Lens,
        f \in [0 .. MaxPages - 1 -> Frames] : Program(m, ofs, l, f)
  \/ BeginRun \/ RxPage \/ TxPage \/ EndRun \/ FailRun

Spec == Init /\ [][Next]_vars

-----------------------------------------------------------------------------
(***************************************************************************)
(* Properties                                                              *)
(***************************************************************************)

\* Access a moves bytes of the buffer at the place where they are: on the
\* page that holds them, at their offset, without leaving it.
InPlace(a) ==
  /\ a.at.ofs + a.n <= P
  /\ \E k \in 0 .. npages - 1 :
       /\ a.at.frame = buffer.frames[k]
       /\ k * P + a.at.ofs = buffer.ofs + a.byte
       /\ k * P + a.at.ofs + a.n <= buffer.ofs + buffer.len

\* The engine reads and writes the pages of the caller's buffer and no other
\* memory, each byte at its place (psipe_dma_rx_page, psipe_dma_tx_page).
AccessesInPlace ==
  status = "EXECUTING" => \A a \in accesses : InPlace(a)

\* psipe_dma_next_addr never looks past the handles of this operation, where
\* those of an earlier, longer one are still stored.
HandleInRange == status = "EXECUTING" => hnd_pos < npages

\* A run that ends well has moved each byte of the buffer exactly once.
EachByteOnce ==
  status = "EXECUTING" /\ len_left = 0 =>
    \A b \in 0 .. len - 1 :
      \E a \in accesses :
        /\ a.byte <= b /\ b < a.byte + a.n
        /\ \A c \in accesses : c.byte <= b /\ b < c.byte + c.n => c = a

\* The lookup of the next page succeeds whenever a piece needs it: a run
\* fails only because the socket does.
LookupSucceeds ==
  InLoop /\ Least(P, len_left) > LenHave =>
    hnd_pos + 1 < npages /\ handles[hnd_pos + 1] # Null

=============================================================================
