------------------------------ MODULE PsipeLink ------------------------------
(***************************************************************************)
(* Two Proto-SIPE devices joined by a TCP connection: the connection test  *)
(* at start-up, the length handshake that precedes a transfer, and the     *)
(* page loops of the two ends.  Each end is a sequential process, because  *)
(* its guest has one operation at a time in the device (OneRunAtATime in   *)
(* PsipeQueue) and the emulator holds its big lock from the doorbell to    *)
(* the interrupt.                                                          *)
(*                                                                         *)
(* A stream is the sequence of what one send() each wrote into it.  A read *)
(* takes one of these, which the sizes make true while both ends are in    *)
(* step; an end that finds something else than its code expects has gone   *)
(* "astray", and the model does not follow it further.  Under              *)
(* ShortReadSpec a recv() of a page may return only a part of it.          *)
(***************************************************************************)
EXTENDS Integers, Sequences, FiniteSets

CONSTANTS
  Server, Client,   \* the devices with server_mode on and off
  P,                \* page size: the DMA engine cuts a message into pages
  Scripts,          \* the operations each end submits: [Sides -> Seq(Op)]
  Exits             \* the ends whose emulator may exit

Sides == {Server, Client}
Other(s) == IF s = Server THEN Client ELSE Server

Op == [mode : {"SEND", "RECV"}, len : Nat \ {0}]

ASSUME SidesAssumption   == Server # Client
ASSUME PageAssumption    == P \in Nat \ {0}
ASSUME ScriptsAssumption == Scripts \subseteq [Sides -> Seq(Op)]
ASSUME ExitsAssumption   == Exits \subseteq Sides

VARIABLES
  script,       \* the operations of each end, fixed at the start
  pc, want,     \* where an end is, and the request it awaits
  wire,         \* wire[s]: what s has sent and its peer has not read
  mode,         \* dma.mode
  avail,        \* dma.config.len_avail
  left,         \* dma.current.len_left
  plen,         \* the length word psipe_proxy_rx_page has read
  got,          \* the pieces the current receive has stored
  done          \* the operations whose interrupt was raised

vars == <<script, pc, want, wire, mode, avail, left, plen, got, done>>

Pcs == {"boot", "accept", "unconnected", "idle", "await", "avail", "check",
        "tx", "txdata", "rx", "rxdata", "stuck", "astray", "exited"}
Codes == {"ACK", "SLN", "RLN"}

\* What a send() writes: a request, len_avail, a page length or a page.
Req(r)   == [kind |-> "req",   code |-> r,      val |-> 0, op |-> 0, nth |-> 0]
Avail(n) == [kind |-> "avail", code |-> "none", val |-> n, op |-> 0, nth |-> 0]
PLen(n)  == [kind |-> "plen",  code |-> "none", val |-> n, op |-> 0, nth |-> 0]
Page(k, i, n) ==
            [kind |-> "page",  code |-> "none", val |-> n, op |-> k, nth |-> i]

Items == [kind : {"req", "avail", "plen", "page"}, code : Codes \cup {"none"},
          val : Nat, op : Nat, nth : Nat]

TypeOK ==
  /\ script \in Scripts
  /\ pc \in [Sides -> Pcs] /\ want \in [Sides -> Codes]
  /\ wire \in [Sides -> Seq(Items)]
  /\ mode \in [Sides -> {"ACTIVE", "PASSIVE"}]
  /\ avail \in [Sides -> Nat] /\ left \in [Sides -> Nat] /\ plen \in [Sides -> Nat]
  /\ got \in [Sides -> Seq(Items)]
  /\ done \in [Sides -> Seq([result : {"ok", "failed"}, got : Seq(Items)])]

Init ==
  /\ script \in Scripts
  /\ pc = [s \in Sides |-> "boot"] /\ want = [s \in Sides |-> "ACK"]
  /\ wire = [s \in Sides |-> <<>>]
  /\ mode = [s \in Sides |-> "ACTIVE"]
  /\ avail = [s \in Sides |-> 0] /\ left = [s \in Sides |-> 0]
  /\ plen = [s \in Sides |-> 0] /\ got = [s \in Sides |-> <<>>]
  /\ done = [s \in Sides |-> <<>>]

Goto(s, label) == pc' = [pc EXCEPT ![s] = label]

\* psipe_proxy_await_req, its first step
Await(s, r) == Goto(s, "await") /\ want' = [want EXCEPT ![s] = r]

Incoming(s)      == wire[Other(s)]
Arrived(s, kind) == Incoming(s) # <<>> /\ Head(Incoming(s)).kind = kind
Eof(s)           == Incoming(s) = <<>> /\ pc[Other(s)] = "exited"

Transmit(s, items) == wire' = [wire EXCEPT ![s] = @ \o items]
Consume(s)         == wire' = [wire EXCEPT ![Other(s)] = Tail(@)]
Reply(s, items)    ==
  wire' = [wire EXCEPT ![Other(s)] = Tail(@), ![s] = @ \o items]

\* The operation an end works on, or is about to submit.
Number(s)  == Len(done[s]) + 1
Current(s) == script[s][Number(s)]
Ready(s)   == pc[s] = "idle" /\ Number(s) <= Len(script[s])

Least(a, b) == IF a <= b THEN a ELSE b

-----------------------------------------------------------------------------
(* Decisions.  A definition named ...Fault is the one after it with a       *)
(* plausible mistake; no specification uses it.                             *)

\* psipe_check_size_avail; the fault accepts every message.
FitsFault(s) == TRUE
Fits(s) == Current(s).len <= avail[s]

\* psipe_mmio_read of LEN_AVAIL asks the peer and waits for the answer; the
\* fault returns the length of this end's own operation.
AskRoomFault(s) ==
  /\ Goto(s, "check") /\ avail' = [avail EXCEPT ![s] = Current(s).len]
  /\ UNCHANGED <<want, wire>>
AskRoom(s) ==
  /\ Await(s, "RLN") /\ Transmit(s, <<Req("SLN")>>)
  /\ UNCHANGED avail

\* psipe_proxy_handle_req answers SLN; one fault sends the length first, the
\* other the request alone.
AnswerFault(s)  == <<Avail(avail[s]), Req("RLN")>>
AnswerFault2(s) == <<Req("RLN")>>
Answer(s) == <<Req("RLN"), Avail(avail[s])>>

\* len_left -= n; the fault is off by one.
LeftAfterFault(s, n) == left[s] - n - 1
LeftAfter(s, n) == left[s] - n

\* The end of a run: the interrupt is raised, whether it finished or failed.
Complete(s, result) ==
  /\ done' = [done EXCEPT ![s] = Append(@, [result |-> result, got |-> got'[s]])]
  /\ Goto(s, "idle")

\* psipe_proxy_rx_page takes a length that was not read for a failure; the
\* fault goes on with the loop.
NoLengthFault(s) == Goto(s, "rx") /\ UNCHANGED done
NoLength(s) == Complete(s, "failed")

-----------------------------------------------------------------------------
(* psipe_proxy_init_server and psipe_proxy_init_client.                     *)

Listen ==
  /\ pc[Server] = "boot"
  /\ Goto(Server, "accept")
  /\ UNCHANGED <<script, want, wire, mode, avail, left, plen, got, done>>

Connect ==
  /\ pc[Client] = "boot" /\ pc[Server] # "boot"
  /\ Await(Client, "ACK")
  /\ UNCHANGED <<script, wire, mode, avail, left, plen, got, done>>

\* connect() fails and is not tried again: the device has no peer.
ConnectRefused ==
  /\ pc[Client] = "boot" /\ pc[Server] = "boot"
  /\ Goto(Client, "unconnected")
  /\ UNCHANGED <<script, want, wire, mode, avail, left, plen, got, done>>

Accept ==
  /\ pc[Server] = "accept" /\ pc[Client] \notin {"boot", "unconnected"}
  /\ Await(Server, "ACK") /\ Transmit(Server, <<Req("ACK")>>)
  /\ UNCHANGED <<script, mode, avail, left, plen, got, done>>

-----------------------------------------------------------------------------
(* The guest starts its next operation.                                     *)

\* psipe_ioctl_send: MOD, then the read of LEN_AVAIL
BeginSend(s) ==
  /\ Ready(s) /\ Current(s).mode = "SEND"
  /\ mode' = [mode EXCEPT ![s] = "ACTIVE"]
  /\ AskRoom(s)
  /\ UNCHANGED <<script, left, plen, got, done>>

\* The read has returned: -EMSGSIZE, which leaves the operation at the head
\* of the guest's queue for ever, or the doorbell and psipe_transfer_pages.
CheckRoom(s) ==
  /\ pc[s] = "check"
  /\ IF Fits(s) THEN Goto(s, "tx") /\ left' = [left EXCEPT ![s] = Current(s).len]
                ELSE Goto(s, "stuck") /\ UNCHANGED left
  /\ UNCHANGED <<script, want, wire, mode, avail, plen, got, done>>

\* psipe_ioctl_recv: MOD, LEN_AVAIL, the doorbell; psipe_execute awaits SLN
BeginRecv(s) ==
  /\ Ready(s) /\ Current(s).mode = "RECV"
  /\ mode' = [mode EXCEPT ![s] = "PASSIVE"]
  /\ avail' = [avail EXCEPT ![s] = Current(s).len]
  /\ Await(s, "SLN")
  /\ UNCHANGED <<script, wire, left, plen, got, done>>

-----------------------------------------------------------------------------
(* psipe_proxy_await_req and psipe_proxy_handle_req.                        *)

Requested(s, r) ==
  pc[s] = "await" /\ Arrived(s, "req") /\ Head(Incoming(s)).code = r

\* The loop of psipe_proxy_await_req drops every other request.
Discard(s) ==
  /\ \E r \in Codes \ {want[s]} : Requested(s, r)
  /\ Consume(s)
  /\ UNCHANGED <<script, pc, want, mode, avail, left, plen, got, done>>

\* The client answers; for both the device is then realized.
GetAck(s) ==
  /\ Requested(s, "ACK") /\ want[s] = "ACK"
  /\ Reply(s, IF s = Client THEN <<Req("ACK")>> ELSE <<>>)
  /\ Goto(s, "idle")
  /\ UNCHANGED <<script, want, mode, avail, left, plen, got, done>>

\* The receiver answers with its length and enters psipe_receive_pages.
GetSln(s) ==
  /\ Requested(s, "SLN") /\ want[s] = "SLN"
  /\ Reply(s, Answer(s))
  /\ Goto(s, "rx")
  /\ left' = [left EXCEPT ![s] = Current(s).len]
  /\ got' = [got EXCEPT ![s] = <<>>]
  /\ UNCHANGED <<script, want, mode, avail, plen, done>>

GetRln(s) ==
  /\ Requested(s, "RLN") /\ want[s] = "RLN"
  /\ Consume(s)
  /\ Goto(s, "avail")
  /\ UNCHANGED <<script, want, mode, avail, left, plen, got, done>>

\* The recv() that follows; at the end of the stream it stores nothing.
GetAvail(s) ==
  /\ pc[s] = "avail"
  /\ \/ /\ Arrived(s, "avail")
        /\ avail' = [avail EXCEPT ![s] = Head(Incoming(s)).val]
        /\ Consume(s)
     \/ Eof(s) /\ UNCHANGED <<avail, wire>>
  /\ Goto(s, "check")
  /\ UNCHANGED <<script, want, mode, left, plen, got, done>>

-----------------------------------------------------------------------------
(* The page loops of psipe_transfer_pages and psipe_receive_pages.          *)

Piece(s) == Least(P, left[s])

\* After a piece of n bytes: psipe_dma_is_finished, or the next iteration.
Proceed(s, n, label) ==
  /\ left' = [left EXCEPT ![s] = LeftAfter(s, n)]
  /\ IF LeftAfter(s, n) = 0 THEN Complete(s, "ok")
                            ELSE Goto(s, label) /\ UNCHANGED done

\* psipe_proxy_tx_page: the length, then the page
TxLen(s) ==
  /\ pc[s] = "tx"
  /\ Transmit(s, <<PLen(Piece(s))>>)
  /\ Goto(s, "txdata")
  /\ UNCHANGED <<script, want, mode, avail, left, plen, got, done>>

TxPage(s) ==
  /\ pc[s] = "txdata"
  /\ LET nth == (Current(s).len - left[s]) \div P + 1
     IN  Transmit(s, <<Page(Number(s), nth, Piece(s))>>)
  /\ UNCHANGED got
  /\ Proceed(s, Piece(s), "tx")
  /\ UNCHANGED <<script, want, mode, avail, plen>>

\* send() reports that the peer is gone.
TxFail(s) ==
  /\ pc[s] \in {"tx", "txdata"} /\ pc[Other(s)] = "exited"
  /\ UNCHANGED got
  /\ Complete(s, "failed")
  /\ UNCHANGED <<script, want, wire, mode, avail, left, plen>>

\* psipe_proxy_rx_page: the length, then the page
RxLen(s) ==
  /\ pc[s] = "rx" /\ Arrived(s, "plen")
  /\ plen' = [plen EXCEPT ![s] = Head(Incoming(s)).val]
  /\ Consume(s)
  /\ Goto(s, "rxdata")
  /\ UNCHANGED <<script, want, mode, avail, left, got, done>>

RxPage(s) ==
  /\ pc[s] = "rxdata" /\ Arrived(s, "page")
  /\ got' = [got EXCEPT ![s] = Append(@, Head(Incoming(s)))]
  /\ Consume(s)
  /\ Proceed(s, plen[s], "rx")
  /\ UNCHANGED <<script, want, mode, avail, plen>>

\* No length at the end of the stream: the loop is left.
RxEofLen(s) ==
  /\ pc[s] = "rx" /\ Eof(s)
  /\ UNCHANGED got
  /\ NoLength(s)
  /\ UNCHANGED <<script, want, wire, mode, avail, left, plen>>

\* No page at the end of the stream: recv() returns 0, which is no failure,
\* and what the DMA buffer held is written to the guest.
RxEofPage(s) ==
  /\ pc[s] = "rxdata" /\ Eof(s)
  /\ got' = [got EXCEPT ![s] = Append(@, Page(0, 0, plen[s]))]
  /\ Proceed(s, plen[s], "rx")
  /\ UNCHANGED <<script, want, wire, mode, avail, plen>>

\* Once the connection is reset, recv() fails, and the loop is left.
RxReset(s) ==
  /\ pc[s] = "rxdata" /\ Eof(s)
  /\ UNCHANGED got
  /\ Complete(s, "failed")
  /\ UNCHANGED <<script, want, wire, mode, avail, left, plen>>

-----------------------------------------------------------------------------

Expected(label) ==
  CASE label = "await" -> "req" [] label = "avail" -> "avail"
    [] label = "rx" -> "plen"   [] label = "rxdata" -> "page"

\* The end reads something else than what its code takes it for.
GoAstray(s) ==
  /\ pc[s] \in {"await", "avail", "rx", "rxdata"}
  /\ Incoming(s) # <<>> /\ ~Arrived(s, Expected(pc[s]))
  /\ Goto(s, "astray")
  /\ UNCHANGED <<script, want, wire, mode, avail, left, plen, got, done>>

\* psipe_proxy_fini, or the death of the emulator; what the peer has not yet
\* read is still delivered, or dropped with a reset of the connection.
Exit(s) ==
  /\ s \in Exits /\ pc[s] \notin {"boot", "accept", "unconnected", "exited"}
  /\ Goto(s, "exited")
  /\ wire' = wire \/ wire' = [wire EXCEPT ![s] = <<>>]
  /\ UNCHANGED <<script, want, mode, avail, left, plen, got, done>>

Step(s) ==
  \/ BeginSend(s) \/ CheckRoom(s) \/ BeginRecv(s)
  \/ Discard(s) \/ GetAck(s) \/ GetSln(s) \/ GetRln(s) \/ GetAvail(s)
  \/ TxLen(s) \/ TxPage(s) \/ TxFail(s)
  \/ RxLen(s) \/ RxPage(s) \/ RxEofLen(s) \/ RxEofPage(s)
  \/ RxReset(s) \/ GoAstray(s)

StartUp == Listen \/ Connect \/ ConnectRefused \/ Accept

Next == StartUp \/ \E s \in Sides : Step(s) \/ Exit(s)

Spec == Init /\ [][Next]_vars

\* Both emulators run, and each guest submits the operations of its script.
\* Nobody has to exit.
FairSpec == Spec /\ WF_vars(StartUp) /\ \A s \in Sides : WF_vars(Step(s))

\* recv() returns n bytes; the loop counts plen of them and reads on.
RxPart(s) ==
  /\ pc[s] = "rxdata" /\ Arrived(s, "page")
  /\ \E n \in 1 .. Head(Incoming(s)).val - 1 :
       /\ got' = [got EXCEPT ![s] = Append(@, [Head(Incoming(s)) EXCEPT !.val = n])]
       /\ wire' = [wire EXCEPT ![Other(s)][1].val = @ - n]
  /\ Proceed(s, plen[s], "rx")
  /\ UNCHANGED <<script, want, mode, avail, plen>>

ShortReadSpec == Init /\ [][Next \/ \E s \in Sides : RxPart(s)]_vars

-----------------------------------------------------------------------------
(***************************************************************************)
(* Properties                                                              *)
(***************************************************************************)

Gone == \E s \in Sides : pc[s] = "exited"

\* The programs agree: what one sends the other receives, in the same order
\* and with the same lengths.
Matched ==
  /\ Len(script[Server]) = Len(script[Client])
  /\ \A k \in DOMAIN script[Server] :
       /\ script[Server][k].mode # script[Client][k].mode
       /\ script[Server][k].len = script[Client][k].len

\* The pages of operation k, of len bytes, as the DMA engine cuts them.
PagesOf(k, len) ==
  [i \in 1 .. (len + P - 1) \div P |-> Page(k, i, Least(P, len - (i - 1) * P))]

\* A receive that completes has stored the pages of exactly one message, the
\* one the peer sent with the operation of the same number, in order -
\* whatever the lengths and directions the two programs chose.
ReceivedIsSent ==
  ~Gone => \A s \in Sides : \A k \in DOMAIN done[s] :
    script[s][k].mode = "RECV" =>
      /\ done[s][k].result = "ok"
      /\ k <= Len(script[Other(s)]) /\ script[Other(s)][k].mode = "SEND"
      /\ done[s][k].got = PagesOf(k, script[Other(s)][k].len)

\* The bytes of the pages s has sent and its peer has not read, each as the
\* place of its page in the stream and its own place in the page.
BytesInFlight(s) ==
  UNION {{m} \X (1 .. wire[s][m].val) :
           m \in {i \in DOMAIN wire[s] : wire[s][i].kind = "page"}}

InFlight(s) == Cardinality(BytesInFlight(s))

\* The length handshake works as a credit: a device sends pages only to a
\* peer that is in its receive loop with room for all of them, although the
\* length was answered before that loop was entered.
SenderHasRoom ==
  ~Gone => \A s \in Sides : pc[s] \in {"tx", "txdata"} =>
    /\ pc[Other(s)] \in {"rx", "rxdata"}
    /\ left[s] + InFlight(s) <= left[Other(s)]

\* No end gets more than one operation ahead: the handshake keeps a sender
\* from filling the stream with messages nobody has asked for.
Lockstep ==
  ~Gone => \A s \in Sides : Len(done[s]) <= Len(done[Other(s)]) + 1

\* With programs that agree, each end always reads what the other wrote for
\* it, and no send is refused.
StreamsInStep ==
  Matched /\ ~Gone => \A s \in Sides : pc[s] \notin {"astray", "stuck"}

\* With programs that agree, every transfer ends, in any interleaving of the
\* two machines.
AllTransfersEnd ==
  Matched ~> (\/ \A s \in Sides : Len(done[s]) = Len(script[s])
              \/ Gone \/ pc[Client] = "unconnected")

\* A run that has begun ends when the peer exits: it does not keep the
\* emulator's big lock for ever (psipe_proxy_rx_page, psipe_proxy_tx_page).
ExitEndsRuns ==
  \A s \in Sides :
    pc[s] \in {"tx", "txdata", "rx", "rxdata"} /\ pc[Other(s)] = "exited"
      ~> pc[s] \notin {"tx", "txdata", "rx", "rxdata"}

=============================================================================
