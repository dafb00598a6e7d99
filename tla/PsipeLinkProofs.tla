--------------------------- MODULE PsipeLinkProofs ---------------------------
(***************************************************************************)
(* The safety of the link for every page size, every pair of programs,     *)
(* whether they agree or not, and every length of their messages.          *)
(*                                                                         *)
(* The invariant says what is in the two streams.  While neither end has   *)
(* exited the pair is in one of a few phases: the connection is being set  *)
(* up, no transfer is under way, a receiver has answered a sender's        *)
(* request, a message is being sent, a message has been sent and is still  *)
(* being read, or the receiver has gone astray behind a short message.     *)
(* When an end has exited, what is left in its stream can still be read;   *)
(* the other end is shown to keep its types.                               *)
(***************************************************************************)
EXTENDS PsipeLink, FiniteSetTheorems, TLAPS

\* A message of len bytes is cut into Pages(len) pieces; piece i has
\* Size(len, i) bytes and Bytes(len, i) is the size of the first i.
Pages(len)    == (len + P - 1) \div P
Size(len, i)  == Least(P, len - (i - 1) * P)
Bytes(len, i) == Least(i * P, len)

\* Item q of the stream that carries the message of operation k: the length
\* of a piece, then the piece.
Item(k, len, q) ==
  IF q % 2 = 1 THEN PLen(Size(len, (q + 1) \div 2))
               ELSE Page(k, q \div 2, Size(len, q \div 2))

\* Items a + 1 to b of that stream.
Segment(k, len, a, b) == [m \in 1 .. b - a |-> Item(k, len, a + m)]

\* The message the peer of r sends with the operation r works on.
Message(r) == script[Other(r)][Number(r)].len

\* Items of it that r has read.
Read(r) == 2 * Len(got[r]) + (IF pc[r] = "rxdata" THEN 1 ELSE 0)

\* End s works on an operation of its script, of mode m.
Working(s, m) ==
  Number(s) <= Len(script[s]) /\ Current(s).mode = m

\* r is in the loop of psipe_receive_pages: it has stored the first pieces of
\* the message, and has room left for the rest.
Reader(r) ==
  LET s == Other(r) j == Len(got[r]) IN
  /\ pc[r] \in {"rx", "rxdata"} /\ Working(r, "RECV")
  /\ Number(r) <= Len(script[s]) /\ script[s][Number(r)].mode = "SEND"
  /\ Message(r) <= Current(r).len
  /\ got[r] = [i \in 1 .. j |-> Page(Number(r), i, Size(Message(r), i))]
  /\ left[r] = Current(r).len - Bytes(Message(r), j) /\ left[r] > 0
  /\ pc[r] = "rxdata" => plen[r] = Size(Message(r), j + 1)

\* Its peer has sent the first sent items of the message, and after them what
\* is in rest.
Receiving(r, sent, rest) ==
  /\ Reader(r) /\ Read(r) <= sent
  /\ wire[Other(r)] = Segment(Number(r), Message(r), Read(r), sent) \o rest

\* End s is between two transfers: idle, or it has begun the next operation.
Between(s) ==
  \/ pc[s] = "idle"
  \/ /\ pc[s] = "await" /\ want[s] = "SLN"
     /\ Working(s, "RECV") /\ avail[s] = Current(s).len
  \/ pc[s] = "await" /\ want[s] = "RLN" /\ Working(s, "SEND")

Asking(s) == pc[s] = "await" /\ want[s] = "RLN"

\* What an end that is between two transfers has written: its request, if it
\* has one and the peer, asking too, has not dropped it.
Asked(s, items) ==
  IF Asking(s) THEN items = <<Req("SLN")>> \/ (items = <<>> /\ Asking(Other(s)))
               ELSE items = <<>>

-----------------------------------------------------------------------------
(* The phases.                                                              *)

AwaitsAck(s) == pc[s] = "await" /\ want[s] = "ACK"

\* Up to the server's ACK.
Booting ==
  /\ done = [s \in Sides |-> <<>>]
  /\ wire[Client] = <<>>
  /\ \/ /\ pc[Server] = "boot" /\ pc[Client] \in {"boot", "unconnected"}
        /\ wire[Server] = <<>>
     \/ /\ pc[Server] = "accept"
        /\ pc[Client] \in {"boot", "unconnected"} \/ AwaitsAck(Client)
        /\ wire[Server] = <<>>
     \/ AwaitsAck(Server) /\ AwaitsAck(Client) /\ wire[Server] = <<Req("ACK")>>

\* Up to the client's.
LastAck ==
  /\ done = [s \in Sides |-> <<>>]
  /\ AwaitsAck(Server) /\ wire[Server] = <<>>
  /\ Between(Client)
  /\ wire[Client] = <<Req("ACK")>> \o (IF Asking(Client) THEN <<Req("SLN")>> ELSE <<>>)

\* No transfer is under way.
Free ==
  /\ Len(done[Server]) = Len(done[Client])
  /\ \A s \in Sides : Between(s) /\ Asked(s, wire[s])

\* The receiver has answered s, which has not begun to send.
Answered(s) ==
  LET r == Other(s) room == Current(r).len IN
  /\ Len(done[s]) = Len(done[r])
  /\ Working(s, "SEND") /\ Working(r, "RECV")
  /\ pc[r] = "rx" /\ got[r] = <<>> /\ left[r] = room
  /\ wire[s] = <<>>
  /\ \/ Asking(s) /\ wire[r] = <<Req("RLN"), Avail(room)>>
     \/ pc[s] = "avail" /\ wire[r] = <<Avail(room)>>
     \/ pc[s] = "check" /\ wire[r] = <<>> /\ avail[s] = room
     \/ pc[s] = "stuck" /\ wire[r] = <<>> /\ Current(s).len > room

\* s is in the loop of psipe_transfer_pages and has sent i pieces.
Sending(s, i) ==
  LET r == Other(s) len == Current(s).len IN
  /\ Len(done[s]) = Len(done[r])
  /\ Working(s, "SEND") /\ pc[s] \in {"tx", "txdata"}
  /\ i < Pages(len) /\ left[s] = len - Bytes(len, i)
  /\ Receiving(r, 2 * i + (IF pc[s] = "txdata" THEN 1 ELSE 0), <<>>)
  /\ wire[r] = <<>>

\* What s, done with a message, has written after it.
Ahead(s) == IF Asking(s) THEN <<Req("SLN")>> ELSE <<>>

\* s has sent its message, which the receiver still reads.
Sent(s) ==
  LET r == Other(s) IN
  /\ Len(done[s]) = Len(done[r]) + 1
  /\ Between(s)
  /\ Receiving(r, 2 * Pages(Message(r)), Ahead(s))
  /\ wire[r] = <<>>

\* The message was shorter than the receive, and the receiver has taken the
\* next request for the length of a page.
Astray(s) ==
  LET r == Other(s) IN
  /\ Len(done[s]) = Len(done[r]) + 1
  /\ Asking(s) /\ pc[r] = "astray" /\ wire[r] = <<>>
  /\ Number(r) <= Len(script[s]) /\ Number(r) <= Len(script[r])
  /\ Message(r) < Current(r).len

Phases ==
  \/ Booting \/ LastAck \/ Free
  \/ \E s \in Sides :
       \/ Answered(s) \/ Sent(s) \/ Astray(s)
       \/ \E i \in 0 .. Current(s).len : Working(s, "SEND") /\ Sending(s, i)

-----------------------------------------------------------------------------
(* When an end has exited.                                                  *)

NoLengths(items) == \A i \in DOMAIN items : items[i].kind # "plen"

\* Nothing that r may still read makes it count below 0.
Bounded(r) ==
  /\ pc[r] \in {"rx", "rxdata"} =>
       \/ \E n \in 0 .. 2 * Pages(Message(r)), ask \in BOOLEAN :
            /\ ask => n = 2 * Pages(Message(r))
            /\ Receiving(r, n, IF ask THEN <<Req("SLN")>> ELSE <<>>)
       \/ /\ NoLengths(wire[Other(r)]) /\ left[r] > 0
          /\ pc[r] = "rxdata" => plen[r] <= left[r]
  /\ pc[r] \notin {"rx", "rxdata", "exited", "astray"} => NoLengths(wire[Other(r)])

\* Every end that is still running is bounded.
AfterExit == \A r \in Sides : Bounded(r)

\* The device has an operation of the guest.
Busy(s) ==
  \/ pc[s] \in {"avail", "check", "tx", "txdata", "rx", "rxdata"}
  \/ pc[s] = "await" /\ want[s] # "ACK"

\* An end that is past "idle" works on an operation of its script.
LocalInv ==
  \A s \in Sides :
    /\ Busy(s) => Number(s) <= Len(script[s])
    /\ pc[s] \in {"tx", "txdata"} => left[s] \in 1 .. Current(s).len
    /\ pc[s] = "rxdata" => plen[s] <= left[s]

IInv ==
  /\ TypeOK /\ LocalInv
  /\ ReceivedIsSent
  /\ IF Gone THEN AfterExit ELSE Phases

-----------------------------------------------------------------------------
(* Pages and bytes.                                                         *)

\* A product is compared by its factors.
LEMMA ProductOrder ==
  ASSUME NEW a \in Nat, NEW b \in Nat, NEW p \in Nat
  PROVE  /\ a * p < b * p => a < b
         /\ a <= b => a * p <= b * p
         /\ a * p \in Nat /\ (a + 1) * p = a * p + p
  BY SMT

\* Division with remainder.
LEMMA Division ==
  ASSUME NEW x \in Nat, NEW p \in Nat \ {0}
  PROVE  /\ x \div p \in Nat
         /\ (x \div p) * p <= x /\ x < (x \div p) * p + p
  BY SMT

\* The pieces sent are counted by a division.
LEMMA DivProduct ==
  ASSUME NEW i \in Nat, NEW p \in Nat \ {0}
  PROVE  (i * p) \div p = i
  BY SMT

\* The number of pieces is the least that holds the message.
LEMMA PagesHold ==
  ASSUME NEW len \in Nat \ {0}, NEW i \in Nat
  PROVE  /\ Pages(len) \in Nat \ {0}
         /\ i < Pages(len) => i * P < len
         /\ Pages(len) <= i => len <= i * P
<1> USE PageAssumption
<1> DEFINE n == Pages(len)
<1>1. n \in Nat /\ n * P <= len + P - 1 /\ len + P - 1 < n * P + P
  <2>1. len + P - 1 \in Nat
    OBVIOUS
  <2> QED BY <2>1, Division DEF Pages
<1> HIDE DEF n
<1>2. n * P \in Nat /\ i * P \in Nat /\ (i + 1) * P = i * P + P
  BY <1>1, ProductOrder
<1>3. n # 0
  BY <1>1, <1>2, 0 * P = 0
<1>4. i < n => (i + 1) * P <= n * P
  BY <1>1, ProductOrder
<1>5. n <= i => n * P <= i * P
  BY <1>1, ProductOrder
<1> QED BY <1>1, <1>2, <1>3, <1>4, <1>5 DEF n

\* The pieces add up to the message.
LEMMA BytesOfPieces ==
  ASSUME NEW len \in Nat \ {0}, NEW i \in Nat
  PROVE  /\ Bytes(len, 0) = 0 /\ Bytes(len, i) \in 0 .. len
         /\ Pages(len) <= i => Bytes(len, i) = len
         /\ i < Pages(len) =>
              /\ Bytes(len, i) = i * P /\ Bytes(len, i) < len
              /\ Size(len, i + 1) = Least(P, len - Bytes(len, i))
              /\ Size(len, i + 1) \in 1 .. len - Bytes(len, i)
              /\ Bytes(len, i + 1) = Bytes(len, i) + Size(len, i + 1)
<1> USE PageAssumption
<1>1. i * P \in Nat /\ (i + 1) * P = i * P + P /\ 0 * P = 0
  BY ProductOrder
<1>2. Bytes(len, 0) = 0 /\ Bytes(len, i) \in 0 .. len
  BY <1>1 DEF Bytes, Least
<1>3. Pages(len) <= i => Bytes(len, i) = len
  BY <1>1, PagesHold DEF Bytes, Least
<1>4. ASSUME i < Pages(len)
      PROVE  /\ Bytes(len, i) = i * P /\ Bytes(len, i) < len
             /\ Size(len, i + 1) = Least(P, len - Bytes(len, i))
             /\ Size(len, i + 1) \in 1 .. len - Bytes(len, i)
             /\ Bytes(len, i + 1) = Bytes(len, i) + Size(len, i + 1)
  <2>1. i * P < len
    BY <1>4, PagesHold
  <2>2. Bytes(len, i) = i * P
    BY <1>1, <2>1 DEF Bytes, Least
  <2>3. Size(len, i + 1) = Least(P, len - i * P)
    BY DEF Size
  <2>4. Bytes(len, i + 1) = Least(i * P + P, len)
    BY <1>1 DEF Bytes
  <2> QED BY <1>1, <2>1, <2>2, <2>3, <2>4 DEF Least
<1> QED BY <1>2, <1>3, <1>4

\* The items of a message come in pairs.
LEMMA ItemPair ==
  ASSUME NEW k, NEW len, NEW i \in Nat
  PROVE  /\ Item(k, len, 2 * i + 1) = PLen(Size(len, i + 1))
         /\ Item(k, len, 2 * i + 2) = Page(k, i + 1, Size(len, i + 1))
<1>1. (2 * i + 1) % 2 = 1 /\ (2 * i + 1 + 1) \div 2 = i + 1
  OBVIOUS
<1>2. (2 * i + 2) % 2 = 0 /\ (2 * i + 2) \div 2 = i + 1
  OBVIOUS
<1> QED BY <1>1, <1>2 DEF Item

-----------------------------------------------------------------------------
(* Streams.                                                                 *)

\* What may follow a message in the stream.
Rests == {<<>>, <<Req("SLN")>>}

Stream(k, len) == {Item(k, len, q) : q \in Nat} \cup {Req("SLN")}

\* A segment is a sequence of items of the message.
LEMMA SegmentIsSeq ==
  ASSUME NEW k, NEW len, NEW a \in Nat, NEW b \in Nat, a <= b
  PROVE  /\ Segment(k, len, a, b) \in Seq(Stream(k, len))
         /\ Len(Segment(k, len, a, b)) = b - a
         /\ \A m \in 1 .. b - a : Segment(k, len, a, b)[m] = Item(k, len, a + m)
<1>1. \A q \in Nat : Item(k, len, q) \in Stream(k, len)
  BY DEF Stream
<1>2. Segment(k, len, a, b) \in [1 .. b - a -> Stream(k, len)]
  BY <1>1 DEF Segment
<1> QED BY <1>2 DEF Segment

\* And so is what follows it.
LEMMA RestIsSeq ==
  ASSUME NEW k, NEW len, NEW rest \in Rests
  PROVE  rest \in Seq(Stream(k, len))
<1> DEFINE e == Req("SLN")
<1>1. e \in Stream(k, len)
  BY DEF Stream
<1> HIDE DEF e
<1>2. <<e>> \in Seq(Stream(k, len)) /\ <<>> \in Seq(Stream(k, len))
  BY <1>1
<1> QED BY <1>2 DEF Rests, e

\* Facts about any sequences.
LEMMA ConcatHeadTail ==
  ASSUME NEW S, NEW x \in Seq(S), NEW y \in Seq(S), x # <<>>
  PROVE  x \o y # <<>> /\ Head(x \o y) = Head(x) /\ Tail(x \o y) = Tail(x) \o y
  OBVIOUS

\* Sequences with the same elements are the same.
LEMMA SameSeq ==
  ASSUME NEW S, NEW x \in Seq(S), NEW y \in Seq(S), Len(x) = Len(y),
         \A m \in 1 .. Len(x) : x[m] = y[m]
  PROVE  x = y
  OBVIOUS

\* Nothing is left of a segment that was read.
LEMMA SegmentEmpty ==
  ASSUME NEW k, NEW len, NEW a \in Nat, NEW rest \in Rests
  PROVE  Segment(k, len, a, a) \o rest = rest
<1>1. Segment(k, len, a, a) = <<>>
  BY DEF Segment
<1> QED BY <1>1 DEF Rests

\* The first element of w is e, and v is what follows.
Splits(w, e, v) == w # <<>> /\ Head(w) = e /\ Tail(w) = v

\* A sequence put together from its first element and the others.
LEMMA SplitsFirst ==
  ASSUME NEW S, NEW e \in S, NEW y \in Seq(S)
  PROVE  Splits(<<e>> \o y, e, y)
BY DEF Splits

\* The reader takes the first item.
LEMMA SegmentRead ==
  ASSUME NEW k, NEW len, NEW a \in Nat, NEW b \in Nat, a < b, NEW rest \in Rests
  PROVE  Splits(Segment(k, len, a, b) \o rest,
                Item(k, len, a + 1), Segment(k, len, a + 1, b) \o rest)
<1> DEFINE S == Stream(k, len)
           x == Segment(k, len, a, b)
           y == Segment(k, len, a + 1, b)
<1>0. a <= b /\ a + 1 \in Nat /\ a + 1 <= b
  OBVIOUS
<1>1. /\ x \in Seq(S) /\ Len(x) = b - a
      /\ \A m \in 1 .. b - a : x[m] = Item(k, len, a + m)
  BY <1>0, SegmentIsSeq, ZenonT(40)
<1>2. /\ y \in Seq(S) /\ Len(y) = b - (a + 1)
      /\ \A m \in 1 .. b - (a + 1) : y[m] = Item(k, len, a + 1 + m)
  BY <1>0, SegmentIsSeq, ZenonT(40)
<1>3. rest \in Seq(S)
  BY RestIsSeq
<1> HIDE DEF S, x, y
<1>4. x # <<>> /\ Head(x) = Item(k, len, a + 1)
  BY <1>1
<1>5. Tail(x) = y
  <2>1. /\ Tail(x) \in Seq(S) /\ Len(Tail(x)) = Len(y)
        /\ \A m \in 1 .. Len(y) : Tail(x)[m] = x[m + 1]
    BY <1>1, <1>2, <1>4
  <2>2. \A m \in 1 .. Len(y) : x[m + 1] = y[m]
    BY <1>1, <1>2
  <2> QED BY <1>2, <2>1, <2>2, SameSeq
<1>6. Head(x \o rest) = Head(x) /\ Tail(x \o rest) = Tail(x) \o rest /\ x \o rest # <<>>
  BY <1>1, <1>3, <1>4, ConcatHeadTail
<1> QED BY <1>4, <1>5, <1>6 DEF x, y, Splits

\* The writer adds the next item.
LEMMA SegmentWrite ==
  ASSUME NEW k, NEW len, NEW a \in Nat, NEW b \in Nat, a <= b
  PROVE  /\ (Segment(k, len, a, b) \o <<>>) \o <<Item(k, len, b + 1)>>
              = Segment(k, len, a, b + 1) \o <<>>
         /\ Segment(k, len, a, b) \o <<>> = Segment(k, len, a, b)
<1> DEFINE S == Stream(k, len)
           x == Segment(k, len, a, b)
           y == Segment(k, len, a, b + 1)
<1>0. b + 1 \in Nat /\ a <= b + 1
  OBVIOUS
<1>1. /\ x \in Seq(S) /\ Len(x) = b - a
      /\ \A m \in 1 .. b - a : x[m] = Item(k, len, a + m)
  BY SegmentIsSeq, Zenon
<1>2. /\ y \in Seq(S) /\ Len(y) = b + 1 - a
      /\ \A m \in 1 .. b + 1 - a : y[m] = Item(k, len, a + m)
  <2> DEFINE c == b + 1
  <2>1. c \in Nat /\ a <= c
    BY <1>0
  <2> HIDE DEF c
  <2>2. /\ Segment(k, len, a, c) \in Seq(S) /\ Len(Segment(k, len, a, c)) = c - a
        /\ \A m \in 1 .. c - a : Segment(k, len, a, c)[m] = Item(k, len, a + m)
    BY <2>1, SegmentIsSeq, ZenonT(40)
  <2> QED BY <2>2 DEF c
<1>3. Item(k, len, b + 1) \in S
  BY <1>0 DEF Stream
<1> HIDE DEF S, x, y
<1>4. x \o <<>> = x /\ y \o <<>> = y
  BY <1>1, <1>2
<1>5. x \o <<Item(k, len, b + 1)>> = y
  <2> DEFINE e == Item(k, len, b + 1)
  <2> HIDE DEF e
  <2>1. x \o <<e>> \in Seq(S) /\ Len(x \o <<e>>) = Len(y)
    BY <1>1, <1>2, <1>3 DEF e
  <2>2. \A m \in 1 .. Len(y) : (x \o <<e>>)[m] = y[m]
    BY <1>1, <1>2, <1>3 DEF e
  <2> QED BY <1>2, <2>1, <2>2, SameSeq DEF e
<1> QED BY <1>4, <1>5 DEF x, y

-----------------------------------------------------------------------------
(* The two ends and their steps.                                            *)

\* There are two ends.
LEMMA TwoSides ==
  ASSUME NEW s \in Sides
  PROVE  /\ Other(s) \in Sides /\ Other(s) # s /\ Other(Other(s)) = s
         /\ Sides = {s, Other(s)}
BY SidesAssumption DEF Sides, Other

\* The operation at hand.
LEMMA CurrentOp ==
  ASSUME TypeOK, NEW s \in Sides
  PROVE  /\ script[s] \in Seq(Op) /\ Len(script[s]) \in Nat
         /\ Number(s) \in Nat \ {0}
         /\ Number(s) <= Len(script[s]) =>
              Current(s).len \in Nat \ {0} /\ Current(s).mode \in {"SEND", "RECV"}
         /\ \A k \in Nat \ {0} : k <= Len(script[s]) => script[s][k].len \in Nat \ {0}
<1>1. script[s] \in Seq(Op)
  BY ScriptsAssumption DEF TypeOK
<1>2. Number(s) \in Nat \ {0}
  BY DEF TypeOK, Number
<1>3. \A k \in Nat \ {0} : k <= Len(script[s]) => script[s][k] \in Op
  BY <1>1
<1> QED BY <1>1, <1>2, <1>3 DEF Current, Op

\* What an end can do where it is.
LEMMA StepByPc ==
  ASSUME NEW s \in Sides, Step(s)
  PROVE  \/ pc[s] = "idle" /\ (BeginSend(s) \/ BeginRecv(s))
         \/ /\ pc[s] = "await"
            /\ Discard(s) \/ GetAck(s) \/ GetSln(s) \/ GetRln(s) \/ GoAstray(s)
         \/ pc[s] = "avail" /\ (GetAvail(s) \/ GoAstray(s))
         \/ pc[s] = "check" /\ CheckRoom(s)
         \/ pc[s] = "tx" /\ (TxLen(s) \/ TxFail(s))
         \/ pc[s] = "txdata" /\ (TxPage(s) \/ TxFail(s))
         \/ pc[s] = "rx" /\ (RxLen(s) \/ RxEofLen(s) \/ GoAstray(s))
         \/ pc[s] = "rxdata" /\ (RxPage(s) \/ RxEofPage(s) \/ RxReset(s) \/ GoAstray(s))
BY DEF Step, BeginSend, BeginRecv, Ready, Discard, GetAck, GetSln, GetRln, Requested, GetAvail,
       CheckRoom, TxLen, TxPage, TxFail, RxLen, RxPage, RxEofLen, RxEofPage, RxReset,
       GoAstray

\* A step of one end leaves the state of the other.
LEMMA StepFrame ==
  ASSUME TypeOK, NEW s \in Sides, Step(s)
  PROVE  LET r == Other(s) IN
         /\ script' = script /\ pc'[r] = pc[r] /\ want'[r] = want[r]
         /\ mode'[r] = mode[r] /\ avail'[r] = avail[r] /\ left'[r] = left[r]
         /\ plen'[r] = plen[r] /\ got'[r] = got[r] /\ done'[r] = done[r]
<1>1. Other(s) \in Sides /\ Other(s) # s
  BY TwoSides
<1> USE DEF TypeOK, Goto, Await, Complete, Proceed
<1>2. CASE BeginSend(s)
  BY <1>1, <1>2 DEF BeginSend, AskRoom
<1>3. CASE CheckRoom(s)
  BY <1>1, <1>3 DEF CheckRoom
<1>4. CASE BeginRecv(s)
  BY <1>1, <1>4 DEF BeginRecv
<1>5. CASE Discard(s)
  BY <1>1, <1>5 DEF Discard
<1>6. CASE GetAck(s)
  BY <1>1, <1>6 DEF GetAck
<1>7. CASE GetSln(s)
  BY <1>1, <1>7 DEF GetSln
<1>8. CASE GetRln(s)
  BY <1>1, <1>8 DEF GetRln
<1>9. CASE GetAvail(s)
  BY <1>1, <1>9 DEF GetAvail
<1>10. CASE TxLen(s)
  BY <1>1, <1>10 DEF TxLen
<1>11. CASE TxPage(s)
  BY <1>1, <1>11 DEF TxPage
<1>12. CASE TxFail(s)
  BY <1>1, <1>12 DEF TxFail
<1>13. CASE RxLen(s)
  BY <1>1, <1>13 DEF RxLen
<1>14. CASE RxPage(s)
  BY <1>1, <1>14 DEF RxPage
<1>15. CASE RxEofLen(s) \/ RxReset(s)
  BY <1>1, <1>15 DEF RxEofLen, RxReset, NoLength
<1>16. CASE RxEofPage(s)
  BY <1>1, <1>16 DEF RxEofPage
<1>17. CASE GoAstray(s)
  BY <1>1, <1>17 DEF GoAstray
<1> QED BY <1>2, <1>3, <1>4, <1>5, <1>6, <1>7, <1>8, <1>9, <1>10, <1>11, <1>12, <1>13,
           <1>14, <1>15, <1>16, <1>17 DEF Step

-----------------------------------------------------------------------------
(* Types.                                                                   *)

\* What the code sends is an item.
LEMMA ItemsTyped ==
  /\ \A c \in Codes : Req(c) \in Items
  /\ \A n \in Nat : Avail(n) \in Items /\ PLen(n) \in Items
  /\ \A k, i, n \in Nat : Page(k, i, n) \in Items
BY DEF Req, Avail, PLen, Page, Items, Codes

\* Sending and reading keep the streams typed.
LEMMA WireTyped ==
  ASSUME TypeOK, NEW s \in Sides
  PROVE  /\ \A items \in Seq(Items) : Transmit(s, items) => wire' \in [Sides -> Seq(Items)]
         /\ Incoming(s) # <<>> /\ Consume(s) => wire' \in [Sides -> Seq(Items)]
         /\ \A items \in Seq(Items) :
              Incoming(s) # <<>> /\ Reply(s, items) => wire' \in [Sides -> Seq(Items)]
         /\ Incoming(s) # <<>> => Head(Incoming(s)) \in Items
<1>1. wire[s] \in Seq(Items) /\ wire[Other(s)] \in Seq(Items) /\ Other(s) \in Sides
  BY TwoSides DEF TypeOK
<1>2. Incoming(s) # <<>> => Tail(wire[Other(s)]) \in Seq(Items)
  BY <1>1 DEF Incoming
<1>3. ASSUME NEW items \in Seq(Items), Transmit(s, items)
      PROVE  wire' \in [Sides -> Seq(Items)]
  <2>1. wire[s] \o items \in Seq(Items)
    BY <1>1
  <2> QED BY <1>3, <2>1 DEF Transmit, TypeOK
<1>4. ASSUME Incoming(s) # <<>>, Consume(s)
      PROVE  wire' \in [Sides -> Seq(Items)]
  BY <1>1, <1>2, <1>4 DEF Consume, TypeOK
<1>5. ASSUME NEW items \in Seq(Items), Incoming(s) # <<>>, Reply(s, items)
      PROVE  wire' \in [Sides -> Seq(Items)]
  <2>1. wire[s] \o items \in Seq(Items)
    BY <1>1
  <2>2. Other(s) # s
    BY TwoSides
  <2>3. wire' = [wire EXCEPT ![Other(s)] = Tail(wire[Other(s)]), ![s] = wire[s] \o items]
    BY <1>1, <1>5, <2>2 DEF Reply, TypeOK
  <2> QED BY <1>1, <1>2, <1>5, <2>1, <2>3 DEF TypeOK
<1>6. Incoming(s) # <<>> => Head(Incoming(s)) \in Items
  BY <1>1 DEF Incoming
<1> QED BY <1>3, <1>4, <1>5, <1>6

\* So does the end of a run with the list of completions.
LEMMA CompleteTyped ==
  ASSUME TypeOK, NEW s \in Sides, got' \in [Sides -> Seq(Items)],
         NEW result \in {"ok", "failed"}, Complete(s, result)
  PROVE  /\ done' \in [Sides -> Seq([result : {"ok", "failed"}, got : Seq(Items)])]
         /\ pc' \in [Sides -> Pcs]
<1>1. [result |-> result, got |-> got'[s]] \in [result : {"ok", "failed"}, got : Seq(Items)]
  OBVIOUS
<1> DEFINE D == [result : {"ok", "failed"}, got : Seq(Items)]
           d == [result |-> result, got |-> got'[s]]
<1>2. /\ done \in [Sides -> Seq(D)] /\ d \in D
      /\ done' = [done EXCEPT ![s] = Append(@, d)]
  BY <1>1 DEF TypeOK, Complete
<1> HIDE DEF D, d
<1>3. done' \in [Sides -> Seq(D)]
  BY <1>2
<1>4. pc' \in [Sides -> Pcs]
  BY DEF Complete, Goto, TypeOK, Pcs
<1> QED BY <1>3, <1>4 DEF D

\* The end of an iteration keeps the types when no more is taken than is left.
LEMMA ProceedTyped ==
  ASSUME TypeOK, NEW s \in Sides, got' \in [Sides -> Seq(Items)],
         NEW n \in Nat, n <= left[s], NEW label \in {"tx", "rx"}, Proceed(s, n, label)
  PROVE  /\ done' \in [Sides -> Seq([result : {"ok", "failed"}, got : Seq(Items)])]
         /\ pc' \in [Sides -> Pcs] /\ left' \in [Sides -> Nat]
<1>1. LeftAfter(s, n) \in Nat
  BY DEF LeftAfter, TypeOK
<1>2. left' \in [Sides -> Nat]
  BY <1>1 DEF Proceed, TypeOK
<1>3. CASE LeftAfter(s, n) = 0
  BY <1>2, <1>3, CompleteTyped DEF Proceed
<1>4. CASE LeftAfter(s, n) # 0
  BY <1>2, <1>4 DEF Proceed, Goto, TypeOK, Pcs
<1> QED BY <1>3, <1>4

\* Every step keeps the types, whoever exits.
LEMMA TypeStep ==
  ASSUME TypeOK, LocalInv, Next
  PROVE  TypeOK'
<1>1. CASE StartUp
  <2>1. \A s \in Sides : <<Req("ACK")>> \in Seq(Items)
    BY ItemsTyped DEF Codes
  <2>2. Server \in Sides /\ Client \in Sides
    BY DEF Sides
  <2>3. CASE Listen \/ Connect \/ ConnectRefused
    BY <2>2, <2>3 DEF Listen, Connect, ConnectRefused, Goto, Await, TypeOK, Pcs, Codes
  <2>4. CASE Accept
    BY <2>1, <2>2, <2>4, WireTyped DEF Accept, Goto, Await, TypeOK, Pcs, Codes
  <2> QED BY <1>1, <2>3, <2>4 DEF StartUp
<1>2. ASSUME NEW s \in Sides, Step(s) PROVE TypeOK'
  <2> USE <1>2 DEF TypeOK, Goto, Await, Pcs, Codes
  <2>0. /\ Number(s) \in Nat \ {0}
        /\ Number(s) <= Len(script[s]) => Current(s).len \in Nat \ {0}
    BY CurrentOp
  <2>1. CASE BeginSend(s)
    <3>1. <<Req("SLN")>> \in Seq(Items)
      BY ItemsTyped
    <3> QED BY <2>1, <3>1, WireTyped DEF BeginSend, AskRoom
  <2>2. CASE CheckRoom(s)
    <3>1. Current(s).len \in Nat
      BY <2>0, <2>2 DEF CheckRoom, LocalInv, Busy
    <3> QED BY <2>2, <3>1 DEF CheckRoom
  <2>3. CASE BeginRecv(s)
    <3>1. Current(s).len \in Nat
      BY <2>0, <2>3 DEF BeginRecv, Ready
    <3> QED BY <2>3, <3>1 DEF BeginRecv
  <2>4. CASE Discard(s)
    BY <2>4, WireTyped DEF Discard, Requested, Arrived
  <2>5. CASE GetAck(s)
    <3>1. (IF s = Client THEN <<Req("ACK")>> ELSE <<>>) \in Seq(Items)
      BY ItemsTyped
    <3> QED BY <2>5, <3>1, WireTyped DEF GetAck, Requested, Arrived
  <2>6. CASE GetSln(s)
    <3>1. Answer(s) \in Seq(Items)
      BY ItemsTyped DEF Answer
    <3>2. Current(s).len \in Nat
      BY <2>0, <2>6 DEF GetSln, Requested, LocalInv, Busy
    <3>3. left' \in [Sides -> Nat] /\ got' \in [Sides -> Seq(Items)] /\ pc' \in [Sides -> Pcs]
      BY <2>6, <3>2 DEF GetSln
    <3>4. wire' \in [Sides -> Seq(Items)]
      BY <2>6, <3>1, WireTyped DEF GetSln, Requested, Arrived
    <3> QED BY <2>6, <3>3, <3>4 DEF GetSln
  <2>7. CASE GetRln(s)
    BY <2>7, WireTyped DEF GetRln, Requested, Arrived
  <2>8. CASE GetAvail(s)
    <3>1. CASE Arrived(s, "avail")
      <4>1. Head(Incoming(s)) \in Items /\ Head(Incoming(s)).val \in Nat
        BY <3>1, WireTyped DEF Arrived, Items
      <4>2. ~Eof(s)
        BY <3>1 DEF Arrived, Eof
      <4>3. wire' \in [Sides -> Seq(Items)]
        BY <2>8, <3>1, <4>2, WireTyped DEF GetAvail, Arrived
      <4>4. avail' \in [Sides -> Nat]
        BY <2>8, <4>1, <4>2 DEF GetAvail
      <4> QED BY <2>8, <4>3, <4>4 DEF GetAvail
    <3>2. CASE ~Arrived(s, "avail")
      BY <2>8, <3>2 DEF GetAvail
    <3> QED BY <3>1, <3>2
  <2>9. CASE TxLen(s)
    <3>1. Piece(s) \in Nat
      BY PageAssumption DEF Piece, Least
    <3>2. <<PLen(Piece(s))>> \in Seq(Items)
      BY <3>1, ItemsTyped
    <3> QED BY <2>9, <3>2, WireTyped DEF TxLen
  <2>10. CASE TxPage(s)
    <3>1. Piece(s) \in Nat /\ Piece(s) <= left[s]
      BY PageAssumption DEF Piece, Least
    <3>2. Current(s).len \in Nat /\ left[s] \in 1 .. Current(s).len
      BY <2>0, <2>10 DEF TxPage, LocalInv, Busy
    <3>3. (Current(s).len - left[s]) \div P + 1 \in Nat
      <4>1. Current(s).len - left[s] \in Nat
        BY <3>2
      <4> QED BY <4>1, PageAssumption, Division
    <3>4. <<Page(Number(s), (Current(s).len - left[s]) \div P + 1, Piece(s))>> \in Seq(Items)
      BY <2>0, <3>1, <3>3, ItemsTyped
    <3>5. wire' \in [Sides -> Seq(Items)]
      BY <2>10, <3>4, WireTyped DEF TxPage
    <3>6. got' \in [Sides -> Seq(Items)] /\ Proceed(s, Piece(s), "tx")
      BY <2>10 DEF TxPage
    <3>7. /\ done' \in [Sides -> Seq([result : {"ok", "failed"}, got : Seq(Items)])]
          /\ pc' \in [Sides -> Pcs] /\ left' \in [Sides -> Nat]
      BY <3>1, <3>6, ProceedTyped
    <3> QED BY <2>10, <3>5, <3>6, <3>7 DEF TxPage
  <2>11. CASE TxFail(s)
    BY <2>11, CompleteTyped DEF TxFail
  <2>12. CASE RxLen(s)
    <3>1. Head(Incoming(s)) \in Items /\ Head(Incoming(s)).val \in Nat
      BY <2>12, WireTyped DEF RxLen, Arrived, Items
    <3>2. wire' \in [Sides -> Seq(Items)]
      BY <2>12, WireTyped DEF RxLen, Arrived
    <3>3. plen' \in [Sides -> Nat]
      BY <2>12, <3>1 DEF RxLen
    <3> QED BY <2>12, <3>2, <3>3 DEF RxLen
  <2>13. CASE RxPage(s)
    <3>1. Head(Incoming(s)) \in Items
      BY <2>13, WireTyped DEF RxPage, Arrived
    <3>2. got' \in [Sides -> Seq(Items)]
      BY <2>13, <3>1 DEF RxPage
    <3>3. plen[s] \in Nat /\ plen[s] <= left[s] /\ Proceed(s, plen[s], "rx")
      BY <2>13 DEF RxPage, LocalInv
    <3>4. /\ done' \in [Sides -> Seq([result : {"ok", "failed"}, got : Seq(Items)])]
          /\ pc' \in [Sides -> Pcs] /\ left' \in [Sides -> Nat]
      BY <3>2, <3>3, ProceedTyped
    <3>5. wire' \in [Sides -> Seq(Items)]
      BY <2>13, WireTyped DEF RxPage, Arrived
    <3> QED BY <2>13, <3>2, <3>4, <3>5 DEF RxPage
  <2>14. CASE RxEofLen(s) \/ RxReset(s)
    BY <2>14, CompleteTyped DEF RxEofLen, RxReset, NoLength
  <2>15. CASE RxEofPage(s)
    <3>1. plen[s] \in Nat /\ plen[s] <= left[s] /\ Proceed(s, plen[s], "rx")
      BY <2>15 DEF RxEofPage, LocalInv
    <3>2. Page(0, 0, plen[s]) \in Items
      BY <3>1, ItemsTyped
    <3>3. got' \in [Sides -> Seq(Items)]
      BY <2>15, <3>2 DEF RxEofPage
    <3>4. /\ done' \in [Sides -> Seq([result : {"ok", "failed"}, got : Seq(Items)])]
          /\ pc' \in [Sides -> Pcs] /\ left' \in [Sides -> Nat]
      BY <3>1, <3>3, ProceedTyped
    <3> QED BY <2>15, <3>3, <3>4 DEF RxEofPage
  <2>16. CASE GoAstray(s)
    BY <2>16 DEF GoAstray
  <2> QED BY <2>1, <2>2, <2>3, <2>4, <2>5, <2>6, <2>7, <2>8, <2>9, <2>10, <2>11, <2>12, <2>13,
             <2>14, <2>15, <2>16 DEF Step
<1>3. ASSUME NEW s \in Sides, Exit(s) PROVE TypeOK'
  <2>1. pc' \in [Sides -> Pcs]
    BY <1>3 DEF Exit, Goto, TypeOK, Pcs
  <2>2. wire' \in [Sides -> Seq(Items)]
    <3>1. <<>> \in Seq(Items)
      OBVIOUS
    <3> QED BY <1>3, <3>1 DEF Exit, TypeOK
  <2> QED BY <1>3, <2>1, <2>2 DEF Exit, TypeOK
<1> QED BY <1>1, <1>2, <1>3 DEF Next

-----------------------------------------------------------------------------
(* The reader.                                                              *)

\* A step that leaves the scripts and an end's completions leaves its
\* operation.
LEMMA SameOp ==
  ASSUME NEW s, script' = script, done'[s] = done[s]
  PROVE  /\ Number(s)' = Number(s) /\ Current(s)' = Current(s)
         /\ Message(s)' = Message(s)
         /\ \A m : Working(s, m)' = Working(s, m)
BY DEF Number, Current, Message, Working

\* What r knows of the message it reads.
LEMMA ReaderFacts ==
  ASSUME TypeOK, NEW r \in Sides, Reader(r)
  PROVE  /\ Number(r) \in Nat \ {0} /\ Message(r) \in Nat \ {0}
         /\ Current(r).len \in Nat \ {0} /\ Message(r) <= Current(r).len
         /\ Len(got[r]) \in Nat /\ Read(r) \in Nat
         /\ pc[r] = "rx" => Read(r) = 2 * Len(got[r])
         /\ pc[r] = "rxdata" => Read(r) = 2 * Len(got[r]) + 1
<1>1. Other(r) \in Sides
  BY TwoSides
<1>2. Number(r) \in Nat \ {0} /\ Current(r).len \in Nat \ {0}
  BY CurrentOp DEF Reader, Working
<1>3. Message(r) \in Nat \ {0}
  BY <1>1, <1>2, CurrentOp DEF Reader, Message
<1>4. Len(got[r]) \in Nat
  BY DEF TypeOK
<1>5. Message(r) <= Current(r).len /\ pc[r] \in {"rx", "rxdata"}
  BY DEF Reader
<1>6. /\ Read(r) \in Nat
      /\ pc[r] = "rx" => Read(r) = 2 * Len(got[r])
      /\ pc[r] = "rxdata" => Read(r) = 2 * Len(got[r]) + 1
  <2>1. CASE pc[r] = "rx"
    BY <1>4, <2>1 DEF Read
  <2>2. CASE pc[r] = "rxdata"
    BY <1>4, <2>2 DEF Read
  <2> QED BY <1>5, <2>1, <2>2
<1> QED BY <1>2, <1>3, <1>4, <1>5, <1>6

\* While the peer's stream holds an item of the message, it is the one r
\* expects; the end of a message is not taken for a part of it.
LEMMA HeadIsExpected ==
  ASSUME TypeOK, NEW r \in Sides, NEW sent \in Nat, NEW rest \in Rests,
         Receiving(r, sent, rest), Incoming(r) # <<>>
  PROVE  LET j == Len(got[r]) n == Size(Message(r), j + 1) IN
         \/ /\ Read(r) < sent
            /\ Head(Incoming(r)) = (IF pc[r] = "rx" THEN PLen(n) ELSE Page(Number(r), j + 1, n))
            /\ Tail(Incoming(r)) = Segment(Number(r), Message(r), Read(r) + 1, sent) \o rest
         \/ /\ Read(r) = sent /\ rest = <<Req("SLN")>>
            /\ Head(Incoming(r)) = Req("SLN")
<1> DEFINE k == Number(r) len == Message(r) j == Len(got[r]) a == Read(r)
<1>1. /\ j \in Nat /\ a \in Nat /\ a <= sent /\ pc[r] \in {"rx", "rxdata"}
      /\ pc[r] = "rx" => a = 2 * j
      /\ pc[r] = "rxdata" => a = 2 * j + 1
  BY ReaderFacts DEF Receiving, Reader
<1>2. Incoming(r) = Segment(k, len, a, sent) \o rest
  BY DEF Receiving, Incoming
<1> HIDE DEF k, len, j, a
<1>3. CASE a < sent
  <2>1. /\ Head(Incoming(r)) = Item(k, len, a + 1)
        /\ Tail(Incoming(r)) = Segment(k, len, a + 1, sent) \o rest
    <3>0. a \in Nat /\ a < sent
      BY <1>1, <1>3
    <3>1. Splits(Segment(k, len, a, sent) \o rest,
                 Item(k, len, a + 1), Segment(k, len, a + 1, sent) \o rest)
      BY <3>0, SegmentRead, Zenon
    <3>2. Splits(Incoming(r), Item(k, len, a + 1), Segment(k, len, a + 1, sent) \o rest)
      BY <1>2, <3>1, Zenon
    <3> QED BY <3>2, Zenon DEF Splits
  <2>2. pc[r] = "rx" => Item(k, len, a + 1) = PLen(Size(len, j + 1))
    BY <1>1, ItemPair
  <2>3. pc[r] = "rxdata" => Item(k, len, a + 1) = Page(k, j + 1, Size(len, j + 1))
    <3>1. pc[r] = "rxdata" => a + 1 = 2 * j + 2
      BY <1>1
    <3> QED BY <1>1, <3>1, ItemPair
  <2> QED BY <1>1, <1>3, <2>1, <2>2, <2>3 DEF k, len, j, a
<1>4. CASE a = sent
  <2>1. Incoming(r) = rest
    BY <1>1, <1>2, <1>4, SegmentEmpty
  <2>2. rest = <<Req("SLN")>>
    BY <2>1 DEF Rests
  <2> QED BY <1>4, <2>1, <2>2 DEF a
<1> QED BY <1>1, <1>3, <1>4

\* What a step of one end does to the streams.
LEMMA WireStep ==
  ASSUME TypeOK, NEW s \in Sides
  PROVE  /\ \A items : Transmit(s, items) =>
              wire'[s] = wire[s] \o items /\ wire'[Other(s)] = wire[Other(s)]
         /\ Consume(s) => wire'[Other(s)] = Tail(Incoming(s)) /\ wire'[s] = wire[s]
         /\ \A items : Reply(s, items) =>
              wire'[s] = wire[s] \o items /\ wire'[Other(s)] = Tail(Incoming(s))
<1>1. Other(s) \in Sides /\ Other(s) # s /\ wire = [x \in Sides |-> wire[x]]
  BY TwoSides DEF TypeOK
<1> QED BY <1>1 DEF Transmit, Consume, Reply, Incoming, TypeOK

\* The receiver reads the length of the next piece.
LEMMA ReadsLength ==
  ASSUME TypeOK, NEW r \in Sides, NEW sent \in Nat, NEW rest \in Rests,
         Receiving(r, sent, rest), RxLen(r)
  PROVE  Receiving(r, sent, rest)'
<1> DEFINE s == Other(r) k == Number(r) len == Message(r) j == Len(got[r])
<1>1. pc[r] = "rx" /\ Incoming(r) # <<>> /\ Head(Incoming(r)).kind = "plen"
  BY DEF RxLen, Arrived
<1>2. /\ Read(r) < sent /\ Head(Incoming(r)) = PLen(Size(len, j + 1))
      /\ Tail(Incoming(r)) = Segment(k, len, Read(r) + 1, sent) \o rest
  <2>1. Head(Incoming(r)) # Req("SLN")
    BY <1>1 DEF Req
  <2> QED BY <1>1, <2>1, HeadIsExpected
<1>3. /\ script' = script /\ got' = got /\ left' = left /\ done' = done
      /\ pc'[r] = "rxdata" /\ plen'[r] = Size(len, j + 1)
      /\ wire'[s] = Segment(k, len, Read(r) + 1, sent) \o rest
  <2>1. wire'[s] = Tail(Incoming(r))
    BY WireStep DEF RxLen
  <2>2. plen'[r] = Head(Incoming(r)).val
    BY DEF RxLen, TypeOK
  <2>3. plen'[r] = Size(len, j + 1)
    BY <1>2, <2>2 DEF PLen
  <2>4. script' = script /\ got' = got /\ left' = left /\ done' = done /\ pc'[r] = "rxdata"
    BY DEF RxLen, Goto, TypeOK
  <2> QED BY <1>2, <2>1, <2>3, <2>4
<1>4. Number(r)' = k /\ Message(r)' = len /\ Current(r)' = Current(r) /\ Working(r, "RECV")'
  BY <1>3, SameOp DEF Receiving, Reader
<1>5. Read(r) \in Nat /\ Read(r) = 2 * j /\ j \in Nat
  BY <1>1, ReaderFacts DEF Receiving
<1>6. Read(r)' = Read(r) + 1
  BY <1>3, <1>5 DEF Read
<1>7. Reader(r)'
  BY <1>3, <1>4 DEF Receiving, Reader
<1> QED BY <1>2, <1>3, <1>4, <1>5, <1>6, <1>7 DEF Receiving

\* It reads the piece.  The one that leaves no room is the last of a message
\* as long as the receive.
LEMMA ReadsPage ==
  ASSUME TypeOK, NEW r \in Sides, NEW sent \in Nat, NEW rest \in Rests,
         sent <= 2 * Pages(Message(r)), Receiving(r, sent, rest), RxPage(r)
  PROVE  \/ Receiving(r, sent, rest)' /\ done' = done
         \/ /\ sent = 2 * Pages(Message(r)) /\ Message(r) = Current(r).len
            /\ left'[r] = 0 /\ pc'[r] = "idle" /\ wire'[Other(r)] = rest
            /\ done'[r] = Append(done[r], [result |-> "ok",
                                           got |-> PagesOf(Number(r), Message(r))])
<1> DEFINE s == Other(r) k == Number(r) len == Message(r) j == Len(got[r])
           n == Size(len, j + 1)
<1>1. pc[r] = "rxdata" /\ Incoming(r) # <<>> /\ Head(Incoming(r)).kind = "page"
  BY DEF RxPage, Arrived
<1>2. /\ Read(r) < sent /\ Head(Incoming(r)) = Page(k, j + 1, n)
      /\ Tail(Incoming(r)) = Segment(k, len, Read(r) + 1, sent) \o rest
  <2>1. Head(Incoming(r)) # Req("SLN")
    BY <1>1 DEF Req
  <2> QED BY <1>1, <2>1, HeadIsExpected
<1>3. /\ k \in Nat \ {0} /\ len \in Nat \ {0} /\ Current(r).len \in Nat \ {0}
      /\ len <= Current(r).len /\ j \in Nat /\ Read(r) = 2 * j + 1
  BY <1>1, ReaderFacts DEF Receiving
<1>4. /\ j < Pages(len) /\ Pages(len) \in Nat \ {0}
      /\ Bytes(len, j + 1) = Bytes(len, j) + n /\ n \in Nat \ {0}
      /\ Bytes(len, j) \in Nat
      /\ Bytes(len, j + 1) \in 0 .. len
      /\ j + 1 < Pages(len) => Bytes(len, j + 1) < len
  <2>1. Pages(len) \in Nat \ {0}
    BY <1>3, PagesHold
  <2>2. j < Pages(len)
    BY <1>2, <1>3, <2>1
  <2>3. j + 1 \in Nat
    BY <1>3
  <2> HIDE DEF j, len, n
  <2>4. Bytes(len, j + 1) = Bytes(len, j) + n /\ n \in 1 .. len - Bytes(len, j) /\ Bytes(len, j) \in 0 .. len
    BY <1>3, <2>2, BytesOfPieces DEF n
  <2>5. Bytes(len, j + 1) \in 0 .. len /\ (j + 1 < Pages(len) => Bytes(len, j + 1) < len)
    BY <1>3, <2>3, BytesOfPieces
  <2> QED BY <1>3, <2>1, <2>2, <2>4, <2>5
<1>5. /\ plen[r] = n /\ left[r] = Current(r).len - Bytes(len, j)
      /\ got[r] = [i \in 1 .. j |-> Page(k, i, Size(len, i))]
  BY <1>1 DEF Receiving, Reader
<1>6. /\ script' = script /\ plen' = plen /\ got'[r] = Append(got[r], Page(k, j + 1, n))
      /\ wire'[s] = Segment(k, len, Read(r) + 1, sent) \o rest
      /\ left'[r] = left[r] - n
      /\ IF left[r] - n = 0 THEN Complete(r, "ok") ELSE Goto(r, "rx") /\ done' = done
  <2>1. got'[r] = Append(got[r], Head(Incoming(r))) /\ script' = script /\ plen' = plen
    BY DEF RxPage, TypeOK
  <2>2. wire'[s] = Tail(Incoming(r))
    BY WireStep DEF RxPage
  <2>3. Proceed(r, n, "rx")
    BY <1>5 DEF RxPage
  <2> QED BY <1>2, <2>1, <2>2, <2>3 DEF Proceed, LeftAfter, TypeOK
<1>7. got'[r] = [i \in 1 .. j + 1 |-> Page(k, i, Size(len, i))] /\ Len(got'[r]) = j + 1
  <2> DEFINE F(i) == Page(k, i, Size(len, i)) g == got[r]
  <2>1. g = [i \in 1 .. j |-> F(i)] /\ got'[r] = Append(g, F(j + 1)) /\ j \in Nat
    BY <1>3, <1>5, <1>6
  <2>2. got'[r] = [i \in 1 .. j + 1 |-> F(i)] /\ Len(got'[r]) = j + 1
    <3> HIDE DEF F, g, j
    <3> QED BY <2>1
  <2> QED BY <2>2
<1>8. CASE left[r] - n = 0
  <2>1. Bytes(len, j + 1) = len /\ len = Current(r).len
    <3>1. left[r] = Current(r).len - Bytes(len, j)
      BY <1>5
    <3>2. len \in Nat /\ Current(r).len \in Nat /\ len <= Current(r).len
      BY <1>3
    <3>3. /\ Bytes(len, j + 1) = Bytes(len, j) + n /\ n \in Nat /\ Bytes(len, j) \in Nat
          /\ Bytes(len, j + 1) <= len
      BY <1>4
    <3>4. \A b, m, l, c \in Nat : b + m <= l /\ l <= c /\ (c - b) - m = 0 => b + m = l /\ l = c
      OBVIOUS
    <3>5. (Current(r).len - Bytes(len, j)) - n = 0
      BY ONLY <1>8, <3>1
    <3>6. Bytes(len, j) + n <= len
      BY ONLY <3>3
    <3>7. Bytes(len, j) + n = len /\ len = Current(r).len
      <4> HIDE DEF k, len, j, n
      <4> QED BY ONLY <3>2, <3>3, <3>4, <3>5, <3>6
    <3> QED BY ONLY <3>3, <3>7
  <2>2. j + 1 = Pages(len)
    BY <1>3, <1>4, <2>1
  <2>3. sent = 2 * Pages(len) /\ Read(r) + 1 = sent
    <3>1. Read(r) < sent /\ sent <= 2 * Pages(len) /\ Pages(len) \in Nat
      BY <1>2, <1>4
    <3>2. Read(r) = 2 * j + 1 /\ j \in Nat
      BY <1>3
    <3> HIDE DEF j, len
    <3> QED BY <3>1, <3>2, <2>2
  <2>4. wire'[s] = rest
    BY <1>6, <2>3, SegmentEmpty
  <2>5. got'[r] = PagesOf(k, len)
    BY <1>7, <2>2 DEF PagesOf, Pages, Size
  <2>6. /\ pc'[r] = "idle"
        /\ done'[r] = Append(done[r], [result |-> "ok", got |-> got'[r]])
    BY <1>6, <1>8 DEF Complete, Goto, TypeOK
  <2> QED BY <1>6, <1>8, <2>1, <2>3, <2>4, <2>5, <2>6
<1>9. CASE left[r] - n # 0
  <2>1. done' = done /\ pc'[r] = "rx"
    BY <1>6, <1>9 DEF Goto, TypeOK
  <2>2. Number(r)' = k /\ Message(r)' = len /\ Current(r)' = Current(r) /\ Working(r, "RECV")'
    BY <1>6, <2>1, SameOp DEF Receiving, Reader
  <2>3. left'[r] = Current(r).len - Bytes(len, j + 1) /\ left'[r] > 0
    <3> HIDE DEF k, len, j, n
    <3>1. left'[r] = left[r] - n /\ left[r] = Current(r).len - Bytes(len, j)
      BY <1>5, <1>6
    <3> QED BY <1>3, <1>4, <1>9, <3>1
  <2>4. Read(r)' = Read(r) + 1
    <3>1. Len(got'[r]) = j + 1
      BY <1>7
    <3> HIDE DEF j
    <3>2. Read(r)' = 2 * (j + 1)
      <4>1. Read(r)' = 2 * Len(got'[r]) + (IF pc'[r] = "rxdata" THEN 1 ELSE 0)
        BY DEF Read
      <4> QED BY <1>3, <2>1, <3>1, <4>1
    <3> QED BY <1>3, <3>2
  <2>5. Reader(r)'
    <3>1. /\ Number(r) <= Len(script[s]) /\ script[s][Number(r)].mode = "SEND"
          /\ Message(r) <= Current(r).len
      BY DEF Receiving, Reader
    <3>2. got'[r] = [i \in 1 .. Len(got'[r]) |-> Page(k, i, Size(len, i))]
      BY <1>7
    <3> HIDE DEF k, len, j, n
    <3> QED BY <1>6, <1>7, <2>1, <2>2, <2>3, <3>1, <3>2 DEF Reader, k, len
  <2> QED BY <1>2, <1>3, <1>6, <2>1, <2>2, <2>4, <2>5 DEF Receiving
<1> QED BY <1>8, <1>9

-----------------------------------------------------------------------------
(* What the ends can do in a phase.                                         *)

\* Nobody exits.
Alive == \A s \in Sides : pc[s] # "exited"

\* An end whose incoming stream is empty waits, unless it writes.
LEMMA NothingToRead ==
  ASSUME NEW s \in Sides, Step(s), Incoming(s) = <<>>, Alive
  PROVE  pc[s] \in {"idle", "check", "tx", "txdata"}
<1>1. ~Eof(s) /\ \A kind : ~Arrived(s, kind)
  BY TwoSides DEF Eof, Arrived, Alive
<1>2. pc[s] # "await"
  BY <1>1, StepByPc DEF Discard, GetAck, GetSln, GetRln, GoAstray, Requested
<1>3. pc[s] # "avail"
  BY <1>1, StepByPc DEF GetAvail, GoAstray
<1>4. pc[s] # "rx"
  BY <1>1, StepByPc DEF RxLen, RxEofLen, GoAstray
<1>5. pc[s] # "rxdata"
  BY <1>1, StepByPc DEF RxPage, RxEofPage, RxReset, GoAstray
<1> QED BY <1>2, <1>3, <1>4, <1>5, StepByPc

\* An end that awaits a request takes the next one or drops it.
LEMMA Requests ==
  ASSUME NEW s \in Sides, Step(s), pc[s] = "await", NEW c \in Codes,
         Incoming(s) # <<>>, Head(Incoming(s)) = Req(c)
  PROVE  \/ want[s] # c /\ Discard(s)
         \/ want[s] = "ACK" /\ c = "ACK" /\ GetAck(s)
         \/ want[s] = "SLN" /\ c = "SLN" /\ GetSln(s)
         \/ want[s] = "RLN" /\ c = "RLN" /\ GetRln(s)
<1>1. Arrived(s, "req") /\ Head(Incoming(s)).code = c
  BY DEF Arrived, Req
<1>2. ~GoAstray(s)
  BY <1>1 DEF GoAstray, Expected
<1> QED BY <1>1, <1>2, StepByPc DEF Discard, GetAck, GetSln, GetRln, Requested

\* The guest starts an operation.
LEMMA Begins ==
  ASSUME TypeOK, NEW s \in Sides, Step(s), pc[s] = "idle"
  PROVE  /\ script' = script /\ done' = done /\ wire'[Other(s)] = wire[Other(s)]
         /\ Between(s)' /\ pc'[s] = "await"
         /\ IF Asking(s)' THEN wire'[s] = wire[s] \o <<Req("SLN")>> ELSE wire' = wire
<1>1. CASE BeginSend(s)
  <2>1. /\ script' = script /\ done' = done /\ pc'[s] = "await" /\ want'[s] = "RLN"
        /\ Transmit(s, <<Req("SLN")>>) /\ Working(s, "SEND")
    BY <1>1 DEF BeginSend, AskRoom, Ready, Working, Await, Goto, TypeOK
  <2>2. Working(s, "SEND")'
    BY <2>1, SameOp
  <2> QED BY <2>1, <2>2, WireStep DEF Between, Asking
<1>2. CASE BeginRecv(s)
  <2>1. /\ script' = script /\ done' = done /\ pc'[s] = "await" /\ want'[s] = "SLN"
        /\ wire' = wire /\ Working(s, "RECV") /\ avail'[s] = Current(s).len
    BY <1>2 DEF BeginRecv, Ready, Working, Await, Goto, TypeOK
  <2>2. Working(s, "RECV")' /\ Current(s)' = Current(s)
    BY <2>1, SameOp
  <2> QED BY <2>1, <2>2 DEF Between, Asking
<1> QED BY <1>1, <1>2, StepByPc

\* A step of one end leaves what the phases say of the other.
LEMMA OtherSame ==
  ASSUME TypeOK, NEW s \in Sides, Step(s), NEW r, r = Other(s)
  PROVE  /\ script' = script /\ pc'[r] = pc[r] /\ done'[r] = done[r]
         /\ got'[r] = got[r] /\ left'[r] = left[r]
         /\ Between(r)' = Between(r) /\ Asking(r)' = Asking(r)
         /\ Number(r)' = Number(r) /\ Current(r)' = Current(r) /\ Message(r)' = Message(r)
         /\ Working(r, "SEND")' = Working(r, "SEND")
         /\ Working(r, "RECV")' = Working(r, "RECV")
         /\ Reader(r)' = Reader(r) /\ Read(r)' = Read(r)
<1>1. /\ script' = script /\ pc'[r] = pc[r] /\ want'[r] = want[r]
      /\ avail'[r] = avail[r] /\ left'[r] = left[r]
      /\ plen'[r] = plen[r] /\ got'[r] = got[r] /\ done'[r] = done[r]
  BY StepFrame
<1>2. /\ Number(r)' = Number(r) /\ Current(r)' = Current(r) /\ Message(r)' = Message(r)
      /\ Working(r, "SEND")' = Working(r, "SEND")
      /\ Working(r, "RECV")' = Working(r, "RECV")
  BY <1>1, SameOp
<1>3. Between(r)' = Between(r)
  BY <1>1, <1>2 DEF Between
<1>4. Asking(r)' = Asking(r)
  BY <1>1 DEF Asking
<1>5. Reader(r)' = Reader(r)
  BY <1>1, <1>2 DEF Reader
<1>6. Read(r)' = Read(r)
  BY <1>1 DEF Read
<1> QED BY <1>1, <1>2, <1>3, <1>4, <1>5, <1>6

-----------------------------------------------------------------------------
(* From phase to phase, while nobody exits.                                 *)

\* A step that completes nothing adds nothing to check.
LEMMA KeepsReceived ==
  ASSUME ReceivedIsSent, Alive, script' = script, done' = done
  PROVE  ReceivedIsSent'
BY DEF ReceivedIsSent, Alive, Gone

\* Only an end that has not connected takes a step of the start-up.
LEMMA StartUpBoots ==
  ASSUME StartUp
  PROVE  pc[Server] \in {"boot", "accept"} \/ pc[Client] = "boot"
BY DEF StartUp, Listen, Connect, ConnectRefused, Accept

\* The connection is made, up to the ACK of the server.
LEMMA BootingStartUp ==
  ASSUME TypeOK, Booting, StartUp
  PROVE  Booting' /\ script' = script /\ done' = done
<1>1. Server \in Sides /\ Client \in Sides /\ Other(Server) = Client /\ Server # Client
  BY SidesAssumption DEF Sides, Other
<1> USE DEF TypeOK, Goto, Await, Booting, AwaitsAck
<1>2. CASE Listen
  BY <1>1, <1>2 DEF Listen
<1>3. CASE Connect
  BY <1>1, <1>3 DEF Connect
<1>4. CASE ConnectRefused
  BY <1>1, <1>4 DEF ConnectRefused
<1>5. CASE Accept
  <2>1. wire[Server] = <<>> /\ AwaitsAck(Client)
    BY <1>1, <1>5 DEF Accept
  <2>2. wire'[Server] = <<>> \o <<Req("ACK")>> /\ wire'[Client] = wire[Client]
    BY <1>1, <1>5, <2>1, WireStep DEF Accept
  <2>3. wire'[Server] = <<Req("ACK")>>
    BY <2>2
  <2> QED BY <1>1, <1>5, <2>1, <2>2, <2>3 DEF Accept
<1> QED BY <1>2, <1>3, <1>4, <1>5 DEF StartUp

\* The client answers the server's ACK.
LEMMA BootingStep ==
  ASSUME TypeOK, Alive, Booting, NEW s \in Sides, Step(s)
  PROVE  LastAck' /\ script' = script /\ done' = done
<1>1. Server \in Sides /\ Client \in Sides /\ Other(Server) = Client
      /\ Other(Client) = Server /\ Server # Client /\ s \in {Server, Client}
  BY SidesAssumption DEF Sides, Other
<1>2. s # Server
  <2>1. wire[Client] = <<>> /\ pc[Server] \in {"boot", "accept", "await"}
    BY DEF Booting, AwaitsAck
  <2> QED BY <1>1, <2>1, NothingToRead DEF Incoming
<1>3. /\ AwaitsAck(Server) /\ AwaitsAck(Client) /\ wire[Server] = <<Req("ACK")>>
      /\ wire[Client] = <<>> /\ done = [x \in Sides |-> <<>>]
  <2>1. pc[Client] \in {"boot", "unconnected", "await"}
    BY DEF Booting, AwaitsAck
  <2>2. wire[Server] # <<>>
    BY <1>1, <1>2, <2>1, NothingToRead, StepByPc DEF Incoming
  <2> QED BY <2>2 DEF Booting
<1>4. GetAck(Client)
  <2>1. Incoming(Client) # <<>> /\ Head(Incoming(Client)) = Req("ACK")
    BY <1>1, <1>3 DEF Incoming
  <2> QED BY <1>1, <1>2, <1>3, <2>1, Requests DEF AwaitsAck, Codes
<1>5. wire'[Client] = <<>> \o <<Req("ACK")>> /\ wire'[Server] = Tail(wire[Server])
  BY <1>1, <1>3, <1>4, WireStep DEF GetAck, Incoming
<1>6. wire'[Client] = <<Req("ACK")>> /\ wire'[Server] = <<>>
  BY <1>3, <1>5
<1>7. /\ script' = script /\ done' = done /\ want' = want
      /\ pc'[Client] = "idle" /\ pc'[Server] = pc[Server]
  BY <1>1, <1>4 DEF GetAck, Goto, TypeOK
<1>8. ~Asking(Client)' /\ Between(Client)' /\ AwaitsAck(Server)'
  BY <1>3, <1>7 DEF Asking, Between, AwaitsAck
<1>9. wire'[Client] = <<Req("ACK")>> \o <<>>
  BY <1>6
<1> QED BY <1>3, <1>6, <1>7, <1>8, <1>9 DEF LastAck

\* The server takes it; until then the client may begin its first operation.
LEMMA LastAckStep ==
  ASSUME TypeOK, Alive, LastAck, NEW s \in Sides, Step(s)
  PROVE  (LastAck \/ Free)' /\ script' = script /\ done' = done
<1>1. Server \in Sides /\ Client \in Sides /\ Other(Server) = Client
      /\ Other(Client) = Server /\ Server # Client /\ s \in {Server, Client}
  BY SidesAssumption DEF Sides, Other
<1> DEFINE ahead == IF Asking(Client) THEN <<Req("SLN")>> ELSE <<>>
<1>2. wire[Server] = <<>> /\ wire[Client] = <<Req("ACK")>> \o ahead /\ AwaitsAck(Server)
  BY DEF LastAck
<1>3. CASE s = Server
  <2>1. Incoming(Server) # <<>> /\ Head(Incoming(Server)) = Req("ACK") /\ Tail(Incoming(Server)) = ahead
    <3>1. Req("ACK") \in Items /\ Req("SLN") \in Items
      BY ItemsTyped DEF Codes
    <3>2. ahead \in Seq(Items)
      BY <3>1
    <3> HIDE DEF ahead
    <3>3. Splits(<<Req("ACK")>> \o ahead, Req("ACK"), ahead)
      BY <3>1, <3>2, SplitsFirst, Zenon
    <3> QED BY <1>1, <1>2, <3>3, Zenon DEF Incoming, Splits
  <2>2. GetAck(Server)
    BY <1>2, <1>3, <2>1, Requests DEF AwaitsAck, Codes
  <2>3. wire'[Server] = <<>> \o <<>> /\ wire'[Client] = ahead
    BY <1>1, <1>2, <2>1, <2>2, WireStep DEF GetAck
  <2>4. wire'[Server] = <<>>
    BY <2>3
  <2>5. script' = script /\ done' = done /\ pc'[Server] = "idle"
    BY <1>1, <2>2 DEF GetAck, Goto, TypeOK
  <2>6. Between(Client)' /\ (Asking(Client)' = Asking(Client))
    BY <1>1, <1>3, OtherSame DEF LastAck
  <2>7. ~Asking(Server)' /\ Between(Server)'
    BY <2>5 DEF Asking, Between
  <2>8. Asked(Server, wire[Server])' /\ Asked(Client, wire[Client])'
    BY <2>3, <2>4, <2>6, <2>7 DEF Asked
  <2>9. Len(done'[Server]) = Len(done'[Client])
    BY <1>1, <2>5 DEF LastAck
  <2> QED BY <2>5, <2>6, <2>7, <2>8, <2>9 DEF Free, Sides
<1>4. CASE s = Client
  <2>1. pc[Client] = "idle"
    <3>1. pc[Client] \in {"idle", "await"}
      BY DEF LastAck, Between
    <3> QED BY <1>1, <1>2, <1>4, <3>1, NothingToRead DEF Incoming
  <2>2. /\ script' = script /\ done' = done /\ wire'[Server] = wire[Server]
        /\ Between(Client)'
        /\ IF Asking(Client)' THEN wire'[Client] = wire[Client] \o <<Req("SLN")>>
                              ELSE wire' = wire
    BY <1>1, <1>4, <2>1, Begins
  <2>3. wire[Client] = <<Req("ACK")>> \o <<>>
    BY <1>2, <2>1 DEF Asking
  <2>4. wire'[Client] = <<Req("ACK")>> \o (IF Asking(Client)' THEN <<Req("SLN")>> ELSE <<>>)
    <3> DEFINE e == Req("ACK") f == Req("SLN")
    <3>1. /\ wire[Client] = <<e>> \o <<>>
          /\ IF Asking(Client)' THEN wire'[Client] = wire[Client] \o <<f>>
                                ELSE wire'[Client] = wire[Client]
      BY <2>2, <2>3
    <3> HIDE DEF e, f
    <3>2. wire'[Client] = <<e>> \o (IF Asking(Client)' THEN <<f>> ELSE <<>>)
      <4>1. CASE Asking(Client)'
        <5>1. (<<e>> \o <<>>) \o <<f>> = <<e>> \o <<f>>
          OBVIOUS
        <5> QED BY <3>1, <4>1, <5>1
      <4>2. CASE ~Asking(Client)'
        BY <3>1, <4>2
      <4> QED BY <4>1, <4>2
    <3> QED BY <3>2 DEF e, f
  <2>5. pc'[Server] = pc[Server] /\ want'[Server] = want[Server]
    BY <1>1, <1>4, StepFrame
  <2>6. AwaitsAck(Server)'
    BY <1>2, <2>5 DEF AwaitsAck
  <2> QED BY <1>2, <2>2, <2>4, <2>6 DEF LastAck
<1> QED BY <1>1, <1>3, <1>4

\* Between two transfers a request is answered, dropped by a peer that asks
\* too, or written.
LEMMA FreeStep ==
  ASSUME TypeOK, Alive, Free, NEW s \in Sides, Step(s)
  PROVE  /\ Free' \/ \E x \in Sides : Answered(x)'
         /\ script' = script /\ done' = done
<1> DEFINE r == Other(s)
<1>1. r \in Sides /\ r # s /\ Other(r) = s /\ Sides = {s, r} /\ Server \in Sides /\ Client \in Sides
  BY TwoSides DEF Sides
<1>2. /\ Between(s) /\ Between(r) /\ Asked(s, wire[s]) /\ Asked(r, wire[r])
      /\ Len(done[s]) = Len(done[r])
  BY <1>1 DEF Free, Sides
<1>3. /\ script' = script /\ pc'[r] = pc[r] /\ done'[r] = done[r]
      /\ Between(r)' = Between(r) /\ Asking(r)' = Asking(r)
      /\ Current(r)' = Current(r) /\ Working(r, "SEND")' = Working(r, "SEND")
  BY OtherSame
<1>4. Between(r)' /\ (Asking(r)' <=> Asking(r))
  BY <1>2, <1>3
<1>5. ASSUME Len(done'[s]) = Len(done'[r]), Between(s)', Asked(s, wire[s])', Asked(r, wire[r])'
      PROVE  Free'
  BY <1>1, <1>4, <1>5 DEF Free, Sides
<1>6. CASE pc[s] = "idle"
  <2>1. /\ script' = script /\ done' = done /\ wire'[r] = wire[r] /\ Between(s)'
        /\ IF Asking(s)' THEN wire'[s] = wire[s] \o <<Req("SLN")>> ELSE wire' = wire
    BY <1>6, Begins
  <2>2. ~Asking(s) /\ wire[s] = <<>>
    BY <1>2, <1>6 DEF Asking, Asked
  <2>3. <<>> \o <<Req("SLN")>> = <<Req("SLN")>>
    OBVIOUS
  <2>4. Asked(s, wire[s])'
    BY <2>1, <2>2, <2>3 DEF Asked
  <2>5. Asked(r, wire[r])'
    BY <1>1, <1>2, <1>4, <2>1, <2>2 DEF Asked
  <2> QED BY <1>2, <1>5, <2>1, <2>4, <2>5
<1>7. CASE pc[s] = "await"
  <2>1. Incoming(s) = wire[r]
    BY DEF Incoming
  <2>2. wire[r] # <<>>
    BY <1>7, <2>1, NothingToRead
  <2>3. wire[r] = <<Req("SLN")>> /\ Asking(r) /\ Working(r, "SEND")
    BY <1>2, <2>2 DEF Asked, Between, Asking
  <2>4. Head(wire[r]) = Req("SLN") /\ Tail(wire[r]) = <<>>
    BY <2>3
  <2>5. (want[s] # "SLN" /\ Discard(s)) \/ GetSln(s)
    BY <1>7, <2>1, <2>2, <2>4, Requests DEF Codes
  <2>6. CASE want[s] # "SLN" /\ Discard(s)
    <3>1. /\ script' = script /\ done' = done /\ pc' = pc /\ want' = want
          /\ wire'[r] = <<>> /\ wire'[s] = wire[s]
      BY <2>1, <2>4, <2>6, WireStep DEF Discard
    <3>2. Asking(s) /\ Working(s, "SEND")
      BY <1>2, <1>7, <2>6 DEF Between, Asking
    <3>3. Asking(s)' /\ Between(s)'
      BY <3>1, <3>2, SameOp DEF Asking, Between
    <3>4. Asked(r, wire[r])'
      BY <1>1, <3>1, <3>3 DEF Asked
    <3>5. Asked(s, wire[s])'
      BY <1>2, <1>4, <2>3, <3>1, <3>2, <3>3 DEF Asked
    <3> QED BY <1>2, <1>5, <3>1, <3>3, <3>4, <3>5
  <2>7. CASE GetSln(s)
    <3>1. want[s] = "SLN" /\ ~Asking(s)
      BY <2>7 DEF GetSln, Asking
    <3>2. Working(s, "RECV") /\ avail[s] = Current(s).len /\ wire[s] = <<>>
      BY <1>2, <1>7, <3>1 DEF Between, Asked
    <3>3. /\ script' = script /\ done' = done /\ pc'[s] = "rx"
          /\ got'[s] = <<>> /\ left'[s] = Current(s).len
      BY <2>7 DEF GetSln, Goto, TypeOK
    <3>4. wire'[r] = <<>> /\ wire'[s] = <<>> \o Answer(s)
      BY <2>1, <2>4, <2>7, <3>2, WireStep DEF GetSln
    <3>5. wire'[s] = <<Req("RLN"), Avail(Current(s).len)>>
      BY <3>2, <3>4 DEF Answer
    <3>6. Working(s, "RECV")' /\ Current(s)' = Current(s)
      BY <3>2, <3>3, SameOp
    <3>7. Asking(r)' /\ Working(r, "SEND")'
      BY <1>3, <1>4, <2>3
    <3>8. Answered(r)'
      BY <1>1, <1>2, <3>3, <3>4, <3>5, <3>6, <3>7 DEF Answered
    <3> QED BY <1>1, <3>3, <3>8
  <2> QED BY <2>5, <2>6, <2>7
<1> QED BY <1>2, <1>6, <1>7 DEF Between

\* The answer is read; the sender is refused or begins.
LEMMA AnsweredStep ==
  ASSUME TypeOK, Alive, NEW a \in Sides, Answered(a), NEW s \in Sides, Step(s)
  PROVE  /\ Answered(a)' \/ (Working(a, "SEND") /\ Sending(a, 0))'
         /\ script' = script /\ done' = done
<1> DEFINE b == Other(a) room == Current(b).len
<1>1. b \in Sides /\ b # a /\ Other(b) = a /\ Sides = {a, b}
  BY TwoSides
<1>2. /\ Len(done[a]) = Len(done[b]) /\ Working(a, "SEND") /\ Working(b, "RECV")
      /\ pc[b] = "rx" /\ got[b] = <<>> /\ left[b] = room /\ wire[a] = <<>>
  BY DEF Answered
<1>3. s = a
  BY <1>1, <1>2, NothingToRead DEF Incoming
<1>4. /\ script' = script /\ pc'[b] = pc[b] /\ done'[b] = done[b]
      /\ got'[b] = got[b] /\ left'[b] = left[b]
      /\ Number(b)' = Number(b) /\ Current(b)' = Current(b)
      /\ Working(b, "RECV")' = Working(b, "RECV")
  BY <1>3, OtherSame
<1>5. Incoming(a) = wire[b]
  BY DEF Incoming
<1>6. CASE Asking(a) /\ wire[b] = <<Req("RLN"), Avail(room)>>
  <2>1. wire[b] # <<>> /\ Head(wire[b]) = Req("RLN") /\ Tail(wire[b]) = <<Avail(room)>>
    BY <1>6
  <2>2. GetRln(a)
    BY <1>3, <1>5, <1>6, <2>1, Requests DEF Asking, Codes
  <2>3. /\ script' = script /\ done' = done /\ pc'[a] = "avail"
        /\ wire'[b] = <<Avail(room)>> /\ wire'[a] = wire[a]
    BY <1>5, <2>1, <2>2, WireStep DEF GetRln, Goto, TypeOK
  <2>4. Working(a, "SEND")'
    BY <1>2, <2>3, SameOp
  <2> QED BY <1>2, <1>4, <2>3, <2>4 DEF Answered
<1>7. CASE pc[a] = "avail" /\ wire[b] = <<Avail(room)>>
  <2>1. wire[b] # <<>> /\ Head(wire[b]) = Avail(room) /\ Tail(wire[b]) = <<>>
    BY <1>7
  <2>2. Head(wire[b]).kind = "avail" /\ Head(wire[b]).val = room
    BY <2>1 DEF Avail
  <2>3. Arrived(a, "avail") /\ ~Eof(a)
    BY <1>5, <2>1, <2>2 DEF Arrived, Eof
  <2>4. GetAvail(a)
    BY <1>3, <1>7, <2>3, StepByPc DEF GoAstray, Expected
  <2>5. Consume(a) /\ avail'[a] = room /\ script' = script /\ done' = done /\ pc'[a] = "check"
    BY <1>5, <2>2, <2>3, <2>4 DEF GetAvail, Goto, TypeOK
  <2>6. wire'[b] = <<>> /\ wire'[a] = wire[a]
    BY <1>5, <2>1, <2>5, WireStep
  <2>7. Working(a, "SEND")'
    BY <1>2, <2>5, SameOp
  <2> QED BY <1>2, <1>4, <2>5, <2>6, <2>7 DEF Answered
<1>8. CASE pc[a] = "check" /\ wire[b] = <<>> /\ avail[a] = room
  <2>1. CheckRoom(a)
    BY <1>3, <1>8, StepByPc
  <2>2. script' = script /\ done' = done /\ wire' = wire
    BY <2>1 DEF CheckRoom
  <2>3. Working(a, "SEND")' /\ Current(a)' = Current(a) /\ Number(a)' = Number(a)
    BY <1>2, <2>2, SameOp
  <2>4. CASE ~Fits(a)
    <3>1. pc'[a] = "stuck" /\ Current(a).len > room
      <4>1. Current(a).len \in Nat /\ room \in Nat
        BY <1>1, <1>2, CurrentOp DEF Working
      <4> QED BY <1>8, <2>1, <2>4, <4>1 DEF CheckRoom, Goto, TypeOK, Fits
    <3> QED BY <1>2, <1>4, <1>8, <2>2, <2>3, <3>1 DEF Answered
  <2>5. CASE Fits(a)
    <3> DEFINE len == Current(a).len k == Number(a)
    <3>1. pc'[a] = "tx" /\ left'[a] = len /\ len <= room
      BY <1>8, <2>1, <2>5 DEF CheckRoom, Goto, TypeOK, Fits
    <3>2. k \in Nat \ {0} /\ len \in Nat \ {0} /\ room \in Nat \ {0} /\ k <= Len(script[a])
      BY <1>1, <1>2, CurrentOp DEF Working
    <3>3. Number(b) = k /\ Message(b) = len /\ script[a][k].mode = "SEND"
      BY <1>1, <1>2 DEF Number, Message, Working, Current
    <3>4. Bytes(len, 0) = 0 /\ 0 < Pages(len)
      <4>1. len \in Nat \ {0} /\ 0 \in Nat
        BY <3>2
      <4> HIDE DEF len
      <4> QED BY <4>1, BytesOfPieces, PagesHold
    <3>5. Message(b)' = len
      BY <1>1, <1>4, <3>3 DEF Message
    <3>6. Len(got[b]) = 0 /\ got[b] = [i \in 1 .. 0 |-> Page(k, i, Size(len, i))]
      BY <1>2
    <3>7. Reader(b)'
      <4>1. left[b] = room - 0 /\ left[b] > 0
        BY <1>2, <3>2
      <4> HIDE DEF k, len, room
      <4> QED BY <1>1, <1>2, <1>4, <3>1, <3>2, <3>3, <3>4, <3>5, <3>6, <4>1 DEF Reader, room
    <3>8. Read(b)' = 0
      <4>1. Read(b)' = 2 * Len(got'[b]) + (IF pc'[b] = "rxdata" THEN 1 ELSE 0)
        BY DEF Read
      <4> QED BY <1>2, <1>4, <3>6, <4>1
    <3>9. wire'[a] = Segment(k, len, 0, 0) \o <<>>
      BY <1>2, <2>2 DEF Segment
    <3>10. Receiving(b, 0, <<>>)'
      BY <1>1, <1>4, <3>3, <3>5, <3>7, <3>8, <3>9 DEF Receiving
    <3>11. left'[a] = len - Bytes(len, 0)
      BY <3>1, <3>2, <3>4
    <3>12. 2 * 0 + (IF pc'[a] = "txdata" THEN 1 ELSE 0) = 0
      BY <3>1
    <3> QED BY <1>2, <1>8, <2>2, <2>3, <3>1, <3>4, <3>10, <3>11, <3>12 DEF Sending
  <2> QED BY <2>4, <2>5
<1>9. pc[a] # "stuck"
  BY <1>3, StepByPc
<1> QED BY <1>6, <1>7, <1>8, <1>9 DEF Answered

\* A step of the receiver, while the peer runs: it reads on, completes behind
\* the last piece, or takes the request that follows a short message for the
\* length of a page.
LEMMA ReaderStep ==
  ASSUME TypeOK, Alive, NEW r \in Sides, NEW sent \in Nat, NEW rest \in Rests,
         sent <= 2 * Pages(Message(r)), Receiving(r, sent, rest), Step(r)
  PROVE  /\ wire'[r] = wire[r]
         /\ \/ Receiving(r, sent, rest)' /\ done' = done
            \/ /\ sent = 2 * Pages(Message(r)) /\ Message(r) = Current(r).len
               /\ pc'[r] = "idle" /\ wire'[Other(r)] = rest
               /\ done'[r] = Append(done[r], [result |-> "ok",
                                              got |-> PagesOf(Number(r), Message(r))])
            \/ /\ rest = <<Req("SLN")>> /\ Read(r) = sent
               /\ pc'[r] = "astray" /\ done' = done
<1>1. Incoming(r) # <<>> /\ pc[r] \in {"rx", "rxdata"}
  BY NothingToRead DEF Receiving, Reader
<1>2. ~Eof(r)
  BY <1>1 DEF Eof
<1>3. CASE RxLen(r)
  BY <1>3, ReadsLength, WireStep DEF RxLen
<1>4. CASE RxPage(r)
  BY <1>4, ReadsPage, WireStep DEF RxPage
<1>5. CASE GoAstray(r)
  <2>1. pc'[r] = "astray" /\ done' = done /\ wire' = wire
    BY <1>5 DEF GoAstray, Goto, TypeOK
  <2>2. \/ Read(r) = sent /\ rest = <<Req("SLN")>>
        \/ Head(Incoming(r)) = (IF pc[r] = "rx"
                                THEN PLen(Size(Message(r), Len(got[r]) + 1))
                                ELSE Page(Number(r), Len(got[r]) + 1, Size(Message(r), Len(got[r]) + 1)))
    BY <1>1, HeadIsExpected
  <2>3. pc[r] = "rx" => Head(Incoming(r)).kind # "plen"
    BY <1>1, <1>5 DEF GoAstray, Expected, Arrived
  <2>4. pc[r] = "rxdata" => Head(Incoming(r)).kind # "page"
    BY <1>1, <1>5 DEF GoAstray, Expected, Arrived
  <2>5. Read(r) = sent /\ rest = <<Req("SLN")>>
    <3>1. CASE pc[r] = "rx"
      BY <2>2, <2>3, <3>1 DEF PLen
    <3>2. CASE pc[r] = "rxdata"
      BY <2>2, <2>4, <3>2 DEF Page
    <3> QED BY <1>1, <3>1, <3>2
  <2> QED BY <2>1, <2>5
<1> QED BY <1>1, <1>2, <1>3, <1>4, <1>5, StepByPc DEF RxEofLen, RxEofPage, RxReset

\* The operation an end has completed is a send, or what it has stored is
\* what the peer sent.
LEMMA AddsReceived ==
  ASSUME TypeOK, ReceivedIsSent, Alive, NEW s \in Sides, NEW d,
         script' = script, done'[Other(s)] = done[Other(s)], done'[s] = Append(done[s], d),
         script[s][Number(s)].mode = "RECV" =>
           /\ d.result = "ok" /\ Number(s) <= Len(script[Other(s)])
           /\ script[Other(s)][Number(s)].mode = "SEND"
           /\ d.got = PagesOf(Number(s), script[Other(s)][Number(s)].len)
  PROVE  ReceivedIsSent'
<1>1. Other(s) \in Sides /\ Sides = {s, Other(s)}
  BY TwoSides
<1> SUFFICES ASSUME NEW x \in Sides, NEW k \in DOMAIN done'[x], script[x][k].mode = "RECV"
             PROVE  /\ done'[x][k].result = "ok"
                    /\ k <= Len(script[Other(x)]) /\ script[Other(x)][k].mode = "SEND"
                    /\ done'[x][k].got = PagesOf(k, script[Other(x)][k].len)
  BY DEF ReceivedIsSent
<1>2. \A y \in Sides : \A i \in DOMAIN done[y] : script[y][i].mode = "RECV" =>
        /\ done[y][i].result = "ok"
        /\ i <= Len(script[Other(y)]) /\ script[Other(y)][i].mode = "SEND"
        /\ done[y][i].got = PagesOf(i, script[Other(y)][i].len)
  BY DEF ReceivedIsSent, Gone, Alive
<1>3. CASE x = Other(s)
  BY <1>2, <1>3
<1>4. CASE x = s
  <2>1. done[s] \in Seq([result : {"ok", "failed"}, got : Seq(Items)])
    BY DEF TypeOK
  <2> DEFINE R == [result : {"ok", "failed"}, got : Seq(Items)]
             D == R \cup {d}
             w == done[s]
  <2>2. w \in Seq(D) /\ d \in D /\ done'[x] = Append(w, d)
    <3> HIDE DEF R
    <3>1. R \subseteq D /\ w \in Seq(R)
      BY <2>1 DEF R
    <3> HIDE DEF D, w
    <3>2. w \in Seq(D)
      BY <3>1
    <3> QED BY <1>4, <3>2 DEF D, w
  <2>3. Number(s) = Len(w) + 1
    BY DEF Number
  <2> HIDE DEF D, w
  <2>4. k \in 1 .. Len(w) + 1 /\ Len(w) \in Nat
    BY <2>2
  <2>5. CASE k = Len(w) + 1
    <3>1. done'[x][k] = d
      BY <2>2, <2>5
    <3> QED BY <1>4, <2>3, <2>5, <3>1
  <2>6. CASE k # Len(w) + 1
    <3>1. done'[x][k] = w[k] /\ k \in DOMAIN w
      BY <2>2, <2>4, <2>6
    <3> QED BY <1>2, <1>4, <3>1 DEF w
  <2> QED BY <2>5, <2>6
<1> QED BY <1>1, <1>3, <1>4

\* What both ends know while a message is sent.
LEMMA SendingFacts ==
  ASSUME TypeOK, NEW a \in Sides, NEW i \in Nat, Sending(a, i), NEW b, b = Other(a)
  PROVE  /\ Number(a) \in Nat \ {0} /\ Number(b) = Number(a)
         /\ Current(a).len \in Nat \ {0} /\ Message(b) = Current(a).len
         /\ Number(a) <= Len(script[a]) /\ script[a][Number(a)].mode = "SEND"
         /\ i * P \in Nat /\ left[a] = Current(a).len - i * P
         /\ Size(Current(a).len, i + 1) = Piece(a)
         /\ Piece(a) \in 1 .. left[a]
         /\ LeftAfter(a, Piece(a)) = Current(a).len - Bytes(Current(a).len, i + 1)
         /\ i + 1 < Pages(Current(a).len) <=> LeftAfter(a, Piece(a)) # 0
         /\ i + 1 <= Pages(Current(a).len)
<1>1. b \in Sides /\ Other(b) = a
  BY TwoSides
<1>2. /\ Number(a) \in Nat \ {0} /\ Current(a).len \in Nat \ {0} /\ Number(a) <= Len(script[a])
      /\ script[a][Number(a)].mode = "SEND"
  BY CurrentOp DEF Sending, Working, Current
<1>3. Number(b) = Number(a) /\ Message(b) = Current(a).len
  BY <1>1 DEF Sending, Number, Message, Current
<1> DEFINE len == Current(a).len
<1>4. i < Pages(len) /\ left[a] = len - Bytes(len, i) /\ len \in Nat \ {0}
  BY <1>2 DEF Sending
<1>5. i + 1 \in Nat /\ Pages(len) \in Nat
  BY <1>4, PagesHold
<1>6. i * P \in Nat
  BY PageAssumption, ProductOrder
<1>7. Piece(a) = Least(P, left[a]) /\ LeftAfter(a, Piece(a)) = left[a] - Piece(a)
  BY DEF Piece, LeftAfter
<1> HIDE DEF len
<1>8. /\ Bytes(len, i) = i * P /\ Bytes(len, i) < len
      /\ Size(len, i + 1) = Least(P, len - Bytes(len, i))
      /\ Size(len, i + 1) \in 1 .. len - Bytes(len, i)
      /\ Bytes(len, i + 1) = Bytes(len, i) + Size(len, i + 1)
  BY <1>4, BytesOfPieces
<1>9. Size(len, i + 1) = Piece(a) /\ left[a] = len - i * P
  BY <1>4, <1>7, <1>8
<1>10. Piece(a) \in 1 .. left[a] /\ LeftAfter(a, Piece(a)) = len - Bytes(len, i + 1)
  BY <1>4, <1>6, <1>7, <1>8, <1>9
<1>11. i + 1 < Pages(len) => Bytes(len, i + 1) < len
  BY <1>4, <1>5, BytesOfPieces
<1>12. Pages(len) <= i + 1 => Bytes(len, i + 1) = len
  BY <1>4, <1>5, BytesOfPieces
<1>13. i + 1 < Pages(len) <=> LeftAfter(a, Piece(a)) # 0
  BY <1>4, <1>5, <1>6, <1>8, <1>10, <1>11, <1>12
<1> QED BY <1>2, <1>3, <1>4, <1>5, <1>6, <1>9, <1>10, <1>13 DEF len

\* The sender writes the next item of the message.
LEMMA SenderWrites ==
  ASSUME TypeOK, NEW a \in Sides, NEW sent \in Nat, Step(a),
         Receiving(Other(a), sent, <<>>),
         Transmit(a, <<Item(Number(Other(a)), Message(Other(a)), sent + 1)>>)
  PROVE  Receiving(Other(a), sent + 1, <<>>)' /\ wire'[Other(a)] = wire[Other(a)]
<1> DEFINE b == Other(a) k == Number(b) len == Message(b) w == Read(b)
<1>1. b \in Sides /\ Other(b) = a
  BY TwoSides
<1>2. /\ Reader(b) /\ w <= sent /\ w \in Nat
      /\ wire[a] = Segment(k, len, w, sent) \o <<>>
  BY <1>1, ReaderFacts DEF Receiving
<1>3. /\ Number(b)' = k /\ Message(b)' = len /\ Read(b)' = w /\ (Reader(b)' = Reader(b))
  BY OtherSame
<1>4. wire'[a] = wire[a] \o <<Item(k, len, sent + 1)>> /\ wire'[b] = wire[b]
  BY WireStep
<1>5. wire'[a] = Segment(k, len, w, sent + 1) \o <<>>
  <2> HIDE DEF k, len, w
  <2>1. (Segment(k, len, w, sent) \o <<>>) \o <<Item(k, len, sent + 1)>>
          = Segment(k, len, w, sent + 1) \o <<>>
    BY <1>2, SegmentWrite, Zenon
  <2> QED BY <1>2, <1>4, <2>1
<1>6. w <= sent + 1
  <2> HIDE DEF w
  <2> QED BY <1>2
<1> QED BY <1>1, <1>2, <1>3, <1>4, <1>5, <1>6 DEF Receiving

\* A message is sent, piece by piece, into a stream the receiver reads.
LEMMA SendingStep ==
  ASSUME TypeOK, Alive, ReceivedIsSent, NEW a \in Sides, NEW i \in Nat, Sending(a, i),
         NEW s \in Sides, Step(s)
  PROVE  /\ Sent(a)' \/ Sending(a, i)' \/ Sending(a, i + 1)'
         /\ script' = script /\ ReceivedIsSent'
<1> DEFINE b == Other(a) len == Current(a).len k == Number(a)
<1>0. PICK sent \in Nat : sent = 2 * i + (IF pc[a] = "txdata" THEN 1 ELSE 0)
  OBVIOUS
<1>1. b \in Sides /\ b # a /\ Other(b) = a /\ Sides = {a, b}
  BY TwoSides
<1>2. /\ Len(done[a]) = Len(done[b]) /\ Working(a, "SEND") /\ pc[a] \in {"tx", "txdata"}
      /\ i < Pages(len) /\ left[a] = len - Bytes(len, i)
      /\ Receiving(b, sent, <<>>) /\ wire[b] = <<>>
  BY <1>0 DEF Sending
<1>3. sent <= 2 * i + 1
  <2>1. CASE pc[a] = "tx"
    BY <1>0, <2>1
  <2>2. CASE pc[a] = "txdata"
    BY <1>0, <2>2
  <2> QED BY <1>2, <2>1, <2>2
<1>4. k \in Nat \ {0} /\ len \in Nat \ {0} /\ Number(b) = k /\ Message(b) = len
  BY SendingFacts
<1>5. Pages(len) \in Nat
  BY <1>4, PagesHold
<1>6. CASE s = b
  <2>1. /\ script' = script /\ pc'[a] = pc[a] /\ done'[a] = done[a] /\ left'[a] = left[a]
        /\ Current(a)' = Current(a) /\ (Working(a, "SEND")' = Working(a, "SEND"))
    BY <1>1, <1>6, OtherSame
  <2>2. sent <= 2 * Pages(Message(b)) /\ sent # 2 * Pages(Message(b)) /\ <<>> \in Rests
    BY <1>2, <1>3, <1>4, <1>5 DEF Rests
  <2>3. <<>> # <<Req("SLN")>>
    OBVIOUS
  <2>4. wire'[b] = wire[b] /\ Receiving(b, sent, <<>>)' /\ done' = done
    BY <1>1, <1>2, <1>6, <2>2, <2>3, ReaderStep
  <2>5. Sending(a, i)'
    BY <1>0, <1>2, <2>1, <2>4 DEF Sending
  <2> QED BY <2>1, <2>4, <2>5, KeepsReceived
<1>7. CASE s = a /\ pc[a] = "tx"
  <2>1. TxLen(a)
    BY <1>1, <1>7, StepByPc DEF TxFail, Alive
  <2>2. sent = 2 * i
    BY <1>0, <1>7
  <2>3. Item(Number(b), Message(b), sent + 1) = PLen(Piece(a))
    <3>1. Item(k, len, 2 * i + 1) = PLen(Size(len, i + 1)) /\ Size(len, i + 1) = Piece(a)
      BY ItemPair, SendingFacts
    <3> QED BY <1>4, <2>2, <3>1
  <2>4. Transmit(a, <<Item(Number(b), Message(b), sent + 1)>>)
    BY <2>1, <2>3 DEF TxLen
  <2>5. Receiving(b, sent + 1, <<>>)' /\ wire'[b] = wire[b]
    BY <1>2, <1>7, <2>4, SenderWrites
  <2>6. script' = script /\ done' = done /\ pc'[a] = "txdata" /\ left' = left
    BY <2>1 DEF TxLen, Goto, TypeOK
  <2>7. Working(a, "SEND")' /\ Current(a)' = Current(a)
    BY <1>2, <2>6, SameOp
  <2>8. 2 * i + (IF pc'[a] = "txdata" THEN 1 ELSE 0) = sent + 1
    BY <2>2, <2>6
  <2>9. Sending(a, i)'
    BY <1>2, <2>5, <2>6, <2>7, <2>8 DEF Sending
  <2> QED BY <2>6, <2>9, KeepsReceived
<1>8. CASE s = a /\ pc[a] = "txdata"
  <2>1. TxPage(a)
    BY <1>1, <1>8, StepByPc DEF TxFail, Alive
  <2>2. sent = 2 * i + 1 /\ sent + 1 = 2 * i + 2
    BY <1>0, <1>8
  <2>3. (len - left[a]) \div P + 1 = i + 1
    <3>1. i * P \in Nat /\ left[a] = len - i * P
      BY SendingFacts
    <3>2. len - left[a] = i * P
      BY <1>4, <3>1
    <3> QED BY <3>2, DivProduct, PageAssumption
  <2>4. Item(Number(b), Message(b), sent + 1) = Page(k, (len - left[a]) \div P + 1, Piece(a))
    <3>1. Item(k, len, 2 * i + 2) = Page(k, i + 1, Size(len, i + 1)) /\ Size(len, i + 1) = Piece(a)
      BY ItemPair, SendingFacts
    <3> QED BY <1>4, <2>2, <2>3, <3>1
  <2>5. Transmit(a, <<Item(Number(b), Message(b), sent + 1)>>)
    BY <2>1, <2>4 DEF TxPage
  <2>6. Receiving(b, sent + 1, <<>>)' /\ wire'[b] = wire[b]
    BY <1>2, <1>8, <2>5, SenderWrites
  <2>7. /\ script' = script /\ done'[b] = done[b] /\ Number(b)' = k /\ Message(b)' = len
    BY <1>4, <1>8, OtherSame
  <2>8. /\ Proceed(a, Piece(a), "tx") /\ left'[a] = LeftAfter(a, Piece(a))
    BY <2>1 DEF TxPage, Proceed, TypeOK
  <2>9. CASE LeftAfter(a, Piece(a)) # 0
    <3>1. done' = done /\ pc'[a] = "tx"
      BY <2>8, <2>9 DEF Proceed, Goto, TypeOK
    <3>2. Working(a, "SEND")' /\ Current(a)' = Current(a)
      BY <1>2, <2>7, <3>1, SameOp
    <3>3. i + 1 < Pages(len) /\ left'[a] = len - Bytes(len, i + 1)
      BY <2>8, <2>9, SendingFacts
    <3>4. 2 * (i + 1) + (IF pc'[a] = "txdata" THEN 1 ELSE 0) = sent + 1
      BY <2>2, <3>1
    <3>5. Sending(a, i + 1)'
      BY <1>2, <2>6, <3>1, <3>2, <3>3, <3>4 DEF Sending
    <3> QED BY <2>7, <3>1, <3>5, KeepsReceived
  <2>10. CASE LeftAfter(a, Piece(a)) = 0
    <3> DEFINE d == [result |-> "ok", got |-> got'[a]]
    <3>1. done'[a] = Append(done[a], d) /\ pc'[a] = "idle"
      BY <2>8, <2>10 DEF Proceed, Complete, Goto, TypeOK
    <3>2. Len(done'[a]) = Len(done'[b]) + 1
      <4>1. done[a] \in Seq([result : {"ok", "failed"}, got : Seq(Items)])
        BY DEF TypeOK
      <4> HIDE DEF d
      <4>2. Len(done'[a]) = Len(done[a]) + 1
        BY <3>1, <4>1
      <4> QED BY <1>2, <2>7, <4>2
    <3>3. Between(a)' /\ Ahead(a)' = <<>>
      BY <3>1 DEF Between, Ahead, Asking
    <3>4. sent + 1 = 2 * Pages(Message(b)')
      <4>1. i + 1 = Pages(len)
        BY <1>5, <2>10, SendingFacts
      <4> QED BY <2>2, <2>7, <4>1
    <3>5. Sent(a)'
      BY <1>2, <2>6, <3>2, <3>3, <3>4 DEF Sent
    <3>6. script[a][Number(a)].mode = "SEND"
      BY SendingFacts
    <3>7. ReceivedIsSent'
      <4> HIDE DEF d
      <4> QED BY <2>7, <3>1, <3>6, AddsReceived
    <3> QED BY <2>7, <3>5, <3>7
  <2> QED BY <2>9, <2>10
<1> QED BY <1>1, <1>2, <1>6, <1>7, <1>8

\* The rest of a message is read while its sender goes on; a message shorter
\* than the receive leads it astray at the next request.
LEMMA SentStep ==
  ASSUME TypeOK, Alive, ReceivedIsSent, NEW a \in Sides, Sent(a), NEW s \in Sides, Step(s)
  PROVE  /\ Sent(a)' \/ Free' \/ Astray(a)'
         /\ script' = script /\ ReceivedIsSent'
<1> DEFINE b == Other(a) len == Message(b)
<1>1. b \in Sides /\ b # a /\ Other(b) = a /\ Sides = {a, b}
  BY TwoSides
<1>2. /\ Len(done[a]) = Len(done[b]) + 1 /\ Between(a) /\ wire[b] = <<>>
      /\ Receiving(b, 2 * Pages(len), Ahead(a))
  BY DEF Sent
<1>3. /\ Number(b) \in Nat \ {0} /\ len \in Nat \ {0} /\ Current(b).len \in Nat \ {0}
      /\ len <= Current(b).len /\ Len(got[b]) \in Nat /\ Read(b) \in Nat
      /\ pc[b] = "rx" => Read(b) = 2 * Len(got[b])
      /\ pc[b] = "rxdata" => Read(b) = 2 * Len(got[b]) + 1
      /\ pc[b] \in {"rx", "rxdata"}
  BY <1>1, <1>2, ReaderFacts DEF Receiving, Reader
<1>4. Pages(len) \in Nat /\ 2 * Pages(len) \in Nat /\ Ahead(a) \in Rests
  BY <1>3, PagesHold DEF Rests, Ahead
<1>4a. PICK sent \in Nat : sent = 2 * Pages(len)
  BY <1>4
<1>4b. PICK rest \in Rests : rest = Ahead(a)
  BY <1>4
<1>4c. Receiving(b, sent, rest)
  BY <1>2, <1>4a, <1>4b
<1>5. CASE s = a
  <2>1. pc[a] = "idle"
    BY <1>2, <1>5, NothingToRead DEF Between, Incoming
  <2>2. /\ script' = script /\ done' = done /\ wire'[b] = wire[b]
        /\ Between(a)' /\ pc'[a] = "await"
        /\ IF Asking(a)' THEN wire'[a] = wire[a] \o <<Req("SLN")>> ELSE wire' = wire
    BY <1>5, <2>1, Begins
  <2>3. /\ Number(b)' = Number(b) /\ Message(b)' = len /\ Read(b)' = Read(b)
        /\ (Reader(b)' = Reader(b))
    BY <1>5, OtherSame
  <2>4. rest = <<>>
    BY <1>4b, <2>1 DEF Ahead, Asking
  <2>5. wire[a] = Segment(Number(b), len, Read(b), sent) \o <<>> /\ Read(b) <= sent
    BY <1>1, <1>4c, <2>4 DEF Receiving
  <2>6. wire'[a] = Segment(Number(b), len, Read(b), sent) \o (Ahead(a)')
    <3>1. CASE Asking(a)'
      <4>1. Ahead(a)' = <<Req("SLN")>>
        BY <3>1 DEF Ahead
      <4> HIDE DEF len
      <4>2. Segment(Number(b), len, Read(b), sent) \o <<>> = Segment(Number(b), len, Read(b), sent)
        BY <1>3, <2>5, SegmentWrite, Zenon
      <4> QED BY <2>2, <2>5, <3>1, <4>1, <4>2, Zenon
    <3>2. CASE ~Asking(a)'
      <4>1. Ahead(a)' = <<>>
        BY <3>2 DEF Ahead
      <4> QED BY <2>2, <2>5, <3>2, <4>1
    <3> QED BY <3>1, <3>2
  <2>7. Receiving(b, 2 * Pages(len), Ahead(a))'
    <3>1. Reader(b)'
      BY <1>4c, <2>3 DEF Receiving
    <3> QED BY <1>1, <1>4a, <2>3, <2>5, <2>6, <3>1 DEF Receiving
  <2>8. Sent(a)'
    BY <1>2, <2>2, <2>3, <2>7 DEF Sent
  <2> QED BY <2>2, <2>8, KeepsReceived
<1>6. CASE s = b
  <2>1. /\ script' = script /\ done'[a] = done[a]
        /\ (Between(a)' = Between(a)) /\ (Asking(a)' = Asking(a))
    BY <1>1, <1>6, OtherSame
  <2>2. Between(a)' /\ (Asking(a)' <=> Asking(a))
    BY <1>2, <2>1
  <2>3. Ahead(a)' = rest
    BY <1>4b, <2>2 DEF Ahead
  <2>4. /\ wire'[b] = wire[b]
        /\ \/ Receiving(b, sent, rest)' /\ done' = done
           \/ /\ len = Current(b).len
              /\ pc'[b] = "idle" /\ wire'[a] = rest
              /\ done'[b] = Append(done[b], [result |-> "ok", got |-> PagesOf(Number(b), len)])
           \/ /\ rest = <<Req("SLN")>> /\ Read(b) = sent
              /\ pc'[b] = "astray" /\ done' = done
    <3>1. sent <= 2 * Pages(Message(b))
      BY <1>4, <1>4a
    <3> QED BY <1>1, <1>4c, <1>6, <3>1, ReaderStep
  <2>5. CASE Receiving(b, sent, rest)' /\ done' = done
    <3>1. Message(b)' = len
      BY <2>1, <2>5, SameOp
    <3>2. Sent(a)'
      BY <1>2, <1>4a, <2>2, <2>3, <2>4, <2>5, <3>1 DEF Sent
    <3> QED BY <2>1, <2>5, <3>2, KeepsReceived
  <2>6. CASE /\ pc'[b] = "idle" /\ wire'[a] = rest
             /\ done'[b] = Append(done[b], [result |-> "ok", got |-> PagesOf(Number(b), len)])
    <3> DEFINE d == [result |-> "ok", got |-> PagesOf(Number(b), len)]
    <3>1. Len(done'[a]) = Len(done'[b])
      <4>1. done[b] \in Seq([result : {"ok", "failed"}, got : Seq(Items)])
        BY <1>1 DEF TypeOK
      <4> HIDE DEF d
      <4>2. Len(done'[b]) = Len(done[b]) + 1
        BY <2>6, <4>1 DEF d
      <4> QED BY <1>2, <2>1, <4>2
    <3>2. Between(b)' /\ ~Asking(b)'
      BY <2>6 DEF Between, Asking
    <3>3. Asked(a, wire[a])' /\ Asked(b, wire[b])'
      BY <1>2, <1>4b, <2>2, <2>4, <2>6, <3>2 DEF Asked, Ahead
    <3>4. Free'
      BY <1>1, <2>2, <3>1, <3>2, <3>3 DEF Free, Sides
    <3>5. ReceivedIsSent'
      <4>1. /\ d.result = "ok" /\ Number(b) <= Len(script[a])
            /\ script[a][Number(b)].mode = "SEND"
            /\ d.got = PagesOf(Number(b), script[a][Number(b)].len)
        BY <1>1, <1>2 DEF Receiving, Reader, Message
      <4>2. done'[b] = Append(done[b], d)
        BY <2>6
      <4> HIDE DEF d
      <4> QED BY <1>1, <2>1, <4>1, <4>2, AddsReceived
    <3> QED BY <2>1, <3>4, <3>5
  <2>7. CASE /\ rest = <<Req("SLN")>> /\ Read(b) = sent
             /\ pc'[b] = "astray" /\ done' = done
    <3>1. Asking(a)'
      BY <1>4b, <2>2, <2>7 DEF Ahead
    <3>2. Len(got[b]) = Pages(len)
      <4> HIDE DEF len
      <4> QED BY <1>3, <1>4, <1>4a, <2>7
    <3>3. Bytes(len, Pages(len)) = len
      <4> HIDE DEF len
      <4> QED BY <1>3, <1>4, BytesOfPieces
    <3>4. left[b] = Current(b).len - Bytes(len, Len(got[b])) /\ left[b] > 0
      BY <1>2 DEF Receiving, Reader
    <3>5. len < Current(b).len
      BY <1>3, <3>2, <3>3, <3>4
    <3>6. Number(b)' = Number(b) /\ Message(b)' = len /\ Current(b)' = Current(b)
      BY <2>1, <2>7, SameOp
    <3>7. Number(b) <= Len(script[a]) /\ Number(b) <= Len(script[b])
      BY <1>1, <1>2 DEF Receiving, Reader, Working
    <3>8. Astray(a)'
      BY <1>2, <2>1, <2>4, <2>7, <3>1, <3>5, <3>6, <3>7 DEF Astray
    <3> QED BY <2>1, <2>7, <3>8, KeepsReceived
  <2> QED BY <2>4, <2>5, <2>6, <2>7
<1> QED BY <1>1, <1>5, <1>6

\* Then both ends wait for ever.
LEMMA AstrayStep ==
  ASSUME Alive, NEW a \in Sides, Astray(a), NEW s \in Sides, Step(s)
  PROVE  FALSE
<1>1. Other(a) \in Sides /\ Sides = {a, Other(a)}
  BY TwoSides
<1>2. s # a
  BY NothingToRead DEF Astray, Asking, Incoming
<1>3. s # Other(a)
  BY <1>1, StepByPc DEF Astray
<1> QED BY <1>1, <1>2, <1>3

-----------------------------------------------------------------------------
(* When an end exits.                                                       *)

\* Streams without the length of a page.
LEMMA NoLengthsFacts ==
  /\ NoLengths(<<>>)
  /\ \A c : NoLengths(<<Req(c)>>)
  /\ \A c, n : NoLengths(<<Req(c), Avail(n)>>)
  /\ \A n : NoLengths(<<Avail(n)>>)
  /\ \A w \in Seq(Items) : w # <<>> /\ NoLengths(w) =>
       NoLengths(Tail(w)) /\ Head(w).kind # "plen"
<1>1. NoLengths(<<>>)
  BY DEF NoLengths
<1>2. ASSUME NEW e, e.kind # "plen"
      PROVE  NoLengths(<<e>>) /\ \A f : f.kind # "plen" => NoLengths(<<e, f>>)
  BY <1>2 DEF NoLengths
<1>3. \A c : Req(c).kind # "plen"
  BY DEF Req
<1>4. \A n : Avail(n).kind # "plen"
  BY DEF Avail
<1>5. ASSUME NEW w \in Seq(Items), w # <<>>, NoLengths(w)
      PROVE  NoLengths(Tail(w)) /\ Head(w).kind # "plen"
  BY <1>5 DEF NoLengths
<1> QED BY <1>1, <1>2, <1>3, <1>4, <1>5

\* In every phase the next length an end reads is one it has room for.
LEMMA PhasesBounded ==
  ASSUME TypeOK, Phases, NEW r \in Sides
  PROVE  Bounded(r)
<1> DEFINE e == Other(r)
<1>1. e \in Sides /\ e # r /\ Other(e) = r /\ Sides = {r, e}
  BY TwoSides
<1> USE NoLengthsFacts
<1>2. ASSUME pc[r] \notin {"rx", "rxdata"}, pc[r] = "astray" \/ NoLengths(wire[e])
      PROVE  Bounded(r)
  BY <1>2 DEF Bounded
<1>3. CASE Booting
  <2>1. pc[r] \in {"boot", "accept", "unconnected", "await"}
    BY <1>3 DEF Booting, AwaitsAck, Sides
  <2>2. wire[e] = <<>> \/ wire[e] = <<Req("ACK")>>
    BY <1>1, <1>3 DEF Booting, Sides
  <2> QED BY <1>2, <2>1, <2>2
<1>4. CASE LastAck
  <2>1. pc[r] \in {"idle", "await"}
    BY <1>4 DEF LastAck, AwaitsAck, Between, Sides
  <2>2. wire[e] = <<>> \/ wire[e] = <<Req("ACK")>> \o <<>> \/ wire[e] = <<Req("ACK")>> \o <<Req("SLN")>>
    BY <1>1, <1>4 DEF LastAck, Sides
  <2>3. NoLengths(<<Req("ACK")>> \o <<>>) /\ NoLengths(<<Req("ACK")>> \o <<Req("SLN")>>)
    <3> DEFINE x == Req("ACK") y == Req("SLN")
    <3>1. x.kind # "plen" /\ y.kind # "plen"
      BY DEF Req
    <3> HIDE DEF x, y
    <3>2. NoLengths(<<x>> \o <<>>) /\ NoLengths(<<x>> \o <<y>>)
      BY <3>1 DEF NoLengths
    <3> QED BY <3>2 DEF x, y
  <2> QED BY <1>2, <2>1, <2>2, <2>3
<1>5. CASE Free
  <2>1. pc[r] \in {"idle", "await"}
    BY <1>5 DEF Free, Between
  <2>2. wire[e] = <<>> \/ wire[e] = <<Req("SLN")>>
    BY <1>1, <1>5 DEF Free, Asked
  <2> QED BY <1>2, <2>1, <2>2
<1>6. CASE Answered(e)
  <2>1. pc[r] = "rx" /\ wire[e] = <<>> /\ left[r] = Current(r).len /\ Working(r, "RECV")
    BY <1>1, <1>6 DEF Answered
  <2>2. left[r] > 0
    BY <2>1, CurrentOp DEF Working
  <2> QED BY <2>1, <2>2 DEF Bounded
<1>7. CASE Answered(r)
  <2>1. pc[r] \in {"await", "avail", "check", "stuck"}
    BY <1>7 DEF Answered, Asking
  <2>2. NoLengths(wire[e])
    BY <1>7 DEF Answered
  <2> QED BY <1>2, <2>1, <2>2
<1>8. ASSUME NEW i \in Nat, Sending(e, i)
      PROVE  Bounded(r)
  <2>1. PICK n \in Nat : n = 2 * i + (IF pc[e] = "txdata" THEN 1 ELSE 0)
    OBVIOUS
  <2>2. Receiving(r, n, <<>>)
    BY <1>1, <1>8, <2>1 DEF Sending
  <2>3. n <= 2 * i + 1
    BY <2>1
  <2>4. Message(r) = Current(e).len /\ i + 1 <= Pages(Current(e).len) /\ Current(e).len \in Nat \ {0}
    BY <1>1, <1>8, SendingFacts
  <2>5. Pages(Message(r)) \in Nat
    BY <2>4, PagesHold
  <2>6. n \in 0 .. 2 * Pages(Message(r))
    BY <2>3, <2>4, <2>5
  <2>7. pc[r] \in {"rx", "rxdata"}
    BY <2>2 DEF Receiving, Reader
  <2>8. \E m \in 0 .. 2 * Pages(Message(r)), ask \in BOOLEAN :
          /\ ask => m = 2 * Pages(Message(r))
          /\ Receiving(r, m, IF ask THEN <<Req("SLN")>> ELSE <<>>)
    <3> WITNESS n \in 0 .. 2 * Pages(Message(r)), FALSE \in BOOLEAN
    <3> QED BY <2>2
  <2> QED BY <2>7, <2>8 DEF Bounded
<1>9. ASSUME NEW i \in Nat, Sending(r, i)
      PROVE  Bounded(r)
  BY <1>2, <1>9 DEF Sending
<1>10. CASE Sent(e)
  <2>1. Receiving(r, 2 * Pages(Message(r)), Ahead(e))
    BY <1>1, <1>10 DEF Sent
  <2>2. pc[r] \in {"rx", "rxdata"}
    BY <2>1 DEF Receiving, Reader
  <2>3. 2 * Pages(Message(r)) \in 0 .. 2 * Pages(Message(r))
    <3>1. Message(r) \in Nat \ {0}
      BY <2>1, ReaderFacts DEF Receiving
    <3>2. Pages(Message(r)) \in Nat
      BY <3>1, PagesHold
    <3> QED BY <3>2
  <2>4. Asking(e) \in BOOLEAN
    BY DEF Asking
  <2>5. \E m \in 0 .. 2 * Pages(Message(r)), ask \in BOOLEAN :
          /\ ask => m = 2 * Pages(Message(r))
          /\ Receiving(r, m, IF ask THEN <<Req("SLN")>> ELSE <<>>)
    <3> WITNESS 2 * Pages(Message(r)) \in 0 .. 2 * Pages(Message(r)), Asking(e) \in BOOLEAN
    <3> QED BY <2>1 DEF Ahead
  <2> QED BY <2>2, <2>5 DEF Bounded
<1>11. CASE Sent(r)
  BY <1>2, <1>11 DEF Sent, Between
<1>12. CASE Astray(e)
  BY <1>1, <1>2, <1>12 DEF Astray
<1>13. CASE Astray(r)
  BY <1>2, <1>13 DEF Astray, Asking
<1>14. ASSUME NEW x \in Sides, NEW i \in 0 .. Current(x).len, Working(x, "SEND"), Sending(x, i)
       PROVE  Bounded(r)
  <2>1. i \in Nat
    BY <1>14, CurrentOp DEF Working
  <2> QED BY <1>1, <1>8, <1>9, <1>14, <2>1
<1> QED BY <1>1, <1>3, <1>4, <1>5, <1>6, <1>7, <1>10, <1>11, <1>12, <1>13, <1>14 DEF Phases

\* A length that arrives is one the receiver has room for.
LEMMA LengthFits ==
  ASSUME TypeOK, NEW r \in Sides, Bounded(r), RxLen(r)
  PROVE  plen'[r] <= left'[r] /\ left'[r] > 0
<1>1. /\ pc[r] = "rx" /\ Incoming(r) # <<>> /\ Head(Incoming(r)).kind = "plen"
      /\ plen'[r] = Head(Incoming(r)).val /\ left' = left
  BY DEF RxLen, Arrived, TypeOK
<1>2. Incoming(r) \in Seq(Items) /\ ~NoLengths(wire[Other(r)])
  <2>1. Incoming(r) \in Seq(Items)
    BY TwoSides DEF Incoming, TypeOK
  <2> QED BY <1>1, <2>1, NoLengthsFacts DEF Incoming
<1>3. PICK n \in 0 .. 2 * Pages(Message(r)), ask \in BOOLEAN :
        Receiving(r, n, IF ask THEN <<Req("SLN")>> ELSE <<>>)
  BY <1>1, <1>2 DEF Bounded
<1>4. PICK rest \in Rests : rest = IF ask THEN <<Req("SLN")>> ELSE <<>>
  BY DEF Rests
<1> DEFINE len == Message(r) j == Len(got[r])
<1>5. /\ len \in Nat \ {0} /\ Current(r).len \in Nat \ {0} /\ len <= Current(r).len
      /\ j \in Nat /\ Read(r) = 2 * j
  BY <1>1, <1>3, ReaderFacts DEF Receiving
<1>6. Pages(len) \in Nat
  BY <1>5, PagesHold
<1>7. n \in Nat
  BY <1>6
<1>8. Receiving(r, n, rest)
  BY <1>3, <1>4
<1>9. Read(r) < n /\ Head(Incoming(r)) = PLen(Size(len, j + 1))
  <2>1. Head(Incoming(r)) # Req("SLN")
    BY <1>1 DEF Req
  <2> QED BY <1>1, <1>7, <1>8, <2>1, HeadIsExpected
<1>10. plen'[r] = Size(len, j + 1)
  BY <1>1, <1>9 DEF PLen
<1>11. left[r] = Current(r).len - Bytes(len, j) /\ left[r] > 0
  BY <1>8 DEF Receiving, Reader
<1>12. j < Pages(len)
  <2>1. n <= 2 * Pages(len)
    BY <1>6
  <2> HIDE DEF len, j
  <2> QED BY <1>5, <1>6, <1>7, <1>9, <2>1
<1>13. Size(len, j + 1) \in 1 .. len - Bytes(len, j) /\ Bytes(len, j) \in 0 .. len
  <2> HIDE DEF len, j
  <2> QED BY <1>5, <1>12, BytesOfPieces
<1> QED BY <1>1, <1>5, <1>10, <1>11, <1>13

\* An end goes on from where its peer has left it.
LEMMA ExitBounded ==
  ASSUME TypeOK, LocalInv, AfterExit, NEW e \in Sides, Exit(e)
  PROVE  AfterExit'
<1> DEFINE r == Other(e)
<1>1. r \in Sides /\ r # e /\ Other(r) = e /\ Sides = {e, r}
  BY TwoSides
<1>2. /\ script' = script /\ got' = got /\ left' = left /\ plen' = plen /\ done' = done
      /\ pc'[e] = "exited" /\ pc'[r] = pc[r]
  BY <1>1 DEF Exit, Goto, TypeOK
<1>3. Bounded(e)'
  BY <1>2 DEF Bounded
<1>4. Bounded(r) /\ (pc[r] = "rxdata" => plen[r] <= left[r])
  BY <1>1 DEF AfterExit, LocalInv
<1>5. /\ Number(r)' = Number(r) /\ Current(r)' = Current(r) /\ Message(r)' = Message(r)
      /\ (Working(r, "RECV")' = Working(r, "RECV"))
  BY <1>2, SameOp
<1>6. Reader(r)' = Reader(r)
  BY <1>2, <1>5 DEF Reader
<1>7. Read(r)' = Read(r)
  BY <1>2 DEF Read
<1>8. CASE wire'[e] = wire[e]
  <2>1. ASSUME NEW n, NEW rest PROVE Receiving(r, n, rest)' = Receiving(r, n, rest)
    BY <1>1, <1>5, <1>6, <1>7, <1>8 DEF Receiving
  <2> QED BY <1>1, <1>2, <1>3, <1>4, <1>5, <1>8, <2>1 DEF AfterExit, Bounded
<1>9. CASE wire'[e] = <<>>
  <2>1. pc[r] \in {"rx", "rxdata"} => left[r] > 0
    BY <1>4 DEF Bounded, Receiving, Reader
  <2>2. NoLengths(wire'[e])
    BY <1>9, NoLengthsFacts
  <2>3. Bounded(r)'
    BY <1>1, <1>2, <1>4, <2>1, <2>2 DEF Bounded
  <2> QED BY <1>1, <1>3, <2>3 DEF AfterExit
<1>10. wire'[e] = wire[e] \/ wire'[e] = <<>>
  BY DEF Exit, TypeOK
<1> QED BY <1>8, <1>9, <1>10

\* What is left in the stream of an end that has exited is read, and then its
\* end is found.
LEMMA GoneStep ==
  ASSUME TypeOK, LocalInv, AfterExit, NEW e \in Sides, pc[e] = "exited",
         NEW r \in Sides, Step(r)
  PROVE  AfterExit' /\ pc'[e] = "exited" /\ script' = script
<1>1. r = Other(e) /\ e = Other(r) /\ Sides = {e, r}
  BY TwoSides, StepByPc
<1>2. pc'[e] = "exited" /\ script' = script
  BY <1>1, StepFrame
<1>3. Bounded(e)'
  BY <1>2 DEF Bounded
<1>4. Bounded(r)
  BY DEF AfterExit
<1>5. SUFFICES Bounded(r)'
  BY <1>1, <1>2, <1>3 DEF AfterExit
<1>6. Incoming(r) = wire[e] /\ wire[e] \in Seq(Items)
  BY <1>1 DEF Incoming, TypeOK
<1>7. ASSUME pc[r] \notin {"rx", "rxdata", "astray"}, pc'[r] \notin {"rx", "rxdata"},
             wire'[e] = wire[e] \/ (wire[e] # <<>> /\ wire'[e] = Tail(wire[e]))
      PROVE  Bounded(r)'
  <2>1. pc[r] # "exited"
    BY StepByPc
  <2>2. NoLengths(wire[e])
    BY <1>1, <1>4, <1>7, <2>1 DEF Bounded
  <2>3. NoLengths(wire'[e])
    BY <1>6, <1>7, <2>2, NoLengthsFacts
  <2> QED BY <1>1, <1>7, <2>3 DEF Bounded
<1> USE DEF Goto, Await, TypeOK
<1>8. CASE BeginSend(r) \/ BeginRecv(r) \/ CheckRoom(r)
  <2>1. wire'[e] = wire[e]
    BY <1>1, <1>8, WireStep DEF BeginSend, BeginRecv, CheckRoom, AskRoom
  <2>2. pc[r] \in {"idle", "check"} /\ pc'[r] \in {"await", "tx", "stuck"}
    BY <1>8 DEF BeginSend, BeginRecv, CheckRoom, AskRoom, Ready
  <2> QED BY <1>7, <2>1, <2>2
<1>9. CASE Discard(r) \/ GetAck(r) \/ GetRln(r)
  <2>1. wire[e] # <<>> /\ pc[r] = "await"
    BY <1>6, <1>9 DEF Discard, GetAck, GetRln, Requested, Arrived
  <2>2. wire'[e] = Tail(wire[e])
    BY <1>1, <1>6, <1>9, WireStep DEF Discard, GetAck, GetRln
  <2>3. pc'[r] \in {"await", "idle", "avail"}
    BY <1>9, <2>1 DEF Discard, GetAck, GetRln
  <2> QED BY <1>7, <2>1, <2>2, <2>3
<1>10. CASE GetAvail(r)
  <2>1. pc[r] = "avail" /\ pc'[r] = "check"
    BY <1>10 DEF GetAvail
  <2>2. (wire[e] # <<>> /\ Consume(r)) \/ wire' = wire
    BY <1>6, <1>10 DEF GetAvail, Arrived
  <2>3. wire'[e] = wire[e] \/ (wire[e] # <<>> /\ wire'[e] = Tail(wire[e]))
    BY <1>1, <1>6, <2>2, WireStep
  <2> QED BY <1>7, <2>1, <2>3
<1>11. CASE GetSln(r)
  <2>1. /\ pc[r] = "await" /\ want[r] = "SLN" /\ wire[e] # <<>> /\ pc'[r] = "rx"
        /\ left'[r] = Current(r).len
    BY <1>6, <1>11 DEF GetSln, Requested, Arrived
  <2>2. Current(r).len \in Nat \ {0}
    BY <2>1, CurrentOp DEF LocalInv, Busy
  <2>3. wire'[e] = Tail(wire[e])
    BY <1>1, <1>6, <1>11, WireStep DEF GetSln
  <2>4. NoLengths(wire[e])
    BY <1>1, <1>4, <2>1 DEF Bounded
  <2>5. NoLengths(wire'[e])
    BY <1>6, <2>1, <2>3, <2>4, NoLengthsFacts
  <2>6. left'[r] > 0
    BY <2>1, <2>2
  <2> HIDE DEF TypeOK, Goto, Await
  <2> QED BY <1>1, <2>1, <2>5, <2>6 DEF Bounded
<1>12. CASE TxLen(r) \/ TxPage(r) \/ TxFail(r)
  <2>1. wire'[e] = wire[e]
    <3>1. CASE TxLen(r)
      BY <1>1, <3>1, WireStep DEF TxLen
    <3>2. CASE TxPage(r)
      BY <1>1, <3>2, WireStep DEF TxPage
    <3>3. CASE TxFail(r)
      BY <3>3 DEF TxFail
    <3> QED BY <1>12, <3>1, <3>2, <3>3
  <2>2. pc[r] \in {"tx", "txdata"} /\ pc'[r] \in {"tx", "txdata", "idle"}
    BY <1>12 DEF TxLen, TxPage, TxFail, Proceed, Complete
  <2> QED BY <1>7, <2>1, <2>2
<1>13. CASE RxEofLen(r) \/ RxReset(r)
  <2>1. wire'[e] = <<>> /\ pc'[r] = "idle"
    BY <1>6, <1>13 DEF RxEofLen, RxReset, NoLength, Complete, Eof
  <2> QED BY <1>1, <2>1, NoLengthsFacts DEF Bounded
<1>14. CASE RxEofPage(r)
  <2>1. wire'[e] = <<>> /\ Proceed(r, plen[r], "rx") /\ pc[r] = "rxdata"
    BY <1>6, <1>14 DEF RxEofPage, Eof
  <2>2. plen[r] <= left[r]
    BY <2>1 DEF LocalInv
  <2>3. pc'[r] = "idle" \/ (pc'[r] = "rx" /\ left'[r] > 0)
    BY <2>1, <2>2 DEF Proceed, LeftAfter, Complete
  <2> QED BY <1>1, <2>1, <2>3, NoLengthsFacts DEF Bounded
<1>15. CASE GoAstray(r)
  BY <1>15 DEF GoAstray, Bounded
<1>16. CASE RxLen(r) /\ NoLengths(wire[e])
  BY <1>6, <1>16, NoLengthsFacts DEF RxLen, Arrived
<1>17. CASE RxPage(r) /\ NoLengths(wire[e])
  <2>1. wire[e] # <<>> /\ Proceed(r, plen[r], "rx") /\ pc[r] = "rxdata"
    BY <1>6, <1>17 DEF RxPage, Arrived
  <2>2. wire'[e] = Tail(wire[e])
    BY <1>1, <1>6, <1>17, WireStep DEF RxPage
  <2>3. NoLengths(wire'[e])
    BY <1>6, <1>17, <2>1, <2>2, NoLengthsFacts
  <2>4. plen[r] <= left[r]
    BY <2>1 DEF LocalInv
  <2>5. pc'[r] = "idle" \/ (pc'[r] = "rx" /\ left'[r] > 0)
    BY <2>1, <2>4 DEF Proceed, LeftAfter, Complete
  <2> QED BY <1>1, <2>3, <2>5 DEF Bounded
<1>18. CASE (RxLen(r) \/ RxPage(r)) /\ ~NoLengths(wire[e])
  <2>1. pc[r] \in {"rx", "rxdata"}
    BY <1>18 DEF RxLen, RxPage
  <2>2. PICK n \in 0 .. 2 * Pages(Message(r)), ask \in BOOLEAN :
          /\ ask => n = 2 * Pages(Message(r))
          /\ Receiving(r, n, IF ask THEN <<Req("SLN")>> ELSE <<>>)
    BY <1>1, <1>4, <1>18, <2>1 DEF Bounded
  <2>3. PICK rest \in Rests : rest = IF ask THEN <<Req("SLN")>> ELSE <<>>
    BY DEF Rests
  <2>4. Message(r) \in Nat \ {0}
    BY <2>2, ReaderFacts DEF Receiving
  <2>5. Pages(Message(r)) \in Nat
    BY <2>4, PagesHold
  <2>6. n \in Nat /\ n <= 2 * Pages(Message(r)) /\ Receiving(r, n, rest)
    BY <2>2, <2>3, <2>5
  <2>7. ASSUME Receiving(r, n, rest)', done' = done
        PROVE  Bounded(r)'
    <3>1. Message(r)' = Message(r)
      BY <1>2, <2>7, SameOp
    <3>2. pc'[r] \in {"rx", "rxdata"}
      BY <2>7 DEF Receiving, Reader
    <3>3. Receiving(r, n, IF ask THEN <<Req("SLN")>> ELSE <<>>)'
      BY <2>3, <2>7
    <3>4. (\E m \in 0 .. 2 * Pages(Message(r)), x \in BOOLEAN :
             /\ x => m = 2 * Pages(Message(r))
             /\ Receiving(r, m, IF x THEN <<Req("SLN")>> ELSE <<>>))'
      BY <2>2, <3>1, <3>3
    <3> QED BY <3>2, <3>4 DEF Bounded
  <2>8. CASE RxLen(r)
    <3>1. Receiving(r, n, rest)'
      BY <2>6, <2>8, ReadsLength
    <3>2. done' = done
      BY <2>8 DEF RxLen
    <3> QED BY <2>7, <3>1, <3>2
  <2>9. CASE RxPage(r)
    <3>1. \/ Receiving(r, n, rest)' /\ done' = done
          \/ pc'[r] = "idle" /\ wire'[e] = rest
      BY <1>1, <2>6, <2>9, ReadsPage
    <3>2. NoLengths(rest)
      BY NoLengthsFacts DEF Rests
    <3>3. CASE pc'[r] = "idle" /\ wire'[e] = rest
      BY <1>1, <3>2, <3>3 DEF Bounded
    <3> QED BY <2>7, <3>1, <3>3
  <2> QED BY <1>18, <2>8, <2>9
<1> QED BY <1>8, <1>9, <1>10, <1>11, <1>12, <1>13, <1>14, <1>15, <1>16, <1>17, <1>18 DEF Step

-----------------------------------------------------------------------------
(* The invariant.                                                           *)

\* Each end keeps to its script, and counts down what it has left.
LEMMA LocalStep ==
  ASSUME TypeOK, LocalInv, AfterExit, Next
  PROVE  LocalInv'
<1>1. CASE StartUp
  <2>1. /\ script' = script /\ left' = left /\ plen' = plen /\ done' = done
    BY <1>1 DEF StartUp, Listen, Connect, ConnectRefused, Accept
  <2> SUFFICES ASSUME NEW s \in Sides
               PROVE  /\ Busy(s)' => Number(s)' <= Len(script'[s])
                      /\ pc'[s] \in {"tx", "txdata"} => left'[s] \in 1 .. Current(s)'.len
                      /\ pc'[s] = "rxdata" => plen'[s] <= left'[s]
    BY DEF LocalInv
  <2>2. \/ pc'[s] = pc[s] /\ want'[s] = want[s]
        \/ pc'[s] \in {"accept", "unconnected"}
        \/ pc'[s] = "await" /\ want'[s] = "ACK"
    BY <1>1 DEF StartUp, Listen, Connect, ConnectRefused, Accept, Await, Goto, TypeOK
  <2>3. Number(s)' = Number(s) /\ Current(s)' = Current(s)
    BY <2>1, SameOp
  <2> QED BY <2>1, <2>2, <2>3 DEF LocalInv, Busy
<1>2. ASSUME NEW s \in Sides, Step(s) PROVE LocalInv'
  <2> DEFINE r == Other(s)
  <2>1. r \in Sides /\ Sides = {s, r}
    BY TwoSides
  <2>2. /\ script' = script /\ pc'[r] = pc[r] /\ want'[r] = want[r]
        /\ left'[r] = left[r] /\ plen'[r] = plen[r] /\ done'[r] = done[r]
    BY <1>2, StepFrame
  <2>3. /\ Busy(r)' => Number(r)' <= Len(script'[r])
        /\ pc'[r] \in {"tx", "txdata"} => left'[r] \in 1 .. Current(r)'.len
        /\ pc'[r] = "rxdata" => plen'[r] <= left'[r]
    <3>1. Number(r)' = Number(r) /\ Current(r)' = Current(r)
      BY <2>2, SameOp
    <3> QED BY <2>1, <2>2, <3>1 DEF LocalInv, Busy
  <2>4. /\ Busy(s) => Number(s) <= Len(script[s])
        /\ pc[s] \in {"tx", "txdata"} => left[s] \in 1 .. Current(s).len
        /\ pc[s] = "rxdata" => plen[s] <= left[s]
    BY DEF LocalInv
  <2>5. SUFFICES /\ Busy(s)' => Number(s)' <= Len(script'[s])
                 /\ pc'[s] \in {"tx", "txdata"} => left'[s] \in 1 .. Current(s)'.len
                 /\ pc'[s] = "rxdata" => plen'[s] <= left'[s]
    BY <2>1, <2>3 DEF LocalInv
  <2>6. ASSUME done'[s] = done[s] PROVE Number(s)' = Number(s) /\ Current(s)' = Current(s)
    BY <2>2, <2>6, SameOp
  <2>7. CASE pc'[s] \in {"idle", "stuck", "astray"}
    BY <2>7 DEF Busy
  <2> USE <1>2 DEF Goto, Await, TypeOK
  <2>8. CASE BeginSend(s) \/ BeginRecv(s)
    <3>1. done' = done /\ pc'[s] = "await" /\ Number(s) <= Len(script[s])
      BY <2>8 DEF BeginSend, BeginRecv, AskRoom, Ready
    <3> QED BY <2>2, <2>6, <3>1
  <2>9. CASE CheckRoom(s)
    <3>1. done' = done /\ Busy(s)
      BY <2>9 DEF CheckRoom, Busy
    <3>2. Current(s).len \in Nat \ {0}
      BY <2>4, <3>1, CurrentOp
    <3>3. pc'[s] = "stuck" \/ (pc'[s] = "tx" /\ left'[s] = Current(s).len)
      BY <2>9 DEF CheckRoom
    <3> QED BY SMTT(30), <2>2, <2>4, <2>6, <2>7, <3>1, <3>2, <3>3
  <2>10. CASE Discard(s) \/ GetSln(s) \/ GetRln(s) \/ GetAvail(s)
    <3>1. done' = done /\ pc'[s] \in {"await", "rx", "avail", "check"}
      BY <2>10 DEF Discard, GetSln, GetRln, GetAvail, Requested
    <3>2. Busy(s) \/ (pc'[s] = "await" /\ want'[s] = "ACK")
      BY <2>10 DEF Discard, GetSln, GetRln, GetAvail, Requested, Busy
    <3> QED BY <2>2, <2>4, <2>6, <3>1, <3>2 DEF Busy
  <2>11. CASE GetAck(s)
    BY <2>7, <2>11 DEF GetAck
  <2>12. CASE TxLen(s)
    <3>1. done' = done /\ left' = left /\ pc[s] = "tx" /\ pc'[s] = "txdata"
      BY <2>12 DEF TxLen
    <3> QED BY <2>2, <2>4, <2>6, <3>1 DEF Busy
  <2>13. CASE TxPage(s)
    <3>1. pc[s] = "txdata" /\ Proceed(s, Piece(s), "tx")
      BY <2>13 DEF TxPage
    <3>2. left[s] \in 1 .. Current(s).len /\ Number(s) <= Len(script[s])
      BY <2>4, <3>1 DEF Busy
    <3>3. Current(s).len \in Nat
      BY <3>2, CurrentOp
    <3>4. Piece(s) \in 1 .. left[s]
      BY <3>2, <3>3, PageAssumption DEF Piece, Least
    <3>5. CASE LeftAfter(s, Piece(s)) = 0
      BY <2>7, <3>1, <3>5 DEF Proceed, Complete
    <3>6. CASE LeftAfter(s, Piece(s)) # 0
      <4>1. done' = done /\ pc'[s] = "tx" /\ left'[s] = LeftAfter(s, Piece(s))
        BY <3>1, <3>6 DEF Proceed
      <4>2. left'[s] \in 1 .. Current(s).len
        BY <3>2, <3>3, <3>4, <3>6, <4>1 DEF LeftAfter
      <4> QED BY <2>2, <2>6, <3>2, <4>1, <4>2
    <3> QED BY <3>5, <3>6
  <2>14. CASE TxFail(s) \/ RxEofLen(s) \/ RxReset(s) \/ GoAstray(s)
    BY <2>7, <2>14 DEF TxFail, RxEofLen, RxReset, NoLength, Complete, GoAstray
  <2>15. CASE RxLen(s)
    <3>1. done' = done /\ pc[s] = "rx" /\ pc'[s] = "rxdata"
      BY <2>15 DEF RxLen
    <3>2. plen'[s] <= left'[s]
      BY <2>15, LengthFits DEF AfterExit
    <3> QED BY <2>2, <2>4, <2>6, <3>1, <3>2 DEF Busy
  <2>16. CASE RxPage(s) \/ RxEofPage(s)
    <3>1. pc[s] = "rxdata" /\ Proceed(s, plen[s], "rx")
      BY <2>16 DEF RxPage, RxEofPage
    <3>2. pc'[s] = "idle" \/ (pc'[s] = "rx" /\ done' = done)
      BY <3>1 DEF Proceed, Complete
    <3> QED BY <2>2, <2>4, <2>6, <2>7, <3>1, <3>2 DEF Busy
  <2> QED BY <2>8, <2>9, <2>10, <2>11, <2>12, <2>13, <2>14, <2>15, <2>16 DEF Step
<1>3. ASSUME NEW e \in Sides, Exit(e) PROVE LocalInv'
  <2> SUFFICES ASSUME NEW s \in Sides
               PROVE  /\ Busy(s)' => Number(s)' <= Len(script'[s])
                      /\ pc'[s] \in {"tx", "txdata"} => left'[s] \in 1 .. Current(s)'.len
                      /\ pc'[s] = "rxdata" => plen'[s] <= left'[s]
    BY DEF LocalInv
  <2>1. /\ script' = script /\ left' = left /\ plen' = plen /\ done' = done /\ want' = want
        /\ pc'[s] = pc[s] \/ pc'[s] = "exited"
    BY <1>3 DEF Exit, Goto, TypeOK
  <2>2. Number(s)' = Number(s) /\ Current(s)' = Current(s)
    BY <2>1, SameOp
  <2> QED BY <2>1, <2>2 DEF LocalInv, Busy
<1> QED BY <1>1, <1>2, <1>3 DEF Next

\* Piece numbers are bounded by the length of the message.
LEMMA PieceBound ==
  ASSUME NEW len \in Nat \ {0}, NEW i \in Nat, i < Pages(len)
  PROVE  i \in 0 .. len
<1>1. i * P < len
  BY PagesHold
<1>2. i <= i * P
  BY PageAssumption, SMT
<1>3. i * P \in Nat
  BY PageAssumption, ProductOrder
<1> QED BY <1>1, <1>2, <1>3

\* Only Exit stops an end.
LEMMA StepAlive ==
  ASSUME TypeOK, Alive, NEW s \in Sides, Step(s)
  PROVE  ~Gone'
<1>1. pc'[Other(s)] = pc[Other(s)] /\ Sides = {s, Other(s)}
  BY StepFrame, TwoSides
<1>2. pc'[s] # "exited"
  <2> USE DEF TypeOK, Goto, Await, Complete, Proceed, Alive
  <2>1. CASE BeginSend(s) \/ BeginRecv(s) \/ CheckRoom(s)
    BY <2>1 DEF BeginSend, BeginRecv, CheckRoom, AskRoom
  <2>2. CASE Discard(s) \/ GetAck(s) \/ GetSln(s) \/ GetRln(s) \/ GetAvail(s)
    BY <2>2 DEF Discard, GetAck, GetSln, GetRln, GetAvail
  <2>3. CASE TxLen(s) \/ TxPage(s) \/ TxFail(s)
    BY <2>3 DEF TxLen, TxPage, TxFail
  <2>4. CASE RxLen(s) \/ RxPage(s) \/ RxEofLen(s) \/ RxEofPage(s) \/ RxReset(s)
              \/ GoAstray(s)
    BY <2>4 DEF RxLen, RxPage, RxEofLen, RxEofPage, RxReset, NoLength, GoAstray
  <2> QED BY <2>1, <2>2, <2>3, <2>4 DEF Step
<1> QED BY <1>1, <1>2 DEF Gone, Alive

\* While nobody exits, a step leads from phase to phase.
LEMMA PhasesStep ==
  ASSUME TypeOK, TypeOK', Alive, ReceivedIsSent, Phases, NEW s \in Sides, Step(s)
  PROVE  Phases' /\ ReceivedIsSent'
<1>1. ASSUME script' = script, done' = done
      PROVE  ReceivedIsSent'
  BY <1>1, KeepsReceived
<1>2. CASE Booting
  BY <1>1, <1>2, BootingStep DEF Phases
<1>3. CASE LastAck
  BY <1>1, <1>3, LastAckStep DEF Phases
<1>4. CASE Free
  BY <1>1, <1>4, FreeStep DEF Phases
<1>5. ASSUME NEW a \in Sides, NEW n \in Nat, Sending(a, n)'
      PROVE  Phases'
  <2>1. Number(a)' \in Nat \ {0}
    <3>1. Number(a)' = Len(done'[a]) + 1
      BY DEF Number
    <3>2. Len(done'[a]) \in Nat
      BY DEF TypeOK
    <3> QED BY <3>1, <3>2
  <2>2. script'[a] \in Seq(Op)
    BY <1>5, ScriptsAssumption DEF TypeOK
  <2>3. Working(a, "SEND")' /\ n < Pages(Current(a)'.len)
    BY <1>5 DEF Sending
  <2>4. Current(a)'.len \in Nat \ {0}
    <3>1. Current(a)' \in Op
      BY <2>1, <2>2, <2>3 DEF Working, Current
    <3> QED BY <3>1 DEF Op
  <2>5. n \in 0 .. Current(a)'.len
    BY <2>3, <2>4, PieceBound
  <2> QED BY <1>5, <2>3, <2>5 DEF Phases
<1>6. ASSUME NEW a \in Sides, Answered(a)
      PROVE  Phases' /\ ReceivedIsSent'
  <2>1. /\ Answered(a)' \/ Sending(a, 0)'
        /\ script' = script /\ done' = done
    BY <1>6, AnsweredStep
  <2>2. CASE Sending(a, 0)'
    BY <1>1, <1>5, <1>6, <2>1, <2>2
  <2>3. CASE Answered(a)'
    BY <1>1, <2>1, <2>3 DEF Phases
  <2> QED BY <2>1, <2>2, <2>3
<1>7. ASSUME NEW a \in Sides, NEW i \in Nat, Sending(a, i)
      PROVE  Phases' /\ ReceivedIsSent'
  <2>1. /\ Sent(a)' \/ Sending(a, i)' \/ Sending(a, i + 1)'
        /\ ReceivedIsSent'
    BY <1>7, SendingStep
  <2>2. i + 1 \in Nat
    OBVIOUS
  <2>3. CASE Sending(a, i)' \/ Sending(a, i + 1)'
    BY <1>5, <2>1, <2>2, <2>3
  <2>4. CASE Sent(a)'
    BY <2>1, <2>4 DEF Phases
  <2> QED BY <2>1, <2>3, <2>4
<1>8. ASSUME NEW a \in Sides, Sent(a)
      PROVE  Phases' /\ ReceivedIsSent'
  BY <1>8, SentStep DEF Phases
<1>9. ASSUME NEW a \in Sides, Astray(a)
      PROVE  Phases' /\ ReceivedIsSent'
  BY <1>9, AstrayStep
<1>10. ASSUME NEW a \in Sides, NEW i \in 0 .. Current(a).len, Working(a, "SEND"), Sending(a, i)
       PROVE  Phases' /\ ReceivedIsSent'
  <2>1. i \in Nat
    BY <1>10, CurrentOp DEF Working
  <2> QED BY <1>7, <1>10, <2>1
<1> QED BY <1>2, <1>3, <1>4, <1>6, <1>8, <1>9, <1>10 DEF Phases

\* Only Booting has an end that is not connected.
LEMMA StartUpIsBooting ==
  ASSUME Phases, StartUp
  PROVE  Booting
<1>1. Sides = {Server, Client} /\ Other(Server) = Client /\ Other(Client) = Server
  BY SidesAssumption DEF Sides, Other
<1>2. ~LastAck /\ ~Free
  BY <1>1, StartUpBoots DEF LastAck, Free, AwaitsAck, Between
<1>3. ASSUME NEW a \in Sides
      PROVE  ~Answered(a) /\ ~Sent(a) /\ ~Astray(a)
  BY <1>1, StartUpBoots DEF Answered, Sent, Astray, Asking, Between, Receiving, Reader
<1>4. ASSUME NEW a \in Sides, NEW i
      PROVE  ~Sending(a, i)
  BY <1>1, StartUpBoots DEF Sending, Receiving, Reader
<1> QED BY <1>2, <1>3, <1>4 DEF Phases

\* Both ends start unconnected.
LEMMA InitIInv ==
  ASSUME Init
  PROVE  IInv
<1>1. Sides = {Server, Client} /\ ScriptsAssumption
  BY ScriptsAssumption DEF Sides
<1>2. TypeOK
  <2>1. <<>> \in Seq(Items) /\ <<>> \in Seq([result : {"ok", "failed"}, got : Seq(Items)])
    OBVIOUS
  <2> QED BY <2>1 DEF Init, TypeOK, Pcs, Codes
<1>3. LocalInv
  BY DEF Init, LocalInv, Busy
<1>4. ReceivedIsSent
  BY DEF Init, ReceivedIsSent
<1>5. ~Gone
  BY DEF Init, Gone
<1>6. Booting
  BY <1>1 DEF Init, Booting
<1> QED BY <1>2, <1>3, <1>4, <1>5, <1>6 DEF IInv, Phases

\* The invariant is inductive.
LEMMA NextIInv ==
  ASSUME IInv, [Next]_vars
  PROVE  IInv'
<1>1. TypeOK /\ LocalInv /\ ReceivedIsSent /\ (IF Gone THEN AfterExit ELSE Phases)
  BY DEF IInv
<1>2. AfterExit
  BY <1>1, PhasesBounded DEF AfterExit
<1>3. CASE UNCHANGED vars
  <2>1. /\ script' = script /\ pc' = pc /\ want' = want /\ wire' = wire /\ mode' = mode
        /\ avail' = avail /\ left' = left /\ plen' = plen /\ got' = got /\ done' = done
    BY <1>3 DEF vars
  <2>2. TypeOK' /\ LocalInv' /\ ReceivedIsSent' /\ (Gone' = Gone)
    BY <1>1, <2>1 DEF TypeOK, LocalInv, Busy, ReceivedIsSent, Gone, Number, Current
  <2>3. AfterExit' = AfterExit
    BY <2>1 DEF AfterExit, Bounded, Receiving, Reader, Working, Message, Read, Number, Current
  <2>4. Phases' = Phases
    BY <2>1 DEF Phases, Booting, LastAck, Free, Answered, Sending, Sent, Astray, AwaitsAck, Between,
                Asking, Asked, Ahead, Receiving, Reader, Working, Message, Read, Number, Current
  <2> QED BY <1>1, <2>2, <2>3, <2>4 DEF IInv
<1>4. CASE Next
  <2>1. TypeOK' /\ LocalInv'
    BY <1>1, <1>2, <1>4, TypeStep, LocalStep
  <2>2. CASE Gone
    <3>1. PICK e \in Sides : pc[e] = "exited"
      BY <2>2 DEF Gone
    <3>2. CASE StartUp
      <4>1. /\ script' = script /\ left' = left /\ plen' = plen /\ got' = got /\ done' = done
        BY <3>2 DEF StartUp, Listen, Connect, ConnectRefused, Accept
      <4>2. PICK r \in Sides : r = Other(e)
        BY TwoSides
      <4>3. e # r /\ e = Other(r) /\ Sides = {e, r}
        BY <4>2, TwoSides
      <4>4. pc'[e] = "exited" /\ wire'[e] = wire[e]
        <5>1. Server \in Sides /\ Client \in Sides /\ pc \in [Sides -> Pcs] /\ wire \in [Sides -> Seq(Items)]
          BY <1>1 DEF Sides, TypeOK
        <5> QED BY <3>1, <3>2, <5>1 DEF StartUp, Listen, Connect, ConnectRefused, Accept, Goto, Await, Transmit
      <4>5. pc'[r] = pc[r] \/ (pc[r] = "boot" /\ pc'[r] \in {"accept", "await", "unconnected"})
              \/ (pc[r] = "accept" /\ pc'[r] = "await")
        <5>1. Server \in Sides /\ Client \in Sides /\ pc \in [Sides -> Pcs]
          BY <1>1 DEF Sides, TypeOK
        <5> QED BY <3>2, <5>1 DEF StartUp, Listen, Connect, ConnectRefused, Accept, Goto, Await
      <4>6. Bounded(e)'
        BY <4>4 DEF Bounded
      <4>7. Bounded(r)'
        <5>1. Bounded(r)
          BY <1>2 DEF AfterExit
        <5>2. CASE pc'[r] = pc[r]
          <6>1. ASSUME NEW n, NEW rest PROVE Receiving(r, n, rest)' = Receiving(r, n, rest)
            BY <4>1, <4>3, <4>4, <5>2 DEF Receiving, Reader, Working, Message, Read, Number, Current
          <6>2. Message(r)' = Message(r)
            BY <4>1 DEF Message, Number
          <6> QED BY <4>1, <4>3, <4>4, <5>1, <5>2, <6>1, <6>2 DEF Bounded
        <5>3. CASE pc[r] \in {"boot", "accept"} /\ pc'[r] \in {"accept", "await", "unconnected"}
          BY <4>3, <4>4, <5>1, <5>3 DEF Bounded
        <5> QED BY <4>5, <5>2, <5>3
      <4> QED BY <2>1, <4>3, <4>4, <4>6, <4>7 DEF IInv, AfterExit, Gone, ReceivedIsSent
    <3>3. ASSUME NEW r \in Sides, Step(r) PROVE IInv'
      <4>1. AfterExit' /\ pc'[e] = "exited"
        BY <1>1, <1>2, <3>1, <3>3, GoneStep
      <4>2. Gone'
        BY <4>1 DEF Gone
      <4> QED BY <2>1, <4>1, <4>2 DEF IInv, ReceivedIsSent
    <3>4. ASSUME NEW r \in Sides, Exit(r) PROVE IInv'
      <4>1. AfterExit'
        BY <1>1, <1>2, <3>4, ExitBounded
      <4>2. Gone'
        BY <1>1, <3>4 DEF Exit, Goto, Gone, TypeOK
      <4> QED BY <2>1, <4>1, <4>2 DEF IInv, ReceivedIsSent
    <3> QED BY <1>4, <3>2, <3>3, <3>4 DEF Next
  <2>3. CASE ~Gone
    <3>1. Alive /\ Phases
      BY <1>1, <2>3 DEF Gone, Alive
    <3>2. CASE StartUp
      <4>1. Booting' /\ script' = script /\ done' = done
        BY <1>1, <3>1, <3>2, StartUpIsBooting, BootingStartUp
      <4>2. ReceivedIsSent' /\ Phases'
        BY <1>1, <3>1, <4>1, KeepsReceived DEF Phases
      <4>3. ~Gone'
        BY <4>1 DEF Gone, Booting, AwaitsAck, Sides
      <4> QED BY <2>1, <4>2, <4>3 DEF IInv
    <3>3. ASSUME NEW r \in Sides, Step(r) PROVE IInv'
      <4>1. Phases' /\ ReceivedIsSent'
        BY <1>1, <2>1, <3>1, <3>3, PhasesStep
      <4>2. ~Gone'
        BY <1>1, <3>1, <3>3, StepAlive
      <4> QED BY <2>1, <4>1, <4>2 DEF IInv
    <3>4. ASSUME NEW r \in Sides, Exit(r) PROVE IInv'
      <4>1. AfterExit'
        BY <1>1, <1>2, <3>4, ExitBounded
      <4>2. Gone'
        BY <1>1, <3>4 DEF Exit, Goto, Gone, TypeOK
      <4> QED BY <2>1, <4>1, <4>2 DEF IInv, ReceivedIsSent
    <3> QED BY <1>4, <3>2, <3>3, <3>4 DEF Next
  <2> QED BY <2>2, <2>3
<1> QED BY <1>3, <1>4

-----------------------------------------------------------------------------
(* What the invariant says.                                                 *)

\* Bytes of two pieces of at most p bytes each are at different places.
LEMMA PlaceOfByte ==
  ASSUME NEW x \in Nat, NEW y \in Nat, NEW p \in Nat \ {0},
         NEW m \in 1 .. p, NEW n \in 1 .. p, x * p + m = y * p + n
  PROVE  x = y /\ m = n
<1>1. x * p \in Nat /\ y * p \in Nat
  BY ProductOrder
<1>2. ~(x < y)
  <2> SUFFICES ASSUME x < y PROVE FALSE
    OBVIOUS
  <2>1. (x + 1) * p <= y * p /\ (x + 1) * p = x * p + p
    BY ProductOrder
  <2> QED BY <1>1, <2>1
<1>3. ~(y < x)
  <2> SUFFICES ASSUME y < x PROVE FALSE
    OBVIOUS
  <2>1. (y + 1) * p <= x * p /\ (y + 1) * p = y * p + p
    BY ProductOrder
  <2> QED BY <1>1, <2>1
<1>4. x = y
  BY <1>2, <1>3
<1> QED BY <1>1, <1>4

\* The pages among items a + 1 to b of a message are pieces between j and i.
LEMMA PageAt ==
  ASSUME NEW k, NEW len \in Nat \ {0}, NEW i \in Nat, NEW j \in Nat, NEW q \in Nat,
         2 * j < q, q <= 2 * i + 1, Item(k, len, q).kind = "page"
  PROVE  /\ q = 2 * (q \div 2) /\ q \div 2 \in j + 1 .. i
         /\ Item(k, len, q).val \in Int /\ Item(k, len, q).val <= P
<1>1. q % 2 # 1
  BY DEF Item, PLen
<1>2. q = 2 * (q \div 2) /\ q \div 2 \in Nat
  BY <1>1
<1>3. Item(k, len, q).val = Size(len, q \div 2)
  BY <1>1 DEF Item, Page
<1>4. Size(len, q \div 2) \in Int /\ Size(len, q \div 2) <= P
  <2>1. (q \div 2 - 1) * P \in Int
    BY <1>2, PageAssumption
  <2> QED BY <2>1, PageAssumption DEF Size, Least
<1> QED BY <1>2, <1>3, <1>4

\* What is in flight fits between what the receiver has stored and what the
\* sender has sent.
LEMMA InFlightBound ==
  ASSUME NEW k, NEW len \in Nat \ {0}, NEW i \in Nat, NEW j \in Nat, j <= i,
         NEW a \in Nat, NEW b \in Nat, 2 * j <= a, a <= b, b <= 2 * i + 1,
         NEW s, wire[s] = Segment(k, len, a, b)
  PROVE  InFlight(s) \in Nat /\ InFlight(s) <= (i - j) * P
<1> DEFINE S == BytesInFlight(s) T == 1 .. (i - j) * P
           f == [p \in S |-> ((a + p[1]) \div 2 - j - 1) * P + p[2]]
<1>1. (i - j) * P \in Nat
  BY PageAssumption, i - j \in Nat, ProductOrder
<1>2. ASSUME NEW p \in S
      PROVE  /\ p = <<p[1], p[2]>>
             /\ p[1] \in Nat /\ p[2] \in 1 .. P
             /\ a + p[1] = 2 * ((a + p[1]) \div 2)
             /\ (a + p[1]) \div 2 \in j + 1 .. i
  <2>1. PICK m \in DOMAIN wire[s] : wire[s][m].kind = "page" /\ p \in {m} \X (1 .. wire[s][m].val)
    BY DEF BytesInFlight
  <2>2. m \in 1 .. b - a /\ wire[s][m] = Item(k, len, a + m)
    BY <2>1 DEF Segment
  <2>3. p = <<p[1], p[2]>> /\ p[1] = m /\ p[2] \in 1 .. wire[s][m].val
    BY <2>1
  <2>4. a + m \in Nat /\ 2 * j < a + m /\ a + m <= 2 * i + 1
    BY <2>2
  <2>5. /\ a + m = 2 * ((a + m) \div 2) /\ (a + m) \div 2 \in j + 1 .. i
        /\ Item(k, len, a + m).val \in Int /\ Item(k, len, a + m).val <= P
    BY <2>1, <2>2, <2>4, PageAt
  <2>6. p[2] \in 1 .. P
    BY <2>2, <2>3, <2>5, PageAssumption
  <2> QED BY <2>2, <2>3, <2>5, <2>6
<1>3. ASSUME NEW p \in S
      PROVE  f[p] \in T
  <2> DEFINE x == (a + p[1]) \div 2 - j - 1
  <2>1. x \in Nat /\ x + 1 <= i - j /\ i - j \in Nat /\ p[2] \in 1 .. P
    BY <1>2
  <2>2. f[p] = x * P + p[2]
    OBVIOUS
  <2> HIDE DEF x, f
  <2>3. x * P \in Nat /\ (x + 1) * P = x * P + P /\ (x + 1) * P <= (i - j) * P
    BY <2>1, ProductOrder, PageAssumption
  <2> QED BY <1>1, <2>1, <2>2, <2>3, PageAssumption
<1>4. ASSUME NEW p \in S, NEW r \in S, f[p] = f[r]
      PROVE  p = r
  <2> DEFINE x == (a + p[1]) \div 2 - j - 1 y == (a + r[1]) \div 2 - j - 1
  <2>1. x \in Nat /\ y \in Nat /\ p[2] \in 1 .. P /\ r[2] \in 1 .. P
    BY <1>2
  <2>2. x * P + p[2] = y * P + r[2]
    BY <1>4
  <2>3. x = y /\ p[2] = r[2]
    <3> HIDE DEF x, y
    <3> DEFINE m == p[2] n == r[2]
    <3>1. m \in 1 .. P /\ n \in 1 .. P /\ x * P + m = y * P + n
      BY <2>1, <2>2
    <3> HIDE DEF m, n
    <3>2. x = y /\ m = n
      BY <2>1, <3>1, PlaceOfByte, PageAssumption
    <3> QED BY <3>2 DEF m, n
  <2>4. (a + p[1]) \div 2 = (a + r[1]) \div 2
    BY <1>2, <2>3
  <2>5. p[1] = r[1]
    BY <1>2, <2>4
  <2> QED BY <1>2, <2>3, <2>5
<1>5. f \in Injection(S, T)
  BY <1>3, <1>4 DEF Injection, IsInjective
<1>6. IsFiniteSet(T) /\ Cardinality(T) = (i - j) * P
  <2> DEFINE n == (i - j) * P
  <2>1. n \in Nat
    BY <1>1
  <2> HIDE DEF n
  <2>2. IsFiniteSet(1 .. n) /\ Cardinality(1 .. n) = n
    BY <2>1, FS_Interval
  <2> QED BY <2>2 DEF n
<1> HIDE DEF S, T, f
<1>7. IsFiniteSet(S) /\ Cardinality(S) <= Cardinality(T)
  BY <1>5, <1>6, FS_Injection
<1>8. Cardinality(S) \in Nat
  BY <1>7, FS_CardinalityType
<1> QED BY <1>6, <1>7, <1>8 DEF InFlight, S

\* An end that sends does so in the phase Sending.
LEMMA SenderIsSending ==
  ASSUME TypeOK, Phases, NEW s \in Sides, pc[s] \in {"tx", "txdata"}
  PROVE  \E i \in Nat : Sending(s, i)
<1>1. Other(s) \in Sides /\ Other(Other(s)) = s /\ Sides = {s, Other(s)}
  BY TwoSides
<1>2. ~Booting /\ ~LastAck /\ ~Free
  BY DEF Booting, LastAck, Free, AwaitsAck, Between, Sides
<1>3. ASSUME NEW x \in Sides
      PROVE  ~Answered(x) /\ ~Sent(x) /\ ~Astray(x)
  BY <1>1 DEF Answered, Sent, Astray, Asking, Between, Receiving, Reader
<1>4. PICK x \in Sides : \E i \in 0 .. Current(x).len : Working(x, "SEND") /\ Sending(x, i)
  BY <1>2, <1>3 DEF Phases
<1>5. PICK i \in 0 .. Current(x).len : Working(x, "SEND") /\ Sending(x, i)
  BY <1>4
<1>6. i \in Nat
  BY <1>5, CurrentOp DEF Working
<1>7. x = s
  BY <1>1, <1>5 DEF Sending, Receiving, Reader
<1> QED BY <1>5, <1>6, <1>7

\* The room of the receiver in that phase.
LEMMA RoomInSending ==
  ASSUME TypeOK, NEW s \in Sides, NEW i \in Nat, Sending(s, i)
  PROVE  /\ pc[Other(s)] \in {"rx", "rxdata"}
         /\ left[s] + InFlight(s) <= left[Other(s)]
<1> DEFINE r == Other(s) len == Current(s).len j == Len(got[r]) w == Read(r)
<1>1. r \in Sides /\ Other(r) = s
  BY TwoSides
<1>2. PICK sent \in Nat : sent = 2 * i + (IF pc[s] = "txdata" THEN 1 ELSE 0)
  OBVIOUS
<1>3. Receiving(r, sent, <<>>) /\ sent <= 2 * i + 1
  BY <1>2 DEF Sending
<1>4. /\ len \in Nat \ {0} /\ Message(r) = len /\ i * P \in Nat /\ left[s] = len - i * P
  BY SendingFacts
<1>5. /\ Reader(r) /\ w <= sent
      /\ wire[s] = Segment(Number(r), len, w, sent) \o <<>>
  BY <1>1, <1>3, <1>4 DEF Receiving
<1>6. /\ len <= Current(r).len /\ Current(r).len \in Nat \ {0}
      /\ j \in Nat /\ w \in Nat /\ 2 * j <= w
      /\ pc[r] \in {"rx", "rxdata"} /\ left[r] = Current(r).len - Bytes(len, j)
  <2>1. /\ Message(r) <= Current(r).len /\ Current(r).len \in Nat \ {0}
        /\ j \in Nat /\ w \in Nat
        /\ pc[r] = "rx" => w = 2 * j
        /\ pc[r] = "rxdata" => w = 2 * j + 1
    BY <1>1, <1>5, ReaderFacts
  <2>2. pc[r] \in {"rx", "rxdata"} /\ left[r] = Current(r).len - Bytes(len, j)
    BY <1>4, <1>5 DEF Reader
  <2>3. 2 * j <= w
    <3> HIDE DEF j, w
    <3> QED BY <2>1, <2>2
  <2> QED BY <1>4, <2>1, <2>2, <2>3
<1>7. i < Pages(len)
  BY DEF Sending
<1> HIDE DEF len, j, w
<1>8. j <= i
  BY <1>3, <1>5, <1>6
<1>9. Bytes(len, j) = j * P /\ Pages(len) \in Nat
  <2>1. Pages(len) \in Nat
    BY <1>4, PagesHold
  <2>2. j < Pages(len)
    BY <1>6, <1>7, <1>8, <2>1
  <2> QED BY <1>4, <1>6, <2>1, <2>2, BytesOfPieces
<1>10. InFlight(s) \in Nat /\ InFlight(s) <= (i - j) * P
  <2>1. wire[s] = Segment(Number(r), len, w, sent)
    <3>1. Segment(Number(r), len, w, sent) \o <<>> = Segment(Number(r), len, w, sent)
      BY <1>5, <1>6, SegmentWrite, ZenonT(40)
    <3> QED BY <1>5, <3>1, Zenon
  <2> QED BY <1>3, <1>4, <1>5, <1>6, <1>8, <2>1, InFlightBound
<1>11. (i - j) * P = i * P - j * P /\ j * P \in Nat
  BY <1>6, <1>8, PageAssumption, ProductOrder
<1> QED BY <1>4, <1>6, <1>9, <1>10, <1>11

\* The invariant holds in every behaviour, with any scripts, any page size and
\* ends that exit at any moment.
THEOREM LinkInvariant == Spec => []IInv
<1>1. Init => IInv
  BY InitIInv
<1>2. IInv /\ [Next]_vars => IInv'
  BY NextIInv
<1> QED BY <1>1, <1>2, PTL DEF Spec

\* No length an end reads makes len_left wrap, whoever exits and when
\* (psipe_proxy_rx_page, psipe_receive_pages): the counters stay natural.
THEOREM LinkTypeOK == Spec => []TypeOK
<1>1. IInv => TypeOK
  BY DEF IInv
<1> QED BY <1>1, LinkInvariant, PTL

\* What a receive has stored when its interrupt is raised is what the peer's
\* operation of the same number sent (psipe_receive_pages,
\* psipe_transfer_pages).
THEOREM LinkReceivedIsSent == Spec => []ReceivedIsSent
<1>1. IInv => ReceivedIsSent
  BY DEF IInv
<1> QED BY <1>1, LinkInvariant, PTL

\* The answer to SLN (psipe_proxy_handle_req) is a credit that covers what the
\* sender still has and what is in flight.
THEOREM LinkSenderHasRoom == Spec => []SenderHasRoom
<1>1. ASSUME IInv PROVE SenderHasRoom
  <2> SUFFICES ASSUME ~Gone, NEW s \in Sides, pc[s] \in {"tx", "txdata"}
               PROVE  /\ pc[Other(s)] \in {"rx", "rxdata"}
                      /\ left[s] + InFlight(s) <= left[Other(s)]
    BY DEF SenderHasRoom
  <2>1. TypeOK /\ Phases
    BY <1>1 DEF IInv
  <2>2. PICK i \in Nat : Sending(s, i)
    BY <2>1, SenderIsSending
  <2> QED BY <2>1, <2>2, RoomInSending
<1> QED BY <1>1, LinkInvariant, PTL

\* Neither end completes two operations more than the other (the handshake of
\* psipe_proxy_await_req).
THEOREM LinkLockstep == Spec => []Lockstep
<1>1. ASSUME IInv PROVE Lockstep
  <2> SUFFICES ASSUME ~Gone, NEW s \in Sides
               PROVE  Len(done[s]) <= Len(done[Other(s)]) + 1
    BY DEF Lockstep
  <2> DEFINE m == Len(done[s]) n == Len(done[Other(s)])
  <2>1. TypeOK /\ Phases /\ Other(s) \in Sides /\ Sides = {s, Other(s)} /\ Other(Other(s)) = s
    BY <1>1, TwoSides DEF IInv
  <2>2. m \in Nat /\ n \in Nat
    BY <2>1 DEF TypeOK
  <2>3. CASE Booting \/ LastAck
    <3>1. done = [x \in Sides |-> <<>>]
      BY <2>3 DEF Booting, LastAck
    <3>2. done[s] = <<>> /\ done[Other(s)] = <<>>
      BY <2>1, <3>1
    <3> QED BY <3>2
  <2>4. CASE Free
    <3>1. Len(done[Server]) = Len(done[Client]) /\ s \in {Server, Client} /\ Other(s) \in {Server, Client}
      BY <2>1, <2>4 DEF Free, Sides
    <3>2. m = n
      BY <3>1 DEF Other
    <3> QED BY <2>2, <3>2
  <2>5. ASSUME NEW x \in Sides, \/ Answered(x) \/ Sent(x) \/ Astray(x)
                                \/ \E i \in 0 .. Current(x).len : Sending(x, i)
        PROVE  m <= n + 1
    <3>1. \/ Len(done[x]) = Len(done[Other(x)])
          \/ Len(done[x]) = Len(done[Other(x)]) + 1
      BY <2>5 DEF Answered, Sent, Astray, Sending
    <3>2. CASE x = s
      <4> HIDE DEF m, n
      <4>1. m = n \/ m = n + 1
        BY <3>1, <3>2 DEF m, n
      <4> QED BY <2>2, <4>1
    <3>3. CASE x = Other(s)
      <4>1. n = m \/ n = m + 1
        BY <2>1, <3>1, <3>3
      <4> HIDE DEF m, n
      <4> QED BY <2>2, <4>1
    <3> QED BY <2>1, <3>2, <3>3
  <2>6. m <= n + 1
    BY <2>1, <2>3, <2>4, <2>5 DEF Phases
  <2> QED BY <2>6
<1> QED BY <1>1, LinkInvariant, PTL

\* Programs that agree never read what was not written for them, and no send
\* is refused (psipe_check_size_avail), in any interleaving.
THEOREM LinkStreamsInStep == Spec => []StreamsInStep
<1>1. ASSUME IInv PROVE StreamsInStep
  <2> SUFFICES ASSUME Matched, ~Gone, NEW s \in Sides
               PROVE  pc[s] \notin {"astray", "stuck"}
    BY DEF StreamsInStep
  <2>1. TypeOK /\ Phases /\ Other(s) \in Sides /\ Sides = {s, Other(s)} /\ Other(Other(s)) = s
    BY <1>1, TwoSides DEF IInv
  <2>2. ~(Booting \/ LastAck \/ Free) \/ pc[s] \notin {"astray", "stuck"}
    BY DEF Booting, LastAck, Free, AwaitsAck, Between, Sides
  <2>3. ASSUME NEW x \in Sides, NEW k \in Nat \ {0}, k <= Len(script[x])
        PROVE  script[x][k].len = script[Other(x)][k].len
    <3>1. script[Server] \in Seq(Op) /\ script[Client] \in Seq(Op)
      BY <2>1, CurrentOp DEF Sides
    <3>2. Len(script[Server]) = Len(script[Client])
      BY DEF Matched
    <3>3. k \in DOMAIN script[Server]
      <4>1. k <= Len(script[Server]) /\ DOMAIN script[Server] = 1 .. Len(script[Server])
        BY <2>3, <3>1, <3>2 DEF Sides
      <4> QED BY <4>1
    <3>4. script[Server][k].len = script[Client][k].len
      BY <3>3 DEF Matched
    <3> QED BY <3>4 DEF Sides, Other
  <2>4. ASSUME NEW x \in Sides, Answered(x)
        PROVE  pc[s] \notin {"astray", "stuck"}
    <3>1. Other(x) \in Sides /\ Sides = {x, Other(x)} /\ Number(x) \in Nat \ {0}
      BY <2>1, TwoSides, CurrentOp
    <3>2. Number(x) = Number(Other(x)) /\ Number(x) <= Len(script[x])
      BY <2>4 DEF Answered, Number, Working
    <3>3. Current(x).len = Current(Other(x)).len
      BY <2>3, <3>1, <3>2 DEF Current
    <3>4. Current(x).len \in Nat
      BY <2>1, <3>2, CurrentOp
    <3> QED BY <2>4, <3>1, <3>3, <3>4 DEF Answered, Asking
  <2>5. ASSUME NEW x \in Sides, Sent(x)
        PROVE  pc[s] \notin {"astray", "stuck"}
    BY <2>5, TwoSides DEF Sent, Between, Receiving, Reader
  <2>6. ASSUME NEW x \in Sides, NEW i, Sending(x, i)
        PROVE  pc[s] \notin {"astray", "stuck"}
    BY <2>6, TwoSides DEF Sending, Receiving, Reader
  <2>7. ASSUME NEW x \in Sides, Astray(x)
        PROVE  FALSE
    <3> DEFINE r == Other(x)
    <3>1. r \in Sides /\ Other(r) = x
      BY TwoSides
    <3>2. Number(r) \in Nat \ {0} /\ Number(r) <= Len(script[r]) /\ Message(r) < Current(r).len
      BY <2>1, <2>7, <3>1, CurrentOp DEF Astray
    <3>3. Message(r) = Current(r).len
      BY <2>3, <3>1, <3>2 DEF Message, Current
    <3>4. Current(r).len \in Nat
      BY <2>1, <3>1, <3>2, CurrentOp
    <3> QED BY <3>2, <3>3, <3>4
  <2> QED BY <2>1, <2>2, <2>4, <2>5, <2>6, <2>7 DEF Phases
<1> QED BY <1>1, LinkInvariant, PTL

=============================================================================
