-------------------------- MODULE PsipeMatmulProofs --------------------------
(***************************************************************************)
(* The matrix product is right for any number of devices and any number of *)
(* elements.                                                               *)
(*                                                                         *)
(* The invariant has two layers.  Control is about queues and program      *)
(* counters: how many operations each program has submitted to each        *)
(* device, which they are (Plan), and where the current one is.  It gives  *)
(* FramesAlive, FlushesDrained and ProgramsAgree.  Data rests on it: a     *)
(* pair of devices is level, or its receiver is one operation behind       *)
(* (PairInv); what is on the link is then determined, and so are the       *)
(* memories of the chiplets (ChipInv) and C (CInv).                        *)
(***************************************************************************)
EXTENDS PsipeMatmul, SequenceTheorems, TLAPS

-----------------------------------------------------------------------------
(* What the programs are meant to do.                                       *)

\* The two ends of link d.
MEnd(d) == <<Master, d>>
CEnd(d) == <<d, d>>

\* Where the part of device d begins, and its elements.
Begin(d) ==
  d * (n \div NumDevs) + (IF d < n % NumDevs THEN d ELSE n % NumDevs)
Elements(d) == Begin(d) .. Begin(d) + Part(d) - 1

Op(do, buf, len, first) == [do |-> do, buf |-> buf, len |-> len, ofs |-> first]

\* The operations submitted to each end, in order.
MPlan(d) ==
  <<Op("SEND", "args", 1, 0), Op("SEND", "A", n, 0), Op("SEND", "B", n, 0),
    Op("SEND", "C", Part(d), Begin(d)), Op("RECV", "C", Part(d), Begin(d))>>
CPlan(d) ==
  <<Op("RECV", "args", 1, 0), Op("RECV", "A", n, 0), Op("RECV", "B", n, 0),
    Op("RECV", "C", Part(d), 0), Op("SEND", "C", Part(d), 0)>>
Plan(e) == IF e[1] = Master THEN MPlan(e[2]) ELSE CPlan(e[2])

\* The parameters of device d, its part of C before and after the computation,
\* and the message of operation i.
ArgsOf(d) == [n |-> n, len |-> Part(d), ofs |-> Begin(d)]
PartBefore(d) == [k \in 1 .. Part(d) |-> <<Begin(d) + k - 1>>]
PartAfter(d) == [k \in 1 .. Part(d) |-> <<Begin(d) + k - 1, Begin(d) + k - 1>>]
Carries(d, i) ==
  [buf  |-> MPlan(d)[i].buf,
   args |-> IF i = 1 THEN ArgsOf(d) ELSE Junk,
   C    |-> IF i = 4 THEN PartBefore(d) ELSE IF i = 5 THEN PartAfter(d) ELSE <<>>]

-----------------------------------------------------------------------------
(* Control: queues and program counters.                                    *)

Ops == [do : {"SEND", "RECV"}, buf : {"args", "A", "B", "C"}, len : Nat, ofs : Nat]

Types ==
  /\ n \in Sizes
  /\ pc \in [Progs -> Nat] /\ inside \in [Progs -> BOOLEAN]
  /\ ops \in [Ends -> Seq(Ops)]
  /\ nmoved \in [Ends -> Nat] /\ nretired \in [Ends -> Nat]
  /\ self \in [Ends -> BOOLEAN]
  /\ st \in [Ends -> {"none", "ready", "ask", "granted", "run", "open"}]
  /\ byirq \in [Ends -> BOOLEAN] /\ irq \in [Ends -> BOOLEAN]

\* The head of the queue is being started or run, has been run and signalled,
\* or the queue is empty.
QueueInv(e) ==
  /\ nretired[e] <= nmoved[e] /\ nmoved[e] <= nretired[e] + 1
  /\ nmoved[e] <= Len(ops[e]) /\ Len(ops[e]) <= 5
  /\ irq[e] <=> nmoved[e] = nretired[e] + 1
  /\ st[e] # "none" => nmoved[e] = nretired[e] /\ nretired[e] < Len(ops[e])
  /\ st[e] = "none" /\ ~irq[e] => nretired[e] = Len(ops[e])
  /\ byirq[e] => st[e] # "none"
  /\ st[e] \in {"ask", "granted"} => Current(e).do = "SEND"
  /\ st[e] = "open" => Current(e).do = "RECV"
  /\ \A i \in 1 .. Len(ops[e]) : ops[e][i] = Plan(e)[i]

\* The caller of the first operation, which has the parameters, stays inside
\* until it has been run.
FirstInv(e) ==
  Len(ops[e]) >= 1 /\ nmoved[e] = 0 =>
    /\ Len(ops[e]) = 1 /\ inside[e[1]]
    /\ At(e[1], {"SEND", "RECV"}) /\ EndOf(e[1]) = e

\* Calls the master has submitted, over all devices, while it distributes.
MCalls == pc[Master] - 1 + (IF inside[Master] THEN 1 ELSE 0)

\* How many of them are for device d, and how many a chiplet has submitted.
MCount(d) ==
  IF MCalls <= 5 * d THEN 0 ELSE IF MCalls >= 5 * d + 5 THEN 5 ELSE MCalls - 5 * d
CCount(d) ==
  (IF pc[d] <= 1 THEN 0 ELSE IF pc[d] <= 3 THEN 1 ELSE IF pc[d] = 4 THEN 2
   ELSE IF pc[d] = 5 THEN 3 ELSE IF pc[d] <= 8 THEN 4 ELSE 5)
  + (IF inside[d] THEN 1 ELSE 0)

MasterInv ==
  /\ pc[Master] <= 7 * NumDevs + 1
  /\ pc[Master] # Dead => \A d \in Devs : Len(ops[MEnd(d)]) = MCount(d)
  /\ \A d \in Devs : pc[Master] > 5 * NumDevs + 2 * d + 1 => nretired[MEnd(d)] = 5

ChipletInv(d) ==
  /\ pc[d] <= 11
  /\ pc[d] # Dead => Len(ops[CEnd(d)]) = CCount(d)
  /\ pc[d] >= 7 \/ Len(ops[CEnd(d)]) = 5 => nretired[CEnd(d)] >= 4
  /\ pc[d] >= 10 => nretired[CEnd(d)] = 5

Control ==
  /\ Types
  /\ \A e \in Ends : QueueInv(e) /\ FirstInv(e)
  /\ \A p \in Progs : inside[p] => At(p, {"SEND", "RECV"})
  /\ MasterInv
  /\ \A d \in Devs : ChipletInv(d)

-----------------------------------------------------------------------------
(* Data: links and memories.                                                *)

\* ofs where the master is; the parts so far cover what lies before it.
OfsInv ==
  /\ ofs \in 0 .. n
  /\ \A d \in Devs : \A j \in 1 .. 5 : pc[Master] = 5 * d + j => ofs = Begin(d)
  /\ pc[Master] > 5 * NumDevs => ofs = n
  /\ \A g \in 0 .. ofs - 1 : \E d \in Devs : g \in Elements(d)

Sends(e) == st[e] = "granted" \/ (st[e] = "run" /\ Current(e).do = "SEND")

\* Neither end of link d is between the answer and the end of the message.
Apart(d) ==
  /\ nmoved[MEnd(d)] = nmoved[CEnd(d)] /\ link[d] = <<>>
  /\ \A e \in {MEnd(d), CEnd(d)} : ~Sends(e) /\ st[e] # "open"

\* The end s may send to its peer.
Joined(d, s) ==
  /\ nmoved[MEnd(d)] = nmoved[CEnd(d)] /\ link[d] = <<>>
  /\ Sends(s) /\ st[Peer(s)] = "open"

\* The end s has sent its message, if there is anything in it.
Behind(d, s) ==
  /\ nmoved[s] = nmoved[Peer(s)] + 1
  /\ ~Sends(s) /\ st[s] # "open" /\ st[Peer(s)] = "open"
  /\ link[d] = IF Plan(s)[nmoved[s]].len = 0 THEN <<>>
               ELSE <<Carries(d, nmoved[s])>>

PairInv(d) ==
  \/ Apart(d)
  \/ \E s \in {MEnd(d), CEnd(d)} : Joined(d, s) \/ Behind(d, s)

ArgRec == [n : Nat, len : Nat, ofs : Nat]
Chips == [frame : ArgRec, args : ArgRec, A : {"none", "args", "A", "B", "C"},
          B : {"none", "args", "A", "B", "C"}, C : Seq(Seq(Int))]

\* The memory of a chiplet, from what its device has received and its program
\* has done.
ChipInv(d) ==
  LET c == nmoved[CEnd(d)] IN
  /\ c >= 1 => chip[d].frame = ArgsOf(d)
  /\ pc[d] >= 2 => chip[d].args = ArgsOf(d)
  /\ c >= 2 => chip[d].A = "A"
  /\ c >= 3 => chip[d].B = "B"
  /\ c >= 4 /\ pc[d] \in 2 .. 7 => chip[d].C = PartBefore(d)
  /\ pc[d] >= 8 \/ Len(ops[CEnd(d)]) = 5 => chip[d].C = PartAfter(d)

\* C, from which parts have come back.
CInv ==
  C = [g \in 0 .. n - 1 |->
         IF \E d \in Devs : nmoved[MEnd(d)] = 5 /\ g \in Elements(d)
           THEN <<g, g>> ELSE <<g>>]

Data ==
  /\ chip \in [Devs -> Chips] /\ DOMAIN link = Devs
  /\ OfsInv /\ CInv
  /\ \A d \in Devs : PairInv(d) /\ ChipInv(d)

IInv == Control /\ Data

-----------------------------------------------------------------------------
(* Ends and texts.                                                          *)

\* The ends, and which is whose.
LEMMA TheEnds ==
  /\ Master \notin Devs /\ Master \in Progs
  /\ \A d \in Devs : d \in Progs /\ d \in Nat /\ d < NumDevs /\ d # Master
  /\ \A d \in Devs : MEnd(d) \in Ends /\ CEnd(d) \in Ends /\ MEnd(d) # CEnd(d)
  /\ \A d \in Devs : MEnd(d)[1] = Master /\ MEnd(d)[2] = d
  /\ \A d \in Devs : CEnd(d)[1] = d /\ CEnd(d)[2] = d
  /\ \A d \in Devs : Peer(MEnd(d)) = CEnd(d) /\ Peer(CEnd(d)) = MEnd(d)
  /\ \A e \in Ends : \E d \in Devs : e = MEnd(d) \/ e = CEnd(d)
  /\ \A e \in Ends : e[1] \in Progs /\ e[2] \in Devs /\ e = <<e[1], e[2]>>
BY NumDevsAssumption DEF MEnd, CEnd, Ends, Master, Devs, Progs, Peer

\* Different devices have different ends.
LEMMA EndsDiffer ==
  ASSUME NEW d \in Devs, NEW x \in Devs
  PROVE  /\ MEnd(d) # CEnd(x)
         /\ d # x => MEnd(d) # MEnd(x) /\ CEnd(d) # CEnd(x)
BY TheEnds DEF MEnd, CEnd

\* The rounds of the first loop of matmul, and those of the second.
LEMMA MasterRounds ==
  /\ Len(Text[Master]) = 7 * NumDevs /\ 7 * NumDevs \in Nat
  /\ \A d \in Devs : \A j \in 1 .. 5 :
       5 * d + j \in 1 .. 5 * NumDevs /\ Text[Master][5 * d + j] = Distribute(d)[j]
  /\ \A d \in Devs : \A j \in 1 .. 2 :
       /\ 5 * NumDevs + 2 * d + j \in 5 * NumDevs + 1 .. 7 * NumDevs
       /\ Text[Master][5 * NumDevs + 2 * d + j] = Collect(d)[j]
<1>0. NumDevs \in Nat \ {0} /\ Text[Master] = MasterText
  BY NumDevsAssumption, TheEnds DEF Text
<1>1. Len(MasterText) = 7 * NumDevs /\ 7 * NumDevs \in Nat
  BY <1>0 DEF MasterText
<1>2. ASSUME NEW d \in Devs, NEW j \in 1 .. 5
      PROVE  5 * d + j \in 1 .. 5 * NumDevs /\ Text[Master][5 * d + j] = Distribute(d)[j]
  <2>1. d \in Nat /\ d + 1 <= NumDevs
    BY <1>0 DEF Devs
  <2>2. 5 * d + j \in 1 .. 5 * NumDevs /\ 5 * d + j \in 1 .. 7 * NumDevs
    BY <1>0, <2>1
  <2>3. (5 * d + j - 1) \div 5 = d /\ ((5 * d + j - 1) % 5) + 1 = j
    BY <2>1
  <2> DEFINE i == 5 * d + j
  <2> HIDE DEF i
  <2>4. i \in 1 .. 7 * NumDevs /\ i <= 5 * NumDevs /\ (i - 1) \div 5 = d /\ ((i - 1) % 5) + 1 = j
    BY <1>0, <2>1, <2>2, <2>3 DEF i
  <2>5. MasterText[i] = Distribute(d)[j]
    BY <2>4 DEF MasterText
  <2> QED BY <1>0, <2>2, <2>5 DEF i
<1>3. ASSUME NEW d \in Devs, NEW j \in 1 .. 2
      PROVE  /\ 5 * NumDevs + 2 * d + j \in 5 * NumDevs + 1 .. 7 * NumDevs
             /\ Text[Master][5 * NumDevs + 2 * d + j] = Collect(d)[j]
  <2> DEFINE i == 5 * NumDevs + 2 * d + j
  <2>1. d \in Nat /\ d + 1 <= NumDevs
    BY <1>0 DEF Devs
  <2>2. i \in 5 * NumDevs + 1 .. 7 * NumDevs /\ i \in 1 .. 7 * NumDevs /\ ~(i <= 5 * NumDevs)
    BY <1>0, <2>1
  <2>3. (i - 5 * NumDevs - 1) \div 2 = d /\ ((i - 5 * NumDevs - 1) % 2) + 1 = j
    <3>1. i - 5 * NumDevs - 1 = 2 * d + j - 1
      BY <1>0, <2>1
    <3> QED BY <2>1, <3>1
  <2> HIDE DEF i
  <2>4. MasterText[i] = Collect(d)[j]
    BY <2>2, <2>3 DEF MasterText
  <2> QED BY <1>0, <2>2, <2>4 DEF i
<1> QED BY <1>0, <1>1, <1>2, <1>3

\* There is nothing else in it.
LEMMA MasterPlaces ==
  ASSUME NEW x \in 1 .. 7 * NumDevs
  PROVE  \E d \in Devs : \/ \E j \in 1 .. 5 : x = 5 * d + j
                         \/ \E j \in 1 .. 2 : x = 5 * NumDevs + 2 * d + j
<1>0. NumDevs \in Nat \ {0} /\ x \in Nat /\ x >= 1 /\ x <= 7 * NumDevs
  BY NumDevsAssumption
<1>1. CASE x <= 5 * NumDevs
  <2> DEFINE d == (x - 1) \div 5 j == ((x - 1) % 5) + 1
  <2>1. d \in Int /\ j \in 1 .. 5 /\ x = 5 * d + j
    BY <1>0
  <2> HIDE DEF d, j
  <2>2. d \in Devs
    BY <1>0, <1>1, <2>1 DEF Devs
  <2> QED BY <2>1, <2>2
<1>2. CASE x > 5 * NumDevs
  <2> DEFINE y == x - 5 * NumDevs - 1 d == y \div 2 j == (y % 2) + 1
  <2>0. y \in Nat /\ y <= 2 * NumDevs - 1
    BY <1>0, <1>2
  <2>1. d \in Int /\ j \in 1 .. 2 /\ y = 2 * d + j - 1
    <3> HIDE DEF y
    <3> QED BY <2>0
  <2> HIDE DEF d, j
  <2>2. d \in Devs
    BY <1>0, <2>0, <2>1 DEF Devs
  <2>3. x = 5 * NumDevs + 2 * d + j
    BY <1>0, <2>1, <2>2 DEF Devs
  <2> QED BY <2>1, <2>2, <2>3
<1> QED BY <1>0, <1>1, <1>2

\* u is the concatenation of s and t.
IsJoin(S, s, t, u) ==
  /\ u \in Seq(S) /\ Len(u) = Len(s) + Len(t)
  /\ \A i \in 1 .. Len(s) : u[i] = s[i]
  /\ \A i \in 1 .. Len(t) : u[Len(s) + i] = t[i]

\* The elements of a concatenation.
LEMMA Joins ==
  ASSUME NEW S, NEW s \in Seq(S), NEW t \in Seq(S)
  PROVE  IsJoin(S, s, t, s \o t)
BY DEF IsJoin

\* The calls of a chiplet.
LEMMA ChipletCalls ==
  ASSUME NEW d \in Devs
  PROVE  /\ Len(Text[d]) = 10
         /\ Text[d][1] = Call("RECV", d, "args") /\ Text[d][2] = Call("WAIT", d, "args")
         /\ Text[d][3] = Call("RECV", d, "A") /\ Text[d][4] = Call("RECV", d, "B")
         /\ Text[d][5] = Call("RECV", d, "C") /\ Text[d][6] = Call("WAIT", d, "C")
         /\ Text[d][7] = Call("COMPUTE", d, "C") /\ Text[d][8] = Call("SEND", d, "C")
         /\ Text[d][9] = Call("WAIT", d, "C") /\ Text[d][10] = Call("FLUSH", d, "C")
<1> DEFINE S == [do : {"SEND", "RECV", "WAIT", "FLUSH", "COMPUTE"}, dev : Devs, buf : {"args", "A", "B", "C"}]
<1>0. Text[d] = ChipletText(d)
  BY TheEnds DEF Text
<1>1. GetArgs(d) \in Seq(S) /\ Len(GetArgs(d)) = 2
  BY DEF GetArgs, Call
<1>2. GetMatrices(d) \in Seq(S) /\ Len(GetMatrices(d)) = 4
  BY DEF GetMatrices, Call
<1>3. SendBack(d) \in Seq(S) /\ Len(SendBack(d)) = 3
  BY DEF SendBack, Call
<1>4. <<Call("COMPUTE", d, "C")>> \in Seq(S) /\ Len(<<Call("COMPUTE", d, "C")>>) = 1
  BY DEF Call
<1> DEFINE a == GetArgs(d) b == GetMatrices(d) c == <<Call("COMPUTE", d, "C")>> f == SendBack(d)
<1>5. /\ a[1] = Call("RECV", d, "args") /\ a[2] = Call("WAIT", d, "args")
      /\ b[1] = Call("RECV", d, "A") /\ b[2] = Call("RECV", d, "B")
      /\ b[3] = Call("RECV", d, "C") /\ b[4] = Call("WAIT", d, "C")
      /\ c[1] = Call("COMPUTE", d, "C")
      /\ f[1] = Call("SEND", d, "C") /\ f[2] = Call("WAIT", d, "C") /\ f[3] = Call("FLUSH", d, "C")
  BY DEF GetArgs, GetMatrices, SendBack
<1>6. ChipletText(d) = a \o b \o c \o f
  BY DEF ChipletText
<1> HIDE DEF a, b, c, f, S
<1>7. a \in Seq(S) /\ b \in Seq(S) /\ c \in Seq(S) /\ f \in Seq(S)
      /\ Len(a) = 2 /\ Len(b) = 4 /\ Len(c) = 1 /\ Len(f) = 3
  BY <1>1, <1>2, <1>3, <1>4 DEF a, b, c, f
<1> DEFINE g == a \o b
<1>8. /\ g \in Seq(S) /\ Len(g) = 6 /\ g[1] = a[1] /\ g[2] = a[2]
      /\ g[3] = b[1] /\ g[4] = b[2] /\ g[5] = b[3] /\ g[6] = b[4]
  <2>1. IsJoin(S, a, b, g)
    BY <1>7, Joins, Zenon
  <2> HIDE DEF g
  <2> QED BY <1>7, <2>1 DEF IsJoin
<1> HIDE DEF g
<1> DEFINE h == g \o c
<1>9. /\ h \in Seq(S) /\ Len(h) = 7 /\ h[7] = c[1] /\ h[1] = g[1] /\ h[2] = g[2]
      /\ h[3] = g[3] /\ h[4] = g[4] /\ h[5] = g[5] /\ h[6] = g[6]
  <2>1. IsJoin(S, g, c, h)
    BY <1>7, <1>8, Joins, Zenon
  <2> HIDE DEF h
  <2> QED BY <1>7, <1>8, <2>1 DEF IsJoin
<1> HIDE DEF h
<1> DEFINE t == h \o f
<1>10. /\ Len(t) = 10 /\ t[8] = f[1] /\ t[9] = f[2] /\ t[10] = f[3]
       /\ t[1] = h[1] /\ t[2] = h[2] /\ t[3] = h[3] /\ t[4] = h[4] /\ t[5] = h[5]
       /\ t[6] = h[6] /\ t[7] = h[7]
  <2>1. IsJoin(S, h, f, t)
    BY <1>7, <1>9, Joins, Zenon
  <2> HIDE DEF t
  <2> QED BY <1>7, <1>9, <2>1 DEF IsJoin
<1> HIDE DEF t
<1>11. Text[d] = t
  BY <1>0, <1>6 DEF g, h, t
<1> QED BY <1>5, <1>8, <1>9, <1>10, <1>11

-----------------------------------------------------------------------------
(* The division of C.                                                       *)

\* Quotient and remainder.
LEMMA Division ==
  ASSUME n \in Nat
  PROVE  /\ n \div NumDevs \in Nat /\ n % NumDevs \in 0 .. NumDevs - 1
         /\ n = NumDevs * (n \div NumDevs) + (n % NumDevs)
BY NumDevsAssumption

\* The elements are in Nat, and each part begins where the one before it ends.
LEMMA PartsFollow ==
  ASSUME n \in Nat, NEW d \in Devs
  PROVE  /\ Part(d) \in Nat /\ Begin(d) \in Nat
         /\ Begin(d + 1) = Begin(d) + Part(d)
<1> DEFINE q == n \div NumDevs r == n % NumDevs
<1>1. q \in Nat /\ r \in Nat /\ d \in Nat
  BY Division, TheEnds
<1>2. d * q \in Nat /\ (d + 1) * q = d * q + q
  <2> HIDE DEF q
  <2> QED BY <1>1
<1>3. /\ Part(d) = q + (IF d < r THEN 1 ELSE 0)
      /\ Begin(d) = d * q + (IF d < r THEN d ELSE r)
      /\ Begin(d + 1) = (d + 1) * q + (IF d + 1 < r THEN d + 1 ELSE r)
  BY DEF Part, Begin
<1> HIDE DEF q, r
<1> QED BY <1>1, <1>2, <1>3

\* The parts of different devices are disjoint, and all are within C.
LEMMA PartsApart ==
  ASSUME n \in Nat, NEW d \in Devs
  PROVE  /\ Begin(d) + Part(d) <= n
         /\ \A x \in Devs : d < x => Begin(d) + Part(d) <= Begin(x)
         /\ Begin(NumDevs) = n /\ Begin(0) = 0
<1> DEFINE q == n \div NumDevs r == n % NumDevs
<1>1. q \in Nat /\ r \in 0 .. NumDevs - 1 /\ d \in Nat /\ d < NumDevs /\ n = NumDevs * q + r
  BY Division, TheEnds
<1>2. NumDevs \in Nat \ {0}
  BY NumDevsAssumption
<1>3. /\ Part(d) = q + (IF d < r THEN 1 ELSE 0)
      /\ \A x \in Nat : Begin(x) = x * q + (IF x < r THEN x ELSE r)
  BY DEF Part, Begin
<1> HIDE DEF q, r
<1>4. \A x \in Nat : d < x => d * q \in Nat /\ x * q \in Nat /\ d * q + q <= x * q
  <2> SUFFICES ASSUME NEW x \in Nat, d < x
               PROVE  d * q \in Nat /\ x * q \in Nat /\ d * q + q <= x * q
    OBVIOUS
  <2>1. PICK k \in Nat : x = d + 1 + k
    <3>1. x - d - 1 \in Nat /\ x = d + 1 + (x - d - 1)
      BY <1>1
    <3> QED BY <3>1
  <2>2. x * q = d * q + q + k * q /\ k * q \in Nat /\ d * q \in Nat
    BY <1>1, <2>1
  <2> QED BY <1>1, <2>2
<1>5. \A x \in Nat : d < x => Begin(d) + Part(d) <= Begin(x)
  <2> SUFFICES ASSUME NEW x \in Nat, d < x
               PROVE  Begin(d) + Part(d) <= Begin(x)
    OBVIOUS
  <2>1. /\ Begin(x) = x * q + (IF x < r THEN x ELSE r)
        /\ Begin(d) = d * q + (IF d < r THEN d ELSE r)
    BY <1>1, <1>3
  <2>2. d * q \in Nat /\ x * q \in Nat /\ d * q + q <= x * q
    BY <1>4
  <2>3. Part(d) = q + (IF d < r THEN 1 ELSE 0)
    BY <1>3
  <2> DEFINE u == d * q v == x * q
  <2>4. /\ u \in Nat /\ v \in Nat /\ u + q <= v
        /\ Begin(x) = v + (IF x < r THEN x ELSE r)
        /\ Begin(d) = u + (IF d < r THEN d ELSE r)
    BY <2>1, <2>2
  <2> HIDE DEF u, v
  <2>5. q \in Nat /\ r \in Nat /\ d \in Nat
    BY <1>1
  <2> QED BY <2>3, <2>4, <2>5
<1>6. Begin(NumDevs) = n
  <2>1. Begin(NumDevs) = NumDevs * q + (IF NumDevs < r THEN NumDevs ELSE r)
    BY <1>2, <1>3
  <2> QED BY <1>1, <1>2, <2>1
<1>7. Begin(0) = 0
  BY <1>1, <1>3
<1> QED BY <1>1, <1>2, <1>5, <1>6, <1>7 DEF Devs

-----------------------------------------------------------------------------
(* Where the programs are.                                                  *)

\* The call the master is at.
LEMMA MasterAt ==
  ASSUME pc[Master] \in Nat, NEW S, At(Master, S)
  PROVE  /\ CallOf(Master).do \in S
         /\ pc[Master] <= 7 * NumDevs + 1 =>
              \E d \in Devs :
                /\ EndOf(Master) = MEnd(d)
                /\ \/ \E j \in 1 .. 5 : /\ pc[Master] = 5 * d + j
                                        /\ CallOf(Master) = Distribute(d)[j]
                   \/ \E j \in 1 .. 2 : /\ pc[Master] = 5 * NumDevs + 2 * d + j
                                        /\ CallOf(Master) = Collect(d)[j]
<1>1. CallOf(Master).do \in S /\ pc[Master] # 0 /\ pc[Master] # 7 * NumDevs + 1
  BY MasterRounds DEF At, Ended, CallOf, Dead
<1> SUFFICES ASSUME pc[Master] <= 7 * NumDevs + 1
             PROVE  \E d \in Devs :
                /\ EndOf(Master) = MEnd(d)
                /\ \/ \E j \in 1 .. 5 : /\ pc[Master] = 5 * d + j
                                        /\ CallOf(Master) = Distribute(d)[j]
                   \/ \E j \in 1 .. 2 : /\ pc[Master] = 5 * NumDevs + 2 * d + j
                                        /\ CallOf(Master) = Collect(d)[j]
  BY <1>1
<1>2. pc[Master] \in 1 .. 7 * NumDevs
  BY <1>1, MasterRounds
<1>3. PICK d \in Devs : \/ \E j \in 1 .. 5 : pc[Master] = 5 * d + j
                        \/ \E j \in 1 .. 2 : pc[Master] = 5 * NumDevs + 2 * d + j
  BY <1>2, MasterPlaces
<1>4. CASE \E j \in 1 .. 5 : pc[Master] = 5 * d + j
  <2>1. PICK j \in 1 .. 5 : pc[Master] = 5 * d + j
    BY <1>4
  <2>2. CallOf(Master) = Distribute(d)[j]
    BY <2>1, MasterRounds DEF CallOf
  <2>3. Distribute(d)[j].dev = d
    BY DEF Distribute, Call
  <2> QED BY <2>1, <2>2, <2>3 DEF EndOf, MEnd
<1>5. CASE \E j \in 1 .. 2 : pc[Master] = 5 * NumDevs + 2 * d + j
  <2>1. PICK j \in 1 .. 2 : pc[Master] = 5 * NumDevs + 2 * d + j
    BY <1>5
  <2>2. CallOf(Master) = Collect(d)[j]
    BY <2>1, MasterRounds DEF CallOf
  <2>3. Collect(d)[j].dev = d
    BY DEF Collect, Call
  <2> QED BY <2>1, <2>2, <2>3 DEF EndOf, MEnd
<1> QED BY <1>3, <1>4, <1>5

\* It submits in the first loop ...
LEMMA MasterSubmits ==
  ASSUME pc[Master] \in Nat, pc[Master] <= 7 * NumDevs + 1, At(Master, {"SEND", "RECV"})
  PROVE  \E d \in Devs : \E j \in 1 .. 5 :
           /\ pc[Master] = 5 * d + j /\ CallOf(Master) = Distribute(d)[j]
           /\ EndOf(Master) = MEnd(d)
<1>1. \A d \in Devs : \A j \in 1 .. 2 : Collect(d)[j].do \notin {"SEND", "RECV"}
  BY DEF Collect, Call
<1> QED BY <1>1, MasterAt

\* ... and waits and flushes in the second.
LEMMA MasterCollects ==
  ASSUME pc[Master] \in Nat, pc[Master] <= 7 * NumDevs + 1
  PROVE  /\ At(Master, {"WAIT"}) => \E d \in Devs :
              pc[Master] = 5 * NumDevs + 2 * d + 1 /\ EndOf(Master) = MEnd(d)
         /\ At(Master, {"FLUSH"}) => \E d \in Devs :
              pc[Master] = 5 * NumDevs + 2 * d + 2 /\ EndOf(Master) = MEnd(d)
         /\ ~At(Master, {"COMPUTE"})
<1>1. \A d \in Devs : \A j \in 1 .. 5 : Distribute(d)[j].do \in {"SEND", "RECV"}
  BY DEF Distribute, Call
<1>2. \A d \in Devs : Collect(d)[1].do = "WAIT" /\ Collect(d)[2].do = "FLUSH"
  BY DEF Collect, Call
<1>3. \A j \in 1 .. 2 : j = 1 \/ j = 2
  OBVIOUS
<1>4. ASSUME At(Master, {"WAIT"})
      PROVE  \E d \in Devs :
               pc[Master] = 5 * NumDevs + 2 * d + 1 /\ EndOf(Master) = MEnd(d)
  BY <1>1, <1>2, <1>3, <1>4, MasterAt
<1>5. ASSUME At(Master, {"FLUSH"})
      PROVE  \E d \in Devs :
               pc[Master] = 5 * NumDevs + 2 * d + 2 /\ EndOf(Master) = MEnd(d)
  BY <1>1, <1>2, <1>3, <1>5, MasterAt
<1>6. ~At(Master, {"COMPUTE"})
  BY <1>1, <1>2, <1>3, MasterAt
<1> QED BY <1>4, <1>5, <1>6

\* The call a chiplet is at.
LEMMA ChipletAt ==
  ASSUME NEW d \in Devs, pc[d] \in Nat, pc[d] <= 11
  PROVE  /\ \A S : At(d, S) => EndOf(d) = CEnd(d) /\ CallOf(d) = Text[d][pc[d]]
         /\ At(d, {"SEND", "RECV"}) <=> pc[d] \in {1, 3, 4, 5, 8}
         /\ At(d, {"WAIT"}) <=> pc[d] \in {2, 6, 9}
         /\ At(d, {"COMPUTE"}) <=> pc[d] = 7
         /\ At(d, {"FLUSH"}) <=> pc[d] = 10
<1>1. pc[d] \in {0, 1, 2, 3, 4, 5, 6, 7, 8, 9, 10, 11}
  OBVIOUS
<1>2. Len(Text[d]) = 10
  BY ChipletCalls
<1>3. \A i \in {1, 2, 3, 4, 5, 6, 7, 8, 9, 10} :
        /\ Text[d][i].dev = d
        /\ Text[d][i].do \in {"SEND", "RECV"} <=> i \in {1, 3, 4, 5, 8}
        /\ Text[d][i].do = "WAIT" <=> i \in {2, 6, 9}
        /\ Text[d][i].do = "COMPUTE" <=> i = 7
        /\ Text[d][i].do = "FLUSH" <=> i = 10
  <2> DEFINE t == Text[d]
  <2>1. /\ t[1].dev = d /\ t[2].dev = d /\ t[3].dev = d /\ t[4].dev = d /\ t[5].dev = d
        /\ t[6].dev = d /\ t[7].dev = d /\ t[8].dev = d /\ t[9].dev = d /\ t[10].dev = d
        /\ t[1].do = "RECV" /\ t[2].do = "WAIT" /\ t[3].do = "RECV" /\ t[4].do = "RECV"
        /\ t[5].do = "RECV" /\ t[6].do = "WAIT" /\ t[7].do = "COMPUTE" /\ t[8].do = "SEND"
        /\ t[9].do = "WAIT" /\ t[10].do = "FLUSH"
    <3>1. \A do, buf : Call(do, d, buf).do = do /\ Call(do, d, buf).dev = d
      BY DEF Call
    <3> QED BY <3>1, ChipletCalls
  <2> HIDE DEF t
  <2>2. \A i \in {1, 2, 3, 4, 5, 6, 7, 8, 9, 10} :
          /\ t[i].dev = d
          /\ t[i].do \in {"SEND", "RECV"} <=> i \in {1, 3, 4, 5, 8}
          /\ t[i].do = "WAIT" <=> i \in {2, 6, 9}
          /\ t[i].do = "COMPUTE" <=> i = 7
          /\ t[i].do = "FLUSH" <=> i = 10
    BY <2>1
  <2> QED BY <2>2 DEF t
<1>4. \A S : At(d, S) <=> pc[d] \in {1, 2, 3, 4, 5, 6, 7, 8, 9, 10} /\ Text[d][pc[d]].do \in S
  BY <1>1, <1>2 DEF At, Ended, Dead
<1> QED BY <1>3, <1>4 DEF EndOf, CallOf, CEnd

\* The end of a program's call is one of its own.
LEMMA CallersEnd ==
  ASSUME Types, pc[Master] <= 7 * NumDevs + 1, \A d \in Devs : pc[d] <= 11,
         NEW p \in Progs, NEW S, At(p, S)
  PROVE  EndOf(p) \in Ends /\ EndOf(p)[1] = p
<1>1. CASE p = Master
  <2>1. pc[Master] \in Nat
    BY TheEnds DEF Types
  <2>2. PICK d \in Devs : EndOf(Master) = MEnd(d)
    BY <1>1, <2>1, MasterAt
  <2> QED BY <1>1, <2>2, TheEnds
<1>2. CASE p \in Devs
  <2>1. pc[p] \in Nat
    BY TheEnds DEF Types
  <2> QED BY <1>2, <2>1, ChipletAt, TheEnds
<1> QED BY <1>1, <1>2 DEF Progs

-----------------------------------------------------------------------------
(* What is submitted.                                                       *)

\* The operations of the two plans meet.
LEMMA PlansMeet ==
  ASSUME n \in Sizes, NEW d \in Devs, NEW i \in 1 .. 5
  PROVE  /\ MPlan(d)[i] \in Ops /\ CPlan(d)[i] \in Ops
         /\ Plan(MEnd(d)) = MPlan(d) /\ Plan(CEnd(d)) = CPlan(d)
         /\ MPlan(d)[i].buf = CPlan(d)[i].buf /\ MPlan(d)[i].len = CPlan(d)[i].len
         /\ MPlan(d)[i].do = (IF i = 5 THEN "RECV" ELSE "SEND")
         /\ CPlan(d)[i].do = (IF i = 5 THEN "SEND" ELSE "RECV")
         /\ MPlan(d)[i].buf = "args" <=> i = 1
<1>1. n \in Nat /\ Part(d) \in Nat /\ Begin(d) \in Nat
  BY SizesAssumption, PartsFollow
<1>2. i \in {1, 2, 3, 4, 5}
  OBVIOUS
<1>3. Plan(MEnd(d)) = MPlan(d) /\ Plan(CEnd(d)) = CPlan(d)
  BY TheEnds DEF Plan
<1>4. MPlan(d)[i] \in Ops /\ CPlan(d)[i] \in Ops
  BY <1>1, <1>2 DEF MPlan, CPlan, Op, Ops
<1> QED BY <1>2, <1>3, <1>4 DEF MPlan, CPlan, Op

\* A chiplet with l operations submits the next one from place x of its text.
SubmitsAt(x, l) ==
  \/ x = 1 /\ l = 0
  \/ x = 3 /\ l = 1
  \/ x = 4 /\ l = 2
  \/ x = 5 /\ l = 3
  \/ x = 8 /\ l = 4

\* The number of operations submitted, while the caller is about to submit.
LEMMA SubmitCount ==
  ASSUME Control, NEW p \in Progs, At(p, {"SEND", "RECV"}), ~inside[p]
  PROVE  \/ \E d \in Devs : \E j \in 1 .. 5 :
              /\ p = Master /\ pc[p] = 5 * d + j /\ EndOf(p) = MEnd(d)
              /\ CallOf(p) = Distribute(d)[j] /\ Len(ops[EndOf(p)]) = j - 1
         \/ /\ p \in Devs /\ EndOf(p) = CEnd(p) /\ CallOf(p) = Text[p][pc[p]]
            /\ SubmitsAt(pc[p], Len(ops[EndOf(p)]))
<1>1. CASE p = Master
  <2>1. pc[Master] \in Nat /\ pc[Master] <= 7 * NumDevs + 1
    BY TheEnds DEF Control, Types, MasterInv
  <2>2. PICK d \in Devs, j \in 1 .. 5 :
           /\ pc[Master] = 5 * d + j /\ CallOf(Master) = Distribute(d)[j]
           /\ EndOf(Master) = MEnd(d)
    BY <1>1, <2>1, MasterSubmits
  <2>3. d \in Nat
    BY TheEnds
  <2>4. Len(ops[MEnd(d)]) = MCount(d)
    BY <2>2, <2>3 DEF Control, MasterInv, Dead
  <2>5. MCalls = 5 * d + j - 1
    BY <1>1, <2>2, <2>3 DEF MCalls
  <2>6. MCount(d) = j - 1
    BY <2>3, <2>5 DEF MCount
  <2> QED BY <1>1, <2>2, <2>4, <2>6
<1>2. CASE p \in Devs
  <2>1. pc[p] \in Nat /\ pc[p] <= 11 /\ (pc[p] # 0 => Len(ops[CEnd(p)]) = CCount(p))
    BY <1>2, TheEnds DEF Control, Types, ChipletInv, Dead
  <2>2. EndOf(p) = CEnd(p) /\ CallOf(p) = Text[p][pc[p]] /\ pc[p] \in {1, 3, 4, 5, 8}
    BY <1>2, <2>1, ChipletAt
  <2>3. SubmitsAt(pc[p], CCount(p))
    <3>1. ~inside[p] /\ pc[p] \in {1, 3, 4, 5, 8}
      BY <2>2
    <3> QED BY <3>1 DEF CCount, SubmitsAt
  <2> QED BY <1>2, <2>1, <2>2, <2>3
<1> QED BY <1>1, <1>2 DEF Progs

\* Each program submits what its plan says.
LEMMA SubmitsPlan ==
  ASSUME IInv, NEW p \in Progs, At(p, {"SEND", "RECV"}), ~inside[p]
  PROVE  LET e == EndOf(p) IN
         /\ Len(ops[e]) \in 0 .. 4 /\ Operation(p) = Plan(e)[Len(ops[e]) + 1]
         /\ Operation(p) \in Ops
<1>0. n \in Sizes /\ n \in Nat
  BY SizesAssumption DEF IInv, Control, Types
<1>1. ASSUME NEW d \in Devs, NEW j \in 1 .. 5,
             p = Master, pc[p] = 5 * d + j, EndOf(p) = MEnd(d),
             CallOf(p) = Distribute(d)[j], Len(ops[EndOf(p)]) = j - 1
      PROVE  Operation(p) = MPlan(d)[j]
  <2>1. ofs = Begin(d)
    BY <1>1 DEF IInv, Data, OfsInv
  <2>2. Args(d) = [n |-> n, len |-> Part(d), ofs |-> Begin(d)]
    BY <2>1 DEF Args
  <2>3. j \in {1, 2, 3, 4, 5}
    OBVIOUS
  <2>4. CASE j = 1
    BY <1>1, <2>4 DEF Operation, Distribute, Call, MPlan, Op
  <2>5. CASE j = 2
    BY <1>1, <2>2, <2>5 DEF Operation, Distribute, Call, MPlan, Op
  <2>6. CASE j = 3
    BY <1>1, <2>2, <2>6 DEF Operation, Distribute, Call, MPlan, Op
  <2>7. CASE j = 4
    BY <1>1, <2>2, <2>7 DEF Operation, Distribute, Call, MPlan, Op
  <2>8. CASE j = 5
    BY <1>1, <2>2, <2>8 DEF Operation, Distribute, Call, MPlan, Op
  <2> QED BY <2>3, <2>4, <2>5, <2>6, <2>7, <2>8
<1>2. ASSUME p \in Devs, CallOf(p) = Text[p][pc[p]],
             SubmitsAt(pc[p], Len(ops[EndOf(p)]))
      PROVE  Operation(p) = CPlan(p)[Len(ops[EndOf(p)]) + 1]
  <2>0. p # Master
    BY <1>2, TheEnds
  <2>1. pc[p] # 1 => chip[p].args = [n |-> n, len |-> Part(p), ofs |-> Begin(p)]
    BY <1>2 DEF IInv, Data, ChipInv, ArgsOf, SubmitsAt
  <2> DEFINE l == Len(ops[EndOf(p)])
  <2>2. CASE pc[p] = 1 /\ l = 0
    <3>1. CallOf(p) = Call("RECV", p, "args")
      BY <1>2, <2>2, ChipletCalls
    <3> QED BY <2>0, <2>2, <3>1 DEF Operation, Call, CPlan, Op
  <2>3. CASE pc[p] = 3 /\ l = 1
    <3>1. CallOf(p) = Call("RECV", p, "A")
      BY <1>2, <2>3, ChipletCalls
    <3> QED BY <2>0, <2>1, <2>3, <3>1 DEF Operation, Call, CPlan, Op
  <2>4. CASE pc[p] = 4 /\ l = 2
    <3>1. CallOf(p) = Call("RECV", p, "B")
      BY <1>2, <2>4, ChipletCalls
    <3> QED BY <2>0, <2>1, <2>4, <3>1 DEF Operation, Call, CPlan, Op
  <2>5. CASE pc[p] = 5 /\ l = 3
    <3>1. CallOf(p) = Call("RECV", p, "C")
      BY <1>2, <2>5, ChipletCalls
    <3> QED BY <2>0, <2>1, <2>5, <3>1 DEF Operation, Call, CPlan, Op
  <2>6. CASE pc[p] = 8 /\ l = 4
    <3>1. CallOf(p) = Call("SEND", p, "C")
      BY <1>2, <2>6, ChipletCalls
    <3> QED BY <2>0, <2>1, <2>6, <3>1 DEF Operation, Call, CPlan, Op
  <2> QED BY <1>2, <2>2, <2>3, <2>4, <2>5, <2>6 DEF SubmitsAt
<1>3. CASE \E d \in Devs : \E j \in 1 .. 5 :
              /\ p = Master /\ pc[p] = 5 * d + j /\ EndOf(p) = MEnd(d)
              /\ CallOf(p) = Distribute(d)[j] /\ Len(ops[EndOf(p)]) = j - 1
  <2>1. PICK d \in Devs, j \in 1 .. 5 :
              /\ p = Master /\ pc[p] = 5 * d + j /\ EndOf(p) = MEnd(d)
              /\ CallOf(p) = Distribute(d)[j] /\ Len(ops[EndOf(p)]) = j - 1
    BY <1>3
  <2>2. Operation(p) = MPlan(d)[j] /\ MPlan(d)[j] \in Ops /\ Plan(EndOf(p)) = MPlan(d)
    BY <1>0, <1>1, <2>1, PlansMeet
  <2>3. Len(ops[EndOf(p)]) \in 0 .. 4 /\ Len(ops[EndOf(p)]) + 1 = j
    BY <2>1
  <2> QED BY <2>2, <2>3
<1>4. CASE /\ p \in Devs /\ EndOf(p) = CEnd(p) /\ CallOf(p) = Text[p][pc[p]]
           /\ SubmitsAt(pc[p], Len(ops[EndOf(p)]))
  <2>1. Len(ops[EndOf(p)]) \in 0 .. 4 /\ Len(ops[EndOf(p)]) + 1 \in 1 .. 5
    <3>1. \A x, l : SubmitsAt(x, l) => l \in 0 .. 4 /\ l + 1 \in 1 .. 5
      BY DEF SubmitsAt
    <3> QED BY <1>4, <3>1
  <2>2. Operation(p) = CPlan(p)[Len(ops[EndOf(p)]) + 1]
    BY <1>2, <1>4
  <2>3. Plan(EndOf(p)) = CPlan(p) /\ CPlan(p)[Len(ops[EndOf(p)]) + 1] \in Ops
    BY <1>0, <1>4, <2>1, PlansMeet
  <2> QED BY <2>1, <2>2, <2>3
<1> QED BY <1>3, <1>4, SubmitCount DEF IInv

-----------------------------------------------------------------------------
(* Control: the steps of the devices.                                       *)

\* What is meant does not change while n does not.
LEMMA SamePlan ==
  ASSUME n' = n
  PROVE  /\ \A d : Part(d)' = Part(d) /\ Begin(d)' = Begin(d)
         /\ \A d : MPlan(d)' = MPlan(d) /\ CPlan(d)' = CPlan(d)
         /\ \A e : Plan(e)' = Plan(e)
<1>1. \A d : Part(d)' = Part(d) /\ Begin(d)' = Begin(d)
  BY DEF Part, Begin
<1>2. \A d : MPlan(d)' = MPlan(d) /\ CPlan(d)' = CPlan(d)
  BY <1>1 DEF MPlan, CPlan
<1> QED BY <1>1, <1>2 DEF Plan

\* A queue that nobody touches.
LEMMA QueueFrame ==
  ASSUME n' = n, NEW e \in Ends, QueueInv(e),
         ops'[e] = ops[e], nretired'[e] = nretired[e], nmoved'[e] = nmoved[e],
         st'[e] = st[e], byirq'[e] = byirq[e], irq'[e] = irq[e]
  PROVE  QueueInv(e)'
<1>1. Current(e)' = Current(e)
  BY DEF Current
<1>2. Plan(e)' = Plan(e)
  BY SamePlan
<1> QED BY <1>1, <1>2 DEF QueueInv

\* Devices only advance what they have run and retired.
LEMMA DeviceControl ==
  ASSUME Control, Types', UNCHANGED <<n, pc, inside, ops>>,
         \A e \in Ends : /\ QueueInv(e)'
                         /\ nmoved[e] <= nmoved'[e] /\ nretired[e] <= nretired'[e]
  PROVE  Control'
<1>1. \A p, S : (At(p, S)' <=> At(p, S)) /\ EndOf(p)' = EndOf(p)
  BY DEF At, Ended, EndOf, CallOf
<1>2. ASSUME NEW e \in Ends
      PROVE  FirstInv(e)'
  <2>1. nmoved[e] \in Nat /\ nmoved'[e] \in Nat
    BY DEF Control, Types
  <2> QED BY <1>1, <2>1 DEF Control, FirstInv
<1>3. \A p \in Progs : inside'[p] => At(p, {"SEND", "RECV"})'
  BY <1>1 DEF Control
<1>4. \A e \in Ends : nretired'[e] \in Nat /\ nretired[e] \in Nat /\ nretired'[e] <= 5
  BY DEF Control, Types, QueueInv
<1>5. MasterInv'
  <2>1. MCalls' = MCalls
    BY DEF MCalls
  <2>2. \A d : MCount(d)' = MCount(d)
    BY <2>1 DEF MCount
  <2>3. \A d \in Devs : MEnd(d) \in Ends
    BY TheEnds
  <2>4. \A d \in Devs : nretired[MEnd(d)] = 5 => nretired'[MEnd(d)] = 5
    BY <1>4, <2>3
  <2> QED BY <2>2, <2>4 DEF Control, MasterInv
<1>6. ASSUME NEW d \in Devs
      PROVE  ChipletInv(d)'
  <2>1. CCount(d)' = CCount(d)
    BY DEF CCount
  <2>2. CEnd(d) \in Ends
    BY TheEnds
  <2>3. /\ nretired[CEnd(d)] >= 4 => nretired'[CEnd(d)] >= 4
        /\ nretired[CEnd(d)] = 5 => nretired'[CEnd(d)] = 5
    BY <1>4, <2>2
  <2> QED BY <2>1, <2>3 DEF Control, ChipletInv
<1> QED BY <1>2, <1>3, <1>5, <1>6 DEF Control

\* The handshake and the doorbell change only how far a run is.
LEMMA HandshakeControl ==
  ASSUME Control, NEW e \in Ends, Ask(e) \/ Grant(e) \/ Ring(e)
  PROVE  Control'
<1>1. UNCHANGED <<n, ofs, pc, inside, ops, nretired, self, nmoved, byirq, irq, link, C, chip>>
  BY DEF Ask, Grant, Ring, progs, queues, memory
<1>2. Peer(e) \in Ends /\ Peer(e) # e
  BY TheEnds
<1>3. Types'
  BY <1>1, <1>2 DEF Control, Types, Ask, Grant, Ring
<1>4. ASSUME NEW x \in Ends
      PROVE  QueueInv(x)' /\ nmoved[x] <= nmoved'[x] /\ nretired[x] <= nretired'[x]
  <2>1. nmoved[x] \in Nat /\ nretired[x] \in Nat /\ QueueInv(x)
    BY DEF Control, Types
  <2>2. CASE st'[x] = st[x]
    BY <1>1, <2>1, <2>2, QueueFrame
  <2>3. CASE st'[x] # st[x]
    <3>1. /\ st[x] # "none" /\ st'[x] # "none"
          /\ st'[x] \in {"ask", "granted"} => Current(x).do = "SEND"
          /\ st'[x] = "open" => Current(x).do = "RECV"
      <4>1. QueueInv(e) /\ st \in [Ends -> {"none", "ready", "ask", "granted", "run", "open"}]
        BY DEF Control, Types
      <4>2. CASE Ask(e)
        BY <2>3, <4>1, <4>2 DEF Ask
      <4>3. CASE Grant(e)
        <5>1. st'[e] = "granted" /\ st'[Peer(e)] = "open" /\ (x = e \/ x = Peer(e))
          BY <1>2, <2>3, <4>1, <4>3 DEF Grant
        <5>2. Current(e).do = "SEND" /\ Current(Peer(e)).do = "RECV"
          BY <4>1, <4>3 DEF Grant, QueueInv
        <5> QED BY <4>3, <5>1, <5>2 DEF Grant
      <4>4. CASE Ring(e)
        BY <2>3, <4>1, <4>4 DEF Ring
      <4> QED BY <4>2, <4>3, <4>4
    <3>2. Current(x)' = Current(x) /\ Plan(x)' = Plan(x)
      BY <1>1, SamePlan DEF Current
    <3> QED BY <1>1, <2>1, <3>1, <3>2 DEF QueueInv
  <2> QED BY <2>2, <2>3
<1> QED BY <1>1, <1>3, <1>4, DeviceControl

\* The end of a run.
LEMMA EndRunControl ==
  ASSUME Control, NEW e \in Ends, st[e] # "none", EndRun(e),
         UNCHANGED <<n, pc, inside, ops, nretired, self>>
  PROVE  Control'
<1>1. Types'
  BY DEF Control, Types, EndRun
<1>2. ASSUME NEW x \in Ends
      PROVE  QueueInv(x)' /\ nmoved[x] <= nmoved'[x] /\ nretired[x] <= nretired'[x]
  <2>1. nmoved[x] \in Nat /\ nretired[x] \in Nat /\ QueueInv(x)
    BY DEF Control, Types
  <2>2. CASE x # e
    <3>1. /\ nmoved'[x] = nmoved[x] /\ st'[x] = st[x] /\ byirq'[x] = byirq[x]
          /\ irq'[x] = irq[x]
      BY <2>2 DEF EndRun, Control, Types
    <3> QED BY <2>1, <3>1, QueueFrame
  <2>3. CASE x = e
    <3>1. /\ nmoved'[x] = nmoved[x] + 1 /\ st'[x] = "none" /\ byirq'[x] = FALSE
          /\ irq'[x] = TRUE
      BY <2>3 DEF EndRun, Control, Types
    <3>2. Plan(x)' = Plan(x) /\ Len(ops[x]) \in Nat
      BY SamePlan DEF Control, Types
    <3> QED BY <2>1, <2>3, <3>1, <3>2 DEF QueueInv
  <2> QED BY <2>2, <2>3
<1> QED BY <1>1, <1>2, DeviceControl

\* The handler retires the head and starts the next.
LEMMA HandleControl ==
  ASSUME Control, NEW e \in Ends, Handle(e)
  PROVE  Control'
<1>1. UNCHANGED <<n, ofs, pc, inside, ops, self, nmoved, link, C, chip>>
  BY DEF Handle, progs, memory
<1>2. QueueInv(e) /\ nmoved[e] \in Nat /\ nretired[e] \in Nat /\ Len(ops[e]) \in Nat
  BY DEF Control, Types
<1>3. /\ irq[e] /\ Active(e) /\ nmoved[e] = nretired[e] + 1 /\ st[e] = "none" /\ ~byirq[e]
  BY <1>2 DEF Handle, QueueInv, Active
<1>4. Types'
  BY <1>1, <1>2, <1>3 DEF Control, Types, Handle
<1>5. /\ irq'[e] = FALSE /\ nretired'[e] = nretired[e] + 1
      /\ IF StartsNext(e) THEN st'[e] = "ready" /\ byirq'[e] = TRUE
                          ELSE st'[e] = "none" /\ byirq'[e] = FALSE
  BY <1>3 DEF Handle, Control, Types
<1>6. ASSUME NEW x \in Ends
      PROVE  QueueInv(x)' /\ nmoved[x] <= nmoved'[x] /\ nretired[x] <= nretired'[x]
  <2>1. nmoved[x] \in Nat /\ nretired[x] \in Nat /\ QueueInv(x)
    BY DEF Control, Types
  <2>2. CASE x # e
    <3>1. /\ nretired'[x] = nretired[x] /\ st'[x] = st[x] /\ byirq'[x] = byirq[x]
          /\ irq'[x] = irq[x]
      BY <2>2 DEF Handle, Control, Types
    <3> QED BY <1>1, <2>1, <3>1, QueueFrame
  <2>3. CASE x = e
    <3>1. Plan(x)' = Plan(x)
      BY <1>1, SamePlan
    <3>2. CASE StartsNext(e)
      BY <1>1, <1>2, <1>3, <1>5, <2>3, <3>1, <3>2 DEF QueueInv, StartsNext
    <3>3. CASE ~StartsNext(e)
      BY <1>1, <1>2, <1>3, <1>5, <2>3, <3>1, <3>3 DEF QueueInv, StartsNext
    <3> QED BY <3>2, <3>3
  <2> QED BY <2>2, <2>3
<1> QED BY <1>1, <1>4, <1>6, DeviceControl

-----------------------------------------------------------------------------
(* Control: the steps of the programs.                                      *)

\* A program does not touch the ends of another.
LEMMA ProgramControl ==
  ASSUME Control, Types', NEW p \in Progs, UNCHANGED <<n, nretired, nmoved>>,
         \A q \in Progs \ {p} : pc'[q] = pc[q] /\ inside'[q] = inside[q],
         \A x \in Ends : QueueInv(x)',
         \A x \in Ends : IF x[1] = p THEN FirstInv(x)' ELSE ops'[x] = ops[x],
         inside'[p] => At(p, {"SEND", "RECV"})',
         p = Master => MasterInv', p \in Devs => ChipletInv(p)'
  PROVE  Control'
<1>1. \A q \in Progs \ {p} : (\A S : At(q, S)' <=> At(q, S)) /\ EndOf(q)' = EndOf(q)
  BY DEF At, Ended, EndOf, CallOf
<1>2. ASSUME NEW x \in Ends, x[1] # p
      PROVE  FirstInv(x)'
  <2>1. x[1] \in Progs \ {p}
    BY <1>2, TheEnds
  <2> QED BY <1>1, <1>2, <2>1 DEF Control, FirstInv
<1>3. \A q \in Progs : inside'[q] => At(q, {"SEND", "RECV"})'
  BY <1>1 DEF Control
<1>4. ASSUME p # Master
      PROVE  MasterInv'
  <2>1. Master \in Progs \ {p}
    BY <1>4, TheEnds
  <2>2. \A d \in Devs : MEnd(d) \in Ends /\ MEnd(d)[1] # p
    BY <1>4, TheEnds
  <2>3. MCalls' = MCalls
    BY <2>1 DEF MCalls
  <2>4. \A d : MCount(d)' = MCount(d)
    BY <2>3 DEF MCount
  <2>5. \A d \in Devs : ops'[MEnd(d)] = ops[MEnd(d)]
    BY <2>2
  <2> QED BY <2>1, <2>4, <2>5 DEF Control, MasterInv
<1>5. ASSUME NEW d \in Devs, d # p
      PROVE  ChipletInv(d)'
  <2>1. d \in Progs \ {p} /\ CEnd(d) \in Ends /\ CEnd(d)[1] # p
    BY <1>5, TheEnds
  <2>2. CCount(d)' = CCount(d)
    BY <2>1 DEF CCount
  <2> QED BY <2>1, <2>2 DEF Control, ChipletInv
<1> QED BY <1>2, <1>3, <1>4, <1>5 DEF Control

\* A program is at one call at a time.
LEMMA OneCall ==
  ASSUME NEW p, NEW S, NEW T, At(p, S), At(p, T), S \cap T = {}
  PROVE  FALSE
BY DEF At

\* A caller that is not inside has no first operation that is still to run.
LEMMA OutsideFirst ==
  ASSUME Control, NEW x \in Ends, ~inside[x[1]]
  PROVE  ~(Len(ops[x]) >= 1 /\ nmoved[x] = 0)
BY DEF Control, FirstInv

\* A step that leaves the queues alone and the caller outside.
LEMMA OutsideControl ==
  ASSUME Control, NEW p \in Progs, pc' \in [Progs -> Nat], inside' \in [Progs -> BOOLEAN],
         UNCHANGED <<n, ops, nretired, nmoved, self, st, byirq, irq>>,
         \A q \in Progs \ {p} : pc'[q] = pc[q] /\ inside'[q] = inside[q],
         ~inside'[p],
         \A x \in Ends : x[1] = p => ~(Len(ops[x]) >= 1 /\ nmoved[x] = 0),
         p = Master => MasterInv', p \in Devs => ChipletInv(p)'
  PROVE  Control'
<1>1. Types'
  BY DEF Control, Types
<1>2. \A x \in Ends : QueueInv(x)'
  BY QueueFrame DEF Control
<1>3. \A x \in Ends : x[1] = p => FirstInv(x)'
  BY DEF FirstInv
<1> QED BY <1>1, <1>2, <1>3, ProgramControl

\* The facts about the programs, one by one.
LEMMA ProgFacts ==
  ASSUME Control
  PROVE  /\ pc \in [Progs -> Nat] /\ inside \in [Progs -> BOOLEAN] /\ NumDevs \in Nat \ {0}
         /\ pc[Master] \in Nat /\ pc[Master] <= 7 * NumDevs + 1
         /\ \A d \in Devs : pc[d] \in Nat /\ pc[d] <= 11
         /\ \A e \in Ends : /\ nretired[e] \in Nat /\ nmoved[e] \in Nat /\ Len(ops[e]) \in Nat
                            /\ nretired[e] <= Len(ops[e]) /\ Len(ops[e]) <= 5
                            /\ ops[e] \in Seq(Ops)
<1>1. /\ pc \in [Progs -> Nat] /\ inside \in [Progs -> BOOLEAN] /\ NumDevs \in Nat \ {0}
      /\ pc[Master] <= 7 * NumDevs + 1 /\ \A d \in Devs : pc[d] <= 11
  BY NumDevsAssumption DEF Control, Types, MasterInv, ChipletInv
<1>2. pc[Master] \in Nat /\ \A d \in Devs : pc[d] \in Nat
  BY <1>1, TheEnds
<1>3. ASSUME NEW e \in Ends
      PROVE  /\ nretired[e] \in Nat /\ nmoved[e] \in Nat /\ Len(ops[e]) \in Nat
             /\ nretired[e] <= Len(ops[e]) /\ Len(ops[e]) <= 5
             /\ ops[e] \in Seq(Ops)
  BY DEF Control, Types, QueueInv
<1> QED BY <1>1, <1>2, <1>3

\* While the master collects, everything is submitted.
LEMMA AllSubmitted ==
  ASSUME Control, pc[Master] > 5 * NumDevs
  PROVE  ~inside[Master] /\ \A d \in Devs : Len(ops[MEnd(d)]) = 5
<1>1. ~inside[Master]
  <2> SUFFICES ASSUME inside[Master] PROVE FALSE
    OBVIOUS
  <2>1. At(Master, {"SEND", "RECV"})
    BY TheEnds DEF Control
  <2>2. PICK d \in Devs, j \in 1 .. 5 : pc[Master] = 5 * d + j
    BY <2>1, ProgFacts, MasterSubmits
  <2>3. d \in Nat /\ d < NumDevs /\ NumDevs \in Nat
    BY TheEnds, NumDevsAssumption
  <2> QED BY <2>2, <2>3
<1>2. MCalls >= 5 * NumDevs /\ MCalls \in Int
  BY <1>1, ProgFacts DEF MCalls
<1>3. \A d \in Devs : MCount(d) = 5
  <2> SUFFICES ASSUME NEW d \in Devs PROVE MCount(d) = 5
    OBVIOUS
  <2>1. d \in Nat /\ 5 * d + 5 <= 5 * NumDevs
    BY TheEnds, NumDevsAssumption
  <2> QED BY <1>2, <2>1, NumDevsAssumption DEF MCount
<1>4. pc[Master] # Dead
  BY ProgFacts DEF Dead
<1> QED BY <1>1, <1>3, <1>4 DEF Control, MasterInv

\* psipe_dma_pin_pages refuses and the program exits.
LEMMA RefusedControl ==
  ASSUME Control, NEW p \in Progs, Refused(p)
  PROVE  Control'
<1>1. /\ UNCHANGED <<n, inside, ops, nretired, nmoved, self, st, byirq, irq>> /\ ~inside[p]
      /\ pc' = [pc EXCEPT ![p] = 0]
  BY DEF Refused, queues, runs, Dead
<1>2. \A x \in Ends : x[1] = p => ~(Len(ops[x]) >= 1 /\ nmoved[x] = 0)
  BY <1>1, OutsideFirst
<1>3. p = Master => MasterInv'
  <2> SUFFICES ASSUME p = Master PROVE MasterInv'
    OBVIOUS
  <2>1. pc'[Master] = 0
    BY <1>1, TheEnds, ProgFacts
  <2>2. \A d \in Devs : ~(0 > 5 * NumDevs + 2 * d + 1)
    BY TheEnds, NumDevsAssumption
  <2> QED BY <2>1, <2>2, MasterRounds DEF MasterInv, Dead
<1>4. p \in Devs => ChipletInv(p)'
  <2> SUFFICES ASSUME p \in Devs PROVE ChipletInv(p)'
    OBVIOUS
  <2>1. pc'[p] = 0
    BY <1>1, ProgFacts
  <2> QED BY <1>1, <2>1 DEF Control, ChipletInv, Dead
<1> QED BY <1>1, <1>2, <1>3, <1>4, ProgFacts, OutsideControl

\* The caller leaves its ioctl.
LEMMA ReturnControl ==
  ASSUME Control, NEW p \in Progs, Return(p)
  PROVE  Control'
<1>1. /\ UNCHANGED <<n, ops, nretired, nmoved, self, st, byirq, irq>>
      /\ inside[p] /\ inside' = [inside EXCEPT ![p] = FALSE]
      /\ pc' = [pc EXCEPT ![p] = pc[p] + 1] /\ At(p, {"SEND", "RECV"})
  BY DEF Return, CallDone, queues, runs
<1>2. pc' \in [Progs -> Nat] /\ inside' \in [Progs -> BOOLEAN] /\ ~inside'[p] /\ pc'[p] = pc[p] + 1
  BY <1>1, ProgFacts
<1>3. ASSUME NEW x \in Ends, x[1] = p, Len(ops[x]) >= 1, nmoved[x] = 0
      PROVE  FALSE
  <2>1. EndOf(p) = x /\ Len(ops[x]) = 1
    BY <1>3 DEF Control, FirstInv
  <2> QED BY <1>3, <2>1 DEF Return, CallerReturns
<1>4. p = Master => MasterInv'
  <2> SUFFICES ASSUME p = Master PROVE MasterInv'
    OBVIOUS
  <2>1. PICK d \in Devs, j \in 1 .. 5 : pc[Master] = 5 * d + j
    BY <1>1, ProgFacts, MasterSubmits
  <2>2. pc[Master] \in 1 .. 5 * NumDevs
    BY <2>1, MasterRounds
  <2>3. pc'[Master] = pc[Master] + 1 /\ ~inside'[Master] /\ inside[Master]
    BY <1>1, <1>2
  <2>4. MCalls' = MCalls
    BY <2>2, <2>3 DEF MCalls
  <2>5. \A x : MCount(x)' = MCount(x)
    BY <2>4 DEF MCount
  <2>6. \A x \in Devs : ~(pc'[Master] > 5 * NumDevs + 2 * x + 1)
    BY <2>2, <2>3, TheEnds, NumDevsAssumption
  <2>7. pc'[Master] <= 7 * NumDevs + 1
    BY <2>2, <2>3, NumDevsAssumption
  <2>8. \A x \in Devs : Len(ops[MEnd(x)]) = MCount(x)
    BY <2>2 DEF Control, MasterInv, Dead
  <2> QED BY <1>1, <2>5, <2>6, <2>7, <2>8 DEF MasterInv
<1>5. p \in Devs => ChipletInv(p)'
  <2> SUFFICES ASSUME p \in Devs PROVE ChipletInv(p)'
    OBVIOUS
  <2>1. pc[p] \in {1, 3, 4, 5, 8}
    BY <1>1, ProgFacts, ChipletAt
  <2>2. CCount(p)' = CCount(p)
    BY <1>1, <1>2, <2>1 DEF CCount
  <2>3. ChipletInv(p)
    BY DEF Control
  <2> QED BY <1>1, <1>2, <2>1, <2>2, <2>3 DEF ChipletInv, Dead
<1> QED BY <1>1, <1>2, <1>3, <1>4, <1>5, ProgFacts, OutsideControl

\* psipe_wait.
LEMMA WaitControl ==
  ASSUME Control, NEW p \in Progs, Wait(p)
  PROVE  Control'
<1>1. /\ UNCHANGED <<n, inside, ops, nretired, nmoved, self, st, byirq, irq>>
      /\ At(p, {"WAIT"}) /\ nretired[EndOf(p)] = Len(ops[EndOf(p)])
      /\ \/ pc' = [pc EXCEPT ![p] = pc[p] + 1]
         \/ pc' = [pc EXCEPT ![p] = 0]
  BY DEF Wait, queues, runs, Dead
<1>2. ~inside[p]
  BY <1>1, OneCall DEF Control
<1>3. pc' \in [Progs -> Nat] /\ (pc'[p] = pc[p] + 1 \/ pc'[p] = 0)
  BY <1>1, ProgFacts
<1>4. \A x \in Ends : x[1] = p => ~(Len(ops[x]) >= 1 /\ nmoved[x] = 0)
  BY <1>2, OutsideFirst
<1>5. p = Master => MasterInv'
  <2> SUFFICES ASSUME p = Master PROVE MasterInv'
    OBVIOUS
  <2>1. PICK d \in Devs : pc[Master] = 5 * NumDevs + 2 * d + 1 /\ EndOf(Master) = MEnd(d)
    BY <1>1, ProgFacts, MasterCollects
  <2>2. d \in Nat /\ 2 * d + 2 <= 2 * NumDevs /\ NumDevs \in Nat \ {0}
    BY TheEnds, NumDevsAssumption
  <2>3. \A x \in Devs : Len(ops[MEnd(x)]) = 5
    BY <2>1, <2>2, AllSubmitted
  <2>4. nretired[MEnd(d)] = 5
    BY <1>1, <2>1, <2>3
  <2>5. pc'[Master] <= 7 * NumDevs + 1 /\ (pc'[Master] # 0 => pc'[Master] = 5 * NumDevs + 2 * d + 2)
    BY <1>3, <2>1, <2>2
  <2>6. ASSUME NEW x \in Devs, pc'[Master] > 5 * NumDevs + 2 * x + 1
        PROVE  nretired'[MEnd(x)] = 5
    <3>1. x \in Nat /\ x <= d
      BY <2>2, <2>5, <2>6, TheEnds
    <3>2. x # d => pc[Master] > 5 * NumDevs + 2 * x + 1
      BY <2>1, <2>2, <3>1
    <3> QED BY <1>1, <2>4, <3>2 DEF Control, MasterInv
  <2>7. ASSUME NEW x \in Devs, pc'[Master] # 0
        PROVE  MCount(x)' = 5
    <3>1. MCalls' = 5 * NumDevs + 2 * d + 1
      BY <1>1, <1>2, <2>2, <2>5, <2>7 DEF MCalls
    <3>2. x \in Nat /\ 5 * x + 5 <= 5 * NumDevs
      BY TheEnds, NumDevsAssumption
    <3> QED BY <2>2, <3>1, <3>2 DEF MCount
  <2> QED BY <1>1, <2>3, <2>5, <2>6, <2>7 DEF MasterInv, Dead
<1>6. p \in Devs => ChipletInv(p)'
  <2> SUFFICES ASSUME p \in Devs PROVE ChipletInv(p)'
    OBVIOUS
  <2>1. pc[p] \in {2, 6, 9} /\ EndOf(p) = CEnd(p)
    BY <1>1, ProgFacts, ChipletAt
  <2>2. ChipletInv(p)
    BY DEF Control
  <2>3. pc'[p] # 0 => CCount(p)' = CCount(p)
    BY <1>1, <1>3, <2>1 DEF CCount
  <2>4. Len(ops[CEnd(p)]) = CCount(p) /\ nretired[CEnd(p)] = Len(ops[CEnd(p)])
    BY <1>1, <2>1, <2>2 DEF ChipletInv, Dead
  <2>5. /\ pc[p] = 6 => Len(ops[CEnd(p)]) = 4
        /\ pc[p] = 9 => Len(ops[CEnd(p)]) = 5
    BY <1>2, <2>4 DEF CCount
  <2> QED BY <1>1, <1>3, <2>1, <2>2, <2>3, <2>4, <2>5 DEF ChipletInv, Dead
<1> QED BY <1>1, <1>2, <1>3, <1>4, <1>5, <1>6, ProgFacts, OutsideControl

\* A flush finds nothing to drop.
LEMMA FlushDrained ==
  ASSUME Control, NEW p \in Progs, At(p, {"FLUSH"})
  PROVE  /\ EndOf(p) \in Ends /\ EndOf(p)[1] = p
         /\ nretired[EndOf(p)] = Len(ops[EndOf(p)]) /\ nretired[EndOf(p)] = 5
<1>0. EndOf(p) \in Ends /\ EndOf(p)[1] = p
  BY ProgFacts, CallersEnd DEF Control
<1>1. CASE p = Master
  <2>1. PICK d \in Devs : pc[Master] = 5 * NumDevs + 2 * d + 2 /\ EndOf(Master) = MEnd(d)
    BY <1>1, ProgFacts, MasterCollects
  <2>2. d \in Nat /\ NumDevs \in Nat
    BY TheEnds, NumDevsAssumption
  <2>3. pc[Master] > 5 * NumDevs + 2 * d + 1 /\ pc[Master] > 5 * NumDevs
    BY <2>1, <2>2
  <2>4. nretired[MEnd(d)] = 5 /\ Len(ops[MEnd(d)]) = 5
    BY <2>3, AllSubmitted DEF Control, MasterInv
  <2> QED BY <1>0, <1>1, <2>1, <2>4
<1>2. CASE p \in Devs
  <2>1. pc[p] = 10 /\ EndOf(p) = CEnd(p)
    BY <1>2, ProgFacts, ChipletAt
  <2>2. nretired[CEnd(p)] = 5 /\ CEnd(p) \in Ends
    BY <1>2, <2>1, TheEnds, SMTT(30) DEF Control, ChipletInv
  <2>3. /\ nretired[CEnd(p)] <= Len(ops[CEnd(p)]) /\ Len(ops[CEnd(p)]) <= 5
        /\ Len(ops[CEnd(p)]) \in Nat
    BY <2>2, ProgFacts
  <2>4. nretired[CEnd(p)] = Len(ops[CEnd(p)])
    <3>1. \A a, b \in Nat : a = 5 /\ a <= b /\ b <= 5 => a = b
      OBVIOUS
    <3>2. nretired[CEnd(p)] \in Nat
      BY <2>2, ProgFacts
    <3> QED BY <2>2, <2>3, <3>1, <3>2, Zenon
  <2> QED BY <1>0, <2>1, <2>2, <2>4
<1> QED BY <1>1, <1>2 DEF Progs

\* psipe_flush.
LEMMA FlushControl ==
  ASSUME Control, NEW p \in Progs, Flush(p)
  PROVE  Control' /\ nretired' = nretired
<1>1. /\ UNCHANGED <<n, inside, ops, nmoved, self, st, byirq, irq>> /\ At(p, {"FLUSH"})
      /\ pc' = [pc EXCEPT ![p] = pc[p] + 1]
  BY DEF Flush, runs
<1>2. nretired' = nretired
  BY <1>1, FlushDrained DEF Flush, Control, Types
<1>3. ~inside[p]
  BY <1>1, OneCall DEF Control
<1>4. pc' \in [Progs -> Nat] /\ pc'[p] = pc[p] + 1
  BY <1>1, ProgFacts
<1>5. \A x \in Ends : x[1] = p => ~(Len(ops[x]) >= 1 /\ nmoved[x] = 0)
  BY <1>3, OutsideFirst
<1>6. p = Master => MasterInv'
  <2> SUFFICES ASSUME p = Master PROVE MasterInv'
    OBVIOUS
  <2>1. PICK d \in Devs : pc[Master] = 5 * NumDevs + 2 * d + 2 /\ EndOf(Master) = MEnd(d)
    BY <1>1, ProgFacts, MasterCollects
  <2>2. d \in Nat /\ 2 * d + 2 <= 2 * NumDevs /\ NumDevs \in Nat \ {0}
    BY TheEnds, NumDevsAssumption
  <2>3. \A x \in Devs : Len(ops[MEnd(x)]) = 5
    BY <2>1, <2>2, AllSubmitted
  <2>4. pc'[Master] = 5 * NumDevs + 2 * d + 3 /\ pc'[Master] <= 7 * NumDevs + 1
    BY <1>4, <2>1, <2>2
  <2>5. ASSUME NEW x \in Devs, pc'[Master] > 5 * NumDevs + 2 * x + 1
        PROVE  nretired'[MEnd(x)] = 5
    <3>1. x \in Nat /\ pc[Master] > 5 * NumDevs + 2 * x + 1
      BY <2>1, <2>2, <2>4, <2>5, TheEnds
    <3> QED BY <1>2, <3>1 DEF Control, MasterInv
  <2>6. ASSUME NEW x \in Devs
        PROVE  MCount(x)' = 5
    <3>1. MCalls' = 5 * NumDevs + 2 * d + 2
      BY <1>1, <1>3, <2>2, <2>4 DEF MCalls
    <3>2. x \in Nat /\ 5 * x + 5 <= 5 * NumDevs
      BY TheEnds, NumDevsAssumption
    <3> QED BY <2>2, <3>1, <3>2 DEF MCount
  <2> QED BY <1>1, <2>3, <2>4, <2>5, <2>6 DEF MasterInv
<1>7. p \in Devs => ChipletInv(p)'
  <2> SUFFICES ASSUME p \in Devs PROVE ChipletInv(p)'
    OBVIOUS
  <2>1. pc[p] = 10
    BY <1>1, ProgFacts, ChipletAt
  <2>2. ChipletInv(p)
    BY DEF Control
  <2>3. CCount(p)' = CCount(p)
    BY <1>1, <1>4, <2>1 DEF CCount
  <2> QED BY <1>1, <1>2, <1>4, <2>1, <2>2, <2>3 DEF ChipletInv, Dead
<1> QED BY <1>1, <1>2, <1>3, <1>4, <1>5, <1>6, <1>7, ProgFacts, OutsideControl

\* The computation of a chiplet.
LEMMA ComputeControl ==
  ASSUME Control, NEW p \in Devs, Compute(p)
  PROVE  Control'
<1>1. /\ UNCHANGED <<n, inside, ops, nretired, nmoved, self, st, byirq, irq>>
      /\ At(p, {"COMPUTE"}) /\ pc' = [pc EXCEPT ![p] = pc[p] + 1]
  BY DEF Compute, queues, runs
<1>2. p \in Progs /\ p # Master
  BY TheEnds
<1>3. ~inside[p]
  BY <1>1, <1>2, OneCall DEF Control
<1>4. pc' \in [Progs -> Nat] /\ pc'[p] = pc[p] + 1
  BY <1>1, <1>2, ProgFacts
<1>5. \A x \in Ends : x[1] = p => ~(Len(ops[x]) >= 1 /\ nmoved[x] = 0)
  BY <1>3, OutsideFirst
<1>6. ChipletInv(p)'
  <2>1. pc[p] = 7
    BY <1>1, ProgFacts, ChipletAt
  <2>2. ChipletInv(p)
    BY DEF Control
  <2>3. CCount(p)' = CCount(p)
    BY <1>1, <1>4, <2>1 DEF CCount
  <2> QED BY <1>1, <1>4, <2>1, <2>2, <2>3 DEF ChipletInv, Dead
<1> QED BY <1>1, <1>2, <1>3, <1>4, <1>5, <1>6, ProgFacts, OutsideControl

\* What Submit does to the variables of Control.
LEMMA SubmitEffect ==
  ASSUME IInv, NEW p \in Progs, Submit(p)
  PROVE  LET e == EndOf(p) l == Len(ops[e]) IN
         /\ UNCHANGED <<n, nretired, nmoved, byirq, irq>>
         /\ At(p, {"SEND", "RECV"}) /\ ~inside[p] /\ e \in Ends /\ e[1] = p
         /\ l \in 0 .. 4 /\ Plan(e)[l + 1] \in Ops
         /\ ops' = [ops EXCEPT ![e] = Append(ops[e], Plan(e)[l + 1])]
         /\ \/ /\ nretired[e] = l /\ st' = [st EXCEPT ![e] = "ready"]
               /\ inside' = [inside EXCEPT ![p] = TRUE] /\ pc' = pc /\ ofs' = ofs
            \/ /\ nretired[e] < l /\ UNCHANGED <<inside, st>>
               /\ pc' = [pc EXCEPT ![p] = pc[p] + 1]
<1>1. /\ At(p, {"SEND", "RECV"}) /\ ~inside[p]
      /\ UNCHANGED <<n, nretired, nmoved, byirq, irq>>
      /\ ops' = [ops EXCEPT ![EndOf(p)] = Append(ops[EndOf(p)], Operation(p))]
  BY DEF Submit
<1>2. EndOf(p) \in Ends /\ EndOf(p)[1] = p
  BY <1>1, ProgFacts, CallersEnd DEF IInv, Control
<1>3. LET e == EndOf(p) IN
      /\ Len(ops[e]) \in 0 .. 4 /\ Operation(p) = Plan(e)[Len(ops[e]) + 1]
      /\ Operation(p) \in Ops
  BY <1>1, SubmitsPlan
<1>4. nretired[EndOf(p)] \in Nat /\ nretired[EndOf(p)] <= Len(ops[EndOf(p)])
  BY <1>2, ProgFacts DEF IInv
<1>5. CASE FoundEmpty(EndOf(p))
  <2>1. /\ st' = [st EXCEPT ![EndOf(p)] = "ready"]
        /\ inside' = [inside EXCEPT ![p] = TRUE] /\ pc' = pc /\ ofs' = ofs
    BY <1>5 DEF Submit
  <2>2. nretired[EndOf(p)] = Len(ops[EndOf(p)])
    BY <1>3, <1>4, <1>5 DEF FoundEmpty, Active
  <2> QED BY <1>1, <1>2, <1>3, <2>1, <2>2
<1>6. CASE ~FoundEmpty(EndOf(p))
  <2>1. UNCHANGED <<inside, st>> /\ pc' = [pc EXCEPT ![p] = pc[p] + 1]
    BY <1>6 DEF Submit, CallDone
  <2>2. nretired[EndOf(p)] < Len(ops[EndOf(p)])
    BY <1>6 DEF FoundEmpty, Active
  <2> QED BY <1>1, <1>2, <1>3, <2>1, <2>2
<1> QED BY <1>5, <1>6

\* psipe_send and psipe_recv.
LEMMA SubmitControl ==
  ASSUME IInv, NEW p \in Progs, Submit(p)
  PROVE  Control'
<1>a. PICK e : e = EndOf(p)
  OBVIOUS
<1>b. PICK l : l = Len(ops[e])
  OBVIOUS
<1>1. /\ UNCHANGED <<n, nretired, nmoved, byirq, irq>>
      /\ At(p, {"SEND", "RECV"}) /\ ~inside[p] /\ e \in Ends /\ e[1] = p
      /\ l \in 0 .. 4 /\ Plan(e)[l + 1] \in Ops
      /\ ops' = [ops EXCEPT ![e] = Append(ops[e], Plan(e)[l + 1])]
      /\ \/ /\ nretired[e] = l /\ st' = [st EXCEPT ![e] = "ready"]
            /\ inside' = [inside EXCEPT ![p] = TRUE] /\ pc' = pc
         \/ /\ nretired[e] < l /\ UNCHANGED <<inside, st>>
            /\ pc' = [pc EXCEPT ![p] = pc[p] + 1]
  BY <1>a, <1>b, SubmitEffect
<1>2. Control
  BY DEF IInv
<1>3. self' = [self EXCEPT ![e] = FoundEmpty(e)] /\ FoundEmpty(e) \in BOOLEAN
  BY <1>a DEF Submit, FoundEmpty
<1>4. /\ ops' \in [Ends -> Seq(Ops)] /\ Len(ops'[e]) = l + 1
      /\ ops'[e][l + 1] = Plan(e)[l + 1] /\ \A i \in 1 .. l : ops'[e][i] = ops[e][i]
      /\ \A x \in Ends : x # e => ops'[x] = ops[x]
  <2> DEFINE o == Plan(e)[l + 1] s == ops[e]
  <2>1. s \in Seq(Ops) /\ ops \in [Ends -> Seq(Ops)] /\ e \in Ends /\ o \in Ops
    BY <1>1, <1>2 DEF Control, Types
  <2>2. ops' = [ops EXCEPT ![e] = Append(s, o)]
    BY <1>1
  <2>3. Len(s) = l
    BY <1>b
  <2> HIDE DEF o, s
  <2>4. /\ Append(s, o) \in Seq(Ops) /\ Len(Append(s, o)) = l + 1
        /\ Append(s, o)[l + 1] = o /\ \A i \in 1 .. l : Append(s, o)[i] = s[i]
    BY <2>1, <2>3
  <2>5. /\ ops' \in [Ends -> Seq(Ops)] /\ ops'[e] = Append(s, o)
        /\ \A x \in Ends : x # e => ops'[x] = ops[x]
    BY <2>1, <2>2, <2>4
  <2> QED BY <2>4, <2>5 DEF o, s
<1>5. Types'
  <2>1. /\ pc \in [Progs -> Nat] /\ inside \in [Progs -> BOOLEAN] /\ self \in [Ends -> BOOLEAN]
        /\ st \in [Ends -> {"none", "ready", "ask", "granted", "run", "open"}]
    BY <1>2 DEF Control, Types
  <2>2. pc' \in [Progs -> Nat] /\ inside' \in [Progs -> BOOLEAN]
    <3>1. /\ pc' = pc \/ pc' = [pc EXCEPT ![p] = pc[p] + 1]
          /\ inside' = inside \/ inside' = [inside EXCEPT ![p] = TRUE]
      BY <1>1
    <3>2. pc[p] + 1 \in Nat
      BY <2>1
    <3>3. pc' \in [Progs -> Nat]
      BY <2>1, <3>1, <3>2, Zenon
    <3>4. inside' \in [Progs -> BOOLEAN]
      BY <2>1, <3>1
    <3> QED BY <3>3, <3>4
  <2>3. st' \in [Ends -> {"none", "ready", "ask", "granted", "run", "open"}]
    BY <1>1, <2>1
  <2>4. self' \in [Ends -> BOOLEAN]
    BY <1>3, <2>1
  <2> QED BY <1>1, <1>2, <1>4, <2>2, <2>3, <2>4 DEF Control, Types
<1>6. pc'[p] \in {pc[p], pc[p] + 1}
      /\ (\A q \in Progs \ {p} : pc'[q] = pc[q] /\ inside'[q] = inside[q])
      /\ (inside'[p] => pc'[p] = pc[p])
      /\ (pc'[p] = pc[p] + 1 => ~inside'[p])
      /\ (pc'[p] = pc[p] => inside'[p])
  BY <1>1, <1>2, ProgFacts
<1>7. ASSUME NEW x \in Ends
      PROVE  QueueInv(x)'
  <2>1. QueueInv(x) /\ nmoved[x] \in Nat /\ nretired[x] \in Nat
    BY <1>2 DEF Control, Types
  <2>2. CASE x # e
    <3>1. ops'[x] = ops[x] /\ st'[x] = st[x]
      BY <1>1, <1>2, <1>4, <2>2 DEF Control, Types
    <3> QED BY <1>1, <2>1, <3>1, QueueFrame
  <2>3. CASE x = e
    <3>1. QueueInv(e) /\ nmoved[e] \in Nat /\ nretired[e] \in Nat /\ Plan(e)' = Plan(e)
      BY <1>1, <2>1, <2>3, SamePlan
    <3>2. \A i \in 1 .. l + 1 : ops'[e][i] = Plan(e)'[i]
      <4>1. \A i \in 1 .. l : ops'[e][i] = Plan(e)[i]
        BY <1>4, <1>b, <3>1 DEF QueueInv
      <4>2. l \in Nat
        BY <1>1
      <4> QED BY <1>4, <3>1, <4>1, <4>2
    <3>3. CASE nretired[e] = l /\ st' = [st EXCEPT ![e] = "ready"]
      <4>1. st'[e] = "ready"
        BY <1>1, <1>2, <3>3 DEF Control, Types
      <4>2. nmoved[e] = l /\ nretired[e] = l /\ ~irq[e] /\ l \in Nat /\ l <= 4
        BY <1>1, <1>b, <3>1, <3>3 DEF QueueInv
      <4>3. /\ nmoved'[e] = l /\ nretired'[e] = l /\ ~irq'[e] /\ Len(ops'[e]) = l + 1
            /\ byirq'[e] => st'[e] # "none"
        BY <1>1, <1>4, <4>1, <4>2
      <4> QED BY <2>3, <3>2, <4>1, <4>2, <4>3 DEF QueueInv
    <3>4. CASE nretired[e] < l /\ st' = st
      <4>1. Current(e)' = Current(e)
        <5> QED BY <1>1, <1>4, <3>1, <3>4 DEF Current
      <4> QED BY <1>1, <1>4, <2>3, <3>1, <3>2, <3>4, <4>1, <1>b, SMTT(30) DEF QueueInv
    <3> QED BY <1>1, <3>3, <3>4
  <2> QED BY <2>2, <2>3
<1>8. ASSUME NEW x \in Ends
      PROVE  IF x[1] = p THEN FirstInv(x)' ELSE ops'[x] = ops[x]
  <2>1. CASE x = e
    <3> SUFFICES ASSUME nmoved'[e] = 0
                 PROVE  Len(ops'[e]) = 1 /\ inside'[p] /\ At(p, {"SEND", "RECV"})' /\ EndOf(p)' = e
      BY <1>1, <2>1 DEF FirstInv
    <3>1. l = 0 /\ nretired[e] = 0
      <4>1. nmoved[e] = 0 /\ ~(l >= 1 /\ nmoved[e] = 0)
        BY <1>b, <1>1, <1>2, OutsideFirst
      <4>2. nretired[e] \in Nat /\ nretired[e] <= l
        BY <1>b, <1>1, <1>2, ProgFacts
      <4> QED BY <1>1, <4>1, <4>2
    <3>2. pc' = pc /\ inside' = [inside EXCEPT ![p] = TRUE]
      BY <1>1, <3>1
    <3>3. inside'[p]
      BY <1>2, <3>2, ProgFacts
    <3>4. At(p, {"SEND", "RECV"})'
      BY <1>1, <3>2 DEF At, Ended
    <3>5. EndOf(p)' = e
      BY <1>a, <3>2 DEF EndOf, CallOf
    <3>6. Len(ops'[e]) = 1
      BY <1>4, <3>1
    <3> QED BY <3>3, <3>4, <3>5, <3>6
  <2>2. CASE x # e /\ x[1] = p
    <3>1. ~(Len(ops[x]) >= 1 /\ nmoved[x] = 0)
      BY <1>1, <1>2, <2>2, OutsideFirst
    <3> QED BY <1>1, <1>4, <2>2, <3>1 DEF FirstInv
  <2>3. CASE x[1] # p
    BY <1>1, <1>4, <2>3
  <2> QED BY <2>1, <2>2, <2>3
<1>9. inside'[p] => At(p, {"SEND", "RECV"})'
  BY <1>1, <1>6 DEF At, Ended
<1>10. p = Master => MasterInv'
  <2> SUFFICES ASSUME p = Master PROVE MasterInv'
    OBVIOUS
  <2>1. PICK d \in Devs, j \in 1 .. 5 : pc[Master] = 5 * d + j /\ e = MEnd(d)
    BY <1>a, <1>1, <1>2, ProgFacts, MasterSubmits
  <2>2. d \in Nat /\ d < NumDevs /\ NumDevs \in Nat
    BY TheEnds, NumDevsAssumption
  <2>3. MCalls = 5 * d + j - 1 /\ MCalls' = 5 * d + j
    BY <1>1, <1>6, <2>1, <2>2 DEF MCalls
  <2>4. \A x \in Devs : Len(ops[MEnd(x)]) = MCount(x)
    BY <1>2, <2>1, <2>2 DEF Control, MasterInv, Dead
  <2>5. ASSUME NEW x \in Devs
        PROVE  Len(ops'[MEnd(x)]) = MCount(x)'
    <3>1. CASE x = d
      <4>1. MCount(d) = j - 1 /\ MCount(d)' = j
        BY <2>2, <2>3 DEF MCount
      <4> QED BY <1>b, <1>4, <2>1, <2>4, <3>1, <4>1
    <3>2. CASE x # d
      <4>1. x \in Nat
        BY TheEnds
      <4>2. MCount(x)' = MCount(x)
        BY <2>2, <2>3, <3>2, <4>1 DEF MCount
      <4>3. MEnd(x) \in Ends /\ MEnd(x) # e
        BY <2>1, <3>2, EndsDiffer, TheEnds
      <4> QED BY <1>4, <2>4, <4>2, <4>3
    <3> QED BY <3>1, <3>2
  <2>6. pc'[Master] <= 5 * NumDevs + 1 /\ pc'[Master] \in Nat
    BY <1>6, <2>1, <2>2
  <2>7. pc'[Master] <= 7 * NumDevs + 1 /\ \A x \in Devs : ~(pc'[Master] > 5 * NumDevs + 2 * x + 1)
    BY <2>2, <2>6, TheEnds
  <2> QED BY <2>5, <2>7 DEF MasterInv
<1>11. p \in Devs => ChipletInv(p)'
  <2> SUFFICES ASSUME p \in Devs PROVE ChipletInv(p)'
    OBVIOUS
  <2>1. pc[p] \in {1, 3, 4, 5, 8} /\ e = CEnd(p)
    BY <1>a, <1>1, <1>2, ProgFacts, ChipletAt
  <2>2. ChipletInv(p) /\ nretired[CEnd(p)] \in Nat
    BY <1>1, <1>2, <2>1, ProgFacts DEF Control
  <2>3. CCount(p)' = CCount(p) + 1
    BY <1>1, <1>6, <2>1 DEF CCount
  <2>4. Len(ops[CEnd(p)]) = CCount(p) /\ Len(ops'[CEnd(p)]) = CCount(p) + 1
    BY <1>b, <1>4, <2>1, <2>2 DEF ChipletInv, Dead
  <2>5. Len(ops'[CEnd(p)]) = 5 => pc[p] = 8
    BY <1>1, <2>1, <2>4 DEF CCount
  <2> QED BY <1>1, <1>6, <2>1, <2>2, <2>3, <2>4, <2>5 DEF ChipletInv, Dead
<1> QED BY <1>1, <1>2, <1>5, <1>6, <1>7, <1>8, <1>9, <1>10, <1>11, ProgramControl

-----------------------------------------------------------------------------
(* Data: ofs.                                                               *)

\* Nobody but the master changes ofs.
LEMMA OfsFrame ==
  ASSUME OfsInv, n' = n, ofs' = ofs, pc'[Master] = pc[Master]
  PROVE  OfsInv'
<1>1. \A d : Begin(d)' = Begin(d) /\ Elements(d)' = Elements(d)
  BY SamePlan DEF Elements
<1> QED BY <1>1 DEF OfsInv

\* The end of a call: a SEND leaves ofs alone, the RECV adds the part.
LEMMA CallDoneOfs ==
  ASSUME IInv, n' = n, At(Master, {"SEND", "RECV"}), CallDone(Master)
  PROVE  OfsInv'
<1>0. /\ n \in Nat /\ NumDevs \in Nat \ {0} /\ OfsInv
  BY SizesAssumption, NumDevsAssumption DEF IInv, Control, Types, Data
<1>1. PICK d \in Devs, j \in 1 .. 5 :
         pc[Master] = 5 * d + j /\ CallOf(Master) = Distribute(d)[j]
  BY ProgFacts, MasterSubmits DEF IInv
<1>2. pc'[Master] = 5 * d + j + 1
  BY <1>1, ProgFacts, TheEnds DEF CallDone, IInv
<1>3. d \in Nat /\ d < NumDevs
  BY TheEnds
<1>4. Part(d) \in Nat /\ Begin(d) \in Nat /\ Begin(d + 1) = Begin(d) + Part(d) /\ ofs = Begin(d)
  BY <1>0, <1>1, PartsFollow DEF OfsInv
<1>5. Begin(d) + Part(d) <= n /\ Begin(NumDevs) = n
  BY <1>0, PartsApart
<1>6. CallOf(Master).dev = d /\ (CallOf(Master).do = "RECV" <=> j = 5)
  BY <1>1 DEF Distribute, Call
<1>7. \A x : Begin(x)' = Begin(x) /\ Elements(x)' = Elements(x)
  BY SamePlan DEF Elements
<1>8. CASE j # 5
  <2>1. ofs' = ofs
    BY <1>6, <1>8 DEF CallDone
  <2>2. \A x \in Devs : \A i \in 1 .. 5 : pc'[Master] = 5 * x + i => x = d
    BY <1>2, <1>3, <1>8, TheEnds
  <2>3. ~(pc'[Master] > 5 * NumDevs)
    BY <1>0, <1>2, <1>3, <1>8
  <2> QED BY <1>0, <1>4, <1>7, <2>1, <2>2, <2>3 DEF OfsInv
<1>9. CASE j = 5
  <2>1. ofs' = Begin(d) + Part(d) /\ ofs' = Begin(d + 1) /\ ofs' \in 0 .. n
    <3>1. ofs' = ofs + Part(d)
      BY <1>6, <1>9 DEF CallDone
    <3> QED BY <1>0, <1>4, <1>5, <3>1
  <2>2. ASSUME NEW x \in Devs, NEW i \in 1 .. 5, pc'[Master] = 5 * x + i
        PROVE  ofs' = Begin(x)
    <3>1. x = d + 1
      BY <1>2, <1>3, <1>9, <2>2, TheEnds
    <3> QED BY <2>1, <3>1
  <2>3. pc'[Master] > 5 * NumDevs => ofs' = n
    <3>1. pc'[Master] > 5 * NumDevs => d + 1 = NumDevs
      BY <1>0, <1>2, <1>3, <1>9
    <3> QED BY <1>5, <2>1, <3>1
  <2>4. ASSUME NEW g \in 0 .. ofs' - 1
        PROVE  \E x \in Devs : g \in Elements(x)
    <3>1. CASE g <= ofs - 1
      BY <1>0, <2>1, <3>1 DEF OfsInv
    <3>2. CASE ~(g <= ofs - 1)
      <4>1. g \in Elements(d)
        BY <1>4, <2>1, <3>2 DEF Elements
      <4> QED BY <4>1
    <3> QED BY <3>1, <3>2
  <2> QED BY <1>7, <2>1, <2>2, <2>3, <2>4 DEF OfsInv
<1> QED BY <1>8, <1>9

\* Every step of a program leaves it as OfsInv says.
LEMMA ProgramOfs ==
  ASSUME IInv, NEW p \in Progs, ProgStep(p)
  PROVE  OfsInv'
<1>0. OfsInv /\ Control /\ Master \in Progs
  BY TheEnds DEF IInv, Data
<1>1. n' = n
  BY DEF ProgStep, Submit, Refused, Return, Wait, Flush, Compute
<1>2. CASE p # Master
  <2>1. ofs' = ofs /\ pc'[Master] = pc[Master]
    BY <1>0, <1>2, ProgFacts DEF ProgStep, Submit, Refused, Return, Wait, Flush, Compute, CallDone
  <2> QED BY <1>0, <1>1, <2>1, OfsFrame
<1>3. CASE p = Master
  <2>1. CASE Submit(p)
    <3>1. At(Master, {"SEND", "RECV"})
      BY <1>3, <2>1 DEF Submit
    <3>2. CASE FoundEmpty(EndOf(Master))
      <4>1. pc' = pc /\ ofs' = ofs
        BY <1>3, <2>1, <3>2 DEF Submit
      <4> QED BY <1>0, <1>1, <4>1, OfsFrame
    <3>3. CASE ~FoundEmpty(EndOf(Master))
      <4>1. CallDone(Master)
        BY <1>3, <2>1, <3>3 DEF Submit
      <4> QED BY <1>1, <3>1, <4>1, CallDoneOfs
    <3> QED BY <3>2, <3>3
  <2>2. CASE Return(p)
    BY <1>1, <1>3, <2>2, CallDoneOfs DEF Return
  <2>3. CASE Refused(p) \/ Wait(p) \/ Flush(p)
    <3>0. \A x : Begin(x)' = Begin(x) /\ Elements(x)' = Elements(x)
      BY <1>1, SamePlan DEF Elements
    <3>1. ofs' = ofs
      BY <2>3 DEF Refused, Wait, Flush
    <3>2. NumDevs \in Nat \ {0} /\ \A d \in Devs : d \in Nat /\ d < NumDevs
      BY TheEnds, NumDevsAssumption
    <3>3. CASE pc'[Master] = 0
      <4>1. ~(0 > 5 * NumDevs) /\ \A d \in Devs : \A j \in 1 .. 5 : 0 # 5 * d + j
        BY <3>2
      <4> QED BY <1>0, <1>1, <3>0, <3>1, <3>3, <4>1 DEF OfsInv
    <3>4. CASE pc'[Master] # 0
      <4>1. pc'[Master] = pc[Master] + 1 /\ (At(Master, {"WAIT"}) \/ At(Master, {"FLUSH"}))
        BY <1>0, <1>3, <2>3, <3>4, ProgFacts DEF Refused, Wait, Flush, Dead
      <4>2. pc[Master] > 5 * NumDevs /\ pc[Master] \in Nat
        BY <1>0, <3>2, <4>1, ProgFacts, MasterCollects
      <4>3. \A d \in Devs : \A j \in 1 .. 5 : pc'[Master] # 5 * d + j
        BY <3>2, <4>1, <4>2
      <4>4. pc'[Master] > 5 * NumDevs
        BY <3>2, <4>1, <4>2
      <4> QED BY <1>0, <1>1, <3>0, <3>1, <4>2, <4>3, <4>4 DEF OfsInv
    <3> QED BY <3>3, <3>4
  <2> QED BY <1>3, <2>1, <2>2, <2>3 DEF ProgStep
<1> QED BY <1>2, <1>3

-----------------------------------------------------------------------------
(* Data: pairs of devices.                                                  *)

\* What a pair carries does not change while n does not.
LEMMA SameCarries ==
  ASSUME n' = n
  PROVE  \A d, i : /\ Carries(d, i)' = Carries(d, i) /\ ArgsOf(d)' = ArgsOf(d)
                   /\ PartBefore(d)' = PartBefore(d) /\ PartAfter(d)' = PartAfter(d)
                   /\ Elements(d)' = Elements(d)
<1>1. \A d : Part(d)' = Part(d) /\ Begin(d)' = Begin(d) /\ MPlan(d)' = MPlan(d)
  BY SamePlan
<1>2. \A d : ArgsOf(d)' = ArgsOf(d)
  BY <1>1 DEF ArgsOf
<1>3. \A d : PartBefore(d)' = PartBefore(d) /\ PartAfter(d)' = PartAfter(d)
  BY <1>1 DEF PartBefore, PartAfter
<1>4. \A d : Elements(d)' = Elements(d)
  BY <1>1 DEF Elements
<1> QED BY <1>1, <1>2, <1>3, <1>4 DEF Carries

\* A step that changes neither who sends nor who is open.
LEMMA PairFrame ==
  ASSUME NEW d \in Devs, PairInv(d), n' = n, link'[d] = link[d],
         \A e \in {MEnd(d), CEnd(d)} :
           /\ nmoved'[e] = nmoved[e] /\ (Sends(e)' <=> Sends(e))
           /\ st'[e] = "open" <=> st[e] = "open"
  PROVE  PairInv(d)'
<1>1. Apart(d) => Apart(d)'
  BY DEF Apart
<1>2. \A e \in {MEnd(d), CEnd(d)} : Peer(e) \in {MEnd(d), CEnd(d)}
  BY TheEnds
<1>3. ASSUME NEW s \in {MEnd(d), CEnd(d)}, Joined(d, s)
      PROVE  Joined(d, s)'
  BY <1>2, <1>3 DEF Joined
<1>4. ASSUME NEW s \in {MEnd(d), CEnd(d)}, Behind(d, s)
      PROVE  Behind(d, s)'
  BY <1>2, <1>4, SamePlan, SameCarries DEF Behind
<1> QED BY <1>1, <1>3, <1>4 DEF PairInv

\* The other pairs of a step of e.
LEMMA OtherPairs ==
  ASSUME Control, Data, NEW e \in Ends, NEW d \in Devs, d # e[2],
         UNCHANGED <<n, ops, nretired>>, link'[d] = link[d],
         \A x \in Ends : x[2] # e[2] => nmoved'[x] = nmoved[x] /\ st'[x] = st[x]
  PROVE  PairInv(d)'
<1>1. \A x \in {MEnd(d), CEnd(d)} : nmoved'[x] = nmoved[x] /\ st'[x] = st[x]
  BY TheEnds
<1>2. \A x \in {MEnd(d), CEnd(d)} : Sends(x)' <=> Sends(x)
  BY <1>1 DEF Sends, Current
<1> QED BY <1>1, <1>2, PairFrame DEF Data

\* The programs do not interfere: they start nothing but an idle device.
LEMMA ProgramPairs ==
  ASSUME IInv, NEW p \in Progs, ProgStep(p), NEW d \in Devs
  PROVE  PairInv(d)'
<1>0. Control /\ PairInv(d)
  BY DEF IInv, Data
<1>1. n' = n /\ nmoved' = nmoved /\ link' = link
  BY DEF ProgStep, Submit, Refused, Return, Wait, Flush, Compute, runs
<1>2. ASSUME NEW e \in Ends
      PROVE  (Sends(e)' <=> Sends(e)) /\ (st'[e] = "open" <=> st[e] = "open")
  <2>1. CASE Submit(p)
    <3>1. PICK x : x = EndOf(p)
      OBVIOUS
    <3>2. PICK l : l = Len(ops[x])
      OBVIOUS
    <3>3. /\ nretired' = nretired /\ x \in Ends /\ l \in 0 .. 4 /\ Plan(x)[l + 1] \in Ops
          /\ ops' = [ops EXCEPT ![x] = Append(ops[x], Plan(x)[l + 1])]
          /\ \/ nretired[x] = l /\ st' = [st EXCEPT ![x] = "ready"]
             \/ nretired[x] < l /\ st' = st
      BY <2>1, <3>1, <3>2, SubmitEffect
    <3>4. /\ ops[e] \in Seq(Ops) /\ nretired[e] \in Nat /\ ops \in [Ends -> Seq(Ops)]
          /\ st \in [Ends -> {"none", "ready", "ask", "granted", "run", "open"}]
          /\ QueueInv(e)
      BY <1>0 DEF Control, Types
    <3>5. CASE e # x
      <4>1. ops'[e] = ops[e] /\ st'[e] = st[e]
        BY <3>3, <3>4, <3>5
      <4> QED BY <3>3, <4>1 DEF Sends, Current
    <3>6. CASE e = x /\ nretired[x] = l /\ st' = [st EXCEPT ![x] = "ready"]
      <4>1. st'[e] = "ready"
        BY <3>3, <3>4, <3>6
      <4>2. st[e] = "none"
        BY <3>2, <3>3, <3>4, <3>6 DEF QueueInv
      <4> QED BY <4>1, <4>2 DEF Sends
    <3>7. CASE e = x /\ nretired[x] < l /\ st' = st
      <4> DEFINE s == ops[e] o == Plan(x)[l + 1] i == nretired[e] + 1
      <4>1. ops'[e] = Append(s, o) /\ s \in Seq(Ops) /\ o \in Ops /\ i \in 1 .. Len(s)
        BY <3>2, <3>3, <3>4, <3>7
      <4>2. Append(s, o)[i] = s[i]
        <5> HIDE DEF s, o, i
        <5> QED BY <4>1
      <4>3. Current(e)' = Current(e)
        BY <3>3, <4>1, <4>2 DEF Current
      <4> QED BY <3>7, <4>3 DEF Sends
    <3> QED BY <3>3, <3>5, <3>6, <3>7
  <2>2. CASE Flush(p)
    <3>1. nretired' = nretired /\ st' = st /\ ops' = ops
      BY <1>0, <2>2, FlushControl DEF Flush, runs
    <3> QED BY <3>1 DEF Sends, Current
  <2>3. CASE Refused(p) \/ Return(p) \/ Wait(p) \/ Compute(p)
    <3>1. nretired' = nretired /\ st' = st /\ ops' = ops
      BY <2>3 DEF Refused, Return, Wait, Compute, runs, queues
    <3> QED BY <3>1 DEF Sends, Current
  <2> QED BY <2>1, <2>2, <2>3 DEF ProgStep
<1> QED BY <1>0, <1>1, <1>2, TheEnds, PairFrame

\* What asks, rings or handles an interrupt does not change who sends.
LEMMA DevicePairs ==
  ASSUME IInv, NEW e \in Ends, Ask(e) \/ Ring(e) \/ Handle(e), NEW d \in Devs
  PROVE  PairInv(d)'
<1>0. Control /\ PairInv(d)
  BY DEF IInv, Data
<1>1. n' = n /\ nmoved' = nmoved /\ link' = link /\ ops' = ops
  BY DEF Ask, Ring, Handle, queues
<1>2. ASSUME NEW x \in Ends
      PROVE  (Sends(x)' <=> Sends(x)) /\ (st'[x] = "open" <=> st[x] = "open")
  <2>1. /\ st \in [Ends -> {"none", "ready", "ask", "granted", "run", "open"}]
        /\ nretired \in [Ends -> Nat] /\ QueueInv(x) /\ QueueInv(e)
    BY <1>0 DEF Control, Types
  <2>2. CASE x # e
    <3>1. st'[x] = st[x] /\ nretired'[x] = nretired[x]
      BY <2>1, <2>2 DEF Ask, Ring, Handle, queues
    <3> QED BY <1>1, <3>1 DEF Sends, Current
  <2>3. CASE x = e /\ Ask(e)
    <3>1. st[e] = "ready" /\ st'[e] = "ask"
      BY <2>1, <2>3 DEF Ask
    <3> QED BY <2>3, <3>1 DEF Sends
  <2>4. CASE x = e /\ Ring(e)
    <3>1. /\ st'[e] = "run" /\ Current(e)' = Current(e)
          /\ \/ st[e] = "granted" /\ Current(e).do = "SEND"
             \/ st[e] = "ready" /\ Current(e).do = "RECV"
      BY <2>1, <2>4 DEF Ring, queues, Current, QueueInv
    <3> QED BY <2>4, <3>1 DEF Sends
  <2>5. CASE x = e /\ Handle(e)
    <3>1. st[e] = "none" /\ st'[e] \in {"none", "ready"}
      BY <2>1, <2>5 DEF Handle, QueueInv
    <3> QED BY <2>5, <3>1 DEF Sends
  <2> QED BY <2>2, <2>3, <2>4, <2>5
<1> QED BY <1>0, <1>1, <1>2, TheEnds, PairFrame

\* An end and its peer are the ends of one link.
LEMMA PairOf ==
  ASSUME NEW e \in Ends
  PROVE  /\ e[2] \in Devs /\ {MEnd(e[2]), CEnd(e[2])} = {e, Peer(e)}
         /\ Peer(e) \in Ends /\ Peer(Peer(e)) = e /\ Peer(e) # e /\ Peer(e)[2] = e[2]
<1>1. PICK d \in Devs : e = MEnd(d) \/ e = CEnd(d)
  BY TheEnds
<1>2. CASE e = MEnd(d)
  <2>1. e[2] = d /\ Peer(e) = CEnd(d)
    BY <1>2, TheEnds
  <2> QED BY <1>2, <2>1, TheEnds
<1>3. CASE e = CEnd(d)
  <2>1. e[2] = d /\ Peer(e) = MEnd(d)
    BY <1>3, TheEnds
  <2> QED BY <1>3, <2>1, TheEnds
<1> QED BY <1>1, <1>2, <1>3

\* The operation a device is at.
LEMMA CurrentIs ==
  ASSUME Control, NEW e \in Ends, st[e] # "none"
  PROVE  /\ nmoved[e] + 1 \in 1 .. 5 /\ nmoved[e] + 1 <= Len(ops[e])
         /\ nmoved[e] \in Nat /\ nretired[e] = nmoved[e]
         /\ Current(e) = Plan(e)[nmoved[e] + 1]
<1>1. /\ nmoved[e] = nretired[e] /\ nretired[e] < Len(ops[e]) /\ Len(ops[e]) <= 5
      /\ \A i \in 1 .. Len(ops[e]) : ops[e][i] = Plan(e)[i]
  BY DEF Control, QueueInv
<1>2. nmoved[e] \in Nat /\ Len(ops[e]) \in Nat
  BY ProgFacts
<1>3. nmoved[e] + 1 \in 1 .. Len(ops[e]) /\ nmoved[e] + 1 \in 1 .. 5
  BY <1>1, <1>2
<1> QED BY <1>1, <1>2, <1>3 DEF Current

\* The handshake joins two ends that were apart.
LEMMA GrantPairs ==
  ASSUME IInv, NEW e \in Ends, Grant(e), NEW d \in Devs
  PROVE  PairInv(d)'
<1>0. Control /\ Data /\ PairInv(d)
  BY DEF IInv, Data
<1>1. /\ UNCHANGED <<n, ops, nretired, nmoved, link>>
      /\ st[e] = "ask" /\ st[Peer(e)] = "run" /\ Current(Peer(e)).do = "RECV"
      /\ st' = [st EXCEPT ![e] = "granted", ![Peer(e)] = "open"]
  BY DEF Grant, queues
<1>2. Peer(e) \in Ends /\ Peer(e) # e /\ Peer(Peer(e)) = e /\ Peer(e)[2] = e[2]
  BY PairOf
<1>3. st'[e] = "granted" /\ st'[Peer(e)] = "open" /\ \A x \in Ends \ {e, Peer(e)} : st'[x] = st[x]
  BY <1>0, <1>1, <1>2 DEF Control, Types
<1>4. CASE d # e[2]
  <2>1. \A x \in Ends : x[2] # e[2] => nmoved'[x] = nmoved[x] /\ st'[x] = st[x]
    BY <1>1, <1>2, <1>3
  <2> QED BY <1>0, <1>1, <1>4, <2>1, OtherPairs
<1>5. CASE d = e[2]
  <2>1. {MEnd(d), CEnd(d)} = {e, Peer(e)}
    BY <1>5, TheEnds
  <2>2. ~Sends(e) /\ ~Sends(Peer(e)) /\ st[e] # "open" /\ st[Peer(e)] # "open"
    BY <1>1 DEF Sends
  <2>3. \A s \in {MEnd(d), CEnd(d)} : st[Peer(s)] # "open"
    BY <1>2, <2>1, <2>2
  <2>4. Apart(d)
    BY <1>0, <2>3 DEF PairInv, Joined, Behind
  <2>5. Joined(d, e)'
    BY <1>1, <1>3, <2>4 DEF Joined, Apart, Sends
  <2> QED BY <2>1, <2>5 DEF PairInv
<1> QED BY <1>4, <1>5

\* An end that sends is joined to its peer.
LEMMA SenderJoined ==
  ASSUME IInv, NEW e \in Ends, Sends(e)
  PROVE  Joined(e[2], e)
<1>1. e[2] \in Devs /\ {MEnd(e[2]), CEnd(e[2])} = {e, Peer(e)} /\ Peer(Peer(e)) = e /\ Peer(e) # e
  BY PairOf
<1>2. PairInv(e[2])
  BY <1>1 DEF IInv, Data
<1>3. st[e] # "open"
  BY DEF Sends
<1>4. ~Apart(e[2])
  BY <1>1 DEF Apart
<1>5. PICK s \in {e, Peer(e)} : Joined(e[2], s) \/ Behind(e[2], s)
  BY <1>1, <1>2, <1>4 DEF PairInv
<1>6. s = e
  BY <1>1, <1>3, <1>5 DEF Joined, Behind
<1> QED BY <1>5, <1>6 DEF Behind

\* An end that receives is behind its peer.
LEMMA ReceiverBehind ==
  ASSUME IInv, NEW e \in Ends, st[e] = "open", link[e[2]] # <<>>
  PROVE  Behind(e[2], Peer(e))
<1>1. e[2] \in Devs /\ {MEnd(e[2]), CEnd(e[2])} = {e, Peer(e)} /\ Peer(Peer(e)) = e /\ Peer(e) # e
  BY PairOf
<1>2. PairInv(e[2])
  BY <1>1 DEF IInv, Data
<1>3. PICK s \in {e, Peer(e)} : Behind(e[2], s)
  BY <1>1, <1>2 DEF PairInv, Apart, Joined
<1>4. s = Peer(e)
  BY <1>1, <1>3 DEF Behind
<1> QED BY <1>3, <1>4

\* What is sent is what the plan says.
LEMMA MessageIs ==
  ASSUME IInv, NEW e \in Ends, st[e] = "run", Current(e).do = "SEND"
  PROVE  Message(e, Current(e)) = Carries(e[2], nmoved[e] + 1)
<1>0. /\ Control /\ n \in Sizes /\ n \in Nat
  BY SizesAssumption DEF IInv, Control, Types
<1>1. PICK i : i = nmoved[e] + 1
  OBVIOUS
<1>2. /\ i \in 1 .. 5 /\ i <= Len(ops[e]) /\ nmoved[e] \in Nat /\ Current(e) = Plan(e)[i]
  BY <1>0, <1>1, CurrentIs
<1>3. PICK d \in Devs : e = MEnd(d) \/ e = CEnd(d)
  BY TheEnds
<1>4. CASE e = MEnd(d)
  <2>0. e[1] = Master /\ e[2] = d
    BY <1>4, TheEnds
  <2>1. Current(e) = MPlan(d)[i] /\ i # 5 /\ (MPlan(d)[i].buf = "args" <=> i = 1)
    BY <1>0, <1>2, <1>4, PlansMeet
  <2>2. i = 1 => inside[Master] /\ Args(d) = ArgsOf(d)
    <3> SUFFICES ASSUME i = 1
                 PROVE  inside[Master] /\ Args(d) = ArgsOf(d)
      OBVIOUS
    <3>1. nmoved[e] = 0 /\ Len(ops[e]) >= 1
      BY <1>1, <1>2
    <3>2. inside[Master] /\ At(Master, {"SEND", "RECV"}) /\ EndOf(Master) = MEnd(d)
      BY <1>0, <1>4, <2>0, <3>1 DEF Control, FirstInv
    <3>3. PICK x \in Devs, j \in 1 .. 5 : pc[Master] = 5 * x + j /\ EndOf(Master) = MEnd(x)
      BY <1>0, <3>2, ProgFacts, MasterSubmits
    <3>4. x = d
      BY <3>2, <3>3, EndsDiffer
    <3>5. ofs = Begin(d)
      BY <3>3, <3>4 DEF IInv, Data, OfsInv
    <3> QED BY <3>2, <3>5 DEF Args, ArgsOf
  <2>3. CASE i = 4
    <3>1. /\ MPlan(d)[i].buf = "C" /\ MPlan(d)[i].len = Part(d) /\ MPlan(d)[i].ofs = Begin(d)
      BY <2>3 DEF MPlan, Op
    <3>2. Part(d) \in Nat /\ Begin(d) \in Nat /\ Begin(d) + Part(d) <= n
      BY <1>0, PartsFollow, PartsApart
    <3>3. ASSUME NEW k \in 1 .. Part(d)
          PROVE  C[Begin(d) + k - 1] = <<Begin(d) + k - 1>>
      <4> DEFINE g == Begin(d) + k - 1
      <4>1. g \in 0 .. n - 1 /\ g \in Elements(d)
        BY <1>0, <3>2 DEF Elements
      <4>2. ASSUME NEW x \in Devs, nmoved[MEnd(x)] = 5, g \in Elements(x)
            PROVE  FALSE
        <5>1. x # d
          BY <1>1, <1>4, <2>3, <4>2
        <5>2. Part(x) \in Nat /\ Begin(x) \in Nat /\ x \in Nat /\ d \in Nat
          BY <1>0, PartsFollow, TheEnds
        <5>3. Begin(d) + Part(d) <= Begin(x) \/ Begin(x) + Part(x) <= Begin(d)
          BY <1>0, <5>1, <5>2, PartsApart
        <5> HIDE DEF g
        <5> QED BY <3>2, <4>1, <4>2, <5>2, <5>3 DEF Elements
      <4> HIDE DEF g
      <4>3. C[g] = <<g>>
        BY <4>1, <4>2 DEF IInv, Data, CInv
      <4> QED BY <4>3 DEF g
    <3>4. [k \in 1 .. Part(d) |-> C[Begin(d) + k - 1]] = PartBefore(d)
      BY <3>3 DEF PartBefore
    <3> QED BY <1>1, <2>0, <2>1, <2>3, <3>1, <3>4, ZenonT(40) DEF Message, Carries
  <2>4. CASE i \in {1, 2, 3}
    <3>1. MPlan(d)[i].buf # "C"
      BY <2>4 DEF MPlan, Op
    <3> QED BY <1>1, <2>0, <2>1, <2>2, <2>4, <3>1 DEF Message, Carries
  <2> QED BY <1>2, <2>1, <2>3, <2>4
<1>5. CASE e = CEnd(d)
  <2>0. e[1] = d /\ e[2] = d /\ e[1] # Master
    BY <1>5, TheEnds
  <2>1. Current(e) = CPlan(d)[i] /\ i = 5
    BY <1>0, <1>2, <1>5, PlansMeet
  <2>2. CPlan(d)[5].buf = "C" /\ MPlan(d)[5].buf = "C"
    BY DEF CPlan, MPlan, Op
  <2>3. Len(ops[CEnd(d)]) = 5
    <3>1. Len(ops[e]) \in Nat /\ 5 <= Len(ops[e]) /\ Len(ops[e]) <= 5
      BY <1>0, <1>2, <2>1, ProgFacts DEF Control, QueueInv
    <3>2. \A a \in Nat : 5 <= a /\ a <= 5 => a = 5
      OBVIOUS
    <3> QED BY <1>5, <3>1, <3>2, Zenon
  <2>4. chip[d].C = PartAfter(d)
    BY <2>3 DEF IInv, Data, ChipInv
  <2> QED BY <1>1, <2>0, <2>1, <2>2, <2>4 DEF Message, Carries
<1> QED BY <1>3, <1>4, <1>5

\* The run of a sender: what it does to its end and to the link.
LEMMA TxEffect ==
  ASSUME IInv, NEW e \in Ends, Tx(e)
  PROVE  LET i == nmoved[e] + 1 IN
         /\ UNCHANGED <<n, ofs, pc, inside, ops, nretired, self, C, chip>>
         /\ st[e] = "run" /\ Current(e).do = "SEND" /\ EndRun(e) /\ DOMAIN link' = Devs
         /\ i \in 1 .. 5 /\ i <= Len(ops[e])
         /\ link[e[2]] = <<>>
         /\ link'[e[2]] = IF Plan(e)[i].len = 0 THEN <<>> ELSE <<Carries(e[2], i)>>
         /\ \A d \in Devs : d # e[2] => link'[d] = link[d]
<1> DEFINE i == nmoved[e] + 1
<1>1. /\ UNCHANGED <<n, ofs, pc, inside, ops, nretired, self, C, chip>>
      /\ st[e] = "run" /\ Current(e).do = "SEND" /\ EndRun(e)
      /\ link' = IF Current(e).len = 0 THEN link
                 ELSE [link EXCEPT ![e[2]] = Append(@, Message(e, Current(e)))]
  BY DEF Tx, progs, queues, memory
<1>2. i \in 1 .. 5 /\ i <= Len(ops[e]) /\ Current(e) = Plan(e)[i]
  BY <1>1, CurrentIs DEF IInv
<1>3. Joined(e[2], e)
  BY <1>1, SenderJoined DEF Sends
<1>4. link[e[2]] = <<>> /\ DOMAIN link = Devs /\ e[2] \in Devs
  BY <1>3, PairOf DEF Joined, IInv, Data
<1>5. Message(e, Current(e)) = Carries(e[2], i)
  BY <1>1, MessageIs
<1>6. Append(<<>>, Message(e, Current(e))) = <<Carries(e[2], i)>>
  BY <1>5
<1> HIDE DEF i
<1>7. CASE Current(e).len = 0
  BY <1>1, <1>2, <1>4, <1>7 DEF i
<1>8. CASE Current(e).len # 0
  <2>1. link' = [link EXCEPT ![e[2]] = <<Carries(e[2], i)>>]
    BY <1>1, <1>4, <1>6, <1>8
  <2>2. /\ DOMAIN link' = Devs /\ link'[e[2]] = <<Carries(e[2], i)>>
        /\ \A d \in Devs : d # e[2] => link'[d] = link[d]
    BY <1>4, <2>1
  <2> QED BY <1>1, <1>2, <1>4, <1>8, <2>2 DEF i
<1> QED BY <1>7, <1>8

\* The end of a run, of the end that ran and of the others.
LEMMA EndRunEffect ==
  ASSUME Control, NEW e \in Ends, EndRun(e)
  PROVE  /\ st'[e] = "none" /\ nmoved'[e] = nmoved[e] + 1 /\ nmoved[e] \in Nat
         /\ \A x \in Ends : x # e => st'[x] = st[x] /\ nmoved'[x] = nmoved[x]
BY DEF EndRun, Control, Types

\* It leaves the receiver behind.
LEMMA TxPairs ==
  ASSUME IInv, NEW e \in Ends, Tx(e), NEW d \in Devs
  PROVE  PairInv(d)'
<1>0. Control /\ Data
  BY DEF IInv
<1>1. PICK i : i = nmoved[e] + 1
  OBVIOUS
<1>2. /\ UNCHANGED <<n, ops, nretired>> /\ EndRun(e) /\ st[e] = "run" /\ Current(e).do = "SEND"
      /\ link'[e[2]] = IF Plan(e)[i].len = 0 THEN <<>> ELSE <<Carries(e[2], i)>>
      /\ \A x \in Devs : x # e[2] => link'[x] = link[x]
  BY <1>1, TxEffect
<1>3. /\ st'[e] = "none" /\ nmoved'[e] = i /\ nmoved[e] \in Nat
      /\ \A x \in Ends : x # e => st'[x] = st[x] /\ nmoved'[x] = nmoved[x]
  BY <1>0, <1>1, <1>2, EndRunEffect
<1>4. CASE d # e[2]
  BY <1>0, <1>2, <1>3, <1>4, OtherPairs
<1>5. CASE d = e[2]
  <2>1. /\ {MEnd(d), CEnd(d)} = {e, Peer(e)} /\ Peer(e) \in Ends /\ Peer(e) # e
    BY <1>5, PairOf
  <2>2. Joined(d, e)
    BY <1>2, <1>5, SenderJoined DEF Sends
  <2>3. nmoved[e] = nmoved[Peer(e)] /\ st[Peer(e)] = "open"
    BY <2>1, <2>2, TheEnds, ZenonT(40) DEF Joined
  <2>4. nmoved'[e] = nmoved'[Peer(e)] + 1 /\ st'[Peer(e)] = "open"
    BY <1>1, <1>3, <2>1, <2>3
  <2>5. link'[d] = IF Plan(e)[nmoved'[e]].len = 0 THEN <<>> ELSE <<Carries(d, nmoved'[e])>>
    BY <1>2, <1>3, <1>5
  <2>6. Behind(d, e)'
    BY <1>2, <1>3, <2>4, <2>5, SamePlan, SameCarries DEF Behind, Sends
  <2> QED BY <2>1, <2>6 DEF PairInv
<1> QED BY <1>4, <1>5

\* The run of a receiver takes the message of the operation it is at.
LEMMA RxEffect ==
  ASSUME IInv, NEW e \in Ends, Rx(e)
  PROVE  LET i == nmoved[e] + 1 IN
         /\ UNCHANGED <<n, ofs, pc, inside, ops, nretired, self>>
         /\ st[e] = "open" /\ EndRun(e) /\ DOMAIN link' = Devs
         /\ i \in 1 .. 5 /\ i <= Len(ops[e]) /\ Current(e) = Plan(e)[i]
         /\ Behind(e[2], Peer(e)) /\ nmoved[Peer(e)] = i
         /\ Head(link[e[2]]) = Carries(e[2], i) /\ link'[e[2]] = <<>>
         /\ \A d \in Devs : d # e[2] => link'[d] = link[d]
<1> DEFINE i == nmoved[e] + 1
<1>1. /\ UNCHANGED <<n, ofs, pc, inside, ops, nretired, self>>
      /\ st[e] = "open" /\ EndRun(e) /\ link[e[2]] # <<>>
      /\ link' = [link EXCEPT ![e[2]] = Tail(@)]
  BY DEF Rx, progs, queues
<1>2. i \in 1 .. 5 /\ i <= Len(ops[e]) /\ Current(e) = Plan(e)[i]
  BY <1>1, CurrentIs DEF IInv
<1>3. Behind(e[2], Peer(e))
  BY <1>1, ReceiverBehind
<1>4. nmoved[Peer(e)] = i /\ link[e[2]] = <<Carries(e[2], i)>>
  BY <1>1, <1>3, PairOf DEF Behind
<1>5. DOMAIN link = Devs /\ e[2] \in Devs
  BY PairOf DEF IInv, Data
<1> HIDE DEF i
<1>6. Head(<<Carries(e[2], i)>>) = Carries(e[2], i) /\ Tail(<<Carries(e[2], i)>>) = <<>>
  <2> DEFINE m == Carries(e[2], i)
  <2> HIDE DEF m
  <2>1. Head(<<m>>) = m /\ Tail(<<m>>) = <<>>
    OBVIOUS
  <2> QED BY <2>1 DEF m
<1>7. /\ DOMAIN link' = Devs /\ link'[e[2]] = <<>>
      /\ \A d \in Devs : d # e[2] => link'[d] = link[d]
  BY <1>1, <1>4, <1>5, <1>6
<1> QED BY <1>1, <1>2, <1>3, <1>4, <1>6, <1>7 DEF i

\* It brings the pair level again.
LEMMA RxPairs ==
  ASSUME IInv, NEW e \in Ends, Rx(e), NEW d \in Devs
  PROVE  PairInv(d)'
<1>0. Control /\ Data
  BY DEF IInv
<1>1. PICK i : i = nmoved[e] + 1
  OBVIOUS
<1>2. /\ UNCHANGED <<n, ops, nretired>> /\ EndRun(e)
      /\ Behind(e[2], Peer(e)) /\ nmoved[Peer(e)] = i /\ link'[e[2]] = <<>>
      /\ \A x \in Devs : x # e[2] => link'[x] = link[x]
  BY <1>1, RxEffect
<1>3. /\ st'[e] = "none" /\ nmoved'[e] = i /\ nmoved[e] \in Nat
      /\ \A x \in Ends : x # e => st'[x] = st[x] /\ nmoved'[x] = nmoved[x]
  BY <1>0, <1>1, <1>2, EndRunEffect
<1>4. CASE d # e[2]
  BY <1>0, <1>2, <1>3, <1>4, OtherPairs
<1>5. CASE d = e[2]
  <2>1. /\ {MEnd(d), CEnd(d)} = {e, Peer(e)} /\ Peer(e) \in Ends /\ Peer(e) # e
    BY <1>5, PairOf
  <2>2. st'[Peer(e)] = st[Peer(e)] /\ nmoved'[Peer(e)] = i
    BY <1>2, <1>3, <2>1
  <2>3. ~Sends(Peer(e))' /\ st'[Peer(e)] # "open" /\ ~Sends(e)' /\ st'[e] # "open"
    BY <1>2, <1>3, <2>2 DEF Behind, Sends, Current
  <2>4. nmoved'[MEnd(d)] = nmoved'[CEnd(d)]
    BY <1>3, <2>1, <2>2
  <2>5. Apart(d)'
    BY <1>2, <1>5, <2>1, <2>3, <2>4 DEF Apart
  <2> QED BY <2>5 DEF PairInv
<1> QED BY <1>4, <1>5

-----------------------------------------------------------------------------
(* Data: matrix C.                                                          *)

\* Only the RECV of a device of the master changes C.
LEMMA CFrame ==
  ASSUME CInv, n' = n, C' = C,
         \A d \in Devs : nmoved'[MEnd(d)] = 5 <=> nmoved[MEnd(d)] = 5
  PROVE  CInv'
<1>1. \A d : Elements(d)' = Elements(d)
  BY SameCarries
<1>2. \A g : (\E d \in Devs : nmoved[MEnd(d)] = 5 /\ g \in Elements(d)) <=>
             (\E d \in Devs : nmoved'[MEnd(d)] = 5 /\ g \in Elements(d)')
  BY <1>1
<1> QED BY <1>2 DEF CInv

\* A device that sends from the master has not come to its RECV.
LEMMA TxC ==
  ASSUME IInv, NEW e \in Ends, Tx(e)
  PROVE  CInv'
<1>0. Control /\ CInv /\ n \in Sizes
  BY DEF IInv, Data, Control, Types
<1>1. PICK i : i = nmoved[e] + 1
  OBVIOUS
<1>2. /\ n' = n /\ C' = C /\ EndRun(e) /\ Current(e).do = "SEND" /\ st[e] = "run"
  BY TxEffect
<1>3. i \in 1 .. 5 /\ Current(e) = Plan(e)[i]
  BY <1>0, <1>1, <1>2, CurrentIs
<1>4. /\ nmoved'[e] = i /\ nmoved[e] \in Nat /\ \A x \in Ends : x # e => nmoved'[x] = nmoved[x]
  BY <1>0, <1>1, <1>2, EndRunEffect
<1>5. ASSUME NEW d \in Devs
      PROVE  nmoved'[MEnd(d)] = 5 <=> nmoved[MEnd(d)] = 5
  <2>1. CASE e = MEnd(d)
    <3>1. i # 5
      BY <1>0, <1>2, <1>3, <2>1, PlansMeet
    <3> QED BY <1>1, <1>3, <1>4, <2>1, <3>1
  <2>2. CASE e # MEnd(d)
    BY <1>4, <2>2, TheEnds
  <2> QED BY <2>1, <2>2
<1> QED BY <1>0, <1>2, <1>5, CFrame

\* The RECV of a device of the master puts its part there.
LEMMA RxC ==
  ASSUME IInv, NEW e \in Ends, Rx(e)
  PROVE  CInv'
<1>0. Control /\ CInv /\ n \in Sizes /\ n \in Nat
  BY SizesAssumption DEF IInv, Data, Control, Types
<1>1. PICK i : i = nmoved[e] + 1
  OBVIOUS
<1>2. /\ n' = n /\ EndRun(e) /\ st[e] = "open" /\ i \in 1 .. 5 /\ Current(e) = Plan(e)[i]
      /\ Head(link[e[2]]) = Carries(e[2], i)
  BY <1>1, RxEffect
<1>3. /\ nmoved'[e] = i /\ nmoved[e] \in Nat /\ \A x \in Ends : x # e => nmoved'[x] = nmoved[x]
  BY <1>0, <1>1, <1>2, EndRunEffect
<1>4. PICK d \in Devs : e = MEnd(d) \/ e = CEnd(d)
  BY TheEnds
<1>5. CASE e = CEnd(d)
  <2>1. C' = C
    BY <1>5, TheEnds DEF Rx
  <2>2. \A x \in Devs : nmoved'[MEnd(x)] = nmoved[MEnd(x)]
    BY <1>3, <1>5, EndsDiffer, TheEnds
  <2> QED BY <1>0, <1>2, <2>1, <2>2, CFrame
<1>6. CASE e = MEnd(d)
  <2>0. e[1] = Master /\ e[2] = d
    BY <1>6, TheEnds
  <2>1. Current(e) = MPlan(d)[i] /\ i = 5
    <3>1. Current(e).do = "RECV"
      BY <1>0, <1>2 DEF Control, QueueInv
    <3> QED BY <1>0, <1>2, <1>6, <3>1, PlansMeet
  <2>2. Current(e).ofs = Begin(d)
    BY <2>1 DEF MPlan, Op
  <2>3. Head(link[d]).C = PartAfter(d)
    BY <1>2, <2>0, <2>1 DEF Carries
  <2>4. C' = [g \in DOMAIN C |-> IF g - Begin(d) + 1 \in DOMAIN PartAfter(d)
                                   THEN PartAfter(d)[g - Begin(d) + 1] ELSE C[g]]
    BY <2>0, <2>2, <2>3 DEF Rx
  <2>5. DOMAIN C = 0 .. n - 1
    BY <1>0 DEF CInv
  <2>6. Part(d) \in Nat /\ Begin(d) \in Nat
    BY <1>0, PartsFollow
  <2>7. ASSUME NEW g \in 0 .. n - 1
        PROVE  C'[g] = IF g \in Elements(d) THEN <<g, g>> ELSE C[g]
    <3>1. g - Begin(d) + 1 \in DOMAIN PartAfter(d) <=> g \in Elements(d)
      BY <1>0, <2>6 DEF PartAfter, Elements
    <3>2. CASE g \in Elements(d)
      <4>1. g - Begin(d) + 1 \in 1 .. Part(d) /\ Begin(d) + (g - Begin(d) + 1) - 1 = g
        BY <1>0, <2>6, <3>2 DEF Elements
      <4>2. PartAfter(d)[g - Begin(d) + 1] = <<g, g>>
        BY <4>1 DEF PartAfter
      <4> QED BY <2>4, <2>5, <3>1, <3>2, <4>2
    <3>3. CASE g \notin Elements(d)
      BY <2>4, <2>5, <3>1, <3>3
    <3> QED BY <3>2, <3>3
  <2>8. nmoved'[MEnd(d)] = 5 /\ \A x \in Devs : x # d => nmoved'[MEnd(x)] = nmoved[MEnd(x)]
    BY <1>3, <1>6, <2>1, EndsDiffer, TheEnds
  <2>9. nmoved[MEnd(d)] # 5
    BY <1>1, <1>3, <1>6, <2>1
  <2>10. \A x : Elements(x)' = Elements(x)
    BY <1>2, SameCarries
  <2>11. ASSUME NEW g \in 0 .. n - 1
         PROVE  C'[g] = IF \E x \in Devs : nmoved'[MEnd(x)] = 5 /\ g \in Elements(x)'
                          THEN <<g, g>> ELSE <<g>>
    <3>1. C[g] = IF \E x \in Devs : nmoved[MEnd(x)] = 5 /\ g \in Elements(x)
                   THEN <<g, g>> ELSE <<g>>
      BY <1>0 DEF CInv
    <3>2. (\E x \in Devs : nmoved'[MEnd(x)] = 5 /\ g \in Elements(x)') <=>
          (g \in Elements(d) \/ \E x \in Devs : nmoved[MEnd(x)] = 5 /\ g \in Elements(x))
      BY <2>8, <2>9, <2>10
    <3> QED BY <2>7, <3>1, <3>2
  <2>12. C' = [g \in 0 .. n - 1 |-> C'[g]]
    BY <2>4, <2>5
  <2> QED BY <1>2, <2>11, <2>12 DEF CInv
<1> QED BY <1>4, <1>5, <1>6

-----------------------------------------------------------------------------
(* Data: memories of the chiplets.                                          *)

\* Anything that touches neither the memory of d nor what it is told by.
LEMMA ChipFrame ==
  ASSUME NEW d \in Devs, ChipInv(d), n' = n, chip'[d] = chip[d],
         nmoved'[CEnd(d)] = nmoved[CEnd(d)],
         pc'[d] = pc[d] \/ pc'[d] = 0,
         Len(ops'[CEnd(d)]) = 5 => Len(ops[CEnd(d)]) = 5
  PROVE  ChipInv(d)'
<1>1. /\ ArgsOf(d)' = ArgsOf(d) /\ PartBefore(d)' = PartBefore(d)
      /\ PartAfter(d)' = PartAfter(d)
  BY SameCarries
<1> QED BY <1>1 DEF ChipInv

\* The memory of d becomes that, and no other changes.
Put(d, frame, args, a, b, c) ==
  /\ chip' \in [Devs -> Chips]
  /\ chip'[d].frame = frame /\ chip'[d].args = args
  /\ chip'[d].A = a /\ chip'[d].B = b /\ chip'[d].C = c
  /\ \A x \in Devs : x # d => chip'[x] = chip[x]

\* Each way a step changes the memory of a chiplet.
LEMMA Puts ==
  ASSUME chip \in [Devs -> Chips], NEW d \in Devs
  PROVE  LET m == chip[d] IN
         /\ chip' = chip => Put(d, m.frame, m.args, m.A, m.B, m.C)
         /\ \A v \in ArgRec : chip' = [chip EXCEPT ![d].frame = v] => Put(d, v, m.args, m.A, m.B, m.C)
         /\ \A v \in ArgRec : chip' = [chip EXCEPT ![d].args = v] => Put(d, m.frame, v, m.A, m.B, m.C)
         /\ \A v \in {"args", "A", "B", "C"} :
              chip' = [chip EXCEPT ![d].A = v] => Put(d, m.frame, m.args, v, m.B, m.C)
         /\ \A v \in {"args", "A", "B", "C"} :
              chip' = [chip EXCEPT ![d].B = v] => Put(d, m.frame, m.args, m.A, v, m.C)
         /\ \A v \in Seq(Seq(Int)) :
              chip' = [chip EXCEPT ![d].C = v] => Put(d, m.frame, m.args, m.A, m.B, v)
<1>1. chip[d] \in Chips
  OBVIOUS
<1>2. chip' = chip => Put(d, chip[d].frame, chip[d].args, chip[d].A, chip[d].B, chip[d].C)
  BY DEF Put
<1>3. ASSUME NEW v \in ArgRec, chip' = [chip EXCEPT ![d].frame = v]
      PROVE  Put(d, v, chip[d].args, chip[d].A, chip[d].B, chip[d].C)
  <2>1. [chip[d] EXCEPT !.frame = v] \in Chips
    BY <1>1 DEF Chips
  <2> QED BY <1>1, <1>3, <2>1 DEF Put, Chips
<1>4. ASSUME NEW v \in ArgRec, chip' = [chip EXCEPT ![d].args = v]
      PROVE  Put(d, chip[d].frame, v, chip[d].A, chip[d].B, chip[d].C)
  <2>1. [chip[d] EXCEPT !.args = v] \in Chips
    BY <1>1 DEF Chips
  <2> QED BY <1>1, <1>4, <2>1 DEF Put, Chips
<1>5. ASSUME NEW v \in {"args", "A", "B", "C"}, chip' = [chip EXCEPT ![d].A = v]
      PROVE  Put(d, chip[d].frame, chip[d].args, v, chip[d].B, chip[d].C)
  <2>1. [chip[d] EXCEPT !.A = v] \in Chips
    BY <1>1 DEF Chips
  <2> QED BY <1>1, <1>5, <2>1 DEF Put, Chips
<1>6. ASSUME NEW v \in {"args", "A", "B", "C"}, chip' = [chip EXCEPT ![d].B = v]
      PROVE  Put(d, chip[d].frame, chip[d].args, chip[d].A, v, chip[d].C)
  <2>1. [chip[d] EXCEPT !.B = v] \in Chips
    BY <1>1 DEF Chips
  <2> QED BY <1>1, <1>6, <2>1 DEF Put, Chips
<1>7. ASSUME NEW v \in Seq(Seq(Int)), chip' = [chip EXCEPT ![d].C = v]
      PROVE  Put(d, chip[d].frame, chip[d].args, chip[d].A, chip[d].B, v)
  <2>1. [chip[d] EXCEPT !.C = v] \in Chips
    BY <1>1 DEF Chips
  <2> QED BY <1>1, <1>7, <2>1 DEF Put, Chips
<1> QED BY <1>2, <1>3, <1>4, <1>5, <1>6, <1>7

\* What is put there is of its kind.
LEMMA PartTypes ==
  ASSUME n \in Nat, NEW d \in Devs
  PROVE  /\ ArgsOf(d) \in ArgRec
         /\ PartBefore(d) \in Seq(Seq(Int)) /\ PartAfter(d) \in Seq(Seq(Int))
<1>1. Part(d) \in Nat /\ Begin(d) \in Nat
  BY PartsFollow
<1>2. ASSUME NEW k \in 1 .. Part(d)
      PROVE  <<Begin(d) + k - 1>> \in Seq(Int) /\ <<Begin(d) + k - 1, Begin(d) + k - 1>> \in Seq(Int)
  <2>1. Begin(d) + k - 1 \in Int
    BY <1>1
  <2> QED BY <2>1
<1>3. PartBefore(d) \in [1 .. Part(d) -> Seq(Int)] /\ PartAfter(d) \in [1 .. Part(d) -> Seq(Int)]
  BY <1>2 DEF PartBefore, PartAfter
<1>4. \A S : [1 .. Part(d) -> S] \subseteq Seq(S)
  BY <1>1
<1> QED BY <1>1, <1>3, <1>4 DEF ArgsOf, ArgRec

\* An element and the product added to it.
LEMMA AppendTwo ==
  ASSUME NEW g \in Int
  PROVE  Append(<<g>>, g) = <<g, g>>
<1> DEFINE s == Append(<<g>>, g) t == <<g, g>>
<1>1. <<g>> \in Seq(Int) /\ Len(<<g>>) = 1 /\ <<g>>[1] = g
  OBVIOUS
<1>2. s \in Seq(Int) /\ Len(s) = 2 /\ s[1] = g /\ s[2] = g
  BY <1>1
<1>3. t \in Seq(Int) /\ Len(t) = 2 /\ t[1] = g /\ t[2] = g
  OBVIOUS
<1> HIDE DEF s, t
<1>4. Len(s) = Len(t) /\ \A i \in 1 .. Len(s) : s[i] = t[i]
  BY <1>2, <1>3
<1>5. s = t
  BY <1>2, <1>3, <1>4, SeqEqual, Zenon
<1> QED BY <1>5 DEF s, t

\* What a chiplet computes from its parameters, A, B and its part of C.
LEMMA ComputePut ==
  ASSUME IInv, NEW d \in Devs, Compute(d)
  PROVE  Put(d, chip[d].frame, chip[d].args, chip[d].A, chip[d].B, PartAfter(d))
<1>0. Control /\ Data /\ n \in Nat /\ chip \in [Devs -> Chips]
  BY SizesAssumption DEF IInv, Data, Control, Types
<1>1. pc[d] = 7
  BY <1>0, ProgFacts, ChipletAt DEF Compute
<1>2. nmoved[CEnd(d)] >= 4
  <2>1. nretired[CEnd(d)] >= 4 /\ nretired[CEnd(d)] <= nmoved[CEnd(d)]
    BY <1>0, <1>1, TheEnds, SMTT(30) DEF Control, ChipletInv, QueueInv
  <2>2. nretired[CEnd(d)] \in Nat /\ nmoved[CEnd(d)] \in Nat
    BY <1>0, ProgFacts, TheEnds
  <2> QED BY <2>1, <2>2
<1>3. /\ chip[d].args = ArgsOf(d) /\ chip[d].A = "A" /\ chip[d].B = "B"
      /\ chip[d].C = PartBefore(d)
  <2>1. nmoved[CEnd(d)] \in Nat
    BY <1>0, ProgFacts, TheEnds
  <2> QED BY <1>0, <1>1, <1>2, <2>1 DEF Data, ChipInv
<1>4. ArgsOf(d).len = Part(d) /\ ArgsOf(d).ofs = Begin(d)
  BY DEF ArgsOf
<1>5. Part(d) \in Nat /\ Begin(d) \in Nat
  BY <1>0, PartsFollow
<1>6. DOMAIN PartBefore(d) = 1 .. Part(d)
      /\ \A k \in 1 .. Part(d) : PartBefore(d)[k] = <<Begin(d) + k - 1>>
  BY DEF PartBefore
<1>7. chip' = [chip EXCEPT ![d].C =
          [k \in 1 .. Part(d) |->
             Append(<<Begin(d) + k - 1>>, Begin(d) + k - 1)]]
  <2>1. chip' = [chip EXCEPT ![d].C =
          [k \in 1 .. Part(d) |->
             Append([j \in 1 .. Part(d) |->
                       IF j \in DOMAIN PartBefore(d) THEN PartBefore(d)[j] ELSE <<>>][k],
                    Begin(d) + k - 1)]]
    BY <1>3, <1>4 DEF Compute
  <2> QED BY <1>6, <2>1
<1>8. [k \in 1 .. Part(d) |-> Append(<<Begin(d) + k - 1>>, Begin(d) + k - 1)] = PartAfter(d)
  <2>1. \A g \in Int : Append(<<g>>, g) = <<g, g>>
    BY AppendTwo
  <2>2. \A k \in 1 .. Part(d) : Begin(d) + k - 1 \in Int
    BY <1>5
  <2> QED BY <2>1, <2>2 DEF PartAfter
<1>9. chip' = [chip EXCEPT ![d].C = PartAfter(d)]
  BY <1>7, <1>8
<1> QED BY <1>0, <1>9, Puts, PartTypes

\* A program changes no memory but that of its own machine.
LEMMA OtherChips ==
  ASSUME IInv, NEW p \in Progs, ProgStep(p), NEW d \in Devs, d # p, chip'[d] = chip[d]
  PROVE  ChipInv(d)'
<1>0. Control /\ Data /\ ChipInv(d)
  BY DEF IInv, Data
<1>1. n' = n /\ nmoved' = nmoved
  BY DEF ProgStep, Submit, Refused, Return, Wait, Flush, Compute, runs
<1>2. pc'[d] = pc[d]
  BY <1>0, ProgFacts, TheEnds DEF ProgStep, Submit, Refused, Return, Wait, Flush, Compute, CallDone
<1>3. ops'[CEnd(d)] = ops[CEnd(d)]
  <2>1. CASE Submit(p)
    <3>1. PICK e : e = EndOf(p)
      OBVIOUS
    <3>2. e \in Ends /\ e[1] = p
      BY <2>1, <3>1, SubmitEffect
    <3>3. e # CEnd(d) /\ CEnd(d) \in Ends
      BY <3>2, TheEnds
    <3> QED BY <1>0, <2>1, <3>1, <3>3 DEF Submit, Control, Types
  <2>2. CASE ~Submit(p)
    BY <2>2 DEF ProgStep, Refused, Return, Wait, Flush, Compute, queues
  <2> QED BY <2>1, <2>2
<1> QED BY <1>0, <1>1, <1>2, <1>3, ChipFrame

\* A program that gives up, or submits an operation.
LEMMA SubmitChip ==
  ASSUME IInv, NEW d \in Devs, Submit(d) \/ Refused(d)
  PROVE  ChipInv(d)'
<1>0. Control /\ ChipInv(d) /\ d \in Progs
  BY TheEnds DEF IInv, Data
<1>1. n' = n /\ nmoved' = nmoved /\ chip' = chip
  BY DEF Submit, Refused, runs, memory
<1>2. CASE Refused(d)
  <2>1. pc'[d] = 0 /\ ops' = ops
    BY <1>0, <1>2, ProgFacts DEF Refused, queues, Dead
  <2> QED BY <1>0, <1>1, <2>1, ChipFrame
<1>3. CASE Submit(d)
  <2>1. PICK e : e = EndOf(d)
    OBVIOUS
  <2>2. PICK l : l = Len(ops[e])
    OBVIOUS
  <2>3. /\ At(d, {"SEND", "RECV"}) /\ ~inside[d] /\ e \in Ends
        /\ l \in 0 .. 4 /\ Plan(e)[l + 1] \in Ops
        /\ ops' = [ops EXCEPT ![e] = Append(ops[e], Plan(e)[l + 1])]
        /\ \/ nretired[e] = l /\ pc' = pc
           \/ nretired[e] < l /\ pc' = [pc EXCEPT ![d] = pc[d] + 1]
    BY <1>0, <1>3, <2>1, <2>2, SubmitEffect
  <2>4. pc[d] \in {1, 3, 4, 5, 8} /\ e = CEnd(d)
    BY <1>0, <2>1, <2>3, ProgFacts, ChipletAt
  <2>5. l = CCount(d)
    BY <1>0, <2>2, <2>4 DEF Control, ChipletInv, Dead
  <2>6. /\ pc[d] = 1 => l = 0
        /\ l = 4 => pc[d] = 8
    BY <2>3, <2>4, <2>5 DEF CCount
  <2>7. pc'[d] = pc[d] \/ (pc'[d] = pc[d] + 1 /\ pc[d] # 1)
    <3>1. nretired[e] \in Nat
      BY <1>0, <2>3, ProgFacts
    <3>2. nretired[e] < l => pc[d] # 1
      BY <2>3, <2>6, <3>1
    <3> QED BY <1>0, <2>3, <3>2, ProgFacts
  <2>8. Len(ops'[CEnd(d)]) = l + 1
    <3>1. ops[e] \in Seq(Ops) /\ ops \in [Ends -> Seq(Ops)]
      BY <1>0, <2>3 DEF Control, Types
    <3>2. ops'[e] = Append(ops[e], Plan(e)[l + 1])
      BY <2>3, <3>1
    <3>3. Len(ops'[e]) = Len(ops[e]) + 1
      BY <2>3, <3>1, <3>2
    <3> QED BY <2>2, <2>4, <3>3
  <2>9. Len(ops'[CEnd(d)]) = 5 => pc[d] = 8
    BY <2>3, <2>6, <2>8
  <2>10. /\ ArgsOf(d)' = ArgsOf(d) /\ PartBefore(d)' = PartBefore(d)
         /\ PartAfter(d)' = PartAfter(d)
    BY <1>1, SameCarries
  <2> QED BY <1>0, <1>1, <2>4, <2>7, <2>9, <2>10 DEF ChipInv
<1> QED BY <1>2, <1>3

\* A program that waits or flushes has its parameters.
LEMMA WaitChip ==
  ASSUME IInv, NEW d \in Devs, Wait(d) \/ Flush(d)
  PROVE  ChipInv(d)'
<1>0. Control /\ ChipInv(d) /\ d \in Progs
  BY TheEnds DEF IInv, Data
<1>1. n' = n /\ nmoved' = nmoved /\ chip' = chip /\ ops' = ops
  BY DEF Wait, Flush, runs, memory, queues
<1>2. pc[d] \in {2, 6, 9, 10}
  BY <1>0, ProgFacts, ChipletAt DEF Wait, Flush
<1>3. pc'[d] = pc[d] + 1 \/ pc'[d] = 0
  BY <1>0, ProgFacts DEF Wait, Flush, Dead
<1>4. /\ ArgsOf(d)' = ArgsOf(d) /\ PartBefore(d)' = PartBefore(d)
      /\ PartAfter(d)' = PartAfter(d)
  BY <1>1, SameCarries
<1> QED BY <1>0, <1>1, <1>2, <1>3, <1>4 DEF ChipInv

\* The parameters are copied when the frame has been received.
LEMMA ReturnChip ==
  ASSUME IInv, NEW d \in Devs, Return(d)
  PROVE  /\ ChipInv(d)' /\ chip' \in [Devs -> Chips]
         /\ \A x \in Devs : x # d => chip'[x] = chip[x]
<1>0. /\ Control /\ ChipInv(d) /\ d \in Progs /\ d # Master /\ n \in Nat
      /\ chip \in [Devs -> Chips]
  BY TheEnds, SizesAssumption DEF IInv, Data, Control, Types
<1>1. /\ n' = n /\ nmoved' = nmoved /\ ops' = ops /\ inside[d]
      /\ At(d, {"SEND", "RECV"}) /\ nmoved[EndOf(d)] = Len(ops[EndOf(d)])
      /\ chip' = IF CallOf(d).buf = "args" THEN [chip EXCEPT ![d].args = chip[d].frame] ELSE chip
  BY <1>0 DEF Return, runs, queues, CallerReturns
<1>2. /\ pc[d] \in {1, 3, 4, 5, 8} /\ EndOf(d) = CEnd(d) /\ CallOf(d) = Text[d][pc[d]]
  BY <1>0, <1>1, ProgFacts, ChipletAt
<1>3. pc'[d] = pc[d] + 1
  BY <1>0, ProgFacts DEF Return, CallDone
<1>4. /\ ArgsOf(d)' = ArgsOf(d) /\ PartBefore(d)' = PartBefore(d)
      /\ PartAfter(d)' = PartAfter(d)
  BY <1>1, SameCarries
<1>5. CASE pc[d] = 1
  <2>1. CallOf(d).buf = "args"
    <3>1. CallOf(d) = Call("RECV", d, "args")
      BY <1>2, <1>5, ChipletCalls, Zenon
    <3> QED BY <3>1 DEF Call
  <2>2. Len(ops[CEnd(d)]) = 1
    <3>1. ChipletInv(d)
      BY <1>0 DEF Control
    <3>2. CCount(d) = 1
      BY <1>1, <1>5 DEF CCount
    <3> QED BY <1>5, <3>1, <3>2 DEF ChipletInv, Dead
  <2>3. nmoved[CEnd(d)] = 1
    BY <1>1, <1>2, <2>2
  <2>4. chip[d].frame = ArgsOf(d)
    BY <1>0, <2>3 DEF ChipInv
  <2>5. chip' = [chip EXCEPT ![d].args = ArgsOf(d)]
    BY <1>1, <2>1, <2>4
  <2>6. Put(d, chip[d].frame, ArgsOf(d), chip[d].A, chip[d].B, chip[d].C)
    BY <1>0, <2>5, Puts, PartTypes
  <2>7. ChipInv(d)'
    BY <1>0, <1>1, <1>3, <1>4, <1>5, <2>2, <2>3, <2>6 DEF ChipInv, Put
  <2> QED BY <2>6, <2>7 DEF Put
<1>6. CASE pc[d] # 1
  <2>1. CallOf(d).buf # "args"
    <3>1. \/ CallOf(d) = Call("RECV", d, "A") \/ CallOf(d) = Call("RECV", d, "B")
          \/ CallOf(d) = Call("RECV", d, "C") \/ CallOf(d) = Call("SEND", d, "C")
      BY <1>2, <1>6, ChipletCalls, Zenon
    <3> QED BY <3>1 DEF Call
  <2>2. chip' = chip
    BY <1>1, <2>1
  <2>3. ChipInv(d)'
    <3>1. pc[d] \in {3, 4, 5, 8} /\ pc'[d] = pc[d] + 1
      BY <1>2, <1>3, <1>6
    <3>2. nmoved' = nmoved /\ ops' = ops
      BY <1>1
    <3> QED BY <1>0, <1>4, <2>2, <3>1, <3>2 DEF ChipInv
  <2> QED BY <1>0, <2>2, <2>3
<1> QED BY <1>5, <1>6

\* After the computation the part is the one to send back.
LEMMA ComputeChip ==
  ASSUME IInv, NEW d \in Devs, Compute(d)
  PROVE  /\ ChipInv(d)' /\ chip' \in [Devs -> Chips]
         /\ \A x \in Devs : x # d => chip'[x] = chip[x]
<1>0. Control /\ ChipInv(d) /\ d \in Progs
  BY TheEnds DEF IInv, Data
<1>1. n' = n /\ nmoved' = nmoved /\ ops' = ops
  BY DEF Compute, runs, queues
<1>2. pc[d] = 7 /\ pc'[d] = 8
  BY <1>0, ProgFacts, ChipletAt DEF Compute
<1>3. /\ ArgsOf(d)' = ArgsOf(d) /\ PartBefore(d)' = PartBefore(d)
      /\ PartAfter(d)' = PartAfter(d)
  BY <1>1, SameCarries
<1>4. Put(d, chip[d].frame, chip[d].args, chip[d].A, chip[d].B, PartAfter(d))
  BY ComputePut
<1>5. ChipInv(d)'
  BY <1>0, <1>1, <1>2, <1>3, <1>4 DEF ChipInv, Put
<1> QED BY <1>4, <1>5 DEF Put

\* Every step of a program.
LEMMA ProgramChips ==
  ASSUME IInv, NEW p \in Progs, ProgStep(p)
  PROVE  chip' \in [Devs -> Chips] /\ \A d \in Devs : ChipInv(d)'
<1>0. chip \in [Devs -> Chips]
  BY DEF IInv, Data
<1>1. CASE p = Master
  <2>1. chip' = chip
    BY <1>1 DEF ProgStep, Submit, Refused, Return, Wait, Flush, memory
  <2> QED BY <1>0, <1>1, <2>1, TheEnds, OtherChips
<1>2. CASE p # Master
  <2>1. p \in Devs
    BY <1>2 DEF Progs
  <2>2. ChipInv(p)' /\ chip' \in [Devs -> Chips] /\ \A x \in Devs : x # p => chip'[x] = chip[x]
    <3>1. CASE Submit(p) \/ Refused(p) \/ Wait(p) \/ Flush(p)
      <4>1. chip' = chip
        BY <3>1 DEF Submit, Refused, Wait, Flush, memory
      <4> QED BY <1>0, <2>1, <3>1, <4>1, SubmitChip, WaitChip
    <3>2. CASE Return(p)
      BY <2>1, <3>2, ReturnChip
    <3>3. CASE Compute(p)
      BY <2>1, <3>3, ComputeChip
    <3> QED BY <3>1, <3>2, <3>3 DEF ProgStep
  <2>3. \A d \in Devs : d # p => ChipInv(d)'
    BY <2>2, OtherChips
  <2> QED BY <2>2, <2>3
<1> QED BY <1>1, <1>2

\* A run of a sender changes no memory; a chiplet that sends has received all.
LEMMA TxChips ==
  ASSUME IInv, NEW e \in Ends, Tx(e), NEW d \in Devs
  PROVE  ChipInv(d)'
<1>0. Control /\ ChipInv(d) /\ n \in Sizes
  BY DEF IInv, Data, Control, Types
<1>1. PICK i : i = nmoved[e] + 1
  OBVIOUS
<1>2. /\ n' = n /\ pc' = pc /\ ops' = ops /\ chip' = chip /\ EndRun(e)
      /\ Current(e).do = "SEND" /\ st[e] = "run"
  BY TxEffect
<1>3. i \in 1 .. 5 /\ Current(e) = Plan(e)[i]
  BY <1>0, <1>1, <1>2, CurrentIs
<1>4. nmoved'[e] = i /\ nmoved[e] \in Nat /\ \A x \in Ends : x # e => nmoved'[x] = nmoved[x]
  BY <1>0, <1>1, <1>2, EndRunEffect
<1>5. CASE e # CEnd(d)
  BY <1>0, <1>2, <1>4, <1>5, TheEnds, ChipFrame
<1>6. CASE e = CEnd(d)
  <2>1. i = 5
    BY <1>0, <1>2, <1>3, <1>6, PlansMeet
  <2>2. nmoved[CEnd(d)] = 4 /\ nmoved'[CEnd(d)] = 5
    BY <1>1, <1>4, <1>6, <2>1
  <2>3. /\ ArgsOf(d)' = ArgsOf(d) /\ PartBefore(d)' = PartBefore(d)
        /\ PartAfter(d)' = PartAfter(d)
    BY <1>2, SameCarries
  <2> QED BY <1>0, <1>2, <2>2, <2>3 DEF ChipInv
<1> QED BY <1>5, <1>6

\* What the run of a receiver puts into the memory of a chiplet.
LEMMA RxPut ==
  ASSUME IInv, NEW d \in Devs, Rx(CEnd(d))
  PROVE  LET i == nmoved[CEnd(d)] + 1 m == chip[d] IN
         \/ i = 1 /\ Put(d, ArgsOf(d), m.args, m.A, m.B, m.C)
         \/ i = 2 /\ Put(d, m.frame, m.args, "A", m.B, m.C)
         \/ i = 3 /\ Put(d, m.frame, m.args, m.A, "B", m.C)
         \/ i = 4 /\ Put(d, m.frame, m.args, m.A, m.B, PartBefore(d))
<1>0. /\ Control /\ n \in Sizes /\ n \in Nat /\ chip \in [Devs -> Chips]
  BY SizesAssumption DEF IInv, Data, Control, Types
<1>a. PICK e : e = CEnd(d)
  OBVIOUS
<1>b. e \in Ends /\ e[1] = d /\ e[2] = d /\ d # Master
  BY <1>a, TheEnds
<1>1. PICK i : i = nmoved[e] + 1
  OBVIOUS
<1>2. /\ st[e] = "open" /\ i \in 1 .. 5 /\ i <= Len(ops[e]) /\ Current(e) = Plan(e)[i]
      /\ Head(link[d]) = Carries(d, i)
  BY <1>a, <1>b, <1>1, RxEffect
<1>3. Current(e) = CPlan(d)[i] /\ i # 5
  <2>1. Current(e).do = "RECV"
    BY <1>0, <1>b, <1>2 DEF Control, QueueInv
  <2> QED BY <1>0, <1>a, <1>2, <2>1, PlansMeet
<1>4. PICK m : m = Carries(d, i)
  OBVIOUS
<1>5. PICK b : b = CPlan(d)[i].buf
  OBVIOUS
<1>6. chip' = CASE b = "args" -> [chip EXCEPT ![d].frame = IF inside[d] THEN m.args ELSE @]
                [] b = "A" -> [chip EXCEPT ![d].A = m.buf]
                [] b = "B" -> [chip EXCEPT ![d].B = m.buf]
                [] b = "C" -> [chip EXCEPT ![d].C = m.C]
  BY <1>a, <1>b, <1>2, <1>3, <1>4, <1>5 DEF Rx
<1>7. ArgsOf(d) \in ArgRec /\ PartBefore(d) \in Seq(Seq(Int))
  BY <1>0, PartTypes
<1>8. CASE i = 1
  <2>1. b = "args"
    BY <1>5, <1>8 DEF CPlan, Op
  <2>2. m.args = ArgsOf(d)
    BY <1>4, <1>8 DEF Carries
  <2>3. inside[d]
    <3>1. FirstInv(e) /\ nmoved[e] = 0 /\ Len(ops[e]) >= 1
      BY <1>0, <1>b, <1>1, <1>2, <1>8, ProgFacts DEF Control
    <3> QED BY <1>b, <3>1 DEF FirstInv
  <2>4. chip' = [chip EXCEPT ![d].frame = ArgsOf(d)]
    BY <1>6, <2>1, <2>2, <2>3
  <2>5. Put(d, ArgsOf(d), chip[d].args, chip[d].A, chip[d].B, chip[d].C)
    BY <1>0, <1>7, <2>4, Puts
  <2> QED BY <1>a, <1>1, <1>8, <2>5
<1>9. CASE i = 2
  <2>1. b = "A"
    BY <1>5, <1>9 DEF CPlan, Op
  <2>2. m.buf = "A"
    BY <1>4, <1>9 DEF Carries, MPlan, Op
  <2>3. chip' = [chip EXCEPT ![d].A = "A"]
    BY <1>6, <2>1, <2>2
  <2>4. Put(d, chip[d].frame, chip[d].args, "A", chip[d].B, chip[d].C)
    BY <1>0, <2>3, Puts
  <2> QED BY <1>a, <1>1, <1>9, <2>4
<1>10. CASE i = 3
  <2>1. b = "B"
    BY <1>5, <1>10 DEF CPlan, Op
  <2>2. m.buf = "B"
    BY <1>4, <1>10 DEF Carries, MPlan, Op
  <2>3. chip' = [chip EXCEPT ![d].B = "B"]
    BY <1>6, <2>1, <2>2
  <2>4. Put(d, chip[d].frame, chip[d].args, chip[d].A, "B", chip[d].C)
    BY <1>0, <2>3, Puts
  <2> QED BY <1>a, <1>1, <1>10, <2>4
<1>11. CASE i = 4
  <2>1. b = "C"
    BY <1>5, <1>11 DEF CPlan, Op
  <2>2. m.C = PartBefore(d)
    BY <1>4, <1>11 DEF Carries
  <2>3. chip' = [chip EXCEPT ![d].C = PartBefore(d)]
    BY <1>6, <2>1, <2>2
  <2>4. Put(d, chip[d].frame, chip[d].args, chip[d].A, chip[d].B, PartBefore(d))
    BY <1>0, <1>7, <2>3, Puts
  <2> QED BY <1>a, <1>1, <1>11, <2>4
<1> QED BY <1>2, <1>3, <1>8, <1>9, <1>10, <1>11

\* It is what ChipInv says of the operation received.
LEMMA RxChips ==
  ASSUME IInv, NEW e \in Ends, Rx(e)
  PROVE  chip' \in [Devs -> Chips] /\ \A d \in Devs : ChipInv(d)'
<1>0. Control /\ chip \in [Devs -> Chips] /\ \A d \in Devs : ChipInv(d)
  BY DEF IInv, Data
<1>1. n' = n /\ pc' = pc /\ ops' = ops /\ EndRun(e)
  BY RxEffect
<1>2. /\ nmoved'[e] = nmoved[e] + 1 /\ nmoved[e] \in Nat
      /\ \A x \in Ends : x # e => nmoved'[x] = nmoved[x]
  BY <1>0, <1>1, EndRunEffect
<1>3. ASSUME NEW d \in Devs, e # CEnd(d), chip'[d] = chip[d]
      PROVE  ChipInv(d)'
  BY <1>0, <1>1, <1>2, <1>3, TheEnds, ChipFrame
<1>4. PICK d \in Devs : e = MEnd(d) \/ e = CEnd(d)
  BY TheEnds
<1>5. CASE e = MEnd(d)
  <2>1. chip' = chip
    BY <1>5, TheEnds DEF Rx
  <2> QED BY <1>0, <1>3, <1>5, <2>1, EndsDiffer
<1>6. CASE e = CEnd(d)
  <2>1. PICK c : c = nmoved[CEnd(d)]
    OBVIOUS
  <2>2. LET m == chip[d] IN
        \/ c = 0 /\ Put(d, ArgsOf(d), m.args, m.A, m.B, m.C)
        \/ c = 1 /\ Put(d, m.frame, m.args, "A", m.B, m.C)
        \/ c = 2 /\ Put(d, m.frame, m.args, m.A, "B", m.C)
        \/ c = 3 /\ Put(d, m.frame, m.args, m.A, m.B, PartBefore(d))
    <3>1. c \in Nat
      BY <1>2, <1>6, <2>1
    <3> QED BY <1>6, <2>1, <3>1, RxPut
  <2>3. chip' \in [Devs -> Chips] /\ \A x \in Devs : x # d => chip'[x] = chip[x]
    BY <2>2 DEF Put
  <2>4. nmoved'[CEnd(d)] = c + 1
    BY <1>2, <1>6, <2>1
  <2>5. /\ ArgsOf(d)' = ArgsOf(d) /\ PartBefore(d)' = PartBefore(d)
        /\ PartAfter(d)' = PartAfter(d)
    BY <1>1, SameCarries
  <2>6. c = 3 => ~(pc[d] >= 8 \/ Len(ops[CEnd(d)]) = 5)
    <3>1. ChipletInv(d) /\ QueueInv(CEnd(d)) /\ CEnd(d) \in Ends
      BY <1>0, TheEnds DEF Control
    <3>2. nretired[CEnd(d)] \in Nat /\ pc[d] \in Nat
      BY <1>0, <3>1, ProgFacts
    <3> QED BY <2>1, <3>1, <3>2 DEF ChipletInv, QueueInv
  <2>7. ChipInv(d)'
    <3>1. ChipInv(d)
      BY <1>0
    <3>2. CASE c = 0 /\ Put(d, ArgsOf(d), chip[d].args, chip[d].A, chip[d].B, chip[d].C)
      BY <1>1, <2>1, <2>4, <2>5, <3>1, <3>2 DEF ChipInv, Put
    <3>3. CASE c = 1 /\ Put(d, chip[d].frame, chip[d].args, "A", chip[d].B, chip[d].C)
      BY <1>1, <2>1, <2>4, <2>5, <3>1, <3>3 DEF ChipInv, Put
    <3>4. CASE c = 2 /\ Put(d, chip[d].frame, chip[d].args, chip[d].A, "B", chip[d].C)
      BY <1>1, <2>1, <2>4, <2>5, <3>1, <3>4 DEF ChipInv, Put
    <3>5. CASE c = 3 /\ Put(d, chip[d].frame, chip[d].args, chip[d].A, chip[d].B, PartBefore(d))
      BY <1>1, <2>1, <2>4, <2>5, <2>6, <3>1, <3>5 DEF ChipInv, Put
    <3> QED BY <2>2, <3>2, <3>3, <3>4, <3>5
  <2>8. \A x \in Devs : x # d => ChipInv(x)'
    BY <1>3, <1>6, <2>3, EndsDiffer
  <2> QED BY <2>3, <2>7, <2>8
<1> QED BY <1>4, <1>5, <1>6

-----------------------------------------------------------------------------
(* The invariant.                                                           *)

\* It holds at first.
LEMMA InitIInv ==
  ASSUME Init
  PROVE  IInv
<1>0. n \in Sizes /\ n \in Nat /\ NumDevs \in Nat \ {0}
  BY SizesAssumption, NumDevsAssumption DEF Init
<1>1. Types
  BY DEF Init, Types
<1>2. ASSUME NEW e \in Ends
      PROVE  QueueInv(e) /\ FirstInv(e)
  <2>1. /\ ops[e] = <<>> /\ nmoved[e] = 0 /\ nretired[e] = 0 /\ st[e] = "none"
        /\ ~irq[e] /\ ~byirq[e]
    BY DEF Init
  <2>2. Len(ops[e]) = 0
    BY <2>1
  <2> QED BY <2>1, <2>2 DEF QueueInv, FirstInv
<1>3. \A p \in Progs : pc[p] = 1 /\ ~inside[p]
  BY DEF Init
<1>4. MasterInv
  <2>1. pc[Master] = 1 /\ ~inside[Master]
    BY <1>3, TheEnds
  <2>2. \A d \in Devs : Len(ops[MEnd(d)]) = 0 /\ d \in Nat
    BY TheEnds DEF Init
  <2>3. \A d \in Devs : MCount(d) = 0
    BY <2>1, <2>2 DEF MCount, MCalls
  <2> QED BY <1>0, <2>1, <2>2, <2>3 DEF MasterInv
<1>5. ASSUME NEW d \in Devs
      PROVE  ChipletInv(d)
  <2>1. pc[d] = 1 /\ ~inside[d] /\ Len(ops[CEnd(d)]) = 0
    BY <1>3, TheEnds DEF Init
  <2>2. CCount(d) = 0
    BY <2>1 DEF CCount
  <2> QED BY <2>1, <2>2 DEF ChipletInv
<1>6. Control
  BY <1>1, <1>2, <1>3, <1>4, <1>5 DEF Control
<1>7. chip \in [Devs -> Chips] /\ DOMAIN link = Devs
  <2>1. Junk \in ArgRec /\ <<>> \in Seq(Seq(Int))
    BY DEF Junk, ArgRec
  <2> QED BY <2>1 DEF Init, Chips
<1>8. OfsInv
  <2>1. ofs = 0 /\ pc[Master] = 1
    BY <1>3, TheEnds DEF Init
  <2>2. \A d \in Devs : \A j \in 1 .. 5 : 1 = 5 * d + j => d = 0
    BY TheEnds
  <2>3. 0 \in Devs /\ Begin(0) = 0
    <3>1. 0 \in Devs
      BY <1>0 DEF Devs
    <3> QED BY <1>0, <3>1, PartsApart
  <2> QED BY <1>0, <2>1, <2>2, <2>3 DEF OfsInv
<1>9. CInv
  <2>1. \A d \in Devs : nmoved[MEnd(d)] = 0
    BY TheEnds DEF Init
  <2> QED BY <2>1 DEF Init, CInv
<1>10. ASSUME NEW d \in Devs
       PROVE  PairInv(d) /\ ChipInv(d)
  <2>1. /\ nmoved[MEnd(d)] = 0 /\ nmoved[CEnd(d)] = 0 /\ link[d] = <<>>
        /\ st[MEnd(d)] = "none" /\ st[CEnd(d)] = "none"
        /\ pc[d] = 1 /\ Len(ops[CEnd(d)]) = 0
    BY <1>3, TheEnds DEF Init
  <2> QED BY <2>1 DEF PairInv, Apart, Sends, ChipInv
<1> QED BY <1>6, <1>7, <1>8, <1>9, <1>10 DEF IInv, Data

\* A step of a program keeps it.
LEMMA ProgramIInv ==
  ASSUME IInv, NEW p \in Progs, ProgStep(p)
  PROVE  IInv'
<1>0. Control /\ Data /\ CInv
  BY DEF IInv, Data
<1>1. n' = n /\ nmoved' = nmoved /\ link' = link /\ C' = C
  BY DEF ProgStep, Submit, Refused, Return, Wait, Flush, Compute, runs, memory
<1>2. Control'
  <2>1. CASE p # Master /\ Compute(p)
    <3>1. p \in Devs
      BY <2>1 DEF Progs
    <3> QED BY <1>0, <2>1, <3>1, ComputeControl
  <2> QED
    BY <1>0, <2>1, SubmitControl, RefusedControl, ReturnControl, WaitControl, FlushControl
    DEF ProgStep
<1>3. chip' \in [Devs -> Chips] /\ \A d \in Devs : ChipInv(d)'
  BY ProgramChips
<1>4. OfsInv' /\ \A d \in Devs : PairInv(d)'
  BY ProgramOfs, ProgramPairs
<1>5. CInv'
  BY <1>0, <1>1, CFrame
<1>6. (DOMAIN link = Devs)'
  BY <1>0, <1>1 DEF Data
<1> QED BY <1>2, <1>3, <1>4, <1>5, <1>6 DEF IInv, Data

\* So does a step of a device.
LEMMA DeviceIInv ==
  ASSUME IInv, NEW e \in Ends, DevStep(e)
  PROVE  IInv'
<1>0. /\ Control /\ Data /\ CInv /\ OfsInv /\ DOMAIN link = Devs
      /\ chip \in [Devs -> Chips] /\ \A d \in Devs : ChipInv(d)
  BY DEF IInv, Data
<1>1. CASE Ask(e) \/ Grant(e) \/ Ring(e) \/ Handle(e)
  <2>1. UNCHANGED <<n, ofs, pc, ops, nmoved, link, C, chip>>
    BY <1>1 DEF Ask, Grant, Ring, Handle, progs, queues, memory
  <2>2. Control'
    BY <1>0, <1>1, HandshakeControl, HandleControl
  <2>3. \A d \in Devs : PairInv(d)'
    BY <1>1, DevicePairs, GrantPairs
  <2>4. OfsInv' /\ CInv'
    BY <1>0, <2>1, OfsFrame, CFrame
  <2>5. \A d \in Devs : ChipInv(d)'
    BY <1>0, <2>1, ChipFrame
  <2>6. (chip \in [Devs -> Chips] /\ DOMAIN link = Devs)'
    BY <1>0, <2>1
  <2> QED BY <2>2, <2>3, <2>4, <2>5, <2>6 DEF IInv, Data
<1>2. CASE Tx(e)
  <2>1. /\ UNCHANGED <<n, ofs, pc, inside, ops, nretired, self, C, chip>>
        /\ st[e] = "run" /\ EndRun(e) /\ DOMAIN link' = Devs
    BY <1>2, TxEffect
  <2>2. Control'
    BY <1>0, <2>1, EndRunControl
  <2>3. OfsInv'
    BY <1>0, <2>1, OfsFrame
  <2>4. CInv' /\ \A d \in Devs : PairInv(d)' /\ ChipInv(d)'
    BY <1>2, TxC, TxPairs, TxChips
  <2>5. (chip \in [Devs -> Chips] /\ DOMAIN link = Devs)'
    BY <1>0, <2>1
  <2> QED BY <2>2, <2>3, <2>4, <2>5 DEF IInv, Data
<1>3. CASE Rx(e)
  <2>1. /\ UNCHANGED <<n, ofs, pc, inside, ops, nretired, self>>
        /\ st[e] = "open" /\ EndRun(e) /\ DOMAIN link' = Devs
    BY <1>3, RxEffect
  <2>2. Control'
    BY <1>0, <2>1, EndRunControl
  <2>3. OfsInv'
    BY <1>0, <2>1, OfsFrame
  <2>4. CInv' /\ \A d \in Devs : PairInv(d)'
    BY <1>3, RxC, RxPairs
  <2>5. chip' \in [Devs -> Chips] /\ \A d \in Devs : ChipInv(d)'
    BY <1>3, RxChips
  <2> QED BY <2>1, <2>2, <2>3, <2>4, <2>5 DEF IInv, Data
<1> QED BY <1>1, <1>2, <1>3 DEF DevStep

\* A step that changes nothing.
LEMMA StutterIInv ==
  ASSUME IInv, UNCHANGED vars
  PROVE  IInv'
<1>0. /\ Control /\ Data /\ CInv /\ OfsInv /\ DOMAIN link = Devs
      /\ chip \in [Devs -> Chips] /\ \A d \in Devs : ChipInv(d) /\ PairInv(d)
  BY DEF IInv, Data
<1>1. UNCHANGED <<n, ofs, pc, inside, ops, nretired, self, nmoved, st, byirq, irq, link, C, chip>>
  BY DEF vars, progs, queues, runs, memory
<1>2. Control'
  <2>1. Types'
    BY <1>0, <1>1 DEF Control, Types
  <2>2. ASSUME NEW e \in Ends
        PROVE  /\ QueueInv(e)' /\ nmoved[e] <= nmoved'[e] /\ nretired[e] <= nretired'[e]
    <3>1. QueueInv(e) /\ nmoved[e] \in Nat /\ nretired[e] \in Nat
      BY <1>0, ProgFacts DEF Control
    <3>2. QueueInv(e)'
      BY <1>1, <3>1, QueueFrame
    <3> QED BY <1>1, <3>1, <3>2
  <2> QED BY <1>0, <1>1, <2>1, <2>2, DeviceControl
<1>3. OfsInv' /\ CInv'
  BY <1>0, <1>1, OfsFrame, CFrame
<1>4. \A d \in Devs : ChipInv(d)'
  BY <1>0, <1>1, ChipFrame
<1>5. ASSUME NEW d \in Devs
      PROVE  PairInv(d)'
  <2>1. \A e : Sends(e)' <=> Sends(e)
    BY <1>1 DEF Sends, Current
  <2> QED BY <1>0, <1>1, <2>1, PairFrame
<1>6. (chip \in [Devs -> Chips] /\ DOMAIN link = Devs)'
  BY <1>0, <1>1
<1> QED BY <1>2, <1>3, <1>4, <1>5, <1>6 DEF IInv, Data

\* The invariant of the programs, queues, links and memories, for any number of
\* devices and any number of elements.
THEOREM MatmulInvariant == Spec => []IInv
<1>1. Init => IInv
  BY InitIInv
<1>2. IInv /\ [Next]_vars => IInv'
  BY ProgramIInv, DeviceIInv, StutterIInv DEF Next
<1> QED BY <1>1, <1>2, PTL DEF Spec

-----------------------------------------------------------------------------
(* The theorems.                                                            *)

\* Every variable has a value of its kind, and a device runs an operation only
\* from among those it was given.
THEOREM MatmulTypeOK == Spec => []TypeOK
<1>1. IInv => TypeOK
  <2> SUFFICES ASSUME IInv PROVE TypeOK
    OBVIOUS
  <2>0. Control /\ Types
    BY DEF IInv, Control
  <2>1. n \in Sizes /\ ofs \in 0 .. n /\ DOMAIN C = 0 .. n - 1
    BY <2>0 DEF IInv, Data, OfsInv, CInv, Types
  <2>2. ASSUME NEW p \in Progs
        PROVE  pc[p] \in 0 .. Len(Text[p]) + 1 /\ inside[p] \in BOOLEAN
    <3>1. inside[p] \in BOOLEAN
      BY <2>0 DEF Types
    <3>2. CASE p = Master
      BY <2>0, <3>1, <3>2, ProgFacts, MasterRounds
    <3>3. CASE p \in Devs
      <4>1. pc[p] \in Nat /\ pc[p] <= 11
        BY <2>0, <3>3, ProgFacts
      <4>2. Len(Text[p]) = 10
        BY <3>3, ChipletCalls
      <4> QED BY <3>1, <4>1, <4>2
    <3> QED BY <3>2, <3>3 DEF Progs
  <2>3. ASSUME NEW e \in Ends
        PROVE  /\ nretired[e] \in 0 .. Len(ops[e]) /\ nmoved[e] \in 0 .. Len(ops[e])
               /\ st[e] \in {"none", "ready", "ask", "granted", "run", "open"}
               /\ byirq[e] \in BOOLEAN /\ irq[e] \in BOOLEAN /\ self[e] \in BOOLEAN
    <3>1. nretired[e] \in 0 .. Len(ops[e]) /\ nmoved[e] \in 0 .. Len(ops[e])
      <4>1. nmoved[e] <= Len(ops[e])
        BY <2>0 DEF Control, QueueInv
      <4> QED BY <2>0, <4>1, ProgFacts
    <3>2. st[e] \in {"none", "ready", "ask", "granted", "run", "open"}
      BY <2>0 DEF Types
    <3>3. byirq[e] \in BOOLEAN /\ irq[e] \in BOOLEAN /\ self[e] \in BOOLEAN
      BY <2>0 DEF Types
    <3> QED BY <3>1, <3>2, <3>3
  <2>4. ASSUME NEW d \in Devs, NEW i \in DOMAIN link[d]
        PROVE  link[d][i].buf \in {"args", "A", "B", "C"}
    <3>1. link[d] # <<>>
      BY <2>4
    <3>2. PICK s \in {MEnd(d), CEnd(d)} : Behind(d, s)
      BY <3>1 DEF IInv, Data, PairInv, Apart, Joined
    <3>3. PICK j : j = nmoved[s]
      OBVIOUS
    <3>4. j \in 1 .. 5
      <4>1. s \in Ends /\ Peer(s) \in Ends
        BY TheEnds
      <4>2. j \in Nat /\ nmoved[Peer(s)] \in Nat /\ j <= 5
        BY <2>0, <3>3, <4>1, ProgFacts DEF Control, QueueInv
      <4> QED BY <3>2, <3>3, <4>2 DEF Behind
    <3>5. link[d] = <<Carries(d, j)>>
      BY <3>1, <3>2, <3>3 DEF Behind
    <3>6. i = 1
      BY <2>4, <3>5
    <3>7. Carries(d, j).buf \in {"args", "A", "B", "C"}
      <4>1. MPlan(d)[j] \in Ops
        BY <2>1, <3>4, PlansMeet
      <4> QED BY <4>1 DEF Ops, Carries
    <3> QED BY <3>5, <3>6, <3>7
  <2> QED BY <2>1, <2>2, <2>3, <2>4 DEF TypeOK
<1> QED BY <1>1, MatmulInvariant, PTL

\* No operation that has yet to run refers to the frame of a call of
\* psipe_send_args or psipe_recv_args that has returned.
THEOREM MatmulFramesAlive == Spec => []FramesAlive
<1>1. IInv => FramesAlive
  <2> SUFFICES ASSUME IInv, NEW e \in Ends, NEW i \in DOMAIN ops[e],
                      i > nmoved[e], ops[e][i].buf = "args"
               PROVE  inside[e[1]]
    BY DEF FramesAlive
  <2>0. Control /\ n \in Sizes
    BY DEF IInv, Control, Types
  <2>1. i \in 1 .. Len(ops[e]) /\ i \in 1 .. 5 /\ nmoved[e] \in Nat /\ Len(ops[e]) \in Nat
    <3>1. /\ ops[e] \in Seq(Ops) /\ Len(ops[e]) \in Nat /\ Len(ops[e]) <= 5
          /\ nmoved[e] \in Nat
      BY <2>0, ProgFacts
    <3>2. i \in 1 .. Len(ops[e])
      BY <3>1
    <3> QED BY <3>1, <3>2
  <2>2. Plan(e)[i].buf = "args"
    BY <2>0, <2>1 DEF Control, QueueInv
  <2>3. i = 1
    <3>1. PICK d \in Devs : e = MEnd(d) \/ e = CEnd(d)
      BY TheEnds
    <3>2. Plan(e)[i] = MPlan(d)[i] \/ Plan(e)[i] = CPlan(d)[i]
      BY <2>0, <2>1, <3>1, PlansMeet
    <3>3. MPlan(d)[i].buf = "args"
      BY <2>0, <2>1, <2>2, <3>2, PlansMeet
    <3> QED BY <2>0, <2>1, <3>3, PlansMeet
  <2>4. FirstInv(e) /\ Len(ops[e]) >= 1 /\ nmoved[e] = 0
    BY <2>0, <2>1, <2>3 DEF Control
  <2> QED BY <2>4 DEF FirstInv
<1> QED BY <1>1, MatmulInvariant, PTL

\* A program flushes a queue only when it is empty and the device is idle.
THEOREM MatmulFlushesDrained == Spec => []FlushesDrained
<1>1. IInv => FlushesDrained
  <2> SUFFICES ASSUME IInv, NEW p \in Progs, At(p, {"FLUSH"})
               PROVE  ~Active(EndOf(p)) /\ st[EndOf(p)] = "none"
    BY DEF FlushesDrained
  <2>1. PICK e : e = EndOf(p)
    OBVIOUS
  <2>2. e \in Ends /\ nretired[e] = Len(ops[e])
    BY <2>1, FlushDrained DEF IInv
  <2>3. QueueInv(e) /\ nretired[e] \in Nat
    BY <2>2, ProgFacts DEF IInv, Control
  <2>4. ~(nretired[e] < Len(ops[e]))
    BY <2>2, <2>3
  <2>5. st[e] = "none"
    BY <2>3, <2>4 DEF QueueInv
  <2> QED BY <2>1, <2>4, <2>5 DEF Active
<1> QED BY <1>1, MatmulInvariant, PTL

\* Operations that meet are a SEND and a RECV of the same buffer and length.
THEOREM MatmulProgramsAgree == Spec => []ProgramsAgree
<1>1. IInv => ProgramsAgree
  <2> SUFFICES ASSUME IInv, NEW d \in Devs,
                      NEW i \in DOMAIN ops[MEnd(d)] \cap DOMAIN ops[CEnd(d)]
               PROVE  LET m == ops[MEnd(d)] c == ops[CEnd(d)] IN
                      /\ {m[i].do, c[i].do} = {"SEND", "RECV"}
                      /\ m[i].buf = c[i].buf /\ m[i].len = c[i].len
    BY DEF ProgramsAgree, MEnd, CEnd
  <2>0. Control /\ n \in Sizes /\ MEnd(d) \in Ends /\ CEnd(d) \in Ends
    BY TheEnds DEF IInv, Control, Types
  <2>1. i \in 1 .. Len(ops[MEnd(d)]) /\ i \in 1 .. Len(ops[CEnd(d)]) /\ i \in 1 .. 5
    BY <2>0, ProgFacts, SMTT(30)
  <2>2. ops[MEnd(d)][i] = Plan(MEnd(d))[i] /\ ops[CEnd(d)][i] = Plan(CEnd(d))[i]
    BY <2>0, <2>1 DEF Control, QueueInv
  <2>3. ops[MEnd(d)][i] = MPlan(d)[i] /\ ops[CEnd(d)][i] = CPlan(d)[i]
    BY <2>0, <2>1, <2>2, PlansMeet
  <2> QED BY <2>0, <2>1, <2>3, PlansMeet
<1> QED BY <1>1, MatmulInvariant, PTL

\* What a device of the master has received is what matmul_gold computes, and when
\* matmul returns every element of C is.
THEOREM MatmulProductRight == Spec => []ProductRight
<1>1. IInv => ProductRight
  <2> SUFFICES ASSUME IInv PROVE ProductRight
    OBVIOUS
  <2>0. Control /\ n \in Sizes /\ n \in Nat /\ NumDevs \in Nat \ {0}
    BY SizesAssumption, NumDevsAssumption DEF IInv, Control, Types
  <2>1. ASSUME NEW g \in 0 .. n - 1, NEW d \in Devs, nmoved[MEnd(d)] = 5, g \in Elements(d)
        PROVE  C[g] = Gold(g)
    BY <2>1 DEF IInv, Data, CInv, Gold
  <2>2. ASSUME NEW d \in Devs, NEW i \in 1 .. nmoved[MEnd(d)],
               ops[MEnd(d)][i].do = "RECV",
               NEW k \in 0 .. ops[MEnd(d)][i].len - 1
        PROVE  C[ops[MEnd(d)][i].ofs + k] = Gold(ops[MEnd(d)][i].ofs + k)
    <3>1. nmoved[MEnd(d)] \in Nat /\ nmoved[MEnd(d)] <= Len(ops[MEnd(d)]) /\ Len(ops[MEnd(d)]) <= 5
          /\ Len(ops[MEnd(d)]) \in Nat
      BY <2>0, ProgFacts, TheEnds DEF Control, QueueInv
    <3>2. i \in 1 .. Len(ops[MEnd(d)]) /\ i \in 1 .. 5
      BY <3>1
    <3>3. ops[MEnd(d)][i] = MPlan(d)[i]
      <4>1. ops[MEnd(d)][i] = Plan(MEnd(d))[i]
        BY <2>0, <3>2, TheEnds DEF Control, QueueInv
      <4> QED BY <2>0, <3>2, <4>1, PlansMeet
    <3>4. i = 5
      BY <2>0, <2>2, <3>2, <3>3, PlansMeet
    <3>5. nmoved[MEnd(d)] = 5
      <4>1. 5 <= nmoved[MEnd(d)] /\ nmoved[MEnd(d)] <= 5
        BY <3>1, <3>4
      <4>2. \A a \in Nat : 5 <= a /\ a <= 5 => a = 5
        OBVIOUS
      <4> QED BY <3>1, <4>1, <4>2, Zenon
    <3>6. ops[MEnd(d)][i].len = Part(d) /\ ops[MEnd(d)][i].ofs = Begin(d)
      BY <3>3, <3>4 DEF MPlan, Op
    <3>7. Part(d) \in Nat /\ Begin(d) \in Nat /\ Begin(d) + Part(d) <= n
      BY <2>0, PartsFollow, PartsApart
    <3>8. k \in 0 .. Part(d) - 1
      BY <2>2, <3>6
    <3>9. Begin(d) + k \in 0 .. n - 1 /\ Begin(d) + k \in Elements(d)
      BY <2>0, <3>7, <3>8 DEF Elements
    <3>10. C[Begin(d) + k] = Gold(Begin(d) + k)
      BY <2>1, <3>5, <3>9
    <3> QED BY <3>6, <3>10
  <2>3. ASSUME Ended(Master), NEW g \in 0 .. n - 1
        PROVE  C[g] = Gold(g)
    <3>1. pc[Master] = 7 * NumDevs + 1 /\ pc[Master] > 5 * NumDevs
      BY <2>0, <2>3, MasterRounds DEF Ended
    <3>2. ofs = n
      BY <3>1 DEF IInv, Data, OfsInv
    <3>3. PICK d \in Devs : g \in Elements(d)
      BY <3>2 DEF IInv, Data, OfsInv
    <3>4. nretired[MEnd(d)] = 5
      <4>1. d \in Nat /\ d < NumDevs
        BY TheEnds
      <4>2. pc[Master] > 5 * NumDevs + 2 * d + 1
        BY <2>0, <3>1, <4>1
      <4> QED BY <2>0, <4>2 DEF Control, MasterInv
    <3>5. nmoved[MEnd(d)] = 5
      <4>1. nmoved[MEnd(d)] \in Nat /\ 5 <= nmoved[MEnd(d)] /\ nmoved[MEnd(d)] <= 5
        <5>1. MEnd(d) \in Ends
          BY TheEnds
        <5>2. QueueInv(MEnd(d))
          BY <2>0, <5>1 DEF Control
        <5>3. nmoved[MEnd(d)] \in Nat /\ Len(ops[MEnd(d)]) \in Nat
          BY <2>0, <5>1, ProgFacts
        <5> QED BY <3>4, <5>2, <5>3 DEF QueueInv
      <4>2. \A a \in Nat : 5 <= a /\ a <= 5 => a = 5
        OBVIOUS
      <4> QED BY <4>1, <4>2, Zenon
    <3> QED BY <2>1, <3>3, <3>5
  <2> QED BY <2>2, <2>3 DEF ProductRight, MEnd
<1> QED BY <1>1, MatmulInvariant, PTL

=============================================================================
