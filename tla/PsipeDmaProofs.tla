--------------------------- MODULE PsipeDmaProofs ---------------------------
(***************************************************************************)
(* Every run moves each byte of its message once, and a run on a buffer    *)
(* that does not start on a page boundary walks the buffer and nothing     *)
(* else, for every page size, number of handles, length and placement of   *)
(* the pages in memory.                                                    *)
(*                                                                         *)
(* Two invariants.  The accesses of a run tile the bytes moved so far      *)
(* (Tiles): this does not depend on where the buffer starts.  And with an  *)
(* offset, every whole piece ends at that same offset one page further, so *)
(* the engine always stands at the offset of the buffer, hnd_pos pages     *)
(* into it (Standing).                                                     *)
(***************************************************************************)
EXTENDS PsipeDma, TLAPS

-----------------------------------------------------------------------------
(* Types, and the tiling of the message; for buffers with any offset.       *)

\* Access a moves byte b of the message.
Moves(a, b) == a.byte <= b /\ b < a.byte + a.n

\* The accesses of the run cover the bytes moved so far and do not overlap.
Tiles ==
  /\ len_left <= len
  /\ \A a \in accesses : a.n > 0 /\ a.byte + a.n <= Done
  /\ \A b \in Nat : b < Done => \E a \in accesses : Moves(a, b)
  /\ \A a, c \in accesses :
       a # c => a.byte + a.n <= c.byte \/ c.byte + c.n <= a.byte

TilesInv == TypeOK /\ (status = "EXECUTING" => Tiles)

\* The cut of a message into pieces never asks for more than is left.
LEMMA PieceFits ==
  ASSUME TypeOK, InLoop
  PROVE  Least(P, len_left) \in 1 .. len_left /\ Least(P, len_left) <= P
  BY PAssumption DEF TypeOK, InLoop, Least

\* Adding up to a page to an address gives an address.
LEMMA PlusAddress ==
  ASSUME NEW a \in Address, NEW n \in 0 .. P
  PROVE  Plus(a, n) \in Address
<1>1. a.frame \in Nat /\ a.ofs \in 0 .. P - 1 /\ a = [frame |-> a.frame, ofs |-> a.ofs]
  BY DEF Address
<1>2. CASE a.ofs + n < P
  <2>1. Plus(a, n) = [frame |-> a.frame, ofs |-> a.ofs + n]
    BY <1>1, <1>2 DEF Plus
  <2> QED BY <1>1, <1>2, <2>1, PAssumption DEF Address
<1>3. CASE ~(a.ofs + n < P)
  <2>1. Plus(a, n) = [frame |-> a.frame + 1, ofs |-> a.ofs + n - P]
    BY <1>3 DEF Plus
  <2> QED BY <1>1, <1>3, <2>1, PAssumption DEF Address
<1> QED BY <1>2, <1>3

\* The engine starts with its types.
LEMMA InitTypeOK == Init => TypeOK
  BY PAssumption, PagesAssumption, RunsAssumption
  DEF Init, TypeOK, Buffers, Address, Null

\* The registers the kernel writes have their types.
LEMMA ProgramTypeOK ==
  ASSUME TypeOK,
         NEW m \in {"ACTIVE", "PASSIVE"}, NEW ofs \in Offsets, NEW l \in Lens,
         NEW f \in [0 .. MaxPages - 1 -> Frames],
         Program(m, ofs, l, f)
  PROVE  TypeOK'
<1> USE PAssumption, PagesAssumption, FramesAssumption, OffsetsAssumption,
        LensAssumption, RunsAssumption
<1>1. PICK n \in 1 .. MaxPages :
        npages' = n /\ handles' = WriteHandles(ofs, n, f)
  BY DEF Program
<1>2. /\ buffer' = [ofs |-> ofs, len |-> l, frames |-> f] /\ len' = l /\ mode' = m
      /\ runs' = runs + 1 /\ runs < MaxRuns /\ outcome' = "none"
      /\ UNCHANGED <<len_left, addr, hnd_pos, accesses, status>>
  BY DEF Program, currentVars
<1>3. ofs \in 0 .. P - 1 /\ l \in Nat /\ \A k \in 0 .. MaxPages - 1 : f[k] \in Nat
  OBVIOUS
<1>4. WriteHandles(ofs, n, f) \in [0 .. MaxPages -> Address]
  <2> SUFFICES ASSUME NEW k \in 0 .. MaxPages
               PROVE  (IF k < n THEN [frame |-> f[k], ofs |-> IF k = 0 THEN ofs ELSE 0]
                                ELSE handles[k]) \in Address
    BY DEF WriteHandles
  <2>1. CASE k < n
    BY <1>3, <2>1 DEF Address
  <2>2. CASE ~(k < n)
    BY <2>2 DEF TypeOK
  <2> QED BY <2>1, <2>2
<1>5. buffer' \in Buffers
  BY <1>2, <1>3 DEF Buffers
<1> QED BY <1>1, <1>2, <1>3, <1>4, <1>5 DEF TypeOK

\* The doorbell sets the cursor to the first page of the operation.
LEMMA BeginRunTypeOK == TypeOK /\ BeginRun => TypeOK'
  BY PagesAssumption DEF BeginRun, TypeOK, configVars

\* What one iteration of either loop adds to the accesses: the piece, in one
\* part or, when it goes on to the next page, in two.
LEMMA WalkPiece ==
  ASSUME TypeOK, InLoop, Walk(Least(P, len_left)), len_left <= len
  PROVE  \E want \in 1 .. len_left :
           /\ len_left' = len_left - want
           /\ addr' \in Address /\ hnd_pos' \in 0 .. MaxPages
           /\ \/ accesses' = accesses \cup {[byte |-> Done, at |-> addr, n |-> want]}
              \/ \E have \in 1 .. want - 1, next \in Address :
                   accesses' = accesses \cup
                     {[byte |-> Done, at |-> addr, n |-> have],
                      [byte |-> Done + have, at |-> next, n |-> want - have]}
<1> USE PAssumption, PagesAssumption
<1> DEFINE want == Least(P, len_left)
<1>1. want \in 1 .. len_left /\ want <= P
  BY PieceFits
<1>2. addr \in Address /\ addr.ofs \in 0 .. P - 1 /\ LenHave \in 1 .. P
  BY DEF TypeOK, Address, LenHave
<1>3. len_left \in Nat /\ hnd_pos \in 0 .. MaxPages /\ npages \in 0 .. MaxPages
  BY DEF TypeOK
<1> HIDE DEF want
<1>4. len_left' = len_left - want
  BY DEF Walk, LenLeft, want
<1>5. CASE OnOnePage(want)
  <2>1. addr' \in Address
    BY <1>1, <1>2, <1>3, <1>5, PlusAddress DEF OnOnePage
  <2> QED BY <1>1, <1>3, <1>4, <1>5, <2>1 DEF OnOnePage
<1>6. CASE OnTwoPages(want)
  <2> DEFINE next == handles[hnd_pos + 1]
  <2>1. /\ want > LenHave /\ hnd_pos < npages /\ hnd_pos' = hnd_pos + 1
        /\ accesses' = accesses \cup
             {[byte |-> Done, at |-> addr, n |-> LenHave],
              [byte |-> Done + LenHave, at |-> next, n |-> want - LenHave]}
        /\ addr' = Plus(next, want - LenHave)
    BY <1>6 DEF OnTwoPages, NextPos
  <2>2. hnd_pos + 1 \in 0 .. MaxPages
    BY <1>3, <2>1
  <2>3. next \in Address
    BY <2>2 DEF TypeOK
  <2>4. want - LenHave \in 0 .. P /\ LenHave \in 1 .. want - 1
    BY <1>1, <1>2, <1>3, <2>1
  <2> HIDE DEF next
  <2>5. addr' \in Address
    BY <2>1, <2>3, <2>4, PlusAddress
  <2> QED BY <1>1, <1>4, <2>1, <2>2, <2>3, <2>4, <2>5
<1> QED BY <1>5, <1>6 DEF Walk, want

\* One iteration of either loop.
LEMMA WalkTiles ==
  ASSUME TypeOK, Tiles, InLoop, Walk(Least(P, len_left)),
         UNCHANGED <<configVars, status, outcome, runs>>
  PROVE  TypeOK' /\ Tiles'
<1>1. PICK want \in 1 .. len_left :
           /\ len_left' = len_left - want
           /\ addr' \in Address /\ hnd_pos' \in 0 .. MaxPages
           /\ \/ accesses' = accesses \cup {[byte |-> Done, at |-> addr, n |-> want]}
              \/ \E have \in 1 .. want - 1, next \in Address :
                   accesses' = accesses \cup
                     {[byte |-> Done, at |-> addr, n |-> have],
                      [byte |-> Done + have, at |-> next, n |-> want - have]}
  BY WalkPiece DEF Tiles
<1>2. /\ len \in Nat /\ len_left \in Nat /\ len_left <= len /\ addr \in Address
      /\ UNCHANGED <<buffer, mode, npages, len, handles, status, outcome, runs>>
  BY DEF TypeOK, Tiles, configVars
<1>3. Done \in Nat /\ Done' = Done + want /\ len_left' <= len' /\ len_left' \in Nat
  BY <1>1, <1>2 DEF Done
<1>4. ASSUME NEW a \in accesses PROVE a.byte \in Nat /\ a.n \in Nat
  BY DEF TypeOK
<1>5. CASE accesses' = accesses \cup {[byte |-> Done, at |-> addr, n |-> want]}
  <2> DEFINE x == [byte |-> Done, at |-> addr, n |-> want]
  <2>1. x \in [byte : Nat, at : Address, n : Nat] /\ x.byte = Done /\ x.n = want
    BY <1>1, <1>2, <1>3
  <2>2. accesses' = accesses \cup {x}
    BY <1>5
  <2> HIDE DEF x
  <2>3. \A a \in accesses' : a.n > 0 /\ a.byte + a.n <= Done'
    BY <1>1, <1>3, <1>4, <2>1, <2>2 DEF Tiles
  <2>4. ASSUME NEW b \in Nat, b < Done' PROVE \E a \in accesses' : Moves(a, b)
    <3>1. CASE b < Done
      BY <2>2, <3>1 DEF Tiles
    <3>2. CASE ~(b < Done)
      BY <1>1, <1>3, <2>1, <2>2, <2>4, <3>2 DEF Moves
    <3> QED BY <3>1, <3>2
  <2>5. \A a, c \in accesses' :
          a # c => a.byte + a.n <= c.byte \/ c.byte + c.n <= a.byte
    BY <1>3, <1>4, <2>1, <2>2 DEF Tiles
  <2>6. Tiles'
    BY <1>3, <2>3, <2>4, <2>5 DEF Tiles, Moves
  <2> QED BY <1>1, <1>2, <1>3, <2>1, <2>2, <2>6 DEF TypeOK
<1>6. ASSUME NEW have \in 1 .. want - 1, NEW next \in Address,
             accesses' = accesses \cup
               {[byte |-> Done, at |-> addr, n |-> have],
                [byte |-> Done + have, at |-> next, n |-> want - have]}
      PROVE  TypeOK' /\ Tiles'
  <2> DEFINE x == [byte |-> Done, at |-> addr, n |-> have]
             y == [byte |-> Done + have, at |-> next, n |-> want - have]
  <2>1. x \in [byte : Nat, at : Address, n : Nat] /\ x.byte = Done /\ x.n = have
    BY <1>1, <1>2, <1>3
  <2>2. /\ y \in [byte : Nat, at : Address, n : Nat]
        /\ y.byte = Done + have /\ y.n = want - have
    BY <1>1, <1>2, <1>3
  <2>3. accesses' = accesses \cup {x, y}
    BY <1>6
  <2> HIDE DEF x, y
  <2>4. \A a \in accesses' : a.n > 0 /\ a.byte + a.n <= Done'
    BY <1>1, <1>3, <1>4, <2>1, <2>2, <2>3 DEF Tiles
  <2>5. ASSUME NEW b \in Nat, b < Done' PROVE \E a \in accesses' : Moves(a, b)
    <3>1. CASE b < Done
      BY <2>3, <3>1 DEF Tiles
    <3>2. CASE ~(b < Done) /\ b < Done + have
      BY <1>1, <1>3, <2>1, <2>3, <3>2 DEF Moves
    <3>3. CASE ~(b < Done + have)
      BY <1>1, <1>3, <2>2, <2>3, <2>5, <3>3 DEF Moves
    <3> QED BY <3>1, <3>2, <3>3
  <2>6. \A a, c \in accesses' :
          a # c => a.byte + a.n <= c.byte \/ c.byte + c.n <= a.byte
    BY <1>3, <1>4, <2>1, <2>2, <2>3 DEF Tiles
  <2>7. Tiles'
    BY <1>3, <2>4, <2>5, <2>6 DEF Tiles, Moves
  <2> QED BY <1>1, <1>2, <1>3, <2>1, <2>2, <2>3, <2>7 DEF TypeOK
<1> QED BY <1>1, <1>5, <1>6

\* Every step keeps the accesses of the run in one piece.
LEMMA NextTiles == TilesInv /\ [Next]_vars => TilesInv'
<1> SUFFICES ASSUME TilesInv, [Next]_vars PROVE TilesInv'
  OBVIOUS
<1>1. ASSUME NEW m \in {"ACTIVE", "PASSIVE"}, NEW ofs \in Offsets, NEW l \in Lens,
             NEW f \in [0 .. MaxPages - 1 -> Frames], Program(m, ofs, l, f)
      PROVE  TilesInv'
  BY <1>1, ProgramTypeOK DEF TilesInv, Program
<1>2. CASE BeginRun
  <2>1. /\ accesses' = {} /\ len_left' = len /\ len' = len /\ len \in Nat
    BY <1>2 DEF BeginRun, configVars, TilesInv, TypeOK
  <2>2. Tiles'
    BY <2>1 DEF Tiles, Done
  <2> QED BY <1>2, <2>2, BeginRunTypeOK DEF TilesInv
<1>3. CASE RxPage \/ TxPage
  BY <1>3, WalkTiles DEF RxPage, TxPage, InLoop, TilesInv
<1>4. CASE EndRun \/ FailRun
  BY <1>4 DEF EndRun, FailRun, InLoop, TilesInv, TypeOK, configVars, currentVars
<1>5. CASE UNCHANGED vars
  BY <1>5 DEF vars, configVars, currentVars, TilesInv, TypeOK, Tiles, Moves, Done
<1> QED BY <1>1, <1>2, <1>3, <1>4, <1>5 DEF Next

\* The variables of the engine keep their types and the accesses of a run tile
\* the bytes it has moved.
THEOREM DmaTiles == Spec => []TilesInv
<1>1. Init => TilesInv
  BY InitTypeOK DEF Init, TilesInv
<1> QED BY <1>1, NextTiles, PTL DEF Spec

\* The variables of the engine keep their types, wherever a buffer starts.
THEOREM DmaTypeOK == Spec => []TypeOK
<1>1. TilesInv => TypeOK
  BY DEF TilesInv
<1> QED BY <1>1, DmaTiles, PTL

\* A run that psipe_dma_is_finished ends has moved each byte of the message
\* once, for every cut into pages and wherever the buffer starts.
THEOREM DmaEachByteOnce == Spec => []EachByteOnce
<1>1. ASSUME TilesInv PROVE EachByteOnce
  <2> SUFFICES ASSUME status = "EXECUTING", len_left = 0, NEW b \in 0 .. len - 1
               PROVE  \E a \in accesses :
                        /\ a.byte <= b /\ b < a.byte + a.n
                        /\ \A c \in accesses : c.byte <= b /\ b < c.byte + c.n => c = a
    BY DEF EachByteOnce
  <2>1. Tiles /\ len \in Nat /\ Done = len
    BY <1>1 DEF TilesInv, TypeOK, Done
  <2>2. PICK a \in accesses : Moves(a, b)
    BY <2>1 DEF Tiles
  <2>3. \A c \in accesses : c.byte \in Nat /\ c.n \in Nat
    BY <1>1 DEF TilesInv, TypeOK
  <2>4. ASSUME NEW c \in accesses, Moves(c, b) PROVE c = a
    BY <2>1, <2>2, <2>3, <2>4 DEF Tiles, Moves
  <2> QED BY <2>2, <2>4 DEF Moves
<1> QED BY <1>1, DmaTiles, PTL

-----------------------------------------------------------------------------
(* Where the engine stands; for buffers that start inside a page.           *)

\* The registers describe the buffer of the operation (psipe_dma_write_maps).
Configured ==
  /\ len = buffer.len /\ len \in Nat \ {0}
  /\ buffer.ofs \in 1 .. P - 1
  /\ npages \in 1 .. MaxPages
  /\ IsPageCount(npages, buffer.ofs, len)
  /\ \A k \in 0 .. npages - 1 :
       /\ buffer.frames[k] # 0
       /\ handles[k] = [frame |-> buffer.frames[k],
                        ofs |-> IF k = 0 THEN buffer.ofs ELSE 0]

\* Where the engine stands.
Standing ==
  /\ hnd_pos < npages
  /\ len_left <= len
  /\ len_left > 0 =>
       /\ addr = [frame |-> buffer.frames[hnd_pos], ofs |-> buffer.ofs]
       /\ len = hnd_pos * P + len_left

IInv ==
  /\ TypeOK
  /\ outcome = "none" => Configured
  /\ status = "EXECUTING" =>
       outcome = "none" /\ Standing /\ \A a \in accesses : InPlace(a)

\* A product with the page size is compared by its other factor.
LEMMA ProductOrder ==
  ASSUME NEW a \in Nat, NEW b \in Nat, NEW p \in Nat, a * p < b * p
  PROVE  a < b
  BY SMT

\* One page more.
LEMMA ProductStep ==
  ASSUME NEW a \in Nat, NEW p \in Nat
  PROVE  (a + 1) * p = a * p + p
  BY SMT

\* A piece that spans two pages always has a second page to go on.
LEMMA NextPageExists ==
  ASSUME IInv, InLoop, Least(P, len_left) > LenHave
  PROVE  hnd_pos + 1 \in 1 .. npages - 1
<1> USE PAssumption
<1>1. /\ hnd_pos \in Nat /\ npages \in Nat /\ len_left \in Nat /\ P \in Nat
      /\ buffer.ofs \in 1 .. P - 1
  BY DEF IInv, TypeOK, InLoop, Configured
<1>2. /\ len = hnd_pos * P + len_left
      /\ len + buffer.ofs <= npages * P
      /\ len_left > P - buffer.ofs
      /\ len \in Nat
  BY SMTT(30), <1>1 DEF IInv, TypeOK, InLoop, Configured, Standing, LenHave, Least, IsPageCount
<1>3. hnd_pos * P \in Nat /\ npages * P \in Nat
  BY <1>1
<1>4. (hnd_pos + 1) * P = hnd_pos * P + P
  BY <1>1, ProductStep
<1>5. (hnd_pos + 1) * P < npages * P
  BY <1>1, <1>2, <1>3, <1>4
<1>6. hnd_pos + 1 < npages
  BY <1>1, <1>5, ProductOrder
<1> QED BY <1>1, <1>6

\* No run has begun.
LEMMA InitIInv == Init => IInv
  BY PAssumption, PagesAssumption, RunsAssumption
  DEF Init, IInv, TypeOK, Buffers, Address, Null

\* The kernel configures a buffer of the right number of pages.
LEMMA ProgramIInv ==
  ASSUME 0 \notin Offsets, IInv,
         NEW m \in {"ACTIVE", "PASSIVE"}, NEW ofs \in Offsets, NEW l \in Lens,
         NEW f \in [0 .. MaxPages - 1 -> Frames],
         Program(m, ofs, l, f)
  PROVE  IInv'
<1> USE PAssumption, PagesAssumption, FramesAssumption, OffsetsAssumption,
        LensAssumption, RunsAssumption
<1>1. PICK n \in 1 .. MaxPages :
        IsPageCount(n, ofs, l) /\ npages' = n /\ handles' = WriteHandles(ofs, n, f)
  BY DEF Program
<1>2. /\ buffer' = [ofs |-> ofs, len |-> l, frames |-> f] /\ len' = l /\ mode' = m
      /\ runs' = runs + 1 /\ runs < MaxRuns /\ outcome' = "none"
      /\ status = "IDLE" /\ status' = "IDLE"
      /\ UNCHANGED <<len_left, addr, hnd_pos, accesses>>
  BY DEF Program, currentVars
<1>3. ofs \in 1 .. P - 1 /\ l \in Nat \ {0} /\ \A k \in 0 .. n - 1 : f[k] \in Nat \ {0}
  <2>1. ofs \in 0 .. P - 1 /\ ofs # 0
    OBVIOUS
  <2>2. \A k \in 0 .. n - 1 : k \in 0 .. MaxPages - 1
    OBVIOUS
  <2>3. \A k \in 0 .. n - 1 : f[k] \in Frames
    BY <2>2
  <2>4. \A k \in 0 .. n - 1 : f[k] \in Nat \ {0}
    BY <2>3
  <2>5. l \in Nat \ {0}
    OBVIOUS
  <2> QED BY <2>1, <2>4, <2>5
<1>5. TypeOK'
  BY ProgramTypeOK DEF IInv
<1>6. Configured'
  <2>1. \A k \in 0 .. n - 1 :
          handles'[k] = [frame |-> f[k], ofs |-> IF k = 0 THEN ofs ELSE 0]
    BY <1>1 DEF WriteHandles
  <2> QED BY <1>1, <1>2, <1>3, <2>1 DEF Configured, IsPageCount
<1> QED BY <1>2, <1>5, <1>6 DEF IInv

\* A run begins at the first byte of the buffer.
LEMMA BeginRunIInv == IInv /\ BeginRun => IInv'
<1> SUFFICES ASSUME IInv, BeginRun PROVE IInv'
  OBVIOUS
<1> USE PAssumption, PagesAssumption
<1>1. /\ len_left' = len /\ addr' = handles[0] /\ hnd_pos' = 0 /\ accesses' = {}
      /\ status' = "EXECUTING" /\ outcome = "none"
      /\ UNCHANGED <<buffer, mode, npages, len, handles, outcome, runs>>
  BY DEF BeginRun, configVars
<1>2. Configured /\ Configured'
  BY <1>1 DEF IInv, Configured, IsPageCount
<1>3. TypeOK'
  BY BeginRunTypeOK DEF IInv
<1>4. Standing'
  <2>1. /\ 0 \in 0 .. npages - 1
        /\ handles[0] = [frame |-> buffer.frames[0], ofs |-> buffer.ofs]
        /\ len \in Nat /\ npages \in Nat \ {0} /\ len = 0 * P + len
    BY <1>2 DEF Configured
  <2>2. hnd_pos' < npages' /\ len_left' <= len'
    <3>1. hnd_pos' = 0 /\ npages' = npages /\ len_left' = len /\ len' = len
      BY <1>1
    <3> QED BY <2>1, <3>1
  <2>3. addr' = [frame |-> buffer'.frames[hnd_pos'], ofs |-> buffer'.ofs]
    BY <1>1, <2>1
  <2>4. len' = hnd_pos' * P + len_left'
    BY <1>1, <2>1
  <2> QED BY <2>2, <2>3, <2>4 DEF Standing
<1> QED BY <1>1, <1>2, <1>3, <1>4 DEF IInv

\* One iteration of either loop.
LEMMA WalkIInv ==
  ASSUME IInv, InLoop, Walk(Least(P, len_left)),
         UNCHANGED <<configVars, status, outcome, runs>>
  PROVE  IInv'
<1> USE PAssumption, PagesAssumption
<1> DEFINE want == Least(P, len_left)
<1>1. /\ want \in 1 .. len_left /\ want <= P
      /\ want < P => want = len_left
  BY PieceFits DEF IInv, TypeOK, InLoop, Least
<1>2. UNCHANGED <<buffer, mode, npages, len, handles, status, outcome, runs>>
  BY DEF configVars
<1>3. /\ Configured /\ Configured' /\ Standing /\ outcome = "none"
      /\ \A a \in accesses : InPlace(a)
      /\ status = "EXECUTING" /\ len_left > 0
  BY <1>2 DEF IInv, InLoop, Configured, IsPageCount
<1>4. /\ len \in Nat /\ len_left \in Nat /\ hnd_pos \in Nat /\ npages \in Nat
      /\ P \in Nat /\ buffer.ofs \in 1 .. P - 1 /\ hnd_pos < npages
      /\ addr = [frame |-> buffer.frames[hnd_pos], ofs |-> buffer.ofs]
      /\ addr \in Address
      /\ len = hnd_pos * P + len_left /\ hnd_pos * P \in Nat
  BY <1>3 DEF IInv, TypeOK, Configured, Standing
<1>5. LenHave = P - buffer.ofs /\ Done = hnd_pos * P
  BY <1>4 DEF LenHave, Done
<1>6. len_left' = len_left - want /\ len_left' \in Nat /\ len_left' < len_left
  BY <1>1, <1>4 DEF Walk, LenLeft
<1>7. ASSUME NEW a, a \in accesses PROVE InPlace(a)'
  BY <1>2, <1>3, <1>7 DEF InPlace
<1>8. CASE OnOnePage(want)
  <2>1. /\ want <= P - buffer.ofs /\ hnd_pos' = hnd_pos
        /\ addr' = Plus(addr, want) /\ want = len_left /\ len_left' = 0
        /\ accesses' = accesses \cup {[byte |-> hnd_pos * P, at |-> addr, n |-> want]}
    BY <1>1, <1>4, <1>5, <1>6, <1>8 DEF OnOnePage
  <2>2. addr' \in Address
    BY <1>1, <1>4, <2>1 DEF Plus, Address
  <2>3. ASSUME NEW a, a = [byte |-> hnd_pos * P, at |-> addr, n |-> want]
        PROVE  InPlace(a)'
    <3>1. /\ hnd_pos \in 0 .. npages' - 1
          /\ addr.frame = buffer'.frames[hnd_pos]
          /\ hnd_pos * P + addr.ofs = buffer'.ofs + hnd_pos * P
          /\ hnd_pos * P + addr.ofs + want <= buffer'.ofs + buffer'.len
          /\ addr.ofs + want <= P
      BY <1>2, <1>3, <1>4, <2>1 DEF Configured
    <3> QED BY <2>3, <3>1 DEF InPlace
  <2>4. TypeOK'
    BY <1>1, <1>2, <1>4, <1>6, <2>1, <2>2 DEF IInv, TypeOK
  <2>5. Standing'
    BY <1>2, <1>3, <1>4, <2>1 DEF Standing
  <2> QED BY <1>2, <1>3, <1>7, <2>1, <2>3, <2>4, <2>5 DEF IInv
<1>9. CASE OnTwoPages(want)
  <2> DEFINE q == hnd_pos + 1
             next == handles[q]
  <2>1. /\ want > P - buffer.ofs /\ hnd_pos' = q
        /\ addr' = Plus(next, want - (P - buffer.ofs))
        /\ accesses' = accesses \cup
             {[byte |-> hnd_pos * P, at |-> addr, n |-> P - buffer.ofs],
              [byte |-> hnd_pos * P + (P - buffer.ofs), at |-> next,
               n |-> want - (P - buffer.ofs)]}
    BY <1>5, <1>9 DEF OnTwoPages, NextPos
  <2>2. q \in 1 .. npages - 1
    BY <1>5, <1>9, NextPageExists DEF OnTwoPages
  <2>3. next = [frame |-> buffer.frames[q], ofs |-> 0] /\ next \in Address
    <3>1. q \in 0 .. npages - 1 /\ q # 0 /\ q \in 0 .. MaxPages
      BY <1>3, <2>2 DEF Configured
    <3>2. next = [frame |-> buffer.frames[q], ofs |-> 0]
      BY <1>3, <3>1 DEF Configured
    <3>3. next \in Address
      BY <3>1 DEF IInv, TypeOK
    <3> QED BY <3>2, <3>3
  <2>4. addr' = [frame |-> buffer.frames[q], ofs |-> want - (P - buffer.ofs)]
    <3>1. want - (P - buffer.ofs) < P /\ want - (P - buffer.ofs) \in Nat
      BY <1>1, <1>4, <2>1
    <3>2. next.ofs + (want - (P - buffer.ofs)) < P /\ next.ofs = 0
      BY <2>3, <3>1
    <3>3. addr' = [next EXCEPT !.ofs = @ + (want - (P - buffer.ofs))]
      BY <2>1, <3>2 DEF Plus
    <3> QED BY <2>3, <3>1, <3>3
  <2>5. addr' \in Address
    BY <1>1, <1>4, <2>1, <2>3, <2>4 DEF Address
  <2>6. q * P = hnd_pos * P + P
    BY <1>4, ProductStep
  <2>7. ASSUME NEW a, a = [byte |-> hnd_pos * P, at |-> addr, n |-> P - buffer.ofs]
        PROVE  InPlace(a)'
    <3>1. /\ hnd_pos \in 0 .. npages' - 1
          /\ addr.frame = buffer'.frames[hnd_pos]
          /\ hnd_pos * P + addr.ofs = buffer'.ofs + hnd_pos * P
          /\ hnd_pos * P + addr.ofs + (P - buffer.ofs) <= buffer'.ofs + buffer'.len
          /\ addr.ofs + (P - buffer.ofs) <= P
      BY <1>1, <1>2, <1>3, <1>4, <2>1 DEF Configured
    <3> QED BY <2>7, <3>1 DEF InPlace
  <2>8. ASSUME NEW a, a = [byte |-> hnd_pos * P + (P - buffer.ofs), at |-> next,
                           n |-> want - (P - buffer.ofs)]
        PROVE  InPlace(a)'
    <3>1. /\ q \in 0 .. npages' - 1
          /\ next.frame = buffer'.frames[q]
          /\ q * P + next.ofs = buffer'.ofs + (hnd_pos * P + (P - buffer.ofs))
          /\ q * P + next.ofs + (want - (P - buffer.ofs)) <= buffer'.ofs + buffer'.len
          /\ next.ofs + (want - (P - buffer.ofs)) <= P
      BY <1>1, <1>2, <1>3, <1>4, <2>1, <2>2, <2>3, <2>6 DEF Configured
    <3> QED BY <2>8, <3>1 DEF InPlace
  <2>9. TypeOK'
    <3>1. /\ [byte |-> hnd_pos * P, at |-> addr, n |-> P - buffer.ofs]
               \in [byte : Nat, at : Address, n : Nat]
          /\ [byte |-> hnd_pos * P + (P - buffer.ofs), at |-> next,
              n |-> want - (P - buffer.ofs)] \in [byte : Nat, at : Address, n : Nat]
      BY <1>1, <1>4, <2>1, <2>3
    <3>2. accesses' \subseteq [byte : Nat, at : Address, n : Nat]
      BY <2>1, <3>1 DEF IInv, TypeOK
    <3>3. hnd_pos' \in 0 .. MaxPages
      BY <1>3, <2>1, <2>2 DEF Configured
    <3> QED BY <1>2, <1>6, <2>5, <3>2, <3>3 DEF IInv, TypeOK
  <2>10. Standing'
    <3>1. ASSUME len_left' > 0 PROVE want = P
      BY <1>1, <1>6, <3>1
    <3>2. ASSUME len_left' > 0
          PROVE  /\ addr' = [frame |-> buffer'.frames[hnd_pos'], ofs |-> buffer'.ofs]
                 /\ len' = hnd_pos' * P + len_left'
      BY <1>1, <1>2, <1>4, <1>6, <2>1, <2>4, <2>6, <3>1, <3>2
    <3> QED BY <1>2, <1>3, <1>4, <1>6, <2>1, <2>2, <3>2 DEF Standing
  <2> QED BY <1>2, <1>3, <1>7, <2>1, <2>7, <2>8, <2>9, <2>10 DEF IInv
<1> QED BY <1>8, <1>9 DEF Walk

\* The invariant is inductive.
LEMMA NextIInv ==
  ASSUME 0 \notin Offsets, IInv, [Next]_vars
  PROVE  IInv'
<1>1. ASSUME NEW m \in {"ACTIVE", "PASSIVE"}, NEW ofs \in Offsets, NEW l \in Lens,
             NEW f \in [0 .. MaxPages - 1 -> Frames], Program(m, ofs, l, f)
      PROVE  IInv'
  BY <1>1, ProgramIInv
<1>2. CASE BeginRun
  BY <1>2, BeginRunIInv
<1>3. CASE RxPage
  BY <1>3, WalkIInv DEF RxPage
<1>4. CASE TxPage
  BY <1>4, WalkIInv DEF TxPage
<1>5. CASE EndRun
  BY <1>5 DEF EndRun, IInv, TypeOK, configVars, currentVars
<1>6. CASE FailRun
  BY <1>6 DEF FailRun, InLoop, IInv, TypeOK, configVars, currentVars
<1>7. CASE UNCHANGED vars
  BY <1>7 DEF vars, configVars, currentVars, IInv, TypeOK, Configured, Standing,
              InPlace, IsPageCount
<1> QED BY <1>1, <1>2, <1>3, <1>4, <1>5, <1>6, <1>7 DEF Next

\* The inductive invariant holds in every reachable state.
THEOREM DmaInvariant == ASSUME 0 \notin Offsets PROVE Spec => []IInv
<1>1. Init => IInv
  BY InitIInv
<1>2. IInv /\ [Next]_vars => IInv'
  BY NextIInv
<1> QED BY <1>1, <1>2, PTL DEF Spec

\* Every DMA access of every run is to the caller's buffer, at the place of
\* the bytes it moves.
THEOREM DmaAccessesInPlace == ASSUME 0 \notin Offsets PROVE Spec => []AccessesInPlace
<1>1. IInv => AccessesInPlace
  BY DEF IInv, AccessesInPlace
<1> QED BY <1>1, DmaInvariant, PTL

\* No run uses a handle that does not belong to its operation.
THEOREM DmaHandleInRange == ASSUME 0 \notin Offsets PROVE Spec => []HandleInRange
<1>1. IInv => HandleInRange
  BY DEF IInv, HandleInRange, Standing
<1> QED BY <1>1, DmaInvariant, PTL

\* The lookup of the second page of a piece never fails.
THEOREM DmaLookupSucceeds == ASSUME 0 \notin Offsets PROVE Spec => []LookupSucceeds
<1>1. ASSUME IInv PROVE LookupSucceeds
  <2> SUFFICES ASSUME InLoop, Least(P, len_left) > LenHave
               PROVE  hnd_pos + 1 < npages /\ handles[hnd_pos + 1] # Null
    BY DEF LookupSucceeds
  <2>1. PICK q \in 1 .. npages - 1 : q = hnd_pos + 1
    BY <1>1, NextPageExists
  <2>2. npages \in Nat /\ Configured
    BY <1>1 DEF IInv, InLoop, TypeOK
  <2>3. handles[q].frame = buffer.frames[q] /\ buffer.frames[q] # 0
    <3>1. q \in 0 .. npages - 1 /\ q # 0
      BY <2>2
    <3>2. /\ handles[q] = [frame |-> buffer.frames[q], ofs |-> 0]
          /\ buffer.frames[q] # 0
      BY <2>2, <3>1 DEF Configured
    <3> QED BY <3>2
  <2>4. handles[q] # Null
    BY <2>3 DEF Null
  <2> QED BY <2>1, <2>2, <2>4
<1> QED BY <1>1, DmaInvariant, PTL
=============================================================================
