------------------------ MODULE PsipeLifecycleProofs ------------------------
(***************************************************************************)
(* Proofs about PsipeLifecycle, for every number of operations a program   *)
(* may have in the queue.                                                  *)
(*                                                                         *)
(* Two things make the properties inductive.  What the driver holds is     *)
(* determined by where the PCI core is: in probe by the step, in the error *)
(* ladder and in remove by the statements that are left (HoldsInv).  And,  *)
(* as long as the program behaves, the one run the device may be asked for *)
(* is in at most one place at a time: about to be started, running,        *)
(* signalled, or being retired by the handler (TokenInv); a start that is  *)
(* refused leaves it in none.                                              *)
(***************************************************************************)
EXTENDS PsipeLifecycle, TLAPS

-----------------------------------------------------------------------------
(* The inductive invariant.                                                 *)

\* The place of a step in probe, and what the steps before place i acquire.
Place(s) == CHOOSE i \in DOMAIN Steps : Steps[i] = s
Acquired(i) == {Steps[j] : j \in 1..(i - 1)} \cap Resources

\* Statement i of the error ladder or of remove and those after it.
Rest(order, i) == {order[j] : j \in i..9}

\* The vectors that an earlier remove did not free.
Leftover == IF "removed" \in past THEN {"vectors"} ELSE {}

\* What is held while the statements i to 9 of order are still to come.
HeldFor(order, i) ==
  /\ Rest(order, i) \subseteq held
  /\ held \subseteq Rest(order, i) \cup Leftover
                    \cup (IF "enable" \in Rest(order, i) THEN {"master"} ELSE {})

\* The statements that are left of order are its last ones.
Left(order, i) == i \in 1..9 /\ todo = SubSeq(order, i, 9) /\ HeldFor(order, i)

HoldsInv ==
  crash = "none" =>
    /\ pc = "idle" => (bound /\ held = Resources /\ ptrs) \/ held \subseteq Leftover
    /\ pc \in ToSet(Steps) =>
         /\ Acquired(Place(pc)) \subseteq held
         /\ held \subseteq Acquired(Place(pc)) \cup Leftover
    /\ pc = "undo" => \E i \in 1..9 : Left(Ladder, i)
    /\ pc = "remove" => \E i \in 1..9 : Left(RemoveOrder, i)
    /\ pc = "remove" => "removed" \in past
    /\ pc \notin {"idle", "remove"} => ~bound

\* pci_get_drvdata finds a device only while there is one: psipe_probe sets it
\* after the step "mmio", and the PCI core clears it when probe reports a failure.
DrvdataInv ==
  crash = "none" /\ drvdata =>
    /\ pc = "idle" => bound /\ held = Resources /\ ptrs
    /\ pc \in ToSet(Steps) => Place(pc) > 7
    /\ pc = "undo" => err

Misused == past \cap {"early", "unbound"} # {}
Careless == Misused \/ "undrained" \in past

\* A well-behaved program has the file open only while the driver is bound.
FileInv ==
  /\ stale => Misused
  /\ crash = "none" /\ file # "closed" =>
       Misused \/ (pc = "idle" /\ bound /\ held = Resources /\ ptrs)

\* The run that the device may be asked for is in at most one place at a time.
TokenInv ==
  ~Careless =>
    /\ active > 0 => file # "closed"
    /\ file = "start" \/ running \/ vec \/ pin \/ hpc = "next" => active > 0
    /\ file = "start" => ~running /\ ~vec /\ ~pin /\ hpc # "next"
    /\ running => ~vec /\ ~pin /\ hpc # "next"
    /\ vec \/ pin => hpc # "next"
    /\ (vec => msi) /\ (pin => ~msi)
    /\ pend => vec /\ hpc = "idle"
    /\ hpc = "check" => (foreign /\ ~msi) \/ vec \/ pin
    /\ hpc = "ack" => vec \/ pin

IInv == TypeOK /\ todo \in Seq(Resources) /\ HoldsInv /\ DrvdataInv
        /\ HandlerHasDevice /\ FileInv /\ TokenInv /\ OnlyMisuseCrashes

-----------------------------------------------------------------------------
(* The steps of probe and the statements of the ladder and of remove.       *)

\* What there is to be held.
LEMMA TheResources ==
  Resources = {"alloc", "enable", "master", "regions", "mmio", "chrdev", "cdev",
               "node", "vectors", "irq"}
BY DEF Resources, Steps, ToSet

\* The steps of probe, one by one.
LEMMA TheSteps ==
  /\ ToSet(Steps) = {Steps[i] : i \in 1..13}
  /\ ToSet(Steps) = Resources \cup {"mask", "select", "pointers"}
BY TheResources DEF Steps, ToSet

\* No step is done twice, so the place of a step is the one it is found at.
LEMMA PlaceOfStep ==
  ASSUME NEW i \in 1..13
  PROVE  Place(Steps[i]) = i
<1>1. \A j \in 1..13 : Steps[j] = Steps[i] => j = i
  BY DEF Steps
<1>2. DOMAIN Steps = 1..13
  BY DEF Steps
<1> QED BY <1>1, <1>2 DEF Place

\* A step is found at its place.
LEMMA StepAtPlace ==
  ASSUME NEW s \in ToSet(Steps)
  PROVE  Place(s) \in 1..13 /\ Steps[Place(s)] = s
<1>1. PICK i \in 1..13 : s = Steps[i]
  BY TheSteps
<1> QED BY <1>1, PlaceOfStep

\* NextStep is the step at the next place.
LEMMA NextPlace ==
  ASSUME NEW s \in ToSet(Steps), s # "pointers"
  PROVE  /\ NextStep(s) \in ToSet(Steps)
         /\ Place(NextStep(s)) = Place(s) + 1
         /\ Acquired(Place(s) + 1) = Acquired(Place(s)) \cup ({s} \cap Resources)
<1>1. Place(s) \in 1..13 /\ Steps[Place(s)] = s
  BY StepAtPlace
<1>2. Place(s) # 13
  BY <1>1 DEF Steps
<1>3. NextStep(s) = Steps[Place(s) + 1] /\ Place(s) + 1 \in 1..13
  <2>1. NextStep(s) = Steps[1 + Place(s)]
    BY Zenon DEF NextStep, Place
  <2> QED BY <1>1, <1>2, <2>1
<1>4. 1..Place(s) = 1..(Place(s) - 1) \cup {Place(s)}
  BY <1>1
<1>5. Acquired(Place(s) + 1) = {Steps[j] : j \in 1..Place(s)} \cap Resources
  BY <1>1 DEF Acquired
<1>6. {Steps[j] : j \in 1..Place(s)} = {Steps[j] : j \in 1..(Place(s) - 1)} \cup {s}
  BY <1>1, <1>4
<1> QED BY <1>3, <1>5, <1>6, PlaceOfStep, TheSteps DEF Acquired

\* Probe begins with nothing acquired and ends with everything.
LEMMA FirstAndLast ==
  /\ "alloc" \in ToSet(Steps) /\ "pointers" \in ToSet(Steps)
  /\ Acquired(Place("alloc")) = {}
  /\ Acquired(Place("pointers")) = Resources
<1>1. Place("alloc") = 1 /\ Place("pointers") = 13
  BY PlaceOfStep, Steps[1] = "alloc", Steps[13] = "pointers" DEF Steps
<1>2. Acquired(1) = {}
  BY DEF Acquired
<1>3. Acquired(13) = Resources
  BY TheResources DEF Acquired, Steps
<1> QED BY <1>1, <1>2, <1>3, TheSteps, TheResources

\* What holds of the ladder and of remove alike: nine statements, each once,
\* that release resources.
IsOrder(order) ==
  /\ order \in Seq(Resources) /\ Len(order) = 9
  /\ \A i \in 1..9 : order[i] \in Resources
  /\ \A i, j \in 1..9 : order[i] = order[j] => i = j
  /\ \A i \in 1..9 : order[i] = "enable" => "master" \notin Rest(order, i)
  /\ order[9] = "alloc"

\* The error ladder and psipe_remove name each statement once.
LEMMA TheOrders == IsOrder(Ladder) /\ IsOrder(RemoveOrder)
BY TheResources DEF IsOrder, Ladder, RemoveOrder, Rest

\* The elements of a sequence.
LEMMA SeqToSet ==
  ASSUME NEW t \in Seq(Resources)
  PROVE  ToSet(t) \subseteq Resources
BY DEF ToSet

\* One statement is done: the rest begins one later.
LEMMA StatementDone ==
  ASSUME NEW order, IsOrder(order), NEW i \in 1..9
  PROVE  LET t == SubSeq(order, i, 9) IN
         /\ Head(t) = order[i] /\ Len(t) = 10 - i
         /\ t \in Seq(Resources)
         /\ i < 9 => Tail(t) = SubSeq(order, i + 1, 9)
         /\ Tail(t) \in Seq(Resources)
         /\ order[i] \in Rest(order, i)
         /\ Rest(order, i + 1) = Rest(order, i) \ {order[i]}
<1> DEFINE t == SubSeq(order, i, 9)
<1>1. t \in Seq(Resources) /\ Len(t) = 10 - i
  <2>1. \A j \in i..9 : order[j] \in Resources
    BY DEF IsOrder
  <2> QED BY <2>1 DEF IsOrder
<1> USE DEF IsOrder
<1>2. \A j \in 1..Len(t) : t[j] = order[i + j - 1]
  OBVIOUS
<1>3. Head(t) = order[i]
  BY <1>1, <1>2
<1>5. i < 9 => Tail(t) = SubSeq(order, i + 1, 9)
  BY <1>1, <1>2
<1>6. i..9 = {i} \cup (i + 1)..9
  OBVIOUS
<1>7. order[i] \in Rest(order, i) /\ Rest(order, i + 1) = Rest(order, i) \ {order[i]}
  BY <1>6 DEF Rest
<1>8. Tail(t) \in Seq(Resources)
  <2> HIDE DEF t
  <2>1. t # <<>>
    BY <1>1
  <2> QED BY <1>1, <2>1
<1> QED BY <1>1, <1>3, <1>5, <1>7, <1>8

\* The ladder entered where step s jumps to undoes what the steps before s did;
\* bus mastering is undone by pci_disable_device.
LEMMA LadderUndoes ==
  ASSUME NEW s \in ToSet(Steps) \ {"alloc", "master", "pointers"}
  PROVE  \E i \in 1..9 :
           /\ From(Entry(s)) = SubSeq(Ladder, i, 9)
           /\ SubSeq(Ladder, i, 9) \in Seq(Resources)
           /\ Rest(Ladder, i) \subseteq Acquired(Place(s))
           /\ Acquired(Place(s)) \subseteq
                Rest(Ladder, i) \cup (IF "enable" \in Rest(Ladder, i) THEN {"master"} ELSE {})
<1>1. ASSUME NEW i \in 1..9 PROVE From(Ladder[i]) = SubSeq(Ladder, i, 9)
  <2>1. \A j \in DOMAIN Ladder : Ladder[j] = Ladder[i] => j = i
    BY DEF Ladder
  <2>2. i \in DOMAIN Ladder /\ Len(Ladder) = 9
    BY DEF Ladder
  <2>3. (CHOOSE j \in DOMAIN Ladder : Ladder[j] = Ladder[i]) = i
    BY <2>1, <2>2
  <2> QED BY <2>2, <2>3 DEF From
<1>2. PICK k \in 1..13 : s = Steps[k] /\ Place(s) = k
  BY TheSteps, PlaceOfStep
<1>3. k \in {2, 4, 5, 6, 7, 8, 9, 10, 11, 12}
  BY <1>2 DEF Steps
<1> DEFINE at == CASE k = 2 -> 9 [] k = 4 -> 8 [] k = 5 -> 7 [] k = 6 -> 7 [] k = 7 -> 6
                   [] k = 8 -> 5 [] k = 9 -> 4 [] k = 10 -> 3 [] k = 11 -> 2 [] k = 12 -> 1
<1>4. at \in 1..9 /\ Entry(s) = Ladder[at]
  <2>1. at \in 1..9
    BY <1>3
  <2>2. \/ (s = "enable" /\ at = 9) \/ (s = "mask" /\ at = 8)
        \/ (s = "select" /\ at = 7) \/ (s = "regions" /\ at = 7)
        \/ (s = "mmio" /\ at = 6) \/ (s = "chrdev" /\ at = 5)
        \/ (s = "cdev" /\ at = 4) \/ (s = "node" /\ at = 3)
        \/ (s = "vectors" /\ at = 2) \/ (s = "irq" /\ at = 1)
    BY <1>2, <1>3 DEF Steps
  <2>3. /\ Goto["enable"] = "alloc" /\ Goto["mask"] = "enable"
        /\ Goto["select"] = "master" /\ Goto["regions"] = "master"
        /\ Goto["mmio"] = "regions" /\ Goto["chrdev"] = "mmio"
        /\ Goto["cdev"] = "chrdev" /\ Goto["node"] = "cdev"
        /\ Goto["vectors"] = "node" /\ Goto["irq"] = "vectors"
    BY DEF Goto
  <2>4. /\ Ladder[1] = "vectors" /\ Ladder[2] = "node" /\ Ladder[3] = "cdev"
        /\ Ladder[4] = "chrdev" /\ Ladder[5] = "mmio" /\ Ladder[6] = "regions"
        /\ Ladder[7] = "master" /\ Ladder[8] = "enable" /\ Ladder[9] = "alloc"
    BY DEF Ladder
  <2> HIDE DEF at
  <2>5. Goto[s] = Ladder[at]
    BY <2>2, <2>3, <2>4
  <2> QED BY <2>1, <2>5 DEF Entry
<1>5. Rest(Ladder, at) \subseteq Acquired(k)
  BY <1>3, TheResources DEF Rest, Ladder, Acquired, Steps
<1>6. Acquired(k) \subseteq
                Rest(Ladder, at) \cup (IF "enable" \in Rest(Ladder, at) THEN {"master"} ELSE {})
  BY <1>3, TheResources DEF Rest, Ladder, Acquired, Steps
<1>7. SubSeq(Ladder, at, 9) \in Seq(Resources)
  <2> HIDE DEF at
  <2> QED BY <1>4, TheOrders, StatementDone
<1> HIDE DEF at
<1> QED BY <1>1, <1>2, <1>4, <1>5, <1>6, <1>7

-----------------------------------------------------------------------------
(* Every step keeps the invariant.                                          *)

\* Nothing is held before the module is loaded.
LEMMA InitIInv == Init => IInv
<1> SUFFICES ASSUME Init PROVE IInv
  OBVIOUS
<1> USE DEF Init
<1>1. TypeOK
  <2>1. ToSet(<<>>) = {}
    BY DEF ToSet
  <2>2. active \in 0..MaxOps
    BY MaxOpsAssumption
  <2>3. ToSet(todo) \subseteq Resources /\ held \subseteq Resources
    BY <2>1
  <2> QED BY <2>2, <2>3 DEF TypeOK
<1>2. todo \in Seq(Resources)
  OBVIOUS
<1>3. HoldsInv
  BY TheSteps, TheResources DEF HoldsInv
<1>4. HandlerHasDevice /\ FileInv /\ TokenInv /\ OnlyMisuseCrashes /\ DrvdataInv
  BY DEF DrvdataInv, HandlerHasDevice, FileInv, TokenInv, OnlyMisuseCrashes
<1> QED BY <1>1, <1>2, <1>3, <1>4 DEF IInv

\* Every step keeps the types.
LEMMA TypeStep ==
  ASSUME IInv, Next
  PROVE  TypeOK' /\ todo' \in Seq(Resources)
<1> USE MaxOpsAssumption DEF IInv, TypeOK, module, driver, user, device, irqs, ends, Crash
<1>1. CASE BeginProbe
  BY <1>1, FirstAndLast DEF BeginProbe
<1>2. CASE ProbeStep
  <2>1. pc' \in ToSet(Steps)
    BY <1>2, NextPlace DEF ProbeStep
  <2>2. held' \subseteq Resources /\ active' \in 0..MaxOps
    BY <1>2 DEF ProbeStep
  <2>3. drvdata' \in BOOLEAN /\ ptrs' \in BOOLEAN /\ msi' \in BOOLEAN
    BY <1>2 DEF ProbeStep
  <2> QED BY <1>2, <2>1, <2>2, <2>3 DEF ProbeStep
<1>3. CASE ProbeDone
  BY <1>3 DEF ProbeDone
<1>4. CASE ProbeNoMem
  BY <1>4 DEF ProbeNoMem
<1>5. CASE ProbeFail
  <2>1. todo' \in Seq(Resources)
    BY <1>5, LadderUndoes DEF ProbeFail
  <2>2. err' \in BOOLEAN
    BY <1>5 DEF ProbeFail
  <2> QED BY <1>5, <2>1, <2>2, SeqToSet DEF ProbeFail
<1>6. CASE Unbind
  BY <1>6, TheOrders, SeqToSet DEF Unbind, IsOrder
<1>7. CASE Rmmod
  BY <1>7, TheOrders, SeqToSet DEF Rmmod, IsOrder
<1>8. CASE Release
  BY <1>8, TheOrders, StatementDone, SeqToSet DEF Release, HoldsInv, Left
<1>9. CASE Open
  BY <1>9 DEF Open
<1>10. CASE Submit
  <2>1. active' \in 0..MaxOps
    BY <1>10 DEF Submit
  <2> QED BY <1>10, <2>1 DEF Submit
<1>11. CASE Close
  BY <1>11 DEF Close
<1>12. CASE Doorbell
  <2>1. running' \in BOOLEAN /\ stuck' \in BOOLEAN
    BY <1>12 DEF Doorbell, IoctlFn
  <2>2. file' \in {"closed", "open", "start", "busy"}
    BY <1>12 DEF Doorbell
  <2> QED BY <1>12, <2>1, <2>2 DEF Doorbell
<1>13. CASE RunEnd
  <2>1. vec' \in BOOLEAN /\ pin' \in BOOLEAN /\ pend' \in BOOLEAN
    BY <1>13 DEF RunEnd
  <2> QED BY <1>13, <2>1 DEF RunEnd
<1>14. CASE Interrupt
  BY <1>14 DEF Interrupt
<1>15. CASE SharedInterrupt
  BY <1>15 DEF SharedInterrupt
<1>16. CASE HandlerCheck
  BY <1>16 DEF HandlerCheck
<1>17. CASE HandlerAck
  <2>1. vec' \in BOOLEAN /\ pin' \in BOOLEAN
    BY <1>17 DEF HandlerAck
  <2> QED BY <1>17, <2>1 DEF HandlerAck
<1>18. CASE HandlerNext
  <2>1. active' \in 0..MaxOps
    BY <1>18 DEF HandlerNext, Retired
  <2>2. running' \in BOOLEAN /\ stuck' \in BOOLEAN
    BY <1>18 DEF HandlerNext, IoctlFn
  <2> QED BY <1>18, <2>1, <2>2 DEF HandlerNext
<1> QED BY <1>1, <1>2, <1>3, <1>4, <1>5, <1>6, <1>7, <1>8, <1>9, <1>10, <1>11, <1>12,
           <1>13, <1>14, <1>15, <1>16, <1>17, <1>18 DEF Next, Core, Probe, Program, Handler

\* Steps beside the PCI core: what is held and what is left to do stay.
LEMMA HoldsKept ==
  ASSUME HoldsInv, UNCHANGED <<pc, todo, held, bound, ptrs>>,
         past \subseteq past', crash' = "none" => crash = "none"
  PROVE  HoldsInv'
<1> SUFFICES ASSUME crash' = "none", crash = "none" PROVE HoldsInv'
  BY DEF HoldsInv
<1>1. Leftover \subseteq Leftover'
  BY DEF Leftover
<1>2. ASSUME NEW order, NEW i \in 1..9, Left(order, i) PROVE Left(order, i)'
  BY <1>1, <1>2 DEF Left, HeldFor, Rest
<1>3. pc = "undo" => \E i \in 1..9 : Left(Ladder, i)'
  BY <1>2 DEF HoldsInv
<1>4. pc = "remove" => \E i \in 1..9 : Left(RemoveOrder, i)'
  BY <1>2 DEF HoldsInv
<1> QED BY <1>1, <1>3, <1>4 DEF HoldsInv, Acquired, Place

\* One statement of the ladder or of remove, with statements left after it.
LEMMA LeftNext ==
  ASSUME NEW order, IsOrder(order), NEW i \in 1..9, Left(order, i), i < 9,
         todo' = Tail(todo), held' = held \ Releases(Head(todo)), past' = past
  PROVE  Left(order, i + 1)'
<1>1. /\ Head(todo) = order[i] /\ todo' = SubSeq(order, i + 1, 9)
      /\ Rest(order, i + 1) = Rest(order, i) \ {order[i]}
  BY StatementDone DEF Left
<1>2. "master" \in Releases(order[i]) => "master" \notin Rest(order, i + 1)
  BY <1>1 DEF Releases, IsOrder
<1>3. HeldFor(order, i + 1)'
  BY <1>1, <1>2 DEF Left, HeldFor, Rest, Releases, Leftover
<1> QED BY <1>1, <1>3 DEF Left

\* The last statement frees the structure; nothing but vectors may remain.
LEMMA LeftLast ==
  ASSUME NEW order, IsOrder(order), Left(order, 9),
         held' = held \ Releases(Head(todo))
  PROVE  held' \subseteq Leftover
<1>1. Head(todo) = "alloc"
  BY StatementDone, 9 \in 1..9 DEF Left, IsOrder
<1>2. Rest(order, 9) = {"alloc"}
  BY DEF Rest, IsOrder
<1> QED BY <1>1, <1>2 DEF Left, HeldFor, Releases

\* The statements of remove name what a bound driver holds, and the vectors are
\* accounted for once remove has begun.
LEMMA RemoveBegins ==
  ASSUME held = Resources, held' = held, todo' = RemoveOrder, "removed" \in past'
  PROVE  Left(RemoveOrder, 1)'
<1>1. RemoveOrder = SubSeq(RemoveOrder, 1, 9)
  BY DEF RemoveOrder
<1>2. Rest(RemoveOrder, 1) = Resources \ {"vectors"}
  BY TheResources DEF Rest, RemoveOrder
<1>3. HeldFor(RemoveOrder, 1)'
  BY <1>2, TheResources DEF HeldFor, Leftover
<1> QED BY <1>1, <1>3 DEF Left

\* Every step keeps what is held in line with where the PCI core is.
LEMMA HoldsStep ==
  ASSUME IInv, Next
  PROVE  HoldsInv'
<1> USE DEF module, driver, user, device, irqs, ends, Crash
<1>0. /\ TypeOK /\ HoldsInv /\ DrvdataInv
      /\ \A s \in ToSet(Steps) : s \notin {"idle", "undo", "remove"}
  BY TheSteps, TheResources DEF IInv
<1>1. CASE BeginProbe
  <2>1. held \subseteq Leftover /\ Leftover' = Leftover /\ pc' = "alloc" /\ held' = held
    BY <1>0, <1>1 DEF BeginProbe, HoldsInv, Leftover
  <2>2. bound' = bound /\ ~bound
    BY <1>1 DEF BeginProbe
  <2> QED BY <1>0, <2>1, <2>2, FirstAndLast DEF HoldsInv
<1>2. CASE ProbeStep
  <2>1. /\ pc \in ToSet(Steps) /\ pc # "pointers" /\ crash = "none" /\ pc' = NextStep(pc)
        /\ held' = held \cup ({pc} \cap Resources) /\ past' = past
    BY <1>2 DEF ProbeStep
  <2>2. /\ Acquired(Place(pc)) \subseteq held
        /\ held \subseteq Acquired(Place(pc)) \cup Leftover
    BY <1>0, <2>1 DEF HoldsInv
  <2>3. /\ pc' \in ToSet(Steps)
        /\ Acquired(Place(pc')) = Acquired(Place(pc)) \cup ({pc} \cap Resources)
    BY <2>1, NextPlace
  <2>4. /\ Acquired(Place(pc')) \subseteq held'
        /\ held' \subseteq Acquired(Place(pc')) \cup Leftover'
    BY <2>1, <2>2, <2>3 DEF Leftover
  <2>5. ~bound /\ bound' = bound
    BY <1>0, <1>2 DEF ProbeStep, HoldsInv
  <2> QED BY <1>0, <2>3, <2>4, <2>5 DEF HoldsInv
<1>3. CASE ProbeDone
  <2>1. /\ Acquired(Place("pointers")) \subseteq held /\ held' = held
        /\ pc' = "idle" /\ bound' /\ ptrs'
    BY <1>0, <1>3, FirstAndLast DEF ProbeDone, HoldsInv
  <2>2. held' = Resources
    BY <1>0, <2>1, FirstAndLast DEF TypeOK
  <2> QED BY <1>0, <2>1, <2>2 DEF HoldsInv
<1>4. CASE ProbeNoMem
  <2>1. held \subseteq Leftover /\ Leftover' = Leftover /\ pc' = "idle" /\ held' = held
    BY <1>0, <1>4, FirstAndLast DEF ProbeNoMem, HoldsInv, Leftover
  <2> QED BY <1>0, <2>1 DEF HoldsInv
<1>5. CASE ProbeFail
  <2>1. /\ Acquired(Place(pc)) \subseteq held
        /\ held \subseteq Acquired(Place(pc)) \cup Leftover
        /\ pc \in ToSet(Steps) \ {"alloc", "master", "pointers"}
        /\ held' = held /\ past' = past /\ pc' = "undo" /\ todo' = From(Entry(pc))
    BY <1>0, <1>5 DEF ProbeFail, HoldsInv
  <2>2. PICK i \in 1..9 :
           /\ From(Entry(pc)) = SubSeq(Ladder, i, 9)
           /\ Rest(Ladder, i) \subseteq Acquired(Place(pc))
           /\ Acquired(Place(pc)) \subseteq
                Rest(Ladder, i) \cup (IF "enable" \in Rest(Ladder, i) THEN {"master"} ELSE {})
    BY <2>1, LadderUndoes
  <2>3. HeldFor(Ladder, i)'
    BY <2>1, <2>2 DEF HeldFor, Leftover
  <2>4. Left(Ladder, i)'
    BY <2>1, <2>2, <2>3 DEF Left
  <2>5. ~bound /\ bound' = bound
    BY <1>0, <1>5 DEF ProbeFail, HoldsInv
  <2> QED BY <1>0, <2>1, <2>4, <2>5 DEF HoldsInv
<1>6. CASE Unbind
  <2>1. CASE drvdata
    <3>1. held = Resources /\ held' = held /\ todo' = RemoveOrder /\ "removed" \in past'
      BY <1>0, <1>6, <2>1 DEF Unbind, DrvdataInv
    <3> QED BY <1>0, <1>6, <3>1, RemoveBegins DEF Unbind, HoldsInv
  <2>2. CASE ~drvdata
    BY <1>6, <2>2 DEF Unbind, HoldsInv
  <2> QED BY <2>1, <2>2
<1>7. CASE Rmmod
  <2>1. CASE bound /\ drvdata
    <3>1. held = Resources /\ held' = held /\ todo' = RemoveOrder /\ "removed" \in past'
      BY <1>0, <1>7, <2>1 DEF Rmmod, DrvdataInv
    <3> QED BY <1>0, <1>7, <2>1, <3>1, RemoveBegins DEF Rmmod, HoldsInv
  <2>2. CASE bound /\ ~drvdata
    BY <1>7, <2>2 DEF Rmmod, HoldsInv
  <2>3. CASE ~bound
    BY <1>0, <1>7, <2>3, HoldsKept DEF Rmmod
  <2> QED BY <2>1, <2>2, <2>3
<1>8. CASE Release
  <2>0. /\ crash = "none" /\ pc \in {"undo", "remove"} /\ past' = past
        /\ todo' = Tail(todo) /\ held' = held \ Releases(Head(todo))
        /\ pc' = IF Len(todo) = 1 THEN "idle" ELSE pc
    BY <1>8 DEF Release
  <2> DEFINE order == IF pc = "undo" THEN Ladder ELSE RemoveOrder
  <2>1. IsOrder(order)
    BY TheOrders
  <2>2. PICK i \in 1..9 : Left(order, i)
    BY <1>0, <2>0 DEF HoldsInv
  <2>3. Len(todo) = 10 - i
    BY <2>1, <2>2, StatementDone DEF Left
  <2>4. CASE i = 9
    <3>1. held' \subseteq Leftover /\ Leftover' = Leftover /\ pc' = "idle"
      BY <2>0, <2>1, <2>2, <2>3, <2>4, LeftLast DEF Leftover
    <3> QED BY <1>0, <3>1 DEF HoldsInv
  <2>5. CASE i < 9
    <3>1. Left(order, i + 1)' /\ pc' = pc /\ i + 1 \in 1..9
      BY <2>0, <2>1, <2>2, <2>3, <2>5, LeftNext
    <3>2. pc = "remove" => "removed" \in past'
      BY <1>0, <2>0 DEF HoldsInv
    <3>3. \/ pc' = "undo" /\ \E j \in 1..9 : Left(Ladder, j)'
          \/ pc' = "remove" /\ \E j \in 1..9 : Left(RemoveOrder, j)'
      BY <2>0, <3>1
    <3>4. pc = "undo" => ~bound'
      BY <1>0, <1>8, <2>0, <2>3, <2>5 DEF Release, HoldsInv
    <3> QED BY <1>0, <2>0, <3>1, <3>2, <3>3, <3>4 DEF HoldsInv
  <2> QED BY <2>4, <2>5
<1>9. CASE Program \/ Doorbell \/ RunEnd \/ Interrupt \/ SharedInterrupt \/ Handler
  <2>1. /\ UNCHANGED <<pc, todo, held, bound, ptrs>>
        /\ past \subseteq past' /\ crash = "none"
    BY <1>9 DEF Program, Open, Submit, Close, Doorbell, RunEnd, Interrupt, SharedInterrupt,
                Handler, HandlerCheck, HandlerAck, HandlerNext
  <2> QED BY <1>0, <2>1, HoldsKept
<1> QED BY <1>1, <1>2, <1>3, <1>4, <1>5, <1>6, <1>7, <1>8, <1>9 DEF Next, Core, Probe

\* Every step keeps drvdata in line with where the PCI core is.
LEMMA DrvdataStep ==
  ASSUME IInv, Next
  PROVE  DrvdataInv'
<1> USE DEF module, driver, user, device, irqs, ends, Crash
<1>0. /\ TypeOK /\ HoldsInv /\ DrvdataInv
      /\ \A s \in ToSet(Steps) : s \notin {"idle", "undo", "remove"}
  BY TheSteps, TheResources DEF IInv
<1>1. CASE BeginProbe
  BY <1>0, <1>1 DEF BeginProbe, DrvdataInv
<1>2. CASE ProbeStep
  <2>1. /\ pc \in ToSet(Steps) /\ pc # "pointers" /\ crash = "none" /\ pc' = NextStep(pc)
        /\ drvdata' = (drvdata \/ pc = "mmio")
    BY <1>2 DEF ProbeStep
  <2>2. pc' \in ToSet(Steps) /\ Place(pc') = Place(pc) + 1 /\ Place(pc) \in 1..13
    BY <2>1, NextPlace, StepAtPlace
  <2>3. Place("mmio") = 7
    BY PlaceOfStep, 7 \in 1..13, Steps[7] = "mmio" DEF Steps
  <2>4. drvdata' => Place(pc') > 7
    <3>1. CASE pc = "mmio"
      BY <2>2, <2>3, <3>1
    <3>2. CASE drvdata
      BY <1>0, <2>1, <2>2, <3>2 DEF DrvdataInv
    <3> QED BY <2>1, <3>1, <3>2
  <2> QED BY <1>0, <2>2, <2>4 DEF DrvdataInv
<1>3. CASE ProbeDone
  <2>1. /\ Acquired(Place("pointers")) \subseteq held /\ held' = held
        /\ pc' = "idle" /\ bound' /\ ptrs'
    BY <1>0, <1>3, FirstAndLast DEF ProbeDone, HoldsInv
  <2>2. held' = Resources
    BY <1>0, <2>1, FirstAndLast DEF TypeOK
  <2> QED BY <1>0, <2>1, <2>2 DEF DrvdataInv
<1>4. CASE ProbeNoMem
  <2>1. Place("alloc") = 1
    BY PlaceOfStep, 1 \in 1..13, Steps[1] = "alloc" DEF Steps
  <2>2. ~drvdata
    BY <1>0, <1>4, <2>1, FirstAndLast DEF ProbeNoMem, DrvdataInv
  <2> QED BY <1>4, <2>2 DEF ProbeNoMem, DrvdataInv
<1>5. CASE ProbeFail
  <2>1. Place("select") = 5
    BY PlaceOfStep, 5 \in 1..13, Steps[5] = "select" DEF Steps
  <2>2. drvdata => pc # "select"
    BY <1>0, <1>5, <2>1 DEF ProbeFail, DrvdataInv
  <2> QED BY <1>0, <1>5, <2>2 DEF ProbeFail, DrvdataInv
<1>6. CASE Unbind \/ Rmmod
  BY <1>0, <1>6 DEF Unbind, Rmmod, DrvdataInv
<1>7. CASE Release
  BY <1>0, <1>7 DEF Release, DrvdataInv, TypeOK
<1>8. CASE Program \/ Doorbell \/ RunEnd \/ Interrupt \/ SharedInterrupt \/ Handler
  <2>1. UNCHANGED <<pc, err, drvdata, held, bound, ptrs>> /\ crash = "none"
    BY <1>8 DEF Program, Open, Submit, Close, Doorbell, RunEnd, Interrupt, SharedInterrupt,
                Handler, HandlerCheck, HandlerAck, HandlerNext
  <2> QED BY <1>0, <2>1 DEF DrvdataInv
<1> QED BY <1>1, <1>2, <1>3, <1>4, <1>5, <1>6, <1>7, <1>8 DEF Next, Core, Probe

\* The handler's device and interrupt are released only when it is not running.
LEMMA HandlerStep ==
  ASSUME IInv, Next
  PROVE  HandlerHasDevice'
<1> USE DEF module, driver, user, device, irqs, ends, Crash
<1>0. TypeOK /\ HoldsInv /\ HandlerHasDevice
  BY DEF IInv
<1>1. CASE Release
  <2>0. /\ crash = "none" /\ pc \in {"undo", "remove"} /\ hpc' = hpc
        /\ held' = held \ Releases(Head(todo)) /\ CanRelease(Head(todo))
    BY <1>1 DEF Release
  <2> DEFINE order == IF pc = "undo" THEN Ladder ELSE RemoveOrder
  <2>1. IsOrder(order)
    BY TheOrders
  <2>2. PICK i \in 1..9 : Left(order, i)
    BY <1>0, <2>0 DEF HoldsInv
  <2>3. Head(todo) = order[i]
    BY <2>1, <2>2, StatementDone DEF Left
  <2>4. Head(todo) = "irq" => hpc = "idle"
    BY <2>0 DEF CanRelease
  <2>5. Head(todo) = "alloc" => "irq" \notin held
    <3>1. Head(todo) = "alloc" => i = 9
      BY SMTT(30), <2>1, <2>3 DEF IsOrder
    <3>2. Rest(order, 9) = {"alloc"}
      BY <2>1 DEF Rest, IsOrder
    <3> QED BY <2>2, <3>1, <3>2 DEF Left, HeldFor, Leftover
  <2> QED BY <1>0, <2>0, <2>4, <2>5 DEF HandlerHasDevice, Releases
<1>2. CASE Interrupt \/ SharedInterrupt
  <2>1. crash = "none" /\ "irq" \in held /\ held' = held
    BY <1>2 DEF Interrupt, SharedInterrupt
  <2>2. "alloc" \in held
    <3>1. CASE pc = "idle"
      BY <1>0, <2>1, <3>1, TheResources DEF HoldsInv, Leftover
    <3>2. CASE pc \in ToSet(Steps)
      <4>1. Place(pc) \in 1..13 /\ "irq" \in Acquired(Place(pc))
        BY <1>0, <2>1, <3>2, StepAtPlace DEF HoldsInv, Leftover
      <4>2. Place(pc) > 1
        BY <4>1 DEF Acquired
      <4>3. Steps[1] = "alloc" /\ "alloc" \in Resources
        BY TheResources DEF Steps
      <4>4. "alloc" \in Acquired(Place(pc))
        BY <4>1, <4>2, <4>3 DEF Acquired
      <4> QED BY <1>0, <2>1, <3>2, <4>4 DEF HoldsInv
    <3>3. CASE pc \in {"undo", "remove"}
      <4> DEFINE order == IF pc = "undo" THEN Ladder ELSE RemoveOrder
      <4>1. PICK i \in 1..9 : Left(order, i)
        BY <1>0, <2>1, <3>3 DEF HoldsInv
      <4>2. order[9] = "alloc"
        BY TheOrders DEF IsOrder
      <4> QED BY <4>1, <4>2 DEF Left, HeldFor, Rest
    <3> QED BY <1>0, <3>1, <3>2, <3>3 DEF TypeOK
  <2> QED BY <2>1, <2>2 DEF HandlerHasDevice
<1>3. CASE Core \/ Probe \/ Program \/ Doorbell \/ RunEnd \/ Handler
  <2>1. (hpc' # "idle" => hpc # "idle") /\ held \subseteq held'
    BY <1>3 DEF Core, BeginProbe, Unbind, Rmmod, Probe, ProbeStep, ProbeDone, ProbeNoMem,
         ProbeFail, Program, Open, Submit, Close, Doorbell, RunEnd, Handler, HandlerCheck,
         HandlerAck, HandlerNext
  <2> QED BY <1>0, <2>1 DEF HandlerHasDevice
<1> QED BY <1>1, <1>2, <1>3 DEF Next

\* A file is open while the driver is bound, or the program was early or unbound.
LEMMA FileStep ==
  ASSUME IInv, Next
  PROVE  FileInv'
<1> USE DEF module, driver, user, device, irqs, ends, Crash
<1>0. /\ TypeOK /\ HoldsInv /\ FileInv
      /\ \A s \in ToSet(Steps) : s \notin {"idle", "undo", "remove"}
  BY TheSteps, TheResources DEF IInv
<1>1. CASE Core
  BY <1>0, <1>1 DEF Core, BeginProbe, Unbind, Rmmod, FilesClosed, FileInv, Misused
<1>2. CASE Probe
  BY <1>0, <1>2 DEF Probe, ProbeStep, ProbeDone, ProbeNoMem, ProbeFail, FileInv, Misused
<1>3. CASE Release
  BY <1>0, <1>3 DEF Release, FileInv, Misused, TypeOK
<1>4. CASE Open
  <2>1. /\ crash = "none" /\ "node" \in held /\ file' = "open" /\ stale' = FALSE
        /\ past' = past \cup (IF bound THEN {} ELSE {"early"})
                        \cup (IF pc = "remove" THEN {"unbound"} ELSE {})
        /\ UNCHANGED <<pc, bound, held, ptrs, crash>>
    BY <1>4 DEF Open
  <2>2. CASE ~bound \/ pc = "remove"
    BY <2>1, <2>2 DEF FileInv, Misused
  <2>3. CASE bound /\ pc = "idle"
    <3>1. held = Resources /\ ptrs
      BY <1>0, <2>1, <2>3 DEF HoldsInv, Leftover
    <3> QED BY <2>1, <2>3, <3>1 DEF FileInv
  <2>4. CASE bound /\ pc \notin {"idle", "remove"}
    BY <1>0, <2>1, <2>4 DEF HoldsInv
  <2> QED BY <2>2, <2>3, <2>4
<1>5. CASE Submit \/ Close \/ Doorbell \/ RunEnd
  BY <1>0, <1>5 DEF Submit, Close, Doorbell, RunEnd, FileInv, Misused
<1>6. CASE Interrupt \/ SharedInterrupt \/ Handler
  BY <1>0, <1>6 DEF Interrupt, SharedInterrupt, Handler, HandlerCheck, HandlerAck, HandlerNext,
                    FileInv, Misused
<1> QED BY <1>1, <1>2, <1>3, <1>4, <1>5, <1>6 DEF Next, Program

\* While probe or remove is under way, a program that behaves has nothing going on.
LEMMA Quiet ==
  ASSUME IInv, crash = "none", ~Careless, pc # "idle" \/ file = "closed"
  PROVE  /\ file = "closed" /\ active = 0
         /\ ~running /\ ~vec /\ ~pin /\ ~pend
         /\ hpc \in {"idle", "check"} /\ (hpc = "check" => foreign)
<1>1. file = "closed"
  BY DEF IInv, FileInv, Careless
<1>2. active = 0
  BY <1>1 DEF IInv, TypeOK, TokenInv
<1> QED BY <1>1, <1>2 DEF IInv, TypeOK, TokenInv

\* Every step moves the run from one place to the next, or leaves it.
LEMMA TokenStep ==
  ASSUME IInv, Next
  PROVE  TokenInv'
<1> USE DEF module, driver, user, device, irqs, ends, Crash
<1>1. crash = "none" /\ past \subseteq past'
  BY DEF Next, Core, BeginProbe, Unbind, Rmmod, Probe, ProbeStep, ProbeDone, ProbeNoMem, ProbeFail,
         Release, Program, Open, Submit, Close, Doorbell, RunEnd, Interrupt, SharedInterrupt,
         Handler, HandlerCheck, HandlerAck, HandlerNext
<1> SUFFICES ASSUME ~Careless' PROVE TokenInv'
  BY DEF TokenInv
<1>2. ~Careless
  BY <1>1 DEF Careless, Misused
<1>3. TypeOK /\ TokenInv
  BY DEF IInv
<1>4. active \in Nat
  BY <1>3, MaxOpsAssumption DEF TypeOK
<1>5. CASE Core \/ ProbeDone \/ ProbeNoMem \/ ProbeFail
  <2>1. UNCHANGED <<user, device, irqs>>
    BY <1>5 DEF Core, BeginProbe, Unbind, Rmmod, ProbeDone, ProbeNoMem, ProbeFail
  <2> QED BY <1>2, <1>3, <2>1 DEF TokenInv
<1>6. CASE ProbeStep \/ Release
  <2>1. pc # "idle"
    BY <1>6, TheSteps, TheResources DEF ProbeStep, Release
  <2>2. /\ file' = file /\ (active' = 0 \/ active' = active) /\ (pend' => pend)
        /\ UNCHANGED <<running, vec, pin, hpc, foreign>>
    <3>1. CASE ProbeStep
      BY <3>1 DEF ProbeStep
    <3>2. CASE Release
      BY <3>2 DEF Release
    <3> QED BY <1>6, <3>1, <3>2
  \* MSI is enabled only before there is a handler
  <2>3. hpc # "idle" => (msi' => msi)
    <3>1. CASE ProbeStep /\ pc = "vectors"
      <4>1. Place("vectors") = 11
        BY PlaceOfStep, 11 \in 1..13, Steps[11] = "vectors" DEF Steps
      <4>2. "irq" \notin Acquired(11)
        BY DEF Acquired, Steps
      <4>3. "irq" \notin held
        BY <1>1, <3>1, <4>1, <4>2, TheSteps, TheResources DEF IInv, HoldsInv, Leftover
      <4> QED BY <4>3 DEF IInv, HandlerHasDevice
    <3>2. CASE ProbeStep /\ pc # "vectors"
      BY <3>2 DEF ProbeStep
    <3>3. CASE Release
      BY <3>3 DEF Release
    <3> QED BY <1>6, <3>1, <3>2, <3>3
  <2>4. hpc = "check" => ~msi
    BY <1>1, <1>2, <1>3, <2>1, Quiet DEF TokenInv
  <2> QED BY <1>1, <1>2, <2>1, <2>2, <2>3, <2>4, Quiet DEF TokenInv
<1>7. CASE Open
  BY <1>2, <1>3, <1>7 DEF Open, TokenInv
<1>8. CASE Submit
  <2>1. CASE stale
    BY <1>2, <1>3, <1>8, <2>1 DEF Submit, TokenInv
  <2>2. CASE ~stale /\ active = 0
    BY <1>2, <1>3, <1>8, <2>2 DEF Submit, TokenInv
  <2>3. CASE ~stale /\ active # 0
    <3>1. active > 0 /\ active' > 0 /\ UNCHANGED <<file, device, irqs>>
      BY <1>4, <1>8, <2>3 DEF Submit
    <3> QED BY <1>2, <1>3, <3>1 DEF TokenInv
  <2> QED BY <2>1, <2>2, <2>3
<1>9. CASE Close
  <2>1. ~stale
    BY <1>2, <1>3 DEF IInv, FileInv, Careless
  <2>2. active = 0
    BY <1>4, <1>9, <2>1 DEF Close, Careless
  <2> QED BY <1>2, <1>3, <1>9, <2>2 DEF Close, TokenInv
<1>10. CASE Doorbell
  BY <1>2, <1>3, <1>10 DEF Doorbell, TokenInv
<1>11. CASE RunEnd
  BY <1>2, <1>3, <1>11 DEF RunEnd, TokenInv, TypeOK
<1>12. CASE Interrupt \/ SharedInterrupt
  BY <1>2, <1>3, <1>12 DEF Interrupt, SharedInterrupt, TokenInv
<1>13. CASE HandlerCheck
  BY <1>2, <1>3, <1>13 DEF HandlerCheck, IrqCheck, TokenInv
<1>14. CASE HandlerAck
  <2>1. CASE "mmio" \notin held
    BY <1>2, <1>3, <1>14, <2>1 DEF HandlerAck, TokenInv
  <2>2. CASE "mmio" \in held
    <3>1. /\ active > 0 /\ file # "closed" /\ file # "start" /\ ~running
          /\ vec \/ pin
      BY <1>2, <1>3, <1>14 DEF HandlerAck, TokenInv
    <3>2. ~vec' /\ ~pin' /\ hpc' = "next"
      BY <1>2, <1>3, <1>14, <2>2 DEF HandlerAck, TokenInv, TypeOK
    <3>3. ~pend
      BY <1>2, <1>3, <1>14 DEF HandlerAck, TokenInv
    <3> QED BY <1>2, <1>3, <1>14, <3>1, <3>2, <3>3 DEF HandlerAck, TokenInv
  <2> QED BY <2>1, <2>2
<1>15. CASE HandlerNext
  <2>1. CASE active = 1
    BY <1>2, <1>3, <1>15, <2>1 DEF HandlerNext, Retired, TokenInv
  <2>2. CASE active > 1
    <3>1. active' > 0
      BY <1>4, <1>15, <2>2 DEF HandlerNext, Retired
    <3> QED BY <1>2, <1>3, <1>4, <1>15, <2>2, <3>1 DEF HandlerNext, TokenInv
  <2>3. active > 0
    BY <1>2, <1>3, <1>15 DEF HandlerNext, TokenInv
  <2> QED BY <1>4, <2>1, <2>2, <2>3
<1> QED BY <1>5, <1>6, <1>7, <1>8, <1>9, <1>10, <1>11, <1>12, <1>13, <1>14, <1>15
        DEF Next, Probe, Program, Handler

\* A step that crashes was preceded by misuse or interrupted by another device.
LEMMA CrashStep ==
  ASSUME IInv, Next
  PROVE  OnlyMisuseCrashes'
<1> USE DEF module, driver, user, device, irqs, ends, Crash
<1>0. TypeOK /\ FileInv /\ TokenInv
  BY DEF IInv
<1>1. crash = "none"
  BY DEF Next, Core, BeginProbe, Unbind, Rmmod, Probe, ProbeStep, ProbeDone, ProbeNoMem, ProbeFail,
         Release, Program, Open, Submit, Close, Doorbell, RunEnd, Interrupt, SharedInterrupt,
         Handler, HandlerCheck, HandlerAck, HandlerNext
<1>2. CASE Core \/ Probe \/ Release \/ Open \/ RunEnd \/ Interrupt \/ SharedInterrupt
  <2>1. crash' \in {"none", "null"}
    BY <1>1, <1>2
       DEF Core, BeginProbe, Unbind, Rmmod, Probe, ProbeStep, ProbeDone, ProbeNoMem, ProbeFail,
         Release, Open, RunEnd, Interrupt, SharedInterrupt
  <2> QED BY <2>1 DEF OnlyMisuseCrashes
<1>3. CASE Submit \/ Close
  <2>1. \/ crash' = "none"
        \/ crash' = "freed" /\ stale /\ past' = past
    BY <1>1, <1>3 DEF Submit, Close
  <2> QED BY <1>0, <2>1 DEF OnlyMisuseCrashes, FileInv, Misused
<1>4. CASE Doorbell
  <2>1. \/ crash' = "none"
        \/ crash' = "freed" /\ stale /\ past' = past
        \/ crash' = "unmapped" /\ "mmio" \notin held /\ past' = past /\ file # "closed"
    BY <1>1, <1>4 DEF Doorbell
  <2>2. "mmio" \notin held /\ file # "closed" => Misused
    BY <1>0, <1>1, TheResources DEF FileInv
  <2> QED BY <1>0, <2>1, <2>2 DEF OnlyMisuseCrashes, FileInv, Misused
<1>5. CASE Handler
  <2>1. \/ crash' = "none"
        \/ /\ crash' \in {"unmapped", "wild"} /\ past' = past /\ foreign' = foreign
           /\ ("mmio" \notin held \/ ~ptrs)
           /\ (hpc \in {"check", "ack"} \/ active > 1)
    <3>1. CASE HandlerCheck
      BY <1>1, <3>1 DEF HandlerCheck
    <3>2. CASE HandlerAck
      BY <1>1, <3>2 DEF HandlerAck
    <3>3. CASE HandlerNext
      BY <1>0, <1>1, <3>3, MaxOpsAssumption DEF HandlerNext, TypeOK
    <3> QED BY <1>5, <3>1, <3>2, <3>3 DEF Handler
  <2>2. ~Careless /\ ("mmio" \notin held \/ ~ptrs) => file = "closed"
    BY <1>0, <1>1, TheResources DEF FileInv, Careless
  <2>3. ~Careless /\ file = "closed" => active = 0 /\ (hpc \in {"check", "ack"} => foreign)
    BY <1>1, Quiet
  <2>4. ("mmio" \notin held \/ ~ptrs) =>
          Careless \/ (active = 0 /\ (hpc \in {"check", "ack"} => foreign))
    BY <2>2, <2>3
  <2>5. Careless => past \cap {"early", "unbound", "undrained"} # {}
    BY DEF Careless, Misused
  <2> QED BY <1>0, <2>1, <2>4, <2>5 DEF OnlyMisuseCrashes
<1> QED BY <1>2, <1>3, <1>4, <1>5 DEF Next, Program

\* The invariant is inductive.
LEMMA NextIInv == IInv /\ [Next]_vars => IInv'
<1> SUFFICES ASSUME IInv, [Next]_vars PROVE IInv'
  OBVIOUS
<1>1. CASE Next
  BY <1>1, TypeStep, HoldsStep, DrvdataStep, HandlerStep, FileStep, TokenStep, CrashStep DEF IInv
<1>2. CASE UNCHANGED vars
  <2> USE <1>2 DEF vars, module, driver, user, device, irqs, ends
  <2>1. TypeOK' /\ (todo \in Seq(Resources))' /\ DrvdataInv' /\ HandlerHasDevice'
    BY DEF IInv, TypeOK, DrvdataInv, HandlerHasDevice
  <2>2. HoldsInv'
    BY HoldsKept DEF IInv
  <2>3. FileInv' /\ OnlyMisuseCrashes'
    BY DEF IInv, FileInv, OnlyMisuseCrashes, Misused
  <2>4. TokenInv'
    BY DEF IInv, TokenInv, Careless, Misused
  <2> QED BY <2>1, <2>2, <2>3, <2>4 DEF IInv
<1> QED BY <1>1, <1>2

-----------------------------------------------------------------------------
(* The theorems.                                                            *)

\* The invariant holds in every behaviour of the driver.
THEOREM InvariantHolds == Spec => []IInv
BY InitIInv, NextIInv, PTL DEF Spec

\* Every variable of the driver, the device and the program keeps its type,
\* whatever step of psipe_probe fails and however many operations there are.
THEOREM TypeCorrect == Spec => []TypeOK
<1>1. IInv => TypeOK
  BY DEF IInv
<1> QED BY <1>1, InvariantHolds, PTL

\* Between calls of the PCI core the driver holds all of the device or nothing
\* of it, but for the vectors psipe_remove leaves: the error ladder of
\* psipe_probe and psipe_remove undo what probe did, wherever it failed.
THEOREM HoldsAllOrNothing == Spec => []AllOrNothing
<1>1. IInv => AllOrNothing
  BY DEF IInv, HoldsInv, Leftover, AllOrNothing
<1> QED BY <1>1, InvariantHolds, PTL

\* No statement of the error ladder or of psipe_remove gives back what is not
\* held.
THEOREM ReleasesOnlyWhatItHolds == Spec => []ReleasesWhatItHolds
<1>1. IInv => ReleasesWhatItHolds
  <2> SUFFICES ASSUME IInv, pc \in {"undo", "remove"}, crash = "none"
               PROVE  Head(todo) \in held
    BY DEF ReleasesWhatItHolds
  <2> DEFINE order == IF pc = "undo" THEN Ladder ELSE RemoveOrder
  <2>1. IsOrder(order)
    BY TheOrders
  <2>2. PICK i \in 1..9 : Left(order, i)
    BY DEF IInv, HoldsInv
  <2>3. Head(todo) = order[i] /\ order[i] \in Rest(order, i)
    BY <2>1, <2>2, StatementDone DEF Left
  <2> QED BY <2>2, <2>3 DEF Left, HeldFor
<1> QED BY <1>1, InvariantHolds, PTL

\* psipe_irq_handler never runs with its device structure freed: remove frees
\* it after free_irq, which waits for the handler.
THEOREM HandlerKeepsDevice == Spec => []HandlerHasDevice
<1>1. IInv => HandlerHasDevice
  BY DEF IInv
<1> QED BY <1>1, InvariantHolds, PTL

\* A program that opens the device after probe, drains its operations and is
\* not unbound meanwhile never makes the kernel touch freed memory or unmapped
\* registers; only a shared interrupt of another device can.
THEOREM CrashesOnlyByMisuse == Spec => []OnlyMisuseCrashes
<1>1. IInv => OnlyMisuseCrashes
  BY DEF IInv
<1> QED BY <1>1, InvariantHolds, PTL

=============================================================================
