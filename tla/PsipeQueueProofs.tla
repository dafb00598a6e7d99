-------------------------- MODULE PsipeQueueProofs --------------------------
(***************************************************************************)
(* The safety of the operation queue for any number of threads and         *)
(* operations, as long as a flush finds nothing unfinished (Calls without  *)
(* "FLUSH").                                                               *)
(***************************************************************************)
EXTENDS PsipeQueue, FiniteSetTheorems, TLAPS

\* The id at the head of the active list, or the next one to be handed out.
First == next_id - Len(active)

\* The active list holds the last ids handed out, in order; everything before
\* it has been run and flagged, except the op the handler has at hand.
ListInv ==
  /\ First \in Nat
  /\ \A k \in 1 .. Len(active) : active[k] = First + k - 1
  /\ \A i \in Ids :
       /\ i >= next_id => mem[i] = "none"
       /\ i \in First .. next_id - 1 => mem[i] = "live"
       /\ i >= First => ~flag[i] /\ i \notin inactive
       /\ i < First =>
            /\ i \in ran
            /\ mem[i] # "none" /\ (mem[i] = "live" <=> i \in inactive)
            /\ flag[i] \/ (pc[Irq] = "flag" /\ cur[Irq] = i)
            /\ pc[Irq] = "flag" /\ cur[Irq] = i => ~flag[i] /\ mem[i] = "live"

\* The handler holds the lock from psipe_ops_next's first look at the list to
\* its end; a flush holds it while nothing is active.
LockInv ==
  /\ lock = Irq <=> pc[Irq] \in {"flag", "wake", "setup", "map", "ring", "running", "store"}
  /\ \A t \in Threads : lock = t <=> pc[t] \in {"flush", "drop"}
  /\ lock \in Threads => active = <<>>
  /\ pc[Irq] \in {"flag", "wake"} => cur[Irq] \in Ids /\ cur[Irq] < First

\* Exactly one of: a context starts or runs the head, its completion is on
\* the way, the handler is between two operations, or a send was refused.
DriveInv ==
  /\ \A c, d \in Drivers : c = d
  /\ \A c \in Drivers :
       /\ active # <<>> /\ cur[c] = First /\ First \notin ran
       /\ ~Completing /\ pc[Irq] \notin {"check", "ack", "flag", "wake"}
       /\ pc[c] \in {"setup", "map"} => pages[First] = "pinned"
       /\ pc[c] \in {"map", "ring", "running"} =>
            (cfg_mode = "ACTIVE" <=> cmd[First] = "SEND")
       /\ pc[c] \in {"ring", "running"} => cfg_op = First /\ pages[First] = "mapped"
  /\ Completing => active # <<>> /\ First \in ran /\ pages[First] = "mapped"
  /\ active # <<>> /\ First \in ran => Completing
  /\ \A i \in Ids : i > First \/ i >= next_id => i \notin ran
  /\ \A i \in Ids : i > First /\ i < next_id => pages[i] = "pinned"
  /\ active # <<>> /\ Drivers = {} /\ ~Completing /\ pc[Irq] \notin {"flag", "wake"}
       => StuckSend
  /\ pc[Irq] \in {"flag", "wake"} /\ active # <<>> => pages[First] = "pinned"

\* The completion interrupt is neither lost nor delivered twice.
SignalInv ==
  /\ msi => raised /\ pc[Irq] \in {"idle", "store"}
  /\ raised /\ pc[Irq] \in {"idle", "store"} => msi
  /\ pc[Irq] \in {"check", "ack"} => raised
  /\ raised => pc[Irq] \in {"idle", "store", "check", "ack"}
  /\ pc[Irq] = "store" => raised /\ cur[Irq] = First

\* The op pointers that threads hold; a sleeper whose op is flagged is the
\* next thing the handler attends to.
PointerInv ==
  \A t \in Threads :
    /\ pc[t] \in {"get", "test", "sleep", "del", "drop"} =>
         cur[t] \in Ids /\ cur[t] < next_id
    /\ pc[t] = "del" => flag[cur[t]]
    /\ pc[t] = "sleep" /\ flag[cur[t]] => pc[Irq] = "wake" /\ cur[Irq] = cur[t]

IInv == TypeOK /\ ListInv /\ LockInv /\ DriveInv /\ SignalInv /\ PointerInv
        /\ WaitersCounted

LEMMA Basics ==
  /\ Irq \in Contexts /\ \A t \in Threads : t \in Contexts /\ t # Irq /\ t # None
  /\ Irq # None
  /\ \A i \in Ids : i # None /\ i \in Nat /\ i < MaxOps
  /\ MaxOps \in Nat
  BY ThreadsAssumption, NoneAssumption, MaxOpsAssumption DEF Contexts, Ids

\* The head of a non-empty active list.
LEMMA HeadIsFirst ==
  ASSUME TypeOK, ListInv, active # <<>>
  PROVE  /\ Head(active) = First /\ First \in Ids /\ First < next_id
         /\ Len(active) \in Nat \ {0}
<1>1. Len(active) \in Nat \ {0} /\ Head(active) = active[1] /\ next_id \in Nat
  BY DEF TypeOK
<1>2. active[1] = First
  BY <1>1 DEF ListInv, First
<1>3. active[1] \in Ids
  BY <1>1 DEF TypeOK
<1> QED BY <1>1, <1>2, <1>3 DEF First

\* The ids of the active list.
LEMMA ActiveIsInterval ==
  ASSUME TypeOK, ListInv
  PROVE  ActiveIds = First .. next_id - 1
<1>1. Len(active) \in Nat /\ DOMAIN active = 1 .. Len(active) /\ next_id \in Nat
  BY DEF TypeOK
<1>2. ASSUME NEW k \in 1 .. Len(active) PROVE active[k] \in First .. next_id - 1
  BY <1>1 DEF ListInv, First
<1>3. ASSUME NEW i \in First .. next_id - 1
      PROVE  \E k \in 1 .. Len(active) : active[k] = i
  <2>1. i - First + 1 \in 1 .. Len(active)
    BY <1>1 DEF ListInv, First
  <2>2. active[i - First + 1] = First + (i - First + 1) - 1
    BY <2>1 DEF ListInv
  <2>3. First + (i - First + 1) - 1 = i
    BY <1>1 DEF ListInv
  <2> QED BY <2>1, <2>2, <2>3
<1> QED BY <1>1, <1>2, <1>3 DEF ActiveIds

\* No thread starts or stops sleeping, and no count is changed.
LEMMA CountKept ==
  ASSUME WaitersCounted, nwaiting' = nwaiting,
         \A i \in Ids, t \in Threads :
           (pc'[t] \in {"test", "sleep"} /\ cur'[t] = i)
             <=> (pc[t] \in {"test", "sleep"} /\ cur[t] = i)
  PROVE  WaitersCounted'
<1> SUFFICES ASSUME NEW i \in Ids PROVE nwaiting'[i] = Cardinality(Waiters(i)')
  BY DEF WaitersCounted
<1>1. Waiters(i)' = Waiters(i)
  BY DEF Waiters
<1> QED BY <1>1 DEF WaitersCounted

LEMMA InitIInv == Init => IInv
<1> SUFFICES ASSUME Init PROVE IInv
  OBVIOUS
<1> USE Basics DEF Init
<1>1. TypeOK
  <2>1. active \in Seq(Ids) /\ inactive \subseteq Ids
    OBVIOUS
  <2>2. next_id \in 0 .. MaxOps /\ lock \in Contexts \cup {None}
    OBVIOUS
  <2>3. /\ mem \in [Ids -> {"none", "live", "freed"}]
        /\ cmd \in [Ids -> {"SEND", "RECV"}]
        /\ flag \in [Ids -> BOOLEAN]
        /\ nwaiting \in [Ids -> Nat]
        /\ retval \in [Ids -> {"unset", "ok", "emsgsize"}]
        /\ pages \in [Ids -> {"none", "pinned", "mapped", "released"}]
    OBVIOUS
  <2>4. /\ pc \in [Contexts -> ThreadPcs \cup IrqPcs]
        /\ pc[Irq] \in IrqPcs
        /\ \A t \in Threads : pc[t] \in ThreadPcs
    BY DEF ThreadPcs, IrqPcs
  <2>5. /\ cur \in [Contexts -> Ids \cup {None}]
        /\ todo \in [Threads -> SUBSET Ids]
    OBVIOUS
  <2> QED BY <2>1, <2>2, <2>3, <2>4, <2>5 DEF TypeOK
<1>2. First = 0 /\ Len(active) = 0
  <2>1. Len(<<>>) = 0 /\ 0 - 0 = 0
    OBVIOUS
  <2> QED BY <2>1 DEF First
<1>3. ListInv
  BY <1>1, <1>2 DEF ListInv, TypeOK
<1>4. LockInv
  BY DEF LockInv, Contexts
<1>5. Drivers = {} /\ ~Completing
  BY DEF Drivers, Completing, Contexts
<1>6. DriveInv
  BY <1>1, <1>2, <1>5 DEF DriveInv, TypeOK
<1>7. SignalInv /\ PointerInv
  BY DEF SignalInv, PointerInv, Contexts
<1>8. WaitersCounted
  <2> SUFFICES ASSUME NEW i \in Ids
               PROVE  nwaiting[i] = Cardinality(Waiters(i))
    BY DEF WaitersCounted
  <2>1. Waiters(i) = {}
    BY DEF Contexts, Waiters
  <2> QED BY <2>1, FS_EmptySet
<1> QED BY <1>1, <1>3, <1>4, <1>6, <1>7, <1>8 DEF IInv

-----------------------------------------------------------------------------
(* One lemma per action, one step per part of the invariant.                *)

LEMMA OpsInitIInv ==
  ASSUME NEW t \in Threads, NEW call \in {"SEND", "RECV"}, IInv, OpsInit(t, call)
  PROVE  IInv'
<1> USE Basics DEF OpsInit, At, Goto, Holds, AddTail, FoundEmpty, deviceVars,
          Contexts
<1>a. /\ next_id \in Ids /\ next_id \in Nat /\ Len(active) \in Nat
      /\ active' \in Seq(Ids) /\ Len(active') = Len(active) + 1
      /\ \A k \in 1 .. Len(active) : active'[k] = active[k]
      /\ active'[Len(active) + 1] = next_id
      /\ First' = First /\ First \in Nat
  <2>1. next_id \in 0 .. MaxOps /\ active \in Seq(Ids) /\ First \in Nat
    BY DEF IInv, TypeOK, ListInv
  <2>2. next_id \in Ids /\ next_id \in Nat /\ Len(active) \in Nat
    BY <2>1 DEF Ids
  <2>3. active' = Append(active, next_id) /\ next_id' = next_id + 1
    OBVIOUS
  <2>4. /\ active' \in Seq(Ids) /\ Len(active') = Len(active) + 1
        /\ \A k \in 1 .. Len(active) : active'[k] = active[k]
        /\ active'[Len(active) + 1] = next_id
    BY <2>1, <2>2, <2>3
  <2>5. First' = First
    BY <2>2, <2>3, <2>4 DEF First
  <2> QED BY <2>1, <2>2, <2>4, <2>5
<1>b. active # <<>> => First < next_id /\ Head(active) = First /\ First \in Ids
                       /\ Head(active') = First
  BY <1>a, HeadIsFirst DEF IInv
<1>c. active = <<>> => First = next_id
  BY <1>a DEF First
<1>1. TypeOK'
  BY <1>a DEF IInv, TypeOK, ThreadPcs
<1>2. ListInv'
  <2>1. ASSUME NEW k \in 1 .. Len(active') PROVE active'[k] = First + k - 1
    <3>1. CASE k \in 1 .. Len(active)
      BY <1>a, <3>1 DEF IInv, ListInv
    <3>2. CASE k = Len(active) + 1
      BY <1>a, <3>2 DEF First
    <3> QED BY <1>a, <3>1, <3>2
  <2>2. ASSUME NEW i \in Ids
        PROVE  /\ i >= next_id' => mem'[i] = "none"
               /\ i \in First .. next_id' - 1 => mem'[i] = "live"
               /\ i >= First => ~flag'[i] /\ i \notin inactive'
               /\ i < First =>
                    /\ i \in ran'
                    /\ mem'[i] # "none" /\ (mem'[i] = "live" <=> i \in inactive')
                    /\ flag'[i] \/ (pc'[Irq] = "flag" /\ cur'[Irq] = i)
                    /\ pc'[Irq] = "flag" /\ cur'[Irq] = i => ~flag'[i] /\ mem'[i] = "live"
    BY <1>a, <1>c DEF IInv, ListInv, TypeOK, First
  <2> QED BY <1>a, <2>1, <2>2 DEF ListInv
<1>3. LockInv'
  BY DEF IInv, TypeOK, ListInv, LockInv, First
<1>4. DriveInv'
  <2>1. CASE active = <<>>
    <3>1. Drivers = {} /\ ~Completing /\ First = next_id /\ First \notin ran
      BY <1>a, <1>c, <2>1 DEF IInv, DriveInv
    <3>2. pc[Irq] \notin {"check", "ack", "flag", "wake"}
      BY <3>1 DEF IInv, SignalInv, LockInv, Completing
    <3>3. Drivers' = {t} /\ ~Completing' /\ active' # <<>>
      BY <1>a, <2>1, <3>1 DEF IInv, TypeOK, Drivers, Completing
    <3>4. pc'[t] = "setup" /\ cur'[t] = First /\ pages'[First] = "pinned"
          /\ pc'[Irq] = pc[Irq] /\ ran' = ran
      BY <1>a, <2>1, <3>1 DEF IInv, TypeOK
    <3> QED BY <1>a, <3>1, <3>2, <3>3, <3>4 DEF IInv, DriveInv, TypeOK, First
  <2>2. CASE active # <<>>
    <3>1. Drivers' = Drivers /\ Completing' = Completing /\ active' # <<>>
      BY <1>a, <2>2 DEF IInv, TypeOK, Drivers, Completing
    <3>2. /\ \A c \in Contexts : c # t => pc'[c] = pc[c] /\ cur'[c] = cur[c]
          /\ t \notin Drivers /\ pc'[Irq] = pc[Irq] /\ ran' = ran
          /\ cfg_mode' = cfg_mode /\ cfg_op' = cfg_op
          /\ \A i \in Ids : i # next_id => pages'[i] = pages[i] /\ cmd'[i] = cmd[i]
          /\ pages'[next_id] = "pinned" /\ First # next_id
      BY <1>a, <1>b, <2>2 DEF IInv, TypeOK, Drivers
    <3>3. StuckSend => StuckSend'
      BY <1>a, <1>b, <2>2, <3>1, <3>2 DEF StuckSend
    <3>4. Drivers \subseteq Contexts
      BY DEF Drivers
    <3> QED BY <1>a, <1>b, <2>2, <3>1, <3>2, <3>3, <3>4 DEF IInv, DriveInv
  <2> QED BY <2>1, <2>2
<1>5. SignalInv'
  BY DEF IInv, TypeOK, ListInv, DriveInv, LockInv, SignalInv, First, Drivers,
          Completing, IrqPcs
<1>6. PointerInv'
  BY DEF IInv, TypeOK, ListInv, PointerInv, First
<1>7. WaitersCounted'
  BY CountKept DEF IInv, TypeOK
<1> QED BY <1>1, <1>2, <1>3, <1>4, <1>5, <1>6, <1>7 DEF IInv

LEMMA ReturnIInv ==
  ASSUME NEW t \in Threads, IInv, Return(t)
  PROVE  IInv'
<1> USE Basics DEF Return, At, Valid, Goto, Holds, queueVars, opVars,
          deviceVars, Contexts
<1>1. TypeOK'
  BY DEF IInv, TypeOK, ThreadPcs, IrqPcs
<1>2. ListInv'
  BY DEF IInv, TypeOK, ListInv, First
<1>3. LockInv'
  BY DEF IInv, TypeOK, ListInv, LockInv, First
<1>4. DriveInv'
  BY SMTT(30) DEF IInv, TypeOK, ListInv, LockInv, DriveInv, SignalInv, First, Drivers,
          Completing, StuckSend
<1>5. SignalInv'
  BY DEF IInv, TypeOK, ListInv, DriveInv, LockInv, SignalInv, First, Drivers,
          Completing, IrqPcs
<1>6. PointerInv'
  BY DEF IInv, TypeOK, ListInv, PointerInv, First
<1>7. WaitersCounted'
  BY CountKept DEF IInv, TypeOK
<1> QED BY <1>1, <1>2, <1>3, <1>4, <1>5, <1>6, <1>7 DEF IInv

LEMMA SetupIInv ==
  ASSUME NEW c \in Contexts, IInv, Setup(c)
  PROVE  IInv'
<1> USE Basics DEF Setup, At, Valid, Goto, SetMode, Quiet, queueVars, opVars,
          Contexts
<1>1. TypeOK'
  BY DEF IInv, TypeOK, ThreadPcs, IrqPcs
<1>2. ListInv'
  BY DEF IInv, TypeOK, ListInv, First
<1>3. LockInv'
  BY DEF IInv, TypeOK, ListInv, LockInv, First
<1>4. DriveInv'
  BY DEF IInv, TypeOK, ListInv, LockInv, DriveInv, SignalInv, First, Drivers,
          Completing, StuckSend
<1>5. SignalInv'
  BY DEF IInv, TypeOK, ListInv, DriveInv, LockInv, SignalInv, First, Drivers,
          Completing, IrqPcs
<1>6. PointerInv'
  BY DEF IInv, TypeOK, ListInv, PointerInv, First
<1>7. WaitersCounted'
  BY CountKept DEF IInv, TypeOK
<1> QED BY <1>1, <1>2, <1>3, <1>4, <1>5, <1>6, <1>7 DEF IInv

LEMMA RefuseIInv ==
  ASSUME NEW c \in Contexts, IInv, Refuse(c)
  PROVE  IInv'
<1> USE Basics DEF Refuse, At, Valid, Goto, Holds, SetMode, Quiet, Contexts
<1>a. /\ \A x \in Contexts : x # c => pc'[x] = pc[x] /\ cur'[x] = cur[x]
      /\ pc'[c] = (IF c = Irq THEN "idle" ELSE "user") /\ pc[c] = "setup"
      /\ cur[c] \in Ids
  BY DEF IInv, TypeOK
<1>b. /\ active # <<>> /\ Head(active) = First /\ First \in Ids /\ cur[c] = First
      /\ pages[First] = "pinned" /\ First \notin ran /\ ~Completing
      /\ pc[Irq] \notin {"check", "ack", "flag", "wake"}
      /\ \A d \in Drivers : d = c
  <2>1. c \in Drivers
    BY <1>a DEF Drivers
  <2> QED BY <1>a, <2>1, HeadIsFirst DEF IInv, DriveInv
<1>1. TypeOK'
  <2>1. pc' \in [Contexts -> ThreadPcs \cup IrqPcs] /\ pc'[Irq] \in IrqPcs
        /\ \A x \in Threads : pc'[x] \in ThreadPcs
    BY <1>a DEF IInv, TypeOK, ThreadPcs, IrqPcs
  <2>2. cur' \in [Contexts -> Ids \cup {None}]
        /\ cfg_mode' \in {"ACTIVE", "PASSIVE"}
    BY DEF IInv, TypeOK
  <2>3. retval' \in [Ids -> {"unset", "ok", "emsgsize"}]
        /\ lock' \in Contexts \cup {None}
    <3>1. CASE c = Irq
      BY <1>a, <3>1 DEF IInv, TypeOK
    <3>2. CASE c # Irq
      BY <3>2 DEF IInv, TypeOK
    <3> QED BY <3>1, <3>2
  <2> QED BY <2>1, <2>2, <2>3 DEF IInv, TypeOK
<1>2. ListInv'
  BY DEF IInv, TypeOK, ListInv, First
<1>3. LockInv'
  BY DEF IInv, TypeOK, ListInv, LockInv, First
<1>4. DriveInv'
  <2>1. First' = First /\ Drivers' = {} /\ ~Completing'
    BY <1>a, <1>b DEF First, Drivers, Completing
  <2>2. pc'[Irq] \notin {"flag", "wake"}
    BY <1>a, <1>b
  <2>3. StuckSend'
    BY <1>b, <2>1, <2>2 DEF StuckSend
  <2> QED BY <1>b, <2>1, <2>2, <2>3 DEF IInv, DriveInv
<1>5. SignalInv'
  BY DEF IInv, TypeOK, ListInv, DriveInv, LockInv, SignalInv, First, Drivers,
          Completing, IrqPcs
<1>6. PointerInv'
  BY DEF IInv, TypeOK, ListInv, PointerInv, First
<1>7. WaitersCounted'
  BY CountKept DEF IInv, TypeOK
<1> QED BY <1>1, <1>2, <1>3, <1>4, <1>5, <1>6, <1>7 DEF IInv

LEMMA MapIInv ==
  ASSUME NEW c \in Contexts, IInv, Map(c)
  PROVE  IInv'
<1> USE Basics DEF Map, At, Valid, Goto, MapPages, Quiet, queueVars, Contexts
<1>1. TypeOK'
  BY DEF IInv, TypeOK, ThreadPcs, IrqPcs
<1>2. ListInv'
  BY DEF IInv, TypeOK, ListInv, First
<1>3. LockInv'
  BY DEF IInv, TypeOK, ListInv, LockInv, First
<1>4. DriveInv'
  BY DEF IInv, TypeOK, ListInv, LockInv, DriveInv, SignalInv, First, Drivers,
          Completing, StuckSend
<1>5. SignalInv'
  BY DEF IInv, TypeOK, ListInv, DriveInv, LockInv, SignalInv, First, Drivers,
          Completing, IrqPcs
<1>6. PointerInv'
  BY DEF IInv, TypeOK, ListInv, PointerInv, First
<1>7. WaitersCounted'
  BY CountKept DEF IInv, TypeOK
<1> QED BY <1>1, <1>2, <1>3, <1>4, <1>5, <1>6, <1>7 DEF IInv

LEMMA RingIInv ==
  ASSUME NEW c \in Contexts, IInv, Ring(c)
  PROVE  IInv'
<1> USE Basics DEF Ring, At, Goto, Quiet, queueVars, opVars, deviceVars, Contexts
<1>1. TypeOK'
  BY DEF IInv, TypeOK, ThreadPcs, IrqPcs
<1>2. ListInv'
  BY DEF IInv, TypeOK, ListInv, First
<1>3. LockInv'
  BY DEF IInv, TypeOK, ListInv, LockInv, First
<1>4. DriveInv'
  BY DEF IInv, TypeOK, ListInv, LockInv, DriveInv, SignalInv, First, Drivers,
          Completing, StuckSend
<1>5. SignalInv'
  BY DEF IInv, TypeOK, ListInv, DriveInv, LockInv, SignalInv, First, Drivers,
          Completing, IrqPcs
<1>6. PointerInv'
  BY DEF IInv, TypeOK, ListInv, PointerInv, First
<1>7. WaitersCounted'
  BY CountKept DEF IInv, TypeOK
<1> QED BY <1>1, <1>2, <1>3, <1>4, <1>5, <1>6, <1>7 DEF IInv

LEMMA RunEndIInv ==
  ASSUME NEW c \in Contexts, IInv, RunEnd(c)
  PROVE  IInv'
<1> USE Basics DEF RunEnd, At, Goto, queueVars, opVars, Contexts
<1>a. c \in Drivers
  BY DEF Drivers, IInv, TypeOK
<1>b. /\ active # <<>> /\ cfg_op = First /\ First \in Ids /\ ~Completing
      /\ pages[First] = "mapped"
      /\ \A d \in Drivers : d = c
  BY <1>a, HeadIsFirst DEF IInv, DriveInv
<1>1. TypeOK'
  BY <1>b DEF IInv, TypeOK, ThreadPcs, IrqPcs
<1>2. ListInv'
  BY DEF IInv, TypeOK, ListInv, First
<1>3. LockInv'
  BY DEF IInv, TypeOK, ListInv, LockInv, First
<1>4. DriveInv'
  BY DEF IInv, TypeOK, ListInv, LockInv, DriveInv, SignalInv, First, Drivers,
          Completing, StuckSend
<1>5. SignalInv'
  BY DEF IInv, TypeOK, ListInv, DriveInv, LockInv, SignalInv, First, Drivers,
          Completing, IrqPcs
<1>6. PointerInv'
  BY DEF IInv, TypeOK, ListInv, PointerInv, First
<1>7. WaitersCounted'
  BY CountKept DEF IInv, TypeOK
<1> QED BY <1>1, <1>2, <1>3, <1>4, <1>5, <1>6, <1>7 DEF IInv

LEMMA StoreIInv ==
  ASSUME IInv, Store
  PROVE  IInv'
<1> USE Basics DEF Store, At, Valid, Goto, Holds, deviceVars, Contexts
<1>1. TypeOK'
  BY DEF IInv, TypeOK, ThreadPcs, IrqPcs
<1>2. ListInv'
  BY DEF IInv, TypeOK, ListInv, First
<1>3. LockInv'
  BY DEF IInv, TypeOK, ListInv, LockInv, First
<1>4. DriveInv'
  BY DEF IInv, TypeOK, ListInv, LockInv, DriveInv, SignalInv, First, Drivers,
          Completing, StuckSend
<1>5. SignalInv'
  BY DEF IInv, TypeOK, ListInv, DriveInv, LockInv, SignalInv, First, Drivers,
          Completing, IrqPcs
<1>6. PointerInv'
  BY DEF IInv, TypeOK, ListInv, PointerInv, First
<1>7. WaitersCounted'
  BY CountKept DEF IInv, TypeOK
<1> QED BY <1>1, <1>2, <1>3, <1>4, <1>5, <1>6, <1>7 DEF IInv

LEMMA IrqEntryIInv ==
  ASSUME IInv, IrqEntry
  PROVE  IInv'
<1> USE Basics DEF IrqEntry, At, Goto, queueVars, opVars, Contexts
<1>1. TypeOK'
  BY DEF IInv, TypeOK, ThreadPcs, IrqPcs
<1>2. ListInv'
  BY DEF IInv, TypeOK, ListInv, First
<1>3. LockInv'
  BY DEF IInv, TypeOK, ListInv, LockInv, First
<1>4. DriveInv'
  BY DEF IInv, TypeOK, ListInv, LockInv, DriveInv, SignalInv, First, Drivers,
          Completing, StuckSend
<1>5. SignalInv'
  BY DEF IInv, TypeOK, ListInv, DriveInv, LockInv, SignalInv, First, Drivers,
          Completing, IrqPcs
<1>6. PointerInv'
  BY DEF IInv, TypeOK, ListInv, PointerInv, First
<1>7. WaitersCounted'
  BY CountKept DEF IInv, TypeOK
<1> QED BY <1>1, <1>2, <1>3, <1>4, <1>5, <1>6, <1>7 DEF IInv

LEMMA IrqCheckIInv ==
  ASSUME IInv, IrqCheck
  PROVE  IInv'
<1> USE Basics DEF IrqCheck, At, Goto, Quiet, queueVars, opVars, deviceVars,
          Contexts
<1>1. TypeOK'
  BY DEF IInv, TypeOK, ThreadPcs, IrqPcs
<1>2. ListInv'
  BY DEF IInv, TypeOK, ListInv, First
<1>3. LockInv'
  BY DEF IInv, TypeOK, ListInv, LockInv, First
<1>4. DriveInv'
  BY DEF IInv, TypeOK, ListInv, LockInv, DriveInv, SignalInv, First, Drivers,
          Completing, StuckSend
<1>5. SignalInv'
  BY DEF IInv, TypeOK, ListInv, DriveInv, LockInv, SignalInv, First, Drivers,
          Completing, IrqPcs
<1>6. PointerInv'
  BY DEF IInv, TypeOK, ListInv, PointerInv, First
<1>7. WaitersCounted'
  BY CountKept DEF IInv, TypeOK
<1> QED BY <1>1, <1>2, <1>3, <1>4, <1>5, <1>6, <1>7 DEF IInv

LEMMA IrqAckIInv ==
  ASSUME IInv, IrqAck
  PROVE  IInv'
<1> USE Basics DEF IrqAck, At, Goto, Quiet, queueVars, opVars, Contexts
<1>1. TypeOK'
  BY DEF IInv, TypeOK, ThreadPcs, IrqPcs
<1>2. ListInv'
  BY DEF IInv, TypeOK, ListInv, First
<1>3. LockInv'
  BY DEF IInv, TypeOK, ListInv, LockInv, First
<1>4. DriveInv'
  BY DEF IInv, TypeOK, ListInv, LockInv, DriveInv, SignalInv, First, Drivers,
          Completing, StuckSend
<1>5. SignalInv'
  BY DEF IInv, TypeOK, ListInv, DriveInv, LockInv, SignalInv, First, Drivers,
          Completing, IrqPcs
<1>6. PointerInv'
  BY DEF IInv, TypeOK, ListInv, PointerInv, First
<1>7. WaitersCounted'
  BY CountKept DEF IInv, TypeOK
<1> QED BY <1>1, <1>2, <1>3, <1>4, <1>5, <1>6, <1>7 DEF IInv

LEMMA OpsNextEmptyIInv ==
  ASSUME IInv, OpsNextEmpty
  PROVE  IInv'
<1> USE Basics DEF OpsNextEmpty, At, Goto, queueVars, opVars, deviceVars, Contexts
<1>1. TypeOK'
  BY DEF IInv, TypeOK, ThreadPcs, IrqPcs
<1>2. ListInv'
  BY DEF IInv, TypeOK, ListInv, First
<1>3. LockInv'
  BY DEF IInv, TypeOK, ListInv, LockInv, First
<1>4. DriveInv'
  BY DEF IInv, TypeOK, ListInv, LockInv, DriveInv, SignalInv, First, Drivers,
          Completing, StuckSend
<1>5. SignalInv'
  BY DEF IInv, TypeOK, ListInv, DriveInv, LockInv, SignalInv, First, Drivers,
          Completing, IrqPcs
<1>6. PointerInv'
  BY DEF IInv, TypeOK, ListInv, PointerInv, First
<1>7. WaitersCounted'
  BY CountKept DEF IInv, TypeOK
<1> QED BY <1>1, <1>2, <1>3, <1>4, <1>5, <1>6, <1>7 DEF IInv

LEMMA OpsNextIInv ==
  ASSUME IInv, OpsNext
  PROVE  IInv'
<1> USE Basics DEF OpsNext, At, Goto, Holds, deviceVars, Contexts
<1>a. /\ Head(active) = First /\ First \in Ids /\ First < next_id
      /\ Len(active) \in Nat \ {0} /\ next_id \in Nat
  BY HeadIsFirst DEF IInv, TypeOK
<1>b. /\ active' \in Seq(Ids) /\ Len(active') = Len(active) - 1
      /\ \A k \in 1 .. Len(active') : active'[k] = active[k + 1]
      /\ First' = First + 1 /\ Len(active') \in Nat
  BY <1>a DEF IInv, TypeOK, First
<1>c. active' # <<>> => First' \in Ids /\ First' < next_id
  <2> SUFFICES ASSUME active' # <<>> PROVE First + 1 \in Ids /\ First + 1 < next_id
    BY <1>b
  <2>1. Len(active') # 0
    BY <1>b
  <2>2. First + 1 < next_id /\ First \in Nat
    BY <1>a, <1>b, <2>1 DEF First, Ids
  <2>3. next_id \in 0 .. MaxOps /\ MaxOps \in Nat
    BY DEF IInv, TypeOK
  <2> QED BY <2>2, <2>3 DEF Ids
<1>1. TypeOK'
  BY <1>a, <1>b DEF IInv, TypeOK, IrqPcs
<1>2. ListInv'
  <2>1. \A k \in 1 .. Len(active') : active'[k] = First' + k - 1
    BY <1>a, <1>b DEF IInv, ListInv
  <2>2. ASSUME NEW i \in Ids
        PROVE  /\ i >= next_id => mem[i] = "none"
               /\ i \in First' .. next_id - 1 => mem[i] = "live"
               /\ i >= First' => ~flag[i] /\ i \notin inactive'
               /\ i < First' =>
                    /\ i \in ran
                    /\ mem[i] # "none" /\ (mem[i] = "live" <=> i \in inactive')
                    /\ flag[i] \/ (pc'[Irq] = "flag" /\ cur'[Irq] = i /\ mem[i] = "live")
    <3>1. First \in ran /\ First \in Nat /\ pc[Irq] = "next"
      BY DEF IInv, DriveInv, ListInv, Completing
    <3>2. CASE i = First
      BY <1>a, <1>b, <3>1, <3>2 DEF IInv, ListInv, TypeOK
    <3>3. CASE i # First
      BY <1>a, <1>b, <3>1, <3>3 DEF IInv, ListInv, TypeOK
    <3> QED BY <3>2, <3>3
  <2> QED BY <1>a, <1>b, <2>1, <2>2 DEF ListInv, IInv
<1>3. LockInv'
  BY <1>a, <1>b DEF IInv, TypeOK, LockInv
<1>4. DriveInv'
  <2>1. Drivers = {} /\ raised = FALSE
    BY DEF IInv, DriveInv, SignalInv, Completing
  <2>2. Drivers' = {} /\ ~Completing' /\ pc'[Irq] = "flag"
    BY <2>1 DEF Drivers, Completing, IInv, TypeOK
  <2>3. /\ First \in Nat
        /\ \A i \in Ids : i > First' \/ i >= next_id => i \notin ran
        /\ active' # <<>> => First' \notin ran /\ pages'[First'] = "pinned"
        /\ \A i \in Ids : i > First' /\ i < next_id => pages'[i] = "pinned"
    BY <1>a, <1>b, <1>c DEF IInv, DriveInv, TypeOK, ListInv
  <2> QED BY <2>2, <2>3 DEF DriveInv
<1>5. SignalInv'
  BY DEF IInv, TypeOK, ListInv, DriveInv, LockInv, SignalInv, First, Drivers,
          Completing, IrqPcs
<1>6. PointerInv'
  BY DEF IInv, TypeOK, ListInv, PointerInv, First
<1>7. WaitersCounted'
  BY CountKept DEF IInv, TypeOK
<1> QED BY <1>1, <1>2, <1>3, <1>4, <1>5, <1>6, <1>7 DEF IInv

LEMMA SetFlagIInv ==
  ASSUME IInv, SetFlag
  PROVE  IInv'
<1> USE Basics DEF SetFlag, At, Valid, Goto, RaiseFlag, queueVars, deviceVars,
          Contexts
<1>1. TypeOK'
  BY DEF IInv, TypeOK, ThreadPcs, IrqPcs
<1>2. ListInv'
  <2>1. /\ cur[Irq] \in Ids /\ cur[Irq] < First /\ First \in Nat /\ First' = First
        /\ pc'[Irq] = "wake"
    BY DEF IInv, LockInv, ListInv, First, TypeOK
  <2>2. ASSUME NEW i \in Ids
        PROVE  /\ i >= next_id => mem[i] = "none"
               /\ i \in First .. next_id - 1 => mem[i] = "live"
               /\ i >= First => ~flag'[i] /\ i \notin inactive
               /\ i < First =>
                    /\ i \in ran
                    /\ mem[i] # "none" /\ (mem[i] = "live" <=> i \in inactive)
                    /\ flag'[i]
    BY <2>1 DEF IInv, ListInv, TypeOK
  <2> QED BY <2>1, <2>2 DEF ListInv, IInv
<1>3. LockInv'
  BY DEF IInv, TypeOK, ListInv, LockInv, First
<1>4. DriveInv'
  BY DEF IInv, TypeOK, ListInv, LockInv, DriveInv, SignalInv, First, Drivers,
          Completing, StuckSend
<1>5. SignalInv'
  BY DEF IInv, TypeOK, ListInv, DriveInv, LockInv, SignalInv, First, Drivers,
          Completing, IrqPcs
<1>6. PointerInv'
  BY DEF IInv, TypeOK, ListInv, PointerInv, First
<1>7. WaitersCounted'
  BY CountKept DEF IInv, TypeOK
<1> QED BY <1>1, <1>2, <1>3, <1>4, <1>5, <1>6, <1>7 DEF IInv

LEMMA WakeUpIInv ==
  ASSUME IInv, WakeUp
  PROVE  IInv'
<1> USE Basics DEF WakeUp, At, Valid, Holds, StartsNext, opVars, deviceVars,
          Contexts
<1>a. active # <<>> => Head(active) = First /\ First \in Ids
  BY HeadIsFirst DEF IInv
<1>b. /\ pc' \in [Contexts -> ThreadPcs \cup IrqPcs] /\ pc[Irq] = "wake"
      /\ pc'[Irq] = IF active # <<>> THEN "setup" ELSE "idle"
      /\ \A x \in Threads :
           pc'[x] = IF pc[x] = "sleep" /\ cur[x] = cur[Irq] THEN "test" ELSE pc[x]
      /\ \A x \in Threads : cur'[x] = cur[x]
  <2>1. WokenBy(cur[Irq]) \in [Contexts -> ThreadPcs \cup IrqPcs]
    BY DEF WokenBy, IInv, TypeOK, ThreadPcs
  <2>2. \A x \in Threads : WokenBy(cur[Irq])[x] =
          IF pc[x] = "sleep" /\ cur[x] = cur[Irq] THEN "test" ELSE pc[x]
    BY DEF WokenBy
  <2>3. \A x \in Threads : cur'[x] = cur[x]
    BY DEF IInv, TypeOK
  <2> QED BY <2>1, <2>2, <2>3 DEF IrqPcs
<1>1. TypeOK'
  <2>1. pc'[Irq] \in IrqPcs /\ \A x \in Threads : pc'[x] \in ThreadPcs
    BY <1>b DEF IInv, TypeOK, ThreadPcs, IrqPcs
  <2>2. cur' \in [Contexts -> Ids \cup {None}] /\ lock' \in Contexts \cup {None}
    BY <1>a DEF IInv, TypeOK
  <2> QED BY <1>b, <2>1, <2>2 DEF IInv, TypeOK
<1>2. ListInv'
  BY <1>b DEF IInv, TypeOK, ListInv, First
<1>3. LockInv'
  BY <1>b DEF IInv, TypeOK, ListInv, LockInv, First
<1>4. DriveInv'
  <2>1. /\ Drivers = {} /\ ~Completing /\ First' = First
        /\ active # <<>> => First \notin ran /\ pages[First] = "pinned"
    <3>1. Drivers = {} /\ ~Completing
      BY DEF IInv, DriveInv, SignalInv, Completing
    <3> QED BY <3>1 DEF IInv, DriveInv, First
  <2>2. \A x \in Contexts : x # Irq =>
          pc'[x] = pc[x] \/ (pc[x] = "sleep" /\ pc'[x] = "test")
    BY <1>b
  <2>3. CASE active = <<>>
    <3>1. pc'[Irq] = "idle"
      BY <1>b, <2>3
    <3>2. Drivers' = {} /\ ~Completing'
      BY <2>1, <2>2, <3>1 DEF Drivers, Completing
    <3> QED BY <2>1, <2>3, <3>1, <3>2 DEF IInv, DriveInv
  <2>4. CASE active # <<>>
    <3>1. pc'[Irq] = "setup" /\ cur'[Irq] = First
      BY <1>a, <1>b, <2>4 DEF IInv, TypeOK
    <3>2. Drivers' = {Irq} /\ ~Completing'
      BY <2>1, <2>2, <3>1 DEF Drivers, Completing
    <3> QED BY <1>a, <2>1, <2>4, <3>1, <3>2 DEF IInv, DriveInv
  <2> QED BY <2>3, <2>4
<1>5. SignalInv'
  BY <1>b DEF IInv, TypeOK, ListInv, DriveInv, LockInv, SignalInv, First, Drivers,
          Completing, IrqPcs
<1>6. PointerInv'
  BY <1>b DEF IInv, PointerInv
<1>7. WaitersCounted'
  BY <1>b, CountKept DEF IInv
<1> QED BY <1>1, <1>2, <1>3, <1>4, <1>5, <1>6, <1>7 DEF IInv

LEMMA OpsGetIInv ==
  ASSUME NEW t \in Threads, NEW i \in Ids, IInv, OpsGet(t, i)
  PROVE  IInv'
<1> USE Basics DEF OpsGet, At, Goto, Holds, queueVars, opVars, deviceVars, Contexts
<1>1. TypeOK'
  BY DEF IInv, TypeOK, ThreadPcs, IrqPcs
<1>2. ListInv'
  BY DEF IInv, TypeOK, ListInv, First
<1>3. LockInv'
  BY DEF IInv, TypeOK, ListInv, LockInv, First
<1>4. DriveInv'
  BY SMTT(30) DEF IInv, TypeOK, ListInv, LockInv, DriveInv, SignalInv, First, Drivers,
          Completing, StuckSend
<1>5. SignalInv'
  BY DEF IInv, TypeOK, ListInv, DriveInv, LockInv, SignalInv, First, Drivers,
          Completing, IrqPcs
<1>6. PointerInv'
  BY DEF IInv, TypeOK, ListInv, PointerInv, First
<1>7. WaitersCounted'
  BY CountKept DEF IInv, TypeOK
<1> QED BY <1>1, <1>2, <1>3, <1>4, <1>5, <1>6, <1>7 DEF IInv

LEMMA AddWaiterIInv ==
  ASSUME NEW t \in Threads, IInv, AddWaiter(t)
  PROVE  IInv'
<1> USE Basics DEF AddWaiter, At, Valid, Goto, Count, queueVars, deviceVars,
          Contexts
<1>1. TypeOK'
  BY DEF IInv, TypeOK, ThreadPcs, IrqPcs
<1>2. ListInv'
  BY DEF IInv, TypeOK, ListInv, First
<1>3. LockInv'
  BY DEF IInv, TypeOK, ListInv, LockInv, First
<1>4. DriveInv'
  <2>1. /\ \A x \in Contexts : x # t => pc'[x] = pc[x]
        /\ pc'[t] = "test" /\ pc[t] = "get" /\ pc'[Irq] = pc[Irq] /\ cur' = cur
    BY DEF IInv, TypeOK
  <2>2. /\ Drivers' = Drivers /\ Completing' = Completing /\ First' = First
        /\ StuckSend' = StuckSend
        /\ \A c \in Drivers : pc'[c] = pc[c]
    BY <2>1 DEF Drivers, Completing, StuckSend, First
  <2> QED BY <2>1, <2>2 DEF IInv, DriveInv
<1>5. SignalInv'
  BY DEF IInv, TypeOK, ListInv, DriveInv, LockInv, SignalInv, First, Drivers,
          Completing, IrqPcs
<1>6. PointerInv'
  BY DEF IInv, TypeOK, ListInv, PointerInv, First
<1>7. WaitersCounted'
  <2> SUFFICES ASSUME NEW i \in Ids
               PROVE  nwaiting'[i] = Cardinality(Waiters(i)')
    BY DEF WaitersCounted
  <2> DEFINE S == Waiters(i)
  <2>1. IsFiniteSet(S) /\ nwaiting[i] = Cardinality(S) /\ t \notin S
    BY ThreadsAssumption, FS_Subset DEF IInv, WaitersCounted, Waiters
  <2>2. CASE i = cur[t]
    <3>1. Waiters(i)' = S \cup {t}
      BY <2>2 DEF IInv, TypeOK, Waiters
    <3>2. nwaiting'[i] = nwaiting[i] + 1
      BY <2>2 DEF IInv, TypeOK
    <3>3. Cardinality(S \cup {t}) = Cardinality(S) + 1
      <4> HIDE DEF S
      <4> QED BY <2>1, FS_AddElement
    <3> QED BY <2>1, <3>1, <3>2, <3>3
  <2>3. CASE i # cur[t]
    <3>1. Waiters(i)' = S
      BY <2>3 DEF IInv, TypeOK, Waiters
    <3>2. nwaiting'[i] = nwaiting[i]
      BY <2>3 DEF IInv, TypeOK
    <3> QED BY <2>1, <3>1, <3>2
  <2> QED BY <2>2, <2>3
<1> QED BY <1>1, <1>2, <1>3, <1>4, <1>5, <1>6, <1>7 DEF IInv

LEMMA SleepIInv ==
  ASSUME NEW t \in Threads, IInv, Sleep(t)
  PROVE  IInv'
<1> USE Basics DEF Sleep, At, Valid, Goto, queueVars, opVars, deviceVars, Contexts
<1>a. /\ \A x \in Contexts : x # t => pc'[x] = pc[x]
      /\ pc'[t] = "sleep" /\ pc[t] = "test" /\ pc'[Irq] = pc[Irq] /\ cur' = cur
  BY DEF IInv, TypeOK
<1>1. TypeOK'
  BY DEF IInv, TypeOK, ThreadPcs, IrqPcs
<1>2. ListInv'
  BY DEF IInv, TypeOK, ListInv, First
<1>3. LockInv'
  BY DEF IInv, TypeOK, ListInv, LockInv, First
<1>4. DriveInv'
  <2>1. /\ Drivers' = Drivers /\ Completing' = Completing /\ First' = First
        /\ StuckSend' = StuckSend
        /\ \A c \in Drivers : pc'[c] = pc[c]
    BY <1>a DEF Drivers, Completing, StuckSend, First
  <2> QED BY <1>a, <2>1 DEF IInv, DriveInv
<1>5. SignalInv'
  BY <1>a DEF IInv, SignalInv, First
<1>6. PointerInv'
  BY <1>a DEF IInv, PointerInv
<1>7. WaitersCounted'
  BY <1>a, CountKept DEF IInv
<1> QED BY <1>1, <1>2, <1>3, <1>4, <1>5, <1>6, <1>7 DEF IInv

LEMMA WokenIInv ==
  ASSUME NEW t \in Threads, IInv, Woken(t)
  PROVE  IInv'
<1> USE Basics DEF Woken, At, Valid, Goto, Holds, Count, queueVars, deviceVars,
          Contexts
<1>a. /\ IsFiniteSet(Waiters(cur[t]))
      /\ t \in Waiters(cur[t])
      /\ cur[t] \in Ids
  BY ThreadsAssumption, FS_Subset DEF IInv, TypeOK, Waiters
<1>b. nwaiting[cur[t]] \in Nat \ {0}
  <2> DEFINE S == Waiters(cur[t])
  <2>1. IsFiniteSet(S) /\ t \in S /\ nwaiting[cur[t]] = Cardinality(S)
    BY <1>a DEF IInv, WaitersCounted
  <2>2. Cardinality(S) \in Nat /\ Cardinality(S) # 0
    <3> HIDE DEF S
    <3> QED BY <2>1, FS_CardinalityType, FS_EmptySet
  <2> QED BY <2>1, <2>2
<1>c. /\ \A x \in Contexts : x # t => pc'[x] = pc[x] /\ cur'[x] = cur[x]
      /\ pc'[t] \in {"user", "del"} /\ t # Irq
      /\ pc'[t] = "del" => cur'[t] = cur[t]
  BY DEF IInv, TypeOK
<1>d. Drivers' = Drivers /\ Completing' = Completing /\ StuckSend' = StuckSend /\ First' = First
      /\ \A c \in Drivers : pc'[c] = pc[c] /\ cur'[c] = cur[c]
  BY <1>c DEF Drivers, Completing, StuckSend, First
<1>1. TypeOK'
  <2>1. nwaiting' \in [Ids -> Nat]
    BY <1>a, <1>b DEF IInv, TypeOK
  <2>2. pc' \in [Contexts -> ThreadPcs \cup IrqPcs] /\ pc'[Irq] = pc[Irq]
    <3>1. pc' = [pc EXCEPT ![t] = "del"] \/ pc' = [pc EXCEPT ![t] = "user"]
      OBVIOUS
    <3>2. pc \in [Contexts -> ThreadPcs \cup IrqPcs]
          /\ "del" \in ThreadPcs /\ "user" \in ThreadPcs
      BY DEF IInv, TypeOK, ThreadPcs
    <3> QED BY <1>c, <3>1, <3>2
  <2>3. cur' \in [Contexts -> Ids \cup {None}]
    BY DEF IInv, TypeOK
  <2>4. \A x \in Threads : pc'[x] \in ThreadPcs
    BY <1>c DEF IInv, TypeOK, ThreadPcs
  <2> QED BY <2>1, <2>2, <2>3, <2>4 DEF IInv, TypeOK
<1>2. ListInv'
  BY DEF IInv, TypeOK, ListInv, First
<1>3. LockInv'
  BY DEF IInv, TypeOK, ListInv, LockInv, First
<1>4. DriveInv'
  <2>1. pc'[Irq] = pc[Irq]
    BY <1>c
  <2> QED BY <1>d, <2>1 DEF IInv, DriveInv
<1>5. SignalInv'
  BY DEF IInv, TypeOK, ListInv, DriveInv, LockInv, SignalInv, First, Drivers,
          Completing, IrqPcs
<1>6. PointerInv'
  <2>1. flag[cur[t]] /\ flag' = flag /\ next_id' = next_id /\ PointerInv
    BY DEF IInv
  <2>2. pc[t] = "test" /\ pc'[Irq] = pc[Irq] /\ cur'[Irq] = cur[Irq]
    BY <1>c
  <2> HIDE DEF Woken
  <2> QED BY <1>a, <1>c, <2>1, <2>2 DEF PointerInv
<1>7. WaitersCounted'
  <2> SUFFICES ASSUME NEW i \in Ids
               PROVE  nwaiting'[i] = Cardinality(Waiters(i)')
    BY DEF WaitersCounted
  <2> DEFINE S == Waiters(i)
  <2>1. IsFiniteSet(S) /\ nwaiting[i] = Cardinality(S)
    BY ThreadsAssumption, FS_Subset DEF IInv, WaitersCounted, Waiters
  <2>2. CASE i = cur[t]
    <3>1. Waiters(i)' = S \ {t} /\ t \in S
      BY <1>c, <2>2 DEF IInv, TypeOK, Waiters
    <3>2. nwaiting'[i] = nwaiting[i] - 1
      BY <2>2, <1>a, <1>b DEF IInv, TypeOK
    <3>3. Cardinality(S \ {t}) = Cardinality(S) - 1
      <4> HIDE DEF S
      <4> QED BY <2>1, <3>1, FS_RemoveElement
    <3> QED BY <2>1, <3>1, <3>2, <3>3
  <2>3. CASE i # cur[t]
    <3>1. Waiters(i)' = S
      BY <1>c, <2>3 DEF IInv, TypeOK, Waiters
    <3>2. nwaiting'[i] = nwaiting[i]
      BY <2>3 DEF IInv, TypeOK
    <3> QED BY <2>1, <3>1, <3>2
  <2> QED BY <2>2, <2>3
<1> QED BY <1>1, <1>2, <1>3, <1>4, <1>5, <1>6, <1>7 DEF IInv

LEMMA DelFreeIInv ==
  ASSUME NEW t \in Threads, IInv, DelFree(t)
  PROVE  IInv'
<1> USE Basics DEF DelFree, At, Valid, Goto, Holds, Unlink, deviceVars, Contexts
<1>a. /\ cur[t] \in Ids /\ flag[cur[t]] /\ cur[t] < next_id
  BY DEF IInv, PointerInv
<1>b. cur[t] < First /\ First \in Nat
  BY <1>a DEF IInv, ListInv
<1>1. TypeOK'
  BY DEF IInv, TypeOK, ThreadPcs, IrqPcs
<1>2. ListInv'
  <2>1. First' = First
    BY DEF First
  <2>2. ASSUME NEW i \in Ids
        PROVE  /\ i >= next_id => mem'[i] = "none"
               /\ i \in First .. next_id - 1 => mem'[i] = "live"
               /\ i >= First => ~flag[i] /\ i \notin inactive'
               /\ i < First =>
                    /\ i \in ran
                    /\ mem'[i] # "none" /\ (mem'[i] = "live" <=> i \in inactive')
                    /\ flag[i] \/ (pc'[Irq] = "flag" /\ cur'[Irq] = i /\ mem'[i] = "live")
    BY <1>a, <1>b DEF IInv, ListInv, TypeOK
  <2> QED BY <2>1, <2>2 DEF ListInv, IInv
<1>3. LockInv'
  BY DEF IInv, TypeOK, ListInv, LockInv, First
<1>4. DriveInv'
  BY DEF IInv, TypeOK, ListInv, LockInv, DriveInv, SignalInv, First, Drivers,
          Completing, StuckSend
<1>5. SignalInv'
  BY DEF IInv, TypeOK, ListInv, DriveInv, LockInv, SignalInv, First, Drivers,
          Completing, IrqPcs
<1>6. PointerInv'
  BY DEF IInv, TypeOK, ListInv, PointerInv, First
<1>7. WaitersCounted'
  BY CountKept DEF IInv, TypeOK
<1> QED BY <1>1, <1>2, <1>3, <1>4, <1>5, <1>6, <1>7 DEF IInv

LEMMA FlushBeginIInv ==
  ASSUME NEW t \in Threads, IInv, "FLUSH" \notin Calls, FlushBegin(t)
  PROVE  IInv'
<1> USE Basics DEF FlushBegin, At, Goto, Drained, opVars, deviceVars, Contexts
<1>a. active = <<>>
  <2> SUFFICES ASSUME active # <<>> PROVE FALSE
    OBVIOUS
  <2>1. First \in Ids /\ First < next_id
    BY HeadIsFirst DEF IInv
  <2>2. flag[First] /\ ~flag[First]
    BY <2>1 DEF IInv, ListInv, TypeOK
  <2> QED BY <2>2
<1>b. ActiveIds \cup inactive \subseteq Ids
  BY <1>a DEF ActiveIds, IInv, TypeOK
<1>1. TypeOK'
  BY <1>b DEF IInv, TypeOK, ThreadPcs
<1>2. ListInv'
  BY DEF IInv, TypeOK, ListInv, First
<1>3. LockInv'
  BY <1>a DEF IInv, TypeOK, LockInv, First
<1>4. DriveInv'
  BY DEF IInv, TypeOK, ListInv, LockInv, DriveInv, SignalInv, First, Drivers,
          Completing, StuckSend
<1>5. SignalInv'
  BY DEF IInv, TypeOK, ListInv, DriveInv, LockInv, SignalInv, First, Drivers,
          Completing, IrqPcs
<1>6. PointerInv'
  BY DEF IInv, TypeOK, ListInv, PointerInv, First
<1>7. WaitersCounted'
  BY CountKept DEF IInv, TypeOK
<1> QED BY <1>1, <1>2, <1>3, <1>4, <1>5, <1>6, <1>7 DEF IInv

LEMMA FlushVisitIInv ==
  ASSUME NEW t \in Threads, NEW i \in Ids, IInv, FlushVisit(t, i)
  PROVE  IInv'
<1> USE Basics DEF FlushVisit, At, Goto, Holds, queueVars, opVars, deviceVars,
          IsNext, Contexts
<1>a. /\ active = <<>> /\ lock = t /\ i \in inactive /\ First = next_id /\ i < next_id
  <2>1. lock = t /\ active = <<>>
    BY DEF IInv, LockInv
  <2>2. First = next_id
    BY <2>1 DEF First, IInv, TypeOK
  <2>3. i \in inactive
    BY <2>1 DEF ActiveIds
  <2>4. i \in Nat /\ next_id \in Nat
    BY DEF IInv, TypeOK
  <2> QED BY <2>1, <2>2, <2>3, <2>4 DEF IInv, ListInv
<1>b. /\ \A x \in Contexts : x # t => pc'[x] = pc[x] /\ cur'[x] = cur[x]
      /\ \/ pc'[t] = "drop" /\ cur'[t] = i
         \/ pc'[t] = pc[t] /\ cur'[t] = cur[t]
      /\ pc' \in [Contexts -> ThreadPcs \cup IrqPcs]
      /\ cur' \in [Contexts -> Ids \cup {None}]
  <2>1. CASE nwaiting[i] = 0
    <3>1. pc' = [pc EXCEPT ![t] = "drop"] /\ cur' = [cur EXCEPT ![t] = i]
      BY <2>1
    <3>2. /\ pc \in [Contexts -> ThreadPcs \cup IrqPcs] /\ "drop" \in ThreadPcs
          /\ cur \in [Contexts -> Ids \cup {None}]
      BY DEF IInv, TypeOK, ThreadPcs
    <3> HIDE DEF FlushVisit
    <3> QED BY <3>1, <3>2
  <2>2. CASE nwaiting[i] # 0
    BY <2>2 DEF IInv, TypeOK
  <2> QED BY <2>1, <2>2
<1>1. TypeOK'
  <2>1. todo' \in [Threads -> SUBSET Ids]
    BY DEF IInv, TypeOK
  <2>2. pc'[Irq] \in IrqPcs /\ \A x \in Threads : pc'[x] \in ThreadPcs
    BY <1>b DEF IInv, TypeOK, ThreadPcs
  <2> QED BY <1>b, <2>1, <2>2 DEF IInv, TypeOK
<1>2. ListInv'
  <2>1. pc'[Irq] = pc[Irq] /\ cur'[Irq] = cur[Irq] /\ First' = First
    BY <1>b DEF First
  <2>2. UNCHANGED <<active, inactive, next_id, mem, flag, ran>>
    OBVIOUS
  <2>3. ListInv
    BY DEF IInv
  <2> HIDE DEF FlushVisit
  <2> QED BY <2>1, <2>2, <2>3 DEF ListInv
<1>3. LockInv'
  <2>1. UNCHANGED <<active, next_id, lock>> /\ pc[t] = "flush" /\ First' = First
    BY DEF First
  <2>2. LockInv
    BY DEF IInv
  <2> HIDE DEF FlushVisit
  <2> QED BY <1>b, <2>1, <2>2 DEF LockInv
<1>4. DriveInv'
  BY DEF IInv, TypeOK, ListInv, LockInv, DriveInv, SignalInv, First, Drivers,
          Completing, StuckSend
<1>5. SignalInv'
  BY DEF IInv, TypeOK, ListInv, DriveInv, LockInv, SignalInv, First, Drivers,
          Completing, IrqPcs
<1>6. PointerInv'
  BY <1>a, <1>b DEF IInv, PointerInv
<1>7. WaitersCounted'
  BY CountKept DEF IInv, TypeOK
<1> QED BY <1>1, <1>2, <1>3, <1>4, <1>5, <1>6, <1>7 DEF IInv

LEMMA FlushDropIInv ==
  ASSUME NEW t \in Threads, IInv, FlushDrop(t)
  PROVE  IInv'
<1> USE Basics DEF FlushDrop, At, Valid, Goto, Holds, Unlink, deviceVars, Contexts
<1>a. /\ active = <<>> /\ lock = t /\ cur[t] \in Ids /\ cur[t] < next_id
      /\ First = next_id /\ pc[Irq] # "flag"
  <2>1. pc[t] = "drop" /\ TypeOK /\ LockInv /\ PointerInv
    BY DEF IInv
  <2>2. lock = t /\ cur[t] \in Ids /\ cur[t] < next_id
    BY <2>1 DEF LockInv, PointerInv
  <2>3. active = <<>> /\ pc[Irq] # "flag"
    BY <2>1, <2>2 DEF LockInv
  <2>4. First = next_id
    BY <2>1, <2>3 DEF First, TypeOK
  <2> QED BY <2>2, <2>3, <2>4
<1>b. /\ cur[t] \in inactive /\ inactive' = inactive \ {cur[t]}
      /\ UNCHANGED <<active, pages>>
  BY <1>a
<1>1. TypeOK'
  BY <1>b DEF IInv, TypeOK, ThreadPcs
<1>2. ListInv'
  <2>1. First' = First
    BY <1>b DEF First
  <2>2. ASSUME NEW i \in Ids
        PROVE  /\ i >= next_id => mem'[i] = "none"
               /\ i \in First .. next_id - 1 => mem'[i] = "live"
               /\ i >= First => ~flag[i] /\ i \notin inactive'
               /\ i < First =>
                    /\ i \in ran
                    /\ mem'[i] # "none" /\ (mem'[i] = "live" <=> i \in inactive')
                    /\ flag[i] \/ (pc'[Irq] = "flag" /\ cur'[Irq] = i /\ mem'[i] = "live")
    BY <1>a, <1>b DEF IInv, ListInv, TypeOK
  <2> QED BY <1>b, <2>1, <2>2 DEF ListInv, IInv
<1>3. LockInv'
  BY DEF IInv, TypeOK, ListInv, LockInv, First
<1>4. DriveInv'
  BY DEF IInv, TypeOK, ListInv, LockInv, DriveInv, SignalInv, First, Drivers,
          Completing, StuckSend
<1>5. SignalInv'
  BY DEF IInv, TypeOK, ListInv, DriveInv, LockInv, SignalInv, First, Drivers,
          Completing, IrqPcs
<1>6. PointerInv'
  BY DEF IInv, TypeOK, ListInv, PointerInv, First
<1>7. WaitersCounted'
  BY CountKept DEF IInv, TypeOK
<1> QED BY <1>1, <1>2, <1>3, <1>4, <1>5, <1>6, <1>7 DEF IInv

LEMMA FlushEndIInv ==
  ASSUME NEW t \in Threads, IInv, FlushEnd(t)
  PROVE  IInv'
<1> USE Basics DEF FlushEnd, At, Goto, opVars, deviceVars, Contexts
<1>1. TypeOK'
  BY DEF IInv, TypeOK, ThreadPcs, IrqPcs
<1>2. ListInv'
  BY DEF IInv, TypeOK, ListInv, First
<1>3. LockInv'
  BY DEF IInv, TypeOK, ListInv, LockInv, First
<1>4. DriveInv'
  BY DEF IInv, TypeOK, ListInv, LockInv, DriveInv, SignalInv, First, Drivers,
          Completing, StuckSend
<1>5. SignalInv'
  BY DEF IInv, TypeOK, ListInv, DriveInv, LockInv, SignalInv, First, Drivers,
          Completing, IrqPcs
<1>6. PointerInv'
  BY DEF IInv, TypeOK, ListInv, PointerInv, First
<1>7. WaitersCounted'
  BY CountKept DEF IInv, TypeOK
<1> QED BY <1>1, <1>2, <1>3, <1>4, <1>5, <1>6, <1>7 DEF IInv

LEMMA UseAfterFreeIInv ==
  ASSUME NEW c \in Contexts, IInv, UseAfterFree(c)
  PROVE  IInv'
<1> USE Basics DEF UseAfterFree, queueVars, opVars, ctxVars, deviceVars, Contexts
<1>1. TypeOK'
  BY DEF IInv, TypeOK, ThreadPcs, IrqPcs
<1>2. ListInv'
  BY DEF IInv, TypeOK, ListInv, First
<1>3. LockInv'
  BY DEF IInv, TypeOK, ListInv, LockInv, First
<1>4. DriveInv'
  BY DEF IInv, TypeOK, ListInv, LockInv, DriveInv, SignalInv, First, Drivers,
          Completing, StuckSend
<1>5. SignalInv'
  BY DEF IInv, TypeOK, ListInv, DriveInv, LockInv, SignalInv, First, Drivers,
          Completing, IrqPcs
<1>6. PointerInv'
  BY DEF IInv, TypeOK, ListInv, PointerInv, First
<1>7. WaitersCounted'
  BY CountKept DEF IInv, TypeOK
<1> QED BY <1>1, <1>2, <1>3, <1>4, <1>5, <1>6, <1>7 DEF IInv

-----------------------------------------------------------------------------

LEMMA StartIInv ==
  ASSUME NEW c \in Contexts, IInv, Start(c)
  PROVE  IInv'
  BY SetupIInv, RefuseIInv, MapIInv, RingIInv, RunEndIInv DEF Start

LEMMA NextIInv ==
  ASSUME "FLUSH" \notin Calls, IInv, [Next]_vars
  PROVE  IInv'
<1>1. CASE IrqStep
  <2>1. Irq \in Contexts
    BY Basics
  <2> QED BY <1>1, <2>1, StartIInv, StoreIInv, IrqEntryIInv, IrqCheckIInv, IrqAckIInv,
          OpsNextEmptyIInv, OpsNextIInv, SetFlagIInv, WakeUpIInv, UseAfterFreeIInv
     DEF IrqStep
<1>2. ASSUME NEW t \in Threads, Call(t) PROVE IInv'
  BY <1>2, OpsInitIInv, OpsGetIInv, FlushBeginIInv DEF Call
<1>3. ASSUME NEW t \in Threads, KernelStep(t) PROVE IInv'
  <2>1. t \in Contexts
    BY DEF Contexts
  <2> QED BY <1>3, <2>1, StartIInv, ReturnIInv, AddWaiterIInv, SleepIInv, WokenIInv, DelFreeIInv,
          FlushVisitIInv, FlushDropIInv, FlushEndIInv, UseAfterFreeIInv
     DEF KernelStep
<1>4. CASE UNCHANGED vars
  <2> USE <1>4 DEF vars, queueVars, opVars, ctxVars, deviceVars
  <2>1. TypeOK'
    BY DEF IInv, TypeOK
  <2>2. First' = First /\ Drivers' = Drivers /\ Completing' = Completing
        /\ StuckSend' = StuckSend
    BY DEF First, Drivers, Completing, StuckSend
  <2>3. ListInv'
    BY <2>2 DEF IInv, ListInv
  <2>4. LockInv' /\ SignalInv' /\ PointerInv'
    BY <2>2 DEF IInv, LockInv, SignalInv, PointerInv
  <2>5. DriveInv'
    BY <2>2 DEF IInv, DriveInv
  <2>6. WaitersCounted'
    BY CountKept DEF IInv
  <2> QED BY <2>1, <2>3, <2>4, <2>5, <2>6 DEF IInv
<1> QED BY <1>1, <1>2, <1>3, <1>4 DEF Next

\* The inductive invariant holds in every reachable state.
THEOREM QueueInvariant ==
  ASSUME "FLUSH" \notin Calls PROVE Spec => []IInv
<1>1. Init => IInv
  BY InitIInv
<1>2. IInv /\ [Next]_vars => IInv'
  BY NextIInv
<1> QED BY <1>1, <1>2, PTL DEF Spec

\* The variables keep their types; in particular no waiter count goes
\* below zero.
THEOREM QueueTypeOK ==
  ASSUME "FLUSH" \notin Calls PROVE Spec => []TypeOK
<1>1. IInv => TypeOK
  BY DEF IInv
<1> QED BY <1>1, QueueInvariant, PTL

\* The device serves one operation at a time, the head of the active list.
THEOREM QueueOneRunAtATime ==
  ASSUME "FLUSH" \notin Calls PROVE Spec => []OneRunAtATime
<1>1. ASSUME IInv PROVE OneRunAtATime
  <2>1. active # <<>> => Head(active) = First
    BY <1>1, HeadIsFirst DEF IInv
  <2> QED BY <1>1, <2>1 DEF IInv, DriveInv, OneRunAtATime
<1> QED BY <1>1, QueueInvariant, PTL

\* A non-empty active list is being worked on, unless a send was refused.
THEOREM QueueSomebodyDrives ==
  ASSUME "FLUSH" \notin Calls PROVE Spec => []SomebodyDrives
<1>1. IInv => SomebodyDrives
  BY DEF IInv, DriveInv, SomebodyDrives
<1> QED BY <1>1, QueueInvariant, PTL

\* A run uses the mapped pages of the op whose doorbell was rung.
THEOREM QueueDmaIntoMappedPages ==
  ASSUME "FLUSH" \notin Calls PROVE Spec => []DmaIntoMappedPages
<1>1. ASSUME IInv PROVE DmaIntoMappedPages
  <2> SUFFICES ASSUME NEW c \in Contexts, pc[c] = "running"
               PROVE  /\ cfg_op = cur[c] /\ mem[cfg_op] = "live"
                      /\ pages[cfg_op] = "mapped"
                      /\ cfg_mode = "ACTIVE" <=> cmd[cfg_op] = "SEND"
    BY DEF DmaIntoMappedPages
  <2>1. c \in Drivers
    BY DEF Drivers
  <2>2. /\ active # <<>> /\ cur[c] = First /\ cfg_op = First
        /\ pages[First] = "mapped"
        /\ cfg_mode = "ACTIVE" <=> cmd[First] = "SEND"
    BY <1>1, <2>1 DEF IInv, DriveInv
  <2>3. mem[First] = "live"
    BY <1>1, <2>2, HeadIsFirst DEF IInv, ListInv, TypeOK
  <2> QED BY <2>2, <2>3
<1> QED BY <1>1, QueueInvariant, PTL

\* Up to the moment it is flagged, whoever works on an op works on memory that
\* nobody has freed.
THEOREM QueueStartersHoldLiveOps ==
  ASSUME "FLUSH" \notin Calls PROVE Spec => []StartersHoldLiveOps
<1>1. ASSUME IInv PROVE StartersHoldLiveOps
  <2> SUFFICES ASSUME NEW c \in Contexts,
                      pc[c] \in {"setup", "map", "ring", "running", "store", "flag"}
               PROVE  mem[cur[c]] = "live"
    BY DEF StartersHoldLiveOps
  <2>1. active # <<>> => mem[First] = "live"
    BY <1>1, HeadIsFirst DEF IInv, ListInv, TypeOK
  <2>2. CASE c \in Drivers
    BY <1>1, <2>1, <2>2 DEF IInv, DriveInv
  <2>3. CASE pc[c] \in {"store", "flag"}
    <3>1. c = Irq
      BY <1>1, <2>3, Basics DEF IInv, TypeOK, ThreadPcs, Contexts
    <3>2. CASE pc[Irq] = "store"
      BY <1>1, <2>1, <3>1, <3>2 DEF IInv, SignalInv, DriveInv, Completing
    <3>3. CASE pc[Irq] = "flag"
      BY <1>1, <3>1, <3>3 DEF IInv, LockInv, ListInv
    <3> QED BY <2>3, <3>1, <3>2, <3>3
  <2> QED BY <2>2, <2>3 DEF Drivers
<1> QED BY <1>1, QueueInvariant, PTL

\* An op is reported complete only when its run has ended, and the engine is
\* never at work on the pages of one that was reported.
THEOREM QueueCompletedHasRun ==
  ASSUME "FLUSH" \notin Calls PROVE Spec => []CompletedHasRun
<1>1. ASSUME IInv PROVE CompletedHasRun
  <2> SUFFICES ASSUME NEW i \in Ids, flag[i]
               PROVE  /\ i \in ran
                      /\ \A c \in Contexts : ~(pc[c] = "running" /\ cfg_op = i)
    BY DEF CompletedHasRun
  <2>1. i < First /\ i \in ran /\ i \in Nat /\ First \in Nat
    BY <1>1, Basics DEF IInv, ListInv
  <2>2. ASSUME NEW c \in Contexts, pc[c] = "running" PROVE cfg_op = First
    BY <1>1, <2>2 DEF IInv, DriveInv, Drivers
  <2> QED BY <2>1, <2>2
<1> QED BY <1>1, QueueInvariant, PTL

\* No wake-up is lost: a waiter of an unflagged op will be found by the handler,
\* and a sleeper of a flagged one is about to be woken.
THEOREM QueueSleepersCanBeWoken ==
  ASSUME "FLUSH" \notin Calls PROVE Spec => []SleepersCanBeWoken
<1>1. ASSUME IInv PROVE SleepersCanBeWoken
  <2> SUFFICES ASSUME NEW i \in Ids, NEW t \in Threads, cur[t] = i,
                      pc[t] \in {"test", "sleep"}
               PROVE  /\ ~flag[i] =>
                           /\ mem[i] = "live"
                           /\ i \in ActiveIds \/ (pc[Irq] = "flag" /\ cur[Irq] = i)
                      /\ flag[i] /\ pc[t] = "sleep" => pc[Irq] = "wake" /\ cur[Irq] = i
    BY DEF SleepersCanBeWoken, Waiters
  <2>1. i < next_id /\ i \in Nat /\ next_id \in Nat /\ First \in Nat
    BY <1>1, Basics DEF IInv, PointerInv, TypeOK, ListInv
  <2>2. CASE i < First /\ ~flag[i]
    BY <1>1, <2>1, <2>2 DEF IInv, ListInv
  <2>3. CASE i >= First /\ ~flag[i]
    <3>1. i \in First .. next_id - 1
      BY <2>1, <2>3
    <3>2. i \in ActiveIds
      BY <1>1, <3>1, ActiveIsInterval DEF IInv
    <3> QED BY <1>1, <2>1, <2>3, <3>1, <3>2 DEF IInv, ListInv
  <2>4. CASE flag[i]
    BY <1>1, <2>4 DEF IInv, PointerInv
  <2> QED BY <2>1, <2>2, <2>3, <2>4
<1> QED BY <1>1, QueueInvariant, PTL

\* op->nwaiting counts exactly the threads registered to wait.
THEOREM QueueWaitersCounted ==
  ASSUME "FLUSH" \notin Calls PROVE Spec => []WaitersCounted
<1>1. IInv => WaitersCounted
  BY DEF IInv
<1> QED BY <1>1, QueueInvariant, PTL

\* An op is linked in exactly one list for as long as it is allocated.
THEOREM QueueLinkedWhileLive ==
  ASSUME "FLUSH" \notin Calls PROVE Spec => []LinkedWhileLive
<1>1. ASSUME IInv PROVE LinkedWhileLive
  <2>1. ActiveIds = First .. next_id - 1 /\ next_id \in Nat /\ First \in Nat
    BY <1>1, ActiveIsInterval DEF IInv, TypeOK, ListInv
  <2>2. ASSUME NEW i \in Ids
        PROVE  /\ ~(i \in inactive /\ i \in ActiveIds)
               /\ mem[i] = "live" <=> i \in ActiveIds \cup inactive
    <3>1. i \in Nat
      BY Basics
    <3>2. CASE i < First
      BY <1>1, <2>1, <3>1, <3>2 DEF IInv, ListInv
    <3>3. CASE i \in First .. next_id - 1
      BY <1>1, <2>1, <3>1, <3>3 DEF IInv, ListInv
    <3>4. CASE i >= next_id /\ i >= First
      BY <1>1, <2>1, <3>1, <3>4 DEF IInv, ListInv
    <3> QED BY <2>1, <3>1, <3>2, <3>3, <3>4
  <2>3. inactive \subseteq Ids
    BY <1>1 DEF IInv, TypeOK
  <2> QED BY <2>2, <2>3 DEF LinkedWhileLive
<1> QED BY <1>1, QueueInvariant, PTL

\* Operations are kept, and completed, in the order of their submission.
THEOREM QueueSubmissionOrder ==
  ASSUME "FLUSH" \notin Calls PROVE Spec => []SubmissionOrder
<1>1. ASSUME IInv PROVE SubmissionOrder
  <2>1. /\ ActiveIds = First .. next_id - 1 /\ next_id \in Nat /\ First \in Nat
        /\ DOMAIN active = 1 .. Len(active) /\ Len(active) \in Nat
    BY <1>1, ActiveIsInterval DEF IInv, TypeOK, ListInv
  <2>2. \A j, k \in DOMAIN active : j < k => active[j] < active[k]
    BY <1>1, <2>1 DEF IInv, ListInv
  <2>3. \A i \in inactive : i \in Nat /\ i < First
    BY <1>1, <2>1, Basics DEF IInv, ListInv, TypeOK
  <2> QED BY <2>1, <2>2, <2>3 DEF SubmissionOrder
<1> QED BY <1>1, QueueInvariant, PTL

\* With a drained flush only psipe_ops_fini unmaps pages that were not yet,
\* and they are those of the operation whose run has ended.
THEOREM QueueUnmapOnlyMapped ==
  ASSUME "FLUSH" \notin Calls PROVE Spec => UnmapOnlyMapped
<1> DEFINE Unmaps(i) == pages'[i] = "released" /\ pages[i] # "released"
<1>1. ASSUME IInv, OpsNext, NEW i \in Ids, Unmaps(i) PROVE pages[i] = "mapped"
  <2>1. Head(active) = First /\ First \in Ids
    BY <1>1, HeadIsFirst DEF OpsNext, IInv
  <2>2. pages[First] = "mapped"
    BY <1>1 DEF OpsNext, At, IInv, DriveInv, Completing
  <2>3. i = First
    BY <1>1, <2>1 DEF OpsNext, IInv, TypeOK
  <2> QED BY <2>2, <2>3
<1>2. ASSUME IInv, NEW t \in Threads, FlushDrop(t), NEW i \in Ids
      PROVE  ~Unmaps(i)
  <2>1. active = <<>>
    BY <1>2 DEF FlushDrop, At, IInv, LockInv
  <2> QED BY <1>2, <2>1 DEF FlushDrop
<1>3. ASSUME IInv, NEW t \in Threads, NEW call, OpsInit(t, call), NEW i \in Ids
      PROVE  ~Unmaps(i)
  BY <1>3 DEF OpsInit, IInv, TypeOK
<1>4. ASSUME IInv, NEW c \in Contexts, Start(c), NEW i \in Ids
      PROVE  ~Unmaps(i)
  <2>1. CASE Map(c)
    BY <1>4, <2>1 DEF Map, MapPages, IInv, TypeOK
  <2>2. CASE ~Map(c)
    BY <1>4, <2>2 DEF Start, Setup, Refuse, Ring, RunEnd, opVars
  <2> QED BY <2>1, <2>2
<1>5. ASSUME IInv, IrqStep, ~OpsNext, NEW i \in Ids PROVE ~Unmaps(i)
  BY <1>5, <1>4, Basics DEF IrqStep, IrqEntry, IrqCheck, IrqAck, OpsNextEmpty,
     SetFlag, WakeUp, Store, UseAfterFree, opVars
<1>6. ASSUME IInv, NEW t \in Threads, Call(t), NEW i \in Ids PROVE ~Unmaps(i)
  BY <1>6, <1>3 DEF Call, OpsGet, FlushBegin, opVars
<1>7. ASSUME IInv, NEW t \in Threads, KernelStep(t), NEW i \in Ids
      PROVE  ~Unmaps(i)
  BY <1>7, <1>2, <1>4, Basics DEF KernelStep, Return, AddWaiter, Sleep, Woken, DelFree,
     FlushVisit, FlushEnd, UseAfterFree, opVars
<1>8. IInv /\ [Next]_vars =>
        [\A i \in Ids : Unmaps(i) => pages[i] = "mapped"]_vars
  BY <1>1, <1>5, <1>6, <1>7 DEF Next
<1> QED BY <1>8, QueueInvariant, PTL DEF Spec, UnmapOnlyMapped

-----------------------------------------------------------------------------
(* The queue implements PsipeJobs.                                          *)

\* The retired jobs are those handed out before the head of the active list.
Retired == {i \in Ids : i < next_id /\ i \notin ActiveIds}

LEMMA RetiredIsPrefix ==
  TypeOK /\ ListInv =>
    Retired = {i \in Ids : i < First} /\ First <= next_id /\ next_id \in Nat
<1> SUFFICES ASSUME TypeOK, ListInv
    PROVE  Retired = {i \in Ids : i < First} /\ First <= next_id /\ next_id \in Nat
  OBVIOUS
<1>1. ActiveIds = First .. next_id - 1 /\ next_id \in Nat /\ First \in Nat
      /\ Len(active) \in Nat
  BY ActiveIsInterval DEF TypeOK, ListInv
<1>2. First <= next_id
  BY <1>1 DEF First
<1>3. \A i \in Ids : (i < next_id /\ i \notin ActiveIds) <=> i < First
  BY <1>1, <1>2, Basics
<1> QED BY <1>1, <1>2, <1>3 DEF Retired

\* Steps that touch nothing the callers are promised.
LEMMA JobsStutter ==
  ASSUME UNCHANGED <<active, next_id, ran, flag>>
  PROVE  UNCHANGED Jobs!vars
  BY DEF Jobs!vars, ActiveIds

LEMMA OpsInitSubmits ==
  ASSUME IInv, IInv', NEW t \in Threads, NEW call, OpsInit(t, call)
  PROVE  Jobs!Submit(next_id) /\ next_id \in Ids
<1>a. (TypeOK /\ ListInv =>
         Retired = {i \in Ids : i < First} /\ First <= next_id /\ next_id \in Nat)'
  BY RetiredIsPrefix, PTL
<1>b. TypeOK' /\ ListInv' /\ TypeOK /\ ListInv
  BY DEF IInv
<1>c. First \in Nat /\ ActiveIds = First .. next_id - 1
  BY <1>b, ActiveIsInterval DEF ListInv
<1>1. /\ Retired = {i \in Ids : i < First} /\ Retired' = {i \in Ids : i < First}'
      /\ next_id \in Nat /\ First <= next_id /\ First \in Nat
      /\ ActiveIds = First .. next_id - 1
  BY <1>a, <1>b, <1>c, RetiredIsPrefix
<1>2. next_id \in Ids /\ active' = Append(active, next_id)
      /\ next_id' = next_id + 1 /\ UNCHANGED <<ran, flag>>
  BY <1>1, MaxOpsAssumption DEF OpsInit, AddTail, deviceVars, Ids
<1>3. First' = First
  BY <1>1, <1>2 DEF First, IInv, TypeOK
<1>4. next_id \notin ActiveIds \cup Retired
  BY <1>1, <1>2
<1>5. \A i \in Ids : i < next_id => i \in ActiveIds \cup Retired
  BY <1>1, Basics
<1>6. Retired' = Retired
  BY <1>1, <1>3
<1>7. {i \in Ids : flag[i]}' = {i \in Ids : flag[i]}
  BY <1>2
<1> QED BY <1>2, <1>4, <1>5, <1>6, <1>7
    DEF Jobs!Submit, Jobs!Queued, ActiveIds, Retired

LEMMA RunEndRuns ==
  ASSUME IInv, NEW c \in Contexts, RunEnd(c)
  PROVE  Jobs!Run
<1>1. active # <<>> /\ cfg_op = First /\ First \notin ran
  BY DEF RunEnd, At, IInv, DriveInv, Drivers
<1>2. Head(active) = First
  BY <1>1, HeadIsFirst DEF IInv
<1>3. ran' = ran \cup {First} /\ UNCHANGED <<active, next_id, flag>>
  BY <1>1 DEF RunEnd, queueVars, opVars
<1> QED BY <1>1, <1>2, <1>3 DEF Jobs!Run, ActiveIds

LEMMA OpsNextRetires ==
  ASSUME IInv, IInv', OpsNext
  PROVE  Jobs!Retire
<1>1. /\ active # <<>> /\ Head(active) = First /\ First \in Ids /\ First < next_id
      /\ Len(active) \in Nat \ {0} /\ next_id \in Nat
  BY HeadIsFirst DEF OpsNext, IInv, TypeOK
<1>2. First \in ran
  BY DEF OpsNext, At, IInv, DriveInv, Completing
<1>3. active' = Tail(active) /\ UNCHANGED <<next_id, ran, flag>>
  BY DEF OpsNext, deviceVars
<1>4. First' = First + 1 /\ First \in Nat
  BY <1>1, <1>3 DEF First, IInv, TypeOK, ListInv
<1>a. (TypeOK /\ ListInv =>
         Retired = {i \in Ids : i < First} /\ First <= next_id /\ next_id \in Nat)'
  BY RetiredIsPrefix, PTL
<1>b. TypeOK' /\ ListInv' /\ TypeOK /\ ListInv
  BY DEF IInv
<1>5. Retired = {i \in Ids : i < First} /\ Retired' = {i \in Ids : i < First}'
  BY <1>a, <1>b, RetiredIsPrefix
<1>c. \A i \in Ids : i < First + 1 <=> i < First \/ i = First
  BY <1>4, Basics
<1>6. Retired' = Retired \cup {First}
  BY <1>1, <1>4, <1>5, <1>c
<1> QED BY <1>1, <1>2, <1>3, <1>6 DEF Jobs!Retire, Retired

LEMMA SetFlagReports ==
  ASSUME IInv, SetFlag
  PROVE  (\E j \in Ids : Jobs!Report(j)) \/ UNCHANGED Jobs!vars
<1> DEFINE j == cur[Irq]
<1>1. j \in Ids /\ j < First
  BY DEF SetFlag, At, IInv, LockInv
<1>2. j \in Retired
  BY <1>1, RetiredIsPrefix DEF IInv
<1>3. flag' = [flag EXCEPT ![j] = TRUE] /\ flag \in [Ids -> BOOLEAN]
      /\ UNCHANGED <<active, next_id, ran>>
  BY DEF SetFlag, RaiseFlag, IInv, TypeOK, queueVars, deviceVars
<1>4. CASE flag[j]
  <2>1. flag' = flag
    BY <1>1, <1>3, <1>4
  <2> QED BY <1>3, <2>1, JobsStutter
<1>5. CASE ~flag[j]
  <2>1. {i \in Ids : flag'[i]} = {i \in Ids : flag[i]} \cup {j}
    BY <1>1, <1>3
  <2> QED BY <1>1, <1>2, <1>3, <1>5, <2>1 DEF Jobs!Report, Retired, ActiveIds
<1> QED BY <1>4, <1>5

LEMMA NextIsJobsNext ==
  ASSUME IInv, IInv', [Next]_vars
  PROVE  [Jobs!Next]_(Jobs!vars)
<1> DEFINE Still == UNCHANGED <<active, next_id, ran, flag>>
<1>1. ASSUME NEW c \in Contexts, Start(c) PROVE Still \/ Jobs!Run
  BY <1>1, RunEndRuns DEF Start, Setup, Refuse, Map, Ring, queueVars, opVars, deviceVars
<1>2. CASE IrqStep
  <2>1. CASE OpsNext
    BY <2>1, OpsNextRetires DEF Jobs!Next
  <2>2. CASE SetFlag
    BY <2>2, SetFlagReports DEF Jobs!Next
  <2>3. CASE Start(Irq)
    BY <2>3, <1>1, JobsStutter, Basics DEF Jobs!Next
  <2>4. CASE IrqStep /\ ~OpsNext /\ ~SetFlag /\ ~Start(Irq)
    <3>1. Still
      BY <2>4 DEF IrqStep, IrqEntry, IrqCheck, IrqAck, OpsNextEmpty, WakeUp, Store,
         UseAfterFree, queueVars, opVars, deviceVars
    <3> QED BY <3>1, JobsStutter
  <2> QED BY <1>2, <2>1, <2>2, <2>3, <2>4
<1>3. ASSUME NEW t \in Threads, Call(t) PROVE [Jobs!Next]_(Jobs!vars)
  <2>1. ASSUME NEW call, OpsInit(t, call) PROVE Jobs!Next
    BY <2>1, OpsInitSubmits DEF Jobs!Next
  <2>2. CASE (\E i \in Ids : OpsGet(t, i)) \/ FlushBegin(t)
    <3>1. Still
      BY <2>2 DEF OpsGet, FlushBegin, queueVars, opVars, deviceVars
    <3> QED BY <3>1, JobsStutter
  <2> QED BY <1>3, <2>1, <2>2 DEF Call
<1>4. ASSUME NEW t \in Threads, KernelStep(t) PROVE [Jobs!Next]_(Jobs!vars)
  <2>1. CASE Start(t)
    BY <2>1, <1>1, JobsStutter, Basics DEF Jobs!Next
  <2>2. CASE FlushDrop(t)
    <3>1. active = <<>>
      BY <2>2 DEF FlushDrop, At, IInv, LockInv
    <3>2. Still
      BY <2>2, <3>1 DEF FlushDrop, deviceVars
    <3> QED BY <3>2, JobsStutter
  <2>3. CASE KernelStep(t) /\ ~Start(t) /\ ~FlushDrop(t)
    <3>1. Still
      BY <2>3 DEF KernelStep, Return, AddWaiter, Sleep, Woken, DelFree, FlushVisit, FlushEnd,
         UseAfterFree, queueVars, opVars, deviceVars
    <3> QED BY <3>1, JobsStutter
  <2> QED BY <1>4, <2>1, <2>2, <2>3
<1>5. CASE UNCHANGED vars
  <2>1. Still
    BY <1>5 DEF vars, queueVars, opVars, deviceVars
  <2> QED BY <2>1, JobsStutter
<1> QED BY <1>2, <1>3, <1>4, <1>5 DEF Next

\* With drained flushes the queue keeps the promise of PsipeJobs: operations
\* are run one at a time, in the order of submission, each once and to its end
\* before it is reported (psipe_ops_init, psipe_ops_next, psipe_ops_fini).
THEOREM QueueServesJobsInOrder ==
  ASSUME "FLUSH" \notin Calls PROVE Spec => ServesJobsInOrder
<1>1. Init => Jobs!Init
  BY DEF Init, Jobs!Init, Ids
<1>2. IInv /\ IInv' /\ [Next]_vars => [Jobs!Next]_(Jobs!vars)
  BY NextIsJobsNext
<1> QED BY <1>1, <1>2, QueueInvariant, PTL DEF Spec, ServesJobsInOrder, Jobs!Spec
=============================================================================
