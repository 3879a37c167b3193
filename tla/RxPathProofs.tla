---------------------------- MODULE RxPathProofs ----------------------------
(***************************************************************************)
(* What TLAPS proves about RxPath: the lock of EthHandle in every setup,   *)
(* and, when one receiver serves the ring (OneReceiver), the conservation  *)
(* of the receive buffers, the sizes of queue, pool and mailbox, and that  *)
(* no descriptor is stranded, for every size of the ring.                  *)
(*                                                                         *)
(* RxInv is the inductive invariant.  The heart of it is EachOnce: a       *)
(* buffer is at one place, a descriptor, a slot of the queue, a pbuf or    *)
(* the hand of a receiver, and each step moves at most one from a place to *)
(* an empty one (Move).  Everything else tells which steps there are.      *)
(***************************************************************************)
EXTENDS RxPath, FiniteSetTheorems, TLAPS

-----------------------------------------------------------------------------
(* "%" by a constant that is not a literal is known to the solver only      *)
(* through the quotient; every index here is below twice the capacity.      *)
LEMMA Quotient ==
  ASSUME NEW C \in Nat \ {0}, NEW x \in Nat
  PROVE  /\ x = C * (x \div C) + (x % C)
         /\ x \div C \in Int
         /\ x % C \in 0 .. C - 1
  BY SMT

(* Multiples of a constant, for the comparison with the quotient.           *)
LEMMA Products ==
  ASSUME NEW C \in Nat \ {0}, NEW q \in Int
  PROVE  /\ q >= 2 => C * q >= 2 * C
         /\ q <= 0 => C * q <= 0
  BY SMT

(* Below twice C, "% C" subtracts C at most once.                           *)
LEMMA Wrap ==
  ASSUME NEW C \in Nat \ {0}, NEW x \in 0 .. 2 * C - 1
  PROVE  x % C = IF x < C THEN x ELSE x - C
<1> DEFINE q == x \div C
<1>1. x = C * q + (x % C) /\ q \in Int /\ x % C \in 0 .. C - 1
  BY Quotient
<1>2. CASE x < C
  BY <1>2
<1>3. CASE x >= C
  <2>1. ~(q >= 2) /\ ~(q <= 0)
    BY <1>1, <1>3, Products
  <2>2. q = 1
    BY <1>1, <2>1
  <2> QED
    BY <1>1, <1>3, <2>2
<1> QED
  BY <1>2, <1>3

(* The slot k after slot i.                                                 *)
Up(i, k) == IF i + k < Capacity THEN i + k ELSE i + k - Capacity

(* The slots, and the descriptors, one after the other around the ring.     *)
LEMMA Around ==
  ASSUME NEW i \in Slots
  PROVE  /\ \A k \in 0 .. Capacity - 1 : (i + k) % Capacity = Up(i, k)
         /\ \A k \in 0 .. Capacity : Up(i, k) \in Slots
         /\ Next_(i) = Up(i, 1) /\ Up(i, 0) = i /\ Up(i, Capacity) = i
         /\ (i + Capacity - 1) % Capacity = Up(i, Capacity - 1)
         /\ \A k, l \in 0 .. Capacity - 1 : Up(i, k) = Up(i, l) => k = l
         /\ \A k \in 0 .. Capacity - 1 : Up(Up(i, 1), k) = Up(i, k + 1)
         /\ \A k \in 0 .. Capacity - 1 : Up(Up(i, k), 1) = Up(i, k + 1)
         /\ Up(Up(i, 1), Capacity - 1) = i /\ Up(Up(i, Capacity - 1), 1) = i
<1>1. i \in Int /\ i >= 0 /\ i < Capacity /\ Capacity \in Nat \ {0}
  BY QueueAssumption DEF Slots
<1>2. \A x \in 0 .. 2 * Capacity - 1 :
        x % Capacity = IF x < Capacity THEN x ELSE x - Capacity
  BY <1>1, Wrap
<1>3. \A k \in 0 .. Capacity - 1 : (i + k) % Capacity = Up(i, k)
  BY <1>1, <1>2 DEF Up
<1>4. (i + 1) % Capacity = Up(i, 1) /\ (i + Capacity - 1) % Capacity = Up(i, Capacity - 1)
  BY <1>1, <1>2 DEF Up
<1>5. /\ \A k \in 0 .. Capacity : Up(i, k) \in Slots
      /\ Up(i, 0) = i /\ Up(i, Capacity) = i
      /\ \A k, l \in 0 .. Capacity - 1 : Up(i, k) = Up(i, l) => k = l
  BY <1>1 DEF Up, Slots
<1>6. /\ \A k \in 0 .. Capacity - 1 : Up(Up(i, 1), k) = Up(i, k + 1)
      /\ \A k \in 0 .. Capacity - 1 : Up(Up(i, k), 1) = Up(i, k + 1)
      /\ Up(Up(i, 1), Capacity - 1) = i /\ Up(Up(i, Capacity - 1), 1) = i
  BY <1>1 DEF Up
<1> QED
  BY <1>3, <1>4, <1>5, <1>6 DEF Next_

(* The counters wrap, and their difference does not notice.                 *)
LEMMA Wraps ==
  ASSUME QTypeOK
  PROVE  /\ Count \in 0 .. CntMod - 1
         /\ IsEmpty <=> Count = 0
         /\ Count < Capacity => ~IsFull
         /\ (put_cnt + 1) % CntMod = (IF put_cnt + 1 < CntMod THEN put_cnt + 1 ELSE 0)
         /\ (get_cnt + 1) % CntMod = (IF get_cnt + 1 < CntMod THEN get_cnt + 1 ELSE 0)
<1>1. /\ put_cnt \in Int /\ put_cnt >= 0 /\ put_cnt < CntMod
      /\ get_cnt \in Int /\ get_cnt >= 0 /\ get_cnt < CntMod
      /\ CntMod \in Nat \ {0} /\ CntMod >= 2 /\ Capacity \in Nat \ {0}
  BY QueueAssumption DEF QTypeOK
<1>2. \A x \in 0 .. 2 * CntMod - 1 : x % CntMod = IF x < CntMod THEN x ELSE x - CntMod
  BY <1>1, Wrap
<1>3. /\ (put_cnt + 1) % CntMod = (IF put_cnt + 1 < CntMod THEN put_cnt + 1 ELSE 0)
      /\ (get_cnt + 1) % CntMod = (IF get_cnt + 1 < CntMod THEN get_cnt + 1 ELSE 0)
  BY <1>1, <1>2
<1>4. Count \in 0 .. CntMod - 1 /\ (IsEmpty <=> Count = 0) /\ (Count < Capacity => ~IsFull)
  BY <1>1 DEF Count, IsEmpty, IsFull
<1> QED
  BY <1>3, <1>4

-----------------------------------------------------------------------------

(* The four contexts, and who preempts whom.                                *)
LEMMA Ctx ==
  /\ Contexts = {"isr", "eth", "tcpip", "app"}
  /\ Above("isr") = {} /\ Above("tcpip") = {"isr"} /\ Above("eth") = {"isr", "tcpip"}
  /\ Above("app") = {"isr", "tcpip", "eth"}
  BY RxAssumption DEF Above

-----------------------------------------------------------------------------
(* The lock of EthHandle.  It is somebody's: of a receiver at the           *)
(* descriptors, of a transmission, or of the interrupt handler, which will  *)
(* unlock at its end whoever had locked.                                    *)
LockHeld ==
  /\ pc \in [Contexts -> PcSteps]
  /\ locked => \/ pc["eth"] = "scan" \/ pc["tcpip"] = "tx"
               \/ pc["isr"] \in {"scan", "exit"}

(* A step that leaves the lock alone, by somebody who has not got it.       *)
LEMMA LockKept ==
  ASSUME LockHeld, UNCHANGED locked, NEW c \in Contexts, NEW s \in PcSteps,
         pc[c] \notin {"scan", "tx", "exit"}, pc' \in {pc, [pc EXCEPT ![c] = s]}
  PROVE  LockHeld'
  BY Ctx DEF LockHeld

(* At the start nobody has locked EthHandle.                                *)
LEMMA LockInit == Init => LockHeld
  BY DEF Init, LockHeld, PcSteps

(* HAL_ETH_GetReceivedFrame_IT, HAL_ETH_TransmitFrame2 and the end of       *)
(* HAL_ETH_IRQHandler are all that touch the lock.                          *)
LEMMA LockNext == LockHeld /\ [Next]_vars => LockHeld'
<1> SUFFICES ASSUME LockHeld, [Next]_vars PROVE LockHeld'
  OBVIOUS
<1> USE DEF Jump, Leave, halVars
<1>1. CASE DmaReceive \/ DmaStarved \/ UNCHANGED vars
  BY <1>1 DEF DmaReceive, DmaStarved, vars, LockHeld
<1>2. CASE IrqEnter \/ EthPoll \/ TcpipFetch \/ AppRead
  <2>1. \A s \in {"enter", "free"} : s \in PcSteps
    BY DEF PcSteps
  <2> QED
    BY <1>2, <2>1, Ctx, LockKept DEF IrqEnter, EthPoll, TcpipFetch, AppRead, Runs
<1>3. CASE IrqReturn \/ TxUnlock \/ TxLock
  BY <1>3, Ctx DEF IrqReturn, TxUnlock, TxLock, Runs, LockHeld, PcSteps
<1>4. ASSUME NEW c \in Receivers, Input(c) PROVE LockHeld'
  <2>1. c \in Contexts /\ \A s \in {"lock", "check", "release", "empty", "get", "addr",
                             "resume", "input", "enter", "exit", "idle", "free"} : s \in PcSteps
    BY Ctx DEF Receivers, PcSteps
  <2>2. CASE HalLock(c)
    BY <2>2, Ctx DEF HalLock, Runs, LockHeld, PcSteps, Receivers
  <2>3. CASE ScanNone(c) \/ ScanLast(c)
    BY <2>3, <2>1 DEF ScanNone, ScanLast, Runs, LockHeld, PcSteps
  <2>4. CASE ScanFirst(c)
    BY <2>4 DEF ScanFirst, LockHeld
  <2>5. CASE RxEnter(c) \/ RxRead(c) \/ RxReject(c) \/ RxAlloc(c)
    BY <2>1, <2>5, LockKept DEF RxEnter, RxRead, RxReject, RxAlloc, Runs
  <2>6. CASE RxNoBuffer(c) \/ RxHasBuffer(c) \/ RxGet(c) \/ RxAddr(c)
    BY <2>1, <2>6, LockKept DEF RxNoBuffer, RxHasBuffer, RxGet, RxAddr, Runs
  <2>7. CASE RxRelease(c) \/ RxResume(c) \/ RxInput(c)
    BY <2>1, <2>7, LockKept DEF RxRelease, RxResume, RxInput, Runs
  <2> QED
    BY <1>4, <2>2, <2>3, <2>4, <2>5, <2>6, <2>7 DEF Input
<1>5. ASSUME NEW c \in Contexts, Free(c) PROVE LockHeld'
  <2>1. \A s \in {"put", "unpool", "enter", "idle"} : s \in PcSteps
    BY DEF PcSteps
  <2> QED
    BY <1>5, <2>1, LockKept DEF Free, FreeCall, FreePut, FreePbuf, Runs
<1> QED
  BY <1>1, <1>2, <1>3, <1>4, <1>5 DEF Next

(* In every setup: when every context is done, EthHandle is unlocked, so    *)
(* that the next receive or transmit call does not fail with HAL_BUSY.      *)
THEOREM LockCorrect == Spec => []LockReleased
<1>1. LockHeld => LockReleased
  BY Ctx DEF LockHeld, LockReleased
<1> QED
  BY <1>1, LockInit, LockNext, PTL DEF Spec

-----------------------------------------------------------------------------
(* The setups the proofs are about: no pbuf reaches the user's thread; and  *)
(* either the DMA interrupt alone receives, and keeps up with frames that   *)
(* fit their buffers, or ethernet_thread alone does.                        *)
OneReceiver ==
  \A s \in Setups : ~s.app /\ (s.it => ~s.long /\ s.unread < Capacity)

(* The mailbox has room for what the descriptors hold.                      *)
Sizes == Capacity >= 2 /\ MboxSize >= Capacity

Receiver == IF setup.it THEN "isr" ELSE "eth"
Other == IF setup.it THEN "eth" ELSE "isr"

(* Who runs: one receiver, and tcpip.                                       *)
Control ==
  /\ ~setup.app /\ (setup.it => ~setup.long /\ setup.unread < Capacity)
  /\ (setup.it => ~rbus) /\ (~setup.it => ~irq)
  /\ pc["app"] = "idle" /\ pc[Other] = "idle"
  /\ pc["tcpip"] \in {"idle", "free", "put", "unpool", "tx"}
  /\ pc[Receiver] \notin {"free", "put", "unpool", "tx"}
  /\ info.seg = 2 => pc[Receiver] \in {"read", "check", "release"}
  /\ pc[Receiver] = "lock" => info.seg = 0
  /\ pc[Receiver] \in {"empty", "get", "addr"} => info.seg = 1

(* The pbufs that the contexts work on are theirs.                          *)
PoolOK ==
  /\ p["app"] = NoPbuf /\ p[Other] = NoPbuf
  /\ p["tcpip"] # NoPbuf <=> pc["tcpip"] \in {"free", "put", "unpool"}
  /\ pc[Receiver] \in {"empty", "get", "addr", "input"} => p[Receiver] # NoPbuf
  /\ p[Receiver] # NoPbuf =>
       /\ pc[Receiver] \in {"empty", "get", "addr", "release", "resume", "input"}
       /\ p[Receiver] # p["tcpip"]
  /\ \A c \in Contexts : p[c] # NoPbuf => holder[p[c]] = "driver"
  /\ \A x \in Pbufs : holder[x] # "app"

(* The frame that is being read is the CPU's, and its buffer is known.      *)
FrameOK ==
  /\ \/ pc[Receiver] \in {"read", "check", "empty", "get", "addr"}
     \/ pc[Receiver] = "scan" /\ info.seg = 1
     => own[info.fs] = "cpu"
  /\ pc[Receiver] = "read" => info.buf = addr[info.fs]
  /\ pc[Receiver] = "check" => frame[Receiver].buf = addr[info.fs]
  /\ pc[Receiver] = "empty" => buf[p[Receiver]] = addr[info.fs]

(* The ring of the descriptors, when every frame fits one: from rxDesc on,  *)
(* unread frames up to dmaDesc, and the frame being read just before it.    *)
Ahead(d) == IF d >= rxDesc THEN d - rxDesc ELSE d - rxDesc + Capacity

RingOK ==
  ~setup.long =>
    /\ info.seg <= 1
    /\ info.seg = 1 => Ahead(info.fs) = Capacity - 1
    /\ info.seg = 1 <=> pc[Receiver] \in {"read", "check", "empty", "get", "addr", "release"}
    /\ \A d \in Desc : kind[d] \in {"none", "good"}
    /\ \E m \in 0 .. Capacity - info.seg :
         /\ dmaDesc = Up(rxDesc, m)
         /\ \A d \in Desc : own[d] = "cpu" <=>
              Ahead(d) < m \/ (info.seg = 1 /\ d = info.fs)

UnreadOK == setup.it => Cardinality(Unread) <= setup.unread

(* The queue of spare buffers, which the receiver takes from and tcpip adds *)
(* to.  SlotAt(Count) is the slot of the next item.                         *)
QueueOK ==
  /\ Count \in 0 .. Capacity
  /\ \A c \in {"app", Other} : qpc[c] = "idle"
  /\ qpc["tcpip"] \in {"idle", "put_rear", "put_slot", "put_cnt"}
  /\ qpc[Receiver] \in {"idle", "get_item", "get_front", "get_cnt"}
  /\ qpc["tcpip"] # "idle" <=> pc["tcpip"] = "put"
  /\ qpc["tcpip"] # "idle" => Count < Capacity /\ qitem["tcpip"] = buf[p["tcpip"]]
  /\ (IF qpc["tcpip"] \in {"put_slot", "put_cnt"} THEN rear ELSE Up(rear, 1)) = Up(Oldest, Count)
  /\ qpc["tcpip"] = "put_cnt" => array[rear] = qitem["tcpip"]
  /\ qpc[Receiver] # "idle" => pc[Receiver] = "get"
  /\ pc[Receiver] = "get" => Count > 0
  /\ qpc[Receiver] \in {"get_front", "get_cnt"} => qitem[Receiver] = array[Oldest]

(* The places where a buffer can be, and what is there.                     *)
InUse(s) == \E k \in 0 .. Count - 1 : Up(Oldest, k) = s
AtDesc(d) == IF Taken(d) THEN NoItem ELSE addr[d]
AtSlot(s) == IF InUse(s) THEN array[s] ELSE NoItem
AtPbuf(x) == IF HoldsBuffer(x) THEN buf[x] ELSE NoItem
AtHand(c) == IF pc[c] = "addr" THEN qitem[c] ELSE NoItem

Places == ({"desc"} \X Desc) \cup ({"slot"} \X Slots)
            \cup ({"pbuf"} \X Pbufs) \cup ({"hand"} \X Receivers)
Content(q) == CASE q[1] = "desc" -> AtDesc(q[2])
                [] q[1] = "slot" -> AtSlot(q[2])
                [] q[1] = "pbuf" -> AtPbuf(q[2])
                [] q[1] = "hand" -> AtHand(q[2])

(* Every buffer is in one place.                                            *)
EachOnce ==
  /\ \A b \in Items : \E q \in Places : Content(q) = b
  /\ \A q, r \in Places : Content(q) = Content(r) /\ Content(q) # NoItem => q = r

(* ... and a place that should have one has one.  *)
PlacesOK ==
  /\ EachOnce
  /\ \A d \in Desc : addr[d] # NoItem
  /\ \A s \in Slots : InUse(s) => array[s] # NoItem
  /\ \A x \in Pbufs : HoldsBuffer(x) => buf[x] # NoItem
  /\ pc[Receiver] = "addr" => qitem[Receiver] # NoItem

RxInv == /\ TypeOK /\ Control /\ PoolOK /\ FrameOK /\ RingOK /\ UnreadOK
         /\ QueueOK /\ PlacesOK
-----------------------------------------------------------------------------
(* Numbers and sets that the constants determine.                           *)
LEMMA Constants ==
  /\ Capacity \in Nat \ {0} /\ CntMod \in Nat /\ Capacity < CntMod
  /\ NoItem \notin Items /\ NoPbuf \notin Pbufs
  /\ IsFiniteSet(Items) /\ Cardinality(Items) = 2 * Capacity
  /\ IsFiniteSet(Pbufs) /\ Cardinality(Pbufs) = 2 * Capacity
  /\ IsFiniteSet(Desc) /\ Cardinality(Desc) = Capacity
<1>1. Capacity \in Nat \ {0} /\ CntMod \in Nat /\ Capacity < CntMod
      /\ NoItem \notin Items /\ NoPbuf \notin Pbufs
      /\ Items = 0 .. 2 * Capacity - 1 /\ Desc = 0 .. Capacity - 1
  BY QueueAssumption, RxAssumption DEF Desc, Slots
<1>2. IsFiniteSet(Items) /\ Cardinality(Items) = 2 * Capacity
  BY <1>1, FS_Interval
<1>3. IsFiniteSet(Desc) /\ Cardinality(Desc) = Capacity
  BY <1>1, FS_Interval
<1> QED
  BY <1>1, <1>2, <1>3, RxAssumption

-----------------------------------------------------------------------------
(* Places.                                                                  *)
LEMMA Content_ ==
  /\ \A d \in Desc : <<"desc", d>> \in Places /\ Content(<<"desc", d>>) = AtDesc(d)
  /\ \A s \in Slots : <<"slot", s>> \in Places /\ Content(<<"slot", s>>) = AtSlot(s)
  /\ \A x \in Pbufs : <<"pbuf", x>> \in Places /\ Content(<<"pbuf", x>>) = AtPbuf(x)
  /\ \A c \in Receivers : <<"hand", c>> \in Places /\ Content(<<"hand", c>>) = AtHand(c)
  BY DEF Places, Content

(* A buffer that moves from one place to an empty one.                      *)
LEMMA Move ==
  ASSUME EachOnce, NEW from \in Places, NEW to \in Places, from # to,
         Content(to) = NoItem, Content(to)' = Content(from), Content(from)' = NoItem,
         \A q \in Places \ {from, to} : Content(q)' = Content(q)
  PROVE  EachOnce'
<1>1. ASSUME NEW b \in Items PROVE \E q \in Places : Content(q)' = b
  BY Constants DEF EachOnce
<1>2. ASSUME NEW q \in Places, NEW r \in Places, Content(q)' = Content(r)', Content(q)' # NoItem
      PROVE  q = r
  BY <1>2 DEF EachOnce
<1> QED
  BY <1>1, <1>2 DEF EachOnce
(* Who is who.                                                              *)
LEMMA Who ==
  /\ Receiver \in Receivers /\ Other \in Receivers /\ Receiver # Other
  /\ Receivers = {Receiver, Other}
  /\ Contexts = {Receiver, Other, "tcpip", "app"}
  /\ "tcpip" \notin Receivers /\ "app" \notin Receivers
  BY Ctx DEF Receiver, Other, Receivers

(* What is in the places is a buffer or nothing.                            *)
LEMMA Buffers ==
  ASSUME RxInv
  PROVE  /\ \A d \in Desc : addr[d] \in Items
         /\ \A s \in Slots : array[s] \in Items \cup {NoItem} /\ (InUse(s) => array[s] \in Items)
         /\ \A x \in Pbufs : HoldsBuffer(x) => buf[x] \in Items
         /\ \A d \in Desc : Taken(d) <=> pc[Receiver] \in {"empty", "get", "addr"} /\ d = info.fs
         /\ \A c \in Contexts : p[c] \in Pbufs \cup {NoPbuf}
         /\ \A c \in {Receiver, "tcpip"} :
              p[c] # NoPbuf /\ pc[c] # "unpool" => p[c] \in Pbufs /\ HoldsBuffer(p[c])
         /\ Oldest \in Slots /\ info.fs \in Desc
<1>1. TypeOK /\ QTypeOK /\ Control /\ PoolOK /\ PlacesOK
  BY DEF RxInv, TypeOK
<1>2. /\ \A d \in Desc : addr[d] \in Items
      /\ \A s \in Slots : array[s] \in Items \cup {NoItem} /\ (InUse(s) => array[s] \in Items)
      /\ \A x \in Pbufs : HoldsBuffer(x) => buf[x] \in Items
      /\ \A c \in Contexts : p[c] \in Pbufs \cup {NoPbuf}
      /\ info.fs \in Desc
  BY <1>1 DEF TypeOK, QTypeOK, PlacesOK, Bufs
<1>3. \A d \in Desc : Taken(d) <=> pc[Receiver] \in {"empty", "get", "addr"} /\ d = info.fs
  BY <1>1, Who DEF Taken, Control
<1>4. ASSUME NEW c \in {Receiver, "tcpip"}, p[c] # NoPbuf, pc[c] # "unpool"
      PROVE  p[c] \in Pbufs /\ HoldsBuffer(p[c])
  <2>1. p[c] \in Pbufs /\ holder[p[c]] = "driver"
    BY <1>1, <1>2, <1>4, Who DEF PoolOK
  <2>2. \A a \in Contexts : p[a] = p[c] => a = c
    BY <1>1, <1>4, Who DEF PoolOK
  <2> QED
    BY <1>4, <2>1, <2>2 DEF HoldsBuffer
<1>5. Oldest \in Slots
  BY <1>1, Around, Constants DEF Oldest, QTypeOK
<1> QED
  BY <1>2, <1>3, <1>4, <1>5

-----------------------------------------------------------------------------
(* There are 2 * Capacity buffers, so no more places that have one.         *)
LEMMA Pigeons ==
  ASSUME EachOnce, NEW S, IsFiniteSet(S), Cardinality(S) > 2 * Capacity,
         NEW g \in [S -> Places], \A i \in S : Content(g[i]) \in Items
  PROVE  \E i, j \in S : i # j /\ g[i] = g[j]
<1> DEFINE f == [i \in S |-> Content(g[i])]
<1>1. f \in [S -> Items]
  OBVIOUS
<1>2. PICK i \in S, j \in S : i # j /\ f[i] = f[j]
  <2>1. Cardinality(Items) < Cardinality(S)
    BY Constants, FS_CardinalityType
  <2> HIDE DEF f
  <2> QED
    BY <1>1, <2>1, Constants, FS_PigeonHole
<1>3. g[i] \in Places /\ g[j] \in Places /\ Content(g[i]) = Content(g[j])
      /\ Content(g[i]) # NoItem
  BY <1>2, Constants
<1> QED
  BY <1>2, <1>3 DEF EachOnce

(* "RX Q full" is never logged: while tcpip has a pbuf to free, the queue   *)
(* has room.                                                                *)
LEMMA RoomInQueue ==
  ASSUME RxInv, pc["tcpip"] = "free"
  PROVE  Count < Capacity
<1> SUFFICES ASSUME Count = Capacity PROVE FALSE
  BY Constants DEF RxInv, QueueOK
<1> DEFINE S == 0 .. 2 * Capacity
           g == [i \in S |->
                   IF i < Capacity
                   THEN IF Taken(i) THEN <<"pbuf", p[Receiver]>> ELSE <<"desc", i>>
                   ELSE IF i < 2 * Capacity THEN <<"slot", Up(Oldest, i - Capacity)>>
                        ELSE <<"pbuf", p["tcpip"]>>]
<1>1. /\ p["tcpip"] # NoPbuf /\ p["tcpip"] \in Pbufs /\ HoldsBuffer(p["tcpip"])
      /\ \A d \in Desc : Taken(d) => /\ p[Receiver] # p["tcpip"]
                                     /\ p[Receiver] \in Pbufs /\ HoldsBuffer(p[Receiver])
      /\ \A d, e \in Desc : Taken(d) /\ Taken(e) => d = e
  <2>1. p["tcpip"] # NoPbuf
        /\ (pc[Receiver] \in {"empty", "get", "addr"} =>
              p[Receiver] # NoPbuf /\ p[Receiver] # p["tcpip"])
    BY DEF RxInv, PoolOK
  <2> QED
    BY <2>1, Buffers, Who
<1>2. /\ \A i \in S : i \in Int /\ i >= 0 /\ i <= 2 * Capacity
      /\ \A i \in S : i < Capacity <=> i \in Desc
      /\ \A i \in S : i >= Capacity /\ i < 2 * Capacity =>
           i - Capacity \in 0 .. Capacity - 1
  BY Constants DEF Desc, Slots
<1>3. \A k \in 0 .. Capacity - 1 : Up(Oldest, k) \in Slots /\ InUse(Up(Oldest, k))
  BY Buffers, Around, Constants DEF InUse
<1>4. ASSUME NEW i \in S
      PROVE  g[i] \in Places /\ Content(g[i]) \in Items
  <2>1. CASE i \in Desc /\ ~Taken(i)
    <3>1. g[i] = <<"desc", i>>
      BY <1>2, <2>1
    <3> QED
      BY <2>1, <3>1, Content_, Buffers DEF AtDesc
  <2>2. CASE i \in Desc /\ Taken(i)
    <3>1. g[i] = <<"pbuf", p[Receiver]>>
      BY <1>2, <2>2
    <3> QED
      BY <1>1, <2>2, <3>1, Content_, Buffers DEF AtPbuf
  <2>3. CASE i >= Capacity /\ i < 2 * Capacity
    <3>1. g[i] = <<"slot", Up(Oldest, i - Capacity)>> /\ i - Capacity \in 0 .. Capacity - 1
      BY <1>2, <2>3, Constants
    <3> QED
      BY <1>3, <3>1, Content_, Buffers DEF AtSlot
  <2>4. CASE i = 2 * Capacity
    <3>1. g[i] = <<"pbuf", p["tcpip"]>>
      BY <2>4, Constants
    <3> QED
      BY <1>1, <3>1, Content_, Buffers DEF AtPbuf
  <2> QED
    BY <1>2, <2>1, <2>2, <2>3, <2>4, Constants
<1>5. ASSUME NEW i \in S, NEW j \in S, g[i] = g[j]
      PROVE  i = j
  <2>1. i \in Desc <=> j \in Desc
    BY <1>1, <1>2, <1>5, Constants
  <2>2. CASE i \in Desc
    BY <1>1, <1>2, <1>5, <2>1, <2>2
  <2>3. CASE i \notin Desc /\ (i = 2 * Capacity \/ j = 2 * Capacity)
    BY <1>2, <1>5, <2>1, <2>3, Constants
  <2>4. CASE i \notin Desc /\ i # 2 * Capacity /\ j # 2 * Capacity
    <3>1. i - Capacity \in 0 .. Capacity - 1 /\ j - Capacity \in 0 .. Capacity - 1
          /\ Up(Oldest, i - Capacity) = Up(Oldest, j - Capacity)
      BY <1>2, <1>5, <2>1, <2>4, Constants
    <3>2. i - Capacity = j - Capacity
      BY <3>1, Buffers, Around
    <3> QED
      BY <1>2, <3>2, Constants
  <2> QED
    BY <2>2, <2>3, <2>4
<1>6. IsFiniteSet(S) /\ Cardinality(S) > 2 * Capacity
  BY Constants, FS_Interval
<1>7. g \in [S -> Places]
  BY <1>4
<1> HIDE DEF S, g
<1> QED
  BY <1>4, <1>5, <1>6, <1>7, Pigeons DEF RxInv, PlacesOK

(* "RX_POOL empty" is never logged: a receiver that wants a pbuf finds one. *)
LEMMA FreePbufLeft ==
  ASSUME RxInv, Sizes, pc[Receiver] = "check"
  PROVE  Live # Pbufs
<1> SUFFICES ASSUME Live = Pbufs PROVE FALSE
  OBVIOUS
<1> DEFINE S == Pbufs \cup {NoPbuf}
           g == [x \in S |-> IF x = NoPbuf THEN <<"desc", 1>>
                             ELSE IF HoldsBuffer(x) THEN <<"pbuf", x>> ELSE <<"desc", 0>>]
<1>1. ASSUME NEW x \in Pbufs, ~HoldsBuffer(x)
      PROVE  x = p["tcpip"]
  BY <1>1, Who DEF HoldsBuffer, Live, RxInv, Control
<1>2. 0 \in Desc /\ 1 \in Desc /\ \A d \in Desc : ~Taken(d)
  BY Buffers, Constants DEF Sizes, Desc, Slots
<1>3. ASSUME NEW x \in S
      PROVE  g[x] \in Places /\ Content(g[x]) \in Items
  BY <1>2, Content_, Buffers DEF AtDesc, AtPbuf
<1>4. ASSUME NEW x \in S, NEW y \in S, g[x] = g[y]
      PROVE  x = y
  BY <1>1, <1>4
<1>5. IsFiniteSet(S) /\ Cardinality(S) > 2 * Capacity
  <2>1. IsFiniteSet(S) /\ Cardinality(S) = Cardinality(Pbufs) + 1
    BY Constants, FS_AddElement
  <2> HIDE DEF S
  <2> QED
    BY <2>1, Constants
<1>6. g \in [S -> Places]
  BY <1>3
<1> HIDE DEF S, g
<1> QED
  BY <1>3, <1>4, <1>5, <1>6, Pigeons DEF RxInv, PlacesOK

(* The mailbox is never full for a receiver with a pbuf to post.            *)
LEMMA RoomInMbox ==
  ASSUME RxInv, Sizes, pc[Receiver] = "input"
  PROVE  Cardinality(InMbox) < MboxSize
<1> DEFINE P == InMbox \cup {p[Receiver]}
           D == Desc \X {NoPbuf}
           Q == {0} \X P
           S == D \cup Q
           g == [x \in S |-> IF x[2] = NoPbuf THEN <<"desc", x[1]>> ELSE <<"pbuf", x[2]>>]
<1>1. /\ p[Receiver] \in Pbufs /\ p[Receiver] \notin InMbox
      /\ \A x \in P : x \in Pbufs /\ x # NoPbuf /\ HoldsBuffer(x)
      /\ \A d \in Desc : ~Taken(d)
  <2>1. p[Receiver] # NoPbuf /\ holder[p[Receiver]] = "driver"
    BY Who DEF RxInv, PoolOK
  <2>2. \A c \in Contexts, x \in InMbox : p[c] # x
    BY Constants DEF RxInv, PoolOK, InMbox
  <2>3. \A x \in InMbox : HoldsBuffer(x)
    BY <2>2 DEF HoldsBuffer, InMbox
  <2> QED
    BY <2>1, <2>3, Buffers, Constants DEF InMbox
<1>2. ASSUME NEW x \in S
      PROVE  g[x] \in Places /\ Content(g[x]) \in Items
  BY <1>1, Content_, Buffers DEF AtDesc, AtPbuf
<1>3. ASSUME NEW x \in S, NEW y \in S, g[x] = g[y]
      PROVE  x = y
  BY <1>1, <1>3
<1>4. IsFiniteSet(P) /\ Cardinality(P) = Cardinality(InMbox) + 1 /\ Cardinality(InMbox) \in Nat
  <2>1. IsFiniteSet(InMbox)
    BY Constants, FS_Subset DEF InMbox
  <2> QED
    BY <1>1, <2>1, FS_AddElement, FS_CardinalityType
<1>5. IsFiniteSet(D) /\ Cardinality(D) = Capacity
  <2>1. IsFiniteSet({NoPbuf}) /\ Cardinality({NoPbuf}) = 1
    BY FS_Singleton
  <2>2. IsFiniteSet(D) /\ Cardinality(D) = Cardinality(Desc) * Cardinality({NoPbuf})
    BY <2>1, Constants, FS_Product
  <2> HIDE DEF D
  <2> QED
    BY <2>1, <2>2, Constants
<1>6. IsFiniteSet(Q) /\ Cardinality(Q) = Cardinality(InMbox) + 1
  <2>1. IsFiniteSet({0}) /\ Cardinality({0}) = 1
    BY FS_Singleton
  <2>2. IsFiniteSet(Q) /\ Cardinality(Q) = Cardinality({0}) * Cardinality(P)
    <3> HIDE DEF P
    <3> QED
      BY <1>4, <2>1, FS_Product
  <2> HIDE DEF Q, P
  <2> QED
    BY <1>4, <2>1, <2>2
<1>7. D \cap Q = {}
  BY <1>1
<1>8. IsFiniteSet(S) /\ Cardinality(S) = Capacity + Cardinality(InMbox) + 1
  <2> HIDE DEF D, Q
  <2>1. Cardinality(D \cap Q) = 0
    BY <1>7, FS_EmptySet
  <2>2. IsFiniteSet(S) /\ Cardinality(S) = Cardinality(D) + Cardinality(Q) - Cardinality(D \cap Q)
    BY <1>5, <1>6, FS_Union
  <2> HIDE DEF S
  <2> QED
    BY <1>4, <1>5, <1>6, <2>1, <2>2, Constants
<1>9. g \in [S -> Places]
  BY <1>2
<1>10. ~(Cardinality(S) > 2 * Capacity)
  <2> HIDE DEF S, g
  <2> QED
    BY <1>2, <1>3, <1>8, <1>9, Pigeons DEF RxInv, PlacesOK
<1> HIDE DEF S
<1> QED
  BY <1>4, <1>8, <1>10, Constants, RxAssumption DEF Sizes
(* An interrupt receiver that keeps up leaves the DMA a descriptor.         *)
LEMMA Starved ==
  ASSUME RxInv, own[dmaDesc] = "cpu"
  PROVE  ~setup.it
<1> SUFFICES ASSUME setup.it PROVE FALSE
  OBVIOUS
<1>1. TypeOK /\ RingOK /\ UnreadOK /\ ~setup.long /\ setup.unread < Capacity /\ setup.unread \in Nat
  <2>1. setup \in Setups
    BY DEF RxInv, TypeOK
  <2>2. setup.unread \in 1 .. Capacity
    BY <2>1, RxAssumption
  <2> QED
    BY <2>2, Constants DEF RxInv, Control
<1>2. info.seg \in 0 .. 1 /\ rxDesc \in Slots /\ dmaDesc \in Slots /\ info.fs \in Slots
      /\ (info.seg = 1 => Ahead(info.fs) = Capacity - 1)
  BY <1>1 DEF TypeOK, RingOK, Desc
<1>3. PICK m \in 0 .. Capacity - info.seg :
        /\ dmaDesc = Up(rxDesc, m)
        /\ \A d \in Desc : own[d] = "cpu" <=> Ahead(d) < m \/ (info.seg = 1 /\ d = info.fs)
  BY <1>1 DEF RingOK
<1>4. m >= Capacity - info.seg
  <2>1. dmaDesc \in Desc /\ (Ahead(dmaDesc) < m \/ (info.seg = 1 /\ dmaDesc = info.fs))
    BY <1>2, <1>3 DEF Desc
  <2> QED
    BY <1>2, <1>3, <2>1, Constants DEF Ahead, Up, Slots
<1>5. \A d \in Slots : Ahead(d) < m \/ (info.seg = 1 /\ d = info.fs)
  BY <1>2, <1>4, Constants DEF Ahead, Slots
<1>6. Unread = Desc
  BY <1>3, <1>5 DEF Unread, Desc
<1> QED
  BY <1>1, <1>6, Constants DEF UnreadOK

-----------------------------------------------------------------------------
(* The calls that are made, by whom they are made: the receiver gets, tcpip *)
(* puts, and neither the mailbox nor the queue refuses anything.            *)
Getting == UNCHANGED <<setup, dmaVars, irq, halVars, pool, p, frame>>
Get1 == Runs(Receiver, "get") /\ GetCall(Receiver) /\ UNCHANGED pc /\ Getting
Get2 == Runs(Receiver, "get") /\ GetItem(Receiver) /\ UNCHANGED pc /\ Getting
Get3 == Runs(Receiver, "get") /\ GetFront(Receiver) /\ UNCHANGED pc /\ Getting
Get4 == Runs(Receiver, "get") /\ GetCount(Receiver) /\ Jump(Receiver, "addr") /\ Getting

Putting == UNCHANGED <<setup, dmaVars, irq, halVars, pool, p, frame>>
Put1 == Runs("tcpip", "free") /\ PutCall("tcpip", buf[p["tcpip"]]) /\ Jump("tcpip", "put") /\ Putting
Put2 == Runs("tcpip", "put") /\ PutRear("tcpip") /\ UNCHANGED pc /\ Putting
Put3 == Runs("tcpip", "put") /\ PutSlot("tcpip") /\ UNCHANGED pc /\ Putting
Put4 == Runs("tcpip", "put") /\ PutCount("tcpip") /\ Jump("tcpip", "unpool") /\ Putting

Posted ==
  /\ Runs(Receiver, "input")
  /\ holder' = [holder EXCEPT ![p[Receiver]] = "mbox"]
  /\ p' = [p EXCEPT ![Receiver] = NoPbuf]
  /\ Jump(Receiver, "enter")
  /\ UNCHANGED <<setup, rxQueue, dmaVars, irq, halVars, buf, frame>>

Fetched ==
  /\ Runs("tcpip", "idle")
  /\ \E x \in InMbox : /\ holder' = [holder EXCEPT ![x] = "driver"]
                       /\ p' = [p EXCEPT !["tcpip"] = x]
  /\ Jump("tcpip", "free")
  /\ UNCHANGED <<setup, rxQueue, dmaVars, irq, halVars, buf, frame>>

Background == \/ DmaReceive \/ DmaStarved \/ IrqEnter \/ IrqReturn \/ EthPoll \/ TxLock \/ TxUnlock
              \/ UNCHANGED vars
Reading == \/ RxEnter(Receiver) \/ HalLock(Receiver) \/ ScanNone(Receiver)
           \/ ScanFirst(Receiver) \/ ScanLast(Receiver) \/ RxRead(Receiver)
Filling == \/ RxReject(Receiver) \/ RxAlloc(Receiver) \/ RxNoBuffer(Receiver) \/ RxHasBuffer(Receiver)
           \/ Get1 \/ Get2 \/ Get3 \/ Get4 \/ RxAddr(Receiver)
           \/ RxRelease(Receiver) \/ RxResume(Receiver) \/ Posted
Freeing == Fetched \/ Put1 \/ Put2 \/ Put3 \/ Put4 \/ FreePbuf("tcpip")

(* While the invariant holds every step is one of these: the branches for   *)
(* a full queue, a full mailbox and a queue_get that finds nothing are not  *)
(* taken.                                                                   *)
LEMMA Moves ==
  ASSUME RxInv, Sizes, [Next]_vars
  PROVE  /\ Background \/ Reading \/ Filling \/ Freeing
         /\ UNCHANGED <<setup, Receiver, Other>>
<1> USE DEF Getting, Putting
<1>1. Control /\ PoolOK /\ QTypeOK /\ QueueOK
  BY DEF RxInv, TypeOK
<1>2. ASSUME NEW c \in Receivers, Input(c)
      PROVE  Reading \/ Filling
  <2>1. c = Receiver /\ Input(Receiver) /\ Receiver \in Receivers /\ Receiver \in Contexts
    <3>1. pc[c] # "idle"
      BY <1>2 DEF Input, RxEnter, HalLock, ScanNone, ScanFirst, ScanLast, RxRead, RxReject,
                  RxAlloc, RxNoBuffer, RxHasBuffer, RxGet, RxAddr, RxRelease, RxResume, RxInput, Runs
    <3> QED
      BY <1>1, <1>2, <3>1, Who DEF Control
  <2>2. CASE RxGet(Receiver)
    <3>1. ~GetNull(Receiver)
      BY <1>1, <2>2, Wraps DEF RxGet, Runs, QueueOK, GetNull
    <3> QED
      BY <2>2, <3>1 DEF RxGet, Filling, Get1, Get2, Get3, Get4
  <2>3. CASE RxInput(Receiver)
    <3>1. Cardinality(InMbox) < MboxSize
      BY <2>3, RoomInMbox DEF RxInput, Runs
    <3> QED
      BY <2>3, <3>1 DEF RxInput, Posted, Filling
  <2> QED
    BY <2>1, <2>2, <2>3 DEF Input, Reading, Filling
<1>3. ASSUME NEW c \in Contexts, Free(c)
      PROVE  Freeing
  <2>1. c = "tcpip"
    <3>1. pc[c] \in {"free", "put", "unpool"}
      BY <1>3 DEF Free, FreeCall, FreePut, FreePbuf, Runs
    <3> QED
      BY <1>1, <3>1, Who DEF Control
  <2>2. pc["tcpip"] = "free" => ~IsFull
    BY <1>1, RoomInQueue, Wraps
  <2> QED
    BY <1>3, <2>1, <2>2
       DEF Free, FreeCall, FreePut, PutRefused, Freeing, Put1, Put2, Put3, Put4, Runs
<1>4. ~AppRead
  BY <1>1 DEF AppRead, PoolOK
<1>5. TcpipFetch => Fetched
  BY <1>1 DEF TcpipFetch, Fetched, Control
<1>6. UNCHANGED setup
  BY DEF Next, DmaReceive, DmaStarved, IrqEnter, IrqReturn, EthPoll, TcpipFetch, AppRead, TxLock,
         TxUnlock, Input, RxEnter, HalLock, ScanNone, ScanFirst, ScanLast, RxRead, RxReject,
         RxAlloc, RxNoBuffer, RxHasBuffer, RxGet, RxAddr, RxRelease, RxResume, RxInput, Free,
         FreeCall, FreePut, FreePbuf, vars
<1> QED
  BY <1>2, <1>3, <1>4, <1>5, <1>6 DEF Next, Background, Freeing, Receiver, Other

-----------------------------------------------------------------------------
(* Types.                                                                   *)
LEMMA TypeNext ==
  ASSUME RxInv, Sizes, [Next]_vars
  PROVE  TypeOK'
<1>1. TypeOK /\ QTypeOK /\ Receiver \in Receivers /\ Receiver \in Contexts /\ "tcpip" \in Contexts
  BY Who, Ctx DEF RxInv, TypeOK
<1>2. UNCHANGED <<setup, Receiver>>
  BY Moves
<1> USE <1>1 DEF Jump, Leave, rxQueue, dmaVars, halVars, pool
<1>3. \A s \in {"idle", "enter", "lock", "scan", "read", "check", "empty", "get", "addr", "release",
                "resume", "input", "free", "put", "unpool", "tx", "exit"} : s \in PcSteps
  BY DEF PcSteps
<1>4. CASE DmaReceive
  <2>1. Next_(dmaDesc) \in Desc /\ \A k \in Arrivals : k \in {"good", "first", "last"}
    BY Around, Constants DEF TypeOK, Desc, Arrivals
  <2> QED
    BY <1>4, <2>1 DEF TypeOK, DmaReceive, QTypeOK, queueVars, callVars
<1>5. CASE DmaStarved \/ IrqEnter \/ IrqReturn \/ EthPoll \/ TxLock \/ TxUnlock \/ UNCHANGED vars
  <2>1. CASE DmaStarved
    BY <1>3, <2>1 DEF TypeOK, DmaStarved, QTypeOK, queueVars, callVars
  <2>2. CASE IrqEnter
    BY <1>3, <2>2 DEF TypeOK, IrqEnter, QTypeOK, queueVars, callVars
  <2>3. CASE IrqReturn
    BY <1>3, <2>3 DEF TypeOK, IrqReturn, QTypeOK, queueVars, callVars
  <2>4. CASE EthPoll
    BY <1>3, <2>4 DEF TypeOK, EthPoll, QTypeOK, queueVars, callVars
  <2>5. CASE TxLock
    BY <1>3, <2>5 DEF TypeOK, TxLock, QTypeOK, queueVars, callVars
  <2>6. CASE TxUnlock
    BY <1>3, <2>6 DEF TypeOK, TxUnlock, QTypeOK, queueVars, callVars
  <2>7. CASE UNCHANGED vars
    BY <1>3, <2>7 DEF TypeOK, vars, QTypeOK, queueVars, callVars
  <2> QED
    BY <1>5, <2>1, <2>2, <2>3, <2>4, <2>5, <2>6, <2>7
<1>6. CASE RxEnter(Receiver) \/ HalLock(Receiver) \/ ScanNone(Receiver) \/ RxRead(Receiver)
  <2>1. CASE RxEnter(Receiver)
    BY <1>3, <2>1 DEF TypeOK, RxEnter, QTypeOK, queueVars, callVars
  <2>2. CASE HalLock(Receiver)
    BY <1>3, <2>2 DEF TypeOK, HalLock, QTypeOK, queueVars, callVars
  <2>3. CASE ScanNone(Receiver)
    BY <1>3, <2>3 DEF TypeOK, ScanNone, QTypeOK, queueVars, callVars
  <2>4. CASE RxRead(Receiver)
    BY <1>3, <2>4 DEF TypeOK, RxRead, Frames, QTypeOK, queueVars, callVars
  <2> QED
    BY <1>6, <2>1, <2>2, <2>3, <2>4
<1>7. CASE ScanFirst(Receiver) \/ ScanLast(Receiver)
  <2>1. Next_(rxDesc) \in Desc
    BY Around, Constants DEF TypeOK, Desc
  <2>2. pc[Receiver] = "scan" => info.seg \in 0 .. 1
    BY DEF RxInv, Control, TypeOK
  <2>3. CASE ScanFirst(Receiver)
    <3>1. info' \in [fs : Desc, seg : 0 .. 2, buf : Bufs, fits : BOOLEAN] /\ rxDesc' \in Desc
      <4>1. /\ info' = [fs |-> rxDesc, seg |-> 1, buf |-> info.buf, fits |-> info.fits]
            /\ rxDesc' = Next_(rxDesc)
        BY <2>3 DEF ScanFirst, TypeOK
      <4>2. rxDesc \in Desc /\ info.buf \in Bufs /\ info.fits \in BOOLEAN
        BY DEF TypeOK
      <4> QED
        BY <2>1, <4>1, <4>2
    <3> QED
      BY <2>3, <3>1 DEF TypeOK, ScanFirst, QTypeOK, queueVars, callVars
  <2>4. CASE ScanLast(Receiver)
    <3>1. info' \in [fs : Desc, seg : 0 .. 2, buf : Bufs, fits : BOOLEAN]
      BY <2>2, <2>4 DEF TypeOK, ScanLast, Runs
    <3> QED
      BY <1>3, <2>1, <2>4, <3>1 DEF TypeOK, ScanLast, QTypeOK, queueVars, callVars
  <2> QED
    BY <1>7, <2>3, <2>4
<1>8. CASE RxReject(Receiver) \/ RxAlloc(Receiver) \/ RxNoBuffer(Receiver) \/ RxHasBuffer(Receiver)
  <2>1. CASE RxReject(Receiver)
    BY <1>3, <2>1 DEF TypeOK, RxReject, Frames, NoFrame, Bufs, QTypeOK, queueVars, callVars
  <2>2. CASE RxAlloc(Receiver)
    BY <1>3, <2>2 DEF TypeOK, RxAlloc, Frames, NoFrame, Bufs, Holders, QTypeOK, queueVars, callVars
  <2>3. CASE RxNoBuffer(Receiver)
    BY <1>3, <2>3 DEF TypeOK, RxNoBuffer, MempFree, Bufs, Holders, QTypeOK, queueVars, callVars
  <2>4. CASE RxHasBuffer(Receiver)
    BY <1>3, <2>4 DEF TypeOK, RxHasBuffer, QTypeOK, queueVars, callVars
  <2> QED
    BY <1>8, <2>1, <2>2, <2>3, <2>4
<1>9. CASE Get1 \/ Get2 \/ Get3 \/ Get4
  <2>1. Next_(front) \in Slots /\ (get_cnt + 1) % CntMod \in 0 .. CntMod - 1
    BY Around, Constants, Wraps DEF QTypeOK
  <2>2. \A s \in {"idle", "get_item", "get_front", "get_cnt"} : s \in Steps
    BY DEF Steps
  <2> QED
    BY <1>3, <1>9, <2>1, <2>2
       DEF TypeOK, Get1, Get2, Get3, Get4, Getting, GetCall, GetItem, GetFront, GetCount, Goto,
           QTypeOK, queueVars
<1>10. CASE RxAddr(Receiver) \/ RxRelease(Receiver) \/ RxResume(Receiver) \/ Posted
  <2>1. CASE RxAddr(Receiver)
    BY <1>3, <2>1 DEF TypeOK, RxAddr, Bufs, QTypeOK, queueVars, callVars
  <2>2. CASE RxRelease(Receiver)
    BY <1>3, <2>2 DEF TypeOK, RxRelease, QTypeOK, queueVars, callVars
  <2>3. CASE RxResume(Receiver)
    <3>1. pc' \in [Contexts -> PcSteps] /\ rbus' = FALSE
      BY <1>3, <2>3 DEF TypeOK, RxResume
    <3>2. UNCHANGED <<setup, rxQueue, own, kind, addr, dmaDesc, irq, halVars, pool, p, frame>>
      BY <2>3 DEF RxResume
    <3> QED
      BY <3>1, <3>2 DEF TypeOK, QTypeOK, queueVars, callVars
  <2>4. CASE Posted
    BY <1>3, <2>4 DEF TypeOK, Posted, Holders, QTypeOK, queueVars, callVars
  <2> QED
    BY <1>10, <2>1, <2>2, <2>3, <2>4
<1>11. CASE Put1 \/ Put2 \/ Put3 \/ Put4
  <2>1. Next_(rear) \in Slots /\ (put_cnt + 1) % CntMod \in 0 .. CntMod - 1
    BY Around, Constants, Wraps DEF QTypeOK
  <2>2. \A s \in {"idle", "put_rear", "put_slot", "put_cnt"} : s \in Steps
    BY DEF Steps
  <2>3. pc["tcpip"] = "free" => buf[p["tcpip"]] \in Items
    BY Buffers DEF RxInv, PoolOK
  <2> QED
    BY <1>3, <1>11, <2>1, <2>2, <2>3
       DEF TypeOK, Put1, Put2, Put3, Put4, Putting, PutCall, PutRear, PutSlot, PutCount, Goto, Runs,
           QTypeOK, queueVars
<1>12. CASE Fetched \/ FreePbuf("tcpip")
  BY <1>3, <1>12, Who DEF TypeOK, Fetched, FreePbuf, MempFree, QTypeOK, queueVars, callVars, Bufs,
                          Holders, InMbox
<1> QED
  BY <1>4, <1>5, <1>6, <1>7, <1>8, <1>9, <1>10, <1>11, <1>12, Moves
     DEF Background, Reading, Filling, Freeing

(* Who runs.                                                                *)
LEMMA ControlNext ==
  ASSUME RxInv, Sizes, [Next]_vars
  PROVE  Control'
<1>1. /\ Control /\ pc \in [Contexts -> PcSteps] /\ info \in [fs : Desc, seg : 0 .. 2, buf : Bufs, fits : BOOLEAN]
      /\ rbus \in BOOLEAN /\ irq \in BOOLEAN
  BY DEF RxInv, TypeOK
<1>2. UNCHANGED <<setup, Receiver, Other>>
  BY Moves
<1> USE <1>1, <1>2, Who DEF Jump, Leave, Runs, Control, dmaVars, halVars, Receivers
<1>3. CASE DmaReceive \/ DmaStarved
  <2>1. DmaStarved => ~setup.it
    BY Starved DEF DmaStarved
  <2> QED
    BY <1>3, <2>1 DEF DmaReceive, DmaStarved
<1>4. CASE IrqEnter \/ IrqReturn \/ EthPoll
  BY <1>4 DEF IrqEnter, IrqReturn, EthPoll, Receiver, Other
<1>5. CASE TxLock \/ TxUnlock \/ UNCHANGED vars
  BY <1>5 DEF TxLock, TxUnlock, vars
<1>6. CASE RxEnter(Receiver) \/ HalLock(Receiver) \/ ScanNone(Receiver) \/ RxRead(Receiver)
  BY <1>6 DEF RxEnter, HalLock, ScanNone, RxRead
<1>7. CASE ScanFirst(Receiver) \/ ScanLast(Receiver)
  <2>1. CASE ScanFirst(Receiver)
    BY <2>1 DEF ScanFirst
  <2>2. CASE ScanLast(Receiver)
    <3>1. pc' = [pc EXCEPT ![Receiver] = "read"] /\ UNCHANGED <<rbus, irq>>
      BY <2>2 DEF ScanLast
    <3> QED
      BY <3>1
  <2> QED
    BY <1>7, <2>1, <2>2
<1>8. CASE RxReject(Receiver) \/ RxAlloc(Receiver) \/ RxNoBuffer(Receiver) \/ RxHasBuffer(Receiver)
  BY <1>8 DEF RxReject, RxAlloc, RxNoBuffer, RxHasBuffer
<1>9. CASE Get1 \/ Get2 \/ Get3 \/ Get4 \/ RxAddr(Receiver)
  BY <1>9 DEF Get1, Get2, Get3, Get4, Getting, RxAddr
<1>10. CASE RxRelease(Receiver) \/ RxResume(Receiver) \/ Posted
  BY <1>10 DEF RxRelease, RxResume, Posted
<1>11. CASE Fetched \/ Put1 \/ Put2 \/ Put3 \/ Put4 \/ FreePbuf("tcpip")
  BY <1>11 DEF Fetched, Put1, Put2, Put3, Put4, Putting, FreePbuf
<1> QED
  BY <1>3, <1>4, <1>5, <1>6, <1>7, <1>8, <1>9, <1>10, <1>11, Moves
     DEF Background, Reading, Filling, Freeing

(* The pbufs in hand.                                                       *)
LEMMA PoolNext ==
  ASSUME RxInv, Sizes, [Next]_vars
  PROVE  PoolOK'
<1>1. /\ PoolOK /\ pc \in [Contexts -> PcSteps] /\ p \in [Contexts -> Pbufs \cup {NoPbuf}]
      /\ holder \in [Pbufs -> Holders] /\ pc[Other] = "idle" /\ pc["app"] = "idle"
      /\ Receiver \in Contexts /\ Other \in Contexts /\ "tcpip" \in Contexts
      /\ {Receiver, Other} \cap {"tcpip", "app"} = {}
  BY Who DEF RxInv, TypeOK, Control
<1>2. UNCHANGED <<setup, Receiver, Other>>
  BY Moves
<1> USE <1>1, <1>2, Who DEF Jump, Leave, Runs, PoolOK, pool
<1>3. CASE \/ DmaReceive \/ DmaStarved \/ IrqEnter \/ IrqReturn \/ EthPoll \/ TxLock \/ TxUnlock
           \/ UNCHANGED vars
  <2>1. UNCHANGED <<p, holder>>
    BY <1>3 DEF DmaReceive, DmaStarved, IrqEnter, IrqReturn, EthPoll, TxLock, TxUnlock, vars
  <2>2. CASE IrqEnter \/ IrqReturn \/ EthPoll
    <3>1. PICK s \in {"idle", "enter"} : pc[Receiver] \in {"idle", "exit"} /\ pc' = [pc EXCEPT ![Receiver] = s]
      BY <2>2 DEF IrqEnter, IrqReturn, EthPoll, Receiver, Other, RxInv, Control
    <3> QED
      BY <2>1, <3>1
  <2>3. CASE DmaReceive \/ DmaStarved \/ TxLock \/ TxUnlock \/ UNCHANGED vars
    <3>1. pc' = pc \/ \E s \in {"idle", "tx"} : pc["tcpip"] \in {"idle", "tx"} /\ pc' = [pc EXCEPT !["tcpip"] = s]
      BY <2>3 DEF DmaReceive, DmaStarved, TxLock, TxUnlock, vars
    <3> QED
      BY <2>1, <3>1
  <2> QED
    BY <1>3, <2>2, <2>3
<1>4. CASE RxEnter(Receiver) \/ HalLock(Receiver) \/ ScanNone(Receiver)
           \/ ScanFirst(Receiver) \/ ScanLast(Receiver) \/ RxRead(Receiver)
  BY <1>4 DEF RxEnter, HalLock, ScanNone, ScanFirst, ScanLast, RxRead
<1>5. CASE RxReject(Receiver)
  BY <1>5 DEF RxReject
<1>6. CASE RxAlloc(Receiver)
  <2>1. PICK x \in Pbufs : /\ holder[x] = "free"
                           /\ holder' = [holder EXCEPT ![x] = "driver"]
                           /\ p' = [p EXCEPT ![Receiver] = x]
                           /\ pc' = [pc EXCEPT ![Receiver] = "empty"]
    BY <1>6 DEF RxAlloc
  <2>2. \A c \in Contexts : p[c] # x
    BY <2>1, Constants
  <2> QED
    BY <1>6, <2>1, <2>2, Constants DEF RxAlloc
<1>7. CASE RxNoBuffer(Receiver)
  <2>1. /\ holder' = [holder EXCEPT ![p[Receiver]] = "free"]
        /\ p' = [p EXCEPT ![Receiver] = NoPbuf]
        /\ pc' = [pc EXCEPT ![Receiver] = "release"] /\ pc[Receiver] = "empty"
    BY <1>7 DEF RxNoBuffer, MempFree
  <2> QED
    BY <2>1, Constants
<1>8. CASE RxHasBuffer(Receiver) \/ RxAddr(Receiver) \/ RxRelease(Receiver) \/ RxResume(Receiver)
  BY <1>8 DEF RxHasBuffer, RxAddr, RxRelease, RxResume
<1>9. CASE Get1 \/ Get2 \/ Get3 \/ Get4
  BY <1>9 DEF Get1, Get2, Get3, Get4, Getting
<1>10. CASE Posted
  <2>1. /\ holder' = [holder EXCEPT ![p[Receiver]] = "mbox"]
        /\ p' = [p EXCEPT ![Receiver] = NoPbuf]
        /\ pc' = [pc EXCEPT ![Receiver] = "enter"] /\ pc[Receiver] = "input"
    BY <1>10 DEF Posted
  <2> QED
    BY <2>1, Constants
<1>11. CASE Put1 \/ Put2 \/ Put3 \/ Put4
  BY <1>11 DEF Put1, Put2, Put3, Put4, Putting
<1>12. CASE Fetched
  <2>1. PICK x \in Pbufs : /\ holder[x] = "mbox" /\ p["tcpip"] = NoPbuf
                           /\ holder' = [holder EXCEPT ![x] = "driver"]
                           /\ p' = [p EXCEPT !["tcpip"] = x]
                           /\ pc' = [pc EXCEPT !["tcpip"] = "free"]
    BY <1>12 DEF Fetched, InMbox
  <2>2. \A c \in Contexts : p[c] # x
    BY <2>1, Constants
  <2> QED
    BY <2>1, <2>2, Constants
<1>13. CASE FreePbuf("tcpip")
  <2>1. /\ holder' = [holder EXCEPT ![p["tcpip"]] = "free"]
        /\ p' = [p EXCEPT !["tcpip"] = NoPbuf]
        /\ pc' = [pc EXCEPT !["tcpip"] = "idle"] /\ pc["tcpip"] = "unpool"
    BY <1>13 DEF FreePbuf, MempFree
  <2> QED
    BY <2>1, Constants
<1> QED
  BY <1>3, <1>4, <1>5, <1>6, <1>7, <1>8, <1>9, <1>10, <1>11, <1>12, <1>13, Moves
     DEF Background, Reading, Filling, Freeing

(* The frame that is being read.                                            *)
LEMMA FrameNext ==
  ASSUME RxInv, Sizes, [Next]_vars
  PROVE  FrameOK'
<1>1. /\ FrameOK /\ pc \in [Contexts -> PcSteps] /\ p \in [Contexts -> Pbufs \cup {NoPbuf}]
      /\ own \in [Desc -> {"dma", "cpu"}] /\ addr \in [Desc -> Bufs] /\ buf \in [Pbufs -> Bufs]
      /\ info \in [fs : Desc, seg : 0 .. 2, buf : Bufs, fits : BOOLEAN] /\ rxDesc \in Desc
      /\ frame \in [Receivers -> Frames]
      /\ pc[Other] = "idle" /\ pc["app"] = "idle"
      /\ Receiver \in Contexts /\ Other \in Contexts /\ "tcpip" \in Contexts
      /\ {Receiver, Other} \cap {"tcpip", "app"} = {}
  BY Who DEF RxInv, TypeOK, Control
<1>2. UNCHANGED <<setup, Receiver, Other>>
  BY Moves
<1> USE <1>1, <1>2, Who DEF Jump, Leave, Runs, FrameOK, pool, dmaVars, halVars
<1>3. CASE DmaReceive
  BY <1>3 DEF DmaReceive
<1>4. CASE DmaStarved \/ IrqEnter \/ IrqReturn \/ EthPoll \/ TxLock \/ TxUnlock \/ UNCHANGED vars
  <2>1. UNCHANGED <<own, addr, info, buf, frame, p>>
    BY <1>4 DEF DmaStarved, IrqEnter, IrqReturn, EthPoll, TxLock, TxUnlock, vars
  <2>2. pc'[Receiver] = pc[Receiver] \/ pc'[Receiver] \in {"idle", "enter"}
    BY <1>4 DEF DmaStarved, IrqEnter, IrqReturn, EthPoll, TxLock, TxUnlock, vars, Receiver, Other
  <2> QED
    BY <2>1, <2>2
<1>5. CASE RxEnter(Receiver) \/ HalLock(Receiver) \/ ScanNone(Receiver)
  <2>1. pc[Receiver] = "lock" => info.seg # 1
    BY DEF RxInv, Control
  <2> QED
    BY <1>5, <2>1 DEF RxEnter, HalLock, ScanNone
<1>6. CASE ScanFirst(Receiver)
  BY <1>6 DEF ScanFirst
<1>7. CASE ScanLast(Receiver)
  <2>1. info.seg \in 0 .. 1
    BY <1>7 DEF RxInv, Control, ScanLast, TypeOK
  <2>2. info'.fs \in Desc /\ own[info'.fs] = "cpu" /\ info'.buf = addr[info'.fs]
    BY <1>7, <2>1 DEF ScanLast
  <2> QED
    BY <1>7, <2>2 DEF ScanLast
<1>8. CASE RxRead(Receiver)
  BY <1>8 DEF RxRead
<1>9. CASE RxReject(Receiver) \/ RxHasBuffer(Receiver) \/ RxRelease(Receiver) \/ RxResume(Receiver)
           \/ RxAddr(Receiver) \/ Posted
  BY <1>9 DEF RxReject, RxHasBuffer, RxRelease, RxResume, RxAddr, Posted
<1>10. CASE RxAlloc(Receiver)
  <2>1. PICK x \in Pbufs : /\ buf' = [buf EXCEPT ![x] = frame[Receiver].buf]
                           /\ p' = [p EXCEPT ![Receiver] = x]
    BY <1>10 DEF RxAlloc
  <2>2. buf'[p'[Receiver]] = addr[info.fs]
    BY <1>10, <2>1 DEF RxAlloc
  <2> QED
    BY <1>10, <2>2 DEF RxAlloc
<1>11. CASE RxNoBuffer(Receiver)
  BY <1>11 DEF RxNoBuffer
<1>12. CASE Get1 \/ Get2 \/ Get3 \/ Get4
  BY <1>12 DEF Get1, Get2, Get3, Get4, Getting
<1>13. CASE Put1 \/ Put2 \/ Put3 \/ Put4
  BY <1>13 DEF Put1, Put2, Put3, Put4, Putting
<1>14. CASE Fetched
  BY <1>14 DEF Fetched
<1>15. CASE FreePbuf("tcpip")
  <2>1. pc[Receiver] = "empty" => p[Receiver] # p["tcpip"]
    BY DEF RxInv, PoolOK
  <2> QED
    BY <1>15, <2>1 DEF FreePbuf, MempFree
<1> QED
  BY <1>3, <1>4, <1>5, <1>6, <1>7, <1>8, <1>9, <1>10, <1>11, <1>12, <1>13, <1>14, <1>15, Moves
     DEF Background, Reading, Filling, Freeing

(* Positions on the ring, counted from rxDesc on.                           *)
LEMMA Positions ==
  ASSUME rxDesc \in Slots
  PROVE  /\ \A m \in 0 .. Capacity - 1 : Ahead(Up(rxDesc, m)) = m
         /\ \A d \in Slots : /\ Ahead(d) \in 0 .. Capacity - 1
                             /\ Up(rxDesc, Ahead(d)) = d
         /\ Ahead(rxDesc) = 0
  BY Constants DEF Ahead, Up, Slots

(* One step on, what was first is last.                                     *)
LEMMA PositionsNext ==
  ASSUME rxDesc \in Slots, rxDesc' = Next_(rxDesc)
  PROVE  /\ \A d \in Slots :
              Ahead(d)' = IF d = rxDesc THEN Capacity - 1 ELSE Ahead(d) - 1
         /\ \A m \in 1 .. Capacity : Up(rxDesc', m - 1) = Up(rxDesc, m)
<1>1. rxDesc' = Up(rxDesc, 1)
  BY Around
<1> QED
  BY <1>1, Constants DEF Ahead, Up, Slots

(* The ring of the descriptors.                                             *)
LEMMA RingNext ==
  ASSUME RxInv, Sizes, [Next]_vars
  PROVE  RingOK'
<1> SUFFICES ASSUME ~setup.long PROVE RingOK'
  <2>1. setup' = setup
    BY Moves
  <2> QED
    BY <2>1 DEF RingOK
<1>1. /\ rxDesc \in Slots /\ info.fs \in Slots /\ dmaDesc \in Slots /\ info.seg \in 0 .. 1
      /\ (info.seg = 1 => Ahead(info.fs) = Capacity - 1)
      /\ (info.seg = 1 <=> pc[Receiver] \in {"read", "check", "empty", "get", "addr", "release"})
      /\ \A d \in Desc : kind[d] \in {"none", "good"}
      /\ kind \in [Desc -> {"none", "good", "first", "last"}] /\ own \in [Desc -> {"dma", "cpu"}]
      /\ info \in [fs : Desc, seg : 0 .. 2, buf : Bufs, fits : BOOLEAN]
      /\ pc \in [Contexts -> PcSteps] /\ Desc = Slots
  BY DEF RxInv, TypeOK, RingOK, Desc
<1>2. PICK m \in 0 .. Capacity - info.seg :
        /\ dmaDesc = Up(rxDesc, m)
        /\ \A d \in Desc : own[d] = "cpu" <=> Ahead(d) < m \/ (info.seg = 1 /\ d = info.fs)
  BY DEF RxInv, RingOK
<1>3. UNCHANGED <<setup, Receiver, Other>>
  BY Moves
<1>4. /\ Receiver \in Contexts /\ Receiver # "tcpip" /\ Other # Receiver
      /\ pc[Other] = "idle" /\ pc["app"] = "idle"
  BY Who DEF RxInv, Control
<1>5. ASSUME UNCHANGED <<own, kind, dmaDesc, rxDesc, info>>,
             pc'[Receiver] \in {"read", "check", "empty", "get", "addr", "release"}
               <=> pc[Receiver] \in {"read", "check", "empty", "get", "addr", "release"}
      PROVE  RingOK'
  BY <1>1, <1>2, <1>3, <1>5 DEF RingOK, Ahead
<1> USE DEF Jump, Leave, Runs, dmaVars, halVars
<1>6. CASE DmaReceive
  <2>1. ~MidFrame
    <3>1. (dmaDesc + Capacity - 1) % Capacity \in Slots
      BY <1>1, Around, Constants
    <3> QED
      BY <1>1, <3>1 DEF MidFrame
  <2>2. /\ kind' = [kind EXCEPT ![dmaDesc] = "good"]
        /\ own' = [own EXCEPT ![dmaDesc] = "cpu"]
        /\ dmaDesc' = Next_(dmaDesc)
        /\ UNCHANGED <<rxDesc, info, pc>>
    BY <1>6, <2>1 DEF DmaReceive, Arrivals
  <2>3. own[dmaDesc] = "dma"
    BY <1>6 DEF DmaReceive
  <2>4. m + 1 \in 0 .. Capacity - info.seg /\ Ahead(dmaDesc) = m
    <3>1. CASE m = Capacity
      <4>1. Ahead(dmaDesc) < m
        BY <1>1, <3>1, Positions
      <4> QED
        BY <1>1, <1>2, <2>3, <4>1
    <3>2. CASE m < Capacity
      <4>1. Ahead(dmaDesc) = m
        BY <1>1, <1>2, <3>2, Positions, Constants
      <4>2. info.seg = 1 => dmaDesc # info.fs
        BY <1>1, <1>2, <2>3
      <4>3. info.seg = 1 => m # Capacity - 1
        BY <1>1, <4>1, <4>2, Positions
      <4> QED
        BY <1>1, <1>2, <3>2, <4>1, <4>3, Constants
    <3> QED
      BY <1>1, <1>2, <3>1, <3>2, Constants
  <2>5. dmaDesc' = Up(rxDesc, m + 1)
    BY <1>1, <1>2, <2>2, <2>4, Around, Constants
  <2>6. \A d \in Slots : Ahead(d) = m <=> d = dmaDesc
    BY <1>1, <1>2, <2>4, Positions
  <2>7. \A d \in Desc : own'[d] = "cpu" <=> Ahead(d) < m + 1 \/ (info.seg = 1 /\ d = info.fs)
    <3>1. \A d \in Slots : Ahead(d) \in Int
      BY <1>1, Positions
    <3> QED
      BY <1>1, <1>2, <2>2, <2>6, <3>1
  <2>8. \A d \in Desc : kind'[d] \in {"none", "good"}
    BY <1>1, <2>2
  <2>9. \A d \in Slots : Ahead(d)' = Ahead(d)
    BY <2>2 DEF Ahead
  <2>10. info' = info /\ rxDesc' = rxDesc /\ pc' = pc
    BY <2>2
  <2> QED
    BY <1>1, <1>3, <2>4, <2>5, <2>7, <2>8, <2>9, <2>10 DEF RingOK
<1>7. CASE DmaStarved \/ IrqEnter \/ IrqReturn \/ EthPoll \/ TxLock \/ TxUnlock \/ UNCHANGED vars
  BY <1>1, <1>4, <1>5, <1>7 DEF DmaStarved, IrqEnter, IrqReturn, EthPoll, TxLock, TxUnlock, vars,
                                Receiver, Other
<1>8. CASE RxEnter(Receiver)
  <2>1. info' = info
    BY <1>1, <1>8 DEF RxEnter
  <2> QED
    BY <1>1, <1>4, <1>5, <1>8, <2>1 DEF RxEnter
<1>9. CASE HalLock(Receiver) \/ ScanNone(Receiver) \/ RxRead(Receiver)
  BY <1>1, <1>4, <1>5, <1>9 DEF HalLock, ScanNone, RxRead
<1>10. CASE ScanFirst(Receiver)
  BY <1>1, <1>10 DEF ScanFirst
<1>11. CASE ScanLast(Receiver)
  <2>1. pc[Receiver] = "scan" /\ info.seg = 0 /\ own[rxDesc] = "cpu"
    BY <1>1, <1>11 DEF ScanLast
  <2>2. /\ info'.fs = rxDesc /\ info'.seg = 1
        /\ rxDesc' = Next_(rxDesc) /\ pc'[Receiver] = "read"
        /\ UNCHANGED <<own, kind, dmaDesc>>
    BY <1>1, <1>4, <1>11, <2>1 DEF ScanLast
  <2>3. m \in 1 .. Capacity
    BY <1>1, <1>2, <2>1, Positions, Constants
  <2>4. dmaDesc = Up(rxDesc', m - 1)
    BY <1>1, <1>2, <2>2, <2>3, PositionsNext
  <2>5. \A d \in Slots : /\ Ahead(d)' = IF d = rxDesc THEN Capacity - 1 ELSE Ahead(d) - 1
                         /\ Ahead(d) \in 0 .. Capacity - 1
                         /\ Ahead(d) = 0 <=> d = rxDesc
    <3>1. \A d \in Slots : Ahead(d)' = IF d = rxDesc THEN Capacity - 1 ELSE Ahead(d) - 1
      BY <1>1, <2>2, PositionsNext
    <3>2. \A d \in Slots : Ahead(d) \in 0 .. Capacity - 1 /\ (Ahead(d) = 0 <=> d = rxDesc)
      BY <1>1, Positions
    <3> QED
      BY <3>1, <3>2
  <2>6. \A d \in Desc : own[d] = "cpu" <=> Ahead(d)' < m - 1 \/ d = rxDesc
    BY <1>1, <1>2, <2>1, <2>3, <2>5, Constants
  <2>7. m - 1 \in 0 .. Capacity - 1
    BY <2>3, Constants
  <2>8. (Ahead(info.fs))' = Capacity - 1
    BY <1>1, <2>2, <2>5 DEF Ahead
  <2> QED
    BY <1>1, <1>3, <2>2, <2>4, <2>6, <2>7, <2>8 DEF RingOK
<1>12. CASE RxReject(Receiver) \/ RxAlloc(Receiver) \/ RxNoBuffer(Receiver) \/ RxHasBuffer(Receiver)
  BY <1>1, <1>4, <1>5, <1>12 DEF RxReject, RxAlloc, RxNoBuffer, RxHasBuffer
<1>13. CASE Get1 \/ Get2 \/ Get3 \/ Get4 \/ RxAddr(Receiver)
  BY <1>1, <1>4, <1>5, <1>13 DEF Get1, Get2, Get3, Get4, Getting, RxAddr
<1>14. CASE RxRelease(Receiver)
  <2>1. info.seg = 1 /\ m \in 0 .. Capacity - 1
    BY <1>1, <1>2, <1>14, Constants DEF RxRelease
  <2>2. FrameDesc = {info.fs}
    <3>1. \A i \in 0 .. info.seg - 1 : (info.fs + i) % Capacity = info.fs
      BY <1>1, <2>1, Around, Constants
    <3> QED
      BY <2>1, <3>1 DEF FrameDesc
  <2>3. /\ \A d \in Desc : own'[d] = IF d = info.fs THEN "dma" ELSE own[d]
        /\ info'.seg = 0 /\ pc'[Receiver] = "resume"
        /\ UNCHANGED <<kind, dmaDesc, rxDesc>>
    BY <1>1, <1>4, <1>14, <2>2 DEF RxRelease
  <2>4. \A d \in Desc : own'[d] = "cpu" <=> Ahead(d) < m
    BY <1>1, <1>2, <2>1, <2>3, Constants
  <2>5. \A d \in Slots : Ahead(d)' = Ahead(d)
    BY <2>3 DEF Ahead
  <2> QED
    BY <1>1, <1>2, <1>3, <2>1, <2>3, <2>4, <2>5, Constants DEF RingOK
<1>15. CASE RxResume(Receiver) \/ Posted
  BY <1>1, <1>4, <1>5, <1>15 DEF RxResume, Posted
<1>16. CASE Fetched \/ Put1 \/ Put2 \/ Put3 \/ Put4 \/ FreePbuf("tcpip")
  BY <1>1, <1>4, <1>5, <1>16, Ctx DEF Fetched, Put1, Put2, Put3, Put4, Putting, FreePbuf
<1> QED
  BY <1>6, <1>7, <1>8, <1>9, <1>10, <1>11, <1>12, <1>13, <1>14, <1>15, <1>16, Moves
     DEF Background, Reading, Filling, Freeing

(* Frames that wait to be read.                                             *)
LEMMA UnreadNext ==
  ASSUME RxInv, Sizes, [Next]_vars
  PROVE  UnreadOK'
<1>1. /\ UNCHANGED setup /\ UnreadOK /\ own \in [Desc -> {"dma", "cpu"}] /\ dmaDesc \in Desc
      /\ setup.unread \in Int
  <2>1. setup.unread \in 1 .. Capacity
    BY RxAssumption DEF RxInv, TypeOK
  <2> QED
    BY <2>1, Moves, Constants DEF RxInv, TypeOK
<1>2. IsFiniteSet(Unread) /\ Cardinality(Unread) \in Nat
  BY Constants, FS_Subset, FS_CardinalityType DEF Unread
<1>3. ASSUME Unread' \subseteq Unread
      PROVE  UnreadOK'
  <2>1. Cardinality(Unread') <= Cardinality(Unread) /\ Cardinality(Unread') \in Nat
    BY <1>2, <1>3, FS_Subset, FS_CardinalityType
  <2>2. Cardinality(Unread)' = Cardinality(Unread')
    OBVIOUS
  <2> QED
    BY <1>1, <1>2, <2>1, <2>2 DEF UnreadOK
<1>4. CASE DmaReceive
  <2>1. Unread' = Unread \cup {dmaDesc} /\ Cardinality(Unread) < setup.unread
    BY <1>1, <1>4 DEF DmaReceive, Unread
  <2>2. Cardinality(Unread') <= Cardinality(Unread) + 1 /\ Cardinality(Unread') \in Int
    <3>1. Cardinality(Unread \cup {dmaDesc})
             = IF dmaDesc \in Unread THEN Cardinality(Unread) ELSE Cardinality(Unread) + 1
      BY <1>2, FS_AddElement
    <3> QED
      BY <1>2, <2>1, <3>1
  <2> QED
    BY <1>1, <1>2, <2>1, <2>2 DEF UnreadOK
<1>5. CASE RxRelease(Receiver)
  BY <1>1, <1>3, <1>5 DEF RxRelease, Unread
<1>6. CASE UNCHANGED own
  BY <1>3, <1>6 DEF Unread
<1> QED
  BY <1>4, <1>5, <1>6, Moves
     DEF Background, Reading, Filling, Freeing, dmaVars, vars, DmaStarved, IrqEnter, IrqReturn, EthPoll,
         TxLock, TxUnlock, RxEnter, HalLock, ScanNone, ScanFirst, ScanLast, RxRead, RxReject,
         RxAlloc, RxNoBuffer, RxHasBuffer, Get1, Get2, Get3, Get4, Getting, RxAddr, RxResume,
         Posted, Fetched, Put1, Put2, Put3, Put4, Putting, FreePbuf

-----------------------------------------------------------------------------
(* The queue of spare buffers.  Who is in which call.                       *)
LEMMA Oldest_ ==
  ASSUME RxInv
  PROVE  /\ Oldest = IF qpc[Receiver] = "get_cnt" THEN Up(front, Capacity - 1) ELSE front
         /\ qpc["app"] = "idle" /\ qpc[Other] = "idle"
         /\ qpc["tcpip"] \in {"idle", "put_rear", "put_slot", "put_cnt"}
         /\ qpc[Receiver] \in {"idle", "get_item", "get_front", "get_cnt"}
<1>1. front \in Slots /\ QueueOK
  BY DEF RxInv, TypeOK, QTypeOK
<1>2. \A c \in Contexts : qpc[c] = "get_cnt" => c = Receiver
  BY <1>1, Who DEF QueueOK
<1> QED
  BY <1>1, <1>2, Who, Around DEF Oldest, QueueOK

(* How each step moves the ends of the queue.                               *)
LEMMA Ends ==
  ASSUME RxInv, Sizes, [Next]_vars
  PROVE  /\ Get4 => Count' = Count - 1 /\ Oldest' = Up(Oldest, 1) /\ Count \in 1 .. Capacity
         /\ Put4 => Count' = Count + 1 /\ Oldest' = Oldest /\ Count \in 0 .. Capacity - 1
         /\ ~Get4 /\ ~Put4 => Count' = Count /\ Oldest' = Oldest
<1>1. /\ QTypeOK /\ QueueOK /\ Count \in 0 .. Capacity /\ front \in Slots
      /\ qpc \in [Contexts -> Steps] /\ Receiver \in Contexts /\ "tcpip" \in Contexts
      /\ Receiver # "tcpip"
  BY Who DEF RxInv, TypeOK, QueueOK, QTypeOK
<1>2. /\ put_cnt \in Int /\ put_cnt >= 0 /\ put_cnt < CntMod
      /\ get_cnt \in Int /\ get_cnt >= 0 /\ get_cnt < CntMod
      /\ CntMod \in Int /\ Capacity \in Int /\ Capacity < CntMod /\ Capacity >= 1
      /\ (put_cnt + 1) % CntMod = (IF put_cnt + 1 < CntMod THEN put_cnt + 1 ELSE 0)
      /\ (get_cnt + 1) % CntMod = (IF get_cnt + 1 < CntMod THEN get_cnt + 1 ELSE 0)
  BY <1>1, Wraps, Constants DEF QTypeOK
<1>3. \A c \in Contexts : qpc[c] = "get_cnt" <=> c = Receiver /\ qpc[Receiver] = "get_cnt"
  BY <1>1, Oldest_, Who
<1>4. ASSUME UNCHANGED front,
             \A c \in Contexts : qpc'[c] = "get_cnt" <=> qpc[c] = "get_cnt"
      PROVE  Oldest' = Oldest
  BY <1>4 DEF Oldest
<1>5. CASE Get4
  <2>1. Count \in 1 .. Capacity
    BY <1>1, <1>5, Constants DEF QueueOK, Get4, Runs
  <2>2. Count' = Count - 1
    <3>1. get_cnt' = (get_cnt + 1) % CntMod /\ put_cnt' = put_cnt
      BY <1>5 DEF Get4, GetCount
    <3> QED
      BY <1>2, <2>1, <3>1 DEF Count
  <2>3. Oldest' = Up(Oldest, 1)
    <3>1. qpc[Receiver] = "get_cnt" /\ qpc' = [qpc EXCEPT ![Receiver] = "idle"] /\ front' = front
      BY <1>5 DEF Get4, GetCount, Goto
    <3>2. \A c \in Contexts : qpc'[c] # "get_cnt"
      BY <1>1, <1>3, <3>1
    <3>3. Oldest' = front
      BY <3>1, <3>2 DEF Oldest
    <3>4. Oldest = Up(front, Capacity - 1)
      BY <3>1, Oldest_
    <3> QED
      BY <1>1, <3>3, <3>4, Around
  <2>4. ~Put4
    BY <1>5, <2>2, <1>2 DEF Get4, Put4, GetCount, PutCount, Jump, Runs
  <2> QED
    BY <1>5, <2>1, <2>2, <2>3, <2>4
<1>6. CASE Put4
  <2>1. Count \in 0 .. Capacity - 1
    BY <1>1, <1>6, Constants DEF QueueOK, Put4, Runs
  <2>2. Count' = Count + 1
    <3>1. put_cnt' = (put_cnt + 1) % CntMod /\ get_cnt' = get_cnt
      BY <1>6 DEF Put4, PutCount
    <3> QED
      BY <1>2, <2>1, <3>1 DEF Count
  <2>3. Oldest' = Oldest
    <3>1. qpc' = [qpc EXCEPT !["tcpip"] = "idle"] /\ front' = front
      BY <1>6 DEF Put4, PutCount, Goto
    <3> QED
      BY <1>1, <1>3, <1>4, <3>1
  <2>4. ~Get4
    BY <1>6, <2>2, <1>2 DEF Get4, Put4, GetCount, PutCount, Jump, Runs
  <2> QED
    BY <1>6, <2>1, <2>2, <2>3, <2>4
<1>7. CASE ~Get4 /\ ~Put4
  <2>1. CASE Get3
    <3>1. /\ qpc[Receiver] = "get_front" /\ qpc' = [qpc EXCEPT ![Receiver] = "get_cnt"]
          /\ front' = Next_(front) /\ UNCHANGED <<put_cnt, get_cnt>>
      BY <2>1 DEF Get3, GetFront, Goto
    <3>2. Count' = Count
      BY <3>1 DEF Count
    <3>3. Oldest' = (front' + Capacity - 1) % Capacity
      BY <1>1, <3>1 DEF Oldest
    <3>4. front' = Up(front, 1) /\ front' \in Slots
      BY <1>1, <3>1, Around, Constants
    <3>5. Oldest' = front
      BY <1>1, <3>3, <3>4, Around
    <3>6. Oldest = front
      BY <3>1, Oldest_
    <3> QED
      BY <1>7, <3>2, <3>5, <3>6
  <2>2. CASE Get1 \/ Get2 \/ Put1 \/ Put2 \/ Put3
    <3>1. /\ UNCHANGED <<front, put_cnt, get_cnt>>
          /\ \E c \in {Receiver, "tcpip"}, s \in {"get_item", "get_front", "put_rear", "put_slot", "put_cnt"} :
               qpc[c] # "get_cnt" /\ qpc' = [qpc EXCEPT ![c] = s]
      BY <2>2, <1>1, Oldest_
         DEF Get1, Get2, Put1, Put2, Put3, GetCall, GetItem, PutCall, PutRear, PutSlot, Goto, queueVars
    <3>2. Count' = Count
      BY <3>1 DEF Count
    <3>3. \A c \in Contexts : qpc'[c] = "get_cnt" <=> qpc[c] = "get_cnt"
      BY <1>1, <3>1
    <3> QED
      BY <1>4, <1>7, <3>1, <3>2, <3>3
  <2>3. CASE UNCHANGED <<put_cnt, get_cnt, front, qpc>>
    BY <1>4, <1>7, <2>3 DEF Count
  <2> QED
    BY <1>7, <2>1, <2>2, <2>3, Moves
       DEF Background, Reading, Filling, Freeing, rxQueue, vars, DmaReceive, DmaStarved, IrqEnter,
           IrqReturn, EthPoll, TxLock, TxUnlock, RxEnter, HalLock, ScanNone, ScanFirst, ScanLast,
           RxRead, RxReject, RxAlloc, RxNoBuffer, RxHasBuffer, RxAddr, RxRelease, RxResume,
           Posted, Fetched, FreePbuf, queueVars, callVars
<1> QED
  BY <1>5, <1>6, <1>7

(* queue_get and queue_put keep the fields of rx_buf_queue in order, one in *)
(* the receiver and one in tcpip, in every interleaving.                    *)
LEMMA QueueNext ==
  ASSUME RxInv, Sizes, [Next]_vars
  PROVE  QueueOK'
<1>1. /\ QTypeOK /\ QueueOK /\ Count \in 0 .. Capacity /\ Oldest \in Slots /\ rear \in Slots
      /\ array \in [Slots -> Items \cup {NoItem}] /\ qitem \in [Contexts -> Items \cup {NoItem}]
      /\ qpc \in [Contexts -> Steps] /\ pc \in [Contexts -> PcSteps]
      /\ buf \in [Pbufs -> Bufs] /\ p \in [Contexts -> Pbufs \cup {NoPbuf}]
  BY Buffers DEF RxInv, TypeOK, QueueOK, QTypeOK
<1>2. /\ UNCHANGED <<Receiver, Other>> /\ Receiver \in Contexts /\ Other \in Contexts
      /\ "tcpip" \in Contexts /\ "app" \in Contexts
      /\ Receiver # Other /\ {Receiver, Other} \cap {"tcpip", "app"} = {}
  BY Moves, Who
<1>3. p[Receiver] # NoPbuf => p[Receiver] # p["tcpip"]
  BY DEF RxInv, PoolOK
<1>4. p["tcpip"] # NoPbuf => holder[p["tcpip"]] = "driver"
  BY <1>2 DEF RxInv, PoolOK
<1> USE DEF Jump, Leave, Runs, QueueOK
<1>5. ASSUME UNCHANGED <<queueVars, qpc>>, ~Get4, ~Put4,
             qitem' = qitem \/ (pc[Receiver] # "get" /\ qitem' = [qitem EXCEPT ![Receiver] = NoItem]),
             pc["tcpip"] = "put" <=> pc'["tcpip"] = "put",
             pc["tcpip"] = "put" => p'["tcpip"] = p["tcpip"] /\ buf'[p["tcpip"]] = buf[p["tcpip"]],
             pc[Receiver] = "get" => pc'[Receiver] = "get",
             pc'[Receiver] = "get" => Count > 0
      PROVE  QueueOK'
  BY <1>1, <1>2, <1>5, Ends DEF queueVars
<1>6. CASE DmaReceive \/ DmaStarved \/ IrqEnter \/ IrqReturn \/ EthPoll \/ TxLock \/ TxUnlock \/ UNCHANGED vars
  <2>1. UNCHANGED <<queueVars, qpc, qitem, p, buf>>
    BY <1>6 DEF DmaReceive, DmaStarved, IrqEnter, IrqReturn, EthPoll, TxLock, TxUnlock, vars, rxQueue,
                callVars, pool
  <2>2. /\ pc["tcpip"] = "put" <=> pc'["tcpip"] = "put"
        /\ pc[Receiver] = "get" <=> pc'[Receiver] = "get"
    BY <1>1, <1>2, <1>6
       DEF DmaReceive, DmaStarved, IrqEnter, IrqReturn, EthPoll, TxLock, TxUnlock, vars, Receiver, Other
  <2>3. ~Get4 /\ ~Put4
    BY <1>1, <1>2, <2>1, <2>2 DEF Get4, Put4
  <2>4. pc'[Receiver] = "get" => Count > 0
    BY <1>1, <2>2
  <2> HIDE DEF QueueOK
  <2> QED
    BY <1>5, <2>1, <2>2, <2>3, <2>4 DEF queueVars
<1>7. CASE RxEnter(Receiver) \/ HalLock(Receiver) \/ ScanNone(Receiver) \/ ScanFirst(Receiver)
           \/ ScanLast(Receiver) \/ RxRead(Receiver)
  BY <1>1, <1>2, <1>5, <1>7 DEF RxEnter, HalLock, ScanNone, ScanFirst, ScanLast, RxRead, rxQueue,
                                callVars, pool, Get4, Put4
<1>8. CASE RxReject(Receiver) \/ RxRelease(Receiver) \/ RxResume(Receiver) \/ Posted
  BY <1>1, <1>2, <1>5, <1>8 DEF RxReject, RxRelease, RxResume, Posted, rxQueue, callVars, pool,
                                Get4, Put4
<1>9. CASE RxAddr(Receiver)
  BY <1>1, <1>2, <1>5, <1>9 DEF RxAddr, pool, Get4, Put4
<1>10. CASE RxAlloc(Receiver)
  <2>1. PICK x \in Pbufs : /\ holder[x] = "free" /\ buf' = [buf EXCEPT ![x] = frame[Receiver].buf]
                           /\ p' = [p EXCEPT ![Receiver] = x]
    BY <1>10 DEF RxAlloc
  <2>2. pc["tcpip"] = "put" => p["tcpip"] # NoPbuf
    BY DEF RxInv, PoolOK
  <2> QED
    BY <1>1, <1>2, <1>4, <1>5, <1>10, <2>1, <2>2 DEF RxAlloc, rxQueue, callVars, Get4, Put4
<1>11. CASE RxNoBuffer(Receiver)
  <2>1. pc["tcpip"] = "put" => p["tcpip"] # NoPbuf
    BY DEF RxInv, PoolOK
  <2> QED
    BY <1>1, <1>2, <1>3, <1>5, <1>11, <2>1 DEF RxNoBuffer, MempFree, rxQueue, callVars, Get4, Put4
<1>12. CASE RxHasBuffer(Receiver)
  <2>1. Count > 0
    BY <1>1, <1>12, Wraps DEF RxHasBuffer
  <2> QED
    BY <1>1, <1>2, <1>5, <1>12, <2>1 DEF RxHasBuffer, rxQueue, callVars, pool, Get4, Put4
<1>13. CASE Fetched
  <2>1. /\ UNCHANGED <<queueVars, qpc, qitem, buf>> /\ pc["tcpip"] = "idle"
        /\ pc' = [pc EXCEPT !["tcpip"] = "free"]
    BY <1>13 DEF Fetched, rxQueue, callVars
  <2>2. ~Get4 /\ ~Put4
    BY <1>1, <1>2, <2>1 DEF Get4, Put4
  <2>3. pc'[Receiver] = pc[Receiver] /\ (pc[Receiver] = "get" => Count > 0)
    BY <1>1, <1>2, <2>1
  <2> HIDE DEF QueueOK
  <2> QED
    BY <1>1, <1>2, <1>5, <2>1, <2>2, <2>3
<1>14. CASE FreePbuf("tcpip")
  <2>1. /\ UNCHANGED <<queueVars, qpc, qitem>> /\ pc["tcpip"] = "unpool"
        /\ pc' = [pc EXCEPT !["tcpip"] = "idle"]
    BY <1>14, Who DEF FreePbuf, rxQueue, callVars
  <2>2. ~Get4 /\ ~Put4
    BY <1>1, <1>2, <2>1 DEF Get4, Put4
  <2>3. pc'[Receiver] = pc[Receiver] /\ (pc[Receiver] = "get" => Count > 0)
    BY <1>1, <1>2, <2>1
  <2> HIDE DEF QueueOK
  <2> QED
    BY <1>1, <1>2, <1>5, <2>1, <2>2, <2>3
<1>15. CASE Get4
  <2>1. /\ Count' = Count - 1 /\ Oldest' = Up(Oldest, 1) /\ Count \in 1 .. Capacity
        /\ Up(Oldest', Count') = Up(Oldest, Count)
    <3>1. Count' = Count - 1 /\ Oldest' = Up(Oldest, 1) /\ Count \in 1 .. Capacity
      BY <1>15, Ends
    <3>2. Count - 1 \in 0 .. Capacity - 1 /\ (Count - 1) + 1 = Count
      BY <3>1, Constants
    <3> QED
      BY <1>1, <3>1, <3>2, Around
  <2>2. Count' \in 0 .. Capacity /\ Count' < Capacity
    BY <2>1, Constants
  <2>3. /\ qpc' = [qpc EXCEPT ![Receiver] = "idle"] /\ pc' = [pc EXCEPT ![Receiver] = "addr"]
        /\ UNCHANGED <<rear, array, qitem, p, buf>>
    BY <1>15 DEF Get4, GetCount, Goto, Getting, pool
  <2> QED
    BY <1>1, <1>2, <2>1, <2>2, <2>3
<1>16. CASE Put4
  <2>1. /\ Count' = Count + 1 /\ Oldest' = Oldest /\ Count \in 0 .. Capacity - 1
    BY <1>16, Ends
  <2>2. /\ qpc["tcpip"] = "put_cnt" /\ rear = Up(Oldest, Count)
        /\ qpc' = [qpc EXCEPT !["tcpip"] = "idle"] /\ pc' = [pc EXCEPT !["tcpip"] = "unpool"]
        /\ UNCHANGED <<rear, array, p, buf>> /\ qitem' = [qitem EXCEPT !["tcpip"] = NoItem]
    BY <1>1, <1>16 DEF Put4, PutCount, Goto, Putting, pool
  <2>3. Up(rear, 1) = Up(Oldest, Count + 1)
    BY <1>1, <2>1, <2>2, Around
  <2>4. Count' \in 0 .. Capacity /\ Count' > 0
    BY <2>1, Constants
  <2> QED
    BY <1>1, <1>2, <2>1, <2>2, <2>3, <2>4
<1>17. ~Get4 /\ ~Put4 => Count' = Count /\ Oldest' = Oldest
  BY Ends
<1>18. CASE Get1 \/ Get2 \/ Get3
  <2>1. ~Get4 /\ ~Put4
    BY <1>1, <1>2, <1>18 DEF Get1, Get2, Get3, Get4, Put4
  <2>2. CASE Get1
    BY <1>1, <1>2, <1>17, <2>1, <2>2 DEF Get1, GetCall, Goto, Getting, pool, queueVars
  <2>3. CASE Get2
    <3>1. Oldest = front
      BY <2>3, Oldest_ DEF Get2, GetItem
    <3> QED
      BY <1>1, <1>2, <1>17, <2>1, <2>3, <3>1 DEF Get2, GetItem, Goto, Getting, pool, queueVars
  <2>4. CASE Get3
    BY <1>1, <1>2, <1>17, <2>1, <2>4 DEF Get3, GetFront, Goto, Getting, pool
  <2> QED
    BY <1>18, <2>2, <2>3, <2>4
<1>19. CASE Put1 \/ Put2 \/ Put3
  <2>1. ~Get4 /\ ~Put4
    BY <1>1, <1>2, <1>19 DEF Put1, Put2, Put3, Get4, Put4
  <2>2. CASE Put1
    <3>1. Count < Capacity
      BY <2>2, RoomInQueue DEF Put1
    <3> QED
      BY <1>1, <1>2, <1>17, <2>1, <2>2, <3>1 DEF Put1, PutCall, Goto, Putting, pool, queueVars
  <2>3. CASE Put2
    <3>1. rear' = Up(rear, 1)
      BY <1>1, <2>3, Around DEF Put2, PutRear
    <3> QED
      BY <1>1, <1>2, <1>17, <2>1, <2>3, <3>1 DEF Put2, PutRear, Goto, Putting, pool
  <2>4. CASE Put3
    <3>1. /\ qpc["tcpip"] = "put_slot" /\ rear = Up(Oldest, Count) /\ Count < Capacity
          /\ array' = [array EXCEPT ![rear] = qitem["tcpip"]]
          /\ qpc' = [qpc EXCEPT !["tcpip"] = "put_cnt"]
          /\ UNCHANGED <<rear, qitem, pc, p, buf>>
      BY <1>1, <2>4 DEF Put3, PutSlot, Goto, Putting, pool
    <3>2. Count > 0 => rear # Oldest
      <4>1. Count \in 0 .. Capacity - 1 /\ 0 \in 0 .. Capacity - 1
        BY <1>1, <3>1, Constants
      <4> QED
        BY <1>1, <3>1, <4>1, Around
    <3> QED
      BY <1>1, <1>2, <1>17, <2>1, <3>1, <3>2
  <2> QED
    BY <1>19, <2>2, <2>3, <2>4
<1> QED
  BY <1>6, <1>7, <1>8, <1>9, <1>10, <1>11, <1>12, <1>13, <1>14, <1>15, <1>16, <1>18, <1>19, Moves
     DEF Background, Reading, Filling, Freeing

-----------------------------------------------------------------------------
(* What the places depend on: one receiver and tcpip.                       *)
Busy == pc[Receiver] \in {"empty", "get", "addr"}

Depends ==
  /\ \A d \in Desc : AtDesc(d) = IF Busy /\ d = info.fs THEN NoItem ELSE addr[d]
  /\ \A x \in Pbufs :
       HoldsBuffer(x) <=> holder[x] # "free" /\ ~(pc["tcpip"] = "unpool" /\ p["tcpip"] = x)
  /\ \A c \in Receivers :
       AtHand(c) = IF c = Receiver /\ pc[Receiver] = "addr" THEN qitem[Receiver] ELSE NoItem

(* With one receiver at work, Taken, HoldsBuffer and the buffer in hand are *)
(* known from the receiver and tcpip alone.                                 *)
LEMMA Dependence == Control => Depends
<1> SUFFICES ASSUME Control PROVE Depends
  OBVIOUS
<1>1. \A d \in Desc : Taken(d) <=> Busy /\ d = info.fs
  BY Who DEF Taken, Busy, Control
<1>2. \A x \in Pbufs :
        HoldsBuffer(x) <=> holder[x] # "free" /\ ~(pc["tcpip"] = "unpool" /\ p["tcpip"] = x)
  BY Who DEF HoldsBuffer, Control
<1>3. \A c \in Receivers :
        AtHand(c) = IF c = Receiver /\ pc[Receiver] = "addr" THEN qitem[Receiver] ELSE NoItem
  BY Who DEF AtHand, Control
<1> QED
  BY <1>1, <1>2, <1>3 DEF Depends, AtDesc

(* The same after a step.                                                   *)
LEMMA DependenceNext == Control' => Depends'
  BY Dependence, PTL

(* Every place whose own content stays keeps its content.                   *)
LEMMA Contents ==
  ASSUME NEW E,
         \A d \in Desc : <<"desc", d>> \notin E => AtDesc(d)' = AtDesc(d),
         \A s \in Slots : <<"slot", s>> \notin E => AtSlot(s)' = AtSlot(s),
         \A x \in Pbufs : <<"pbuf", x>> \notin E => AtPbuf(x)' = AtPbuf(x),
         \A c \in Receivers : <<"hand", c>> \notin E => AtHand(c)' = AtHand(c)
  PROVE  \A q \in Places \ E : Content(q)' = Content(q)
<1> SUFFICES ASSUME NEW q \in Places \ E PROVE Content(q)' = Content(q)
  OBVIOUS
<1>1. CASE q \in {"desc"} \X Desc
  BY <1>1 DEF Content
<1>2. CASE q \in {"slot"} \X Slots
  BY <1>2 DEF Content
<1>3. CASE q \in {"pbuf"} \X Pbufs
  BY <1>3 DEF Content
<1>4. CASE q \in {"hand"} \X Receivers
  BY <1>4 DEF Content
<1> QED
  BY <1>1, <1>2, <1>3, <1>4 DEF Places

(* What is at each kind of place after a step.                              *)
LEMMA ContentPrimed ==
  /\ \A d \in Desc : <<"desc", d>> \in Places /\ Content(<<"desc", d>>)' = AtDesc(d)'
  /\ \A s \in Slots : <<"slot", s>> \in Places /\ Content(<<"slot", s>>)' = AtSlot(s)'
  /\ \A x \in Pbufs : <<"pbuf", x>> \in Places /\ Content(<<"pbuf", x>>)' = AtPbuf(x)'
  /\ \A c \in Receivers : <<"hand", c>> \in Places /\ Content(<<"hand", c>>)' = AtHand(c)'
  BY DEF Places, Content

(* A step after which every place has what it had.                          *)
LEMMA Stay ==
  ASSUME EachOnce, \A q \in Places : Content(q)' = Content(q)
  PROVE  EachOnce'
  BY DEF EachOnce

(* The slots in use, from step to step.                                     *)
LEMMA InUseNext ==
  ASSUME RxInv, Sizes, [Next]_vars
  PROVE  /\ \A s \in Slots : Get4 => (InUse(s)' <=> InUse(s) /\ s # Oldest)
         /\ \A s \in Slots : Put4 => (InUse(s)' <=> InUse(s) \/ s = Up(Oldest, Count))
         /\ \A s \in Slots : ~Get4 /\ ~Put4 => (InUse(s)' <=> InUse(s))
         /\ pc[Receiver] = "get" => InUse(Oldest)
         /\ Count < Capacity => ~InUse(Up(Oldest, Count))
<1>1. Oldest \in Slots /\ Count \in 0 .. Capacity /\ Capacity \in Nat \ {0}
      /\ (pc[Receiver] = "get" => Count > 0)
  BY Buffers, Constants DEF RxInv, QueueOK
<1>2. ASSUME Get4
      PROVE  \A s \in Slots : InUse(s)' <=> InUse(s) /\ s # Oldest
  <2>1. Count' = Count - 1 /\ Oldest' = Up(Oldest, 1) /\ Count \in 1 .. Capacity
    BY <1>2, Ends
  <2>2. \A k \in 0 .. Count - 2 : Up(Oldest', k) = Up(Oldest, k + 1)
    BY <1>1, <2>1, Around
  <2>3. \A s \in Slots : InUse(s)' <=> \E k \in 0 .. Count - 2 : Up(Oldest', k) = s
    BY <1>1, <2>1 DEF InUse
  <2>4. \A s \in Slots : InUse(s)' <=> \E k \in 1 .. Count - 1 : Up(Oldest, k) = s
    <3>1. \A s \in Slots : (\E k \in 0 .. Count - 2 : Up(Oldest, k + 1) = s)
                             <=> \E k \in 1 .. Count - 1 : Up(Oldest, k) = s
      <4>1. ASSUME NEW s \in Slots, NEW k \in 0 .. Count - 2, Up(Oldest, k + 1) = s
            PROVE  \E l \in 1 .. Count - 1 : Up(Oldest, l) = s
        <5>1. k + 1 \in 1 .. Count - 1
          BY <1>1
        <5> QED
          BY <4>1, <5>1
      <4>2. ASSUME NEW s \in Slots, NEW l \in 1 .. Count - 1, Up(Oldest, l) = s
            PROVE  \E k \in 0 .. Count - 2 : Up(Oldest, k + 1) = s
        <5>1. l - 1 \in 0 .. Count - 2 /\ (l - 1) + 1 = l
          BY <1>1
        <5> QED
          BY <4>2, <5>1
      <4> QED
        BY <4>1, <4>2
    <3> QED
      BY <2>2, <2>3, <3>1
  <2>5. \A k \in 0 .. Count - 1 : Up(Oldest, k) = Oldest <=> k = 0
    BY <1>1, <2>1, Around
  <2> QED
    BY <1>1, <2>1, <2>4, <2>5 DEF InUse
<1>3. ASSUME Put4
      PROVE  \A s \in Slots : InUse(s)' <=> InUse(s) \/ s = Up(Oldest, Count)
  <2>1. Count' = Count + 1 /\ Oldest' = Oldest
    BY <1>3, Ends
  <2>2. \A s \in Slots : InUse(s)' <=> \E k \in 0 .. Count : Up(Oldest, k) = s
    BY <1>1, <2>1 DEF InUse
  <2> QED
    BY <1>1, <2>2 DEF InUse
<1>4. ASSUME ~Get4, ~Put4
      PROVE  \A s \in Slots : InUse(s)' <=> InUse(s)
  BY <1>4, Ends DEF InUse
<1>5. pc[Receiver] = "get" => InUse(Oldest)
  BY <1>1, Around DEF InUse
<1>6. Count < Capacity => ~InUse(Up(Oldest, Count))
  BY <1>1, Around DEF InUse
<1> QED
  BY <1>2, <1>3, <1>4, <1>5, <1>6

(* A place that should have a buffer keeps having one.                      *)
Filled ==
  /\ \A d \in Desc : addr[d] # NoItem
  /\ \A s \in Slots : InUse(s) => array[s] # NoItem
  /\ \A x \in Pbufs : HoldsBuffer(x) => buf[x] # NoItem
  /\ pc[Receiver] = "addr" => qitem[Receiver] # NoItem

(* low_level_input, queue_put and lwip_custom_pbuf_free never pass on an    *)
(* absent buffer.                                                           *)
LEMMA FilledNext ==
  ASSUME RxInv, Sizes, [Next]_vars
  PROVE  Filled'
<1>1. /\ Filled /\ Control /\ Control'
      /\ addr \in [Desc -> Bufs] /\ buf \in [Pbufs -> Bufs] /\ holder \in [Pbufs -> Holders]
      /\ array \in [Slots -> Items \cup {NoItem}] /\ qitem \in [Contexts -> Items \cup {NoItem}]
      /\ pc \in [Contexts -> PcSteps] /\ p \in [Contexts -> Pbufs \cup {NoPbuf}]
      /\ rear \in Slots /\ info.fs \in Desc
  BY ControlNext DEF RxInv, TypeOK, QTypeOK, PlacesOK, Filled
<1>2. UNCHANGED <<Receiver, Other>> /\ Receiver \in Contexts /\ "tcpip" \in Contexts /\ Receiver # "tcpip"
  BY Moves, Who
<1>3. Depends /\ Depends'
  BY <1>1, Dependence, DependenceNext
<1> USE DEF Jump, Leave, Runs
<1>4. \A d \in Desc : addr'[d] # NoItem
  <2>1. CASE RxAddr(Receiver)
    BY <1>1, <2>1 DEF RxAddr, Filled
  <2>2. CASE UNCHANGED addr
    BY <1>1, <2>2 DEF Filled
  <2> QED
    BY <2>1, <2>2, Moves
       DEF Background, Reading, Filling, Freeing, dmaVars, vars, DmaReceive, DmaStarved, IrqEnter, IrqReturn,
           EthPoll, TxLock, TxUnlock, RxEnter, HalLock, ScanNone, ScanFirst, ScanLast, RxRead,
           RxReject, RxAlloc, RxNoBuffer, RxHasBuffer, Get1, Get2, Get3, Get4, Getting, RxRelease,
           RxResume, Posted, Fetched, Put1, Put2, Put3, Put4, Putting, FreePbuf
<1>5. ASSUME NEW s \in Slots, InUse(s)'
      PROVE  array'[s] # NoItem
  <2>1. CASE Put3
    <3>1. InUse(s) /\ array' = [array EXCEPT ![rear] = qitem["tcpip"]] /\ qpc["tcpip"] = "put_slot"
      <4>1. ~Get4 /\ ~Put4
        BY <1>1, <1>2, <2>1 DEF Put3, Get4, Put4
      <4> QED
        BY <1>5, <2>1, <4>1, InUseNext DEF Put3, PutSlot
    <3>2. qitem["tcpip"] = buf[p["tcpip"]] /\ pc["tcpip"] = "put"
      BY <3>1 DEF RxInv, QueueOK
    <3>3. qitem["tcpip"] \in Items
      BY <3>2, Buffers DEF RxInv, PoolOK
    <3> QED
      BY <1>1, <3>1, <3>3, Constants DEF Filled
  <2>2. CASE Put4
    <3>1. (InUse(s) \/ s = Up(Oldest, Count)) /\ array' = array /\ qpc["tcpip"] = "put_cnt"
      BY <1>5, <2>2, InUseNext DEF Put4, PutCount
    <3>2. /\ qitem["tcpip"] = buf[p["tcpip"]] /\ pc["tcpip"] = "put"
          /\ rear = Up(Oldest, Count) /\ array[rear] = qitem["tcpip"]
      BY <3>1 DEF RxInv, QueueOK
    <3>3. qitem["tcpip"] \in Items
      BY <3>2, Buffers DEF RxInv, PoolOK
    <3> QED
      BY <1>1, <3>1, <3>2, <3>3, Constants DEF Filled
  <2>3. CASE UNCHANGED array /\ ~Put4
    <3>1. InUse(s)
      BY <1>5, <2>3, InUseNext
    <3> QED
      BY <1>1, <2>3, <3>1 DEF Filled
  <2> QED
    BY <2>1, <2>2, <2>3, Moves
       DEF Background, Reading, Filling, Freeing, rxQueue, queueVars, vars, DmaReceive, DmaStarved, IrqEnter,
           IrqReturn, EthPoll, TxLock, TxUnlock, RxEnter, HalLock, ScanNone, ScanFirst, ScanLast,
           RxRead, RxReject, RxAlloc, RxNoBuffer, RxHasBuffer, Get1, Get2, Get3, Get4, GetCall,
           GetItem, GetFront, GetCount, RxAddr, RxRelease, RxResume, Posted, Fetched, Put1, Put2,
           PutCall, PutRear, FreePbuf
<1>6. ASSUME NEW x \in Pbufs, HoldsBuffer(x)'
      PROVE  buf'[x] # NoItem
  <2>1. CASE RxAlloc(Receiver)
    <3>1. PICK y \in Pbufs : /\ holder' = [holder EXCEPT ![y] = "driver"]
                             /\ buf' = [buf EXCEPT ![y] = frame[Receiver].buf]
      BY <2>1 DEF RxAlloc
    <3>2. frame[Receiver].buf # NoItem
      BY <1>1, <2>1 DEF RxInv, FrameOK, RxAlloc, Filled
    <3>3. x # y => HoldsBuffer(x)
      <4>1. UNCHANGED pc["tcpip"] /\ UNCHANGED p["tcpip"]
        BY <1>1, <1>2, <2>1 DEF RxAlloc
      <4> QED
        BY <1>1, <1>3, <1>6, <3>1, <4>1 DEF Depends
    <3> QED
      BY <1>1, <3>1, <3>2, <3>3 DEF Filled
  <2>2. CASE RxNoBuffer(Receiver)
    <3>1. /\ holder' = [holder EXCEPT ![p[Receiver]] = "free"]
          /\ buf' = [buf EXCEPT ![p[Receiver]] = NoItem]
          /\ p'["tcpip"] = p["tcpip"] /\ pc'["tcpip"] = pc["tcpip"]
      BY <1>1, <1>2, <2>2 DEF RxNoBuffer, MempFree
    <3>2. x # p[Receiver] /\ HoldsBuffer(x)
      BY <1>1, <1>3, <1>6, <3>1 DEF Depends
    <3> QED
      BY <1>1, <3>1, <3>2 DEF Filled
  <2>3. CASE FreePbuf("tcpip")
    <3>1. /\ holder' = [holder EXCEPT ![p["tcpip"]] = "free"]
          /\ buf' = [buf EXCEPT ![p["tcpip"]] = NoItem]
      BY <2>3 DEF FreePbuf, MempFree
    <3>2. x # p["tcpip"] /\ HoldsBuffer(x)
      BY <1>1, <1>3, <1>6, <3>1 DEF Depends
    <3> QED
      BY <1>1, <3>1, <3>2 DEF Filled
  <2>4. CASE Posted
    <3>1. /\ holder' = [holder EXCEPT ![p[Receiver]] = "mbox"] /\ buf' = buf
          /\ p'["tcpip"] = p["tcpip"] /\ pc'["tcpip"] = pc["tcpip"]
          /\ holder[p[Receiver]] = "driver"
      BY <1>1, <1>2, <2>4 DEF Posted, RxInv, PoolOK
    <3> QED
      BY <1>1, <1>3, <1>6, <3>1 DEF Depends, Filled
  <2>5. CASE Fetched
    <3>1. PICK y \in InMbox : /\ holder' = [holder EXCEPT ![y] = "driver"] /\ buf' = buf
                              /\ pc["tcpip"] = "idle"
      BY <2>5 DEF Fetched
    <3> QED
      BY <1>1, <1>3, <1>6, <3>1 DEF Depends, Filled, InMbox
  <2>6. CASE Put4
    BY <1>1, <1>3, <1>6, <2>6 DEF Put4, Putting, Depends, Filled, pool
  <2>7. CASE UNCHANGED <<buf, holder, p["tcpip"]>> /\ (pc["tcpip"] = "unpool" => pc'["tcpip"] = "unpool")
    BY <1>1, <1>3, <1>6, <2>7 DEF Depends, Filled
  <2>8. CASE Background
    <3>1. UNCHANGED <<buf, holder, p>> /\ (pc["tcpip"] = "unpool" => pc'["tcpip"] = "unpool")
      BY <1>1, <1>2, <2>8, Ctx
         DEF Background, pool, vars, DmaReceive, DmaStarved, IrqEnter, IrqReturn, EthPoll, TxLock, TxUnlock
    <3> QED
      BY <2>7, <3>1
  <2>9. CASE Reading
    <3>1. UNCHANGED <<buf, holder, p>> /\ pc'["tcpip"] = pc["tcpip"]
      BY <1>1, <1>2, <2>9 DEF Reading, pool, RxEnter, HalLock, ScanNone, ScanFirst, ScanLast, RxRead
    <3> QED
      BY <2>7, <3>1
  <2>10. CASE \/ RxReject(Receiver) \/ RxHasBuffer(Receiver) \/ Get1 \/ Get2 \/ Get3 \/ Get4
              \/ RxAddr(Receiver) \/ RxRelease(Receiver) \/ RxResume(Receiver)
    <3>1. UNCHANGED <<buf, holder>> /\ p'["tcpip"] = p["tcpip"] /\ pc'["tcpip"] = pc["tcpip"]
      BY <1>1, <1>2, <2>10 DEF pool, RxReject, RxHasBuffer, Get1, Get2, Get3, Get4, Getting, RxAddr,
                               RxRelease, RxResume
    <3> QED
      BY <2>7, <3>1
  <2>11. CASE Put1 \/ Put2 \/ Put3
    <3>1. UNCHANGED <<buf, holder, p>> /\ pc["tcpip"] # "unpool"
      BY <2>11 DEF pool, Put1, Put2, Put3, Putting
    <3> QED
      BY <2>7, <3>1
  <2> QED
    BY <2>1, <2>2, <2>3, <2>4, <2>5, <2>6, <2>8, <2>9, <2>10, <2>11, Moves DEF Filling, Freeing
<1>7. ASSUME pc'[Receiver] = "addr"
      PROVE  qitem'[Receiver] # NoItem
  <2>1. CASE Get4
    <3>1. qitem'[Receiver] = array[Oldest]
      BY <2>1 DEF Get4, GetCount, RxInv, QueueOK
    <3>2. InUse(Oldest)
      BY <2>1, InUseNext DEF Get4
    <3> QED
      BY <1>1, <3>1, <3>2, Buffers DEF Filled
  <2>2. CASE pc[Receiver] = "addr" /\ qitem'[Receiver] = qitem[Receiver]
    BY <1>1, <2>2 DEF Filled
  <2>3. CASE Background
    <3>1. qitem' = qitem /\ (pc'[Receiver] = pc[Receiver] \/ pc'[Receiver] \in {"idle", "enter"})
      BY <1>1, <1>2, <2>3
         DEF Background, vars, rxQueue, callVars, DmaReceive, DmaStarved, IrqEnter, IrqReturn,
             EthPoll, TxLock, TxUnlock, Receiver
    <3> QED
      BY <1>7, <2>2, <3>1
  <2>4. ~Reading
    BY <1>1, <1>2, <1>7 DEF Reading, RxEnter, HalLock, ScanNone, ScanFirst, ScanLast, RxRead
  <2>5. CASE Filling
    BY <1>1, <1>2, <1>7, <2>1, <2>5
       DEF Filling, RxReject, RxAlloc, RxNoBuffer, RxHasBuffer, Get1, Get2, Get3, RxAddr,
           RxRelease, RxResume, Posted
  <2>6. CASE Freeing
    <3>1. pc'[Receiver] = pc[Receiver] /\ qitem'[Receiver] = qitem[Receiver]
      BY <1>1, <1>2, <2>6
         DEF Freeing, Fetched, Put1, Put2, Put3, Put4, PutCall, PutRear, PutSlot, PutCount,
             FreePbuf, rxQueue, callVars
    <3> QED
      BY <1>7, <2>2, <3>1
  <2> QED
    BY <2>3, <2>4, <2>5, <2>6, Moves
<1>8. UNCHANGED Receiver
  BY <1>2
<1> QED
  BY <1>4, <1>5, <1>6, <1>7, <1>8 DEF Filled

(* A buffer moves from one place to another, or nothing does.               *)
LEMMA EachOnceNext ==
  ASSUME RxInv, Sizes, [Next]_vars
  PROVE  EachOnce'
<1>1. /\ EachOnce /\ Control /\ Control'
      /\ addr \in [Desc -> Bufs] /\ buf \in [Pbufs -> Bufs] /\ holder \in [Pbufs -> Holders]
      /\ array \in [Slots -> Items \cup {NoItem}] /\ qitem \in [Contexts -> Items \cup {NoItem}]
      /\ pc \in [Contexts -> PcSteps] /\ p \in [Contexts -> Pbufs \cup {NoPbuf}]
      /\ qpc \in [Contexts -> Steps] /\ info \in [fs : Desc, seg : 0 .. 2, buf : Bufs, fits : BOOLEAN]
      /\ rear \in Slots /\ info.fs \in Desc
  BY ControlNext DEF RxInv, TypeOK, QTypeOK, PlacesOK
<1>2. UNCHANGED <<Receiver, Other>> /\ Receiver \in Receivers /\ Receiver \in Contexts
      /\ "tcpip" \in Contexts /\ Receiver # "tcpip"
  BY Moves, Who
<1>3. Depends /\ Depends'
  BY <1>1, Dependence, DependenceNext
<1>a. PICK fs \in Desc, r \in Receivers : fs = info.fs /\ r = Receiver
  BY <1>1, <1>2
<1> USE DEF Jump, Leave, Runs
<1>4. ASSUME ~Get4, ~Put4
      PROVE  \A s \in Slots : (InUse(s) => array'[s] = array[s]) => AtSlot(s)' = AtSlot(s)
  BY <1>4, InUseNext DEF AtSlot
<1>5. ASSUME UNCHANGED <<addr, holder, buf>>, UNCHANGED p["tcpip"], ~Get4, ~Put4,
             Busy' <=> Busy, Busy => info'.fs = info.fs,
             pc'["tcpip"] = "unpool" <=> pc["tcpip"] = "unpool",
             pc'[Receiver] = "addr" <=> pc[Receiver] = "addr",
             pc[Receiver] = "addr" => qitem'[Receiver] = qitem[Receiver],
             \A s \in Slots : InUse(s) => array'[s] = array[s]
      PROVE  EachOnce'
  <2>1. \A d \in Desc : AtDesc(d)' = AtDesc(d)
    BY <1>3, <1>5 DEF Depends
  <2>2. \A s \in Slots : AtSlot(s)' = AtSlot(s)
    BY <1>4, <1>5
  <2>3. \A x \in Pbufs : AtPbuf(x)' = AtPbuf(x)
    BY <1>3, <1>5 DEF Depends, AtPbuf
  <2>4. \A c \in Receivers : AtHand(c)' = AtHand(c)
    BY <1>2, <1>3, <1>5 DEF Depends
  <2>5. \A q \in Places : Content(q)' = Content(q)
    <3> DEFINE E == {}
    <3>1. \A q \in Places \ E : Content(q)' = Content(q)
      <4> HIDE DEF E
      <4> QED
        BY <2>1, <2>2, <2>3, <2>4, Contents
    <3> QED
      BY <3>1
  <2> QED
    BY <1>1, <2>5, Stay
<1>6. CASE Background
  <2>1. /\ UNCHANGED <<addr, holder, buf, p, info, array, qitem, put_cnt, get_cnt>>
        /\ (pc["tcpip"] = "unpool" <=> pc'["tcpip"] = "unpool")
    BY <1>1, <1>2, <1>6, Ctx
       DEF Background, pool, rxQueue, queueVars, callVars, dmaVars, halVars, vars, DmaReceive, DmaStarved,
           IrqEnter, IrqReturn, EthPoll, TxLock, TxUnlock
  <2>2. pc'[Receiver] = pc[Receiver] \/ (pc'[Receiver] \in {"idle", "enter"} /\ pc[Receiver] \in {"idle", "exit"})
    BY <1>1, <1>2, <1>6
       DEF Background, vars, DmaReceive, DmaStarved, IrqEnter, IrqReturn, EthPoll, TxLock, TxUnlock,
           Receiver, Other, Control
  <2>3. ~Get4 /\ ~Put4
    BY <1>1, <1>2, <2>1, <2>2 DEF Get4, Put4
  <2>4. (Busy' <=> Busy) /\ (Busy => info'.fs = info.fs)
    BY <1>2, <2>1, <2>2 DEF Busy
  <2> QED
    BY <1>5, <2>1, <2>2, <2>3, <2>4
<1>7. CASE Reading
  <2>1. /\ UNCHANGED <<addr, holder, buf, p, array, qitem>> /\ pc["tcpip"] = pc'["tcpip"]
    BY <1>1, <1>2, <1>7
       DEF Reading, pool, rxQueue, queueVars, callVars, dmaVars, RxEnter, HalLock, ScanNone, ScanFirst,
           ScanLast, RxRead
  <2>2. /\ pc[Receiver] \notin {"empty", "get", "addr"} /\ pc'[Receiver] \notin {"empty", "get", "addr"}
    BY <1>1, <1>2, <1>7 DEF Reading, RxEnter, HalLock, ScanNone, ScanFirst, ScanLast, RxRead
  <2>3. ~Get4 /\ ~Put4
    BY <1>1, <1>2, <2>1, <2>2 DEF Get4, Put4
  <2>4. (Busy' <=> Busy) /\ (Busy => info'.fs = info.fs)
    BY <1>2, <2>1, <2>2 DEF Busy
  <2> QED
    BY <1>5, <2>1, <2>2, <2>3, <2>4
<1>8. CASE RxReject(Receiver) \/ RxHasBuffer(Receiver) \/ RxRelease(Receiver) \/ RxResume(Receiver)
  <2>1. /\ UNCHANGED <<addr, holder, buf, array, qitem>> /\ pc["tcpip"] = pc'["tcpip"]
        /\ p'["tcpip"] = p["tcpip"]
    BY <1>1, <1>2, <1>8
       DEF pool, rxQueue, queueVars, callVars, dmaVars, RxReject, RxHasBuffer, RxRelease, RxResume
  <2>2. /\ Busy <=> Busy' /\ (Busy => info'.fs = info.fs)
        /\ pc[Receiver] \notin {"get", "addr"} /\ pc'[Receiver] # "addr"
    BY <1>1, <1>2, <1>8 DEF Busy, halVars, RxReject, RxHasBuffer, RxRelease, RxResume
  <2>3. ~Get4 /\ ~Put4
    BY <1>1, <1>2, <2>1, <2>2 DEF Get4, Put4
  <2> QED
    BY <1>5, <2>1, <2>2, <2>3
<1>9. CASE Get1 \/ Get2 \/ Get3
  <2>1. /\ UNCHANGED <<addr, holder, buf, array, pc, p, info>> /\ pc[Receiver] = "get"
    BY <1>9 DEF pool, dmaVars, halVars, queueVars, Get1, Get2, Get3, Getting, GetCall, GetItem, GetFront
  <2>2. ~Get4 /\ ~Put4
    BY <1>1, <1>2, <1>9, <2>1 DEF Get4, Put4
  <2> QED
    BY <1>2, <1>5, <2>1, <2>2 DEF Busy
<1>10. CASE Put1 \/ Put2 \/ Put3
  <2>1. /\ UNCHANGED <<addr, holder, buf, p, info>> /\ pc["tcpip"] \in {"free", "put"}
        /\ pc'["tcpip"] = "put" /\ pc'[Receiver] = pc[Receiver]
    BY <1>1, <1>2, <1>10 DEF pool, dmaVars, halVars, Put1, Put2, Put3, Putting
  <2>2. ~Get4 /\ ~Put4
    BY <1>1, <1>2, <1>10, <2>1 DEF Get4, Put4
  <2>3. qitem'[Receiver] = qitem[Receiver]
    BY <1>1, <1>2, <1>10 DEF Put1, Put2, Put3, PutCall, PutRear, PutSlot
  <2>4. ASSUME NEW s \in Slots, InUse(s)
        PROVE  array'[s] = array[s]
    <3>1. CASE Put3
      <4>1. /\ qpc["tcpip"] = "put_slot" /\ array' = [array EXCEPT ![rear] = qitem["tcpip"]]
        BY <3>1 DEF Put3, PutSlot
      <4>2. rear = Up(Oldest, Count) /\ Count < Capacity
        BY <4>1 DEF RxInv, QueueOK
      <4>3. rear # s
        BY <2>4, <4>2, InUseNext
      <4> QED
        BY <1>1, <4>1, <4>3
    <3> QED
      BY <1>10, <3>1 DEF Put1, Put2, PutCall, PutRear, queueVars
  <2>5. (Busy' <=> Busy) /\ (pc'[Receiver] = "addr" <=> pc[Receiver] = "addr")
    BY <1>2, <2>1 DEF Busy
  <2> QED
    BY <1>5, <2>1, <2>2, <2>3, <2>4, <2>5
<1>11. ASSUME Posted \/ Fetched \/ FreePbuf("tcpip")
       PROVE  EachOnce'
  <2>1. /\ UNCHANGED <<addr, array, qitem, info>>
        /\ Busy' <=> Busy
        /\ pc[Receiver] \notin {"get", "addr"} \/ pc'[Receiver] = pc[Receiver]
        /\ pc'[Receiver] = "addr" <=> pc[Receiver] = "addr"
    BY <1>1, <1>2, <1>11, Who
       DEF pool, dmaVars, rxQueue, queueVars, callVars, halVars, Posted, Fetched, FreePbuf, Busy
  <2>2. ~Get4 /\ ~Put4
    BY <1>1, <1>2, <1>11, <2>1, Who DEF Get4, Put4, Posted, Fetched, FreePbuf
  <2>3. \A d \in Desc : AtDesc(d)' = AtDesc(d)
    BY <1>3, <2>1 DEF Depends
  <2>4. \A s \in Slots : AtSlot(s)' = AtSlot(s)
    BY <1>4, <2>1, <2>2
  <2>5. \A c \in Receivers : AtHand(c)' = AtHand(c)
    BY <1>2, <1>3, <2>1 DEF Depends
  <2>6. \A x \in Pbufs : AtPbuf(x)' = AtPbuf(x)
    <3>1. CASE Posted
      <4>1. /\ holder' = [holder EXCEPT ![p[Receiver]] = "mbox"] /\ buf' = buf
            /\ p'["tcpip"] = p["tcpip"] /\ pc'["tcpip"] = pc["tcpip"]
            /\ holder[p[Receiver]] = "driver"
        BY <1>1, <1>2, <3>1 DEF Posted, RxInv, PoolOK
      <4> QED
        BY <1>1, <1>3, <4>1 DEF Depends, AtPbuf
    <3>2. CASE Fetched
      <4>1. PICK y \in InMbox : /\ holder' = [holder EXCEPT ![y] = "driver"] /\ buf' = buf
                                /\ pc["tcpip"] = "idle" /\ pc'["tcpip"] = "free"
        BY <1>1, <1>2, <3>2 DEF Fetched
      <4> QED
        BY <1>1, <1>3, <4>1 DEF Depends, AtPbuf, InMbox
    <3>3. CASE FreePbuf("tcpip")
      <4>1. /\ holder' = [holder EXCEPT ![p["tcpip"]] = "free"]
            /\ buf' = [buf EXCEPT ![p["tcpip"]] = NoItem]
            /\ pc["tcpip"] = "unpool" /\ pc'["tcpip"] = "idle"
        BY <1>1, <1>2, <3>3, Who DEF FreePbuf, MempFree
      <4> QED
        BY <1>1, <1>3, <4>1 DEF Depends, AtPbuf
    <3> QED
      BY <1>11, <3>1, <3>2, <3>3
  <2>7. \A q \in Places : Content(q)' = Content(q)
    <3> DEFINE E == {}
    <3>1. \A q \in Places \ E : Content(q)' = Content(q)
      <4> HIDE DEF E
      <4> QED
        BY <2>3, <2>4, <2>5, <2>6, Contents
    <3> QED
      BY <3>1
  <2> QED
    BY <1>1, <2>7, Stay
<1>12. CASE RxAlloc(Receiver)
  <2>1. PICK x \in Pbufs :
          /\ holder[x] = "free"
          /\ holder' = [holder EXCEPT ![x] = "driver"]
          /\ buf' = [buf EXCEPT ![x] = frame[Receiver].buf]
    BY <1>12 DEF RxAlloc
  <2>2. /\ UNCHANGED <<addr, array, qitem, info>> /\ pc["tcpip"] = pc'["tcpip"]
        /\ p'["tcpip"] = p["tcpip"] /\ pc[Receiver] = "check" /\ pc'[Receiver] = "empty"
    BY <1>1, <1>2, <1>12 DEF RxAlloc, dmaVars, rxQueue, queueVars, callVars, halVars
  <2>3. ~Get4 /\ ~Put4
    BY <1>1, <1>2, <2>2 DEF Get4, Put4
  <2>4. p["tcpip"] # x
    BY <1>2, <2>1, Constants DEF RxInv, PoolOK
  <2>5. frame[Receiver].buf = addr[info.fs]
    BY <2>2 DEF RxInv, FrameOK
  <2> DEFINE from == <<"desc", fs>>
             to == <<"pbuf", x>>
             E == {from, to}
  <2>6. from \in Places /\ to \in Places /\ from # to
    BY <1>1, Content_
  <2>7. /\ Content(from) = addr[info.fs] /\ Content(to) = NoItem
        /\ Content(from)' = NoItem /\ Content(to)' = addr[info.fs]
    BY <1>1, <1>2, <1>3, <1>a, <2>1, <2>2, <2>4, <2>5, Content_, ContentPrimed DEF Depends, AtPbuf, Busy
  <2>8. \A q \in Places \ E : Content(q)' = Content(q)
    <3>1. \A d \in Desc : <<"desc", d>> \notin E => AtDesc(d)' = AtDesc(d)
      BY <1>3, <1>a, <2>2 DEF Depends
    <3>2. \A s \in Slots : AtSlot(s)' = AtSlot(s)
      BY <1>4, <2>2, <2>3
    <3>3. \A y \in Pbufs : <<"pbuf", y>> \notin E => AtPbuf(y)' = AtPbuf(y)
      BY <1>1, <1>3, <1>a, <2>1, <2>2, <2>4 DEF Depends, AtPbuf
    <3>4. \A c \in Receivers : AtHand(c)' = AtHand(c)
      BY <1>2, <1>3, <1>a, <2>2 DEF Depends
    <3> HIDE DEF E
    <3> QED
      BY <3>1, <3>2, <3>3, <3>4, Contents
  <2> QED
    BY <1>1, <2>6, <2>7, <2>8, Move
<1>13. CASE RxNoBuffer(Receiver)
  <2>a. PICK x \in Pbufs : x = p[Receiver] /\ p["tcpip"] # x /\ HoldsBuffer(x)
    BY <1>2, <1>13, Buffers DEF RxInv, PoolOK, RxNoBuffer
  <2>1. /\ holder' = [holder EXCEPT ![x] = "free"]
        /\ buf' = [buf EXCEPT ![x] = NoItem]
    BY <1>13, <2>a DEF RxNoBuffer, MempFree
  <2>2. /\ UNCHANGED <<addr, array, qitem, info>> /\ pc["tcpip"] = pc'["tcpip"]
        /\ p'["tcpip"] = p["tcpip"] /\ pc[Receiver] = "empty" /\ pc'[Receiver] = "release"
    BY <1>1, <1>2, <1>13 DEF RxNoBuffer, dmaVars, rxQueue, queueVars, callVars, halVars
  <2>3. ~Get4 /\ ~Put4
    BY <1>1, <1>2, <2>2 DEF Get4, Put4
  <2>4. x \in Pbufs /\ p["tcpip"] # x /\ HoldsBuffer(x) /\ buf[x] = addr[info.fs]
    BY <2>2, <2>a DEF RxInv, FrameOK
  <2> DEFINE from == <<"pbuf", x>>
             to == <<"desc", fs>>
             E == {from, to}
  <2>6. from \in Places /\ to \in Places /\ from # to
    BY <1>1, <2>4, Content_
  <2>7. /\ Content(from) = addr[info.fs] /\ Content(to) = NoItem
        /\ Content(from)' = NoItem /\ Content(to)' = addr[info.fs]
    BY <1>1, <1>2, <1>3, <1>a, <2>1, <2>2, <2>4, Content_, ContentPrimed DEF Depends, AtPbuf, Busy
  <2>8. \A q \in Places \ E : Content(q)' = Content(q)
    <3>1. \A d \in Desc : <<"desc", d>> \notin E => AtDesc(d)' = AtDesc(d)
      BY <1>3, <1>a, <2>2 DEF Depends
    <3>2. \A s \in Slots : AtSlot(s)' = AtSlot(s)
      BY <1>4, <2>2, <2>3
    <3>3. \A y \in Pbufs : <<"pbuf", y>> \notin E => AtPbuf(y)' = AtPbuf(y)
      BY <1>1, <1>3, <1>a, <2>1, <2>2, <2>4 DEF Depends, AtPbuf
    <3>4. \A c \in Receivers : AtHand(c)' = AtHand(c)
      BY <1>2, <1>3, <1>a, <2>2 DEF Depends
    <3> HIDE DEF E
    <3> QED
      BY <3>1, <3>2, <3>3, <3>4, Contents
  <2> QED
    BY <1>1, <2>6, <2>7, <2>8, Move
<1>14. CASE Get4
  <2>1. /\ UNCHANGED <<addr, array, qitem, info, holder, buf, p>> /\ pc["tcpip"] = pc'["tcpip"]
        /\ pc[Receiver] = "get" /\ pc'[Receiver] = "addr"
    BY <1>1, <1>2, <1>14 DEF Get4, Getting, GetCount, dmaVars, halVars, pool
  <2>2. Oldest \in Slots /\ InUse(Oldest) /\ qitem[Receiver] = array[Oldest]
        /\ \A s \in Slots : InUse(s)' <=> InUse(s) /\ s # Oldest
    BY <1>14, <2>1, InUseNext, Buffers DEF Get4, GetCount, RxInv, QueueOK
  <2>a. PICK o \in Slots : o = Oldest
    BY <2>2
  <2> DEFINE from == <<"slot", o>>
             to == <<"hand", r>>
             E == {from, to}
  <2>6. from \in Places /\ to \in Places /\ from # to
    BY <1>2, <2>2, <2>a, Content_
  <2>7. /\ Content(from) = array[Oldest] /\ Content(to) = NoItem
        /\ Content(from)' = NoItem /\ Content(to)' = array[Oldest]
    <3>1. Content(from) = array[Oldest] /\ Content(to) = NoItem
      BY <1>2, <1>3, <1>a, <2>1, <2>2, <2>a, Content_ DEF Depends, AtSlot
    <3>2. Content(to)' = array[Oldest]
      BY <1>2, <1>3, <1>a, <2>1, <2>2, ContentPrimed DEF Depends
    <3>3. \A s \in Slots : s = Oldest => Content(<<"slot", s>>)' = NoItem
      BY <2>2, ContentPrimed DEF AtSlot
    <3>4. Content(from)' = NoItem
      BY <2>a, <3>3
    <3> QED
      BY <3>1, <3>2, <3>4
  <2>8. \A q \in Places \ E : Content(q)' = Content(q)
    <3>1. \A d \in Desc : AtDesc(d)' = AtDesc(d)
      BY <1>2, <1>3, <1>a, <2>1 DEF Depends, Busy
    <3>2. \A s \in Slots : <<"slot", s>> \notin E => AtSlot(s)' = AtSlot(s)
      BY <2>1, <2>2, <2>a DEF AtSlot
    <3>3. \A y \in Pbufs : AtPbuf(y)' = AtPbuf(y)
      BY <1>3, <1>a, <2>1 DEF Depends, AtPbuf
    <3>4. \A c \in Receivers : <<"hand", c>> \notin E => AtHand(c)' = AtHand(c)
      BY <1>2, <1>3, <1>a, <2>1 DEF Depends
    <3> HIDE DEF E
    <3> QED
      BY <3>1, <3>2, <3>3, <3>4, Contents
  <2> QED
    BY <1>1, <2>6, <2>7, <2>8, Move
<1>15. CASE RxAddr(Receiver)
  <2>1. /\ addr' = [addr EXCEPT ![info.fs] = qitem[Receiver]]
        /\ UNCHANGED <<array, info, holder, buf, p>> /\ pc["tcpip"] = pc'["tcpip"]
        /\ pc[Receiver] = "addr" /\ pc'[Receiver] = "release"
    BY <1>1, <1>2, <1>15 DEF RxAddr, queueVars, halVars, pool
  <2>3. ~Get4 /\ ~Put4
    BY <1>1, <1>2, <2>1 DEF Get4, Put4
  <2> DEFINE from == <<"hand", r>>
             to == <<"desc", fs>>
             E == {from, to}
  <2>6. from \in Places /\ to \in Places /\ from # to
    BY <1>1, <1>2, Content_
  <2>7. /\ Content(from) = qitem[Receiver] /\ Content(to) = NoItem
        /\ Content(from)' = NoItem /\ Content(to)' = qitem[Receiver]
    <3>1. Content(from) = qitem[Receiver] /\ Content(to) = NoItem
      BY <1>1, <1>2, <1>3, <1>a, <2>1, Content_ DEF Depends, Busy
    <3>2. \A d \in Desc : d = info.fs => Content(<<"desc", d>>)' = qitem[Receiver]
      BY <1>1, <1>2, <1>3, <1>a, <2>1, ContentPrimed DEF Depends, Busy
    <3>3. Content(to)' = qitem[Receiver]
      BY <1>1, <1>a, <2>1, <3>2
    <3>4. Content(from)' = NoItem
      BY <1>1, <1>2, <1>3, <1>a, <2>1, ContentPrimed DEF Depends
    <3> QED
      BY <3>1, <3>3, <3>4
  <2>8. \A q \in Places \ E : Content(q)' = Content(q)
    <3>1. \A d \in Desc : <<"desc", d>> \notin E => AtDesc(d)' = AtDesc(d)
      BY <1>1, <1>2, <1>3, <1>a, <2>1 DEF Depends
    <3>2. \A s \in Slots : AtSlot(s)' = AtSlot(s)
      BY <1>4, <2>1, <2>3
    <3>3. \A y \in Pbufs : AtPbuf(y)' = AtPbuf(y)
      BY <1>3, <1>a, <2>1 DEF Depends, AtPbuf
    <3>4. \A c \in Receivers : <<"hand", c>> \notin E => AtHand(c)' = AtHand(c)
      BY <1>2, <1>3, <1>a, <2>1 DEF Depends
    <3> HIDE DEF E
    <3> QED
      BY <3>1, <3>2, <3>3, <3>4, Contents
  <2> QED
    BY <1>1, <2>6, <2>7, <2>8, Move
<1>16. CASE Put4
  <2>a. PICK x \in Pbufs : x = p["tcpip"] /\ HoldsBuffer(x)
    BY <1>16, Buffers DEF RxInv, PoolOK, Put4
  <2>b. PICK e \in Slots : e = rear
    BY <1>1
  <2>1. /\ UNCHANGED <<addr, array, info, holder, buf, p, rear>> /\ pc[Receiver] = pc'[Receiver]
        /\ pc["tcpip"] = "put" /\ pc'["tcpip"] = "unpool" /\ qpc["tcpip"] = "put_cnt"
        /\ qitem'[Receiver] = qitem[Receiver]
    BY <1>1, <1>2, <1>16 DEF Put4, Putting, PutCount, dmaVars, halVars, pool
  <2>2. /\ rear = Up(Oldest, Count) /\ Count < Capacity /\ array[rear] = buf[x]
    BY <2>1, <2>a DEF RxInv, QueueOK
  <2>3. ~InUse(rear) /\ \A s \in Slots : InUse(s)' <=> InUse(s) \/ s = rear
    BY <1>16, <2>2, InUseNext
  <2>4. x \in Pbufs /\ HoldsBuffer(x)
    BY <2>a
  <2> DEFINE from == <<"pbuf", x>>
             to == <<"slot", e>>
             E == {from, to}
  <2>6. from \in Places /\ to \in Places /\ from # to
    BY <1>1, <2>4, Content_
  <2>7. /\ Content(from) = buf[x] /\ Content(to) = NoItem
        /\ Content(from)' = NoItem /\ Content(to)' = buf[x]
    <3>1. Content(from) = buf[x] /\ Content(to) = NoItem
      BY <1>1, <2>3, <2>4, <2>b, Content_ DEF AtSlot, AtPbuf
    <3>2. Content(from)' = NoItem
      BY <1>3, <2>1, <2>4, <2>a, ContentPrimed DEF Depends, AtPbuf
    <3>3. Content(to)' = buf[x]
      BY <1>1, <2>1, <2>2, <2>3, <2>b, ContentPrimed DEF AtSlot
    <3> QED
      BY <3>1, <3>2, <3>3
  <2>8. \A q \in Places \ E : Content(q)' = Content(q)
    <3>1. \A d \in Desc : AtDesc(d)' = AtDesc(d)
      BY <1>2, <1>3, <1>a, <2>1 DEF Depends, Busy
    <3>2. \A s \in Slots : <<"slot", s>> \notin E => AtSlot(s)' = AtSlot(s)
      BY <2>1, <2>3, <2>b DEF AtSlot
    <3>3. \A y \in Pbufs : <<"pbuf", y>> \notin E => AtPbuf(y)' = AtPbuf(y)
      BY <1>3, <2>1, <2>a DEF Depends, AtPbuf
    <3>4. \A c \in Receivers : AtHand(c)' = AtHand(c)
      BY <1>2, <1>3, <1>a, <2>1 DEF Depends
    <3> HIDE DEF E
    <3> QED
      BY <3>1, <3>2, <3>3, <3>4, Contents
  <2> QED
    BY <1>1, <2>6, <2>7, <2>8, Move
<1> QED
  BY <1>6, <1>7, <1>8, <1>9, <1>10, <1>11, <1>12, <1>13, <1>14, <1>15, <1>16, Moves
     DEF Filling, Freeing

(* Both parts of PlacesOK.                                                  *)
LEMMA PlacesNext ==
  ASSUME RxInv, Sizes, [Next]_vars
  PROVE  PlacesOK'
  BY EachOnceNext, FilledNext DEF PlacesOK, Filled

-----------------------------------------------------------------------------
(* The state low_level_init leaves.                                         *)
LEMMA InitInv ==
  ASSUME OneReceiver, Init
  PROVE  RxInv
<1>1. /\ Capacity \in Nat \ {0} /\ CntMod \in Nat /\ Capacity < CntMod
      /\ Items = 0 .. 2 * Capacity - 1 /\ NoItem \notin Items
      /\ \A i \in Slots : i \in Int /\ 0 <= i /\ i < Capacity /\ i \in Items /\ Capacity + i \in Items
      /\ \A i \in Int : i \in Slots <=> 0 <= i /\ i < Capacity
      /\ Desc = Slots
  BY Constants, RxAssumption DEF Slots, Desc
<1>2. setup \in Setups /\ ~setup.app /\ (setup.it => ~setup.long /\ setup.unread < Capacity)
  BY DEF Init, OneReceiver
<1>3. TypeOK
  <2>1. QTypeOK
    BY <1>1 DEF Init, QTypeOK, Steps
  <2>2. /\ own \in [Desc -> {"dma", "cpu"}] /\ kind \in [Desc -> {"none", "good", "first", "last"}]
        /\ addr \in [Desc -> Bufs] /\ dmaDesc \in Desc /\ rxDesc \in Desc
        /\ rbus \in BOOLEAN /\ irq \in BOOLEAN /\ locked \in BOOLEAN
    <3>1. 0 \in Desc /\ \A d \in Desc : d \in Bufs
      BY <1>1 DEF Bufs
    <3>2. /\ own = [d \in Desc |-> "dma"] /\ kind = [d \in Desc |-> "none"] /\ addr = [d \in Desc |-> d]
          /\ dmaDesc = 0 /\ rxDesc = 0 /\ rbus = FALSE /\ irq = FALSE /\ locked = FALSE
      BY DEF Init
    <3>3. addr \in [Desc -> Bufs]
      BY <3>1, <3>2
    <3> QED
      BY <3>1, <3>2, <3>3
  <2>3. info \in [fs : Desc, seg : 0 .. 2, buf : Bufs, fits : BOOLEAN]
    <3>1. 0 \in Desc /\ NoItem \in Bufs
      BY <1>1 DEF Bufs
    <3> QED
      BY <3>1 DEF Init
  <2>4. /\ holder \in [Pbufs -> Holders] /\ buf \in [Pbufs -> Bufs]
        /\ pc \in [Contexts -> PcSteps] /\ p \in [Contexts -> Pbufs \cup {NoPbuf}]
    BY DEF Init, Holders, Bufs, PcSteps
  <2>5. frame \in [Receivers -> Frames]
    <3>1. NoFrame \in Frames
      BY DEF NoFrame, Frames, Bufs
    <3> QED
      BY <3>1 DEF Init
  <2> QED
    BY <1>2, <2>1, <2>2, <2>3, <2>4, <2>5 DEF TypeOK
<1>4. Control
  BY <1>2, Who DEF Init, Control
<1>5. PoolOK
  BY Who DEF Init, PoolOK
<1>6. FrameOK
  BY Who DEF Init, FrameOK
<1>7. RingOK
  <2>1. /\ info.seg = 0 /\ dmaDesc = Up(rxDesc, 0) /\ 0 \in 0 .. Capacity
        /\ \A d \in Desc : own[d] = "dma" /\ kind[d] = "none" /\ ~(Ahead(d) < 0)
    <3>1. rxDesc = 0 /\ dmaDesc = 0 /\ info.seg = 0 /\ Up(0, 0) = 0
      BY <1>1 DEF Init, Up
    <3>2. \A d \in Desc : own[d] = "dma" /\ kind[d] = "none"
      BY DEF Init
    <3>3. \A d \in Desc : ~(Ahead(d) < 0)
      BY <1>1, <3>1, Positions
    <3> QED
      BY <1>1, <3>1, <3>2, <3>3
  <2>2. pc[Receiver] = "idle"
    BY Who DEF Init
  <2> QED
    BY <1>1, <2>1, <2>2 DEF RingOK
<1>8. UnreadOK
  <2>1. Unread = {} /\ setup.unread \in 1 .. Capacity
    BY <1>2, RxAssumption DEF Init, Unread
  <2> QED
    BY <1>1, <2>1, FS_EmptySet DEF UnreadOK
<1>9. Count = Capacity /\ Oldest = 0
  <2>1. put_cnt = Capacity /\ get_cnt = 0 /\ front = 0 /\ \A c \in Contexts : qpc[c] = "idle"
    BY DEF Init
  <2> QED
    BY <1>1, <2>1 DEF Count, Oldest
<1>10. QueueOK
  <2>1. /\ rear = Capacity - 1 /\ \A c \in Contexts : qpc[c] = "idle" /\ pc[c] = "idle"
    BY DEF Init
  <2>2. Up(Capacity - 1, 1) = Up(0, Capacity)
    BY <1>1 DEF Up
  <2> QED
    BY <1>1, <1>9, <2>1, <2>2, Who DEF QueueOK
<1>11. /\ \A d \in Desc : AtDesc(d) = d /\ addr[d] = d
       /\ \A s \in Slots : InUse(s) /\ AtSlot(s) = Capacity + s /\ array[s] = Capacity + s
       /\ \A x \in Pbufs : ~HoldsBuffer(x) /\ AtPbuf(x) = NoItem
       /\ \A c \in Receivers : AtHand(c) = NoItem
  <2>1. \A d \in Desc : ~Taken(d) /\ addr[d] = d
    BY Who DEF Init, Taken
  <2>2. \A s \in Slots : InUse(s) /\ array[s] = Capacity + s
    <3>1. \A s \in Slots : Up(0, s) = s /\ s \in 0 .. Capacity - 1
      BY <1>1 DEF Up, Slots
    <3> QED
      BY <1>9, <3>1 DEF Init, InUse
  <2>3. \A x \in Pbufs : ~HoldsBuffer(x)
    BY DEF Init, HoldsBuffer
  <2>4. \A c \in Receivers : pc[c] = "idle"
    BY Who DEF Init
  <2> QED
    BY <2>1, <2>2, <2>3, <2>4 DEF AtDesc, AtSlot, AtPbuf, AtHand
<1>12. EachOnce
  <2>1. ASSUME NEW b \in Items
        PROVE  \E q \in Places : Content(q) = b
    <3>1. CASE b < Capacity
      <4>1. b \in Desc
        BY <1>1, <3>1
      <4> QED
        BY <1>11, <4>1, Content_
    <3>2. CASE b >= Capacity
      <4>1. b - Capacity \in Slots /\ Capacity + (b - Capacity) = b
        BY <1>1, <3>2
      <4> QED
        BY <1>11, <4>1, Content_
    <3> QED
      BY <1>1, <3>1, <3>2
  <2>2. ASSUME NEW q \in Places, NEW r \in Places, Content(q) = Content(r), Content(q) # NoItem
        PROVE  q = r
    <3>1. \A u \in Places : Content(u) # NoItem =>
            \/ \E d \in Desc : u = <<"desc", d>> /\ Content(u) = d
            \/ \E s \in Slots : u = <<"slot", s>> /\ Content(u) = Capacity + s
      <4> SUFFICES ASSUME NEW u \in Places, Content(u) # NoItem
                   PROVE  \/ \E d \in Desc : u = <<"desc", d>> /\ Content(u) = d
                          \/ \E s \in Slots : u = <<"slot", s>> /\ Content(u) = Capacity + s
        OBVIOUS
      <4>1. CASE u \in {"desc"} \X Desc
        BY <1>11, <4>1, Content_
      <4>2. CASE u \in {"slot"} \X Slots
        BY <1>11, <4>2, Content_
      <4>3. CASE u \in ({"pbuf"} \X Pbufs) \cup ({"hand"} \X Receivers)
        BY <1>11, <4>3, Content_
      <4> QED
        BY <4>1, <4>2, <4>3 DEF Places
    <3>2. PICK d \in Slots, s \in Slots :
            \/ q = <<"desc", d>> /\ Content(q) = d
            \/ q = <<"slot", s>> /\ Content(q) = Capacity + s
      BY <1>1, <2>2, <3>1
    <3>3. PICK e \in Slots, t \in Slots :
            \/ r = <<"desc", e>> /\ Content(r) = e
            \/ r = <<"slot", t>> /\ Content(r) = Capacity + t
      BY <1>1, <2>2, <3>1
    <3> QED
      <4>1. \A i, j \in Slots : i # Capacity + j /\ (Capacity + i = Capacity + j => i = j)
        BY Constants DEF Slots
      <4> QED
        BY <2>2, <3>2, <3>3, <4>1
  <2> QED
    BY <2>1, <2>2 DEF EachOnce
<1>13. PlacesOK
  <2>1. \A i \in Slots : i # NoItem /\ Capacity + i # NoItem
    BY <1>1
  <2>2. pc[Receiver] = "idle"
    BY Who DEF Init
  <2> QED
    BY <1>1, <1>11, <1>12, <2>1, <2>2 DEF PlacesOK
<1> QED
  BY <1>3, <1>4, <1>5, <1>6, <1>7, <1>8, <1>10, <1>13 DEF RxInv

(* The invariant is inductive.                                              *)
LEMMA RxInvNext ==
  ASSUME RxInv, Sizes, [Next]_vars
  PROVE  RxInv'
  BY TypeNext, ControlNext, PoolNext, FrameNext, RingNext, UnreadNext, QueueNext, PlacesNext DEF RxInv

(* With one receiver and a mailbox for every descriptor, the invariant      *)
(* holds for every size of ring, pool, queue and mailbox.                   *)
THEOREM RxInvariant ==
  ASSUME OneReceiver, Sizes
  PROVE  Spec => []RxInv
<1>1. Init => RxInv
  BY InitInv
<1>2. RxInv /\ [Next]_vars => RxInv'
  BY RxInvNext
<1> QED
  BY <1>1, <1>2, PTL DEF Spec

-----------------------------------------------------------------------------
(* Counting the places of a buffer: exactly one holds it.                   *)
LEMMA Conserved == RxInv => BuffersConserved
<1> SUFFICES ASSUME RxInv, NEW b \in Items
             PROVE  Cardinality(InDesc(b)) + Cardinality(InQueue(b))
                      + Cardinality(InPbuf(b)) + Cardinality(InHand(b)) = 1
  BY DEF BuffersConserved
<1>1. /\ EachOnce /\ Oldest \in Slots /\ Count \in 0 .. Capacity /\ b # NoItem
  BY Buffers, Constants DEF RxInv, PlacesOK, QueueOK
<1>2. PICK q \in Places : Content(q) = b
  BY <1>1 DEF EachOnce
<1>3. \A r \in Places : Content(r) = b => r = q
  BY <1>1, <1>2 DEF EachOnce
<1>4. \A k \in 0 .. Count - 1 : SlotAt(k) = Up(Oldest, k) /\ SlotAt(k) \in Slots
  <2>1. \A k \in 0 .. Count - 1 : k \in 0 .. Capacity - 1
    BY <1>1, Constants
  <2> QED
    BY <1>1, <2>1, Around, Constants DEF SlotAt
<1>5. /\ InDesc(b) = {d \in Desc : <<"desc", d>> = q}
      /\ InQueue(b) = {k \in 0 .. Count - 1 : <<"slot", SlotAt(k)>> = q}
      /\ InPbuf(b) = {x \in Pbufs : <<"pbuf", x>> = q}
      /\ InHand(b) = {c \in Receivers : <<"hand", c>> = q}
  <2>1. \A d \in Desc : addr[d] = b /\ ~Taken(d) <=> <<"desc", d>> = q
    BY <1>1, <1>2, <1>3, Content_ DEF AtDesc
  <2>2. \A k \in 0 .. Count - 1 : array[SlotAt(k)] = b <=> <<"slot", SlotAt(k)>> = q
    <3>1. \A k \in 0 .. Count - 1 : SlotAt(k) \in Slots /\ InUse(SlotAt(k))
      BY <1>4 DEF InUse
    <3>2. \A s \in Slots : InUse(s) => (array[s] = b <=> <<"slot", s>> = q)
      BY <1>1, <1>2, <1>3, Content_ DEF AtSlot
    <3> QED
      BY <3>1, <3>2
  <2>3. \A x \in Pbufs : HoldsBuffer(x) /\ buf[x] = b <=> <<"pbuf", x>> = q
    <3>1. \A x \in Pbufs : AtPbuf(x) = b <=> <<"pbuf", x>> = q
      BY <1>2, <1>3, Content_
    <3> QED
      BY <1>1, <3>1 DEF AtPbuf
  <2>4. \A c \in Receivers : pc[c] = "addr" /\ qitem[c] = b <=> <<"hand", c>> = q
    <3>1. \A c \in Receivers : AtHand(c) = b <=> <<"hand", c>> = q
      BY <1>2, <1>3, Content_
    <3> QED
      BY <1>1, <3>1 DEF AtHand
  <2> QED
    BY <2>1, <2>2, <2>3, <2>4 DEF InDesc, InQueue, InPbuf, InHand
<1>6. Cardinality({}) = 0 /\ \A x : Cardinality({x}) = 1
  BY FS_EmptySet, FS_Singleton
<1>7. CASE q \in {"desc"} \X Desc
  <2>1. PICK d \in Desc : q = <<"desc", d>>
    BY <1>7
  <2>2. InDesc(b) = {d} /\ InQueue(b) = {} /\ InPbuf(b) = {} /\ InHand(b) = {}
    BY <1>5, <2>1
  <2>9. /\ Cardinality(InDesc(b)) = 1 /\ Cardinality(InQueue(b)) = 0
        /\ Cardinality(InPbuf(b)) = 0 /\ Cardinality(InHand(b)) = 0
    BY <1>6, <2>2
  <2> QED
    BY <2>9
<1>8. CASE q \in {"slot"} \X Slots
  <2>1. PICK s \in Slots : q = <<"slot", s>> /\ InUse(s)
    BY <1>1, <1>2, <1>8, Content_ DEF AtSlot
  <2>2. PICK k \in 0 .. Count - 1 : SlotAt(k) = s
    BY <1>4, <2>1 DEF InUse
  <2>3. \A l \in 0 .. Count - 1 : SlotAt(l) = s => l = k
    <3>1. \A l \in 0 .. Count - 1 : l \in 0 .. Capacity - 1
      BY <1>1, Constants
    <3> QED
      BY <1>1, <1>4, <2>2, <3>1, Around
  <2>4. InDesc(b) = {} /\ InQueue(b) = {k} /\ InPbuf(b) = {} /\ InHand(b) = {}
    BY <1>5, <2>1, <2>2, <2>3
  <2>9. /\ Cardinality(InDesc(b)) = 0 /\ Cardinality(InQueue(b)) = 1
        /\ Cardinality(InPbuf(b)) = 0 /\ Cardinality(InHand(b)) = 0
    BY <1>6, <2>4
  <2> QED
    BY <2>9
<1>9. CASE q \in {"pbuf"} \X Pbufs
  <2>1. PICK x \in Pbufs : q = <<"pbuf", x>>
    BY <1>9
  <2>2. InDesc(b) = {} /\ InQueue(b) = {} /\ InPbuf(b) = {x} /\ InHand(b) = {}
    BY <1>5, <2>1
  <2>9. /\ Cardinality(InDesc(b)) = 0 /\ Cardinality(InQueue(b)) = 0
        /\ Cardinality(InPbuf(b)) = 1 /\ Cardinality(InHand(b)) = 0
    BY <1>6, <2>2
  <2> QED
    BY <2>9
<1>10. CASE q \in {"hand"} \X Receivers
  <2>1. PICK c \in Receivers : q = <<"hand", c>>
    BY <1>10
  <2>2. InDesc(b) = {} /\ InQueue(b) = {} /\ InPbuf(b) = {} /\ InHand(b) = {c}
    BY <1>5, <2>1
  <2>9. /\ Cardinality(InDesc(b)) = 0 /\ Cardinality(InQueue(b)) = 0
        /\ Cardinality(InPbuf(b)) = 0 /\ Cardinality(InHand(b)) = 1
    BY <1>6, <2>2
  <2> QED
    BY <2>9
<1> QED
  BY <1>7, <1>8, <1>9, <1>10 DEF Places

(* A buffer at a descriptor of the DMA is not the buffer of a pbuf, since   *)
(* it is in one place.                                                      *)
LEMMA WritesOwn == RxInv => DmaWritesOwn
<1> SUFFICES ASSUME RxInv, NEW d \in Desc, NEW x \in Pbufs, own[d] = "dma", HoldsBuffer(x),
                    addr[d] = buf[x]
             PROVE  FALSE
  BY DEF DmaWritesOwn
<1>1. ~Taken(d)
  BY Buffers DEF RxInv, FrameOK
<1>2. Content(<<"desc", d>>) = addr[d] /\ Content(<<"pbuf", x>>) = buf[x]
  BY <1>1, Content_ DEF AtDesc, AtPbuf
<1>3. addr[d] # NoItem
  BY DEF RxInv, PlacesOK
<1>4. <<"desc", d>> = <<"pbuf", x>>
  BY <1>2, <1>3, Content_ DEF RxInv, PlacesOK, EachOnce
<1> QED
  BY <1>4

(* low_level_input and lwip_custom_pbuf_free lose no receive buffer, hand   *)
(* none out twice, and never let the DMA write into one that a pbuf         *)
(* presents to lwIP.                                                        *)
THEOREM BuffersCorrect ==
  ASSUME OneReceiver, Sizes
  PROVE  Spec => []BuffersSafe
<1>1. RxInv => BuffersSafe
  BY Conserved, WritesOwn DEF RxInv, BuffersSafe
<1> QED
  BY <1>1, RxInvariant, PTL

(* "RX Q full" and "RX_POOL empty" are never logged and the mailbox never   *)
(* refuses a pbuf: rx_buf_queue and RX_POOL are large enough for each       *)
(* other.                                                                   *)
THEOREM SuppliesCorrect ==
  ASSUME OneReceiver, Sizes
  PROVE  Spec => []SuppliesSuffice
<1>1. ASSUME RxInv PROVE SuppliesSuffice
  <2>1. ASSUME NEW c \in Contexts, pc[c] = "free" PROVE ~IsFull
    <3>1. pc["tcpip"] = "free"
      BY <1>1, <2>1, Who DEF RxInv, Control
    <3> QED
      BY <1>1, <3>1, RoomInQueue, Wraps DEF RxInv, TypeOK
  <2>2. ASSUME NEW c \in Receivers, pc[c] = "check" PROVE Live # Pbufs
    <3>1. pc[Receiver] = "check"
      BY <1>1, <2>2, Who DEF RxInv, Control
    <3> QED
      BY <1>1, <3>1, FreePbufLeft
  <2>3. ASSUME NEW c \in Receivers, pc[c] = "input" PROVE Cardinality(InMbox) < MboxSize
    <3>1. pc[Receiver] = "input"
      BY <1>1, <2>3, Who DEF RxInv, Control
    <3> QED
      BY <1>1, <3>1, RoomInMbox
  <2> QED
    BY <2>1, <2>2, <2>3 DEF SuppliesSuffice
<1> QED
  BY <1>1, RxInvariant, PTL

(* The descriptors between rxDesc and dmaDesc are the ones to be read.      *)
LEMMA Stranded == RxInv => NoneStranded
<1> SUFFICES ASSUME RxInv, ~setup.long, NEW u \in Unread
             PROVE  u \in {(rxDesc + i) % Capacity : i \in 0 .. Pending - 1} \cup FrameDesc
  BY DEF NoneStranded
<1>1. /\ rxDesc \in Slots /\ dmaDesc \in Slots /\ info.fs \in Slots /\ info.seg \in 0 .. 1
      /\ u \in Slots /\ own[u] = "cpu" /\ Desc = Slots /\ Capacity \in Nat \ {0}
      /\ info.seg = 1 => Ahead(info.fs) = Capacity - 1
  BY Constants DEF RxInv, TypeOK, RingOK, Desc, Unread
<1>2. PICK m \in 0 .. Capacity - info.seg :
        /\ dmaDesc = Up(rxDesc, m)
        /\ \A d \in Desc : own[d] = "cpu" <=> Ahead(d) < m \/ (info.seg = 1 /\ d = info.fs)
  BY DEF RxInv, RingOK
<1>3. CASE info.seg = 1 /\ u = info.fs
  <2>1. (info.fs + 0) % Capacity = info.fs /\ 0 \in 0 .. info.seg - 1
    BY <1>1, <1>3, Around
  <2> QED
    BY <1>3, <2>1 DEF FrameDesc
<1>4. CASE Ahead(u) < m
  <2>1. Ahead(u) \in 0 .. Capacity - 1 /\ Up(rxDesc, Ahead(u)) = u
    BY <1>1, Positions
  <2>2. Pending = m
    <3>1. CASE m < Capacity
      <4>1. rxDesc # dmaDesc
        BY <1>1, <1>2, <1>4, <2>1, <3>1, Positions
      <4>2. dmaDesc + Capacity - rxDesc \in 0 .. 2 * Capacity - 1
        BY <1>1, <1>2 DEF Slots
      <4>3. dmaDesc + Capacity - rxDesc \in {m, m + Capacity}
        BY <1>1, <1>2 DEF Up, Slots
      <4>4. (dmaDesc + Capacity - rxDesc) % Capacity = m
        BY <1>1, <1>2, <3>1, <4>2, <4>3, Wrap
      <4> QED
        BY <4>1, <4>4 DEF Pending
    <3>2. CASE m = Capacity
      <4>1. rxDesc = dmaDesc /\ info.seg = 0
        BY <1>1, <1>2, <3>2, Around
      <4>2. own[rxDesc] = "cpu"
        BY <1>1, <1>2, <3>2, Positions
      <4>3. rxDesc \notin FrameDesc
        BY <4>1 DEF FrameDesc
      <4> QED
        BY <3>2, <4>1, <4>2, <4>3 DEF Pending
    <3> QED
      BY <1>1, <1>2, <3>1, <3>2
  <2>3. (rxDesc + Ahead(u)) % Capacity = u /\ Ahead(u) \in 0 .. Pending - 1
    BY <1>1, <1>4, <2>1, <2>2, Around
  <2> QED
    BY <2>3
<1> QED
  BY <1>1, <1>2, <1>3, <1>4

(* low_level_input leaves no received frame behind on the ring, as long as  *)
(* every frame fits one descriptor.                                         *)
THEOREM StrandedCorrect ==
  ASSUME OneReceiver, Sizes
  PROVE  Spec => []NoneStranded
  BY Stranded, RxInvariant, PTL
=============================================================================
