---------------------------- MODULE TxPathProofs ----------------------------
(***************************************************************************)
(* Theorems about TxPath.  The inductive invariant has two layers.  Shape  *)
(* holds in every setup: there is one frame on its way, the counts of its  *)
(* call, the ring of descriptors and the descriptors the call has made.    *)
(* Balance holds while ethernet_thread does not call low_level_output: one *)
(* call at a time, and with it the counters and slots of tx_free_queue,    *)
(* the references, and what the DMA has still to read.                     *)
(***************************************************************************)
EXTENDS TxPath, FiniteSetTheorems, FunctionTheorems, TLAPS

-----------------------------------------------------------------------------
(* "%" by a constant that is not a literal is known to the solver only      *)
(* through the quotient; every index here is below twice the capacity.      *)
LEMMA Quotient ==
  ASSUME NEW C \in Nat \ {0}, NEW x \in Nat
  PROVE  /\ x = C * (x \div C) + (x % C)
         /\ x \div C \in Int
         /\ x % C \in 0 .. C - 1
  BY SMT

(* Multiples of a constant, for the comparison with the quotient.           *)
LEMMA Products ==
  ASSUME NEW C \in Nat \ {0}, NEW q \in Int
  PROVE  /\ q >= 2 => C * q >= 2 * C
         /\ q <= 0 => C * q <= 0
  BY SMT

(* Below twice C, "% C" subtracts C at most once.                           *)
LEMMA Wrap ==
  ASSUME NEW C \in Nat \ {0}, NEW x \in 0 .. 2 * C - 1
  PROVE  x % C = IF x < C THEN x ELSE x - C
<1> DEFINE q == x \div C
<1>1. x = C * q + (x % C) /\ q \in Int /\ x % C \in 0 .. C - 1
  BY Quotient
<1>2. CASE x < C
  BY <1>2
<1>3. CASE x >= C
  <2>1. ~(q >= 2) /\ ~(q <= 0)
    BY <1>1, <1>3, Products
  <2>2. q = 1
    BY <1>1, <2>1
  <2> QED
    BY <1>1, <1>3, <2>2
<1> QED
  BY <1>2, <1>3

(* The slot k after slot i.                                                 *)
Up(i, k) == IF i + k < Capacity THEN i + k ELSE i + k - Capacity

(* The slots, and the descriptors, one after the other around the ring.     *)
LEMMA Around ==
  ASSUME NEW i \in Slots
  PROVE  /\ \A k \in 0 .. Capacity - 1 : (i + k) % Capacity = Up(i, k)
         /\ \A k \in 0 .. Capacity : Up(i, k) \in Slots
         /\ Next_(i) = Up(i, 1) /\ Up(i, 0) = i /\ Up(i, Capacity) = i
         /\ (i + Capacity - 1) % Capacity = Up(i, Capacity - 1)
         /\ \A k, l \in 0 .. Capacity - 1 : Up(i, k) = Up(i, l) => k = l
         /\ \A k \in 0 .. Capacity - 1 : Up(Up(i, 1), k) = Up(i, k + 1)
         /\ \A k \in 0 .. Capacity - 1 : Up(Up(i, k), 1) = Up(i, k + 1)
         /\ Up(Up(i, 1), Capacity - 1) = i /\ Up(Up(i, Capacity - 1), 1) = i
<1>1. i \in Int /\ i >= 0 /\ i < Capacity /\ Capacity \in Nat \ {0}
  BY QueueAssumption DEF Slots
<1>2. \A x \in 0 .. 2 * Capacity - 1 :
        x % Capacity = IF x < Capacity THEN x ELSE x - Capacity
  BY <1>1, Wrap
<1>3. \A k \in 0 .. Capacity - 1 : (i + k) % Capacity = Up(i, k)
  BY <1>1, <1>2 DEF Up
<1>4. (i + 1) % Capacity = Up(i, 1) /\ (i + Capacity - 1) % Capacity = Up(i, Capacity - 1)
  BY <1>1, <1>2 DEF Up
<1>5. /\ \A k \in 0 .. Capacity : Up(i, k) \in Slots
      /\ Up(i, 0) = i /\ Up(i, Capacity) = i
      /\ \A k, l \in 0 .. Capacity - 1 : Up(i, k) = Up(i, l) => k = l
  BY <1>1 DEF Up, Slots
<1>6. /\ \A k \in 0 .. Capacity - 1 : Up(Up(i, 1), k) = Up(i, k + 1)
      /\ \A k \in 0 .. Capacity - 1 : Up(Up(i, k), 1) = Up(i, k + 1)
      /\ Up(Up(i, 1), Capacity - 1) = i /\ Up(Up(i, Capacity - 1), 1) = i
  BY <1>1 DEF Up
<1> QED
  BY <1>3, <1>4, <1>5, <1>6 DEF Next_

(* The counters wrap, and their difference does not notice.                 *)
LEMMA Wraps ==
  ASSUME QTypeOK
  PROVE  /\ Count \in 0 .. CntMod - 1
         /\ IsEmpty <=> Count = 0
         /\ Count < Capacity => ~IsFull
         /\ (put_cnt + 1) % CntMod = (IF put_cnt + 1 < CntMod THEN put_cnt + 1 ELSE 0)
         /\ (get_cnt + 1) % CntMod = (IF get_cnt + 1 < CntMod THEN get_cnt + 1 ELSE 0)
<1>1. /\ put_cnt \in Int /\ put_cnt >= 0 /\ put_cnt < CntMod
      /\ get_cnt \in Int /\ get_cnt >= 0 /\ get_cnt < CntMod
      /\ CntMod \in Nat \ {0} /\ CntMod >= 2 /\ Capacity \in Nat \ {0}
  BY QueueAssumption DEF QTypeOK
<1>2. \A x \in 0 .. 2 * CntMod - 1 : x % CntMod = IF x < CntMod THEN x ELSE x - CntMod
  BY <1>1, Wrap
<1>3. /\ (put_cnt + 1) % CntMod = (IF put_cnt + 1 < CntMod THEN put_cnt + 1 ELSE 0)
      /\ (get_cnt + 1) % CntMod = (IF get_cnt + 1 < CntMod THEN get_cnt + 1 ELSE 0)
  BY <1>1, <1>2
<1>4. Count \in 0 .. CntMod - 1 /\ (IsEmpty <=> Count = 0) /\ (Count < Capacity => ~IsFull)
  BY <1>1 DEF Count, IsEmpty, IsFull
<1> QED
  BY <1>3, <1>4

-----------------------------------------------------------------------------
(* The frames that are sent in the life of the queue are fewer than its     *)
(* counters count: past the wrap is_full is off by one.                     *)
Unwrapped == PutLimit < CntMod

(* Around the ring of descriptors, from one of them on.                     *)
From(b, d) == IF d >= b THEN d - b ELSE d - b + Capacity

(* The calls of low_level_output.  One has a frame; ethernet_thread may be  *)
(* in another, without one.                                                 *)
SendersOK ==
  /\ \A c, d \in Contexts : tx[c].frame # NoFrame /\ tx[d].frame # NoFrame => c = d
  /\ \A c \in Contexts :
       /\ tx[c].frame # NoFrame <=> tx[c].clen > 0
       /\ pc[c] \in {"idle", "rx"} => tx[c].frame = NoFrame
       /\ tx[c].frame = NoFrame => pc[c] \notin {"put", "ref", "give", "tbus"}
       /\ tx[c].frame # NoFrame /\ tx[c].bufcount = 0 => ref[tx[c].frame] <= 1
  /\ \A f \in Frames : ref[f] <= 2

(* Their counts, step by step.                                              *)
CountsOK == \A c \in Contexts :
  /\ tx[c].clen \in Nat
  /\ pc[c] \in {"idle", "rx", "scan", "drain", "get", "drop", "put", "ref"} => tx[c].bufcount = 0
  /\ pc[c] \in {"idle", "rx", "scan", "drain", "get", "drop", "seg", "put", "ref", "lock"}
       => tx[c].given = 0
  /\ pc[c] \in {"seg", "put", "ref", "lock", "give", "tbus", "unlock"} => tx[c].clen <= Capacity
  /\ tx[c].bufcount <= tx[c].clen
  /\ pc[c] \in {"lock", "give", "tbus", "unlock"} => tx[c].bufcount = tx[c].clen
  /\ pc[c] = "give" => tx[c].given < tx[c].bufcount
  /\ pc[c] \in {"tbus", "unlock"} => tx[c].given = tx[c].bufcount

(* The descriptors of the DMA.                                              *)
RingOK ==
  \E n \in 0 .. Capacity :
    /\ txDesc = Up(dmaDesc, n)
    /\ \A d \in Desc : own[d] = "dma" <=> From(dmaDesc, d) < n

(* The descriptors a call has made, which it gives to the DMA next.         *)
Made(c) == tx[c].bufcount - tx[c].given
MadeOK ==
  \A c \in Contexts : tx[c].frame # NoFrame /\ pc[c] \in {"seg", "put", "ref", "lock", "give"} =>
    /\ \A k \in 0 .. Made(c) - 1 : own[Up(txDesc, k)] = "cpu" /\ buf[Up(txDesc, k)] = tx[c].frame
    /\ pc[c] # "give" => tx[c].desc = Up(txDesc, tx[c].bufcount)
    /\ pc[c] \in {"put", "ref"} => own[tx[c].desc] = "cpu"

(* When lwIP alone sends, one call is made at a time, and it empties the    *)
(* queue while the DMA has nothing to send.                                 *)
Alone ==
  \A c \in Contexts :
    /\ pc[c] \notin {"idle", "rx"} => tx[c].frame # NoFrame
    /\ qpc[c] \in {"get_item", "get_front", "get_cnt"} => pc[c] = "get"
    /\ qpc[c] \in {"put_rear", "put_slot", "put_cnt"} <=> pc[c] = "put"
    /\ pc[c] \in {"drain", "get", "drop"} /\ tx[c].idle => \A d \in Desc : own[d] = "cpu"
    /\ pc[c] \in {"get", "drop"} => tx[c].idle

(* The counters of the queue, which do not wrap.                            *)
Queued == put_cnt - get_cnt
CountOK ==
  /\ put_cnt <= PutLimit /\ get_cnt <= put_cnt /\ Queued <= Capacity
  /\ \A c \in Contexts :
       /\ /\ tx[c].frame # NoFrame /\ tx[c].bufcount = 0
          /\ pc[c] \notin {"ref", "tus"}
          => put_cnt < PutLimit
       /\ pc[c] = "put" => Queued < Capacity
       /\ pc[c] = "get" => Queued > 0

(* Its slots: where the next entry goes, and the entry in hand.             *)
Putting == \E c \in Contexts : qpc[c] \in {"put_slot", "put_cnt"}
QueueOK ==
  /\ (IF Putting THEN rear ELSE Up(rear, 1)) = Up(Oldest, Queued)
  /\ \A c \in Contexts :
       /\ pc[c] = "put" => qitem[c] = tx[c].frame
       /\ qpc[c] = "put_cnt" => array[rear] = qitem[c]
       /\ qpc[c] \in {"get_front", "get_cnt"} => qitem[c] = array[Oldest]
       /\ pc[c] = "drop" => qitem[c] \in Frames

(* The references: lwIP's own, those of the entries in the queue, the one   *)
(* that is about to be freed; and the one that is about to be taken.        *)
Bit(b) == IF b THEN 1 ELSE 0
InUse(s) == From(Oldest, s) < Queued
Kept(f) == {s \in Slots : InUse(s) /\ array[s] = f}
Owed(f) == \E c \in Contexts : pc[c] = "ref" /\ tx[c].frame = f
Dropping(f) == \E c \in Contexts : pc[c] = "drop" /\ qitem[c] = f
RefsOK ==
  /\ \A s \in Slots : InUse(s) => array[s] \in Frames
  /\ \A f \in Frames :
       ref[f] + Bit(Owed(f)) = Bit(f \in held) + Cardinality(Kept(f)) + Bit(Dropping(f))

(* What the DMA has still to read is kept, and so is what it is given next. *)
FlightOK ==
  /\ \A d \in Desc : own[d] = "dma" => buf[d] \in Frames /\ Kept(buf[d]) # {}
  /\ \A c \in Contexts :
       /\ tx[c].frame # NoFrame /\ pc[c] \in {"ref", "seg", "lock", "give"}
       /\ pc[c] = "ref" \/ tx[c].bufcount > 0
       => Kept(tx[c].frame) # {}

Shape == TypeOK /\ SendersOK /\ CountsOK /\ RingOK /\ MadeOK
Balance == Alone /\ CountOK /\ QueueOK /\ RefsOK /\ FlightOK
TxInv == Shape /\ (AllLocked => Balance)

(* The lock, when only senders take it: nobody finds it taken.              *)
LockOK ==
  AllLocked /\ ~setup.rx =>
    /\ locked => \E c \in Contexts : pc[c] \in {"give", "tbus", "unlock"}
    /\ \A c \in Contexts : pc[c] = "tus" /\ tx[c].ok => tx[c].given = tx[c].bufcount

-----------------------------------------------------------------------------
(* What the constants are.                                                  *)
LEMMA Constants ==
  /\ Capacity \in Nat \ {0} /\ CntMod \in Nat /\ Capacity < CntMod
  /\ NoFrame \notin Frames /\ "eth" \in Contexts
  /\ PutLimit \in Int /\ 1 <= PutLimit /\ PutLimit <= CntMod
  /\ 0 \in Desc /\ Desc = Slots
<1>1. /\ Capacity \in Nat \ {0} /\ CntMod \in Nat /\ Capacity < CntMod /\ NoItem \notin Items
      /\ "eth" \in Contexts /\ PutLimit \in 1 .. CntMod
  BY QueueAssumption, TxAssumption
<1> QED
  BY <1>1 DEF Frames, NoFrame, Desc, Slots

(* No step changes the build or the traffic.                                *)
LEMMA SetupKept == [Next]_vars => setup' = setup /\ Locals' = Locals /\ (AllLocked' <=> AllLocked)
<1> SUFFICES ASSUME [Next]_vars PROVE setup' = setup
  BY DEF Locals, AllLocked
<1> QED
  BY DEF Next, vars, DmaSend, DmaSuspend, DmaUnderflow, LwipFree, EthOutput, RxLock, RxUnlock, IrqUnlock, SendCall, Output,
         Scan, Drain, DrainGet, Drop, Drained, SegFail, SegFirst, SegPut, SegRef, SegNext, SegEnd,
         HalBusy, HalLock, Give, Resume, Unlock, Finish

(* Locals, field by field.                                                  *)
LEMMA Local ==
  ASSUME tx \in [Contexts -> Locals]
  PROVE  /\ \A c \in Contexts :
              /\ tx[c].frame \in Frames \cup {NoFrame} /\ tx[c].clen \in setup.chains \cup {0}
              /\ tx[c].desc \in Desc /\ tx[c].idle \in BOOLEAN /\ tx[c].ok \in BOOLEAN
              /\ tx[c].bufcount \in 0 .. Capacity /\ tx[c].given \in 0 .. Capacity
         /\ NoCall \in Locals
  BY Constants DEF Locals, NoCall

(* One field of the locals of a call is set, and the others stay.           *)
LEMMA Fields ==
  ASSUME tx \in [Contexts -> Locals], NEW c \in Contexts
  PROVE  /\ \A b \in BOOLEAN :
              /\ [tx[c] EXCEPT !.idle = b] \in Locals
              /\ [tx EXCEPT ![c].idle = b] = [tx EXCEPT ![c] = [tx[c] EXCEPT !.idle = b]]
              /\ [tx[c] EXCEPT !.ok = b] \in Locals
              /\ [tx EXCEPT ![c].ok = b] = [tx EXCEPT ![c] = [tx[c] EXCEPT !.ok = b]]
         /\ \A d \in Desc :
              /\ [tx[c] EXCEPT !.desc = d] \in Locals
              /\ [tx EXCEPT ![c].desc = d] = [tx EXCEPT ![c] = [tx[c] EXCEPT !.desc = d]]
         /\ \A n \in 0 .. Capacity :
              /\ [tx[c] EXCEPT !.given = n] \in Locals
              /\ [tx EXCEPT ![c].given = n] = [tx EXCEPT ![c] = [tx[c] EXCEPT !.given = n]]
         /\ \A n \in 0 .. Capacity, d \in Desc :
              /\ [tx[c] EXCEPT !.bufcount = n, !.desc = d] \in Locals
              /\ [tx EXCEPT ![c].bufcount = n, ![c].desc = d]
                   = [tx EXCEPT ![c] = [tx[c] EXCEPT !.bufcount = n, !.desc = d]]
         /\ \A r \in Locals :
              /\ [tx EXCEPT ![c] = r] \in [Contexts -> Locals]
              /\ [tx EXCEPT ![c] = r][c] = r
              /\ \A e \in Contexts \ {c} : [tx EXCEPT ![c] = r][e] = tx[e]
<1>1. tx[c] \in Locals
  OBVIOUS
<1>2. /\ \A b \in BOOLEAN : [tx[c] EXCEPT !.idle = b] \in Locals /\ [tx[c] EXCEPT !.ok = b] \in Locals
      /\ \A d \in Desc : [tx[c] EXCEPT !.desc = d] \in Locals
      /\ \A n \in 0 .. Capacity : [tx[c] EXCEPT !.given = n] \in Locals
      /\ \A n \in 0 .. Capacity, d \in Desc : [tx[c] EXCEPT !.bufcount = n, !.desc = d] \in Locals
  BY <1>1 DEF Locals
<1>3. /\ \A b \in BOOLEAN :
           /\ [tx EXCEPT ![c].idle = b] = [tx EXCEPT ![c] = [tx[c] EXCEPT !.idle = b]]
           /\ [tx EXCEPT ![c].ok = b] = [tx EXCEPT ![c] = [tx[c] EXCEPT !.ok = b]]
      /\ \A d \in Desc : [tx EXCEPT ![c].desc = d] = [tx EXCEPT ![c] = [tx[c] EXCEPT !.desc = d]]
      /\ \A n \in 0 .. Capacity : [tx EXCEPT ![c].given = n] = [tx EXCEPT ![c] = [tx[c] EXCEPT !.given = n]]
  OBVIOUS
<1>4. \A n \in 0 .. Capacity, d \in Desc :
        [tx EXCEPT ![c].bufcount = n, ![c].desc = d]
          = [tx EXCEPT ![c] = [tx[c] EXCEPT !.bufcount = n, !.desc = d]]
  OBVIOUS
<1>5. \A r \in Locals :
        /\ [tx EXCEPT ![c] = r] \in [Contexts -> Locals]
        /\ [tx EXCEPT ![c] = r][c] = r
        /\ \A e \in Contexts \ {c} : [tx EXCEPT ![c] = r][e] = tx[e]
  OBVIOUS
<1> QED
  BY <1>2, <1>3, <1>4, <1>5

(* What a step of low_level_output does to its caller, whose frame and      *)
(* whose chain it keeps until the end.                                      *)
Goes(c, s, t) == pc[c] = s /\ pc'[c] = t
Same(c) == tx'[c].frame = tx[c].frame /\ tx'[c].clen = tx[c].clen
Counts(c) == tx'[c].bufcount = tx[c].bufcount /\ tx'[c].given = tx[c].given
Effect(c) ==
  /\ Scan(c) => /\ Goes(c, "scan", "drain") /\ Same(c) /\ Counts(c) /\ tx'[c].desc = tx[c].desc
                /\ tx'[c].idle <=> \A d \in Desc : own[d] = "cpu"
  /\ Drain(c) => Goes(c, "drain", "get") /\ tx[c].idle
  /\ DrainGet(c) => pc[c] = "get" /\ pc'[c] \in {"get", "drop"}
  /\ Drop(c) => Goes(c, "drop", "drain")
  /\ Drained(c) =>
       /\ pc[c] = "drain" /\ Same(c) /\ Counts(c)
       /\ \/ tx[c].clen > Capacity /\ pc'[c] = "tus" /\ ~tx'[c].ok
          \/ tx[c].clen <= Capacity /\ pc'[c] = "seg" /\ tx'[c].desc = txDesc
  /\ SegFail(c) => Goes(c, "seg", "tus") /\ Same(c) /\ Counts(c) /\ ~tx'[c].ok
  /\ SegFirst(c) =>
       /\ pc[c] = "seg" /\ Same(c) /\ Counts(c)
       /\ tx[c].bufcount = 0 /\ tx[c].bufcount < tx[c].clen /\ own[tx[c].desc] = "cpu"
       /\ (pc'[c] = "put" /\ tx'[c].desc = tx[c].desc) \/ (pc'[c] = "tus" /\ ~tx'[c].ok)
  /\ SegPut(c) => pc[c] = "put" /\ pc'[c] \in {"put", "ref"}
  /\ SegRef(c) \/ SegNext(c) =>
       /\ pc[c] = "ref" \/ (pc[c] = "seg" /\ tx[c].bufcount < tx[c].clen /\ tx[c].bufcount > 0)
       /\ pc'[c] = "seg" /\ Same(c) /\ tx'[c].given = tx[c].given
       /\ tx'[c].bufcount = tx[c].bufcount + 1 /\ tx'[c].desc = Next_(tx[c].desc)
  /\ SegEnd(c) => Goes(c, "seg", "lock") /\ tx[c].bufcount = tx[c].clen
  /\ HalBusy(c) => Goes(c, "lock", "tus") /\ Same(c) /\ Counts(c)
  /\ HalLock(c) =>
       /\ pc[c] = "lock" /\ Same(c) /\ Counts(c) /\ tx'[c].desc = tx[c].desc
       /\ pc'[c] = IF tx[c].bufcount = 0 THEN "unlock" ELSE "give"
  /\ Give(c) =>
       /\ pc[c] = "give" /\ Same(c) /\ tx'[c].bufcount = tx[c].bufcount
       /\ tx'[c].given = tx[c].given + 1
       /\ pc'[c] = IF tx[c].given + 1 = tx[c].bufcount THEN "tbus" ELSE "give"
  /\ Resume(c) => Goes(c, "tbus", "unlock")
  /\ Unlock(c) => Goes(c, "unlock", "tus")
  /\ Finish(c) => Goes(c, "tus", "idle") /\ tx'[c] = NoCall
  /\ Drain(c) \/ DrainGet(c) \/ Drop(c) \/ SegPut(c) \/ SegEnd(c) \/ Resume(c) \/ Unlock(c) => tx' = tx

LEMMA Effects ==
  ASSUME TypeOK, CountsOK, NEW c \in Contexts, Output(c)
  PROVE  /\ tx' \in [Contexts -> Locals] /\ pc' \in [Contexts -> PcSteps]
         /\ \A d \in Contexts \ {c} : tx'[d] = tx[d] /\ pc'[d] = pc[d]
         /\ Effect(c)
<1>1. /\ tx \in [Contexts -> Locals] /\ pc \in [Contexts -> PcSteps] /\ txDesc \in Desc
      /\ tx[c] \in Locals
  BY DEF TypeOK
<1>2. /\ tx[c].frame \in Frames \cup {NoFrame} /\ tx[c].desc \in Desc
      /\ tx[c].bufcount \in 0 .. Capacity /\ tx[c].given \in 0 .. Capacity
      /\ Next_(tx[c].desc) \in Desc /\ NoCall \in Locals
      /\ Capacity \in Nat \ {0}
  BY <1>1, Local, Around, Constants
<1>3. /\ pc[c] = "ref" => tx[c].bufcount = 0
      /\ pc[c] \in {"seg", "give"} => tx[c].clen <= Capacity
      /\ pc[c] = "give" => tx[c].given < tx[c].bufcount
      /\ tx[c].clen \in Nat
  BY DEF CountsOK
<1>4. ASSUME NEW r \in Locals, tx' = [tx EXCEPT ![c] = r]
      PROVE  tx' \in [Contexts -> Locals] /\ tx'[c] = r /\ \A d \in Contexts \ {c} : tx'[d] = tx[d]
  BY <1>1, <1>4, Fields
<1>5. ASSUME NEW s \in PcSteps, Jump(c, s)
      PROVE  pc' \in [Contexts -> PcSteps] /\ pc'[c] = s /\ \A d \in Contexts \ {c} : pc'[d] = pc[d]
  BY <1>1, <1>5 DEF Jump
<1>6. /\ "idle" \in PcSteps /\ "drain" \in PcSteps /\ "get" \in PcSteps /\ "drop" \in PcSteps
      /\ "seg" \in PcSteps /\ "put" \in PcSteps /\ "ref" \in PcSteps /\ "lock" \in PcSteps
      /\ "give" \in PcSteps /\ "tbus" \in PcSteps /\ "unlock" \in PcSteps /\ "tus" \in PcSteps
  BY DEF PcSteps
<1> DEFINE Result == /\ tx' \in [Contexts -> Locals] /\ pc' \in [Contexts -> PcSteps]
                     /\ \A d \in Contexts \ {c} : tx'[d] = tx[d] /\ pc'[d] = pc[d]
(* A failure leaves all but ok alone.                                       *)
<1>7. ASSUME Fail(c)
      PROVE  Result /\ pc'[c] = "tus" /\ Same(c) /\ Counts(c) /\ ~tx'[c].ok
  <2>1. tx' = [tx EXCEPT ![c] = [tx[c] EXCEPT !.ok = FALSE]] /\ [tx[c] EXCEPT !.ok = FALSE] \in Locals
    BY <1>1, <1>7, Fields DEF Fail
  <2>2. /\ tx' \in [Contexts -> Locals] /\ tx'[c] = [tx[c] EXCEPT !.ok = FALSE]
        /\ \A d \in Contexts \ {c} : tx'[d] = tx[d]
    BY <1>4, <2>1
  <2>3. Same(c) /\ Counts(c) /\ ~tx'[c].ok
    BY <1>1, <2>2 DEF Locals, Same, Counts
  <2> QED
    BY <1>5, <1>6, <1>7, <2>2, <2>3 DEF Fail
<1>8. ASSUME NEW s \in PcSteps, Jump(c, s), NEW b \in BOOLEAN, tx' = [tx EXCEPT ![c].idle = b]
      PROVE  /\ Result /\ Same(c) /\ Counts(c) /\ tx'[c].desc = tx[c].desc
             /\ tx'[c].idle <=> b
  <2>1. tx' = [tx EXCEPT ![c] = [tx[c] EXCEPT !.idle = b]] /\ [tx[c] EXCEPT !.idle = b] \in Locals
    BY <1>1, <1>8, Fields
  <2>2. /\ tx' \in [Contexts -> Locals] /\ tx'[c] = [tx[c] EXCEPT !.idle = b]
        /\ \A d \in Contexts \ {c} : tx'[d] = tx[d]
    BY <1>4, <2>1
  <2>3. Same(c) /\ Counts(c) /\ tx'[c].desc = tx[c].desc /\ (tx'[c].idle <=> b)
    BY <1>1, <2>2 DEF Locals, Same, Counts
  <2> QED
    BY <1>5, <1>8, <2>2, <2>3
<1>9. ASSUME NEW s \in PcSteps, Jump(c, s), tx' = [tx EXCEPT ![c].ok = TRUE]
      PROVE  Result /\ Same(c) /\ Counts(c) /\ tx'[c].desc = tx[c].desc
  <2>1. tx' = [tx EXCEPT ![c] = [tx[c] EXCEPT !.ok = TRUE]] /\ [tx[c] EXCEPT !.ok = TRUE] \in Locals
    BY <1>1, <1>9, Fields
  <2>2. /\ tx' \in [Contexts -> Locals] /\ tx'[c] = [tx[c] EXCEPT !.ok = TRUE]
        /\ \A d \in Contexts \ {c} : tx'[d] = tx[d]
    BY <1>4, <2>1
  <2>3. Same(c) /\ Counts(c) /\ tx'[c].desc = tx[c].desc
    BY <1>1, <2>2 DEF Locals, Same, Counts
  <2> QED
    BY <1>5, <1>9, <2>2, <2>3
<1>10. ASSUME Fill(c), tx[c].bufcount + 1 \in 0 .. Capacity
       PROVE  /\ Result /\ Same(c) /\ pc'[c] = "seg" /\ tx'[c].given = tx[c].given
              /\ tx'[c].bufcount = tx[c].bufcount + 1 /\ tx'[c].desc = Next_(tx[c].desc)
  <2> DEFINE r == [tx[c] EXCEPT !.bufcount = tx[c].bufcount + 1, !.desc = Next_(tx[c].desc)]
  <2>1. tx' = [tx EXCEPT ![c].bufcount = tx[c].bufcount + 1, ![c].desc = Next_(tx[c].desc)]
    BY <1>1, <1>10 DEF Fill
  <2>2. tx' = [tx EXCEPT ![c] = r] /\ r \in Locals
    BY <1>1, <1>2, <1>10, <2>1, Fields
  <2>3. /\ tx' \in [Contexts -> Locals] /\ tx'[c] = r
        /\ \A d \in Contexts \ {c} : tx'[d] = tx[d]
    <3> HIDE DEF r
    <3> QED
      BY <1>4, <2>2
  <2>4. /\ Same(c) /\ tx'[c].given = tx[c].given
        /\ tx'[c].bufcount = tx[c].bufcount + 1 /\ tx'[c].desc = Next_(tx[c].desc)
    BY <1>1, <2>3 DEF Locals, Same
  <2> QED
    BY <1>5, <1>6, <1>10, <2>3, <2>4 DEF Fill
<1>11. ASSUME pc' = pc, tx' = tx
       PROVE  Result
  BY <1>1, <1>11
<1>12. ASSUME Scan(c)
       PROVE  /\ Result
              /\ Goes(c, "scan", "drain") /\ Same(c) /\ Counts(c) /\ tx'[c].desc = tx[c].desc
              /\ tx'[c].idle <=> \A d \in Desc : own[d] = "cpu"
  <2> DEFINE b == \A d \in Desc : own[d] = "cpu"
  <2>1. b \in BOOLEAN /\ tx' = [tx EXCEPT ![c].idle = b] /\ Jump(c, "drain")
    BY <1>12 DEF Scan
  <2>2. Goes(c, "scan", "drain")
    BY <1>5, <1>6, <1>12 DEF Scan, Runs, Goes
  <2> HIDE DEF b, Result
  <2>3. Result /\ Same(c) /\ Counts(c) /\ tx'[c].desc = tx[c].desc /\ (tx'[c].idle <=> b)
    BY <1>6, <1>8, <2>1
  <2> QED
    BY <2>2, <2>3 DEF b
<1>13. ASSUME Drain(c) \/ DrainGet(c) \/ Drop(c) \/ SegPut(c) \/ SegEnd(c) \/ Resume(c) \/ Unlock(c)
       PROVE  Result /\ tx' = tx
  <2>1. tx' = tx /\ (pc' = pc \/ \E s \in PcSteps : Jump(c, s))
    BY <1>6, <1>13 DEF Drain, DrainGet, Drop, SegPut, SegEnd, Resume, Unlock
  <2> QED
    BY <1>1, <1>5, <2>1
<1>14. /\ Drain(c) => Goes(c, "drain", "get") /\ tx[c].idle
       /\ DrainGet(c) => pc[c] = "get" /\ pc'[c] \in {"get", "drop"}
       /\ Drop(c) => Goes(c, "drop", "drain")
       /\ SegPut(c) => pc[c] = "put" /\ pc'[c] \in {"put", "ref"}
       /\ SegEnd(c) => Goes(c, "seg", "lock") /\ tx[c].bufcount = tx[c].clen
       /\ Resume(c) => Goes(c, "tbus", "unlock")
       /\ Unlock(c) => Goes(c, "unlock", "tus")
  BY <1>1, <1>5, <1>6 DEF Drain, DrainGet, Drop, SegPut, SegEnd, Resume, Unlock, Runs, Goes
<1>15. ASSUME Drained(c)
       PROVE  /\ Result /\ pc[c] = "drain" /\ Same(c) /\ Counts(c)
              /\ \/ tx[c].clen > Capacity /\ pc'[c] = "tus" /\ ~tx'[c].ok
                 \/ tx[c].clen <= Capacity /\ pc'[c] = "seg" /\ tx'[c].desc = txDesc
  <2>1. CASE tx[c].clen > Capacity
    BY <1>7, <1>15, <2>1 DEF Drained, Runs
  <2>2. CASE ~(tx[c].clen > Capacity)
    <3>1. Jump(c, "seg") /\ tx' = [tx EXCEPT ![c].desc = txDesc] /\ pc[c] = "drain"
      BY <1>15, <2>2 DEF Drained, Runs
    <3>2. tx' = [tx EXCEPT ![c] = [tx[c] EXCEPT !.desc = txDesc]] /\ [tx[c] EXCEPT !.desc = txDesc] \in Locals
      BY <1>1, <3>1, Fields
    <3>3. /\ tx' \in [Contexts -> Locals] /\ tx'[c] = [tx[c] EXCEPT !.desc = txDesc]
          /\ \A d \in Contexts \ {c} : tx'[d] = tx[d]
      BY <1>4, <3>2
    <3>4. Same(c) /\ Counts(c) /\ tx'[c].desc = txDesc
      BY <1>1, <3>3 DEF Locals, Same, Counts
    <3>5. tx[c].clen <= Capacity
      BY <1>2, <1>3, <2>2
    <3> QED
      BY <1>5, <1>6, <3>1, <3>3, <3>4, <3>5
  <2> QED
    BY <2>1, <2>2
<1>16. ASSUME SegFail(c)
       PROVE  Result /\ Goes(c, "seg", "tus") /\ Same(c) /\ Counts(c) /\ ~tx'[c].ok
  BY <1>7, <1>16 DEF SegFail, NextSeg, Runs, Goes
<1>17. ASSUME SegFirst(c)
       PROVE  /\ Result /\ pc[c] = "seg" /\ Same(c) /\ Counts(c)
              /\ tx[c].bufcount = 0 /\ tx[c].bufcount < tx[c].clen /\ own[tx[c].desc] = "cpu"
              /\ (pc'[c] = "put" /\ tx'[c].desc = tx[c].desc) \/ (pc'[c] = "tus" /\ ~tx'[c].ok)
  <2>1. CASE Jump(c, "put") /\ UNCHANGED tx
    BY <1>1, <1>5, <1>6, <1>17, <2>1 DEF SegFirst, NextSeg, Runs, Available, Same, Counts
  <2>2. CASE Fail(c)
    BY <1>7, <1>17, <2>2 DEF SegFirst, NextSeg, Runs, Available
  <2> QED
    BY <1>17, <2>1, <2>2 DEF SegFirst
<1>18. ASSUME SegRef(c) \/ SegNext(c)
       PROVE  /\ Result
              /\ pc[c] = "ref" \/ (pc[c] = "seg" /\ tx[c].bufcount < tx[c].clen /\ tx[c].bufcount > 0)
              /\ pc'[c] = "seg" /\ Same(c) /\ tx'[c].given = tx[c].given
              /\ tx'[c].bufcount = tx[c].bufcount + 1 /\ tx'[c].desc = Next_(tx[c].desc)
  <2>1. pc[c] = "ref" \/ (pc[c] = "seg" /\ tx[c].bufcount < tx[c].clen /\ tx[c].bufcount > 0)
    BY <1>18 DEF SegRef, SegNext, NextSeg, Runs
  <2>2. tx[c].bufcount + 1 \in 0 .. Capacity
    BY <1>2, <1>3, <2>1
  <2>3. Fill(c)
    BY <1>18 DEF SegRef, SegNext
  <2> QED
    BY <1>10, <2>1, <2>2, <2>3
<1>19. ASSUME HalBusy(c)
       PROVE  Result /\ Goes(c, "lock", "tus") /\ Same(c) /\ Counts(c)
  BY <1>6, <1>9, <1>5, <1>19 DEF HalBusy, Runs, Goes
<1>20. ASSUME HalLock(c)
       PROVE  /\ Result /\ pc[c] = "lock" /\ Same(c) /\ Counts(c) /\ tx'[c].desc = tx[c].desc
              /\ pc'[c] = IF tx[c].bufcount = 0 THEN "unlock" ELSE "give"
  <2> DEFINE s == IF tx[c].bufcount = 0 THEN "unlock" ELSE "give"
  <2>1. s \in PcSteps
    BY <1>6
  <2>2. Jump(c, s) /\ tx' = [tx EXCEPT ![c].ok = TRUE] /\ pc[c] = "lock"
    BY <1>20 DEF HalLock, Runs
  <2> HIDE DEF s, Result
  <2>3. Result /\ Same(c) /\ Counts(c) /\ tx'[c].desc = tx[c].desc
    BY <1>9, <2>1, <2>2
  <2>4. pc'[c] = s
    BY <1>5, <2>1, <2>2
  <2> QED
    BY <2>2, <2>3, <2>4 DEF s
<1>21. ASSUME Give(c)
       PROVE  /\ Result /\ pc[c] = "give" /\ Same(c) /\ tx'[c].bufcount = tx[c].bufcount
              /\ tx'[c].given = tx[c].given + 1
              /\ pc'[c] = IF tx[c].given + 1 = tx[c].bufcount THEN "tbus" ELSE "give"
  <2> DEFINE s == IF tx[c].given + 1 = tx[c].bufcount THEN "tbus" ELSE "give"
             n == tx[c].given + 1
  <2>1. s \in PcSteps
    BY <1>6
  <2>2. Jump(c, s) /\ tx' = [tx EXCEPT ![c].given = n] /\ pc[c] = "give"
    BY <1>21 DEF Give, Runs
  <2>3. n \in 0 .. Capacity
    BY <1>2, <1>3, <2>2
  <2>4. tx' = [tx EXCEPT ![c] = [tx[c] EXCEPT !.given = n]] /\ [tx[c] EXCEPT !.given = n] \in Locals
    BY <1>1, <2>2, <2>3, Fields
  <2>5. /\ tx' \in [Contexts -> Locals] /\ tx'[c] = [tx[c] EXCEPT !.given = n]
        /\ \A d \in Contexts \ {c} : tx'[d] = tx[d]
    BY <1>4, <2>4
  <2>6. Same(c) /\ tx'[c].bufcount = tx[c].bufcount /\ tx'[c].given = n
    BY <1>1, <2>5 DEF Locals, Same
  <2>7. /\ pc' \in [Contexts -> PcSteps] /\ pc'[c] = s
        /\ \A d \in Contexts \ {c} : pc'[d] = pc[d]
    <3> HIDE DEF s
    <3> QED
      BY <1>5, <2>1, <2>2
  <2> QED
    BY <2>2, <2>5, <2>6, <2>7
<1>22. ASSUME Finish(c)
       PROVE  Result /\ Goes(c, "tus", "idle") /\ tx'[c] = NoCall
  <2>1. Jump(c, "idle") /\ tx' = [tx EXCEPT ![c] = NoCall] /\ pc[c] = "tus"
    BY <1>22 DEF Finish, Runs
  <2> QED
    BY <1>2, <1>4, <1>5, <1>6, <2>1 DEF Goes
<1>23. Result
  <2> HIDE DEF Result
  <2> QED
    BY <1>12, <1>13, <1>15, <1>16, <1>17, <1>18, <1>19, <1>20, <1>21, <1>22 DEF Output
<1> QED
  BY <1>12, <1>13, <1>14, <1>15, <1>16, <1>17, <1>18, <1>19, <1>20, <1>21, <1>22, <1>23 DEF Effect

(* Its types are kept.                                                      *)
LEMMA TypeNext ==
  ASSUME Shape, [Next]_vars
  PROVE  TypeOK'
<1>1. /\ setup \in Setups /\ QTypeOK /\ own \in [Desc -> {"dma", "cpu"}] /\ last \in [Desc -> BOOLEAN]
      /\ buf \in [Desc -> Frames \cup {NoFrame}] /\ txDesc \in Desc /\ dmaDesc \in Desc
      /\ midFrame \in BOOLEAN /\ suspended \in BOOLEAN /\ tbus \in BOOLEAN /\ tus \in BOOLEAN
      /\ locked \in BOOLEAN /\ ref \in [Frames -> 0 .. Capacity + 1] /\ held \subseteq Frames
      /\ pc \in [Contexts -> PcSteps] /\ tx \in [Contexts -> Locals]
  BY DEF Shape, TypeOK
<1>2. setup' = setup /\ Locals' = Locals
  BY SetupKept
<1>3. ASSUME QTypeOK', own' \in [Desc -> {"dma", "cpu"}], last' \in [Desc -> BOOLEAN],
             buf' \in [Desc -> Frames \cup {NoFrame}], txDesc' \in Desc, dmaDesc' \in Desc,
             midFrame' \in BOOLEAN, suspended' \in BOOLEAN, tbus' \in BOOLEAN, tus' \in BOOLEAN,
             locked' \in BOOLEAN, ref' \in [Frames -> 0 .. Capacity + 1], held' \subseteq Frames,
             pc' \in [Contexts -> PcSteps], tx' \in [Contexts -> Locals]
      PROVE  TypeOK'
  BY <1>1, <1>2, <1>3 DEF TypeOK
<1>4. ASSUME UNCHANGED txQueue
      PROVE  QTypeOK'
  BY <1>1, <1>4 DEF QTypeOK, txQueue, queueVars, callVars
<1>5. \A d \in Desc : Next_(d) \in Desc
  BY Around, Constants
<1>6. \A f \in Frames : ref[f] <= 2 /\ Capacity >= 1 /\ Capacity \in Int /\ ref[f] \in Int /\ ref[f] >= 0
  BY <1>1, Constants DEF Shape, SendersOK
<1>7. \A s \in {"idle", "scan", "drain", "get", "drop", "seg", "put", "ref", "lock",
                "give", "tbus", "unlock", "tus", "rx"} : s \in PcSteps
  BY DEF PcSteps
<1>8. NoCall \in Locals
  BY <1>1, Local
<1> USE DEF Jump, descs, dmaVars, refs
<1>9. CASE DmaSend \/ DmaSuspend \/ DmaUnderflow
  BY <1>1, <1>3, <1>4, <1>5, <1>9 DEF DmaSend, DmaSuspend, DmaUnderflow
<1>10. ASSUME NEW f \in Frames \cup {NoFrame}, PbufFree(f)
       PROVE  ref' \in [Frames -> 0 .. Capacity + 1]
  BY <1>1, <1>6, <1>10 DEF PbufFree
<1>11. CASE LwipFree
  BY <1>1, <1>3, <1>4, <1>10, <1>11 DEF LwipFree
<1>12. CASE EthOutput \/ RxLock \/ RxUnlock \/ IrqUnlock \/ UNCHANGED vars
  <2>1. tx' \in [Contexts -> Locals] /\ pc' \in [Contexts -> PcSteps]
    BY <1>1, <1>7, <1>8, <1>12 DEF EthOutput, RxLock, RxUnlock, IrqUnlock, vars
  <2> QED
    BY <1>1, <1>3, <1>4, <1>12, <2>1 DEF EthOutput, RxLock, RxUnlock, IrqUnlock, vars
<1>13. ASSUME NEW c \in Contexts, SendCall(c)
       PROVE  TypeOK'
  <2>1. PICK f \in setup.frames, n \in setup.chains :
          /\ ref' = [ref EXCEPT ![f] = 1]
          /\ held' = held \cup {f}
          /\ tx' = [tx EXCEPT ![c] = [NoCall EXCEPT !.frame = f, !.clen = n]]
    BY <1>13 DEF SendCall
  <2>2. f \in Frames /\ n \in Nat
    BY <1>1, TxAssumption
  <2>3. [NoCall EXCEPT !.frame = f, !.clen = n] \in Locals
    BY <1>8, <2>1, <2>2 DEF Locals
  <2>4. tx' \in [Contexts -> Locals]
    BY <1>1, <2>1, <2>3
  <2>5. ref' \in [Frames -> 0 .. Capacity + 1]
    BY <1>1, <1>6, <2>1, <2>2
  <2> QED
    BY <1>1, <1>3, <1>4, <1>7, <1>13, <2>1, <2>2, <2>4, <2>5 DEF SendCall
<1>14. ASSUME NEW c \in Contexts, Output(c)
       PROVE  TypeOK'
  <2>1. /\ tx[c].frame \in Frames \cup {NoFrame} /\ tx[c].desc \in Desc
        /\ tx[c].bufcount \in 0 .. Capacity /\ tx[c].given \in 0 .. Capacity
    BY <1>1, Local
  <2>2. tx' \in [Contexts -> Locals] /\ pc' \in [Contexts -> PcSteps]
    <3>1. TypeOK /\ CountsOK
      BY DEF Shape
    <3> QED
      BY <1>14, <3>1, Effects
  <2>3. CASE \/ Scan(c) \/ HalBusy(c) \/ HalLock(c) \/ Drain(c) \/ SegEnd(c) \/ Resume(c) \/ Unlock(c)
             \/ Drained(c) \/ SegFail(c) \/ Finish(c)
    BY <1>1, <1>3, <1>4, <2>2, <2>3 DEF Scan, HalBusy, HalLock, Drain, SegEnd, Resume, Unlock, Drained, SegFail, Finish
  <2>4. CASE DrainGet(c)
    <3>1. Next_(front) \in Slots /\ (get_cnt + 1) % CntMod \in 0 .. CntMod - 1
      BY <1>1, Around, QueueAssumption, Wraps DEF QTypeOK
    <3>2. QTypeOK'
      BY <1>1, <2>4, <3>1 DEF QTypeOK, DrainGet, GetCall, GetItem, GetFront, GetCount, GetNull, Goto, Steps,
                              queueVars
    <3> QED
      BY <1>1, <1>3, <2>2, <2>4, <3>2 DEF DrainGet
  <2>5. CASE Drop(c)
    <3>1. qitem[c] \in Frames \cup {NoFrame}
      BY <1>1 DEF QTypeOK, Frames, NoFrame
    <3>2. ref' \in [Frames -> 0 .. Capacity + 1]
      BY <1>10, <2>5, <3>1 DEF Drop
    <3>3. QTypeOK'
      BY <1>1, <2>5 DEF QTypeOK, Drop, queueVars
    <3> QED
      BY <1>1, <1>3, <2>2, <2>5, <3>2, <3>3 DEF Drop
  <2>6. CASE SegFirst(c)
    <3>1. QTypeOK'
      <4>1. tx[c].frame \in Items \cup {NoItem}
        BY <2>1 DEF Frames, NoFrame
      <4> QED
        BY <1>1, <2>6, <4>1 DEF QTypeOK, SegFirst, PutCall, PutRefused, Goto, Steps, queueVars, callVars
    <3> QED
      BY <1>1, <1>3, <2>2, <2>6, <3>1 DEF SegFirst
  <2>7. CASE SegPut(c)
    <3>1. Next_(rear) \in Slots /\ (put_cnt + 1) % CntMod \in 0 .. CntMod - 1
      BY <1>1, Around, QueueAssumption, Wraps DEF QTypeOK
    <3>2. QTypeOK'
      BY <1>1, <2>7, <3>1 DEF QTypeOK, SegPut, PutRear, PutSlot, PutCount, Goto, Steps
    <3> QED
      BY <1>1, <1>3, <2>2, <2>7, <3>2 DEF SegPut
  <2>8. CASE SegRef(c) \/ SegNext(c)
    <3>1. buf' \in [Desc -> Frames \cup {NoFrame}]
      BY <1>1, <2>1, <2>8 DEF SegRef, SegNext, Fill
    <3>2. ref' \in [Frames -> 0 .. Capacity + 1]
      <4>1. pc[c] = "ref" => tx[c].frame \in Frames /\ ref[tx[c].frame] <= 1
        BY <2>1 DEF Shape, SendersOK, CountsOK
      <4> QED
        BY <1>1, <1>6, <2>8, <4>1 DEF SegRef, SegNext, Runs
    <3> QED
      BY <1>1, <1>3, <1>4, <2>2, <2>8, <3>1, <3>2 DEF SegRef, SegNext, Fill
  <2>9. CASE Give(c)
    BY <1>1, <1>3, <1>4, <1>5, <2>2, <2>9 DEF Give
  <2> QED
    BY <1>14, <2>3, <2>4, <2>5, <2>6, <2>7, <2>8, <2>9 DEF Output
<1> QED
  BY <1>9, <1>11, <1>12, <1>13, <1>14 DEF Next

(* The other steps of a context: lwIP sends, ethernet_thread calls without  *)
(* a frame, and receives.                                                   *)
LEMMA SendEffects ==
  ASSUME TypeOK, NEW c \in Contexts, SendCall(c)
  PROVE  \E f \in Frames, n \in Nat \ {0} :
           /\ ref[f] = 0 \/ (f \in held /\ ref[f] = 1)
           /\ ref' = [ref EXCEPT ![f] = 1] /\ held' = held \cup {f}
           /\ tx'[c].frame = f /\ tx'[c].clen = n /\ ~tx'[c].idle
           /\ tx'[c].bufcount = 0 /\ tx'[c].given = 0
           /\ Goes(c, "idle", "scan")
           /\ \A d \in Contexts \ {c} : tx'[d] = tx[d] /\ pc'[d] = pc[d]
           /\ \A d \in Contexts : tx[d].frame = NoFrame
           /\ n \in setup.chains
<1>1. PICK f \in setup.frames, n \in setup.chains :
        /\ ref[f] = 0 \/ (f \in held /\ ref[f] = 1)
        /\ ref' = [ref EXCEPT ![f] = 1]
        /\ held' = held \cup {f}
        /\ tx' = [tx EXCEPT ![c] = [NoCall EXCEPT !.frame = f, !.clen = n]]
  BY DEF SendCall
<1>2. f \in Frames /\ n \in Nat \ {0}
  BY TxAssumption DEF TypeOK
<1>3. tx \in [Contexts -> Locals] /\ pc \in [Contexts -> PcSteps]
  BY DEF TypeOK
<1>4. /\ tx'[c] = [NoCall EXCEPT !.frame = f, !.clen = n]
      /\ \A d \in Contexts \ {c} : tx'[d] = tx[d]
  BY <1>1, <1>3
<1>5. /\ tx'[c].frame = f /\ tx'[c].clen = n /\ ~tx'[c].idle
      /\ tx'[c].bufcount = 0 /\ tx'[c].given = 0
  BY <1>4 DEF NoCall
<1>6. Goes(c, "idle", "scan") /\ \A d \in Contexts \ {c} : pc'[d] = pc[d]
  BY <1>3 DEF SendCall, Jump, Runs, Goes
<1>7. \A d \in Contexts : tx[d].frame = NoFrame
  BY DEF SendCall, Sending
<1> QED
  BY <1>1, <1>2, <1>4, <1>5, <1>6, <1>7

(* ethernet_thread, when it calls and when it receives, and what a call     *)
(* starts with.                                                             *)
LEMMA EthEffects ==
  ASSUME TypeOK
  PROVE  /\ EthOutput => /\ setup.drains /\ Goes("eth", "idle", "scan") /\ tx'["eth"] = NoCall
                         /\ \A d \in Contexts \ {"eth"} : tx'[d] = tx[d] /\ pc'[d] = pc[d]
         /\ RxLock => /\ setup.rx /\ ~locked /\ Goes("eth", "idle", "rx") /\ tx' = tx
                      /\ \A d \in Contexts \ {"eth"} : pc'[d] = pc[d]
         /\ RxUnlock => /\ Goes("eth", "rx", "idle") /\ tx' = tx
                        /\ \A d \in Contexts \ {"eth"} : pc'[d] = pc[d]
         /\ NoCall.frame = NoFrame /\ NoCall.clen = 0 /\ NoCall.bufcount = 0 /\ NoCall.given = 0
         /\ ~NoCall.ok /\ ~NoCall.idle
<1>1. "eth" \in Contexts /\ tx \in [Contexts -> Locals] /\ pc \in [Contexts -> PcSteps]
  BY Constants DEF TypeOK
<1> QED
  BY <1>1 DEF EthOutput, RxLock, RxUnlock, Runs, Jump, Goes, NoCall

(* The counts of a call are kept.                                           *)
LEMMA CountsNext ==
  ASSUME Shape, [Next]_vars
  PROVE  CountsOK'
<1>1. TypeOK /\ CountsOK /\ SendersOK
  BY DEF Shape
<1>2. Capacity \in Nat \ {0} /\ "eth" \in Contexts
  BY Constants
<1> DEFINE Counted(d) ==
  /\ tx[d].clen \in Nat
  /\ pc[d] \in {"idle", "rx", "scan", "drain", "get", "drop", "put", "ref"} => tx[d].bufcount = 0
  /\ pc[d] \in {"idle", "rx", "scan", "drain", "get", "drop", "seg", "put", "ref", "lock"}
       => tx[d].given = 0
  /\ pc[d] \in {"seg", "put", "ref", "lock", "give", "tbus", "unlock"} => tx[d].clen <= Capacity
  /\ tx[d].bufcount <= tx[d].clen
  /\ pc[d] \in {"lock", "give", "tbus", "unlock"} => tx[d].bufcount = tx[d].clen
  /\ pc[d] = "give" => tx[d].given < tx[d].bufcount
  /\ pc[d] \in {"tbus", "unlock"} => tx[d].given = tx[d].bufcount
<1>3. \A d \in Contexts : Counted(d)
  BY <1>1 DEF CountsOK
<1>4. \A d \in Contexts : tx[d].bufcount \in 0 .. Capacity /\ tx[d].given \in 0 .. Capacity
  BY <1>1, Local DEF TypeOK
<1>5. (\A d \in Contexts : Counted(d)') => CountsOK'
  BY DEF CountsOK
<1>6. \A d \in Contexts : tx'[d] = tx[d] /\ pc'[d] = pc[d] => Counted(d)'
  BY <1>3
<1>7. CASE DmaSend \/ DmaSuspend \/ DmaUnderflow \/ LwipFree \/ IrqUnlock \/ UNCHANGED vars
  <2>1. tx' = tx /\ pc' = pc
    BY <1>7 DEF DmaSend, DmaSuspend, DmaUnderflow, LwipFree, IrqUnlock, vars
  <2> QED
    BY <1>5, <1>6, <2>1
<1>8. CASE EthOutput \/ RxLock \/ RxUnlock
  <2>1. Counted("eth")'
    BY <1>1, <1>2, <1>3, <1>8, EthEffects DEF Goes
  <2>2. \A d \in Contexts \ {"eth"} : Counted(d)'
    <3> HIDE DEF Counted
    <3> QED
      BY <1>1, <1>6, <1>8, EthEffects
  <2> QED
    BY <1>5, <2>1, <2>2
<1>9. ASSUME NEW c \in Contexts, SendCall(c)
      PROVE  CountsOK'
  <2>1. \A d \in Contexts \ {c} : Counted(d)'
    <3> HIDE DEF Counted
    <3> QED
      BY <1>1, <1>6, <1>9, SendEffects
  <2>2. Counted(c)'
    BY <1>1, <1>2, <1>9, SendEffects DEF Goes
  <2> QED
    BY <1>5, <2>1, <2>2
<1>10. ASSUME NEW c \in Contexts, Output(c)
       PROVE  CountsOK'
  <2>1. Effect(c) /\ \A d \in Contexts \ {c} : tx'[d] = tx[d] /\ pc'[d] = pc[d]
    BY <1>1, <1>10, Effects
  <2>2. /\ Counted(c) /\ tx[c].bufcount \in 0 .. Capacity /\ tx[c].given \in 0 .. Capacity
        /\ (tx[c].frame # NoFrame <=> tx[c].clen > 0)
        /\ (tx[c].frame = NoFrame => pc[c] \notin {"put", "ref", "give", "tbus"})
    BY <1>1, <1>3, <1>4 DEF SendersOK
  <2>3. Counted(c)'
    <3>1. CASE Scan(c) \/ Drain(c) \/ DrainGet(c) \/ Drop(c) \/ Drained(c) \/ SegFail(c)
      BY <1>2, <2>1, <2>2, <3>1 DEF Effect, Goes, Same, Counts
    <3>2. CASE SegFirst(c) \/ SegPut(c) \/ SegRef(c) \/ SegNext(c) \/ SegEnd(c)
      BY <1>2, <2>1, <2>2, <3>2 DEF Effect, Goes, Same, Counts
    <3>3. CASE HalBusy(c) \/ HalLock(c) \/ Give(c) \/ Resume(c) \/ Unlock(c)
      BY <1>2, <2>1, <2>2, <3>3 DEF Effect, Goes, Same, Counts
    <3>4. CASE Finish(c)
      BY <1>1, <1>2, <2>1, <3>4, EthEffects DEF Effect, Goes
    <3> QED
      BY <1>10, <3>1, <3>2, <3>3, <3>4 DEF Output
  <2>4. \A d \in Contexts \ {c} : Counted(d)'
    BY <1>6, <2>1
  <2> QED
    BY <1>5, <2>3, <2>4
<1> QED
  BY <1>7, <1>8, <1>9, <1>10 DEF Next

(* There is one sender at a time, and references are few.                   *)
LEMMA SendersNext ==
  ASSUME Shape, [Next]_vars
  PROVE  SendersOK'
<1>1. TypeOK /\ CountsOK /\ SendersOK
  BY DEF Shape
<1>2. /\ "eth" \in Contexts /\ ref \in [Frames -> 0 .. Capacity + 1] /\ Capacity \in Nat \ {0}
      /\ NoFrame \notin Frames
  BY <1>1, Constants DEF TypeOK
<1> DEFINE Sends(d) ==
             /\ tx[d].frame # NoFrame <=> tx[d].clen > 0
             /\ pc[d] \in {"idle", "rx"} => tx[d].frame = NoFrame
             /\ tx[d].frame = NoFrame => pc[d] \notin {"put", "ref", "give", "tbus"}
           Low(d) == tx[d].frame # NoFrame /\ tx[d].bufcount = 0 => ref[tx[d].frame] <= 1
           Single == \A c, d \in Contexts : tx[c].frame # NoFrame /\ tx[d].frame # NoFrame => c = d
           Few == \A f \in Frames : ref[f] <= 2
<1>3. Single /\ Few /\ \A d \in Contexts : Sends(d) /\ Low(d)
  BY <1>1 DEF SendersOK
<1>4. ASSUME Single', Few', \A d \in Contexts : Sends(d)' /\ Low(d)'
      PROVE  SendersOK'
  BY <1>4 DEF SendersOK
<1>5. \A d \in Contexts : /\ tx[d].frame \in Frames \cup {NoFrame} /\ tx[d].bufcount \in 0 .. Capacity
                          /\ tx[d].clen \in Nat
  BY <1>1, Local DEF TypeOK, CountsOK
<1>6. \A f \in Frames : ref[f] \in Nat
  BY <1>2
(* References that do not grow.                                             *)
<1>7. ASSUME \A f \in Frames : ref'[f] \in Nat /\ ref'[f] <= ref[f]
      PROVE  /\ Few'
             /\ \A d \in Contexts : tx'[d].frame = tx[d].frame /\ tx'[d].bufcount = tx[d].bufcount => Low(d)'
  BY <1>3, <1>5, <1>6, <1>7
<1>8. ASSUME NEW f \in Frames \cup {NoFrame}, PbufFree(f)
      PROVE  \A g \in Frames : ref'[g] \in Nat /\ ref'[g] <= ref[g]
  BY <1>2, <1>6, <1>8 DEF PbufFree
<1>9. ASSUME ref' = ref
      PROVE  \A g \in Frames : ref'[g] \in Nat /\ ref'[g] <= ref[g]
  BY <1>6, <1>9
<1>10. CASE DmaSend \/ DmaSuspend \/ DmaUnderflow \/ LwipFree \/ IrqUnlock \/ UNCHANGED vars
  <2>1. tx' = tx /\ pc' = pc
    BY <1>10 DEF DmaSend, DmaSuspend, DmaUnderflow, LwipFree, IrqUnlock, vars
  <2>2. \A g \in Frames : ref'[g] \in Nat /\ ref'[g] <= ref[g]
    <3>1. CASE LwipFree
      BY <1>1, <1>8, <3>1 DEF LwipFree, TypeOK
    <3> QED
      BY <1>9, <1>10, <3>1 DEF DmaSend, DmaSuspend, DmaUnderflow, IrqUnlock, vars, refs
  <2>3. Few' /\ \A d \in Contexts : Low(d)'
    BY <1>7, <2>1, <2>2
  <2>4. Single' /\ \A d \in Contexts : Sends(d)'
    BY <1>3, <2>1
  <2> QED
    BY <1>4, <2>3, <2>4
<1>11. CASE EthOutput \/ RxLock \/ RxUnlock
  <2>1. ref' = ref
    BY <1>11 DEF EthOutput, RxLock, RxUnlock, refs
  <2>2. /\ \A d \in Contexts \ {"eth"} : tx'[d] = tx[d] /\ pc'[d] = pc[d]
        /\ tx'["eth"].frame = NoFrame /\ tx'["eth"].clen = 0
        /\ pc'["eth"] \in {"idle", "scan", "rx"}
    <3>1. pc["eth"] \in {"idle", "rx"}
      BY <1>1, <1>11, EthEffects DEF Goes
    <3>2. tx["eth"].frame = NoFrame /\ tx["eth"].clen = 0
      BY <1>2, <1>3, <1>5, <3>1
    <3> QED
      BY <1>1, <1>11, <3>2, EthEffects DEF Goes
  <2>3. \A d \in Contexts : Sends(d)' /\ Low(d)'
    BY <1>2, <1>3, <1>9, <2>1, <2>2
  <2>4. Single' /\ Few'
    BY <1>3, <2>1, <2>2
  <2> QED
    BY <1>4, <2>3, <2>4
<1>12. ASSUME NEW c \in Contexts, SendCall(c)
       PROVE  SendersOK'
  <2>1. PICK f \in Frames, n \in Nat \ {0} :
           /\ ref' = [ref EXCEPT ![f] = 1]
           /\ tx'[c].frame = f /\ tx'[c].clen = n /\ tx'[c].bufcount = 0
           /\ Goes(c, "idle", "scan")
           /\ \A d \in Contexts \ {c} : tx'[d] = tx[d] /\ pc'[d] = pc[d]
           /\ \A d \in Contexts : tx[d].frame = NoFrame
    BY <1>1, <1>12, SendEffects
  <2>2. Few' /\ ref'[f] = 1
    BY <1>2, <1>3, <2>1
  <2>3. \A d \in Contexts : Sends(d)' /\ Low(d)'
    BY <1>2, <1>3, <2>1, <2>2 DEF Goes
  <2>4. Single'
    BY <2>1
  <2> QED
    BY <1>4, <2>2, <2>3, <2>4
<1>13. ASSUME NEW c \in Contexts, Output(c)
       PROVE  SendersOK'
  <2>1. Effect(c) /\ \A d \in Contexts \ {c} : tx'[d] = tx[d] /\ pc'[d] = pc[d]
    BY <1>1, <1>13, Effects
  <2>2. Finish(c) => tx'[c].frame = NoFrame /\ tx'[c].clen = 0 /\ pc'[c] = "idle"
    BY <1>1, <2>1, EthEffects DEF Effect, Goes
  <2>3. Finish(c) \/ Same(c)
    BY <1>13, <2>1 DEF Effect, Output, Same
  <2>4. Single'
    BY <1>3, <2>1, <2>2, <2>3 DEF Same
  <2>5. \A d \in Contexts : Sends(d)'
    <3>1. \A d \in Contexts \ {c} : Sends(d)'
      BY <1>3, <2>1
    <3>2. /\ tx[c].bufcount \in 0 .. Capacity /\ tx[c].clen \in Nat
          /\ pc[c] \in {"lock", "give", "tbus", "unlock"} => tx[c].bufcount = tx[c].clen
      BY <1>1, <1>5 DEF CountsOK
    <3>3. Sends(c) /\ (tx[c].frame = NoFrame => tx[c].bufcount = 0)
      BY <1>1, <1>3, <1>5 DEF CountsOK
    <3>4. Sends(c)'
      <4>1. CASE Finish(c)
        BY <2>2, <4>1
      <4>2. CASE Scan(c) \/ Drain(c) \/ DrainGet(c) \/ Drop(c) \/ Drained(c) \/ SegFail(c)
        BY <2>1, <2>3, <3>3, <4>2 DEF Effect, Goes, Same
      <4>3. CASE SegFirst(c) \/ SegPut(c) \/ SegRef(c) \/ SegNext(c) \/ SegEnd(c)
        BY <2>1, <2>3, <3>2, <3>3, <4>3 DEF Effect, Goes, Same
      <4>4. CASE HalBusy(c) \/ HalLock(c) \/ Give(c) \/ Resume(c) \/ Unlock(c)
        BY <2>1, <2>3, <3>2, <3>3, <4>4 DEF Effect, Goes, Same
      <4> QED
        BY <1>13, <4>1, <4>2, <4>3, <4>4 DEF Output
    <3> QED
      BY <3>1, <3>4
  <2>6. CASE SegRef(c)
    <3>1. pc[c] = "ref" /\ ref' = [ref EXCEPT ![tx[c].frame] = @ + 1]
      BY <2>6 DEF SegRef, Runs
    <3>2. tx[c].frame \in Frames /\ tx[c].bufcount = 0
      BY <1>1, <1>3, <1>5, <3>1 DEF CountsOK
    <3>3. ref[tx[c].frame] <= 1
      BY <1>3, <3>2, <1>2
    <3>4. Few'
      BY <1>2, <1>3, <1>6, <3>1, <3>2, <3>3
    <3>5. tx'[c].bufcount = 1
      BY <2>1, <2>6, <3>2 DEF Effect
    <3>6. \A d \in Contexts : Low(d)'
      <4>1. \A d \in Contexts \ {c} : tx'[d].frame = NoFrame
        BY <1>2, <1>3, <2>1, <3>2
      <4> QED
        BY <3>5, <4>1
    <3> QED
      BY <1>4, <2>4, <2>5, <3>4, <3>6
  <2>7. CASE ~SegRef(c)
    <3>1. \A g \in Frames : ref'[g] \in Nat /\ ref'[g] <= ref[g]
      <4>1. CASE Drop(c)
        <5>1. qitem[c] \in Frames \cup {NoFrame}
          BY <1>1 DEF TypeOK, QTypeOK, Frames, NoFrame
        <5> QED
          BY <1>8, <4>1, <5>1 DEF Drop
      <4>2. CASE ~Drop(c)
        <5>1. ref' = ref
          BY <1>13, <2>7, <4>2 DEF Output, Scan, Drain, DrainGet, Drained, SegFail, SegFirst, SegPut, SegNext,
             SegEnd, HalBusy, HalLock, Give, Resume, Unlock, Finish, refs
        <5> QED
          BY <1>9, <5>1
      <4> QED
        BY <4>1, <4>2
    <3>2. \A d \in Contexts \ {c} : Low(d)'
      BY <1>7, <2>1, <3>1
    <3>3. Low(c)'
      <4>1. CASE Finish(c)
        BY <2>2, <4>1
      <4>2. CASE SegNext(c)
        <5>1. tx'[c].bufcount > 0
          <6>1. pc[c] = "seg" /\ tx[c].bufcount > 0
            BY <4>2 DEF SegNext, NextSeg, Runs
          <6> QED
            BY <1>5, <2>1, <4>2, <6>1 DEF Effect
        <5> QED
          BY <5>1
      <4>3. CASE ~Finish(c) /\ ~SegNext(c)
        <5>1. tx'[c].frame = tx[c].frame /\ tx'[c].bufcount = tx[c].bufcount
          BY <1>13, <2>1, <2>7, <4>3 DEF Effect, Output, Same, Counts
        <5> QED
          BY <1>7, <3>1, <5>1
      <4> QED
        BY <4>1, <4>2, <4>3
    <3> QED
      BY <1>4, <1>7, <2>4, <2>5, <3>1, <3>2, <3>3
  <2> QED
    BY <2>6, <2>7
<1> QED
  BY <1>10, <1>11, <1>12, <1>13 DEF Next

(* The ring, seen from one of its descriptors.                              *)
LEMMA Ring ==
  ASSUME NEW b \in Desc
  PROVE  /\ \A d \in Desc : From(b, d) \in 0 .. Capacity - 1 /\ Up(b, From(b, d)) = d
         /\ \A k \in 0 .. Capacity - 1 : From(b, Up(b, k)) = k
         /\ \A d \in Desc : From(Up(b, 1), d) = IF d = b THEN Capacity - 1 ELSE From(b, d) - 1
         /\ \A d \in Desc : From(b, d) = 0 <=> d = b
         /\ \A k \in 0 .. Capacity - 1 : Up(Up(b, 1), k) = Up(b, k + 1)
         /\ \A k \in 0 .. Capacity - 1 : Up(Up(b, k), 1) = Up(b, k + 1)
         /\ \A k, l \in 0 .. Capacity - 1 : Up(b, k) = Up(b, l) => k = l
         /\ \A k \in 0 .. Capacity : Up(b, k) \in Desc
         /\ Up(b, 0) = b /\ Next_(b) = Up(b, 1)
<1>1. b \in Int /\ b >= 0 /\ b < Capacity /\ Capacity \in Nat \ {0}
  BY Constants DEF Desc, Slots
<1>2. /\ \A d \in Desc : From(b, d) \in 0 .. Capacity - 1 /\ Up(b, From(b, d)) = d
      /\ \A k \in 0 .. Capacity - 1 : From(b, Up(b, k)) = k
      /\ \A d \in Desc : From(b, d) = 0 <=> d = b
  BY <1>1 DEF From, Up, Desc, Slots
<1>3. \A d \in Desc : From(Up(b, 1), d) = IF d = b THEN Capacity - 1 ELSE From(b, d) - 1
  BY <1>1 DEF From, Up, Desc, Slots
<1> QED
  BY <1>2, <1>3, Around, Constants

(* The steps that change the ring.                                          *)
LEMMA RingSteps ==
  ASSUME [Next]_vars
  PROVE  /\ DmaSend \/ (\E c \in Contexts : Give(c)) \/ (own' = own /\ txDesc' = txDesc /\ dmaDesc' = dmaDesc)
         /\ buf' = buf \/ \E c \in Contexts : SegRef(c) \/ SegNext(c)
  BY DEF Next, vars, DmaSend, DmaSuspend, DmaUnderflow, LwipFree, EthOutput, RxLock, RxUnlock, IrqUnlock, SendCall, Output,
         Scan, Drain, DrainGet, Drop, Drained, SegFail, SegFirst, SegPut, SegRef, SegNext, SegEnd,
         HalBusy, HalLock, Give, Resume, Unlock, Finish, descs, dmaVars, Fill

(* A descriptor the driver gives to the DMA is one the DMA has done with.   *)
LEMMA GiveFree ==
  ASSUME Shape, NEW c \in Contexts, Give(c)
  PROVE  /\ own[txDesc] = "cpu" /\ tx[c].frame # NoFrame /\ pc[c] = "give"
         /\ tx[c].given \in Nat /\ tx[c].bufcount \in 0 .. Capacity /\ tx[c].given < tx[c].bufcount
         /\ buf[txDesc] = tx[c].frame
<1>1. pc[c] = "give"
  BY DEF Give, Runs
<1>2. /\ tx[c].frame # NoFrame /\ tx[c].given < tx[c].bufcount
      /\ tx[c].given \in Nat /\ tx[c].bufcount \in 0 .. Capacity
  BY <1>1, Local, Constants DEF Shape, SendersOK, CountsOK, TypeOK
<1>3. 0 \in 0 .. Made(c) - 1
  BY <1>2, Constants DEF Made
<1>4. Up(txDesc, 0) = txDesc
  BY Ring DEF Shape, TypeOK
<1>5. own[Up(txDesc, 0)] = "cpu" /\ buf[Up(txDesc, 0)] = tx[c].frame
  BY <1>1, <1>2, <1>3 DEF Shape, MadeOK
<1> QED
  BY <1>1, <1>2, <1>4, <1>5

(* The ring is kept: the DMA takes its first descriptor, the driver adds    *)
(* one at its end.                                                          *)
LEMMA RingNext ==
  ASSUME Shape, [Next]_vars
  PROVE  RingOK'
<1>1. /\ txDesc \in Desc /\ dmaDesc \in Desc /\ own \in [Desc -> {"dma", "cpu"}]
      /\ Capacity \in Nat \ {0}
  BY Constants DEF Shape, TypeOK
<1>2. PICK n \in 0 .. Capacity :
        /\ txDesc = Up(dmaDesc, n)
        /\ \A d \in Desc : own[d] = "dma" <=> From(dmaDesc, d) < n
  BY DEF Shape, RingOK
<1>3. CASE own' = own /\ txDesc' = txDesc /\ dmaDesc' = dmaDesc
  <2>1. /\ txDesc' = Up(dmaDesc, n)'
        /\ \A d \in Desc : own'[d] = "dma" <=> From(dmaDesc, d)' < n
    BY <1>2, <1>3 DEF Up, From
  <2> QED
    BY <2>1 DEF RingOK
<1>4. ASSUME NEW m \in 0 .. Capacity, txDesc' = Up(dmaDesc', m),
             \A d \in Desc : own'[d] = "dma" <=> From(dmaDesc', d) < m
      PROVE  RingOK'
  BY <1>4 DEF RingOK, Up, From
<1>5. CASE DmaSend
  <2>1. /\ own[dmaDesc] = "dma" /\ own' = [own EXCEPT ![dmaDesc] = "cpu"]
        /\ dmaDesc' = Up(dmaDesc, 1) /\ txDesc' = txDesc
    BY <1>1, <1>5, Ring DEF DmaSend
  <2>2. From(dmaDesc, dmaDesc) = 0
    BY <1>1, Ring
  <2>3. n >= 1 /\ n - 1 \in 0 .. Capacity /\ n - 1 \in 0 .. Capacity - 1
    BY <1>1, <1>2, <2>1, <2>2
  <2>4. Up(Up(dmaDesc, 1), n - 1) = Up(dmaDesc, n)
    <3>1. Up(Up(dmaDesc, 1), n - 1) = Up(dmaDesc, (n - 1) + 1)
      BY <1>1, <2>3, Ring
    <3> QED
      BY <3>1
  <2>5. \A d \in Desc : own'[d] = "dma" <=> From(dmaDesc', d) < n - 1
    <3> SUFFICES ASSUME NEW d \in Desc
                 PROVE  own'[d] = "dma" <=> From(dmaDesc', d) < n - 1
      OBVIOUS
    <3>1. /\ From(dmaDesc', d) = IF d = dmaDesc THEN Capacity - 1 ELSE From(dmaDesc, d) - 1
          /\ From(dmaDesc, d) \in 0 .. Capacity - 1
      <4>1. /\ From(Up(dmaDesc, 1), d) = IF d = dmaDesc THEN Capacity - 1 ELSE From(dmaDesc, d) - 1
            /\ From(dmaDesc, d) \in 0 .. Capacity - 1
        BY <1>1, Ring
      <4>2. From(dmaDesc', d) = From(Up(dmaDesc, 1), d)
        BY <2>1
      <4> QED
        BY <4>1, <4>2
    <3>2. own[d] = "dma" <=> From(dmaDesc, d) < n
      BY <1>2
    <3> QED
      BY <1>1, <2>1, <3>1, <3>2
  <2> QED
    BY <1>2, <1>4, <2>1, <2>3, <2>4, <2>5
<1>6. ASSUME NEW c \in Contexts, Give(c)
      PROVE  RingOK'
  <2>1. /\ own[txDesc] = "cpu" /\ own' = [own EXCEPT ![txDesc] = "dma"]
        /\ txDesc' = Up(txDesc, 1) /\ dmaDesc' = dmaDesc
    <3>1. own[txDesc] = "cpu"
      BY <1>6, GiveFree
    <3>2. own' = [own EXCEPT ![txDesc] = "dma"] /\ txDesc' = Next_(txDesc) /\ dmaDesc' = dmaDesc
      BY <1>6 DEF Give, dmaVars
    <3> QED
      BY <1>1, <3>1, <3>2, Ring
  <2>2. n # Capacity
    <3>1. From(dmaDesc, txDesc) < Capacity
      BY <1>1, Ring
    <3>2. From(dmaDesc, txDesc) < n => own[txDesc] = "dma"
      BY <1>1, <1>2
    <3> QED
      BY <2>1, <3>1, <3>2
  <2>3. n \in 0 .. Capacity - 1 /\ n + 1 \in 0 .. Capacity
    BY <1>1, <2>2
  <2>4. txDesc' = Up(dmaDesc, n + 1) /\ From(dmaDesc, txDesc) = n
    BY <1>1, <1>2, <2>1, <2>3, Ring
  <2>5. \A d \in Desc : own'[d] = "dma" <=> From(dmaDesc, d) < n + 1
    <3> SUFFICES ASSUME NEW d \in Desc
                 PROVE  own'[d] = "dma" <=> From(dmaDesc, d) < n + 1
      OBVIOUS
    <3>1. From(dmaDesc, d) \in 0 .. Capacity - 1 /\ (From(dmaDesc, d) = n => d = txDesc)
      BY <1>1, <1>2, Ring
    <3>2. own[d] = "dma" <=> From(dmaDesc, d) < n
      BY <1>2
    <3> QED
      BY <1>1, <2>1, <2>4, <3>1, <3>2
  <2> QED
    BY <1>4, <2>1, <2>3, <2>4, <2>5
<1> QED
  BY <1>3, <1>5, <1>6, RingSteps

(* What a call has made stays made until it gives it away.                  *)
LEMMA MadeNext ==
  ASSUME Shape, [Next]_vars
  PROVE  MadeOK'
<1>1. TypeOK /\ CountsOK /\ SendersOK /\ MadeOK
  BY DEF Shape
<1>2. /\ txDesc \in Desc /\ dmaDesc \in Desc /\ own \in [Desc -> {"dma", "cpu"}]
      /\ buf \in [Desc -> Frames \cup {NoFrame}] /\ Capacity \in Nat \ {0} /\ "eth" \in Contexts
  BY <1>1, Constants DEF TypeOK
<1>3. \A d \in Contexts : /\ tx[d].bufcount \in 0 .. Capacity /\ tx[d].given \in 0 .. Capacity
                          /\ tx[d].clen \in Nat /\ tx[d].desc \in Desc
  BY <1>1, Local DEF TypeOK, CountsOK
<1> DEFINE Ready(d) == tx[d].frame # NoFrame /\ pc[d] \in {"seg", "put", "ref", "lock", "give"}
           Laid(d) == /\ \A k \in 0 .. Made(d) - 1 : own[Up(txDesc, k)] = "cpu" /\ buf[Up(txDesc, k)] = tx[d].frame
                      /\ pc[d] # "give" => tx[d].desc = Up(txDesc, tx[d].bufcount)
                      /\ pc[d] \in {"put", "ref"} => own[tx[d].desc] = "cpu"
<1>4. \A d \in Contexts : Ready(d) => Laid(d)
  BY <1>1 DEF MadeOK
<1>5. (\A d \in Contexts : Ready(d)' => Laid(d)') => MadeOK'
  BY DEF MadeOK
<1>6. \A d \in Contexts : Ready(d) => Made(d) \in 0 .. Capacity /\ Made(d) <= Capacity
  BY <1>1, <1>2, <1>3 DEF CountsOK, Made
(* Descriptors that stay with the driver, or come back to it.               *)
<1>7. ASSUME NEW d \in Contexts, tx'[d] = tx[d], pc'[d] = pc[d], txDesc' = txDesc, buf' = buf,
             \A i \in Desc : own[i] = "cpu" => own'[i] = "cpu"
      PROVE  Ready(d)' => Laid(d)'
  <2> SUFFICES ASSUME Ready(d)'
               PROVE  Laid(d)'
    OBVIOUS
  <2>1. Ready(d) /\ Laid(d)
    BY <1>4, <1>7
  <2>2. \A k \in 0 .. Made(d) - 1 : Up(txDesc, k) \in Desc
    <3>1. \A k \in 0 .. Made(d) - 1 : k \in 0 .. Capacity
      BY <1>2, <1>6, <2>1
    <3> QED
      BY <1>2, <3>1, Ring
  <2>3. Made(d)' = Made(d) /\ \A k \in 0 .. Made(d) - 1 : Up(txDesc, k)' = Up(txDesc, k)
    BY <1>7 DEF Made, Up
  <2>4. \A k \in 0 .. Made(d)' - 1 : own'[Up(txDesc, k)'] = "cpu" /\ buf'[Up(txDesc, k)'] = tx'[d].frame
    BY <1>7, <2>1, <2>2, <2>3
  <2>5. Up(txDesc, tx[d].bufcount)' = Up(txDesc, tx[d].bufcount)
    BY <1>7 DEF Up
  <2> QED
    BY <1>3, <1>7, <2>1, <2>4, <2>5
<1>8. CASE DmaSend \/ DmaSuspend \/ DmaUnderflow \/ LwipFree \/ IrqUnlock \/ UNCHANGED vars
  <2>1. /\ tx' = tx /\ pc' = pc /\ txDesc' = txDesc /\ buf' = buf
        /\ \A i \in Desc : own[i] = "cpu" => own'[i] = "cpu"
    BY <1>2, <1>8 DEF DmaSend, DmaSuspend, DmaUnderflow, LwipFree, IrqUnlock, vars, descs
  <2> HIDE DEF Ready, Laid
  <2> QED
    BY <1>5, <1>7, <2>1
<1>9. CASE EthOutput \/ RxLock \/ RxUnlock
  <2>1. own' = own /\ txDesc' = txDesc /\ buf' = buf
    BY <1>9 DEF EthOutput, RxLock, RxUnlock, descs
  <2>2. ~Ready("eth")' /\ \A d \in Contexts \ {"eth"} : tx'[d] = tx[d] /\ pc'[d] = pc[d]
    BY <1>1, <1>9, EthEffects DEF Goes
  <2> HIDE DEF Ready, Laid
  <2> QED
    BY <1>5, <1>7, <2>1, <2>2
<1>10. ASSUME NEW c \in Contexts, SendCall(c)
       PROVE  MadeOK'
  <2>1. own' = own /\ txDesc' = txDesc /\ buf' = buf
    BY <1>10 DEF SendCall, descs
  <2>2. ~Ready(c)' /\ \A d \in Contexts \ {c} : tx'[d] = tx[d] /\ pc'[d] = pc[d]
    BY <1>1, <1>10, SendEffects DEF Goes
  <2> HIDE DEF Ready, Laid
  <2> QED
    BY <1>5, <1>7, <2>1, <2>2
<1>11. ASSUME NEW c \in Contexts, Output(c)
       PROVE  MadeOK'
  <2>1. Effect(c) /\ \A d \in Contexts \ {c} : tx'[d] = tx[d] /\ pc'[d] = pc[d]
    BY <1>1, <1>11, Effects
  <2>2. tx[c].frame = NoFrame => pc[c] \notin {"put", "ref", "give", "tbus"} /\ tx[c].clen = 0 /\ tx[c].bufcount = 0
    BY <1>1, <1>3 DEF SendersOK, CountsOK
  <2>3. CASE SegRef(c) \/ SegNext(c)
    <3>1. /\ tx[c].frame # NoFrame /\ tx[c].given = 0 /\ Ready(c) /\ Laid(c) /\ tx[c].bufcount < Capacity
      <4>1. pc[c] \in {"ref", "seg"} /\ tx[c].bufcount < tx[c].clen /\ tx[c].frame # NoFrame
        <5>1. pc[c] = "ref" => tx[c].bufcount = 0 /\ tx[c].frame # NoFrame /\ tx[c].clen > 0
          BY <1>1, <2>2 DEF CountsOK, SendersOK
        <5> QED
          BY <1>3, <2>1, <2>2, <2>3, <5>1 DEF Effect
      <4>2. tx[c].given = 0 /\ tx[c].clen <= Capacity
        BY <1>1, <4>1 DEF CountsOK
      <4>3. Ready(c) /\ Laid(c)
        BY <1>4, <4>1
      <4> QED
        BY <1>2, <1>3, <4>1, <4>2, <4>3
    <3>2. own[tx[c].desc] = "cpu" /\ tx[c].desc = Up(txDesc, tx[c].bufcount)
      <4>1. SegNext(c) => own[tx[c].desc] = "cpu" /\ pc[c] = "seg"
        BY DEF SegNext, NextSeg, Available, Runs
      <4>2. SegRef(c) => pc[c] = "ref"
        BY DEF SegRef, Runs
      <4> QED
        BY <2>3, <3>1, <4>1, <4>2
    <3>3. /\ own' = own /\ txDesc' = txDesc
          /\ buf' = [buf EXCEPT ![Up(txDesc, tx[c].bufcount)] = tx[c].frame]
      BY <2>3, <3>2 DEF SegRef, SegNext, Fill
    <3>4. /\ pc'[c] = "seg" /\ tx'[c].given = 0 /\ tx'[c].frame = tx[c].frame
          /\ tx'[c].bufcount = tx[c].bufcount + 1 /\ tx'[c].desc = Next_(tx[c].desc)
      BY <2>1, <2>3, <3>1 DEF Effect, Same
    <3>5. tx'[c].desc = Up(txDesc, tx'[c].bufcount)
      <4>1. Up(Up(txDesc, tx[c].bufcount), 1) = Up(txDesc, tx[c].bufcount + 1)
        <5>1. tx[c].bufcount \in 0 .. Capacity - 1
          BY <1>2, <1>3, <3>1
        <5> QED
          BY <1>2, <5>1, Ring
      <4> QED
        BY <1>3, <3>2, <3>4, <4>1, Ring
    <3>6. Made(c) = tx[c].bufcount /\ Made(c)' = tx[c].bufcount + 1
      BY <1>3, <3>1, <3>4 DEF Made
    <3>7. \A k \in 0 .. tx[c].bufcount : /\ own[Up(txDesc, k)] = "cpu" /\ Up(txDesc, k) \in Desc
                                         /\ k # tx[c].bufcount => buf[Up(txDesc, k)] = tx[c].frame
      <4> SUFFICES ASSUME NEW k \in 0 .. tx[c].bufcount
                   PROVE  /\ own[Up(txDesc, k)] = "cpu" /\ Up(txDesc, k) \in Desc
                          /\ k # tx[c].bufcount => buf[Up(txDesc, k)] = tx[c].frame
        OBVIOUS
      <4>1. k \in 0 .. Capacity /\ (k # tx[c].bufcount => k \in 0 .. Made(c) - 1)
        BY <1>2, <1>3, <3>6
      <4>2. Up(txDesc, k) \in Desc
        BY <1>2, <4>1, Ring
      <4> QED
        BY <3>1, <3>2, <4>1, <4>2
    <3>8. \A k \in 0 .. tx[c].bufcount : own'[Up(txDesc, k)] = "cpu" /\ buf'[Up(txDesc, k)] = tx[c].frame
      BY <1>2, <3>3, <3>7
    <3>9. Laid(c)'
      <4>1. \A k \in 0 .. Made(c)' - 1 : own'[Up(txDesc, k)'] = "cpu" /\ buf'[Up(txDesc, k)'] = tx'[c].frame
        <5>1. \A k \in 0 .. Made(c)' - 1 : k \in 0 .. tx[c].bufcount /\ Up(txDesc, k)' = Up(txDesc, k)
          BY <1>3, <3>3, <3>6 DEF Up
        <5> QED
          BY <3>4, <3>8, <5>1
      <4>2. Up(txDesc, tx[c].bufcount)' = Up(txDesc, tx'[c].bufcount)
        BY <3>3 DEF Up
      <4> QED
        BY <3>4, <3>5, <4>1, <4>2
    <3>10. \A d \in Contexts \ {c} : ~Ready(d)'
      BY <1>1, <2>1, <3>1 DEF SendersOK
    <3> QED
      BY <1>5, <3>9, <3>10
  <2>4. CASE Give(c)
    <3>1. /\ tx[c].frame # NoFrame /\ pc[c] = "give" /\ Laid(c) /\ Ready(c)
          /\ tx[c].given < tx[c].bufcount
      BY <1>4, <2>4, GiveFree
    <3>2. /\ own' = [own EXCEPT ![txDesc] = "dma"] /\ txDesc' = Up(txDesc, 1) /\ buf' = buf
      <4>1. own' = [own EXCEPT ![txDesc] = "dma"] /\ txDesc' = Next_(txDesc) /\ buf' = buf
        BY <2>4 DEF Give
      <4> QED
        BY <1>2, <4>1, Ring
    <3>3. \A d \in Contexts \ {c} : ~Ready(d)'
      BY <1>1, <2>1, <3>1 DEF SendersOK
    <3>4. /\ pc'[c] \in {"give", "tbus"} /\ tx'[c].frame = tx[c].frame /\ tx'[c].given = tx[c].given + 1
          /\ tx'[c].bufcount = tx[c].bufcount
      BY <2>1, <2>4 DEF Effect, Same
    <3>5. Made(c)' = Made(c) - 1 /\ Made(c) \in 1 .. Capacity
      BY <1>2, <1>3, <3>1, <3>4 DEF Made
    <3>6. \A k \in 0 .. Made(c)' - 1 : own'[Up(txDesc, k)'] = "cpu" /\ buf'[Up(txDesc, k)'] = tx'[c].frame
      <4> SUFFICES ASSUME NEW k \in 0 .. Made(c)' - 1
                   PROVE  own'[Up(txDesc, k)'] = "cpu" /\ buf'[Up(txDesc, k)'] = tx'[c].frame
        OBVIOUS
      <4>1. /\ k \in 0 .. Capacity - 1 /\ k + 1 \in 0 .. Capacity - 1 /\ k + 1 \in 0 .. Made(c) - 1
            /\ 0 \in 0 .. Capacity - 1 /\ k + 1 # 0 /\ k + 1 \in 0 .. Capacity
        BY <1>2, <3>5
      <4>2. Up(txDesc, k)' = Up(Up(txDesc, 1), k)
        BY <3>2 DEF Up
      <4>3. Up(Up(txDesc, 1), k) = Up(txDesc, k + 1) /\ Up(txDesc, k + 1) \in Desc /\ Up(txDesc, 0) = txDesc
        BY <1>2, <4>1, Ring
      <4>4. Up(txDesc, k + 1) # txDesc
        BY <1>2, <4>1, <4>3, Ring
      <4>5. own[Up(txDesc, k + 1)] = "cpu" /\ buf[Up(txDesc, k + 1)] = tx[c].frame
        BY <3>1, <4>1
      <4> QED
        BY <1>2, <3>2, <3>4, <4>2, <4>3, <4>4, <4>5
    <3>7. Ready(c)' => Laid(c)'
      BY <3>4, <3>6
    <3> QED
      BY <1>5, <3>3, <3>7
  <2>5. CASE ~(SegRef(c) \/ SegNext(c)) /\ ~Give(c)
    <3>1. own' = own /\ txDesc' = txDesc /\ buf' = buf
      BY <1>11, <2>5 DEF Output, Scan, Drain, DrainGet, Drop, Drained, SegFail, SegFirst, SegPut,
         SegEnd, HalBusy, HalLock, Resume, Unlock, Finish, descs
    <3>2. \A d \in Contexts \ {c} : Ready(d)' => Laid(d)'
      <4> HIDE DEF Ready, Laid
      <4> QED
        BY <1>7, <2>1, <3>1
    <3>3. CASE Drained(c)
      <4>1. /\ pc[c] = "drain" /\ Same(c) /\ Counts(c)
            /\ pc'[c] = "tus" \/ (pc'[c] = "seg" /\ tx'[c].desc = txDesc)
        BY <2>1, <3>3 DEF Effect
      <4>2. tx'[c].bufcount = 0 /\ tx'[c].given = 0
        BY <1>1, <4>1 DEF CountsOK, Counts
      <4>3. Made(c)' = 0
        BY <4>2 DEF Made
      <4>4. Up(txDesc, tx[c].bufcount)' = txDesc
        BY <1>2, <3>1, <4>2, Ring DEF Up
      <4>5. Ready(c)' => Laid(c)'
        BY <4>1, <4>3, <4>4
      <4> QED
        BY <1>5, <3>2, <4>5
    <3>4. CASE ~Drained(c)
      <4>1. Ready(c)' => /\ Ready(c) /\ Counts(c) /\ tx'[c].frame = tx[c].frame
                         /\ pc'[c] # "give" => tx'[c].desc = tx[c].desc /\ pc[c] # "give"
                         /\ pc'[c] \in {"put", "ref"} => pc[c] = "put" \/ own[tx[c].desc] = "cpu"
        BY <1>1, <1>11, <2>1, <2>2, <2>5, <3>4, EthEffects DEF Effect, Output, Same, Counts, Goes
      <4> SUFFICES ASSUME Ready(c)'
                   PROVE  Laid(c)'
        BY <1>5, <3>2
      <4>2. Laid(c) /\ Made(c)' = Made(c) /\ tx'[c].frame = tx[c].frame /\ tx'[c].bufcount = tx[c].bufcount
        BY <1>4, <4>1 DEF Made, Counts
      <4>3. \A k \in 0 .. Made(c)' - 1 : own'[Up(txDesc, k)'] = "cpu" /\ buf'[Up(txDesc, k)'] = tx'[c].frame
        <5>1. \A k \in 0 .. Made(c) - 1 : Up(txDesc, k)' = Up(txDesc, k)
          BY <3>1 DEF Up
        <5> QED
          BY <3>1, <4>2, <5>1
      <4>4. Up(txDesc, tx[c].bufcount)' = Up(txDesc, tx[c].bufcount)
        BY <3>1, <4>2 DEF Up
      <4> QED
        BY <3>1, <4>1, <4>2, <4>3, <4>4
    <3> QED
      BY <3>3, <3>4
  <2> QED
    BY <2>3, <2>4, <2>5
<1> QED
  <2> HIDE DEF Ready, Laid
  <2> QED
    BY <1>8, <1>9, <1>10, <1>11 DEF Next

-----------------------------------------------------------------------------
(* Without the call of ethernet_thread, a call of low_level_output is alone.*)
LEMMA Lone ==
  ASSUME Shape, Alone, NEW c \in Contexts, pc[c] \notin {"idle", "rx"}
  PROVE  /\ tx[c].frame \in Frames
         /\ \A d \in Contexts \ {c} : tx[d].frame = NoFrame /\ pc[d] \in {"idle", "rx"} /\ qpc[d] = "idle"
<1>1. tx[c].frame # NoFrame
  BY DEF Alone
<1>2. tx[c].frame \in Frames \cup {NoFrame}
  BY Local DEF Shape, TypeOK
<1>3. ASSUME NEW d \in Contexts \ {c}
      PROVE  tx[d].frame = NoFrame /\ pc[d] \in {"idle", "rx"} /\ qpc[d] = "idle"
  <2>1. tx[d].frame = NoFrame
    BY <1>1 DEF Shape, SendersOK
  <2>2. pc[d] \in {"idle", "rx"}
    BY <2>1 DEF Alone
  <2>3. qpc[d] \in Steps
    BY DEF Shape, TypeOK, QTypeOK
  <2> QED
    BY <2>1, <2>2, <2>3 DEF Alone, Steps
<1> QED
  BY <1>1, <1>2, <1>3

(* A context that is not in low_level_output is not in the queue.           *)
LEMMA NotQueueing ==
  ASSUME Shape, Alone, NEW d \in Contexts, pc[d] \notin {"get", "put"}
  PROVE  qpc[d] = "idle"
<1>1. qpc[d] \in Steps
  BY DEF Shape, TypeOK, QTypeOK
<1> QED
  BY <1>1 DEF Alone, Steps

(* The steps that change the queue, and those that lwIP takes.              *)
LEMMA QueueSteps ==
  ASSUME AllLocked, [Next]_vars
  PROVE  /\ ~EthOutput
         /\ \/ \E c \in Contexts : DrainGet(c) \/ SegFirst(c) \/ SegPut(c) \/ Drop(c)
            \/ txQueue' = txQueue
<1>1. ~EthOutput
  BY DEF AllLocked, EthOutput
<1> QED
  BY <1>1 DEF Next, vars, DmaSend, DmaSuspend, DmaUnderflow, LwipFree, EthOutput, RxLock, RxUnlock, IrqUnlock, SendCall,
         Output, Scan, Drain, DrainGet, Drop, Drained, SegFail, SegFirst, SegPut, SegRef, SegNext, SegEnd,
         HalBusy, HalLock, Give, Resume, Unlock, Finish

(* What a step of low_level_output does to its place in the queue.          *)
QueueEffect(c) ==
  /\ DrainGet(c) =>
       \/ qpc[c] = "idle" /\ pc'[c] = "get" /\ qpc'[c] = "get_item"
       \/ qpc[c] = "get_item" /\ pc'[c] = "get" /\ qpc'[c] = "get_front"
       \/ qpc[c] = "get_front" /\ pc'[c] = "get" /\ qpc'[c] = "get_cnt"
       \/ qpc[c] = "idle" /\ pc'[c] = "drop" /\ qpc'[c] = "idle" /\ IsEmpty
       \/ qpc[c] = "get_cnt" /\ pc'[c] = "drop" /\ qpc'[c] = "idle"
  /\ SegFirst(c) =>
       \/ qpc[c] = "idle" /\ pc'[c] = "put" /\ qpc'[c] = "put_rear" /\ ~IsFull
       \/ pc'[c] = "tus" /\ qpc'[c] = qpc[c]
  /\ SegPut(c) =>
       \/ qpc[c] = "put_rear" /\ pc'[c] = "put" /\ qpc'[c] = "put_slot"
       \/ qpc[c] = "put_slot" /\ pc'[c] = "put" /\ qpc'[c] = "put_cnt"
       \/ qpc[c] = "put_cnt" /\ pc'[c] = "ref" /\ qpc'[c] = "idle"
  /\ ~(DrainGet(c) \/ SegFirst(c) \/ SegPut(c)) => qpc'[c] = qpc[c]

(* These are the steps of queue_put and queue_get, of one context only.     *)
LEMMA QueueEffects ==
  ASSUME Shape, NEW c \in Contexts, Output(c)
  PROVE  QueueEffect(c) /\ \A d \in Contexts \ {c} : qpc'[d] = qpc[d] /\ qitem'[d] = qitem[d]
<1>1. qpc \in [Contexts -> Steps] /\ pc \in [Contexts -> PcSteps] /\ qitem \in [Contexts -> Items \cup {NoItem}]
  BY DEF Shape, TypeOK, QTypeOK
<1>2. CASE DrainGet(c)
  <2>1. pc[c] = "get"
    BY <1>2 DEF DrainGet, Runs
  <2>2. /\ \/ qpc[c] = "idle" /\ pc'[c] = "get" /\ qpc'[c] = "get_item"
           \/ qpc[c] = "get_item" /\ pc'[c] = "get" /\ qpc'[c] = "get_front"
           \/ qpc[c] = "get_front" /\ pc'[c] = "get" /\ qpc'[c] = "get_cnt"
           \/ qpc[c] = "idle" /\ pc'[c] = "drop" /\ qpc'[c] = "idle" /\ IsEmpty
           \/ qpc[c] = "get_cnt" /\ pc'[c] = "drop" /\ qpc'[c] = "idle"
        /\ \A d \in Contexts \ {c} : qpc'[d] = qpc[d] /\ qitem'[d] = qitem[d]
    BY <1>1, <1>2, <2>1 DEF DrainGet, GetCall, GetItem, GetFront, GetCount, GetNull, Goto, Jump
  <2>3. ~SegFirst(c) /\ ~SegPut(c)
    BY <2>1 DEF SegFirst, SegPut, NextSeg, Runs
  <2> QED
    BY <1>2, <2>2, <2>3 DEF QueueEffect
<1>3. CASE SegFirst(c)
  <2>1. pc[c] = "seg"
    BY <1>3 DEF SegFirst, NextSeg, Runs
  <2>2. /\ \/ qpc[c] = "idle" /\ pc'[c] = "put" /\ qpc'[c] = "put_rear" /\ ~IsFull
           \/ pc'[c] = "tus" /\ qpc'[c] = qpc[c]
        /\ \A d \in Contexts \ {c} : qpc'[d] = qpc[d] /\ qitem'[d] = qitem[d]
    BY <1>1, <1>3, <2>1 DEF SegFirst, PutCall, PutRefused, Goto, Jump, Fail, callVars
  <2>3. ~DrainGet(c) /\ ~SegPut(c)
    BY <2>1 DEF DrainGet, SegPut, Runs
  <2> QED
    BY <1>3, <2>2, <2>3 DEF QueueEffect
<1>4. CASE SegPut(c)
  <2>1. pc[c] = "put"
    BY <1>4 DEF SegPut, Runs
  <2>2. /\ \/ qpc[c] = "put_rear" /\ pc'[c] = "put" /\ qpc'[c] = "put_slot"
           \/ qpc[c] = "put_slot" /\ pc'[c] = "put" /\ qpc'[c] = "put_cnt"
           \/ qpc[c] = "put_cnt" /\ pc'[c] = "ref" /\ qpc'[c] = "idle"
        /\ \A d \in Contexts \ {c} : qpc'[d] = qpc[d] /\ qitem'[d] = qitem[d]
    BY <1>1, <1>4, <2>1 DEF SegPut, PutRear, PutSlot, PutCount, Goto, Jump
  <2>3. ~DrainGet(c) /\ ~SegFirst(c)
    BY <2>1 DEF DrainGet, SegFirst, NextSeg, Runs
  <2> QED
    BY <1>4, <2>2, <2>3 DEF QueueEffect
<1>5. CASE ~(DrainGet(c) \/ SegFirst(c) \/ SegPut(c))
  <2>1. qpc' = qpc /\ \A d \in Contexts \ {c} : qitem'[d] = qitem[d]
    BY <1>1, <1>5 DEF Output, Scan, Drain, Drop, Drained, SegFail, SegRef, SegNext, SegEnd,
       HalBusy, HalLock, Give, Resume, Unlock, Finish, txQueue, callVars
  <2> QED
    BY <1>5, <2>1 DEF QueueEffect
<1> QED
  BY <1>2, <1>3, <1>4, <1>5

(* Calls stay one at a time, and a call that empties the queue does so      *)
(* while the DMA has nothing to send.                                       *)
LEMMA AloneNext ==
  ASSUME Shape, Alone, AllLocked, [Next]_vars
  PROVE  Alone'
<1>1. TypeOK /\ CountsOK /\ SendersOK
  BY DEF Shape
<1>2. /\ txDesc \in Desc /\ own \in [Desc -> {"dma", "cpu"}] /\ "eth" \in Contexts
      /\ qpc \in [Contexts -> Steps] /\ pc \in [Contexts -> PcSteps]
  BY <1>1, Constants DEF TypeOK, QTypeOK
<1> DEFINE One(d) ==
    /\ pc[d] \notin {"idle", "rx"} => tx[d].frame # NoFrame
    /\ qpc[d] \in {"get_item", "get_front", "get_cnt"} => pc[d] = "get"
    /\ qpc[d] \in {"put_rear", "put_slot", "put_cnt"} <=> pc[d] = "put"
    /\ pc[d] \in {"get", "drop"} => tx[d].idle
           Idling(d) == pc[d] \in {"drain", "get", "drop"} /\ tx[d].idle => \A i \in Desc : own[i] = "cpu"
<1>3. \A d \in Contexts : One(d) /\ Idling(d)
  BY DEF Alone
<1>4. (\A d \in Contexts : One(d)' /\ Idling(d)') => Alone'
  BY DEF Alone
<1>5. \A d \in Contexts : tx'[d] = tx[d] /\ pc'[d] = pc[d] /\ qpc'[d] = qpc[d] => One(d)'
  BY <1>3
<1>6. ASSUME \A i \in Desc : own[i] = "cpu" => own'[i] = "cpu"
      PROVE  \A d \in Contexts : tx'[d] = tx[d] /\ pc'[d] = pc[d] => Idling(d)'
  BY <1>3, <1>6
<1>7. CASE DmaSend \/ DmaSuspend \/ DmaUnderflow \/ LwipFree \/ IrqUnlock \/ UNCHANGED vars
  <2>1. /\ tx' = tx /\ pc' = pc /\ qpc' = qpc
        /\ \A i \in Desc : own[i] = "cpu" => own'[i] = "cpu"
    BY <1>2, <1>7 DEF DmaSend, DmaSuspend, DmaUnderflow, LwipFree, IrqUnlock, vars, descs, txQueue, callVars
  <2> HIDE DEF One, Idling
  <2> QED
    BY <1>4, <1>5, <1>6, <2>1
<1>8. CASE RxLock \/ RxUnlock
  <2>1. own' = own /\ qpc' = qpc
    BY <1>8 DEF RxLock, RxUnlock, descs, txQueue, callVars
  <2>2. One("eth")' /\ Idling("eth")' /\ \A d \in Contexts \ {"eth"} : tx'[d] = tx[d] /\ pc'[d] = pc[d]
    BY <1>1, <1>2, <1>3, <1>8, <2>1, EthEffects DEF Goes
  <2> HIDE DEF One, Idling
  <2> QED
    BY <1>4, <1>5, <1>6, <2>1, <2>2
<1>9. ASSUME NEW c \in Contexts, SendCall(c)
      PROVE  Alone'
  <2>1. own' = own /\ qpc' = qpc
    BY <1>9 DEF SendCall, descs, txQueue, callVars
  <2>2. One(c)' /\ Idling(c)' /\ \A d \in Contexts \ {c} : tx'[d] = tx[d] /\ pc'[d] = pc[d]
    BY <1>1, <1>2, <1>3, <1>9, <2>1, SendEffects, Constants DEF Goes
  <2> HIDE DEF One, Idling
  <2> QED
    BY <1>4, <1>5, <1>6, <2>1, <2>2
<1>10. ASSUME NEW c \in Contexts, Output(c)
       PROVE  Alone'
  <2>1. Effect(c) /\ \A d \in Contexts \ {c} : tx'[d] = tx[d] /\ pc'[d] = pc[d]
    BY <1>1, <1>10, Effects
  <2>2. QueueEffect(c) /\ \A d \in Contexts \ {c} : qpc'[d] = qpc[d]
    BY <1>10, QueueEffects
  <2>3. pc[c] \notin {"idle", "rx"}
    BY <1>10, <2>1 DEF Output, Effect, Goes
  <2>4. \A d \in Contexts \ {c} : One(d)' /\ Idling(d)'
    <3>1. \A d \in Contexts \ {c} : pc'[d] \in {"idle", "rx"}
      BY <2>1, <2>3, Lone
    <3> QED
      BY <1>5, <2>1, <2>2, <3>1
  <2>5. One(c)' /\ Idling(c)'
    <3>1. tx[c].frame # NoFrame
      BY <1>3, <2>3
    <3>2. pc[c] \notin {"get", "put"} => qpc[c] = "idle"
      BY NotQueueing
    <3>3. ~Give(c) => own' = own
      BY <1>10 DEF Output, Scan, Drain, DrainGet, Drop, Drained, SegFail, SegFirst, SegPut, SegRef, SegNext,
         SegEnd, HalBusy, HalLock, Resume, Unlock, Finish, descs
    <3>4. CASE DrainGet(c) \/ SegFirst(c) \/ SegPut(c)
      <4>1. tx'[c].frame = tx[c].frame /\ (DrainGet(c) => tx'[c].idle = tx[c].idle)
        BY <2>1, <3>4 DEF Effect, Same
      <4>2. own' = own
        BY <3>4 DEF DrainGet, SegFirst, SegPut, descs
      <4>3. CASE DrainGet(c)
        BY <1>3, <2>1, <2>2, <3>1, <4>1, <4>2, <4>3 DEF Effect, QueueEffect
      <4>4. CASE SegFirst(c)
        BY <1>3, <2>1, <2>2, <3>1, <3>2, <4>1, <4>2, <4>4 DEF Effect, QueueEffect
      <4>5. CASE SegPut(c)
        BY <1>3, <2>1, <2>2, <3>1, <4>1, <4>2, <4>5 DEF Effect, QueueEffect
      <4> QED
        BY <3>4, <4>3, <4>4, <4>5
    <3>5. CASE ~(DrainGet(c) \/ SegFirst(c) \/ SegPut(c))
      <4>1. qpc'[c] = "idle"
        <5>1. pc[c] \notin {"get", "put"}
          BY <1>10, <2>1, <3>5 DEF Output, Effect, Goes
        <5> QED
          BY <2>2, <3>2, <3>5, <5>1 DEF QueueEffect
      <4>2. CASE Scan(c) \/ Drain(c) \/ Drop(c)
        BY <1>3, <2>1, <3>1, <3>3, <4>1, <4>2 DEF Effect, Goes, Same, Scan, Drain, Drop, descs
      <4>3. CASE Drained(c) \/ SegFail(c) \/ SegRef(c) \/ SegNext(c) \/ SegEnd(c)
        BY <2>1, <3>1, <4>1, <4>3 DEF Effect, Goes, Same
      <4>4. CASE HalBusy(c) \/ HalLock(c) \/ Give(c) \/ Resume(c) \/ Unlock(c) \/ Finish(c)
        BY <2>1, <3>1, <4>1, <4>4 DEF Effect, Goes, Same
      <4> QED
        BY <1>10, <3>5, <4>2, <4>3, <4>4 DEF Output
    <3> QED
      BY <3>4, <3>5
  <2> QED
    BY <1>4, <2>4, <2>5
<1>11. ~EthOutput
  BY QueueSteps
<1> QED
  <2> HIDE DEF One, Idling
  <2> QED
    BY <1>7, <1>8, <1>9, <1>10, <1>11 DEF Next

-----------------------------------------------------------------------------
(* The queue from inside: its counters and its oldest entry, which only     *)
(* the last statements of queue_put and queue_get move.                     *)
Put4(c) == SegPut(c) /\ PutCount(c)
Get4(c) == DrainGet(c) /\ GetCount(c)

(* Below the wrap is_full and is_empty say what they mean, and the slots of *)
(* the queue are slots.                                                     *)
LEMMA Counters ==
  ASSUME Shape, CountOK, Unwrapped
  PROVE  /\ put_cnt \in Int /\ get_cnt \in Int /\ get_cnt >= 0 /\ put_cnt < CntMod
         /\ Queued \in 0 .. Capacity /\ Count = Queued
         /\ IsFull <=> Queued = Capacity
         /\ IsEmpty <=> Queued = 0
         /\ Oldest \in Slots /\ rear \in Slots /\ front \in Slots
<1>1. /\ put_cnt \in Int /\ put_cnt >= 0 /\ get_cnt \in Int /\ get_cnt >= 0
      /\ put_cnt <= PutLimit /\ get_cnt <= put_cnt /\ Queued <= Capacity
      /\ PutLimit \in Int /\ CntMod \in Int /\ PutLimit < CntMod
      /\ rear \in Slots /\ front \in Slots /\ Capacity \in Nat \ {0}
  BY Constants DEF Shape, TypeOK, QTypeOK, CountOK, Unwrapped
<1>2. /\ Queued \in 0 .. Capacity /\ Count = Queued
      /\ IsFull <=> Queued = Capacity
      /\ IsEmpty <=> Queued = 0
  BY <1>1 DEF Queued, Count, IsFull, IsEmpty
<1>3. Oldest \in Slots
  BY <1>1, Around DEF Oldest
<1> QED
  BY <1>1, <1>2, <1>3

(* What moves when queue_get has counted an entry as gone, or queue_put one *)
(* as there; and that nothing does otherwise.                               *)
LEMMA Moves ==
  ASSUME Shape, Alone, CountOK, Unwrapped, AllLocked, [Next]_vars
  PROVE  /\ \A c \in Contexts : Get4(c) =>
              /\ Queued \in 1 .. Capacity /\ Queued' = Queued - 1 /\ Oldest' = Up(Oldest, 1)
              /\ put_cnt' = put_cnt /\ get_cnt' = get_cnt + 1 /\ array' = array /\ rear' = rear /\ qitem' = qitem
              /\ pc[c] = "get" /\ qpc[c] = "get_cnt" /\ pc'[c] = "drop"
         /\ \A c \in Contexts : Put4(c) =>
              /\ Queued \in 0 .. Capacity - 1 /\ Queued' = Queued + 1 /\ Oldest' = Oldest
              /\ put_cnt' = put_cnt + 1 /\ get_cnt' = get_cnt /\ array' = array /\ rear' = rear
              /\ pc[c] = "put" /\ qpc[c] = "put_cnt" /\ pc'[c] = "ref" /\ put_cnt < PutLimit
         /\ \/ \E c \in Contexts : Get4(c) \/ Put4(c)
            \/ Queued' = Queued /\ Oldest' = Oldest /\ put_cnt' = put_cnt /\ get_cnt' = get_cnt
<1>1. /\ put_cnt \in Int /\ get_cnt \in Int /\ get_cnt >= 0 /\ put_cnt < CntMod
      /\ Queued \in 0 .. Capacity
      /\ Oldest \in Slots /\ rear \in Slots /\ front \in Slots
      /\ Capacity \in Nat \ {0} /\ CntMod \in Nat
      /\ qpc \in [Contexts -> Steps]
  BY Counters, Constants DEF Shape, TypeOK, QTypeOK
<1>2. /\ (front + Capacity - 1) % Capacity = Up(front, Capacity - 1) /\ Up(Up(front, Capacity - 1), 1) = front
      /\ Next_(front) = Up(front, 1) /\ Up(Up(front, 1), Capacity - 1) = front
      /\ Up(front, 1) \in Slots
      /\ (Up(front, 1) + Capacity - 1) % Capacity = Up(Up(front, 1), Capacity - 1)
  <2>1. Up(front, 1) \in Slots
    BY <1>1, Around
  <2> QED
    BY <1>1, <2>1, Around
<1>3. ASSUME NEW c \in Contexts, Get4(c)
      PROVE  /\ Queued \in 1 .. Capacity /\ Queued' = Queued - 1 /\ Oldest' = Up(Oldest, 1)
             /\ put_cnt' = put_cnt /\ get_cnt' = get_cnt + 1 /\ array' = array /\ rear' = rear /\ qitem' = qitem
             /\ pc[c] = "get" /\ qpc[c] = "get_cnt" /\ pc'[c] = "drop"
  <2>1. /\ pc[c] = "get" /\ qpc[c] = "get_cnt" /\ get_cnt' = (get_cnt + 1) % CntMod
        /\ qpc' = [qpc EXCEPT ![c] = "idle"] /\ front' = front /\ put_cnt' = put_cnt
        /\ array' = array /\ rear' = rear /\ qitem' = qitem
    BY <1>3 DEF Get4, DrainGet, GetCount, Runs, Goto
  <2>2. Queued \in 1 .. Capacity
    BY <1>1, <2>1 DEF CountOK
  <2>3. get_cnt' = get_cnt + 1
    <3>1. get_cnt + 1 < CntMod
      BY <1>1, <2>2 DEF Queued
    <3> QED
      BY <2>1, <3>1, Wraps DEF Shape, TypeOK
  <2>4. Queued' = Queued - 1
    BY <1>1, <2>1, <2>3 DEF Queued
  <2>5. Oldest = Up(front, Capacity - 1)
    BY <1>2, <2>1 DEF Oldest
  <2>6. \A d \in Contexts : qpc'[d] = "idle"
    BY <1>1, <2>1, Lone
  <2>7. Oldest' = front
    BY <2>1, <2>6 DEF Oldest
  <2>8. pc'[c] = "drop"
    <3>1. Effect(c) /\ QueueEffect(c)
      BY <1>3, Effects, QueueEffects DEF Get4, Output, Shape
    <3> QED
      BY <1>3, <2>1, <3>1 DEF QueueEffect, Get4
  <2> QED
    BY <1>2, <2>1, <2>2, <2>3, <2>4, <2>5, <2>7, <2>8
<1>4. ASSUME NEW c \in Contexts, Put4(c)
      PROVE  /\ Queued \in 0 .. Capacity - 1 /\ Queued' = Queued + 1 /\ Oldest' = Oldest
             /\ put_cnt' = put_cnt + 1 /\ get_cnt' = get_cnt /\ array' = array /\ rear' = rear
             /\ pc[c] = "put" /\ qpc[c] = "put_cnt" /\ pc'[c] = "ref" /\ put_cnt < PutLimit
  <2>1. /\ pc[c] = "put" /\ qpc[c] = "put_cnt" /\ put_cnt' = (put_cnt + 1) % CntMod
        /\ qpc' = [qpc EXCEPT ![c] = "idle"] /\ front' = front /\ get_cnt' = get_cnt
        /\ array' = array /\ rear' = rear
    BY <1>4 DEF Put4, SegPut, PutCount, Runs, Goto
  <2>2. Queued \in 0 .. Capacity - 1
    BY <1>1, <2>1 DEF CountOK
  <2>3. put_cnt < PutLimit
    <3>1. tx[c].frame # NoFrame /\ tx[c].bufcount = 0
      BY <2>1 DEF Shape, SendersOK, CountsOK
    <3> QED
      BY <2>1, <3>1 DEF CountOK
  <2>4. put_cnt' = put_cnt + 1
    <3>1. put_cnt + 1 < CntMod
      BY <1>1, <2>3, Constants DEF Unwrapped
    <3> QED
      BY <2>1, <3>1, Wraps DEF Shape, TypeOK
  <2>5. Queued' = Queued + 1
    BY <1>1, <2>1, <2>4 DEF Queued
  <2>6. Oldest' = Oldest
    <3>1. \A d \in Contexts : qpc'[d] = "idle" /\ qpc[d] # "get_cnt"
      BY <1>1, <2>1, Lone
    <3> QED
      BY <2>1, <3>1 DEF Oldest
  <2>7. pc'[c] = "ref"
    <3>1. Effect(c) /\ QueueEffect(c)
      BY <1>4, Effects, QueueEffects DEF Put4, Output, Shape
    <3> QED
      BY <1>4, <2>1, <3>1 DEF QueueEffect, Put4
  <2> QED
    BY <2>1, <2>2, <2>3, <2>4, <2>5, <2>6, <2>7
<1>5. ASSUME \A d \in Contexts : qpc'[d] = "get_cnt" <=> qpc[d] = "get_cnt",
             front' = front, put_cnt' = put_cnt, get_cnt' = get_cnt
      PROVE  Queued' = Queued /\ Oldest' = Oldest /\ put_cnt' = put_cnt /\ get_cnt' = get_cnt
  BY <1>5 DEF Oldest, Queued
<1>6. ASSUME txQueue' = txQueue
      PROVE  Queued' = Queued /\ Oldest' = Oldest /\ put_cnt' = put_cnt /\ get_cnt' = get_cnt
  <2>1. qpc' = qpc /\ front' = front /\ put_cnt' = put_cnt /\ get_cnt' = get_cnt
    BY <1>6 DEF txQueue, queueVars, callVars
  <2> QED
    BY <1>5, <2>1
<1>7. ASSUME NEW c \in Contexts, DrainGet(c) \/ SegFirst(c) \/ SegPut(c) \/ Drop(c), ~Get4(c), ~Put4(c)
      PROVE  Queued' = Queued /\ Oldest' = Oldest /\ put_cnt' = put_cnt /\ get_cnt' = get_cnt
  <2>1. CASE DrainGet(c) /\ GetFront(c)
    <3>1. /\ qpc[c] = "get_front" /\ qpc' = [qpc EXCEPT ![c] = "get_cnt"] /\ front' = Next_(front)
          /\ put_cnt' = put_cnt /\ get_cnt' = get_cnt /\ pc[c] = "get"
      BY <2>1 DEF DrainGet, GetFront, Goto, Runs
    <3>2. \A d \in Contexts : qpc[d] # "get_cnt"
      BY <3>1, Lone
    <3>3. Oldest = front /\ qpc'[c] = "get_cnt"
      BY <1>1, <3>1, <3>2 DEF Oldest
    <3>4. Oldest' = (front' + Capacity - 1) % Capacity
      BY <3>3 DEF Oldest
    <3> QED
      BY <1>2, <3>1, <3>3, <3>4 DEF Queued
  <2>2. CASE ~(DrainGet(c) /\ GetFront(c))
    <3>1. front' = front /\ put_cnt' = put_cnt /\ get_cnt' = get_cnt
      BY <1>7, <2>2 DEF Get4, Put4, DrainGet, SegFirst, SegPut, Drop, GetCall, GetNull, GetItem, PutCall, PutRefused, PutRear,
                        PutSlot, queueVars
    <3>2. \A d \in Contexts : qpc'[d] = "get_cnt" <=> qpc[d] = "get_cnt"
      BY <1>1, <1>7, <2>2 DEF Get4, Put4, DrainGet, SegFirst, SegPut, Drop, GetCall, GetNull, GetItem, PutCall, PutRefused,
                        PutRear, PutSlot, callVars, Goto
    <3> QED
      BY <1>5, <3>1, <3>2
  <2> QED
    BY <2>1, <2>2
<1> QED
  BY <1>3, <1>4, <1>6, <1>7, QueueSteps

(* The counters stay apart by what the queue holds.                         *)
LEMMA CountNext ==
  ASSUME Shape, Alone, CountOK, Unwrapped, AllLocked, [Next]_vars
  PROVE  CountOK'
<1>1. TypeOK /\ CountsOK /\ SendersOK
  BY DEF Shape
<1>2. /\ put_cnt \in Int /\ get_cnt \in Int /\ Queued \in 0 .. Capacity
      /\ PutLimit \in Int /\ Capacity \in Nat \ {0} /\ "eth" \in Contexts
      /\ put_cnt <= PutLimit /\ get_cnt <= put_cnt /\ Queued <= Capacity
      /\ IsFull <=> Queued = Capacity
      /\ IsEmpty <=> Queued = 0
  BY Counters, Constants DEF CountOK
<1> DEFINE Room(d) ==
       /\ tx[d].frame # NoFrame /\ tx[d].bufcount = 0 /\ pc[d] \notin {"ref", "tus"} => put_cnt < PutLimit
       /\ pc[d] = "put" => Queued < Capacity
       /\ pc[d] = "get" => Queued > 0
<1>3. \A d \in Contexts : Room(d)
  BY DEF CountOK
<1>4. ASSUME put_cnt' <= PutLimit, get_cnt' <= put_cnt', Queued' <= Capacity, \A d \in Contexts : Room(d)'
      PROVE  CountOK'
  BY <1>4 DEF CountOK
<1>5. \A d \in Contexts : tx'[d].frame = NoFrame /\ pc'[d] \in {"idle", "rx"} => Room(d)'
  OBVIOUS
<1>6. CASE \E c \in Contexts : Get4(c) \/ Put4(c)
  <2>1. PICK c \in Contexts : Get4(c) \/ Put4(c)
    BY <1>6
  <2>2. /\ pc[c] \in {"get", "put"} /\ tx' = tx
        /\ \A d \in Contexts \ {c} : pc'[d] = pc[d]
    BY <1>1, <2>1, Effects, Moves DEF Get4, Put4, Output, Effect
  <2>3. \A d \in Contexts \ {c} : Room(d)'
    BY <1>5, <2>2, Lone
  <2>4. CASE Get4(c)
    <3>1. /\ Queued \in 1 .. Capacity /\ Queued' = Queued - 1 /\ put_cnt' = put_cnt /\ get_cnt' = get_cnt + 1
          /\ pc[c] = "get" /\ pc'[c] = "drop"
      BY <2>4, Moves
    <3>2. Room(c)'
      BY <1>3, <2>2, <3>1
    <3>3. get_cnt' <= put_cnt'
      BY <1>2, <3>1 DEF Queued
    <3>4. put_cnt' <= PutLimit /\ Queued' <= Capacity
      BY <1>2, <3>1
    <3> HIDE DEF Room
    <3> QED
      BY <1>4, <2>3, <3>2, <3>3, <3>4
  <2>5. CASE Put4(c)
    <3>1. /\ Queued \in 0 .. Capacity - 1 /\ Queued' = Queued + 1 /\ put_cnt' = put_cnt + 1 /\ get_cnt' = get_cnt
          /\ put_cnt < PutLimit /\ pc'[c] = "ref"
      BY <2>5, Moves
    <3>2. Room(c)'
      BY <3>1
    <3>3. put_cnt' <= PutLimit /\ Queued' <= Capacity /\ get_cnt' <= put_cnt'
      BY <1>2, <3>1
    <3> HIDE DEF Room
    <3> QED
      BY <1>4, <2>3, <3>2, <3>3
  <2> QED
    BY <2>1, <2>4, <2>5
<1>7. CASE Queued' = Queued /\ put_cnt' = put_cnt /\ get_cnt' = get_cnt
  <2>1. ASSUME \A d \in Contexts : Room(d)'
        PROVE  CountOK'
    BY <1>2, <1>4, <1>7, <2>1
  <2>2. \A d \in Contexts : tx'[d] = tx[d] /\ pc'[d] = pc[d] => Room(d)'
    BY <1>3, <1>7
  <2>3. CASE DmaSend \/ DmaSuspend \/ DmaUnderflow \/ LwipFree \/ IrqUnlock \/ UNCHANGED vars
    <3>1. tx' = tx /\ pc' = pc
      BY <2>3 DEF DmaSend, DmaSuspend, DmaUnderflow, LwipFree, IrqUnlock, vars
    <3> HIDE DEF Room
    <3> QED
      BY <2>1, <2>2, <3>1
  <2>4. CASE RxLock \/ RxUnlock
    <3>1. tx' = tx /\ pc["eth"] \in {"idle", "rx"} /\ pc'["eth"] \in {"idle", "rx"} /\ \A d \in Contexts \ {"eth"} : pc'[d] = pc[d]
      BY <1>1, <2>4, EthEffects DEF Goes
    <3>2. tx'["eth"].frame = NoFrame
      BY <1>1, <1>2, <3>1 DEF SendersOK
    <3>3. Room("eth")'
      BY <1>2, <1>5, <3>1, <3>2
    <3> HIDE DEF Room
    <3> QED
      BY <2>1, <2>2, <3>1, <3>3
  <2>5. ASSUME NEW c \in Contexts, SendCall(c)
        PROVE  CountOK'
    <3>1. put_cnt < PutLimit
      BY <2>5 DEF SendCall
    <3>2. pc'[c] = "scan" /\ \A d \in Contexts \ {c} : tx'[d] = tx[d] /\ pc'[d] = pc[d]
      BY <1>1, <2>5, SendEffects DEF Goes
    <3>3. Room(c)'
      BY <1>7, <3>1, <3>2
    <3> HIDE DEF Room
    <3> QED
      BY <2>1, <2>2, <3>2, <3>3
  <2>6. ASSUME NEW c \in Contexts, Output(c)
        PROVE  CountOK'
    <3>1. Effect(c) /\ QueueEffect(c) /\ \A d \in Contexts \ {c} : tx'[d] = tx[d] /\ pc'[d] = pc[d]
      BY <1>1, <2>6, Effects, QueueEffects
    <3>2. Room(c) /\ pc[c] \notin {"idle", "rx"}
      BY <1>3, <2>6, <3>1 DEF Output, Effect, Goes
    <3>3. /\ tx[c].frame # NoFrame => tx[c].clen > 0
          /\ tx[c].clen \in Nat /\ tx[c].bufcount \in 0 .. Capacity
          /\ pc[c] \in {"lock", "give", "tbus", "unlock"} => tx[c].bufcount = tx[c].clen
          /\ tx[c].frame # NoFrame
          /\ pc[c] \in {"ref", "drop", "get", "put"} => tx[c].bufcount = 0
      BY <1>1, <3>2, Local, Lone, Constants DEF SendersOK, CountsOK, TypeOK
    <3>4. Room(c)'
      <4>1. CASE Scan(c) \/ Drained(c) \/ SegFail(c) \/ SegEnd(c) \/ Drop(c)
        BY <1>7, <3>1, <3>2, <3>3, <4>1 DEF Effect, Goes, Same, Counts
      <4>2. CASE Drain(c)
        <5>1. ~IsEmpty /\ pc'[c] = "get" /\ pc[c] = "drain" /\ tx' = tx
          BY <3>1, <4>2 DEF Drain, Effect, Goes
        <5> QED
          BY <1>2, <1>7, <3>2, <5>1
      <4>3. CASE DrainGet(c) \/ SegPut(c)
        BY <1>7, <3>1, <3>2, <3>3, <4>3 DEF Effect
      <4>4. CASE SegFirst(c)
        <5>1. /\ pc[c] = "seg" /\ tx'[c].frame = tx[c].frame /\ tx'[c].bufcount = tx[c].bufcount
              /\ pc'[c] = "tus" \/ (pc'[c] = "put" /\ ~IsFull)
          BY <3>1, <4>4 DEF Effect, QueueEffect, Same, Counts
        <5> QED
          BY <1>2, <1>7, <3>2, <5>1
      <4>5. CASE SegRef(c) \/ SegNext(c)
        <5>1. tx'[c].bufcount = tx[c].bufcount + 1 /\ pc'[c] = "seg"
          BY <3>1, <4>5 DEF Effect
        <5> QED
          BY <3>3, <5>1
      <4>6. CASE HalBusy(c) \/ HalLock(c) \/ Give(c) \/ Resume(c) \/ Unlock(c)
        <5>1. pc'[c] \in {"tus", "unlock", "give", "tbus"} /\ tx'[c].bufcount = tx[c].bufcount /\ tx[c].bufcount > 0
          BY <3>1, <3>3, <4>6 DEF Effect, Goes, Counts
        <5> QED
          BY <5>1
      <4>7. CASE Finish(c)
        BY <1>1, <3>1, <4>7, EthEffects DEF Effect, Goes
      <4> QED
        BY <2>6, <4>1, <4>2, <4>3, <4>4, <4>5, <4>6, <4>7 DEF Output
    <3> HIDE DEF Room
    <3> QED
      BY <2>1, <2>2, <3>1, <3>4
  <2> HIDE DEF Room
  <2> QED
    BY <2>3, <2>4, <2>5, <2>6, QueueSteps DEF Next
<1> HIDE DEF Room
<1> QED
  BY <1>6, <1>7, Moves

(* The slots in use, from step to step.                                     *)
LEMMA InUseNext ==
  ASSUME Shape, Alone, CountOK, QueueOK, Unwrapped, AllLocked, [Next]_vars
  PROVE  /\ \A c \in Contexts : Get4(c) =>
              InUse(Oldest) /\ Oldest \in Slots /\ \A s \in Slots : InUse(s)' <=> InUse(s) /\ s # Oldest
         /\ \A c \in Contexts : qpc[c] \in {"put_slot", "put_cnt"} => ~InUse(rear) /\ rear = Up(Oldest, Queued)
         /\ \A c \in Contexts : Put4(c) => \A s \in Slots : InUse(s)' <=> InUse(s) \/ s = rear
         /\ (~\E c \in Contexts : Get4(c) \/ Put4(c)) => \A s \in Slots : InUse(s)' <=> InUse(s)
<1>1. /\ Oldest \in Desc /\ Queued \in 0 .. Capacity /\ Capacity \in Nat \ {0} /\ Desc = Slots
      /\ \A s \in Slots : From(Oldest, s) \in 0 .. Capacity - 1
  <2>1. Oldest \in Desc /\ Desc = Slots
    BY Counters, Constants
  <2> QED
    BY <2>1, Counters, Constants, Ring
<1>2. ASSUME NEW c \in Contexts, Get4(c)
      PROVE  InUse(Oldest) /\ Oldest \in Slots /\ \A s \in Slots : InUse(s)' <=> InUse(s) /\ s # Oldest
  <2>1. Queued \in 1 .. Capacity /\ Queued' = Queued - 1 /\ Oldest' = Up(Oldest, 1)
    BY <1>2, Moves
  <2>2. From(Oldest, Oldest) = 0
    BY <1>1, Ring
  <2>3. ASSUME NEW s \in Slots
        PROVE  InUse(s)' <=> InUse(s) /\ s # Oldest
    <3>1. From(Up(Oldest, 1), s) = IF s = Oldest THEN Capacity - 1 ELSE From(Oldest, s) - 1
      BY <1>1, Ring
    <3>2. From(Oldest, s)' = From(Up(Oldest, 1), s)
      BY <2>1 DEF From
    <3> QED
      BY <1>1, <2>1, <3>1, <3>2 DEF InUse
  <2> QED
    BY <1>1, <2>1, <2>2, <2>3 DEF InUse
<1>3. ASSUME NEW c \in Contexts, qpc[c] \in {"put_slot", "put_cnt"}
      PROVE  /\ ~InUse(rear) /\ rear = Up(Oldest, Queued) /\ Queued \in 0 .. Capacity - 1
             /\ \A s \in Slots : From(Oldest, s) = Queued <=> s = rear
  <2>1. rear = Up(Oldest, Queued)
    BY <1>3 DEF QueueOK, Putting
  <2>2. Queued \in 0 .. Capacity - 1
    <3>1. pc[c] = "put"
      BY <1>3 DEF Alone
    <3> QED
      BY <1>1, <3>1 DEF CountOK
  <2>3. From(Oldest, rear) = Queued
    BY <1>1, <2>1, <2>2, Ring
  <2>4. \A s \in Slots : From(Oldest, s) = Queued => s = rear
    BY <1>1, <2>1, Ring
  <2>5. ~InUse(rear)
    BY <1>1, <2>3 DEF InUse
  <2> QED
    BY <2>1, <2>2, <2>3, <2>4, <2>5
<1>4. ASSUME NEW c \in Contexts, Put4(c)
      PROVE  \A s \in Slots : InUse(s)' <=> InUse(s) \/ s = rear
  <2>1. Queued' = Queued + 1 /\ Oldest' = Oldest /\ qpc[c] = "put_cnt"
    BY <1>4, Moves
  <2>2. \A s \in Slots : From(Oldest, s) = Queued <=> s = rear
    BY <1>3, <2>1
  <2>3. \A s \in Slots : From(Oldest, s)' = From(Oldest, s)
    BY <2>1 DEF From
  <2> QED
    BY <1>1, <2>1, <2>2, <2>3 DEF InUse
<1>5. ASSUME ~\E c \in Contexts : Get4(c) \/ Put4(c)
      PROVE  \A s \in Slots : InUse(s)' <=> InUse(s)
  <2>1. Queued' = Queued /\ Oldest' = Oldest
    BY <1>5, Moves
  <2> QED
    BY <2>1 DEF InUse, From
<1> QED
  BY <1>2, <1>3, <1>4, <1>5

(* queue_put and queue_get keep the fields of tx_free_queue in order.       *)
LEMMA QueueNext ==
  ASSUME Shape, Alone, CountOK, QueueOK, RefsOK, Unwrapped, AllLocked, [Next]_vars
  PROVE  QueueOK'
<1>1. /\ TypeOK /\ CountsOK /\ SendersOK /\ "eth" \in Contexts
      /\ qpc \in [Contexts -> Steps] /\ qitem \in [Contexts -> Items \cup {NoItem}]
      /\ array \in [Slots -> Items \cup {NoItem}] /\ rear \in Slots /\ Oldest \in Slots
      /\ Queued \in 0 .. Capacity /\ Capacity \in Nat \ {0}
  BY Counters, Constants DEF Shape, TypeOK, QTypeOK
<1> DEFINE Item(d) ==
       /\ pc[d] = "put" => qitem[d] = tx[d].frame
       /\ qpc[d] = "put_cnt" => array[rear] = qitem[d]
       /\ qpc[d] \in {"get_front", "get_cnt"} => qitem[d] = array[Oldest]
       /\ pc[d] = "drop" => qitem[d] \in Frames
           Rear == (IF Putting THEN rear ELSE Up(rear, 1)) = Up(Oldest, Queued)
<1>2. Rear /\ \A d \in Contexts : Item(d)
  BY DEF QueueOK
<1>3. ASSUME Rear', \A d \in Contexts : Item(d)'
      PROVE  QueueOK'
  BY <1>3 DEF QueueOK
<1>4. \A d \in Contexts : pc'[d] \notin {"put", "drop"} /\ qpc'[d] = "idle" => Item(d)'
  OBVIOUS
<1>5. ASSUME Queued' = Queued, Oldest' = Oldest, rear' = rear, Putting' <=> Putting
      PROVE  Rear'
  BY <1>2, <1>5 DEF Up
<1>6. CASE txQueue' = txQueue /\ ~\E c \in Contexts : Drop(c) \/ DrainGet(c) \/ SegFirst(c) \/ SegPut(c)
  <2>1. qpc' = qpc /\ qitem' = qitem /\ array' = array /\ rear' = rear
    BY <1>6 DEF txQueue, queueVars, callVars
  <2>2. Queued' = Queued /\ Oldest' = Oldest
    BY <1>6, Moves DEF Get4, Put4
  <2>3. Rear'
    BY <1>5, <2>1, <2>2 DEF Putting
  <2>4. \A d \in Contexts : tx'[d] = tx[d] /\ pc'[d] = pc[d] => Item(d)'
    BY <1>2, <2>1, <2>2
  <2>5. CASE DmaSend \/ DmaSuspend \/ DmaUnderflow \/ LwipFree \/ IrqUnlock \/ UNCHANGED vars
    <3>1. tx' = tx /\ pc' = pc
      BY <2>5 DEF DmaSend, DmaSuspend, DmaUnderflow, LwipFree, IrqUnlock, vars
    <3> HIDE DEF Item, Rear
    <3> QED
      BY <1>3, <2>3, <2>4, <3>1
  <2>6. CASE RxLock \/ RxUnlock
    <3>1. /\ tx' = tx /\ pc["eth"] \in {"idle", "rx"} /\ pc'["eth"] \in {"idle", "rx"}
          /\ \A d \in Contexts \ {"eth"} : pc'[d] = pc[d]
      BY <1>1, <2>6, EthEffects DEF Goes
    <3>2. qpc'["eth"] = "idle"
      BY <1>1, <2>1, <3>1, NotQueueing
    <3>3. Item("eth")'
      BY <1>1, <1>4, <3>1, <3>2
    <3> HIDE DEF Item, Rear
    <3> QED
      BY <1>3, <2>3, <2>4, <3>1, <3>3
  <2>7. ASSUME NEW c \in Contexts, SendCall(c)
        PROVE  QueueOK'
    <3>1. /\ pc[c] = "idle" /\ pc'[c] = "scan" /\ \A d \in Contexts \ {c} : tx'[d] = tx[d] /\ pc'[d] = pc[d]
      BY <1>1, <2>7, SendEffects DEF Goes
    <3>2. Item(c)'
      BY <1>4, <2>1, <3>1, NotQueueing
    <3> HIDE DEF Item, Rear
    <3> QED
      BY <1>3, <2>3, <2>4, <3>1, <3>2
  <2>8. ASSUME NEW c \in Contexts, Output(c)
        PROVE  QueueOK'
    <3>1. Effect(c) /\ \A d \in Contexts \ {c} : tx'[d] = tx[d] /\ pc'[d] = pc[d]
      BY <1>1, <2>8, Effects
    <3>2. pc[c] \notin {"get", "put"} /\ pc'[c] \notin {"put", "drop"}
      BY <1>6, <2>8, <3>1 DEF Output, Effect, Goes
    <3>3. Item(c)'
      BY <1>4, <2>1, <3>2, NotQueueing
    <3> HIDE DEF Item, Rear
    <3> QED
      BY <1>3, <2>3, <2>4, <3>1, <3>3
  <2> HIDE DEF Item, Rear
  <2> QED
    BY <2>5, <2>6, <2>7, <2>8, QueueSteps DEF Next
<1>7. ASSUME NEW c \in Contexts, DrainGet(c) \/ SegFirst(c) \/ SegPut(c) \/ Drop(c)
      PROVE  QueueOK'
  <2>1. /\ Effect(c) /\ \A d \in Contexts \ {c} : tx'[d] = tx[d] /\ pc'[d] = pc[d]
        /\ QueueEffect(c) /\ \A d \in Contexts \ {c} : qpc'[d] = qpc[d] /\ qitem'[d] = qitem[d]
    BY <1>1, <1>7, Effects, QueueEffects DEF Output
  <2>2. pc[c] \in {"get", "put", "seg", "drop"} /\ tx'[c].frame = tx[c].frame
    BY <1>7, <2>1 DEF Effect, Goes, Same
  <2>3. \A d \in Contexts \ {c} : Item(d)' /\ qpc[d] = "idle" /\ qpc'[d] = "idle"
    BY <1>4, <2>1, <2>2, Lone
  <2>4. /\ Putting <=> qpc[c] \in {"put_slot", "put_cnt"}
        /\ Putting' <=> qpc'[c] \in {"put_slot", "put_cnt"}
    BY <2>3 DEF Putting
  <2>5. pc[c] \notin {"get", "put"} => qpc[c] = "idle"
    BY NotQueueing
  <2>6. ASSUME Item(c)', Rear'
        PROVE  QueueOK'
    <3> HIDE DEF Item, Rear
    <3> QED
      BY <1>3, <2>3, <2>6
  <2>7. \A d \in Contexts : Get4(d) \/ Put4(d) => d = c /\ pc[c] \in {"get", "put"} /\ qpc[c] \in {"get_cnt", "put_cnt"}
    <3>1. \A d \in Contexts : Get4(d) \/ Put4(d) => qpc[d] \in {"get_cnt", "put_cnt"} /\ pc[d] \in {"get", "put"}
      BY Moves
    <3> QED
      BY <2>3, <3>1
  <2>8. CASE Drop(c)
    <3>1. qpc' = qpc /\ rear' = rear /\ pc'[c] = "drain" /\ pc[c] = "drop"
      BY <2>1, <2>8 DEF Drop, queueVars, Effect, Goes
    <3>2. qpc[c] = "idle" /\ ~\E d \in Contexts : Get4(d) \/ Put4(d)
      BY <2>5, <2>7, <3>1
    <3>3. Queued' = Queued /\ Oldest' = Oldest
      BY <3>2, Moves
    <3>4. Rear'
      BY <1>5, <3>1, <3>3 DEF Putting
    <3>5. Item(c)'
      BY <3>1, <3>2
    <3> QED
      BY <2>6, <3>4, <3>5
  <2>9. CASE SegFirst(c)
    <3>1. pc[c] = "seg" /\ qpc[c] = "idle" /\ ~\E d \in Contexts : Get4(d) \/ Put4(d)
      BY <2>1, <2>5, <2>7, <2>9 DEF Effect
    <3>2. /\ rear' = rear /\ array' = array
          /\ \/ pc'[c] = "put" /\ qpc'[c] = "put_rear" /\ qitem'[c] = tx[c].frame
             \/ pc'[c] = "tus" /\ qpc'[c] = "idle"
      <4>1. CASE PutCall(c, tx[c].frame) /\ Jump(c, "put")
        BY <1>1, <4>1 DEF PutCall, Jump, Goto, queueVars, TypeOK
      <4>2. CASE PutRefused(c) /\ Fail(c)
        BY <1>1, <3>1, <4>2 DEF PutRefused, Fail, Jump, queueVars, callVars, TypeOK
      <4> QED
        BY <2>9, <4>1, <4>2 DEF SegFirst
    <3>3. Queued' = Queued /\ Oldest' = Oldest
      BY <3>1, Moves
    <3>4. Rear'
      BY <1>5, <2>4, <3>1, <3>2, <3>3
    <3>5. Item(c)'
      BY <2>2, <3>2
    <3> QED
      BY <2>6, <3>4, <3>5
  <2>10. CASE DrainGet(c)
    <3>1. pc[c] = "get" /\ ~GetNull(c) /\ Queued \in 1 .. Capacity
      <4>1. pc[c] = "get"
        BY <2>1, <2>10 DEF Effect
      <4>2. Queued > 0
        BY <4>1 DEF CountOK
      <4>3. ~IsEmpty
        BY <1>1, <4>2, Counters
      <4> QED
        BY <1>1, <4>1, <4>2, <4>3 DEF GetNull
    <3>2. CASE Get4(c)
      <4>1. /\ Queued' = Queued - 1 /\ Oldest' = Up(Oldest, 1) /\ array' = array /\ rear' = rear
            /\ qitem' = qitem /\ qpc[c] = "get_cnt" /\ pc'[c] = "drop" /\ qpc'[c] = "idle"
        <5>1. qpc[c] = "get_cnt"
          BY <3>2, Moves
        <5>2. qpc'[c] = "idle"
          BY <1>1, <3>2 DEF Get4, GetCount, Goto
        <5> QED
          BY <3>2, <5>1, <5>2, Moves
      <4>2. qitem[c] \in Frames
        <5>1. qitem[c] = array[Oldest]
          BY <1>2, <4>1
        <5>2. InUse(Oldest)
          BY <3>2, InUseNext
        <5> QED
          BY <1>1, <5>1, <5>2 DEF RefsOK
      <4>3. Item(c)'
        BY <4>1, <4>2
      <4>4. Rear'
        <5>1. Up(rear, 1) = Up(Oldest, Queued)
          BY <1>2, <2>4, <4>1
        <5>2. Up(Up(Oldest, 1), Queued - 1) = Up(Oldest, (Queued - 1) + 1)
          <6>1. Queued - 1 \in 0 .. Capacity - 1
            BY <1>1, <3>1
          <6> QED
            BY <1>1, <6>1, Around
        <5>3. (Queued - 1) + 1 = Queued
          BY <1>1
        <5>4. Up(Oldest, Queued)' = Up(Up(Oldest, 1), Queued - 1) /\ Up(rear, 1)' = Up(rear, 1)
          BY <4>1 DEF Up
        <5> QED
          BY <2>4, <4>1, <5>1, <5>2, <5>3, <5>4
      <4> QED
        BY <2>6, <4>3, <4>4
    <3>3. CASE ~Get4(c)
      <4>1. /\ rear' = rear /\ array' = array /\ pc'[c] = "get"
            /\ \/ qpc[c] = "idle" /\ qpc'[c] = "get_item"
               \/ qpc[c] = "get_item" /\ qpc'[c] = "get_front" /\ qitem'[c] = array[front]
               \/ qpc[c] = "get_front" /\ qpc'[c] = "get_cnt" /\ qitem'[c] = qitem[c]
        BY <1>1, <2>10, <3>1, <3>3 DEF DrainGet, Get4, GetCall, GetItem, GetFront, queueVars, Goto, TypeOK
      <4>2. ~\E d \in Contexts : Get4(d) \/ Put4(d)
        BY <2>7, <3>3, <3>1, Moves
      <4>3. Queued' = Queued /\ Oldest' = Oldest
        BY <4>2, Moves
      <4>4. Rear'
        BY <1>5, <2>4, <4>1, <4>3
      <4>5. Item(c)'
        <5>1. qpc[c] = "get_item" => Oldest = front
          BY <2>3 DEF Oldest
        <5> QED
          BY <1>2, <4>1, <4>3, <5>1
      <4> QED
        BY <2>6, <4>4, <4>5
    <3> QED
      BY <3>2, <3>3
  <2>11. CASE SegPut(c)
    <3>1. pc[c] = "put" /\ qitem[c] = tx[c].frame
      BY <1>2, <2>1, <2>11 DEF Effect
    <3>2. CASE PutRear(c)
      <4>1. /\ qpc[c] = "put_rear" /\ rear' = Up(rear, 1) /\ array' = array /\ qitem' = qitem
            /\ qpc'[c] = "put_slot" /\ pc' = pc
        BY <1>1, <2>11, <3>2, Around DEF PutRear, SegPut, PutSlot, PutCount, Goto
      <4>2. Queued' = Queued /\ Oldest' = Oldest
        BY <2>7, <4>1, Moves
      <4>3. Rear'
        <5>1. Up(rear, 1) = Up(Oldest, Queued)
          BY <1>2, <2>4, <4>1
        <5>2. Up(Oldest, Queued)' = Up(Oldest, Queued)
          BY <4>2 DEF Up
        <5> QED
          BY <2>4, <4>1, <5>1, <5>2
      <4>4. Item(c)'
        BY <2>2, <3>1, <4>1
      <4> QED
        BY <2>6, <4>3, <4>4
    <3>3. CASE PutSlot(c)
      <4>1. /\ qpc[c] = "put_slot" /\ rear' = rear /\ array' = [array EXCEPT ![rear] = qitem[c]] /\ qitem' = qitem
            /\ qpc'[c] = "put_cnt" /\ pc' = pc
        BY <1>1, <2>11, <3>3 DEF PutRear, SegPut, PutSlot, PutCount, Goto
      <4>2. Queued' = Queued /\ Oldest' = Oldest
        BY <2>7, <4>1, Moves
      <4>3. Rear'
        BY <1>5, <2>4, <4>1, <4>2
      <4>4. Item(c)'
        BY <1>1, <2>2, <3>1, <4>1
      <4> QED
        BY <2>6, <4>3, <4>4
    <3>4. CASE PutCount(c)
      <4>1. Put4(c)
        BY <2>11, <3>4 DEF Put4
      <4>2. /\ Queued \in 0 .. Capacity - 1 /\ Queued' = Queued + 1 /\ Oldest' = Oldest /\ rear' = rear
            /\ qpc[c] = "put_cnt" /\ pc'[c] = "ref"
        BY <4>1, Moves
      <4>3. qpc'[c] = "idle"
        BY <1>1, <3>4 DEF PutCount, Goto
      <4>4. Rear'
        <5>1. rear = Up(Oldest, Queued)
          BY <1>2, <2>4, <4>2
        <5>2. Up(Up(Oldest, Queued), 1) = Up(Oldest, Queued + 1)
          BY <1>1, <4>2, Around
        <5>3. Up(Oldest, Queued)' = Up(Oldest, Queued + 1) /\ Up(rear, 1)' = Up(rear, 1)
          BY <4>2 DEF Up
        <5> QED
          BY <2>4, <4>3, <5>1, <5>2, <5>3
      <4>5. Item(c)'
        BY <4>2, <4>3
      <4> QED
        BY <2>6, <4>4, <4>5
    <3> QED
      BY <2>11, <3>2, <3>3, <3>4 DEF SegPut
  <2> QED
    BY <1>7, <2>8, <2>9, <2>10, <2>11
<1> HIDE DEF Item, Rear
<1> QED
  <2>1. (\E c \in Contexts : Drop(c) \/ DrainGet(c) \/ SegFirst(c) \/ SegPut(c)) \/ txQueue' = txQueue
    BY QueueSteps
  <2> QED
    BY <1>6, <1>7, <2>1

-----------------------------------------------------------------------------
(* The entries of a frame, from step to step.                               *)
LEMMA KeptNext ==
  ASSUME Shape, Alone, CountOK, QueueOK, Unwrapped, AllLocked, [Next]_vars
  PROVE  /\ \A c \in Contexts : Get4(c) =>
              /\ Oldest \in Kept(array[Oldest]) /\ qitem[c] = array[Oldest]
              /\ \A f \in Frames : Kept(f)' = Kept(f) \ {Oldest}
              /\ \A f \in Frames : f # array[Oldest] => Kept(f)' = Kept(f)
         /\ \A c \in Contexts : Put4(c) =>
              /\ rear \in Slots /\ rear \notin Kept(tx[c].frame)
              /\ Kept(tx[c].frame)' = Kept(tx[c].frame) \cup {rear}
              /\ \A f \in Frames : f # tx[c].frame => Kept(f)' = Kept(f)
         /\ (~\E c \in Contexts : Get4(c) \/ Put4(c)) => \A f \in Frames : Kept(f)' = Kept(f)
         /\ \A f \in Frames : Kept(f) \subseteq Slots /\ IsFiniteSet(Kept(f))
<1>1. /\ array \in [Slots -> Items \cup {NoItem}] /\ rear \in Slots
      /\ Capacity \in Nat \ {0}
  BY Constants DEF Shape, TypeOK, QTypeOK
<1>2. ASSUME NEW c \in Contexts, Get4(c)
      PROVE  /\ Oldest \in Kept(array[Oldest]) /\ qitem[c] = array[Oldest]
             /\ \A f \in Frames : Kept(f)' = Kept(f) \ {Oldest}
             /\ \A f \in Frames : f # array[Oldest] => Kept(f)' = Kept(f)
  <2>1. /\ InUse(Oldest) /\ Oldest \in Slots /\ array' = array /\ qpc[c] = "get_cnt"
        /\ \A s \in Slots : InUse(s)' <=> InUse(s) /\ s # Oldest
    BY <1>2, InUseNext, Moves
  <2>2. qitem[c] = array[Oldest]
    BY <2>1 DEF QueueOK
  <2>4. ASSUME NEW f \in Frames, f # array[Oldest]
        PROVE  Kept(f)' = Kept(f)
    BY <2>1, <2>4 DEF Kept
  <2>5. ASSUME NEW f \in Frames
        PROVE  Kept(f)' = Kept(f) \ {Oldest}
    <3>1. \A s \in Slots : s \in Kept(f)' <=> InUse(s) /\ s # Oldest /\ array[s] = f
      BY <2>1 DEF Kept
    <3>2. \A s \in Slots : s \in Kept(f) <=> InUse(s) /\ array[s] = f
      BY DEF Kept
    <3>3. Kept(f)' \subseteq Slots /\ Kept(f) \subseteq Slots
      BY DEF Kept
    <3> QED
      BY <3>1, <3>2, <3>3
  <2> QED
    BY <2>1, <2>2, <2>4, <2>5 DEF Kept
<1>3. ASSUME NEW c \in Contexts, Put4(c)
      PROVE  /\ rear \in Slots /\ rear \notin Kept(tx[c].frame)
             /\ Kept(tx[c].frame)' = Kept(tx[c].frame) \cup {rear}
             /\ \A f \in Frames : f # tx[c].frame => Kept(f)' = Kept(f)
  <2>1. /\ ~InUse(rear) /\ array' = array /\ tx' = tx /\ rear' = rear /\ qpc[c] = "put_cnt" /\ pc[c] = "put"
        /\ \A s \in Slots : InUse(s)' <=> InUse(s) \/ s = rear
    <3>1. qpc[c] = "put_cnt" /\ array' = array /\ rear' = rear /\ pc[c] = "put"
      BY <1>3, Moves
    <3>2. tx' = tx
      BY <1>3 DEF Put4, SegPut
    <3> QED
      BY <1>3, <3>1, <3>2, InUseNext
  <2>2. array[rear] = tx[c].frame
    BY <2>1 DEF QueueOK
  <2>3. \A f \in Frames : f # tx[c].frame => Kept(f)' = Kept(f)
    BY <1>1, <2>1, <2>2 DEF Kept
  <2>4. Kept(tx[c].frame)' = Kept(tx[c].frame) \cup {rear}
    BY <1>1, <2>1, <2>2 DEF Kept
  <2> QED
    BY <1>1, <2>1, <2>3, <2>4 DEF Kept
<1>4. ASSUME ~\E c \in Contexts : Get4(c) \/ Put4(c)
      PROVE  \A f \in Frames : Kept(f)' = Kept(f)
  <2>1. \A s \in Slots : InUse(s)' <=> InUse(s)
    BY <1>4, InUseNext
  <2>2. \A s \in Slots : InUse(s) => array'[s] = array[s]
    <3>1. CASE array' = array
      BY <3>1
    <3>2. ASSUME NEW c \in Contexts, SegPut(c) /\ PutSlot(c)
          PROVE  \A s \in Slots : InUse(s) => array'[s] = array[s]
      <4>1. qpc[c] = "put_slot" /\ array' = [array EXCEPT ![rear] = qitem[c]]
        BY <3>2 DEF PutSlot
      <4>2. ~InUse(rear)
        BY <4>1, InUseNext
      <4> QED
        BY <1>1, <4>1, <4>2
    <3>3. array' = array \/ \E c \in Contexts : SegPut(c) /\ PutSlot(c)
      <4>1. ASSUME txQueue' = txQueue
            PROVE  array' = array
        BY <4>1 DEF txQueue, queueVars
      <4>2. ASSUME NEW c \in Contexts, DrainGet(c) \/ SegFirst(c) \/ SegPut(c) \/ Drop(c)
            PROVE  array' = array \/ (SegPut(c) /\ PutSlot(c))
        BY <4>2 DEF DrainGet, SegFirst, SegPut, Drop, GetCall, GetItem, GetFront, GetCount, GetNull,
                    PutCall, PutRefused, PutRear, PutCount, queueVars
      <4> QED
        BY <4>1, <4>2, QueueSteps
    <3> QED
      BY <3>1, <3>2, <3>3
  <2> QED
    BY <2>1, <2>2 DEF Kept
<1>5. ASSUME NEW f \in Frames
      PROVE  Kept(f) \subseteq Slots /\ IsFiniteSet(Kept(f))
  <2>1. Kept(f) \subseteq Slots
    BY DEF Kept
  <2>2. IsFiniteSet(Slots)
    <3>1. 0 \in Int /\ Capacity - 1 \in Int
      BY <1>1
    <3> QED
      BY <3>1, FS_Interval DEF Slots
  <2> QED
    BY <2>1, <2>2, FS_Subset
<1> QED
  BY <1>2, <1>3, <1>4, <1>5

(* Who owes a reference to a frame, and who frees one: the caller, if any.  *)
LEMMA Dues ==
  ASSUME Shape, Alone, NEW c \in Contexts, pc[c] \notin {"idle", "rx"}, NEW f \in Frames
  PROVE  /\ Owed(f) <=> pc[c] = "ref" /\ tx[c].frame = f
         /\ Dropping(f) <=> pc[c] = "drop" /\ qitem[c] = f
BY Lone DEF Owed, Dropping

(* The same of the caller after a step of its own.                          *)
LEMMA DuesNext ==
  ASSUME Shape, Alone, NEW c \in Contexts, Output(c), NEW f \in Frames
  PROVE  /\ Owed(f)' <=> pc'[c] = "ref" /\ tx'[c].frame = f
         /\ Dropping(f)' <=> pc'[c] = "drop" /\ qitem'[c] = f
<1>1. TypeOK /\ CountsOK
  BY DEF Shape
<1>2. Effect(c) /\ \A d \in Contexts \ {c} : tx'[d] = tx[d] /\ pc'[d] = pc[d]
  BY <1>1, Effects
<1>3. pc[c] \notin {"idle", "rx"}
  BY <1>2 DEF Output, Effect, Goes
<1>4. \A d \in Contexts \ {c} : pc'[d] \in {"idle", "rx"}
  BY <1>2, <1>3, Lone
<1> QED
  BY <1>4 DEF Owed, Dropping

(* Every reference stays accounted for.                                     *)
LEMMA RefsNext ==
  ASSUME Shape, Alone, CountOK, QueueOK, RefsOK, Unwrapped, AllLocked, [Next]_vars
  PROVE  RefsOK'
<1>1. /\ TypeOK /\ CountsOK /\ SendersOK /\ "eth" \in Contexts
      /\ ref \in [Frames -> 0 .. Capacity + 1] /\ Capacity \in Nat \ {0}
      /\ array \in [Slots -> Items \cup {NoItem}] /\ rear \in Slots
      /\ qitem \in [Contexts -> Items \cup {NoItem}] /\ held \subseteq Frames
  BY Constants DEF Shape, TypeOK, QTypeOK
<1>2. /\ \A s \in Slots : InUse(s) => array[s] \in Frames
      /\ \A f \in Frames :
           /\ ref[f] + Bit(Owed(f)) = Bit(f \in held) + Cardinality(Kept(f)) + Bit(Dropping(f))
           /\ ref[f] \in Nat /\ Cardinality(Kept(f)) \in Nat
           /\ Kept(f) \subseteq Slots /\ IsFiniteSet(Kept(f))
  <2>1. \A f \in Frames : Kept(f) \subseteq Slots /\ IsFiniteSet(Kept(f))
    BY KeptNext
  <2>2. \A f \in Frames : Cardinality(Kept(f)) \in Nat
    BY <2>1, FS_CardinalityType
  <2> QED
    BY <1>1, <2>1, <2>2 DEF RefsOK
<1> DEFINE Paid(f) == ref[f] + Bit(Owed(f)) = Bit(f \in held) + Cardinality(Kept(f)) + Bit(Dropping(f))
<1>3. \A s \in Slots : InUse(s)' => array'[s] \in Frames
  <2>1. ASSUME NEW c \in Contexts, Get4(c)
        PROVE  \A s \in Slots : InUse(s)' => array'[s] \in Frames
    BY <1>2, <2>1, InUseNext, Moves
  <2>2. ASSUME NEW c \in Contexts, Put4(c)
        PROVE  \A s \in Slots : InUse(s)' => array'[s] \in Frames
    <3>1. /\ array' = array /\ qpc[c] = "put_cnt" /\ pc[c] = "put"
          /\ \A s \in Slots : InUse(s)' <=> InUse(s) \/ s = rear
      BY <2>2, InUseNext, Moves
    <3>2. array[rear] = tx[c].frame /\ tx[c].frame \in Frames
      BY <3>1, Lone DEF QueueOK
    <3> QED
      BY <1>2, <3>1, <3>2
  <2>3. ASSUME ~\E c \in Contexts : Get4(c) \/ Put4(c)
        PROVE  \A s \in Slots : InUse(s)' => array'[s] \in Frames
    <3>1. \A s \in Slots : InUse(s)' <=> InUse(s)
      BY <2>3, InUseNext
    <3>2. \A s \in Slots : InUse(s) => array'[s] = array[s]
      <4>1. CASE \E c \in Contexts : SegPut(c) /\ PutSlot(c)
        <5>1. PICK c \in Contexts : SegPut(c) /\ PutSlot(c)
          BY <4>1
        <5>2. qpc[c] = "put_slot" /\ array' = [array EXCEPT ![rear] = qitem[c]]
          BY <5>1 DEF PutSlot
        <5>3. ~InUse(rear)
          BY <5>2, InUseNext
        <5> QED
          BY <1>1, <5>2, <5>3
      <4>2. CASE ~\E c \in Contexts : SegPut(c) /\ PutSlot(c)
        <5>1. ASSUME txQueue' = txQueue
              PROVE  array' = array
          BY <5>1 DEF txQueue, queueVars
        <5>2. ASSUME NEW c \in Contexts, DrainGet(c) \/ SegFirst(c) \/ SegPut(c) \/ Drop(c)
              PROVE  array' = array
          BY <4>2, <5>2 DEF DrainGet, SegFirst, SegPut, Drop, GetCall, GetItem, GetFront, GetCount, GetNull,
                      PutCall, PutRefused, PutRear, PutCount, queueVars
        <5> QED
          BY <5>1, <5>2, QueueSteps
      <4> QED
        BY <4>1, <4>2
    <3> QED
      BY <1>2, <3>1, <3>2
  <2> QED
    BY <2>1, <2>2, <2>3
<1>4. ASSUME \A f \in Frames : Paid(f)'
      PROVE  RefsOK'
  BY <1>3, <1>4 DEF RefsOK
<1> USE DEF Bit
(* A step of the queue or of the references that leaves the rest alone.     *)
<1>5. ASSUME NEW f \in Frames, Kept(f)' = Kept(f)
      PROVE  Cardinality(Kept(f))' = Cardinality(Kept(f))
  BY <1>5
<1>6. ASSUME tx' = tx, pc' = pc, qitem' = qitem
      PROVE  \A f \in Frames : (Owed(f)' <=> Owed(f)) /\ (Dropping(f)' <=> Dropping(f))
  BY <1>6 DEF Owed, Dropping
<1>7. ASSUME NEW f \in Frames, Kept(f)' = Kept(f), ref'[f] = ref[f], f \in held' <=> f \in held,
             Owed(f)' <=> Owed(f), Dropping(f)' <=> Dropping(f)
      PROVE  Paid(f)'
  BY <1>2, <1>5, <1>7
<1>8. CASE DmaSend \/ DmaSuspend \/ DmaUnderflow \/ IrqUnlock \/ UNCHANGED vars
  <2>1. /\ tx' = tx /\ pc' = pc /\ qitem' = qitem /\ ref' = ref /\ held' = held
        /\ ~\E c \in Contexts : Get4(c) \/ Put4(c)
    <3>1. tx' = tx /\ pc' = pc /\ qitem' = qitem /\ ref' = ref /\ held' = held
      BY <1>8 DEF DmaSend, DmaSuspend, DmaUnderflow, IrqUnlock, vars, txQueue, callVars, refs
    <3> QED
      BY <3>1, Moves
  <2>2. \A f \in Frames : Kept(f)' = Kept(f)
    BY <2>1, KeptNext
  <2>3. \A f \in Frames : Paid(f)'
    <3> HIDE DEF Paid
    <3> QED
      BY <1>6, <1>7, <2>1, <2>2
  <2> HIDE DEF Paid
  <2> QED
    BY <1>4, <2>3
<1>9. CASE LwipFree
  <2>1. PICK g \in held : held' = held \ {g} /\ PbufFree(g)
    BY <1>9 DEF LwipFree
  <2>2. tx' = tx /\ pc' = pc /\ qitem' = qitem /\ \A c \in Contexts : tx[c].frame = NoFrame
    BY <1>9 DEF LwipFree, txQueue, callVars, Sending
  <2>3. ~\E c \in Contexts : Get4(c) \/ Put4(c)
    BY <2>2, Moves
  <2>4. \A f \in Frames : Kept(f)' = Kept(f) /\ (Owed(f)' <=> Owed(f)) /\ (Dropping(f)' <=> Dropping(f))
    BY <1>6, <2>2, <2>3, KeptNext
  <2>5. ref' = [h \in Frames |-> IF h = g /\ ref[h] > 0 THEN ref[h] - 1 ELSE ref[h]]
    BY <2>1 DEF PbufFree
  <2>6. \A f \in Frames : f # g => Paid(f)'
    <3>1. \A f \in Frames : f # g => ref'[f] = ref[f] /\ (f \in held' <=> f \in held)
      BY <2>1, <2>5
    <3> HIDE DEF Paid
    <3> QED
      BY <1>7, <2>4, <3>1
  <2>7. Paid(g)'
    <3>1. g \in Frames /\ g \notin held' /\ ~Owed(g)
      BY <1>1, <2>1, <2>2, Constants DEF Owed
    <3>2. ref[g] = 1 + Cardinality(Kept(g)) + Bit(Dropping(g))
      BY <1>2, <2>1, <3>1
    <3>3. ref'[g] = ref[g] - 1
      BY <1>2, <2>5, <3>1, <3>2
    <3>4. Cardinality(Kept(g))' = Cardinality(Kept(g)) /\ (Owed(g)' <=> Owed(g)) /\ (Dropping(g)' <=> Dropping(g))
      BY <1>5, <2>4, <3>1
    <3> QED
      BY <1>2, <3>1, <3>2, <3>3, <3>4
  <2> HIDE DEF Paid
  <2> QED
    BY <1>4, <2>6, <2>7
<1>10. CASE RxLock \/ RxUnlock
  <2>1. /\ tx' = tx /\ qitem' = qitem /\ ref' = ref /\ held' = held
    BY <1>10 DEF RxLock, RxUnlock, txQueue, callVars, refs
  <2>2. /\ pc["eth"] \in {"idle", "rx"} /\ pc'["eth"] \in {"idle", "rx"} /\ \A d \in Contexts \ {"eth"} : pc'[d] = pc[d]
    BY <1>1, <1>10, EthEffects DEF Goes
  <2>3. \A f \in Frames : (Owed(f)' <=> Owed(f)) /\ (Dropping(f)' <=> Dropping(f))
    BY <2>1, <2>2 DEF Owed, Dropping
  <2>4. ~\E c \in Contexts : Get4(c) \/ Put4(c)
    <3>1. \A c \in Contexts : Get4(c) \/ Put4(c) => pc[c] \in {"get", "put"} /\ pc'[c] \in {"drop", "ref"}
      BY Moves
    <3> QED
      BY <2>2, <3>1
  <2>5. \A f \in Frames : Kept(f)' = Kept(f)
    BY <2>4, KeptNext
  <2>6. \A f \in Frames : Paid(f)'
    <3> HIDE DEF Paid
    <3> QED
      BY <1>7, <2>1, <2>3, <2>5
  <2> HIDE DEF Paid
  <2> QED
    BY <1>4, <2>6
<1>11. ASSUME NEW c \in Contexts, SendCall(c)
       PROVE  RefsOK'
  <2>1. PICK g \in Frames, n \in Nat \ {0} :
           /\ ref[g] = 0 \/ (g \in held /\ ref[g] = 1)
           /\ ref' = [ref EXCEPT ![g] = 1] /\ held' = held \cup {g}
           /\ Goes(c, "idle", "scan")
           /\ \A d \in Contexts \ {c} : tx'[d] = tx[d] /\ pc'[d] = pc[d]
           /\ \A d \in Contexts : tx[d].frame = NoFrame
    BY <1>1, <1>11, SendEffects
  <2>2. qitem' = qitem
    BY <1>11 DEF SendCall, txQueue, callVars
  <2>3. \A d \in Contexts : pc[d] \in {"idle", "rx"}
    BY <2>1 DEF Alone
  <2>4. \A f \in Frames : ~Owed(f) /\ ~Dropping(f) /\ ~Owed(f)' /\ ~Dropping(f)'
    BY <2>1, <2>3 DEF Owed, Dropping, Goes
  <2>5. ~\E d \in Contexts : Get4(d) \/ Put4(d)
    BY <2>3, Moves
  <2>6. \A f \in Frames : Kept(f)' = Kept(f)
    BY <2>5, KeptNext
  <2>7. \A f \in Frames : f # g => Paid(f)'
    <3>1. \A f \in Frames : f # g => ref'[f] = ref[f] /\ (f \in held' <=> f \in held)
      BY <1>1, <2>1
    <3> HIDE DEF Paid
    <3> QED
      BY <1>7, <2>4, <2>6, <3>1
  <2>8. Paid(g)'
    <3>1. Cardinality(Kept(g)) = 0
      BY <1>2, <2>1, <2>4
    <3>2. Cardinality(Kept(g))' = 0 /\ g \in held' /\ ref'[g] = 1
      BY <1>1, <1>5, <2>1, <2>6, <3>1
    <3> QED
      BY <2>4, <3>2
  <2> HIDE DEF Paid
  <2> QED
    BY <1>4, <2>7, <2>8
<1>12. ASSUME NEW c \in Contexts, Output(c)
       PROVE  RefsOK'
  <2>1. Effect(c) /\ \A d \in Contexts \ {c} : tx'[d] = tx[d] /\ pc'[d] = pc[d]
    BY <1>1, <1>12, Effects
  <2>2. pc[c] \notin {"idle", "rx"}
    BY <1>12, <2>1 DEF Output, Effect, Goes
  <2>3. \A f \in Frames : /\ Owed(f) <=> pc[c] = "ref" /\ tx[c].frame = f
                          /\ Dropping(f) <=> pc[c] = "drop" /\ qitem[c] = f
    BY <2>2, Dues
  <2>4. \A f \in Frames : /\ Owed(f)' <=> pc'[c] = "ref" /\ tx'[c].frame = f
                          /\ Dropping(f)' <=> pc'[c] = "drop" /\ qitem'[c] = f
    BY <1>12, DuesNext
  <2>5. tx[c].frame \in Frames /\ \A d \in Contexts \ {c} : pc[d] \in {"idle", "rx"}
    BY <2>2, Lone
  <2>6. \A d \in Contexts : Get4(d) \/ Put4(d) => d = c
    BY <2>5, Moves
  <2>7. held' = held
    BY <1>12 DEF Output, Scan, Drain, DrainGet, Drop, Drained, SegFail, SegFirst, SegPut, SegRef, SegNext,
       SegEnd, HalBusy, HalLock, Give, Resume, Unlock, Finish, refs
  <2>8. CASE Get4(c)
    <3>1. /\ pc[c] = "get" /\ pc'[c] = "drop" /\ qitem' = qitem /\ ref' = ref
      BY <2>8, Moves DEF Get4, DrainGet, refs
    <3>2. /\ Oldest \in Kept(array[Oldest]) /\ qitem[c] = array[Oldest]
          /\ \A f \in Frames : Kept(f)' = Kept(f) \ {Oldest}
          /\ \A f \in Frames : f # array[Oldest] => Kept(f)' = Kept(f)
      BY <2>8, KeptNext
    <3>3. PICK g : g = array[Oldest]
      OBVIOUS
    <3>4. g \in Frames
      <4>1. InUse(Oldest) /\ Oldest \in Slots
        BY <2>8, InUseNext
      <4> QED
        BY <1>2, <3>3, <4>1
    <3>5. Kept(g)' = Kept(g) \ {Oldest} /\ Oldest \in Kept(g)
      <4>1. Oldest \in Kept(g)
        BY <3>2, <3>3
      <4> QED
        BY <3>2, <3>4, <4>1
    <3>6. Cardinality(Kept(g))' = Cardinality(Kept(g)) - 1
      <4>1. Cardinality(Kept(g) \ {Oldest}) = Cardinality(Kept(g)) - 1
        BY <1>2, <3>4, <3>5, FS_RemoveElement
      <4> QED
        BY <3>5, <4>1
    <3>7. Paid(g)'
      BY <1>2, <2>3, <2>4, <2>7, <3>1, <3>2, <3>3, <3>4, <3>6
    <3>8. \A f \in Frames : f # g => Paid(f)'
      <4>1. \A f \in Frames : f # g => (Owed(f)' <=> Owed(f)) /\ (Dropping(f)' <=> Dropping(f)) /\ Kept(f)' = Kept(f)
        BY <2>3, <2>4, <3>1, <3>2, <3>3
      <4> HIDE DEF Paid
      <4> QED
        BY <1>7, <2>7, <3>1, <4>1
    <3> HIDE DEF Paid
    <3> QED
      BY <1>4, <3>7, <3>8
  <2>9. CASE Put4(c)
    <3>1. /\ pc[c] = "put" /\ pc'[c] = "ref" /\ tx' = tx /\ ref' = ref
      BY <2>9, Moves DEF Put4, SegPut, refs
    <3>2. PICK g : g = tx[c].frame
      OBVIOUS
    <3>3. /\ g \in Frames /\ rear \notin Kept(g) /\ Kept(g)' = Kept(g) \cup {rear}
          /\ \A f \in Frames : f # g => Kept(f)' = Kept(f)
      <4>1. /\ rear \notin Kept(tx[c].frame) /\ Kept(tx[c].frame)' = Kept(tx[c].frame) \cup {rear}
            /\ \A f \in Frames : f # tx[c].frame => Kept(f)' = Kept(f)
        BY <2>9, KeptNext
      <4>2. Kept(tx[c].frame)' = Kept(g)' /\ Kept(tx[c].frame) = Kept(g)
        BY <3>1, <3>2 DEF Kept
      <4> QED
        BY <2>5, <3>2, <4>1, <4>2
    <3>4. Cardinality(Kept(g))' = Cardinality(Kept(g)) + 1
      <4>1. Cardinality(Kept(g) \cup {rear}) = Cardinality(Kept(g)) + 1
        BY <1>2, <3>3, FS_AddElement
      <4> QED
        BY <3>3, <4>1
    <3>5. Paid(g)'
      BY <1>2, <2>3, <2>4, <2>7, <3>1, <3>2, <3>3, <3>4
    <3>6. \A f \in Frames : f # g => Paid(f)'
      <4>1. \A f \in Frames : f # g => (Owed(f)' <=> Owed(f)) /\ (Dropping(f)' <=> Dropping(f)) /\ Kept(f)' = Kept(f)
        BY <2>3, <2>4, <3>1, <3>2, <3>3
      <4> HIDE DEF Paid
      <4> QED
        BY <1>7, <2>7, <3>1, <4>1
    <3> HIDE DEF Paid
    <3> QED
      BY <1>4, <3>5, <3>6
  <2>10. CASE ~Get4(c) /\ ~Put4(c)
    <3>1. \A f \in Frames : Kept(f)' = Kept(f) /\ Cardinality(Kept(f))' = Cardinality(Kept(f))
      <4>1. \A f \in Frames : Kept(f)' = Kept(f)
        BY <2>6, <2>10, KeptNext
      <4> QED
        BY <1>5, <4>1
    <3>2. CASE Drop(c)
      <4>1. PICK g : g = qitem[c]
        OBVIOUS
      <4>2. /\ g \in Frames /\ pc[c] = "drop" /\ pc'[c] = "drain"
            /\ ref' = [h \in Frames |-> IF h = g /\ ref[h] > 0 THEN ref[h] - 1 ELSE ref[h]]
        BY <2>1, <3>2, <4>1 DEF Drop, Effect, Goes, PbufFree, QueueOK
      <4>3. ~Owed(g) /\ Dropping(g) /\ ~Owed(g)' /\ ~Dropping(g)'
        BY <2>3, <2>4, <4>1, <4>2
      <4>4. ref[g] = Bit(g \in held) + Cardinality(Kept(g)) + 1
        BY <1>2, <4>2, <4>3
      <4>5. ref'[g] = ref[g] - 1
        BY <1>2, <4>2, <4>4
      <4>6. Paid(g)'
        BY <1>2, <2>7, <3>1, <4>2, <4>3, <4>4, <4>5
      <4>7. \A f \in Frames : f # g => Paid(f)'
        <5>1. \A f \in Frames : f # g => /\ Owed(f)' <=> Owed(f)
                                         /\ Dropping(f)' <=> Dropping(f)
                                         /\ ref'[f] = ref[f]
          BY <2>3, <2>4, <4>1, <4>2
        <5> HIDE DEF Paid
        <5> QED
          BY <1>7, <2>7, <3>1, <5>1
      <4> HIDE DEF Paid
      <4> QED
        BY <1>4, <4>6, <4>7
    <3>3. CASE SegRef(c)
      <4>1. PICK g : g = tx[c].frame
        OBVIOUS
      <4>2. g \in Frames /\ pc[c] = "ref" /\ pc'[c] = "seg" /\ ref' = [ref EXCEPT ![g] = @ + 1]
        BY <2>1, <2>5, <3>3, <4>1 DEF SegRef, Effect, Runs
      <4>3. Owed(g) /\ ~Dropping(g) /\ ~Owed(g)' /\ ~Dropping(g)'
        BY <2>3, <2>4, <4>1, <4>2
      <4>4. ref'[g] = ref[g] + 1
        BY <1>1, <4>2
      <4>5. Paid(g)'
        BY <1>2, <2>7, <3>1, <4>2, <4>3, <4>4
      <4>6. \A f \in Frames : f # g => Paid(f)'
        <5>1. \A f \in Frames : f # g => /\ Owed(f)' <=> Owed(f)
                                         /\ Dropping(f)' <=> Dropping(f)
                                         /\ ref'[f] = ref[f]
          BY <1>1, <2>3, <2>4, <4>1, <4>2
        <5> HIDE DEF Paid
        <5> QED
          BY <1>7, <2>7, <3>1, <5>1
      <4> HIDE DEF Paid
      <4> QED
        BY <1>4, <4>5, <4>6
    <3>4. CASE ~Drop(c) /\ ~SegRef(c)
      <4>1. ref' = ref
        BY <1>12, <3>4 DEF Output, Scan, Drain, DrainGet, Drained, SegFail, SegFirst, SegPut, SegNext,
           SegEnd, HalBusy, HalLock, Give, Resume, Unlock, Finish, refs
      <4>2. pc[c] \notin {"ref", "drop"} /\ pc'[c] \notin {"ref", "drop"}
        <5>1. QueueEffect(c)
          BY <1>12, QueueEffects
        <5>2. pc[c] \notin {"ref", "drop"}
          BY <1>12, <2>1, <3>4 DEF Output, Effect, Goes, SegNext, NextSeg, Runs
        <5>3. DrainGet(c) => pc'[c] = "get"
          <6>1. ASSUME DrainGet(c)
                PROVE  pc'[c] = "get"
            <7>1. pc[c] = "get" /\ ~IsEmpty
              BY <2>1, <6>1, Counters DEF Effect, CountOK
            <7>2. GetCall(c) \/ GetItem(c) \/ GetFront(c)
              BY <2>10, <6>1, <7>1 DEF DrainGet, Get4, GetNull
            <7> QED
              BY <6>1, <7>1, <7>2, <1>1 DEF DrainGet, GetCall, GetItem, GetFront, GetNull, GetCount, Goto, TypeOK, QTypeOK
          <6> QED
            BY <6>1
        <5>4. SegPut(c) => pc'[c] = "put"
          BY <2>1, <2>10 DEF SegPut, Put4, Effect
        <5> QED
          BY <1>12, <2>1, <3>4, <5>2, <5>3, <5>4 DEF Output, Effect, Goes
      <4>3. \A f \in Frames : (Owed(f)' <=> Owed(f)) /\ (Dropping(f)' <=> Dropping(f))
        BY <2>3, <2>4, <4>2
      <4>4. \A f \in Frames : Paid(f)'
        <5> HIDE DEF Paid
        <5> QED
          BY <1>7, <2>7, <3>1, <4>1, <4>3
      <4> HIDE DEF Paid
      <4> QED
        BY <1>4, <4>4
    <3> QED
      BY <3>2, <3>3, <3>4
  <2> QED
    BY <2>8, <2>9, <2>10
<1>13. ~EthOutput
  BY QueueSteps
<1> HIDE DEF Paid
<1> QED
  BY <1>8, <1>9, <1>10, <1>11, <1>12, <1>13 DEF Next

(* A frame in flight, or about to be, stays in tx_free_queue.               *)
LEMMA FlightNext ==
  ASSUME Shape, Alone, CountOK, QueueOK, FlightOK, Unwrapped, AllLocked, [Next]_vars
  PROVE  FlightOK'
<1>1. /\ TypeOK /\ CountsOK /\ SendersOK /\ "eth" \in Contexts
      /\ own \in [Desc -> {"dma", "cpu"}] /\ buf \in [Desc -> Frames \cup {NoFrame}] /\ txDesc \in Desc
      /\ NoFrame \notin Frames /\ Capacity \in Nat \ {0}
  BY Constants DEF Shape, TypeOK
<1> DEFINE Safe(f) == Kept(f) # {}
           Reads(d) == \E f \in Frames : buf[d] = f /\ Safe(f)
           Next1(c) == /\ tx[c].frame # NoFrame /\ pc[c] \in {"ref", "seg", "lock", "give"}
                       /\ pc[c] = "ref" \/ tx[c].bufcount > 0
           Gives(c) == \E f \in Frames : tx[c].frame = f /\ Safe(f)
<1>2. /\ \A d \in Desc : own[d] = "dma" => Reads(d)
      /\ \A c \in Contexts : Next1(c) => Gives(c)
      /\ \A c \in Contexts : tx[c].frame \in Frames \cup {NoFrame} /\ tx[c].bufcount \in 0 .. Capacity /\ tx[c].desc \in Desc
  BY <1>1, Local DEF FlightOK, TypeOK
<1>3. ASSUME \A d \in Desc : own'[d] = "dma" => Reads(d)', \A c \in Contexts : Next1(c)' => Gives(c)'
      PROVE  FlightOK'
  <2>1. ASSUME NEW d \in Desc, own'[d] = "dma"
        PROVE  buf'[d] \in Frames /\ Kept(buf[d])' # {}
    <3>1. PICK f \in Frames : buf'[d] = f /\ Kept(f)' # {}
      BY <1>3, <2>1
    <3>2. Kept(buf[d])' = Kept(f)'
      BY <3>1 DEF Kept
    <3> QED
      BY <3>1, <3>2
  <2>2. ASSUME NEW c \in Contexts, Next1(c)'
        PROVE  Kept(tx[c].frame)' # {}
    <3>1. PICK f \in Frames : tx'[c].frame = f /\ Kept(f)' # {}
      BY <1>3, <2>2
    <3>2. Kept(tx[c].frame)' = Kept(f)'
      BY <3>1 DEF Kept
    <3> QED
      BY <3>1, <3>2
  <2> QED
    BY <2>1, <2>2 DEF FlightOK
<1>4. CASE \E c \in Contexts : Get4(c)
  <2>1. PICK c \in Contexts : Get4(c)
    BY <1>4
  <2>2. pc[c] = "get" /\ pc'[c] = "drop" /\ own' = own
    BY <2>1, Moves DEF Get4, DrainGet, descs
  <2>3. \A d \in Desc : own[d] = "cpu"
    BY <2>2 DEF Alone
  <2>4. \A d \in Contexts \ {c} : pc'[d] \in {"idle", "rx"}
    <3>1. \A d \in Contexts \ {c} : pc'[d] = pc[d]
      BY <1>1, <2>1, Effects DEF Get4, Output
    <3> QED
      BY <2>2, <3>1, Lone
  <2> HIDE DEF Reads, Gives
  <2> QED
    BY <1>3, <2>2, <2>3, <2>4
<1>5. CASE ~\E c \in Contexts : Get4(c)
  <2>1. \A f \in Frames : Safe(f) => Safe(f)'
    <3>1. ASSUME NEW c \in Contexts, Put4(c)
          PROVE  \A f \in Frames : Safe(f) => Safe(f)'
      <4>1. /\ Kept(tx[c].frame)' = Kept(tx[c].frame) \cup {rear}
            /\ \A f \in Frames : f # tx[c].frame => Kept(f)' = Kept(f)
            /\ tx' = tx
        BY <3>1, KeptNext DEF Put4, SegPut
      <4>2. PICK g : g = tx[c].frame
        OBVIOUS
      <4>3. Kept(g)' # {}
        BY <4>1, <4>2 DEF Kept
      <4> QED
        BY <4>1, <4>2, <4>3
    <3>2. ASSUME ~\E c \in Contexts : Put4(c)
          PROVE  \A f \in Frames : Safe(f) => Safe(f)'
      BY <1>5, <3>2, KeptNext
    <3> QED
      BY <3>1, <3>2
  <2>2. \A d \in Desc : own'[d] = "dma" /\ own[d] = "dma" /\ buf'[d] = buf[d] => Reads(d)'
    <3> HIDE DEF Safe
    <3> QED
      BY <1>2, <2>1
  <2>3. \A c \in Contexts : Next1(c) /\ tx'[c].frame = tx[c].frame => Gives(c)'
    <3> HIDE DEF Safe, Next1
    <3> QED
      BY <1>2, <2>1
  <2>4. \A d \in Desc : own'[d] = "dma" => Reads(d)'
    <3>1. CASE DmaSend
      <4>1. buf' = buf /\ \A d \in Desc : own'[d] = "dma" => own[d] = "dma"
        BY <1>1, <3>1 DEF DmaSend
      <4> HIDE DEF Reads
      <4> QED
        BY <2>2, <4>1
    <3>2. ASSUME NEW c \in Contexts, Give(c)
          PROVE  \A d \in Desc : own'[d] = "dma" => Reads(d)'
      <4>1. PICK t \in Desc : t = txDesc
        BY <1>1
      <4>2. own' = [own EXCEPT ![t] = "dma"] /\ buf' = buf
        BY <3>2, <4>1 DEF Give
      <4>3. pc[c] = "give" /\ buf[t] = tx[c].frame /\ tx[c].frame # NoFrame /\ tx[c].bufcount > 0
        BY <1>2, <3>2, <4>1, GiveFree
      <4>4. Reads(t)'
        <5>1. PICK f \in Frames : tx[c].frame = f /\ Safe(f)
          BY <1>2, <4>3
        <5>2. Safe(f)'
          <6> HIDE DEF Safe
          <6> QED
            BY <2>1, <5>1
        <5>3. buf'[t] = f
          BY <4>2, <4>3, <5>1
        <5> QED
          BY <5>2, <5>3
      <4> HIDE DEF Reads
      <4> QED
        BY <1>1, <2>2, <4>2, <4>4
    <3>3. CASE own' = own
      <4>1. \A d \in Desc : own[d] = "dma" => buf'[d] = buf[d]
        <5>1. CASE buf' = buf
          BY <5>1
        <5>2. ASSUME NEW c \in Contexts, SegRef(c) \/ SegNext(c)
              PROVE  \A d \in Desc : own[d] = "dma" => buf'[d] = buf[d]
          <6>1. own[tx[c].desc] = "cpu"
            <7>1. SegRef(c) => pc[c] = "ref"
              BY DEF SegRef, Runs
            <7>2. pc[c] = "ref" => tx[c].frame # NoFrame
              BY <1>1 DEF SendersOK
            <7> QED
              BY <5>2, <7>1, <7>2 DEF Shape, MadeOK, SegNext, Available
          <6>2. buf' = [buf EXCEPT ![tx[c].desc] = tx[c].frame]
            BY <5>2 DEF SegRef, SegNext, Fill
          <6> QED
            BY <1>1, <6>1, <6>2
        <5> QED
          BY <5>1, <5>2, RingSteps
      <4> HIDE DEF Reads
      <4> QED
        BY <2>2, <3>3, <4>1
    <3> QED
      BY <3>1, <3>2, <3>3, RingSteps
  <2>5. \A c \in Contexts : Next1(c)' => Gives(c)'
    <3>1. ASSUME NEW c \in Contexts, tx'[c] = tx[c], pc'[c] = pc[c]
          PROVE  Next1(c)' => Gives(c)'
      <4>1. Next1(c)' => Next1(c)
        BY <3>1
      <4> HIDE DEF Gives, Next1
      <4> QED
        BY <2>3, <3>1, <4>1
    <3>2. CASE DmaSend \/ DmaSuspend \/ DmaUnderflow \/ LwipFree \/ IrqUnlock \/ UNCHANGED vars
      <4>1. tx' = tx /\ pc' = pc
        BY <3>2 DEF DmaSend, DmaSuspend, DmaUnderflow, LwipFree, IrqUnlock, vars
      <4> HIDE DEF Gives, Next1
      <4> QED
        BY <3>1, <4>1
    <3>3. CASE RxLock \/ RxUnlock
      <4>1. /\ tx' = tx /\ pc'["eth"] \in {"idle", "rx"} /\ \A d \in Contexts \ {"eth"} : pc'[d] = pc[d]
        BY <1>1, <3>3, EthEffects DEF Goes
      <4>2. ~Next1("eth")'
        BY <4>1
      <4> HIDE DEF Gives, Next1
      <4> QED
        BY <3>1, <4>1, <4>2
    <3>4. ASSUME NEW c \in Contexts, SendCall(c)
          PROVE  \A d \in Contexts : Next1(d)' => Gives(d)'
      <4>1. pc'[c] = "scan" /\ \A d \in Contexts \ {c} : tx'[d] = tx[d] /\ pc'[d] = pc[d]
        BY <1>1, <3>4, SendEffects DEF Goes
      <4>2. ~Next1(c)'
        BY <4>1
      <4> HIDE DEF Gives, Next1
      <4> QED
        BY <3>1, <4>1, <4>2
    <3>5. ASSUME NEW c \in Contexts, Output(c)
          PROVE  \A d \in Contexts : Next1(d)' => Gives(d)'
      <4>1. Effect(c) /\ QueueEffect(c) /\ \A d \in Contexts \ {c} : tx'[d] = tx[d] /\ pc'[d] = pc[d]
        BY <1>1, <3>5, Effects, QueueEffects
      <4>2. pc[c] \notin {"idle", "rx"} /\ tx[c].frame \in Frames
        BY <3>5, <4>1, Lone DEF Output, Effect, Goes
      <4>3. Next1(c)' => Gives(c)'
        <5>1. CASE Put4(c)
          <6>1. /\ Kept(tx[c].frame)' = Kept(tx[c].frame) \cup {rear} /\ tx' = tx
            BY <5>1, KeptNext DEF Put4, SegPut
          <6>2. PICK g \in Frames : g = tx[c].frame
            BY <4>2
          <6>3. Kept(g)' # {} /\ tx'[c].frame = g
            BY <6>1, <6>2 DEF Kept
          <6> QED
            BY <6>3
        <5>2. CASE SegRef(c) \/ SegNext(c) \/ SegEnd(c) \/ HalLock(c) \/ Give(c)
          <6>1. tx'[c].frame = tx[c].frame /\ pc[c] \in {"ref", "seg", "lock", "give"}
            BY <4>1, <5>2 DEF Effect, Goes, Same
          <6>2. pc'[c] \in {"seg", "lock", "give"} /\ tx'[c].bufcount > 0 => pc[c] = "ref" \/ tx[c].bufcount > 0
            BY <4>1, <5>2 DEF Effect, Goes, Counts, SegRef, Runs
          <6>3. Next1(c)' => Next1(c)
            BY <1>1, <4>1, <4>2, <5>2, <6>1, <6>2 DEF Effect, Goes
          <6> HIDE DEF Gives, Next1
          <6> QED
            BY <2>3, <6>1, <6>3
        <5>3. CASE Drained(c)
          <6>1. pc[c] = "drain" /\ Counts(c) /\ pc'[c] \in {"tus", "seg"}
            BY <4>1, <5>3 DEF Effect
          <6>2. tx'[c].bufcount = 0
            BY <1>1, <6>1 DEF CountsOK, Counts
          <6> QED
            BY <6>1, <6>2
        <5>4. CASE ~(SegRef(c) \/ SegNext(c) \/ SegEnd(c) \/ HalLock(c) \/ Give(c) \/ Drained(c)) /\ ~Put4(c)
          <6>1. SegPut(c) => pc'[c] = "put"
            BY <4>1, <5>4 DEF SegPut, Put4, Effect
          <6>2. pc'[c] \notin {"ref", "seg", "lock", "give"}
            BY <3>5, <4>1, <5>4, <6>1 DEF Output, Effect, Goes
          <6> QED
            BY <6>2
        <5> QED
          BY <5>1, <5>2, <5>3, <5>4
      <4> HIDE DEF Gives, Next1
      <4> QED
        BY <3>1, <4>1, <4>3
    <3>6. ~EthOutput
      BY QueueSteps
    <3> HIDE DEF Gives, Next1
    <3> QED
      BY <3>2, <3>3, <3>4, <3>5, <3>6 DEF Next
  <2> QED
    BY <1>3, <2>4, <2>5
<1> QED
  BY <1>4, <1>5

(* When only senders take the lock, none of them finds it taken.            *)
LEMMA LockNext ==
  ASSUME Shape, AllLocked => Alone, LockOK, [Next]_vars
  PROVE  LockOK'
<1>1. /\ TypeOK /\ CountsOK /\ SendersOK /\ "eth" \in Contexts
  BY Constants DEF Shape
<1>2. setup' = setup /\ (AllLocked' <=> AllLocked)
  BY SetupKept
<1> SUFFICES ASSUME AllLocked, ~setup.rx
             PROVE  /\ locked' => \E c \in Contexts : pc'[c] \in {"give", "tbus", "unlock"}
                    /\ \A c \in Contexts : pc'[c] = "tus" /\ tx'[c].ok => tx'[c].given = tx'[c].bufcount
  BY <1>2 DEF LockOK
<1>3. /\ Alone
      /\ locked => \E c \in Contexts : pc[c] \in {"give", "tbus", "unlock"}
      /\ \A c \in Contexts : pc[c] = "tus" /\ tx[c].ok => tx[c].given = tx[c].bufcount
  BY DEF LockOK
<1>4. CASE DmaSend \/ DmaSuspend \/ DmaUnderflow \/ LwipFree \/ IrqUnlock \/ UNCHANGED vars
  <2>1. tx' = tx /\ pc' = pc /\ (locked' => locked)
    BY <1>4 DEF DmaSend, DmaSuspend, DmaUnderflow, LwipFree, IrqUnlock, vars
  <2> QED
    BY <1>3, <2>1
<1>5. CASE RxLock \/ RxUnlock
  <2>1. /\ tx' = tx /\ pc'["eth"] = "idle" /\ \A d \in Contexts \ {"eth"} : pc'[d] = pc[d]
    BY <1>1, <1>5, EthEffects DEF Goes
  <2>2. ~locked'
    BY <1>1, <1>5, EthEffects DEF RxUnlock
  <2> QED
    BY <1>3, <2>1, <2>2
<1>6. ASSUME NEW c \in Contexts, SendCall(c)
      PROVE  /\ locked' => \E d \in Contexts : pc'[d] \in {"give", "tbus", "unlock"}
             /\ \A d \in Contexts : pc'[d] = "tus" /\ tx'[d].ok => tx'[d].given = tx'[d].bufcount
  <2>1. pc[c] = "idle" /\ pc'[c] = "scan" /\ \A d \in Contexts \ {c} : tx'[d] = tx[d] /\ pc'[d] = pc[d]
    BY <1>1, <1>6, SendEffects DEF Goes
  <2>2. locked' = locked
    BY <1>6 DEF SendCall
  <2> QED
    BY <1>3, <2>1, <2>2
<1>7. ASSUME NEW c \in Contexts, Output(c)
      PROVE  /\ locked' => \E d \in Contexts : pc'[d] \in {"give", "tbus", "unlock"}
             /\ \A d \in Contexts : pc'[d] = "tus" /\ tx'[d].ok => tx'[d].given = tx'[d].bufcount
  <2>1. Effect(c) /\ \A d \in Contexts \ {c} : tx'[d] = tx[d] /\ pc'[d] = pc[d]
    BY <1>1, <1>7, Effects
  <2>2. pc[c] \notin {"idle", "rx"}
    BY <1>7, <2>1 DEF Output, Effect, Goes
  <2>3. \A d \in Contexts \ {c} : pc[d] \in {"idle", "rx"}
    BY <1>3, <2>2, Lone
  <2>4. locked => pc[c] \in {"give", "tbus", "unlock"}
    BY <1>3, <2>3
  <2>5. locked' => pc'[c] \in {"give", "tbus", "unlock"}
    <3>1. CASE HalLock(c) \/ Give(c) \/ Resume(c)
      BY <2>1, <3>1 DEF Effect, Goes
    <3>2. CASE Unlock(c)
      BY <3>2 DEF Unlock
    <3>3. CASE ~(HalLock(c) \/ Give(c) \/ Resume(c) \/ Unlock(c))
      <4>1. locked' = locked
        BY <1>7, <3>3 DEF Output, Scan, Drain, DrainGet, Drop, Drained, SegFail, SegFirst, SegPut, SegRef, SegNext,
           SegEnd, HalBusy, Finish
      <4>2. pc[c] \notin {"give", "tbus", "unlock"}
        BY <1>7, <2>1, <3>3 DEF Output, Effect, Goes
      <4> QED
        BY <2>4, <4>1, <4>2
    <3> QED
      BY <3>1, <3>2, <3>3
  <2>6. pc'[c] = "tus" /\ tx'[c].ok => tx'[c].given = tx'[c].bufcount
    <3>1. CASE Unlock(c)
      <4>1. pc[c] = "unlock" /\ tx' = tx
        BY <2>1, <3>1 DEF Effect, Goes
      <4> QED
        BY <1>1, <4>1 DEF CountsOK
    <3>2. ~HalBusy(c)
      <4>1. HalBusy(c) => locked /\ pc[c] = "lock"
        BY DEF HalBusy, Runs
      <4> QED
        BY <2>4, <4>1
    <3>3. CASE ~Unlock(c)
      BY <1>7, <2>1, <3>2, <3>3 DEF Output, Effect, Goes
    <3> QED
      BY <3>1, <3>3
  <2>7. \A d \in Contexts \ {c} : pc'[d] # "tus"
    BY <2>1, <2>3
  <2> QED
    BY <2>5, <2>6, <2>7
<1>8. ~EthOutput
  BY QueueSteps
<1> QED
  BY <1>4, <1>5, <1>6, <1>7, <1>8 DEF Next

(* The initial states are in the invariant.                                 *)
LEMMA InitInv ==
  ASSUME Init
  PROVE  TxInv /\ LockOK
<1>1. /\ Capacity \in Nat \ {0} /\ CntMod \in Nat /\ Capacity < CntMod
      /\ NoFrame \notin Frames /\ "eth" \in Contexts /\ 0 \in Desc /\ Desc = Slots
      /\ PutLimit \in Int /\ 1 <= PutLimit
  BY Constants
<1>2. /\ setup \in Setups /\ QInit /\ own = [d \in Desc |-> "cpu"] /\ last = [d \in Desc |-> FALSE]
      /\ buf = [d \in Desc |-> NoFrame] /\ txDesc = 0 /\ dmaDesc = 0 /\ ref = [f \in Frames |-> 0] /\ held = {}
      /\ pc = [c \in Contexts |-> "idle"] /\ tx = [c \in Contexts |-> NoCall]
      /\ midFrame = FALSE /\ suspended = FALSE /\ tbus = FALSE /\ tus = FALSE /\ locked = FALSE
  BY DEF Init
<1>3. QTypeOK
  BY <1>1, <1>2 DEF QTypeOK, QInit, Slots, Steps
<1>4. NoCall \in Locals
  BY <1>1, <1>2, TxAssumption DEF NoCall, Locals
<1>5. TypeOK
  <2>1. tx \in [Contexts -> Locals]
    BY <1>2, <1>4
  <2>2. pc \in [Contexts -> PcSteps]
    BY <1>2 DEF PcSteps
  <2>3. own \in [Desc -> {"dma", "cpu"}] /\ last \in [Desc -> BOOLEAN] /\ buf \in [Desc -> Frames \cup {NoFrame}]
    BY <1>2
  <2>4. ref \in [Frames -> 0 .. Capacity + 1]
    <3>1. 0 \in 0 .. Capacity + 1
      BY <1>1
    <3> QED
      BY <1>2, <3>1
  <2> QED
    BY <1>1, <1>2, <1>3, <2>1, <2>2, <2>3, <2>4 DEF TypeOK
<1>6. \A c \in Contexts : /\ tx[c].frame = NoFrame /\ tx[c].clen = 0 /\ tx[c].bufcount = 0 /\ tx[c].given = 0
                          /\ pc[c] = "idle"
  BY <1>2 DEF NoCall
<1>7. SendersOK
  BY <1>1, <1>2, <1>6 DEF SendersOK
<1>8. CountsOK
  <2>1. 0 \in Nat /\ 0 <= 0 /\ 0 <= Capacity
    BY <1>1
  <2> QED
    BY <1>6, <2>1 DEF CountsOK
<1>9. RingOK
  <2>1. Up(0, 0) = 0 /\ \A d \in Desc : From(0, d) \in 0 .. Capacity - 1
    BY <1>1, Ring
  <2>2. /\ txDesc = Up(dmaDesc, 0) /\ \A d \in Desc : own[d] = "dma" <=> From(dmaDesc, d) < 0
    BY <1>1, <1>2, <2>1
  <2>3. 0 \in 0 .. Capacity
    BY <1>1
  <2> QED
    BY <2>2, <2>3 DEF RingOK
<1>10. MadeOK
  BY <1>6 DEF MadeOK
<1>11. Alone
  BY <1>2, <1>6 DEF Alone, QInit
<1>12. CountOK
  BY <1>1, <1>2, <1>6 DEF CountOK, QInit, Queued
<1>13. QueueOK
  <2>1. ~Putting /\ Oldest = 0 /\ Queued = 0 /\ rear = Capacity - 1
    BY <1>2 DEF QInit, Putting, Oldest, Queued
  <2>2. Up(Capacity - 1, 1) = 0 /\ Up(0, 0) = 0
    BY <1>1 DEF Up
  <2> QED
    BY <1>2, <1>6, <2>1, <2>2 DEF QueueOK, QInit
<1>14. \A s \in Slots : ~InUse(s)
  <2>1. Oldest = 0 /\ Queued = 0
    BY <1>2 DEF QInit, Oldest, Queued
  <2>2. \A s \in Slots : From(0, s) \in 0 .. Capacity - 1
    BY <1>1, Ring
  <2> QED
    BY <1>1, <2>1, <2>2 DEF InUse
<1>15. RefsOK
  <2>1. \A f \in Frames : Kept(f) = {} /\ ~Owed(f) /\ ~Dropping(f) /\ ref[f] = 0 /\ f \notin held
    BY <1>2, <1>6, <1>14 DEF Kept, Owed, Dropping
  <2> QED
    BY <1>14, <2>1, FS_EmptySet DEF RefsOK, Bit
<1>16. FlightOK
  BY <1>2, <1>6 DEF FlightOK
<1>17. LockOK
  BY <1>2, <1>6 DEF LockOK
<1> QED
  BY <1>5, <1>7, <1>8, <1>9, <1>10, <1>11, <1>12, <1>13, <1>15, <1>16, <1>17 DEF TxInv, Shape, Balance

-----------------------------------------------------------------------------
(* The descriptors, the calls and the ring of descriptors, in every setup.  *)
LEMMA ShapeNext ==
  ASSUME Shape, [Next]_vars
  PROVE  Shape'
BY TypeNext, SendersNext, CountsNext, RingNext, MadeNext DEF Shape

(* The invariant is inductive.                                              *)
LEMMA TxInvNext ==
  ASSUME TxInv, Unwrapped, [Next]_vars
  PROVE  TxInv'
<1>1. Shape'
  BY ShapeNext DEF TxInv
<1>2. ASSUME AllLocked
      PROVE  Balance'
  <2>1. Shape /\ Alone /\ CountOK /\ QueueOK /\ RefsOK /\ FlightOK
    BY <1>2 DEF TxInv, Balance
  <2> QED
    BY <1>2, <2>1, AloneNext, CountNext, QueueNext, RefsNext, FlightNext DEF Balance
<1> QED
  BY <1>1, <1>2, SetupKept DEF TxInv

(* In every setup the descriptors, the calls and the ring are in order, and *)
(* while lwIP alone sends, so are the queue and the references.             *)
THEOREM TxInvariant ==
  ASSUME Unwrapped
  PROVE  Spec => []TxInv
<1>1. Unwrapped /\ TxInv /\ [Next]_vars => TxInv'
  BY TxInvNext
<1>2. Init => TxInv
  BY InitInv
<1>3. Unwrapped
  OBVIOUS
<1>4. TxInv /\ [Next]_vars => TxInv'
  BY <1>1, <1>3
<1> QED
  BY <1>2, <1>4, PTL DEF Spec

(* low_level_output returns ERR_OK only for a frame that the DMA was given  *)
(* whole: nobody finds EthHandle locked while the senders have the lock of  *)
(* lwIP.  No bound on the life of the queue is needed.                      *)
THEOREM SentCorrect == Spec => []OkMeansSent
<1> DEFINE Inv == Shape /\ (AllLocked => Alone) /\ LockOK
<1>1. Init => Inv
  BY InitInv DEF TxInv, Balance
<1>2. Inv /\ [Next]_vars => Inv'
  BY ShapeNext, AloneNext, LockNext, SetupKept
<1>3. Inv => OkMeansSent
  BY DEF LockOK, OkMeansSent
<1> QED
  BY <1>1, <1>2, <1>3, PTL DEF Spec

(* The DMA owns as many descriptors as the ring says.                       *)
LEMMA OwnedDesc ==
  ASSUME Shape
  PROVE  RingAgrees
<1>1. /\ txDesc \in Desc /\ dmaDesc \in Desc /\ own \in [Desc -> {"dma", "cpu"}]
      /\ Capacity \in Nat \ {0} /\ dmaDesc \in Slots
  BY Constants DEF Shape, TypeOK
<1>2. PICK n \in 0 .. Capacity :
        /\ txDesc = Up(dmaDesc, n)
        /\ \A d \in Desc : own[d] = "dma" <=> From(dmaDesc, d) < n
  BY DEF Shape, RingOK
<1>3. PICK b \in Desc : b = dmaDesc
  BY <1>1
<1> DEFINE S == 0 .. n - 1
           T == {d \in Desc : own[d] = "dma"}
           g == [k \in S |-> Up(b, k)]
<1>4. Cardinality(T) = n
  <2>1. \A k \in S : k \in 0 .. Capacity - 1
    BY <1>1
  <2>2. \A k \in S : g[k] \in T
    <3> SUFFICES ASSUME NEW k \in S
                 PROVE  g[k] \in T
      OBVIOUS
    <3>1. k \in 0 .. Capacity - 1 /\ k \in 0 .. Capacity /\ k < n
      BY <1>1, <2>1
    <3>2. Up(b, k) \in Desc /\ From(b, Up(b, k)) = k
      BY <3>1, Ring
    <3> QED
      BY <1>2, <1>3, <3>1, <3>2
  <2>3. \A k, l \in S : g[k] = g[l] => k = l
    BY <1>3, <2>1, Ring
  <2>4. \A d \in T : \E k \in S : g[k] = d
    <3>1. ASSUME NEW d \in T
          PROVE  From(b, d) \in S /\ g[From(b, d)] = d
      <4>1. d \in Desc /\ From(b, d) < n
        BY <1>2, <1>3, <3>1
      <4>2. From(b, d) \in 0 .. Capacity - 1 /\ Up(b, From(b, d)) = d
        BY <4>1, Ring
      <4>3. From(b, d) \in S
        BY <1>1, <4>1, <4>2
      <4> QED
        BY <4>2, <4>3
    <3> QED
      BY <3>1
  <2>5. g \in Bijection(S, T)
    <3>1. g \in [S -> T]
      BY <2>2
    <3> HIDE DEF g, S, T
    <3> QED
      BY <2>3, <2>4, <3>1, Fun_IsBij
  <2>6. IsFiniteSet(S) /\ Cardinality(S) = n
    <3>1. 0 \in Int /\ n - 1 \in Int /\ n \in Nat
      OBVIOUS
    <3>2. IsFiniteSet(S) /\ Cardinality(S) = IF 0 > n - 1 THEN 0 ELSE n - 1 - 0 + 1
      BY <3>1, FS_Interval
    <3> QED
      BY <3>1, <3>2
  <2>7. ExistsBijection(S, T)
    BY <2>5 DEF ExistsBijection
  <2> HIDE DEF S, T
  <2> QED
    BY <2>6, <2>7, FS_Bijection
<1>5. Owned = n
  BY <1>4 DEF Owned
<1>6. txDesc = (dmaDesc + n) % Capacity
  <2>1. CASE n = Capacity
    <3>1. (dmaDesc + Capacity) % Capacity = dmaDesc
      <4>1. dmaDesc + Capacity \in 0 .. 2 * Capacity - 1 /\ ~(dmaDesc + Capacity < Capacity)
            /\ dmaDesc + Capacity - Capacity = dmaDesc
        BY <1>1 DEF Slots
      <4>2. PICK x \in 0 .. 2 * Capacity - 1 : x = dmaDesc + Capacity
        BY <4>1
      <4>3. x % Capacity = IF x < Capacity THEN x ELSE x - Capacity
        BY <1>1, Wrap
      <4>4. x % Capacity = dmaDesc
        BY <1>1, <4>2, <4>3 DEF Slots
      <4> QED
        BY <4>2, <4>4
    <3>2. Up(dmaDesc, Capacity) = dmaDesc
      BY <1>1, Around
    <3> QED
      BY <1>2, <2>1, <3>1, <3>2
  <2>2. CASE n # Capacity
    <3>1. n \in 0 .. Capacity - 1
      BY <1>1, <2>2
    <3> QED
      BY <1>1, <1>2, <3>1, Around
  <2> QED
    BY <2>1, <2>2
<1>7. \A i \in 0 .. n - 1 : own[(dmaDesc + i) % Capacity] = "dma"
  <2> SUFFICES ASSUME NEW i \in 0 .. n - 1
               PROVE  own[(dmaDesc + i) % Capacity] = "dma"
    OBVIOUS
  <2>1. i \in 0 .. Capacity - 1 /\ i \in 0 .. Capacity /\ i < n
    BY <1>1
  <2>2. Up(dmaDesc, i) \in Desc /\ From(dmaDesc, Up(dmaDesc, i)) = i
    BY <1>1, <2>1, Ring
  <2>3. (dmaDesc + i) % Capacity = Up(dmaDesc, i)
    BY <1>1, <2>1, Around
  <2> QED
    BY <1>2, <2>1, <2>2, <2>3
<1> QED
  BY <1>5, <1>6, <1>7 DEF RingAgrees

(* The entries of a frame are as many as its slots.                         *)
LEMMA EntriesKept ==
  ASSUME Shape, CountOK, Unwrapped, NEW f \in Frames
  PROVE  Cardinality(Entries(f)) = Cardinality(Kept(f)) /\ (Kept(f) # {} => Entries(f) # {})
<1>1. /\ Oldest \in Slots /\ Oldest \in Desc /\ Queued \in 0 .. Capacity /\ Count = Queued /\ Capacity \in Nat \ {0}
      /\ Desc = Slots
  BY Counters, Constants
<1>2. \A k \in 0 .. Count - 1 : /\ k \in 0 .. Capacity - 1 /\ SlotAt(k) = Up(Oldest, k) /\ SlotAt(k) \in Slots
                                /\ From(Oldest, SlotAt(k)) = k
  <2> SUFFICES ASSUME NEW k \in 0 .. Count - 1
               PROVE  /\ k \in 0 .. Capacity - 1 /\ SlotAt(k) = Up(Oldest, k) /\ SlotAt(k) \in Slots
                      /\ From(Oldest, SlotAt(k)) = k
    OBVIOUS
  <2>1. k \in 0 .. Capacity - 1 /\ k \in 0 .. Capacity
    BY <1>1
  <2>2. SlotAt(k) = Up(Oldest, k)
    BY <1>1, <2>1, Around DEF SlotAt
  <2> QED
    BY <1>1, <2>1, <2>2, Ring
<1> DEFINE S == Entries(f)
           T == Kept(f)
           g == [k \in S |-> SlotAt(k)]
<1>3. \A k \in S : g[k] \in T
  BY <1>1, <1>2 DEF Entries, Kept, InUse
<1>4. \A k, l \in S : g[k] = g[l] => k = l
  BY <1>2 DEF Entries
<1>5. \A s \in T : \E k \in S : g[k] = s
  <2> SUFFICES ASSUME NEW s \in T
               PROVE  \E k \in S : g[k] = s
    OBVIOUS
  <2>1. s \in Slots /\ From(Oldest, s) < Queued /\ array[s] = f
    BY DEF Kept, InUse
  <2>2. From(Oldest, s) \in 0 .. Count - 1 /\ Up(Oldest, From(Oldest, s)) = s
    BY <1>1, <2>1, Ring
  <2>3. SlotAt(From(Oldest, s)) = s
    BY <1>2, <2>2
  <2>4. From(Oldest, s) \in S
    BY <2>1, <2>2, <2>3 DEF Entries
  <2> QED
    BY <2>3, <2>4
<1>6. IsFiniteSet(S)
  <2>1. S \subseteq 0 .. Count - 1
    BY DEF Entries
  <2>2. IsFiniteSet(0 .. Count - 1)
    <3>1. 0 \in Int /\ Count - 1 \in Int
      BY <1>1
    <3> QED
      BY <3>1, FS_Interval
  <2> QED
    BY <2>1, <2>2, FS_Subset
<1>7. ExistsBijection(S, T)
  <2>1. g \in [S -> T]
    BY <1>3
  <2> HIDE DEF g, S, T
  <2>2. g \in Bijection(S, T)
    BY <1>4, <1>5, <2>1, Fun_IsBij
  <2> QED
    BY <2>2 DEF ExistsBijection
<1>8. Cardinality(T) = Cardinality(S)
  <2> HIDE DEF S, T
  <2> QED
    BY <1>6, <1>7, FS_Bijection
<1> QED
  BY <1>5, <1>8

(* Of contexts one at most does what is owed.                               *)
LEMMA OneOrNone ==
  ASSUME NEW S, \A c, d \in S : c = d
  PROVE  Cardinality(S) = Bit(S # {})
<1>1. CASE S # {}
  <2>1. PICK c : S = {c}
    BY <1>1
  <2> QED
    BY <1>1, <2>1, FS_Singleton DEF Bit
<1>2. CASE S = {}
  BY <1>2, FS_EmptySet DEF Bit
<1> QED
  BY <1>1, <1>2

(* The invariant says what FramesKept does.                                 *)
LEMMA Keeps ==
  ASSUME TxInv, Unwrapped
  PROVE  FramesKept
<1>1. TypeOK /\ RingAgrees
  BY OwnedDesc DEF TxInv, Shape
<1>2. ASSUME AllLocked
      PROVE  /\ \A f \in Frames :
                  ref[f] + Cardinality({c \in Contexts : pc[c] = "ref" /\ tx[c].frame = f})
                    = Cardinality(held \cap {f}) + Cardinality(Entries(f))
                      + Cardinality({c \in Contexts : pc[c] = "drop" /\ qitem[c] = f})
             /\ \A d \in Desc : own[d] = "dma" => Entries(buf[d]) # {}
  <2>1. Shape /\ Alone /\ CountOK /\ RefsOK /\ FlightOK
    BY <1>2 DEF TxInv, Balance
  <2>2. ASSUME NEW f \in Frames
        PROVE  ref[f] + Cardinality({c \in Contexts : pc[c] = "ref" /\ tx[c].frame = f})
                    = Cardinality(held \cap {f}) + Cardinality(Entries(f))
                      + Cardinality({c \in Contexts : pc[c] = "drop" /\ qitem[c] = f})
    <3> DEFINE R == {c \in Contexts : pc[c] = "ref" /\ tx[c].frame = f}
               D == {c \in Contexts : pc[c] = "drop" /\ qitem[c] = f}
               H == held \cap {f}
    <3>1. /\ \A c, d \in R : c = d
          /\ \A c, d \in D : c = d
          /\ \A c, d \in H : c = d
      BY <2>1, Lone
    <3>2. (R # {} <=> Owed(f)) /\ (D # {} <=> Dropping(f)) /\ (H # {} <=> f \in held)
      BY DEF Owed, Dropping
    <3>3. Cardinality(R) = Bit(R # {}) /\ Cardinality(D) = Bit(D # {}) /\ Cardinality(H) = Bit(H # {})
      <4> HIDE DEF R, D, H
      <4> QED
        BY <3>1, OneOrNone
    <3>4. Cardinality(Entries(f)) = Cardinality(Kept(f))
      BY <2>1, EntriesKept
    <3>5. ref[f] + Bit(Owed(f)) = Bit(f \in held) + Cardinality(Kept(f)) + Bit(Dropping(f))
      BY <2>1 DEF RefsOK
    <3>6. Cardinality(R) = Bit(Owed(f)) /\ Cardinality(D) = Bit(Dropping(f)) /\ Cardinality(H) = Bit(f \in held)
      <4> HIDE DEF R, D, H
      <4> QED
        BY <3>2, <3>3 DEF Bit
    <3> HIDE DEF R, D, H
    <3>7. ref[f] + Cardinality(R) = Cardinality(H) + Cardinality(Entries(f)) + Cardinality(D)
      BY <3>4, <3>5, <3>6
    <3> QED
      BY <3>7 DEF R, D, H
  <2>3. \A d \in Desc : own[d] = "dma" => Entries(buf[d]) # {}
    BY <2>1, EntriesKept DEF FlightOK
  <2> QED
    BY <2>2, <2>3
<1> QED
  BY <1>1, <1>2 DEF FramesKept, RefsBalanced, InFlightHeld

(* low_level_output and the DMA keep every frame in memory until it is sent: *)
(* the references balance on every path, success or error, a descriptor of  *)
(* the DMA points into a frame of tx_free_queue, and driver and DMA agree on *)
(* the ring.                                                                *)
THEOREM FramesCorrect ==
  ASSUME Unwrapped
  PROVE  Spec => []FramesKept
<1>1. Spec => []TxInv
  BY TxInvariant
<1>2. Unwrapped /\ TxInv => FramesKept
  BY Keeps
<1>3. Unwrapped
  OBVIOUS
<1>4. TxInv => FramesKept
  BY <1>2, <1>3
<1> QED
  BY <1>1, <1>4, PTL

(* Driver and DMA agree on the ring of descriptors in every setup, with and *)
(* without the calls that ethernet_thread makes without the lock of lwIP.   *)
THEOREM RingCorrect == Spec => [](TypeOK /\ RingAgrees)
<1>1. Init => Shape
  BY InitInv DEF TxInv
<1>2. Shape /\ [Next]_vars => Shape'
  BY ShapeNext
<1>3. Shape => TypeOK /\ RingAgrees
  BY OwnedDesc DEF Shape
<1> QED
  BY <1>1, <1>2, <1>3, PTL DEF Spec
=============================================================================
