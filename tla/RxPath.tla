------------------------------- MODULE RxPath -------------------------------
(***************************************************************************)
(* The receive path of src/src/utility/ethernetif.cpp: the ring of DMA     *)
(* descriptors, the spare buffers in rx_buf_queue, the custom pbufs of     *)
(* RX_POOL, and the contexts that pass buffers between them.               *)
(*                                                                         *)
(*   isr    ETH_IRQHandler -> HAL_ETH_RxCpltCallback -> ethernetif_input   *)
(*   eth    ethernet_thread, which calls ethernetif_input when the DMA     *)
(*          reports that it ran out of buffers                             *)
(*   tcpip  the lwIP thread: empties the mailbox and frees pbufs           *)
(*   app    the user's thread: stm32_get_data frees pbufs, without a lock  *)
(*                                                                         *)
(* isr preempts every thread, tcpip preempts eth (lwipopts_default.h), eth *)
(* preempts app.  The DMA runs beside all of them.                         *)
(***************************************************************************)
EXTENDS Queue, FiniteSets

CONSTANTS
  Pbufs,      (* the elements of RX_POOL                                    *)
  NoPbuf,
  MboxSize,   (* room in the mailbox of tcpip_thread: TCPIP_MBOX_SIZE       *)
  Setups      (* the builds and their traffic                               *)

ASSUME RxAssumption ==
  /\ Contexts = {"isr", "eth", "tcpip", "app"}
  /\ Items = 0 .. 2 * Capacity - 1     (* Rx_Buff[ETH_RXBUFNB * 2]          *)
  /\ IsFiniteSet(Pbufs) /\ Cardinality(Pbufs) = 2 * Capacity
  /\ NoPbuf \notin Pbufs
  /\ MboxSize \in Nat
  /\ Setups \subseteq
       [unread : 1 .. Capacity,   (* bound: received frames not yet read    *)
        long : BOOLEAN,           (* frames longer than one buffer arrive   *)
        app : BOOLEAN,            (* pbufs reach the user's thread          *)
        it : BOOLEAN]             (* ETH_INPUT_USE_IT is defined            *)

VARIABLES
  setup,   (* one of Setups, for good                                       *)
  own,     (* ETH_DMARXDESC_OWN of each descriptor: "dma" or "cpu"          *)
  kind,    (* its FS and LS bits: a whole "good" frame, or the "first" or   *)
           (* "last" buffer of a frame of two                               *)
  addr,    (* its Buffer1Addr                                               *)
  dmaDesc, (* the descriptor the DMA uses next                              *)
  rbus,    (* ETH_DMASR_RBUS: the DMA found no descriptor to use            *)
  irq,     (* the receive interrupt is pending                              *)
  locked,  (* the lock of EthHandle                                         *)
  rxDesc,  (* EthHandle.RxDesc                                              *)
  info,    (* EthHandle.RxFrameInfos: FSRxDesc, SegCount, buffer, and       *)
           (* whether length fits one buffer                                *)
  holder,  (* who holds each element of RX_POOL                             *)
  buf,     (* its field buf                                                 *)
  pc,      (* the next step of each context                                 *)
  p,       (* the pbuf each context works on                                *)
  frame    (* buffer and len in low_level_input: copies of info             *)

rxQueue  == <<queueVars, callVars>>
dmaVars  == <<own, kind, addr, dmaDesc, rbus>>
halVars  == <<locked, rxDesc, info>>
pool     == <<holder, buf>>
vars == <<setup, rxQueue, dmaVars, irq, halVars, pool, pc, p, frame>>

Desc == Slots
Receivers == {"isr", "eth"}
Bufs == Items \cup {NoItem}
Frames == [buf : Bufs, fits : BOOLEAN]
NoFrame == [buf |-> NoItem, fits |-> FALSE]  (* locals that are dead        *)
Holders == {"free", "driver", "mbox", "app"}
PcSteps == {"idle", "enter", "lock", "scan", "read", "check", "empty", "get",
            "addr", "release", "resume", "input", "free", "put", "unpool", "tx", "exit"}

TypeOK ==
  /\ setup \in Setups
  /\ QTypeOK
  /\ own \in [Desc -> {"dma", "cpu"}]
  /\ kind \in [Desc -> {"none", "good", "first", "last"}]
  /\ addr \in [Desc -> Bufs]
  /\ dmaDesc \in Desc /\ rxDesc \in Desc
  /\ rbus \in BOOLEAN /\ irq \in BOOLEAN /\ locked \in BOOLEAN
  /\ info \in [fs : Desc, seg : 0 .. 2, buf : Bufs, fits : BOOLEAN]
  /\ holder \in [Pbufs -> Holders]
  /\ buf \in [Pbufs -> Bufs]
  /\ pc \in [Contexts -> PcSteps]
  /\ p \in [Contexts -> Pbufs \cup {NoPbuf}]
  /\ frame \in [Receivers -> Frames]

(* The state low_level_init leaves: the first half of Rx_Buff in the        *)
(* descriptors, the second half queued.                                     *)
Init ==
  /\ setup \in Setups
  /\ front = 0
  /\ rear = Capacity - 1
  /\ put_cnt = Capacity
  /\ get_cnt = 0
  /\ array = [i \in Slots |-> Capacity + i]
  /\ qpc = [c \in Contexts |-> "idle"]
  /\ qitem = [c \in Contexts |-> NoItem]
  /\ own = [d \in Desc |-> "dma"]
  /\ kind = [d \in Desc |-> "none"]
  /\ addr = [d \in Desc |-> d]
  /\ dmaDesc = 0
  /\ rxDesc = 0
  /\ rbus = FALSE
  /\ irq = FALSE
  /\ locked = FALSE
  /\ info = [fs |-> 0, seg |-> 0, buf |-> NoItem, fits |-> FALSE]
  /\ holder = [x \in Pbufs |-> "free"]
  /\ buf = [x \in Pbufs |-> NoItem]
  /\ pc = [c \in Contexts |-> "idle"]
  /\ p = [c \in Contexts |-> NoPbuf]
  /\ frame = [c \in Receivers |-> NoFrame]

-----------------------------------------------------------------------------
(* The DMA.                                                                 *)
Unread == {d \in Desc : own[d] = "cpu"}
MidFrame == kind[(dmaDesc + Capacity - 1) % Capacity] = "first"

Arrivals == IF MidFrame THEN {"last"}
            ELSE IF setup.long THEN {"good", "first"} ELSE {"good"}

DmaReceive ==
  /\ own[dmaDesc] = "dma"
  /\ Cardinality(Unread) < setup.unread
  /\ \E k \in Arrivals :
       /\ kind' = [kind EXCEPT ![dmaDesc] = k]
       /\ irq' = (irq \/ (setup.it /\ k # "first"))
  /\ own' = [own EXCEPT ![dmaDesc] = "cpu"]
  /\ dmaDesc' = Next_(dmaDesc)
  /\ UNCHANGED <<setup, rxQueue, addr, rbus, halVars, pool, pc, p, frame>>

DmaStarved ==
  /\ own[dmaDesc] = "cpu"
  /\ ~rbus
  /\ rbus' = TRUE
  /\ UNCHANGED <<setup, rxQueue, own, kind, addr, dmaDesc, irq, halVars,
                 pool, pc, p, frame>>

-----------------------------------------------------------------------------
(* Who may run: a context runs until a higher one has work to do.           *)
Above(c) == CASE c = "isr"   -> {}
              [] c = "tcpip" -> {"isr"}
              [] c = "eth"   -> {"isr", "tcpip"}
              [] c = "app"   -> {"isr", "tcpip", "eth"}

Runs(c, step) ==
  /\ pc[c] = step
  /\ \A h \in Above(c) : pc[h] = "idle"
  /\ c # "isr" => ~irq

Jump(c, step) == pc' = [pc EXCEPT ![c] = step]

(* ethernetif_input is over for context c.                                  *)
Leave(c) == Jump(c, IF c = "isr" THEN "exit" ELSE "idle")

IrqEnter ==
  /\ irq
  /\ Runs("isr", "idle")
  /\ Jump("isr", "enter")
  /\ UNCHANGED <<setup, rxQueue, dmaVars, irq, halVars, pool, p, frame>>

(* The end of HAL_ETH_IRQHandler: it acknowledges the interrupt after the   *)
(* callback and unlocks EthHandle, whoever locked it.                       *)
IrqReturn ==
  /\ Runs("isr", "exit")
  /\ irq' = FALSE
  /\ locked' = FALSE
  /\ Jump("isr", "idle")
  /\ UNCHANGED <<setup, rxQueue, dmaVars, rxDesc, info, pool, p, frame>>

EthPoll ==
  /\ Runs("eth", "idle")
  /\ rbus
  /\ Jump("eth", "enter")
  /\ UNCHANGED <<setup, rxQueue, dmaVars, irq, halVars, pool, p, frame>>

(* LWIP_MEMPOOL_FREE; the content of a freed element means nothing.         *)
MempFree(x) ==
  /\ holder' = [holder EXCEPT ![x] = "free"]
  /\ buf' = [buf EXCEPT ![x] = NoItem]

-----------------------------------------------------------------------------
(* low_level_input, by isr or eth.                                          *)
RxEnter(c) ==
  /\ Runs(c, "enter")
  /\ info' = [info EXCEPT !.seg = 0]
  /\ Jump(c, "lock")
  /\ UNCHANGED <<setup, rxQueue, dmaVars, irq, locked, rxDesc, pool, p, frame>>

(* HAL_ETH_GetReceivedFrame_IT: lock EthHandle or report HAL_BUSY, then     *)
(* read the descriptors from RxDesc on, up to the last of a frame.  Its     *)
(* bound of ETH_RXBUFNB descriptors is never met: a "last" follows every    *)
(* "first" that has been received.                                          *)
HalLock(c) ==
  /\ Runs(c, "lock")
  /\ locked' = TRUE
  /\ IF locked THEN Leave(c) ELSE Jump(c, "scan")
  /\ UNCHANGED <<setup, rxQueue, dmaVars, irq, rxDesc, info, pool, p, frame>>

ScanNoneLocked(c) ==
  /\ Runs(c, "scan")
  /\ own[rxDesc] = "dma"
  /\ Leave(c)
  /\ UNCHANGED <<setup, rxQueue, dmaVars, irq, halVars, pool, p, frame>>

ScanNone(c) ==
  /\ Runs(c, "scan")
  /\ own[rxDesc] = "dma"
  /\ locked' = FALSE
  /\ Leave(c)
  /\ UNCHANGED <<setup, rxQueue, dmaVars, irq, rxDesc, info, pool, p, frame>>

ScanFirst(c) ==
  /\ Runs(c, "scan")
  /\ own[rxDesc] = "cpu" /\ kind[rxDesc] = "first"
  /\ info' = [info EXCEPT !.fs = rxDesc, !.seg = 1]
  /\ rxDesc' = Next_(rxDesc)
  /\ UNCHANGED <<setup, rxQueue, dmaVars, irq, locked, pool, pc, p, frame>>

ScanLast(c) ==
  /\ Runs(c, "scan")
  /\ own[rxDesc] = "cpu" /\ kind[rxDesc] # "first"
  /\ LET fs == IF info.seg = 0 THEN rxDesc ELSE info.fs
     IN  info' = [fs |-> fs, seg |-> info.seg + 1, buf |-> addr[fs],
                  fits |-> kind[rxDesc] = "good"]
  /\ rxDesc' = Next_(rxDesc)
  /\ locked' = FALSE
  /\ Jump(c, "read")
  /\ UNCHANGED <<setup, rxQueue, dmaVars, irq, pool, p, frame>>

RxRead(c) ==
  /\ Runs(c, "read")
  /\ frame' = [frame EXCEPT ![c] = [buf |-> info.buf, fits |-> info.fits]]
  /\ Jump(c, "check")
  /\ UNCHANGED <<setup, rxQueue, dmaVars, irq, halVars, pool, p>>

(* The three ways out of the do-while: the frame is dropped and the pbuf,   *)
(* if there is one, goes back.                                              *)
RxReject(c) ==
  /\ Runs(c, "check")
  /\ ~frame[c].fits \/ info.seg # 1 \/ \A x \in Pbufs : holder[x] # "free"
  /\ p' = [p EXCEPT ![c] = NoPbuf]
  /\ frame' = [frame EXCEPT ![c] = NoFrame]
  /\ Jump(c, "release")
  /\ UNCHANGED <<setup, rxQueue, dmaVars, irq, halVars, pool>>

(* pbuf_alloced_custom cannot fail: the length has been checked.            *)
RxAlloc(c) ==
  /\ Runs(c, "check")
  /\ frame[c].fits /\ info.seg = 1
  /\ \E x \in Pbufs :
       /\ holder[x] = "free"
       /\ holder' = [holder EXCEPT ![x] = "driver"]
       /\ buf' = [buf EXCEPT ![x] = frame[c].buf]
       /\ p' = [p EXCEPT ![c] = x]
  /\ frame' = [frame EXCEPT ![c] = NoFrame]
  /\ Jump(c, "empty")
  /\ UNCHANGED <<setup, rxQueue, dmaVars, irq, halVars>>

RxNoBufferPbufFree(c) ==
  /\ Runs(c, "empty")
  /\ IsEmpty
  /\ Jump(c, "free")
  /\ UNCHANGED <<setup, rxQueue, dmaVars, irq, halVars, pool, p, frame>>

RxNoBuffer(c) ==
  /\ Runs(c, "empty")
  /\ IsEmpty
  /\ MempFree(p[c])
  /\ p' = [p EXCEPT ![c] = NoPbuf]
  /\ Jump(c, "release")
  /\ UNCHANGED <<setup, rxQueue, dmaVars, irq, halVars, frame>>

RxHasBufferUnchecked(c) ==
  /\ Runs(c, "empty")
  /\ Jump(c, "get")
  /\ UNCHANGED <<setup, rxQueue, dmaVars, irq, halVars, pool, p, frame>>

RxHasBuffer(c) ==
  /\ Runs(c, "empty")
  /\ ~IsEmpty
  /\ Jump(c, "get")
  /\ UNCHANGED <<setup, rxQueue, dmaVars, irq, halVars, pool, p, frame>>

(* queue_get(&rx_buf_queue)                                                 *)
RxGet(c) ==
  /\ Runs(c, "get")
  /\ \/ (GetCall(c) \/ GetItem(c) \/ GetFront(c)) /\ UNCHANGED pc
     \/ (GetNull(c) \/ GetCount(c)) /\ Jump(c, "addr")
  /\ UNCHANGED <<setup, dmaVars, irq, halVars, pool, p, frame>>

RxAddr(c) ==
  /\ Runs(c, "addr")
  /\ addr' = [addr EXCEPT ![info.fs] = qitem[c]]
  /\ qitem' = [qitem EXCEPT ![c] = NoItem]
  /\ Jump(c, "release")
  /\ UNCHANGED <<setup, queueVars, qpc, own, kind, dmaDesc, rbus, irq, halVars, pool, p, frame>>

(* Descriptors back to the DMA; then receive poll demand.                   *)
FrameDesc == {(info.fs + i) % Capacity : i \in 0 .. info.seg - 1}

RxReleaseOnSuccess(c) ==
  /\ Runs(c, "release")
  /\ own' = [d \in Desc |-> IF d \in FrameDesc /\ p[c] # NoPbuf THEN "dma" ELSE own[d]]
  /\ info' = [info EXCEPT !.seg = 0]
  /\ Jump(c, "resume")
  /\ UNCHANGED <<setup, rxQueue, kind, addr, dmaDesc, rbus, irq, locked, rxDesc, pool, p, frame>>

RxRelease(c) ==
  /\ Runs(c, "release")
  /\ own' = [d \in Desc |-> IF d \in FrameDesc THEN "dma" ELSE own[d]]
  /\ info' = [info EXCEPT !.seg = 0]
  /\ Jump(c, "resume")
  /\ UNCHANGED <<setup, rxQueue, kind, addr, dmaDesc, rbus, irq, locked, rxDesc, pool, p, frame>>

RxResumeOnSuccess(c) ==
  /\ Runs(c, "resume")
  /\ rbus' = (rbus /\ p[c] = NoPbuf)
  /\ IF p[c] = NoPbuf THEN Leave(c) ELSE Jump(c, "input")
  /\ UNCHANGED <<setup, rxQueue, own, kind, addr, dmaDesc, irq, halVars, pool, p, frame>>

RxResume(c) ==
  /\ Runs(c, "resume")
  /\ rbus' = FALSE
  /\ IF p[c] = NoPbuf THEN Leave(c) ELSE Jump(c, "input")
  /\ UNCHANGED <<setup, rxQueue, own, kind, addr, dmaDesc, irq, halVars, pool, p, frame>>

-----------------------------------------------------------------------------
(* ethernetif_input: netif->input posts the pbuf to tcpip_thread; when the  *)
(* mailbox is full the pbuf is freed and the loop goes on.                  *)
InMbox == {x \in Pbufs : holder[x] = "mbox"}

RxInput(c) ==
  /\ Runs(c, "input")
  /\ IF Cardinality(InMbox) < MboxSize
     THEN /\ holder' = [holder EXCEPT ![p[c]] = "mbox"]
          /\ p' = [p EXCEPT ![c] = NoPbuf]
          /\ Jump(c, "enter")
     ELSE Jump(c, "free") /\ UNCHANGED <<holder, p>>
  /\ UNCHANGED <<setup, rxQueue, dmaVars, irq, halVars, buf, frame>>

(* tcpip_thread takes a pbuf from its mailbox and frees it, or hands it to  *)
(* the user, who frees it when it has been read.                            *)
TcpipFetch ==
  /\ Runs("tcpip", "idle")
  /\ \E x \in InMbox :
       \/ /\ holder' = [holder EXCEPT ![x] = "driver"]
          /\ p' = [p EXCEPT !["tcpip"] = x]
          /\ Jump("tcpip", "free")
       \/ /\ setup.app
          /\ holder' = [holder EXCEPT ![x] = "app"]
          /\ UNCHANGED <<pc, p>>
  /\ UNCHANGED <<setup, rxQueue, dmaVars, irq, halVars, buf, frame>>

AppRead ==
  /\ Runs("app", "idle")
  /\ \E x \in Pbufs :
       /\ holder[x] = "app"
       /\ holder' = [holder EXCEPT ![x] = "driver"]
       /\ p' = [p EXCEPT !["app"] = x]
  /\ Jump("app", "free")
  /\ UNCHANGED <<setup, rxQueue, dmaVars, irq, halVars, buf, frame>>

(* lwip_custom_pbuf_free: the buffer goes to rx_buf_queue by queue_put, a   *)
(* full queue is only logged, then the pbuf goes to RX_POOL.                *)
FreeCall(c) ==
  /\ Runs(c, "free")
  /\ \/ PutCall(c, buf[p[c]]) /\ Jump(c, "put")
     \/ PutRefused(c) /\ Jump(c, "unpool")
  /\ UNCHANGED <<setup, dmaVars, irq, halVars, pool, p, frame>>

FreePut(c) ==
  /\ Runs(c, "put")
  /\ \/ (PutRear(c) \/ PutSlot(c)) /\ UNCHANGED pc
     \/ PutCount(c) /\ Jump(c, "unpool")
  /\ UNCHANGED <<setup, dmaVars, irq, halVars, pool, p, frame>>

FreePbuf(c) ==
  /\ Runs(c, "unpool")
  /\ MempFree(p[c])
  /\ p' = [p EXCEPT ![c] = NoPbuf]
  /\ Jump(c, IF c \in Receivers THEN "enter" ELSE "idle")
  /\ UNCHANGED <<setup, rxQueue, dmaVars, irq, halVars, frame>>

-----------------------------------------------------------------------------
(* HAL_ETH_TransmitFrame2 holds the lock of EthHandle in the tcpip thread.  *)
TxLock ==
  /\ Runs("tcpip", "idle")
  /\ ~locked
  /\ locked' = TRUE
  /\ Jump("tcpip", "tx")
  /\ UNCHANGED <<setup, rxQueue, dmaVars, irq, rxDesc, info, pool, p, frame>>

TxUnlock ==
  /\ Runs("tcpip", "tx")
  /\ locked' = FALSE
  /\ Jump("tcpip", "idle")
  /\ UNCHANGED <<setup, rxQueue, dmaVars, irq, rxDesc, info, pool, p, frame>>

Input(c) ==
  \/ RxEnter(c) \/ HalLock(c) \/ ScanNone(c) \/ ScanFirst(c) \/ ScanLast(c)
  \/ RxRead(c) \/ RxReject(c) \/ RxAlloc(c) \/ RxNoBuffer(c) \/ RxHasBuffer(c)
  \/ RxGet(c) \/ RxAddr(c) \/ RxRelease(c) \/ RxResume(c) \/ RxInput(c)

Free(c) == FreeCall(c) \/ FreePut(c) \/ FreePbuf(c)

Next ==
  \/ DmaReceive \/ DmaStarved
  \/ IrqEnter \/ IrqReturn \/ EthPoll \/ TcpipFetch \/ AppRead \/ TxLock \/ TxUnlock
  \/ \E c \in Receivers : Input(c)
  \/ \E c \in Contexts : Free(c)

Spec == Init /\ [][Next]_vars

(* The interrupt and tcpip_thread run whenever they have work; the          *)
(* scheduler runs ethernet_thread now and then even when they preempt it    *)
(* again and again.                                                         *)
IsrStep == IrqEnter \/ IrqReturn \/ Input("isr") \/ Free("isr")
EthStep == EthPoll \/ Input("eth") \/ Free("eth")
TcpipStep == TcpipFetch \/ TxUnlock \/ Free("tcpip")

FairSpec == Spec /\ WF_vars(IsrStep) /\ WF_vars(TcpipStep) /\ SF_vars(EthStep)

Live == {x \in Pbufs : holder[x] # "free"}

-----------------------------------------------------------------------------
(* Where the buffers are.  A pbuf keeps its buffer until queue_put has      *)
(* counted it; a descriptor keeps its own until a pbuf has taken it and the *)
(* receiver has not yet put another in its place or given up.               *)
HoldsBuffer(x) ==
  holder[x] # "free" /\ \A c \in Contexts : p[c] = x => pc[c] # "unpool"

Taken(d) ==
  \E c \in Receivers : pc[c] \in {"empty", "get", "addr"} /\ info.fs = d

InDesc(b)  == {d \in Desc : addr[d] = b /\ ~Taken(d)}
InQueue(b) == {k \in 0 .. Count - 1 : array[SlotAt(k)] = b}
InPbuf(b)  == {x \in Pbufs : HoldsBuffer(x) /\ buf[x] = b}
InHand(b)  == {c \in Receivers : pc[c] = "addr" /\ qitem[c] = b}

(* No receive buffer is lost, and none is handed out twice: at every step   *)
(* of every context each buffer is with one descriptor, in the queue once,  *)
(* or with one pbuf.  lwip_custom_pbuf_free and low_level_input have to     *)
(* keep this up between them.                                               *)
BuffersConserved ==
  \A b \in Items :
    Cardinality(InDesc(b)) + Cardinality(InQueue(b))
      + Cardinality(InPbuf(b)) + Cardinality(InHand(b)) = 1

(* The DMA never writes into a buffer a pbuf still presents to lwIP or to   *)
(* the user.                                                                *)
DmaWritesOwn ==
  \A d \in Desc, x \in Pbufs :
    own[d] = "dma" /\ HoldsBuffer(x) => addr[d] # buf[x]

(* The types, and both of the above: what a receive buffer needs.           *)
BuffersSafe == TypeOK /\ BuffersConserved /\ DmaWritesOwn

(* The sizes fit together: "RX Q full" and "RX_POOL empty" are never        *)
(* logged, a mailbox with room for every descriptor never refuses a pbuf,   *)
(* and a frame is dropped only for its length or for want of a buffer.      *)
SuppliesSuffice ==
  /\ \A c \in Contexts : pc[c] = "free" => ~IsFull
  /\ \A c \in Receivers : pc[c] = "check" => Live # Pbufs
  /\ \A c \in Receivers : pc[c] = "input" => Cardinality(InMbox) < MboxSize

(* Every descriptor the DMA does not own is one that is still to be read,   *)
(* or belongs to the frame being read: low_level_input strands none, as     *)
(* long as every frame fits one.                                            *)
Pending ==
  IF rxDesc # dmaDesc THEN (dmaDesc + Capacity - rxDesc) % Capacity
  ELSE IF own[rxDesc] = "cpu" /\ rxDesc \notin FrameDesc THEN Capacity ELSE 0

NoneStranded ==
  setup.long \/ Unread \subseteq {(rxDesc + i) % Capacity : i \in 0 .. Pending - 1}
                                   \cup FrameDesc

(* When every context is done, EthHandle is unlocked: neither a preempted   *)
(* receive call nor a preempted transmission leaves it locked, which would  *)
(* make every later one fail with HAL_BUSY.                                 *)
LockReleased == (\A c \in Contexts : pc[c] = "idle") => ~locked

(* Reception that stopped for want of a descriptor is resumed.              *)
ReceptionResumes == rbus ~> ~rbus
=============================================================================
