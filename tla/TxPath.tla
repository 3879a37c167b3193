------------------------------- MODULE TxPath -------------------------------
(***************************************************************************)
(* The transmit path of src/src/utility/ethernetif.cpp: low_level_output,  *)
(* HAL_ETH_TransmitFrame2, the ring of DMA descriptors, and tx_free_queue, *)
(* which keeps a reference to each frame until the DMA is done with all.   *)
(*                                                                         *)
(* lwIP sends under its core lock, from the tcpip thread, the user's       *)
(* thread or ethernet_thread, so one frame is on its way through           *)
(* low_level_output at a time.  ethernet_thread also calls it without the  *)
(* lock and without a frame, when the DMA reports an underflow.  tcpip     *)
(* preempts eth and eth preempts app; the DMA and the Ethernet interrupt   *)
(* run beside all of them.                                                 *)
(***************************************************************************)
EXTENDS Queue, FiniteSets

CONSTANTS
  Setups,     (* the builds and what goes on beside lwIP                    *)
  PutLimit    (* bound on the life of tx_free_queue: frames are sent while  *)
              (* put_cnt < PutLimit; CntMod stands for no bound             *)

Frames == Items
NoFrame == NoItem

ASSUME TxAssumption ==
  /\ {"eth"} \subseteq Contexts /\ Contexts \subseteq {"tcpip", "eth", "app"}
  /\ IsFiniteSet(Frames)
  /\ Setups \subseteq
       [frames : SUBSET Frames,        (* those that are sent                *)
        chains : SUBSET (Nat \ {0}),  (* the lengths of their pbuf chains   *)
        long : BOOLEAN,    (* a pbuf may be longer than ETH_TX_BUF_SIZE     *)
        drains : BOOLEAN,  (* ethernet_thread reacts to an underflow        *)
        rx : BOOLEAN,      (* and receives: it locks EthHandle              *)
        it : BOOLEAN]      (* ETH_INPUT_USE_IT is defined                   *)
  /\ PutLimit \in 1 .. CntMod

VARIABLES
  setup,     (* one of Setups, for good                                     *)
  own,       (* ETH_DMATXDESC_OWN of each descriptor: "dma" or "cpu"        *)
  last,      (* its ETH_DMATXDESC_LS                                        *)
  buf,       (* the frame its Buffer1Addr points into                       *)
  txDesc,    (* EthHandle.TxDesc                                            *)
  dmaDesc,   (* the descriptor the DMA uses next                            *)
  midFrame,  (* the DMA has sent a part of a frame                          *)
  suspended, (* the DMA waits for a transmit poll demand                    *)
  tbus, tus, (* ETH_DMASR_TBUS and ETH_DMASR_TUS                            *)
  locked,    (* the lock of EthHandle                                       *)
  ref,       (* the reference count of each frame, 0 when it is free        *)
  held,      (* the frames lwIP has a reference to                          *)
  pc,        (* the next step of each context                               *)
  tx         (* the parameters and locals of low_level_output, by context   *)

txQueue == <<queueVars, callVars>>
descs   == <<own, last, buf>>
dmaVars == <<dmaDesc, midFrame, suspended, tbus, tus>>
refs    == <<ref, held>>
vars == <<setup, txQueue, descs, txDesc, dmaVars, locked, refs, pc, tx>>

Desc == Slots
Locals == [frame : Frames \cup {NoFrame},
           clen : setup.chains \cup {0},  (* pbuf_clen(p)                      *)
           desc : Desc,                (* DmaTxDesc                         *)
           idle : BOOLEAN,             (* i == ETH_TXBUFNB after the scan   *)
           bufcount : 0 .. Capacity,
           given : 0 .. Capacity,      (* i of HAL_ETH_TransmitFrame2       *)
           ok : BOOLEAN]               (* errval is ERR_OK                  *)
NoCall == [frame |-> NoFrame, clen |-> 0, desc |-> 0, idle |-> FALSE,
           bufcount |-> 0, given |-> 0, ok |-> FALSE]
PcSteps == {"idle", "scan", "drain", "get", "drop", "seg", "put", "ref", "lock",
            "give", "tbus", "unlock", "tus", "rx"}

TypeOK ==
  /\ setup \in Setups
  /\ QTypeOK
  /\ own \in [Desc -> {"dma", "cpu"}]
  /\ last \in [Desc -> BOOLEAN]
  /\ buf \in [Desc -> Frames \cup {NoFrame}]
  /\ txDesc \in Desc /\ dmaDesc \in Desc
  /\ {midFrame, suspended, tbus, tus, locked} \subseteq BOOLEAN
  /\ ref \in [Frames -> 0 .. Capacity + 1]
  /\ held \subseteq Frames
  /\ pc \in [Contexts -> PcSteps]
  /\ tx \in [Contexts -> Locals]

(* The state low_level_init leaves, the DMA started with nothing to send.   *)
Init ==
  /\ setup \in Setups
  /\ QInit
  /\ own = [d \in Desc |-> "cpu"]
  /\ last = [d \in Desc |-> FALSE]
  /\ buf = [d \in Desc |-> NoFrame]
  /\ txDesc = 0
  /\ dmaDesc = 0
  /\ midFrame = FALSE
  /\ suspended = FALSE
  /\ tbus = FALSE
  /\ tus = FALSE
  /\ locked = FALSE
  /\ ref = [f \in Frames |-> 0]
  /\ held = {}
  /\ pc = [c \in Contexts |-> "idle"]
  /\ tx = [c \in Contexts |-> NoCall]

-----------------------------------------------------------------------------
(* The DMA sends descriptor after descriptor and suspends when the next one *)
(* is not its own, or when its FIFO runs empty within a frame.              *)
DmaSend ==
  /\ ~suspended
  /\ own[dmaDesc] = "dma"
  /\ own' = [own EXCEPT ![dmaDesc] = "cpu"]
  /\ midFrame' = ~last[dmaDesc]
  /\ dmaDesc' = Next_(dmaDesc)
  /\ UNCHANGED <<setup, txQueue, last, buf, txDesc, suspended, tbus, tus, locked, refs, pc, tx>>

DmaSuspend ==
  /\ ~suspended
  /\ own[dmaDesc] = "cpu"
  /\ suspended' = TRUE
  /\ tbus' = TRUE
  /\ tus' = (tus \/ midFrame)
  /\ UNCHANGED <<setup, txQueue, descs, txDesc, dmaDesc, midFrame, locked, refs, pc, tx>>

DmaUnderflow ==
  /\ ~suspended
  /\ own[dmaDesc] = "dma"
  /\ suspended' = TRUE
  /\ tus' = TRUE
  /\ UNCHANGED <<setup, txQueue, descs, txDesc, dmaDesc, midFrame, tbus, locked, refs, pc, tx>>

-----------------------------------------------------------------------------
Above(c) == CASE c = "tcpip" -> {}
              [] c = "eth"   -> {"tcpip"}
              [] c = "app"   -> {"tcpip", "eth"}

Runs(c, step) ==
  /\ pc[c] = step
  /\ \A h \in Above(c) \cap Contexts : pc[h] = "idle"

Jump(c, step) == pc' = [pc EXCEPT ![c] = step]

(* pbuf_free: a frame without references is deallocated; to free it once    *)
(* more is caught by an assertion of lwIP, which goes on.                   *)
PbufFree(f) ==
  ref' = [g \in Frames |-> IF g = f /\ ref[g] > 0 THEN ref[g] - 1 ELSE ref[g]]

(* lwIP sends a new frame, or again one that only it still refers to.       *)
Sending == {c \in Contexts : tx[c].frame # NoFrame}

SendCall(c) ==
  /\ Runs(c, "idle")
  /\ Sending = {}
  /\ put_cnt < PutLimit
  /\ \E f \in setup.frames, n \in setup.chains :
       /\ ref[f] = 0 \/ (f \in held /\ ref[f] = 1)
       /\ ref' = [ref EXCEPT ![f] = 1]
       /\ held' = held \cup {f}
       /\ tx' = [tx EXCEPT ![c] = [NoCall EXCEPT !.frame = f, !.clen = n]]
  /\ Jump(c, "scan")
  /\ UNCHANGED <<setup, txQueue, descs, txDesc, dmaVars, locked>>

(* lwIP frees its reference to a frame it has sent, under its core lock.    *)
LwipFree ==
  /\ Sending = {}
  /\ \E f \in held :
       /\ held' = held \ {f}
       /\ PbufFree(f)
  /\ UNCHANGED <<setup, txQueue, descs, txDesc, dmaVars, locked, pc, tx>>

(* ethernet_thread calls ethernetif_output(&gnetif, NULL).                  *)
EthOutput ==
  /\ setup.drains
  /\ Runs("eth", "idle")
  /\ tus
  /\ tx' = [tx EXCEPT !["eth"] = NoCall]
  /\ Jump("eth", "scan")
  /\ UNCHANGED <<setup, txQueue, descs, txDesc, dmaVars, locked, refs>>

-----------------------------------------------------------------------------
(* low_level_output.                                                        *)
Fail(c) == Jump(c, "tus") /\ tx' = [tx EXCEPT ![c].ok = FALSE]

ScanShort(c) ==
  /\ Runs(c, "scan")
  /\ tx' = [tx EXCEPT ![c].idle = FALSE]
  /\ Jump(c, "drain")
  /\ UNCHANGED <<setup, txQueue, descs, txDesc, dmaVars, locked, refs>>

Scan(c) ==
  /\ Runs(c, "scan")
  /\ tx' = [tx EXCEPT ![c].idle = \A d \in Desc : own[d] = "cpu"]
  /\ Jump(c, "drain")
  /\ UNCHANGED <<setup, txQueue, descs, txDesc, dmaVars, locked, refs>>

Drain(c) ==
  /\ Runs(c, "drain")
  /\ tx[c].idle /\ ~IsEmpty
  /\ Jump(c, "get")
  /\ UNCHANGED <<setup, txQueue, descs, txDesc, dmaVars, locked, refs, tx>>

(* queue_get(&tx_free_queue)                                                *)
DrainGet(c) ==
  /\ Runs(c, "get")
  /\ \/ (GetCall(c) \/ GetItem(c) \/ GetFront(c)) /\ UNCHANGED pc
     \/ (GetNull(c) \/ GetCount(c)) /\ Jump(c, "drop")
  /\ UNCHANGED <<setup, descs, txDesc, dmaVars, locked, refs, tx>>

Drop(c) ==
  /\ Runs(c, "drop")
  /\ PbufFree(qitem[c])
  /\ qitem' = [qitem EXCEPT ![c] = NoItem]
  /\ Jump(c, "drain")
  /\ UNCHANGED <<setup, queueVars, qpc, descs, txDesc, dmaVars, locked, held, tx>>

Drained(c) ==
  /\ Runs(c, "drain")
  /\ ~tx[c].idle \/ IsEmpty
  /\ IF tx[c].clen > Capacity
     THEN Fail(c)
     ELSE Jump(c, "seg") /\ tx' = [tx EXCEPT ![c].desc = txDesc]
  /\ UNCHANGED <<setup, txQueue, descs, txDesc, dmaVars, locked, refs>>

(* The for loop over the pbufs of the chain.                                *)
NextSeg(c) == Runs(c, "seg") /\ tx[c].bufcount < tx[c].clen

Available(c) == own[tx[c].desc] = "cpu"

SegFail(c) ==
  /\ NextSeg(c)
  /\ ~Available(c) \/ setup.long
  /\ Fail(c)
  /\ UNCHANGED <<setup, txQueue, descs, txDesc, dmaVars, locked, refs>>

Fill(c) ==
  /\ buf' = [buf EXCEPT ![tx[c].desc] = tx[c].frame]
  /\ tx' = [tx EXCEPT ![c].bufcount = @ + 1, ![c].desc = Next_(@)]
  /\ Jump(c, "seg")

SegFirst(c) ==
  /\ NextSeg(c)
  /\ Available(c) /\ tx[c].bufcount = 0
  /\ \/ PutCall(c, tx[c].frame) /\ Jump(c, "put") /\ UNCHANGED tx
     \/ PutRefused(c) /\ Fail(c)
  /\ UNCHANGED <<setup, descs, txDesc, dmaVars, locked, refs>>

SegPut(c) ==
  /\ Runs(c, "put")
  /\ \/ (PutRear(c) \/ PutSlot(c)) /\ UNCHANGED pc
     \/ PutCount(c) /\ Jump(c, "ref")
  /\ UNCHANGED <<setup, descs, txDesc, dmaVars, locked, refs, tx>>

SegRefSkipped(c) ==
  /\ Runs(c, "ref")
  /\ Fill(c)
  /\ UNCHANGED <<setup, txQueue, own, last, txDesc, dmaVars, locked, refs>>

SegRef(c) ==
  /\ Runs(c, "ref")
  /\ ref' = [ref EXCEPT ![tx[c].frame] = @ + 1]
  /\ Fill(c)
  /\ UNCHANGED <<setup, txQueue, own, last, txDesc, dmaVars, locked, held>>

SegNext(c) ==
  /\ NextSeg(c)
  /\ Available(c) /\ tx[c].bufcount > 0
  /\ Fill(c)
  /\ UNCHANGED <<setup, txQueue, own, last, txDesc, dmaVars, locked, refs>>

SegEnd(c) ==
  /\ Runs(c, "seg")
  /\ tx[c].bufcount = tx[c].clen
  /\ Jump(c, "lock")
  /\ UNCHANGED <<setup, txQueue, descs, txDesc, dmaVars, locked, refs, tx>>

-----------------------------------------------------------------------------
(* HAL_ETH_TransmitFrame2, whose result low_level_output ignores.  Its test *)
(* of the first descriptor is never met: the loop above has just made it.   *)
HalBusy(c) ==
  /\ Runs(c, "lock")
  /\ locked
  /\ tx' = [tx EXCEPT ![c].ok = TRUE]
  /\ Jump(c, "tus")
  /\ UNCHANGED <<setup, txQueue, descs, txDesc, dmaVars, locked, refs>>

HalLock(c) ==
  /\ Runs(c, "lock")
  /\ ~locked
  /\ locked' = TRUE
  /\ tx' = [tx EXCEPT ![c].ok = TRUE]
  /\ Jump(c, IF tx[c].bufcount = 0 THEN "unlock" ELSE "give")
  /\ UNCHANGED <<setup, txQueue, descs, txDesc, dmaVars, refs>>

GiveAllButLast(c) ==
  /\ Runs(c, "give")
  /\ LET n == tx[c].given + 1
     IN  /\ last' = [last EXCEPT ![txDesc] = (n = tx[c].bufcount)]
         /\ tx' = [tx EXCEPT ![c].given = n]
         /\ Jump(c, IF n >= tx[c].bufcount - 1 THEN "tbus" ELSE "give")
  /\ own' = [own EXCEPT ![txDesc] = "dma"]
  /\ txDesc' = Next_(txDesc)
  /\ UNCHANGED <<setup, txQueue, buf, dmaVars, locked, refs>>

Give(c) ==
  /\ Runs(c, "give")
  /\ LET n == tx[c].given + 1
     IN  /\ last' = [last EXCEPT ![txDesc] = (n = tx[c].bufcount)]
         /\ tx' = [tx EXCEPT ![c].given = n]
         /\ Jump(c, IF n = tx[c].bufcount THEN "tbus" ELSE "give")
  /\ own' = [own EXCEPT ![txDesc] = "dma"]
  /\ txDesc' = Next_(txDesc)
  /\ UNCHANGED <<setup, txQueue, buf, dmaVars, locked, refs>>

ResumeNoPoll(c) ==
  /\ Runs(c, "tbus")
  /\ tbus' = FALSE
  /\ Jump(c, "unlock")
  /\ UNCHANGED <<setup, txQueue, descs, txDesc, dmaDesc, midFrame, suspended, tus, locked, refs, tx>>

Resume(c) ==
  /\ Runs(c, "tbus")
  /\ tbus' = FALSE
  /\ suspended' = (suspended /\ ~tbus)
  /\ Jump(c, "unlock")
  /\ UNCHANGED <<setup, txQueue, descs, txDesc, dmaDesc, midFrame, tus, locked, refs, tx>>

Unlock(c) ==
  /\ Runs(c, "unlock")
  /\ locked' = FALSE
  /\ Jump(c, "tus")
  /\ UNCHANGED <<setup, txQueue, descs, txDesc, dmaVars, refs, tx>>

(* The end of low_level_output, on success and on error.                    *)
Finish(c) ==
  /\ Runs(c, "tus")
  /\ tus' = FALSE
  /\ suspended' = (suspended /\ ~tus)
  /\ tx' = [tx EXCEPT ![c] = NoCall]
  /\ Jump(c, "idle")
  /\ UNCHANGED <<setup, txQueue, descs, txDesc, dmaDesc, midFrame, tbus, locked, refs>>

Output(c) ==
  \/ Scan(c) \/ Drain(c) \/ DrainGet(c) \/ Drop(c) \/ Drained(c)
  \/ SegFail(c) \/ SegFirst(c) \/ SegPut(c) \/ SegRef(c) \/ SegNext(c) \/ SegEnd(c)
  \/ HalBusy(c) \/ HalLock(c) \/ Give(c) \/ Resume(c) \/ Unlock(c) \/ Finish(c)

-----------------------------------------------------------------------------
(* The other users of the lock of EthHandle: the receive call that          *)
(* ethernet_thread makes, and the interrupt handler, which unlocks it.      *)
RxLock ==
  /\ setup.rx
  /\ Runs("eth", "idle")
  /\ ~locked
  /\ locked' = TRUE
  /\ Jump("eth", "rx")
  /\ UNCHANGED <<setup, txQueue, descs, txDesc, dmaVars, refs, tx>>

RxUnlock ==
  /\ Runs("eth", "rx")
  /\ locked' = FALSE
  /\ Jump("eth", "idle")
  /\ UNCHANGED <<setup, txQueue, descs, txDesc, dmaVars, refs, tx>>

IrqUnlock ==
  /\ setup.it
  /\ locked
  /\ locked' = FALSE
  /\ UNCHANGED <<setup, txQueue, descs, txDesc, dmaVars, refs, pc, tx>>

Next ==
  \/ DmaSend \/ DmaSuspend \/ DmaUnderflow
  \/ LwipFree \/ EthOutput \/ RxLock \/ RxUnlock \/ IrqUnlock
  \/ \E c \in Contexts : SendCall(c) \/ Output(c)

Spec == Init /\ [][Next]_vars

(* A call that has begun goes on, ethernet_thread polls the DMA, and the    *)
(* DMA gets through a frame if it is resumed often enough.                  *)
FairSpec ==
  /\ Spec
  /\ \A c \in Contexts : WF_vars(Output(c))
  /\ SF_vars(EthOutput) /\ WF_vars(RxUnlock)
  /\ SF_vars(DmaSend)

-----------------------------------------------------------------------------
(* ethernet_thread empties tx_free_queue without the lock of lwIP; what is  *)
(* said of the references is said without that call.                        *)
AllLocked == ~setup.drains

Entries(f) == {k \in 0 .. Count - 1 : array[SlotAt(k)] = f}

(* Every reference is accounted for: lwIP's own, one for each entry in      *)
(* tx_free_queue and one for an entry about to be freed, whatever error     *)
(* path low_level_output takes.  One too many is a leak, one too few a      *)
(* pbuf freed under lwIP.                                                   *)
RefsBalanced ==
  AllLocked => \A f \in Frames :
    ref[f] + Cardinality({c \in Contexts : pc[c] = "ref" /\ tx[c].frame = f})
      = Cardinality(held \cap {f}) + Cardinality(Entries(f))
        + Cardinality({c \in Contexts : pc[c] = "drop" /\ qitem[c] = f})

(* A frame the DMA has still to read is still in tx_free_queue: lwIP may    *)
(* free its own reference as soon as low_level_output has returned.         *)
InFlightHeld ==
  AllLocked => \A d \in Desc : own[d] = "dma" => Entries(buf[d]) # {}

(* ERR_OK means that the whole frame was given to the DMA, as long as only  *)
(* the senders that have the lock of lwIP take the one of EthHandle.        *)
OkMeansSent ==
  AllLocked /\ ~setup.rx =>
    \A c \in Contexts :
      pc[c] = "tus" /\ tx[c].ok /\ tx[c].bufcount > 0 => tx[c].given = tx[c].bufcount

(* The driver and the DMA agree on the ring: the descriptors the DMA owns   *)
(* are the ones from the next it will read up to TxDesc, and no call ever   *)
(* gives it one that it has not finished.                                   *)
Owned == Cardinality({d \in Desc : own[d] = "dma"})

RingAgrees ==
  /\ txDesc = (dmaDesc + Owned) % Capacity
  /\ \A i \in 0 .. Owned - 1 : own[(dmaDesc + i) % Capacity] = "dma"

(* The types, and all that keeps a frame in memory until the DMA has sent   *)
(* it: its references, its place in tx_free_queue, and the ring.            *)
FramesKept == TypeOK /\ RefsBalanced /\ InFlightHeld /\ RingAgrees

(* Whatever the DMA is given is sent, although it may suspend itself        *)
(* between any two descriptors and has to be resumed by the driver: if      *)
(* nothing else is sent, by the poll of ethernet_thread.                    *)
FramesSent == \A d \in Desc : own[d] = "dma" /\ setup.drains ~> own[d] = "cpu"

(* tx_free_queue is emptied only by a call that finds every descriptor      *)
(* idle.  When it is full no frame can be sent, so if lwIP goes on trying,  *)
(* such a call does come.                                                   *)
QueueRecovers ==
  []<><<\E c \in Contexts : SendCall(c)>>_vars => (IsFull ~> ~IsFull)
=============================================================================
