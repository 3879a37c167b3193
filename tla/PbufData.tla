------------------------------ MODULE PbufData ------------------------------
(***************************************************************************)
(* struct pbuf_data of src/src/utility/stm32_eth.cpp: the pbuf that is     *)
(* being read, the offset in it, the queue of those behind it and the      *)
(* number of bytes available.  The user's thread reads with stm32_get_data *)
(* and takes no lock; a callback of lwIP, in the tcpip thread, may come    *)
(* between two steps of a read and adds pbufs.  The callback itself is     *)
(* never interrupted by the user's thread.                                 *)
(*                                                                         *)
(* pbuf_queue has one producer and one consumer and is the abstract queue  *)
(* of module Fifo here.  A byte is its position in the stream received, 0  *)
(* any byte that never was in it.  A pbuf is a stretch of the stream.      *)
(***************************************************************************)
EXTENDS Integers, Sequences, FiniteSets, Functions

CONSTANTS
  QueueLen,   (* ETH_RXBUFNB                                                *)
  AvailMod,   (* 2^16 in the code: available and offset are uint16_t        *)
  Sizes       (* the sizes the user reads with                              *)

ASSUME PbufDataAssumption ==
  /\ {QueueLen, AvailMod} \subseteq Nat \ {0}
  /\ Sizes \subseteq Nat \ {0}

VARIABLES
  p, offset, available, pbuf_queue,
  pool,       (* the pbufs that lwIP has passed on and nobody has freed     *)
  step,       (* the next step of stm32_get_data                            *)
  get,        (* its locals                                                 *)
  got,        (* the bytes the user has been given                          *)
  spoilt      (* what has happened that the code does not allow for         *)

data == <<p, offset, available, pbuf_queue>>
call == <<step, get>>
dataVars == <<data, pool, call, got, spoilt>>

Pbuf == [from : Nat, len : Nat]
NULL == [from |-> 0, len |-> 0]

Held == (Range(pbuf_queue) \cup {p}) \ {NULL}

DataTypeOK ==
  /\ p \in Pbuf /\ get.item \in Pbuf
  /\ offset \in 0 .. AvailMod - 1 /\ available \in 0 .. AvailMod - 1
  /\ pbuf_queue \in Seq(Pbuf) /\ Len(pbuf_queue) <= QueueLen
  /\ pool \subseteq Pbuf \ {NULL}
  /\ step \in {"idle", "copy", "store", "take", "set"}
  /\ {get.size, get.nb, get.copied, get.avail} \subseteq Nat
  /\ got \in Seq(Nat)
  /\ spoilt \subseteq {"count", "chain", "skip", "full"}

EmptyData ==
  p = NULL /\ offset = 0 /\ available = 0 /\ pbuf_queue = <<>>

NoCall == [size |-> 0, nb |-> 0, copied |-> 0, avail |-> 0, item |-> NULL]

DataInit ==
  /\ EmptyData
  /\ pool = {}
  /\ step = "idle"
  /\ get = NoCall
  /\ got = <<>>
  /\ spoilt = {}

-----------------------------------------------------------------------------
(* stm32_get_data.  Its loop and its path for one byte take the same steps. *)
Single == get.size = 1
ToCopy == get.size - get.nb

GetCall(size) ==
  /\ step = "idle"
  /\ p # NULL /\ available # 0
  /\ step' = "copy"
  /\ get' = [NoCall EXCEPT !.size = size]
  /\ UNCHANGED <<data, pool, got, spoilt>>

(* pbuf_get_at gives 0 past the end of the pbuf, pbuf_copy_partial nothing. *)
Left == IF offset < p.len THEN p.len - offset ELSE 0

Bytes ==
  IF Single /\ Left = 0 THEN <<0>>
  ELSE [i \in 1 .. (IF Left < ToCopy THEN Left ELSE ToCopy) |-> p.from + offset + i]

(* The bytes, and the first half of the update of available.                *)
GetCopy ==
  /\ step = "copy"
  /\ got' = got \o Bytes
  /\ get' = [get EXCEPT !.copied = Len(Bytes), !.avail = available]
  /\ step' = "store"
  /\ UNCHANGED <<data, pool, spoilt>>

PbufDone ==
  \/ offset + get.copied = p.len
  \/ ~Single /\ get.copied < ToCopy

(* The second half, and pbuf_free when the pbuf has been read.              *)
GetStore ==
  /\ step = "store"
  /\ available' = (get.avail - get.copied) % AvailMod
  /\ get' = IF PbufDone THEN [get EXCEPT !.nb = @ + get.copied] ELSE NoCall
  /\ pool' = IF PbufDone THEN pool \ {p} ELSE pool
  /\ offset' = IF PbufDone THEN 0 ELSE (offset + get.copied) % AvailMod
  /\ step' = IF PbufDone THEN "take" ELSE "idle"
  /\ UNCHANGED <<p, pbuf_queue, got, spoilt>>

(* queue_get                                                                *)
GetTake ==
  /\ step = "take"
  /\ IF pbuf_queue = <<>>
     THEN get' = [get EXCEPT !.item = NULL] /\ UNCHANGED pbuf_queue
     ELSE get' = [get EXCEPT !.item = Head(pbuf_queue)] /\ pbuf_queue' = Tail(pbuf_queue)
  /\ step' = "set"
  /\ UNCHANGED <<p, offset, available, pool, got, spoilt>>

(* The assignment to p.  The loop then advances the offset, in the new pbuf *)
(* by what it copied out of the old one.                                    *)
Skips == ~Single /\ get.item # NULL /\ get.copied > 0

GetSet ==
  /\ step = "set"
  /\ p' = get.item
  /\ offset' = IF Skips THEN (offset + get.copied) % AvailMod ELSE offset
  /\ IF ~Single /\ get.item # NULL /\ ToCopy > 0
     THEN step' = "copy" /\ get' = [get EXCEPT !.copied = 0, !.avail = 0, !.item = NULL]
     ELSE step' = "idle" /\ get' = NoCall
  /\ spoilt' = IF Skips THEN spoilt \cup {"skip"} ELSE spoilt
  /\ UNCHANGED <<available, pbuf_queue, pool, got>>

GetData == GetCopy \/ GetStore \/ GetTake \/ GetSet

(* stm32_free_data: p keeps its value.                                      *)
FreeCurrent ==
  IF p = NULL THEN UNCHANGED <<data, pool>>
  ELSE /\ pool' = pool \ {p}
       /\ pbuf_queue' = <<>> /\ available' = 0 /\ offset' = 0
       /\ UNCHANGED p

FreeData ==
  IF p = NULL THEN UNCHANGED <<data, pool>>
  ELSE /\ pool' = pool \ Held
       /\ pbuf_queue' = <<>> /\ available' = 0 /\ offset' = 0
       /\ UNCHANGED p

-----------------------------------------------------------------------------
(* A callback that comes between the two halves of the update of available  *)
(* is not counted; one that comes between queue_get, which found nothing,   *)
(* and the assignment to p puts its pbuf behind a p that is then NULL.      *)
Preempted ==
  CASE step = "store"                  -> {"count"}
    [] step = "set" /\ get.item = NULL -> {"chain"}
    [] OTHER                           -> {}

AcceptUncounted(q) ==
  IF p = NULL
  THEN p' = q /\ offset' = 0 /\ available' = (available + q.len) % AvailMod
       /\ pool' = pool \cup {q} /\ UNCHANGED <<pbuf_queue, spoilt>>
  ELSE pbuf_queue' = Append(pbuf_queue, q) /\ pool' = pool \cup {q}
       /\ spoilt' = spoilt \cup Preempted /\ UNCHANGED <<p, offset, available>>

(* tcp_recv_callback, for the data of a connection that is open.  A pbuf    *)
(* that finds the queue full is freed, although it has been acknowledged.   *)
Accept(q) ==
  \/ /\ p = NULL
     /\ p' = q /\ offset' = 0 /\ available' = (available + q.len) % AvailMod
     /\ pool' = pool \cup {q}
     /\ UNCHANGED <<pbuf_queue, spoilt>>
  \/ /\ p # NULL /\ Len(pbuf_queue) < QueueLen
     /\ pbuf_queue' = Append(pbuf_queue, q)
     /\ available' = (available + q.len) % AvailMod
     /\ pool' = pool \cup {q}
     /\ spoilt' = spoilt \cup Preempted
     /\ UNCHANGED <<p, offset>>
  \/ /\ p # NULL /\ Len(pbuf_queue) = QueueLen
     /\ spoilt' = spoilt \cup {"full"}
     /\ UNCHANGED <<data, pool>>
=============================================================================
