---------------------------- MODULE SharedQueue ----------------------------
(***************************************************************************)
(* One queue_t shared without a lock: any producer may call queue_put and  *)
(* any consumer queue_get, statement by statement, in every interleaving.  *)
(* With one producer and one consumer, and until the counters wrap, it     *)
(* implements the abstract queue of module Fifo.                           *)
(***************************************************************************)
EXTENDS Queue, Sequences

CONSTANTS
  Producers, Consumers,
  PutLimit   (* bound on the life of the queue: queue_put is called while   *)
             (* put_cnt < PutLimit; CntMod stands for no bound              *)

ASSUME SharedQueueAssumption ==
  /\ Contexts = Producers \cup Consumers
  /\ Producers \cap Consumers = {}
  /\ PutLimit \in 1 .. CntMod
  /\ {"none", "ok", "full"} \cap (Items \cup {NoItem}) = {}

VARIABLE ret  (* what the last completed call of each context returned *)

vars == <<queueVars, callVars, ret>>

Return(c, v) == ret' = [ret EXCEPT ![c] = v]

Init ==
  /\ QInit
  /\ ret = [c \in Contexts |-> "none"]

QueuePut(c) ==
  \/ /\ put_cnt < PutLimit
     /\ \/ \E x \in Items : PutCall(c, x) /\ UNCHANGED ret
        \/ PutRefused(c) /\ Return(c, "full")
  \/ (PutRear(c) \/ PutSlot(c)) /\ UNCHANGED ret
  \/ PutCount(c) /\ Return(c, "ok")

QueueGet(c) ==
  \/ (GetCall(c) \/ GetItem(c) \/ GetFront(c)) /\ UNCHANGED ret
  \/ GetNull(c) /\ Return(c, NoItem)
  \/ GetCount(c) /\ Return(c, qitem[c])

Next ==
  \/ \E c \in Producers : QueuePut(c)
  \/ \E c \in Consumers : QueueGet(c)

Spec == Init /\ [][Next]_vars

-----------------------------------------------------------------------------
(* Every field and every local variable keeps its type; the indices stay    *)
(* inside the array of queue.c.                                             *)
TypeOK ==
  /\ QTypeOK
  /\ ret \in [Contexts -> Items \cup {NoItem, "none", "ok", "full"}]

(* The queue never holds more items than it has slots: queue_put never      *)
(* stores over an item that queue_get has not returned yet.                 *)
NoOverrun == Count <= Capacity

(* The inductive form of NoOverrun for one producer, one consumer and       *)
(* counters that have not wrapped: what each context relies on between two  *)
(* statements of a call, and where the fields point meanwhile.              *)
SingleUse ==
  /\ \A c, d \in Producers : c = d
  /\ \A c, d \in Consumers : c = d
  /\ PutLimit < CntMod

RolesOK ==
  /\ \A c \in Producers : qpc[c] \in {"idle", "put_rear", "put_slot", "put_cnt"}
  /\ \A c \in Consumers : qpc[c] \in {"idle", "get_item", "get_front", "get_cnt"}

CountOK ==
  /\ get_cnt <= put_cnt
  /\ put_cnt <= PutLimit
  /\ put_cnt - get_cnt <= Capacity
  /\ \A c \in Producers :
       qpc[c] # "idle" => put_cnt < PutLimit /\ put_cnt - get_cnt < Capacity
  /\ \A c \in Consumers : qpc[c] # "idle" => get_cnt < put_cnt

Inserting == \E c \in Producers : qpc[c] \in {"put_slot", "put_cnt"}

SlotOK ==
  /\ IF Inserting THEN rear = SlotAt(Count) ELSE Next_(rear) = SlotAt(Count)
  /\ \A c \in Producers :
       /\ qpc[c] # "idle" => qitem[c] \in Items
       /\ qpc[c] = "put_cnt" => array[rear] = qitem[c]
  /\ \A c \in Consumers :
       qpc[c] \in {"get_front", "get_cnt"} => qitem[c] = array[Oldest]

QueueInv == TypeOK /\ RolesOK /\ CountOK /\ SlotOK

(* queue_put and queue_get implement a bounded FIFO: an accepted item is    *)
(* returned exactly once, in order, at the step that counts it out, and     *)
(* "full" and NULL are returned only when the queue is full or empty.       *)
Buffer == [i \in 1 .. Count |-> array[SlotAt(i - 1)]]

FifoQueue == INSTANCE Fifo WITH buffer <- Buffer, result <- ret

IsFifo == FifoQueue!Spec
=============================================================================
