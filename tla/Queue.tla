------------------------------- MODULE Queue -------------------------------
(***************************************************************************)
(* The ring queue of src/src/utility/queue.c, one C statement per action.  *)
(*                                                                         *)
(* queue_put and queue_get take no lock.  The library calls them on the    *)
(* same queue_t from an interrupt handler and from several threads, so a   *)
(* call is a sequence of steps, and the module that shares the queue       *)
(* decides which contexts interleave.  A context is a thread or the        *)
(* Ethernet interrupt.                                                     *)
(***************************************************************************)
EXTENDS Integers

CONSTANTS
  Contexts,  (* threads and interrupt handlers that call the queue          *)
  Items,     (* the pointers that are queued                                *)
  NoItem,    (* NULL                                                        *)
  Capacity,  (* number of slots: sizeof(b) / sizeof(void * )                *)
  CntMod     (* put_cnt and get_cnt are uint32_t: 2^32 in the program       *)

ASSUME QueueAssumption ==
  /\ Capacity \in Nat \ {0}
  /\ CntMod \in Nat
  /\ Capacity < CntMod
  /\ NoItem \notin Items

VARIABLES
  front, rear, put_cnt, get_cnt, array,  (* the fields of queue_t           *)
  qpc,       (* the next statement of queue_put or queue_get, by context    *)
  qitem      (* their local variable or parameter "item", by context        *)

queueVars == <<front, rear, put_cnt, get_cnt, array>>
callVars  == <<qpc, qitem>>

Slots == 0 .. Capacity - 1
Steps == {"idle", "put_rear", "put_slot", "put_cnt",
          "get_item", "get_front", "get_cnt"}

QTypeOK ==
  /\ front \in Slots
  /\ rear \in Slots
  /\ put_cnt \in 0 .. CntMod - 1
  /\ get_cnt \in 0 .. CntMod - 1
  /\ array \in [Slots -> Items \cup {NoItem}]
  /\ qpc \in [Contexts -> Steps]
  /\ qitem \in [Contexts -> Items \cup {NoItem}]

Next_(i) == (i + 1) % Capacity

(* The queue_init macro. *)
QInit ==
  /\ front = 0
  /\ rear = Capacity - 1
  /\ put_cnt = 0
  /\ get_cnt = 0
  /\ array = [i \in Slots |-> NoItem]
  /\ qpc = [c \in Contexts |-> "idle"]
  /\ qitem = [c \in Contexts |-> NoItem]

-----------------------------------------------------------------------------
IsFullOffByOne ==
  IF put_cnt < get_cnt
  THEN CntMod - 1 - get_cnt + put_cnt >= Capacity
  ELSE put_cnt - get_cnt > Capacity

(* is_full().  When put_cnt has wrapped and get_cnt has not, the code counts *)
(* from UINT32_MAX and not from 2^32, which is one item less than there are. *)
IsFull ==
  IF put_cnt < get_cnt
  THEN CntMod - 1 - get_cnt + put_cnt >= Capacity
  ELSE put_cnt - get_cnt >= Capacity

(* is_empty() *)
IsEmpty == put_cnt = get_cnt

Goto(c, step) == qpc' = [qpc EXCEPT ![c] = step]

(* queue_put(), from its guard to its last statement. *)
PutCall(c, x) ==
  /\ qpc[c] = "idle"
  /\ ~IsFull
  /\ qitem' = [qitem EXCEPT ![c] = x]
  /\ Goto(c, "put_rear")
  /\ UNCHANGED queueVars

PutRefused(c) ==
  /\ qpc[c] = "idle"
  /\ IsFull
  /\ UNCHANGED <<queueVars, callVars>>

PutRear(c) ==
  /\ qpc[c] = "put_rear"
  /\ rear' = Next_(rear)
  /\ Goto(c, "put_slot")
  /\ UNCHANGED <<front, put_cnt, get_cnt, array, qitem>>

PutSlot(c) ==
  /\ qpc[c] = "put_slot"
  /\ array' = [array EXCEPT ![rear] = qitem[c]]
  /\ Goto(c, "put_cnt")
  /\ UNCHANGED <<front, rear, put_cnt, get_cnt, qitem>>

PutCount(c) ==
  /\ qpc[c] = "put_cnt"
  /\ put_cnt' = (put_cnt + 1) % CntMod
  /\ qitem' = [qitem EXCEPT ![c] = NoItem]
  /\ Goto(c, "idle")
  /\ UNCHANGED <<front, rear, get_cnt, array>>

(* queue_get(): it returns qitem[c]. *)
GetCall(c) ==
  /\ qpc[c] = "idle"
  /\ ~IsEmpty
  /\ Goto(c, "get_item")
  /\ UNCHANGED <<queueVars, qitem>>

GetNull(c) ==
  /\ qpc[c] = "idle"
  /\ IsEmpty
  /\ qitem' = [qitem EXCEPT ![c] = NoItem]
  /\ UNCHANGED <<queueVars, qpc>>

GetItem(c) ==
  /\ qpc[c] = "get_item"
  /\ qitem' = [qitem EXCEPT ![c] = array[front]]
  /\ Goto(c, "get_front")
  /\ UNCHANGED queueVars

GetFront(c) ==
  /\ qpc[c] = "get_front"
  /\ front' = Next_(front)
  /\ Goto(c, "get_cnt")
  /\ UNCHANGED <<rear, put_cnt, get_cnt, array, qitem>>

GetCountSkipped(c) ==
  /\ qpc[c] = "get_cnt"
  /\ get_cnt' = get_cnt
  /\ Goto(c, "idle")
  /\ UNCHANGED <<front, rear, put_cnt, array, qitem>>

GetCount(c) ==
  /\ qpc[c] = "get_cnt"
  /\ get_cnt' = (get_cnt + 1) % CntMod
  /\ Goto(c, "idle")
  /\ UNCHANGED <<front, rear, put_cnt, array, qitem>>

-----------------------------------------------------------------------------
(* What the fields mean.  Count is the number of queued items, Oldest the   *)
(* slot of the first one: between its last two statements queue_get has     *)
(* advanced front and has not yet counted the item as gone.                 *)
Count == IF put_cnt >= get_cnt THEN put_cnt - get_cnt
                               ELSE CntMod - get_cnt + put_cnt

Oldest == IF \E c \in Contexts : qpc[c] = "get_cnt"
          THEN (front + Capacity - 1) % Capacity
          ELSE front

(* The slot of the k-th queued item, counted from 0. *)
SlotAt(k) == (Oldest + k) % Capacity
=============================================================================
