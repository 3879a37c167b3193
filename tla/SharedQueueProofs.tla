------------------------- MODULE SharedQueueProofs -------------------------
(***************************************************************************)
(* Proofs about the ring queue, for every capacity, every set of items and *)
(* any number of calls; and, in the second part, about how httpd sends an  *)
(* answer, for any pages, tags and inserts.  The two parts share nothing.  *)
(***************************************************************************)
EXTENDS SharedQueue, HttpdSend, FiniteSetTheorems, TLAPS

-----------------------------------------------------------------------------
(* "%" by a constant that is not a literal is known to the solver only      *)
(* through the quotient; every index here is below twice the capacity.      *)
LEMMA Quotient ==
  ASSUME NEW C \in Nat \ {0}, NEW x \in Nat
  PROVE  /\ x = C * (x \div C) + (x % C)
         /\ x \div C \in Int
         /\ x % C \in 0 .. C - 1
  BY SMT

(* Multiples of a constant, for the comparison with the quotient.           *)
LEMMA Products ==
  ASSUME NEW C \in Nat \ {0}, NEW q \in Int
  PROVE  /\ q >= 2 => C * q >= 2 * C
         /\ q <= 0 => C * q <= 0
  BY SMT

(* Below twice C, "% C" subtracts C at most once.                           *)
LEMMA Wrap ==
  ASSUME NEW C \in Nat \ {0}, NEW x \in 0 .. 2 * C - 1
  PROVE  x % C = IF x < C THEN x ELSE x - C
<1> DEFINE q == x \div C
<1>1. x = C * q + (x % C) /\ q \in Int /\ x % C \in 0 .. C - 1
  BY Quotient
<1>2. CASE x < C
  BY <1>2
<1>3. CASE x >= C
  <2>1. ~(q >= 2) /\ ~(q <= 0)
    BY <1>1, <1>3, Products
  <2>2. q = 1
    BY <1>1, <2>1
  <2> QED
    BY <1>1, <1>3, <2>2
<1> QED
  BY <1>2, <1>3

-----------------------------------------------------------------------------

(* The ring indices and the counters, without "%".                          *)
LEMMA Indices ==
  /\ \A x \in 0 .. 2 * Capacity - 1 :
       x % Capacity = IF x < Capacity THEN x ELSE x - Capacity
  /\ \A n \in 0 .. CntMod - 1 :
       n + 1 < CntMod => (n + 1) % CntMod = n + 1
<1>1. \A x \in 0 .. 2 * Capacity - 1 :
        x % Capacity = IF x < Capacity THEN x ELSE x - Capacity
  <2>1. Capacity \in Nat \ {0}
    BY QueueAssumption
  <2> TAKE x \in 0 .. 2 * Capacity - 1
  <2> QED
    BY <2>1, Wrap
<1>2. \A x \in 0 .. 2 * CntMod - 1 :
        x % CntMod = IF x < CntMod THEN x ELSE x - CntMod
  <2>1. CntMod \in Nat \ {0}
    BY QueueAssumption
  <2> TAKE x \in 0 .. 2 * CntMod - 1
  <2> QED
    BY <2>1, Wrap
<1>3. ASSUME NEW n \in 0 .. CntMod - 1, n + 1 < CntMod
      PROVE  (n + 1) % CntMod = n + 1
  <2>1. n + 1 \in 0 .. 2 * CntMod - 1
    BY <1>3, QueueAssumption
  <2> QED
    BY <1>2, <1>3, <2>1, QueueAssumption
<1> QED
  BY <1>1, <1>3

-----------------------------------------------------------------------------
(* Every run of the queue, whoever shares it, keeps the indices inside the  *)
(* array and the fields in their types.                                     *)
LEMMA InitType == Init => TypeOK
  BY QueueAssumption DEF Init, QInit, TypeOK, QTypeOK, Slots, Steps

(* No step of queue_put or queue_get leaves the types.                      *)
LEMMA NextType == TypeOK /\ [Next]_vars => TypeOK'
<1> SUFFICES ASSUME TypeOK, [Next]_vars
             PROVE  TypeOK'
  OBVIOUS
<1> USE QueueAssumption, SharedQueueAssumption DEF TypeOK, QTypeOK, Slots, Steps
<1>1. CASE UNCHANGED vars
  BY <1>1 DEF vars, queueVars, callVars
<1>2. ASSUME NEW c \in Producers, QueuePut(c)
      PROVE  TypeOK'
  <2> USE DEF queueVars, callVars, Goto, Return
  <2>1. CASE \E x \in Items : PutCall(c, x) /\ UNCHANGED ret
    BY <2>1 DEF PutCall
  <2>2. CASE PutRefused(c) /\ Return(c, "full")
    BY <2>2 DEF PutRefused
  <2>3. CASE PutRear(c) /\ UNCHANGED ret
    <3>1. Next_(rear) \in Slots
      BY Quotient DEF Next_
    <3> QED
      BY <2>3, <3>1 DEF PutRear
  <2>4. CASE PutSlot(c) /\ UNCHANGED ret
    BY <2>4 DEF PutSlot
  <2>5. CASE PutCount(c) /\ Return(c, "ok")
    <3>1. (put_cnt + 1) % CntMod \in 0 .. CntMod - 1
      BY Quotient
    <3> QED
      BY <2>5, <3>1 DEF PutCount
  <2> QED
    BY <1>2, <2>1, <2>2, <2>3, <2>4, <2>5 DEF QueuePut
<1>3. ASSUME NEW c \in Consumers, QueueGet(c)
      PROVE  TypeOK'
  <2> USE DEF queueVars, callVars, Goto, Return
  <2>1. CASE GetCall(c) /\ UNCHANGED ret
    BY <2>1 DEF GetCall
  <2>2. CASE GetItem(c) /\ UNCHANGED ret
    BY <2>2 DEF GetItem
  <2>3. CASE GetFront(c) /\ UNCHANGED ret
    <3>1. Next_(front) \in Slots
      BY Quotient DEF Next_
    <3> QED
      BY <2>3, <3>1 DEF GetFront
  <2>4. CASE GetNull(c) /\ Return(c, NoItem)
    BY <2>4 DEF GetNull
  <2>5. CASE GetCount(c) /\ Return(c, qitem[c])
    <3>1. (get_cnt + 1) % CntMod \in 0 .. CntMod - 1
      BY Quotient
    <3> QED
      BY <2>5, <3>1 DEF GetCount
  <2> QED
    BY <1>3, <2>1, <2>2, <2>3, <2>4, <2>5 DEF QueueGet
<1> QED
  BY <1>1, <1>2, <1>3 DEF Next

(* Type correctness of the queue for any number of producers and consumers. *)
THEOREM TypeCorrect == Spec => []TypeOK
  BY InitType, NextType, PTL DEF Spec

-----------------------------------------------------------------------------
(* While the counters have not wrapped they are plain naturals, and the     *)
(* slots follow each other around the ring.                                 *)
LEMMA Counters ==
  ASSUME SingleUse, QueueInv
  PROVE  /\ Count = put_cnt - get_cnt
         /\ Count \in 0 .. Capacity
         /\ IsFull <=> Count >= Capacity
         /\ \A c \in Producers :
              qpc[c] # "idle" => (put_cnt + 1) % CntMod = put_cnt + 1
         /\ \A c \in Consumers :
              qpc[c] # "idle" => (get_cnt + 1) % CntMod = get_cnt + 1
<1> USE QueueAssumption, SharedQueueAssumption
        DEF SingleUse, QueueInv, TypeOK, QTypeOK, CountOK
<1>1. Count = put_cnt - get_cnt /\ Count \in 0 .. Capacity
  BY DEF Count
<1>2. IsFull <=> Count >= Capacity
  BY <1>1 DEF IsFull
<1>3. ASSUME NEW c \in Producers, qpc[c] # "idle"
      PROVE  (put_cnt + 1) % CntMod = put_cnt + 1
  <2>1. put_cnt + 1 < CntMod
    BY <1>3
  <2> QED
    BY <2>1, Indices
<1>4. ASSUME NEW c \in Consumers, qpc[c] # "idle"
      PROVE  (get_cnt + 1) % CntMod = get_cnt + 1
  <2>1. get_cnt + 1 < CntMod
    BY <1>4
  <2> QED
    BY <2>1, Indices
<1> QED
  BY <1>1, <1>2, <1>3, <1>4

(* The slots of the queued items are distinct and follow each other.        *)
LEMMA Ring ==
  ASSUME QTypeOK
  PROVE  /\ Oldest \in Slots
         /\ \A k \in 0 .. Capacity :
              SlotAt(k) = IF Oldest + k < Capacity THEN Oldest + k
                                                   ELSE Oldest + k - Capacity
         /\ \A i \in Slots :
              Next_(i) = IF i + 1 < Capacity THEN i + 1 ELSE 0
<1> USE QueueAssumption DEF QTypeOK, Slots
<1>1. Oldest \in Slots
  <2>1. front + Capacity - 1 \in Nat
    OBVIOUS
  <2>2. (front + Capacity - 1) % Capacity \in Slots
    BY <2>1, Quotient
  <2> QED
    BY <2>2 DEF Oldest
<1>2. \A k \in 0 .. Capacity : Oldest + k \in 0 .. 2 * Capacity - 1
  BY <1>1
<1>3. \A k \in 0 .. Capacity :
        SlotAt(k) = IF Oldest + k < Capacity THEN Oldest + k
                                             ELSE Oldest + k - Capacity
  <2> TAKE k \in 0 .. Capacity
  <2> DEFINE y == Oldest + k
  <2>1. y \in 0 .. 2 * Capacity - 1
    BY <1>2
  <2>2. SlotAt(k) = y % Capacity
    BY DEF SlotAt
  <2> HIDE DEF y
  <2>3. SlotAt(k) = IF y < Capacity THEN y ELSE y - Capacity
    BY <2>1, <2>2, Indices
  <2> QED
    BY <1>1, <2>3 DEF y
<1>4. \A i \in Slots : Next_(i) = IF i + 1 < Capacity THEN i + 1 ELSE 0
  <2>1. \A i \in Slots : i + 1 \in 0 .. 2 * Capacity - 1
    OBVIOUS
  <2> QED
    BY <2>1, Indices DEF Next_
<1> QED
  BY <1>1, <1>3, <1>4

(* front points behind the oldest item between the last two statements of   *)
(* queue_get, and at it at all other times.                                 *)
LEMMA Behind ==
  ASSUME NEW f \in Slots
  PROVE  (f + Capacity - 1) % Capacity = IF f = 0 THEN Capacity - 1 ELSE f - 1
<1> USE QueueAssumption DEF Slots
<1> DEFINE y == f + Capacity - 1
<1>1. y \in 0 .. 2 * Capacity - 1
  OBVIOUS
<1>2. y % Capacity = IF y < Capacity THEN y ELSE y - Capacity
  <2> HIDE DEF y
  <2> QED
    BY <1>1, Indices
<1> QED
  BY <1>2

(* queue_init establishes the inductive invariant.                          *)
LEMMA InitInv == ASSUME SingleUse PROVE Init => QueueInv
<1> SUFFICES ASSUME Init PROVE QueueInv
  OBVIOUS
<1> USE QueueAssumption, SharedQueueAssumption
<1>1. TypeOK
  BY InitType
<1>2. RolesOK
  BY DEF Init, QInit, RolesOK
<1>3. CountOK
  BY DEF Init, QInit, CountOK
<1>4. Next_(Capacity - 1) = 0 /\ 0 % Capacity = 0
  BY Indices DEF Next_
<1>5. SlotOK
  BY <1>4 DEF Init, QInit, SlotOK, Inserting, SlotAt, Oldest, Count
<1> QED
  BY <1>1, <1>2, <1>3, <1>5 DEF QueueInv

(* The statements of queue_put, seen through the slots of the queued items. *)
LEMMA PutStep ==
  ASSUME SingleUse, QueueInv, TypeOK', NEW p \in Producers, QueuePut(p)
  PROVE  /\ QueueInv'
         /\ Oldest' = Oldest
         /\ \A k \in 0 .. Count - 1 : array'[SlotAt(k)] = array[SlotAt(k)]
         /\ qpc[p] # "put_cnt" => Count' = Count
         /\ qpc[p] = "put_cnt" =>
              /\ Count < Capacity
              /\ Count' = Count + 1
              /\ array' = array
              /\ qitem[p] = array[SlotAt(Count)]
<1> USE QueueAssumption, SharedQueueAssumption DEF queueVars, callVars, Goto, Return
<1>1. /\ \A c \in Producers : c = p
      /\ \A c \in Consumers : qpc[c] \in {"idle", "get_item", "get_front", "get_cnt"}
      /\ qpc[p] \in {"idle", "put_rear", "put_slot", "put_cnt"}
      /\ QTypeOK /\ QTypeOK' /\ CountOK /\ SlotOK
      /\ Contexts = Producers \cup Consumers
      /\ p \in Contexts /\ p \notin Consumers
  BY DEF SingleUse, QueueInv, RolesOK, TypeOK
<1>2. /\ Count = put_cnt - get_cnt
      /\ Count \in 0 .. Capacity
      /\ IsFull <=> Count >= Capacity
      /\ qpc[p] # "idle" => (put_cnt + 1) % CntMod = put_cnt + 1
  BY Counters
<1>3. /\ qpc'[p] \in {"idle", "put_rear", "put_slot", "put_cnt"}
      /\ \A c \in Consumers : qpc'[c] = qpc[c] /\ qitem'[c] = qitem[c]
      /\ front' = front /\ get_cnt' = get_cnt
  BY <1>1 DEF QueuePut, PutCall, PutRefused, PutRear, PutSlot, PutCount, QTypeOK
<1>4. Oldest' = Oldest
  BY <1>1, <1>3 DEF Oldest
<1>5. RolesOK'
  BY <1>1, <1>3 DEF RolesOK
<1>6. CASE /\ put_cnt < PutLimit
           /\ \E x \in Items : PutCall(p, x) /\ UNCHANGED ret
  <2> USE <1>6 DEF PutCall
  <2>1. CountOK'
    BY <1>1, <1>2, <1>3 DEF CountOK, QTypeOK
  <2>2. SlotOK' /\ \A k \in 0 .. Count - 1 : array'[SlotAt(k)] = array[SlotAt(k)]
    BY <1>1, <1>3, <1>4 DEF SlotOK, SlotAt, Next_, Inserting, Count, QTypeOK
  <2>3. qpc[p] # "put_cnt" /\ Count' = Count
    BY DEF Count
  <2> QED
    BY <1>4, <1>5, <2>1, <2>2, <2>3 DEF QueueInv
<1>7. CASE PutRefused(p)
  BY <1>1, <1>3, <1>4, <1>5, <1>7
     DEF PutRefused, QueueInv, CountOK, SlotOK, SlotAt, Next_, Inserting, Count
<1>8. CASE PutRear(p)
  <2> USE <1>8 DEF PutRear
  <2>1. CountOK'
    BY <1>1, <1>3 DEF CountOK, QTypeOK
  <2>2. ~Inserting /\ Inserting' /\ Count' = Count
    BY <1>1 DEF Inserting, Count, QTypeOK
  <2>3. rear' = SlotAt(Count)'
    BY <1>1, <1>4, <2>2 DEF SlotOK, SlotAt
  <2>4. SlotOK' /\ \A k \in 0 .. Count - 1 : array'[SlotAt(k)] = array[SlotAt(k)]
    BY <1>1, <1>3, <1>4, <2>2, <2>3 DEF SlotOK, QTypeOK
  <2> QED
    BY <1>1, <1>4, <1>5, <2>1, <2>2, <2>4 DEF QueueInv, QTypeOK
<1>9. CASE PutSlot(p)
  <2> USE <1>9 DEF PutSlot
  <2>1. CountOK'
    BY <1>1, <1>3 DEF CountOK, QTypeOK
  <2>2. Inserting /\ Inserting' /\ Count' = Count /\ Count < Capacity
    BY <1>1, <1>2 DEF Inserting, Count, QTypeOK, CountOK
  <2>3. rear = SlotAt(Count) /\ rear' = SlotAt(Count)'
    BY <1>1, <1>4, <2>2 DEF SlotOK, SlotAt
  <2>4. \A k \in 0 .. Count - 1 : SlotAt(k) # rear
    BY <1>1, <1>2, <2>2, <2>3, Ring DEF Slots
  <2>5. \A k \in 0 .. Count - 1 : array'[SlotAt(k)] = array[SlotAt(k)]
    BY <1>1, <1>2, <2>4, Ring DEF QTypeOK
  <2>6. \A c \in Consumers : qpc[c] # "idle" => array'[Oldest] = array[Oldest]
    <3>1. \A c \in Consumers : qpc[c] # "idle" => 0 \in 0 .. Count - 1
      BY <1>1, <1>2 DEF CountOK, QTypeOK
    <3>2. SlotAt(0) = Oldest
      BY <1>1, Ring DEF Slots
    <3> QED
      BY <2>5, <3>1, <3>2
  <2>7. SlotOK'
    BY <1>1, <1>3, <1>4, <2>2, <2>3, <2>6 DEF SlotOK, QTypeOK
  <2> QED
    BY <1>1, <1>4, <1>5, <2>1, <2>2, <2>5, <2>7 DEF QueueInv, QTypeOK
<1>10. CASE PutCount(p)
  <2> USE <1>10 DEF PutCount
  <2>1. put_cnt' = put_cnt + 1
    BY <1>2
  <2>2. CountOK' /\ Count' = Count + 1
    BY <1>1, <1>2, <1>3, <2>1 DEF CountOK, QTypeOK, Count
  <2>3. Inserting /\ ~Inserting' /\ Count < Capacity
    BY <1>1, <1>2 DEF Inserting, QTypeOK, CountOK
  <2>4. Next_(rear) = SlotAt(Count + 1)
    BY <1>1, <1>2, <2>3, Ring DEF SlotOK, Slots
  <2>5. (Next_(rear) = SlotAt(Count))'
    BY <1>4, <2>2, <2>4 DEF SlotAt, Next_
  <2>6. SlotOK' /\ \A k \in 0 .. Count - 1 : array'[SlotAt(k)] = array[SlotAt(k)]
    BY <1>1, <1>3, <1>4, <2>3, <2>5 DEF SlotOK, QTypeOK
  <2>7. array' = array /\ qitem[p] = array[SlotAt(Count)]
    BY <1>1, <2>3 DEF SlotOK
  <2> QED
    BY <1>4, <1>5, <2>2, <2>3, <2>6, <2>7 DEF QueueInv
<1> QED
  BY <1>6, <1>7, <1>8, <1>9, <1>10 DEF QueuePut

(* The statements of queue_get.                                             *)
LEMMA GetStep ==
  ASSUME SingleUse, QueueInv, TypeOK', NEW g \in Consumers, QueueGet(g)
  PROVE  /\ QueueInv'
         /\ array' = array
         /\ qpc[g] # "get_cnt" => Oldest' = Oldest /\ Count' = Count
         /\ qpc[g] = "get_cnt" =>
              /\ Count > 0
              /\ Count' = Count - 1
              /\ \A k \in 0 .. Count - 2 : SlotAt(k)' = SlotAt(k + 1)
              /\ qitem[g] = array[SlotAt(0)]
<1> USE QueueAssumption, SharedQueueAssumption DEF queueVars, callVars, Goto, Return
<1>1. /\ \A c \in Consumers : c = g
      /\ \A c \in Producers : qpc[c] \in {"idle", "put_rear", "put_slot", "put_cnt"}
      /\ qpc[g] \in {"idle", "get_item", "get_front", "get_cnt"}
      /\ QTypeOK /\ QTypeOK' /\ CountOK /\ SlotOK
      /\ Contexts = Producers \cup Consumers
      /\ g \in Contexts /\ g \notin Producers
  BY DEF SingleUse, QueueInv, RolesOK, TypeOK
<1>2. /\ Count = put_cnt - get_cnt
      /\ Count \in 0 .. Capacity
      /\ qpc[g] # "idle" => (get_cnt + 1) % CntMod = get_cnt + 1
  BY Counters
<1>3. /\ qpc'[g] \in {"idle", "get_item", "get_front", "get_cnt"}
      /\ \A c \in Producers : qpc'[c] = qpc[c] /\ qitem'[c] = qitem[c]
      /\ rear' = rear /\ put_cnt' = put_cnt /\ array' = array
  BY <1>1 DEF QueueGet, GetCall, GetNull, GetItem, GetFront, GetCount, QTypeOK
<1>4. RolesOK'
  BY <1>1, <1>3 DEF RolesOK
<1>5. Inserting' <=> Inserting
  BY <1>3 DEF Inserting
<1>6. (\E c \in Contexts : qpc[c] = "get_cnt") <=> qpc[g] = "get_cnt"
  BY <1>1
<1>7. (\E c \in Contexts : qpc'[c] = "get_cnt") <=> qpc'[g] = "get_cnt"
  BY <1>1, <1>3
<1>8. CASE GetCall(g) \/ GetNull(g) \/ GetItem(g)
  <2> USE <1>8 DEF GetCall, GetNull, GetItem
  <2>1. qpc[g] # "get_cnt" /\ qpc'[g] # "get_cnt" /\ front' = front /\ get_cnt' = get_cnt
    BY <1>1 DEF QTypeOK
  <2>2. Oldest' = Oldest /\ Count' = Count
    BY <1>3, <1>6, <1>7, <2>1 DEF Oldest, Count
  <2>3. CountOK'
    BY <1>1, <1>2, <1>3, <2>1 DEF CountOK, IsEmpty, QTypeOK
  <2>4. Oldest = front
    BY <1>6, <2>1 DEF Oldest
  <2>5. SlotOK'
    BY <1>1, <1>3, <1>5, <2>2, <2>4 DEF SlotOK, SlotAt, Next_, QTypeOK
  <2> QED
    BY <1>3, <1>4, <2>1, <2>2, <2>3, <2>5 DEF QueueInv
<1>9. CASE GetFront(g)
  <2> USE <1>9 DEF GetFront
  <2>1. qpc[g] # "get_cnt" /\ qpc'[g] = "get_cnt"
    BY <1>1 DEF QTypeOK
  <2>2. Oldest = front
    BY <1>6, <2>1 DEF Oldest
  <2>3. front' = IF front + 1 < Capacity THEN front + 1 ELSE 0
    BY <1>1, Ring DEF QTypeOK
  <2>4. Oldest' = IF front' = 0 THEN Capacity - 1 ELSE front' - 1
    BY <1>1, <1>7, <2>1, Behind DEF Oldest, QTypeOK
  <2>5. Oldest' = Oldest /\ Count' = Count
    BY <1>1, <1>3, <2>2, <2>3, <2>4 DEF Count, QTypeOK, Slots
  <2>6. CountOK'
    BY <1>1, <1>3, <2>1 DEF CountOK, QTypeOK
  <2>7. SlotOK'
    BY <1>1, <1>3, <1>5, <2>5 DEF SlotOK, SlotAt, Next_, QTypeOK
  <2> QED
    BY <1>3, <1>4, <2>1, <2>5, <2>6, <2>7 DEF QueueInv
<1>10. CASE GetCount(g)
  <2> USE <1>10 DEF GetCount
  <2>1. qpc[g] = "get_cnt" /\ qpc'[g] = "idle" /\ get_cnt' = get_cnt + 1
    BY <1>1, <1>2 DEF QTypeOK
  <2>2. CountOK' /\ Count' = Count - 1 /\ Count > 0
    BY <1>1, <1>2, <1>3, <2>1 DEF CountOK, QTypeOK, Count
  <2>3. Oldest = IF front = 0 THEN Capacity - 1 ELSE front - 1
    BY <1>1, <1>6, <2>1, Behind DEF Oldest, QTypeOK
  <2>4. Oldest' = front
    BY <1>7, <2>1 DEF Oldest
  <2>5. front = IF Oldest + 1 < Capacity THEN Oldest + 1 ELSE 0
    BY <1>1, <2>3 DEF QTypeOK, Slots
  <2>6. \A k \in 0 .. Count - 1 : SlotAt(k)' = SlotAt(k + 1)
    <3> TAKE k \in 0 .. Count - 1
    <3> DEFINE y == front + k
    <3>1. SlotAt(k)' = y % Capacity
      BY <2>4 DEF SlotAt
    <3>2. y \in 0 .. 2 * Capacity - 1
      BY <1>1, <1>2 DEF QTypeOK, Slots
    <3>3. SlotAt(k)' = IF y < Capacity THEN y ELSE y - Capacity
      <4> HIDE DEF y
      <4> QED
        BY <3>1, <3>2, Indices
    <3>4. SlotAt(k + 1) = IF Oldest + (k + 1) < Capacity THEN Oldest + (k + 1)
                                                     ELSE Oldest + (k + 1) - Capacity
      <4>1. k + 1 \in 0 .. Capacity
        BY <1>2
      <4> HIDE DEF y
      <4> QED
        BY <1>1, <4>1, Ring
    <3>5. Oldest \in Slots /\ Count \in 0 .. Capacity
      BY <1>1, <1>2, Ring
    <3> QED
      BY <1>1, <2>5, <3>3, <3>4, <3>5 DEF QTypeOK, Slots
  <2>7. SlotOK'
    <3>1. SlotAt(Count)' = SlotAt(Count)
      BY <1>2, <2>2, <2>6
    <3> QED
      BY <1>1, <1>3, <1>5, <2>1, <3>1 DEF SlotOK, Next_
  <2>8. qitem[g] = array[SlotAt(0)]
    BY <1>1, <2>1, Ring DEF SlotOK, Slots
  <2> QED
    BY <1>2, <1>3, <1>4, <2>1, <2>2, <2>6, <2>7, <2>8 DEF QueueInv
<1> QED
  BY <1>8, <1>9, <1>10 DEF QueueGet

(* Every statement of either function preserves it.                         *)
LEMMA NextInv == ASSUME SingleUse PROVE QueueInv /\ [Next]_vars => QueueInv'
<1> SUFFICES ASSUME QueueInv, [Next]_vars PROVE QueueInv'
  OBVIOUS
<1>1. TypeOK'
  BY NextType DEF QueueInv
<1>2. CASE UNCHANGED vars
  BY <1>2 DEF vars, queueVars, callVars, QueueInv, TypeOK, QTypeOK, RolesOK, CountOK,
              SlotOK, Inserting, SlotAt, Oldest, Count, Next_
<1>3. CASE \E c \in Producers : QueuePut(c)
  BY <1>1, <1>3, PutStep
<1>4. CASE \E c \in Consumers : QueueGet(c)
  BY <1>1, <1>4, GetStep
<1> QED
  BY <1>2, <1>3, <1>4 DEF Next

(* Between one producer and one consumer, whatever the interleaving of      *)
(* their statements, no item is stored over another before the counters     *)
(* wrap.                                                                    *)
THEOREM InvCorrect == ASSUME SingleUse PROVE Spec => []QueueInv
  BY InitInv, NextInv, PTL DEF Spec

(* The invariant bounds the number of queued items by the slots.            *)
LEMMA InvImplies == ASSUME SingleUse PROVE QueueInv => NoOverrun
  BY Counters DEF NoOverrun

(* With one producer and one consumer queue_put never stores over an item   *)
(* that queue_get has still to return.                                      *)
THEOREM OverrunFree == ASSUME SingleUse PROVE Spec => []NoOverrun
  BY InvCorrect, InvImplies, PTL

-----------------------------------------------------------------------------
(* queue_put and queue_get between one producer and one consumer implement  *)
(* the abstract queue: each call takes effect at its last statement.        *)
LEMMA InitRefines == Init => FifoQueue!Init
<1> SUFFICES ASSUME Init PROVE FifoQueue!Init
  OBVIOUS
<1>1. Count = 0
  BY DEF Init, QInit, Count
<1>2. Buffer = << >>
  BY <1>1 DEF Buffer
<1> QED
  BY <1>2, SharedQueueAssumption DEF Init, FifoQueue!Init

(* A statement of queue_put is a step of the abstract queue or leaves it.   *)
LEMMA PutRefines ==
  ASSUME SingleUse, QueueInv, TypeOK', NEW p \in Producers, QueuePut(p)
  PROVE  [FifoQueue!Next]_(FifoQueue!vars)
<1> USE QueueAssumption, SharedQueueAssumption DEF queueVars, callVars, Goto, Return
<1>1. /\ Oldest' = Oldest
      /\ \A k \in 0 .. Count - 1 : array'[SlotAt(k)] = array[SlotAt(k)]
      /\ qpc[p] # "put_cnt" => Count' = Count
  BY PutStep
<1>2. SlotAt(0)' = SlotAt(0) /\ \A k \in Nat : SlotAt(k)' = SlotAt(k)
  BY <1>1 DEF SlotAt
<1>3. Count \in 0 .. Capacity /\ (IsFull <=> Count >= Capacity)
  BY Counters
<1>4. CASE qpc[p] # "put_cnt"
  <2>1. Buffer' = Buffer
    BY <1>1, <1>2, <1>3, <1>4 DEF Buffer
  <2>2. CASE UNCHANGED ret
    BY <2>1, <2>2 DEF FifoQueue!vars
  <2>3. CASE PutRefused(p) /\ Return(p, "full")
    <3>1. Len(Buffer) = Capacity
      BY <1>3, <2>3 DEF PutRefused, Buffer
    <3> QED
      BY <2>1, <2>3, <3>1 DEF FifoQueue!Next, FifoQueue!PutFull
  <2> QED
    BY <1>4, <2>2, <2>3 DEF QueuePut, PutCount
<1>5. CASE qpc[p] = "put_cnt"
  <2>1. /\ Count < Capacity
        /\ Count' = Count + 1
        /\ array' = array
        /\ qitem[p] = array[SlotAt(Count)]
    BY <1>5, PutStep
  <2>2. PutCount(p) /\ Return(p, "ok")
    BY <1>5 DEF QueuePut, PutCall, PutRefused, PutRear, PutSlot
  <2>3. qitem[p] \in Items
    BY <1>5 DEF QueueInv, SlotOK
  <2>4. Len(Buffer) < Capacity /\ Buffer' = Append(Buffer, qitem[p])
    BY <1>2, <1>3, <2>1 DEF Buffer
  <2> QED
    BY <2>2, <2>3, <2>4 DEF FifoQueue!Next, FifoQueue!Put
<1> QED
  BY <1>4, <1>5

(* So is a statement of queue_get.                                          *)
LEMMA GetRefines ==
  ASSUME SingleUse, QueueInv, TypeOK', NEW g \in Consumers, QueueGet(g)
  PROVE  [FifoQueue!Next]_(FifoQueue!vars)
<1> USE QueueAssumption, SharedQueueAssumption DEF queueVars, callVars, Goto, Return
<1>1. /\ array' = array
      /\ qpc[g] # "get_cnt" => Oldest' = Oldest /\ Count' = Count
  BY GetStep
<1>2. Count \in 0 .. Capacity /\ Count = put_cnt - get_cnt
  BY Counters
<1>3. CASE qpc[g] # "get_cnt"
  <2>1. \A k \in Nat : SlotAt(k)' = SlotAt(k)
    BY <1>1, <1>3 DEF SlotAt
  <2>2. Buffer' = Buffer
    BY <1>1, <1>2, <1>3, <2>1 DEF Buffer
  <2>3. CASE UNCHANGED ret
    BY <2>2, <2>3 DEF FifoQueue!vars
  <2>4. CASE GetNull(g) /\ Return(g, NoItem)
    <3>1. Buffer = << >>
      BY <1>2, <2>4 DEF GetNull, IsEmpty, Buffer, QueueInv, TypeOK, QTypeOK
    <3> QED
      BY <2>2, <2>4, <3>1 DEF FifoQueue!Next, FifoQueue!GetEmpty
  <2> QED
    BY <1>3, <2>3, <2>4 DEF QueueGet, GetCount
<1>4. CASE qpc[g] = "get_cnt"
  <2>1. /\ Count > 0
        /\ Count' = Count - 1
        /\ \A k \in 0 .. Count - 2 : SlotAt(k)' = SlotAt(k + 1)
        /\ qitem[g] = array[SlotAt(0)]
    BY <1>4, GetStep
  <2>2. GetCount(g) /\ Return(g, qitem[g])
    BY <1>4 DEF QueueGet, GetCall, GetNull, GetItem, GetFront
  <2>3. Buffer # << >> /\ Head(Buffer) = qitem[g] /\ Buffer' = Tail(Buffer)
    BY <1>1, <1>2, <2>1 DEF Buffer
  <2> QED
    BY <2>2, <2>3 DEF FifoQueue!Next, FifoQueue!Get
<1> QED
  BY <1>3, <1>4

(* The ring queue implements the abstract FIFO until the counters wrap.     *)
THEOREM Refinement == ASSUME SingleUse PROVE Spec => IsFifo
<1>1. ASSUME QueueInv, TypeOK', [Next]_vars
      PROVE  [FifoQueue!Next]_(FifoQueue!vars)
  <2>1. CASE UNCHANGED vars
    BY <2>1 DEF vars, queueVars, callVars, FifoQueue!vars, Buffer, SlotAt, Oldest, Count
  <2> QED
    BY <1>1, <2>1, PutRefines, GetRefines DEF Next
<1>2. QueueInv => TypeOK
  BY DEF QueueInv
<1> QED
  BY <1>1, <1>2, InitRefines, InvCorrect, PTL DEF Spec, IsFifo, FifoQueue!Spec

-----------------------------------------------------------------------------
(* How httpd sends an answer.                                               *)

(* The provers do not know that a literal is in STRING.                     *)
Chars == STRING \cup {"?"}

(* What an SSI handler returns for a name.                                  *)
Parts(name) == IF name \in DOMAIN Known THEN Known[name] ELSE <<Unknown(name)>>

Hs == [hdr_index : Nat \ {0}, hdr_pos : Nat, file : Nat \ {0}, index : Nat, buf : Nat,
       retries : Nat, wait : {"no", "yes", "over"}, left : Nat]
Ssi == [state : {"NONE", "LEADIN", "FOUND", "LEADOUT", "SENDING"},
        type : DOMAIN TagDesc \cup {1}, index : Nat,
        parsed : Nat \ {0}, parse_left : Nat, started : Nat \ {0}, tag_end : Nat \ {0},
        name : Seq(Chars), insert : Seq(Chars), part : Nat \cup {LastPart}]
Run == [pc : {"idle", "headers", "left", "data", "first", "loop", "tail", "check"},
        len : Nat, ok : BOOLEAN]

(* The headers are written up to hdr_pos, and the file up to hs.file.       *)
HsOK ==
  /\ hs \in Hs
  /\ hs.hdr_index <= NumHdrs + 1
  /\ hs.hdr_index <= NumHdrs => hs.hdr_pos <= Len(page.hdrs[hs.hdr_index])
  /\ hs.index <= Len(Text) /\ hs.file <= Len(Text) + 1
  /\ hs.left = Buffered - hs.file + 1

(* What has been parsed and what has not make the file; what has been sent  *)
(* ends with it, or in a tag that is left out.                              *)
SsiOK ==
  /\ ssi \in Ssi
  /\ ssi.state \in {"NONE", "LEADIN", "FOUND", "LEADOUT"} =>
       ssi.parsed + ssi.parse_left = Len(Text) + 1 /\ hs.file <= ssi.parsed
  /\ ssi.state \in {"LEADIN", "FOUND", "LEADOUT"} =>
       ssi.started < ssi.parsed /\ (ssi.parse_left = 0 \/ hs.file <= ssi.started)
  /\ ssi.state = "SENDING" =>
       /\ ssi.tag_end + ssi.parse_left = Len(Text) + 1 /\ hs.file <= ssi.tag_end
       /\ ssi.started < ssi.tag_end
       /\ ssi.parsed = IF include THEN ssi.tag_end ELSE ssi.started
       /\ include \/ hs.file <= ssi.started \/ hs.file = ssi.tag_end
       /\ ssi.index <= Len(ssi.insert)
       /\ ssi.part # LastPart => ssi.part < Len(Parts(ssi.name))
  /\ Len(ssi.name) <= MaxName
  /\ ssi.state = "FOUND" => ssi.index = Len(ssi.name)

(* Where http_send() is.  A turn of the loop or a call that writes nothing  *)
(* without a failure has found no room.                                     *)
RunOK ==
  /\ run \in Run
  /\ run.pc \in {"first", "loop", "tail"} => page.kind = "ssi"
  /\ page.kind = "ssi" /\ ssi.state \in {"LEADIN", "FOUND", "LEADOUT"} /\ ssi.parse_left > 0 =>
       run.pc = "loop" /\ run.ok /\ run.len > 0
  /\ run.pc = "data" => hs.left > 0 /\ page.kind # "ssi"
  /\ run.pc = "loop" /\ run.ok /\ run.len = 0 => queued > 0
  /\ run.pc = "tail" /\ run.ok => ssi.state # "SENDING" /\ ssi.parse_left = 0
  /\ run.pc = "check" /\ run.ok => queued > 0 \/ (hs.left = 0 /\ BytesLeft <= 0)
  /\ run.pc = "idle" /\ end = "no" /\ queued = 0 => hs.wait = "yes" \/ ~run.ok

SendInv ==
  /\ page \in Pages /\ include \in BOOLEAN /\ queued \in 0 .. SndBuf
  /\ HsOK /\ (page.kind = "ssi" => SsiOK) /\ RunOK

-----------------------------------------------------------------------------
(* The constants and the answer.                                            *)
LEMMA PageTypes ==
  ASSUME page \in Pages
  PROVE  /\ Text \in Seq(STRING) /\ Len(Text) \in Nat
         /\ page.kind \in {"memory", "ssi", "read", "none"}
         /\ page.kind = "none" => Len(Text) = 0
         /\ NumHdrs \in Nat
         /\ \A i \in 1 .. NumHdrs : page.hdrs[i] \in Seq(STRING) /\ Len(page.hdrs[i]) \in Nat
BY HttpdSendAssumption DEF HttpdSendAssumption, Text, NumHdrs

LEMMA CharsAre ==
  /\ "?" \in Chars /\ STRING \subseteq Chars
  /\ Seq(Seq(STRING)) \subseteq Seq(Seq(Chars))
<1>1. \A S, T : S \subseteq T => Seq(S) \subseteq Seq(T)
  OBVIOUS
<1>2. "?" \in Chars /\ STRING \subseteq Chars
  BY DEF Chars
<1> QED
  BY <1>1, <1>2

LEMMA Numbers == SndBuf \in Nat \ {0} /\ MaxName \in Nat \ {0}
BY HttpdSendAssumption DEF HttpdSendAssumption

(* What a write takes; nothing, without a failure, only if there was        *)
(* nothing to write or no room.                                             *)
LEMMA WriteTakes ==
  ASSUME queued \in 0 .. SndBuf, NEW len \in Nat, NEW w \in Outcomes(len)
  PROVE  /\ w.n \in 0 .. len /\ w.n <= Room /\ Room \in Nat
         /\ w.ok \in BOOLEAN
         /\ queued + w.n \in 0 .. SndBuf
         /\ w.ok /\ w.n = 0 => len = 0 \/ queued = SndBuf
         /\ ~w.ok => w.n = 0
         /\ Room = w.n => queued + w.n = SndBuf
<1>1. Room \in Nat /\ Room = SndBuf - queued
  BY Numbers DEF Room
<1>2. CASE w \in {[n |-> n, ok |-> TRUE] : n \in Sizes(len)}
  <2>1. PICK n \in Sizes(len) : w = [n |-> n, ok |-> TRUE]
    BY <1>2
  <2>2. w.n = n /\ w.ok
    BY <2>1
  <2>3. n = LesserOf(len, Room) \/ n \in 2 .. LesserOf(len, Room)
    BY DEF Sizes
  <2>4. n \in 0 .. len /\ n <= Room /\ (n = 0 => len = 0 \/ Room = 0)
    BY <1>1, <2>3 DEF LesserOf
  <2>5. w.ok \in BOOLEAN
    BY <2>1, Zenon
  <2> QED
    BY <1>1, <2>2, <2>4, <2>5, Numbers
<1>3. CASE w \in IF len = 0 THEN {} ELSE {[n |-> 0, ok |-> FALSE]}
  <2>1. w = [n |-> 0, ok |-> FALSE]
    BY <1>3
  <2>2. w.n = 0 /\ ~w.ok
    BY <2>1
  <2>3. w.ok \in BOOLEAN
    BY <2>1, Zenon
  <2> QED
    BY <1>1, <2>2, <2>3, Numbers
<1> QED
  BY <1>2, <1>3 DEF Outcomes

(* A set of numbers up to a bound has a smallest one: the shortest of the   *)
(* intervals that end with its elements.                                    *)
LEMMA Smallest ==
  ASSUME NEW n \in Nat, NEW S \in SUBSET (1 .. n), S # {}
  PROVE  \E j \in S : \A k \in S : j <= k
<1> DEFINE U == 1 .. n
           T == {1 .. j : j \in S}
<1>1. IsFiniteSet(U)
  BY FS_Interval
<1>2. IsWellFoundedOn(StrictSubsetOrdering(U), SUBSET U)
  BY <1>1, FS_FiniteSubsetsOfFinite, FS_StrictSubsetOrderingWellFounded
<1>3. T \subseteq SUBSET U /\ T # {}
  <2>1. \A j \in S : 1 .. j \subseteq U
    OBVIOUS
  <2> HIDE DEF U
  <2> QED
    BY <2>1
<1>4. PICK x \in T : \A y \in T : ~(<<y, x>> \in StrictSubsetOrdering(U))
  <2> HIDE DEF T, U
  <2> QED
    BY <1>2, <1>3, WFMin
<1>5. PICK j \in S : x = 1 .. j
  OBVIOUS
<1>6. ASSUME NEW k \in S, k < j PROVE FALSE
  <2>1. 1 .. k \in T /\ 1 .. k \in SUBSET U /\ 1 .. j \in SUBSET U
    OBVIOUS
  <2>2. 1 .. k \subseteq 1 .. j /\ j \in 1 .. j /\ j \notin 1 .. k
    BY <1>6
  <2>3. 1 .. k # 1 .. j
    BY <2>2
  <2>4. <<1 .. k, 1 .. j>> \in StrictSubsetOrdering(U)
    <3> HIDE DEF U
    <3> QED
      BY <2>1, <2>2, <2>3 DEF StrictSubsetOrdering
  <2> QED
    BY <1>4, <1>5, <2>1, <2>4
<1> QED
  BY <1>6

(* The header that comes next.                                              *)
LEMMA NextHdrIs ==
  ASSUME page \in Pages, NEW i \in 1 .. NumHdrs
  PROVE  NextHdr(i) \in Nat \ {0} /\ NextHdr(i) <= NumHdrs + 1
<1> DEFINE left == {j \in i + 1 .. NumHdrs : page.hdrs[j] # <<>>}
           Least(m) == \A k \in left : m <= k
<1>1. NumHdrs \in Nat
  BY PageTypes
<1>2. NextHdr(i) = IF left = {} THEN NumHdrs + 1 ELSE CHOOSE m \in left : Least(m)
  BY DEF NextHdr
<1>3. CASE left # {}
  <2>1. left \in SUBSET (1 .. NumHdrs)
    BY <1>1
  <2>2. \E m \in left : Least(m)
    BY <1>1, <1>3, <2>1, Smallest
  <2>3. (CHOOSE m \in left : Least(m)) \in left
    <3> HIDE DEF left, Least
    <3> QED
      BY <2>2
  <2>4. NextHdr(i) \in left
    <3> HIDE DEF left, Least
    <3> QED
      BY <1>2, <1>3, <2>3
  <2>5. \A m \in 1 .. NumHdrs : m \in Nat \ {0} /\ m <= NumHdrs + 1
    BY <1>1
  <2> HIDE DEF left
  <2> QED
    BY <2>1, <2>4, <2>5
<1>4. CASE left = {}
  <2> HIDE DEF left, Least
  <2> QED
    BY <1>1, <1>2, <1>4
<1> QED
  BY <1>3, <1>4

(* The fields of http_state after a write.                                  *)
LEMMA SendingFields ==
  ASSUME hs \in Hs, NEW n \in Nat, n <= hs.left, Sending(n)
  PROVE  /\ hs' \in Hs
         /\ hs'.file = hs.file + n /\ hs'.left = hs.left - n
         /\ hs'.hdr_index = hs.hdr_index /\ hs'.hdr_pos = hs.hdr_pos /\ hs'.index = hs.index
         /\ hs'.wait = hs.wait
<1>1. /\ hs.file \in Nat \ {0} /\ hs.left \in Nat
      /\ hs.file + n \in Nat \ {0} /\ hs.left - n \in Nat
  BY DEF Hs
<1> DEFINE f == hs.file + n
           l == hs.left - n
<1>2. hs' = [hs EXCEPT !.file = f, !.left = l]
  BY DEF Sending
<1>3. f \in Nat \ {0} /\ l \in Nat
  BY <1>1
<1> HIDE DEF f, l
<1>4. hs' \in Hs /\ hs'.file = f /\ hs'.left = l
  BY <1>2, <1>3 DEF Hs
<1>5. /\ hs'.hdr_index = hs.hdr_index /\ hs'.hdr_pos = hs.hdr_pos /\ hs'.index = hs.index
      /\ hs'.wait = hs.wait
  BY <1>2 DEF Hs
<1> QED
  BY <1>4, <1>5 DEF f, l

(* Where the buffer ends and what of the file is not in it.                 *)
LEMMA LeftIs ==
  ASSUME page \in Pages, HsOK
  PROVE  /\ Buffered \in Nat /\ BytesLeft \in Nat
         /\ hs.left \in Nat /\ hs.file \in Nat /\ hs.index \in Nat
         /\ page.kind = "ssi" => hs.left = Len(Text) - hs.file + 1 /\ BytesLeft = 0
BY PageTypes DEF HsOK, Hs, Buffered, BytesLeft

LEMMA SendingKeeps ==
  ASSUME page \in Pages, HsOK, NEW n \in Nat, n <= hs.left, Sending(n), page' = page
  PROVE  HsOK' /\ hs'.file = hs.file + n /\ hs'.left = hs.left - n /\ hs'.wait = hs.wait
         /\ BytesLeft' = BytesLeft
<1>1. /\ hs' \in Hs
      /\ hs'.file = hs.file + n /\ hs'.left = hs.left - n
      /\ hs'.hdr_index = hs.hdr_index /\ hs'.hdr_pos = hs.hdr_pos /\ hs'.index = hs.index
      /\ hs'.wait = hs.wait
  BY SendingFields DEF HsOK
<1>2. Text' = Text /\ NumHdrs' = NumHdrs
  BY DEF Text, NumHdrs
<1>3. Buffered' = Buffered /\ BytesLeft' = BytesLeft
  BY <1>1, <1>2 DEF Buffered, BytesLeft
<1>4. Buffered <= Len(Text)
  BY PageTypes DEF HsOK, Hs, Buffered
<1>5. hs.hdr_index \in Nat /\ hs.index \in Nat /\ hs.left \in Nat /\ hs.file \in Nat /\ Buffered \in Nat
  BY LeftIs DEF HsOK, Hs
<1> QED
  BY <1>1, <1>2, <1>3, <1>4, <1>5, PageTypes DEF HsOK

LEMMA HsSame ==
  ASSUME HsOK, UNCHANGED <<page, hs>>
  PROVE  HsOK'
BY DEF HsOK, Text, NumHdrs, Buffered

(* The tag parser, as long as what is sent stays where it was.              *)
LEMMA SsiSame ==
  ASSUME SsiOK, UNCHANGED <<page, include, ssi>>, hs'.file = hs.file
  PROVE  SsiOK'
BY DEF SsiOK, Text, Parts

(* The tag parser while a part of what it has let through is sent.          *)
LEMMA SsiSent ==
  ASSUME page \in Pages, page.kind = "ssi", HsOK, SsiOK, UNCHANGED <<page, include, ssi>>,
         NEW n \in Nat, hs'.file = hs.file + n,
         hs'.file <= ssi.parsed,
         ssi.state \in {"LEADIN", "FOUND", "LEADOUT"} => ssi.parse_left = 0
  PROVE  SsiOK'
<1>1. Text' = Text /\ hs.file \in Nat /\ Parts(ssi.name)' = Parts(ssi.name)
  BY LeftIs DEF Text, Parts
<1>2. ssi.parsed \in Nat /\ ssi.started \in Nat /\ ssi.tag_end \in Nat
  BY DEF SsiOK, Ssi
<1>3. hs'.file \in Nat
  BY <1>1
<1> QED
  BY <1>1, <1>2, <1>3 DEF SsiOK

(* The two ways a call returns.                                             *)
LEMMA ReturnedIs ==
  /\ \A b \in BOOLEAN : /\ Returned(b) \in Run
                        /\ Returned(b).pc = "idle" /\ Returned(b).len = 0
                        /\ Returned(b).ok = b
  /\ Returned(FALSE) \in Run /\ Returned(FALSE).pc = "idle" /\ ~Returned(FALSE).ok
<1>1. \A b \in BOOLEAN : /\ Returned(b) \in Run
                         /\ Returned(b).pc = "idle" /\ Returned(b).len = 0
                         /\ Returned(b).ok = b
  <2> TAKE b \in BOOLEAN
  <2>1. Returned(b) = [pc |-> "idle", len |-> 0, ok |-> b]
    BY DEF Returned
  <2> QED
    BY <2>1 DEF Run
<1>2. FALSE \in BOOLEAN
  BY Zenon
<1>3. Returned(FALSE) \in Run /\ Returned(FALSE).pc = "idle"
  BY <1>1, <1>2, Zenon
<1>4. ~Returned(FALSE).ok
  BY DEF Returned
<1> QED
  BY <1>1, <1>3, <1>4

(* A call that starts, or that goes on elsewhere.                           *)
LEMMA RunFields ==
  ASSUME run \in Run, NEW c \in {"left", "data", "first", "check", "tail"}
  PROVE  /\ [run EXCEPT !.pc = c] \in Run /\ [run EXCEPT !.pc = c].pc = c
         /\ [run EXCEPT !.pc = c].len = run.len /\ [run EXCEPT !.pc = c].ok = run.ok
         /\ \A b \in BOOLEAN :
              /\ [run EXCEPT !.pc = c, !.ok = b] \in Run
              /\ [run EXCEPT !.pc = c, !.ok = b].pc = c
              /\ [run EXCEPT !.pc = c, !.ok = b].ok = b
BY DEF Run

LEMMA StartIs ==
  /\ [Returned(TRUE) EXCEPT !.pc = "headers"] \in Run
  /\ [Returned(TRUE) EXCEPT !.pc = "headers"].pc = "headers"
<1>1. TRUE \in BOOLEAN
  BY Zenon
<1>2. Returned(TRUE) \in Run
  BY <1>1, ReturnedIs, Zenon
<1>3. \A r \in Run : [r EXCEPT !.pc = "headers"] \in Run /\ [r EXCEPT !.pc = "headers"].pc = "headers"
  BY DEF Run
<1> QED
  BY <1>2, <1>3

LEMMA HeaderNext == SendInv /\ SendHeader => SendInv'
<1> SUFFICES ASSUME SendInv, SendHeader PROVE SendInv'
  OBVIOUS
<1> DEFINE hdr == page.hdrs[hs.hdr_index]
           rest == SubSeq(hdr, hs.hdr_pos + 1, Len(hdr))
<1>1. page \in Pages /\ HsOK /\ RunOK /\ queued \in 0 .. SndBuf /\ hs \in Hs
  BY DEF SendInv, HsOK
<1>2. run.pc = "headers" /\ hs.hdr_index \in 1 .. NumHdrs /\ hs.hdr_pos \in Nat
  BY <1>1, PageTypes DEF SendHeader, Hs
<1>3. hdr \in Seq(STRING) /\ Len(hdr) \in Nat /\ hs.hdr_pos <= Len(hdr)
  BY <1>1, <1>2, PageTypes DEF HsOK
<1>4. Len(rest) = Len(hdr) - hs.hdr_pos /\ Len(rest) \in Nat
  BY <1>2, <1>3
<1>5. PICK w \in Outcomes(Len(rest)) :
        /\ Written(rest, w)
        /\ hs' = IF w.n = Len(rest) THEN [hs EXCEPT !.hdr_index = NextHdr(@), !.hdr_pos = 0]
                 ELSE [hs EXCEPT !.hdr_pos = @ + w.n]
        /\ run' = IF w.ok THEN run ELSE Returned(FALSE)
  BY DEF SendHeader
<1>6. UNCHANGED <<page, include, ssi, end>>
  BY DEF SendHeader
<1>7. w.n \in 0 .. Len(rest) /\ queued + w.n \in 0 .. SndBuf /\ w.ok \in BOOLEAN
  BY <1>1, <1>4, WriteTakes
<1>8. queued' \in 0 .. SndBuf
  BY <1>5, <1>7 DEF Written
<1>9. /\ hs' \in Hs /\ hs'.file = hs.file /\ hs'.left = hs.left /\ hs'.index = hs.index
      /\ hs'.hdr_index <= NumHdrs + 1
      /\ hs'.hdr_index <= NumHdrs => hs'.hdr_pos <= Len(page.hdrs[hs'.hdr_index])
  <2>1. CASE w.n = Len(rest)
    <3> DEFINE next == NextHdr(hs.hdr_index)
    <3>1. next \in Nat \ {0} /\ next <= NumHdrs + 1
      BY <1>1, <1>2, NextHdrIs
    <3>2. hs' = [hs EXCEPT !.hdr_index = next, !.hdr_pos = 0]
      BY <1>5, <2>1
    <3> HIDE DEF next
    <3>3. hs' \in Hs /\ hs'.hdr_index = next /\ hs'.hdr_pos = 0
      BY <1>1, <3>1, <3>2 DEF Hs
    <3>4. hs'.file = hs.file /\ hs'.left = hs.left /\ hs'.index = hs.index
      BY <1>1, <3>2 DEF Hs
    <3>5. next <= NumHdrs => next \in 1 .. NumHdrs
      BY <1>1, <3>1, PageTypes
    <3> QED
      BY <1>1, <3>1, <3>3, <3>4, <3>5, PageTypes
  <2>2. CASE w.n # Len(rest)
    <3> DEFINE p == hs.hdr_pos + w.n
    <3>1. p \in Nat /\ p <= Len(hdr)
      BY <1>2, <1>3, <1>4, <1>7
    <3>2. hs' = [hs EXCEPT !.hdr_pos = p]
      BY <1>5, <2>2
    <3> HIDE DEF p
    <3>3. hs' \in Hs /\ hs'.hdr_index = hs.hdr_index /\ hs'.hdr_pos = p
      BY <1>1, <3>1, <3>2 DEF Hs
    <3>4. hs'.file = hs.file /\ hs'.left = hs.left /\ hs'.index = hs.index
      BY <1>1, <3>2 DEF Hs
    <3> QED
      BY <1>1, <1>2, <3>1, <3>3, <3>4, PageTypes
  <2> QED
    BY <2>1, <2>2
<1>10. HsOK'
  BY <1>1, <1>6, <1>9 DEF HsOK, Text, NumHdrs, Buffered
<1>11. page.kind = "ssi" => SsiOK'
  BY <1>6, <1>9, SsiSame DEF SendInv
<1>12. RunOK'
  <2>1. run' = run \/ run' = Returned(FALSE)
    BY <1>5
  <2>2. run' \in Run /\ (run'.pc = "headers" \/ (run'.pc = "idle" /\ ~run'.ok))
    BY <1>1, <1>2, <2>1, ReturnedIs DEF RunOK
  <2> QED
    BY <1>1, <1>2, <1>6, <2>2 DEF RunOK
<1> QED
  BY <1>1, <1>6, <1>8, <1>10, <1>11, <1>12 DEF SendInv

LEMMA HeadersDoneNext == SendInv /\ HeadersDone => SendInv'
<1> SUFFICES ASSUME SendInv, HeadersDone PROVE SendInv'
  OBVIOUS
<1>1. UNCHANGED <<page, include, hs, ssi, queued, out, end>> /\ run.pc = "headers"
  BY DEF HeadersDone
<1>2. run' = [run EXCEPT !.pc = "left"] \/ (run' = Returned(run.ok) /\ Room = 0)
  BY DEF HeadersDone
<1>3. run \in Run /\ run.ok \in BOOLEAN /\ queued \in 0 .. SndBuf
  BY DEF SendInv, RunOK, Run
<1>4. run' \in Run /\ (run'.pc = "left" \/ (run'.pc = "idle" /\ Room = 0))
  <2>1. CASE run' = [run EXCEPT !.pc = "left"]
    BY <1>3, <2>1, RunFields
  <2>2. CASE run' = Returned(run.ok) /\ Room = 0
    BY <1>3, <2>2, ReturnedIs
  <2> QED
    BY <1>2, <2>1, <2>2
<1>5. Room = 0 => queued # 0
  BY <1>3, Numbers DEF Room
<1>6. RunOK'
  BY <1>1, <1>4, <1>5 DEF RunOK, SendInv
<1>7. HsOK'
  BY <1>1, HsSame DEF SendInv
<1>8. page.kind = "ssi" => SsiOK'
  BY <1>1, SsiSame DEF SendInv
<1> QED
  BY <1>1, <1>6, <1>7, <1>8 DEF SendInv

(* A piece that is read fills the buffer.                                   *)
LEMMA LoadedFields ==
  ASSUME page \in Pages, HsOK, hs.left = 0, BytesLeft > 0, NEW count \in Nat \ {0},
         UNCHANGED page, Loaded(count)
  PROVE  HsOK' /\ hs'.left > 0 /\ hs'.file = hs.file
<1> DEFINE read == LesserOf(count, BytesLeft)
           index == hs.index + read
<1>1. page.kind = "read" /\ BytesLeft = Len(Text) - hs.index /\ Len(Text) \in Nat
  BY PageTypes DEF BytesLeft
<1>2. hs \in Hs /\ hs.index \in Nat /\ hs.file \in Nat \ {0} /\ hs.index = hs.file - 1
  <2>1. Buffered = hs.index /\ hs.left = Buffered - hs.file + 1
    BY <1>1 DEF Buffered, HsOK
  <2>2. hs \in Hs
    BY DEF HsOK
  <2>3. hs.index \in Nat /\ hs.file \in Nat \ {0}
    BY <2>2 DEF Hs
  <2> QED
    BY <2>1, <2>2, <2>3
<1>3. read \in Nat \ {0} /\ index \in Nat /\ index <= Len(Text) /\ index = hs.index + read
  <2>1. BytesLeft \in Nat \ {0}
    BY <1>1, <1>2
  <2>2. read <= Len(Text) - hs.index /\ read > 0 /\ read \in Nat
    BY <1>1, <1>2, <2>1 DEF LesserOf
  <2> HIDE DEF read
  <2> QED
    BY <1>1, <1>2, <2>2
<1>4. hs' = [hs EXCEPT !.buf = count, !.index = index, !.left = read, !.wait = "no"]
  BY DEF Loaded
<1>5. Text' = Text /\ NumHdrs' = NumHdrs /\ page' = page
  BY DEF Text, NumHdrs
<1>6. index = hs.file - 1 + read
  <2> HIDE DEF index, read
  <2> QED
    BY <1>2, <1>3
<1> HIDE DEF read, index
<1>7. hs' \in Hs /\ hs'.index = index /\ hs'.left = read
  BY <1>2, <1>3, <1>4 DEF Hs
<1>8. hs'.file = hs.file /\ hs'.hdr_index = hs.hdr_index /\ hs'.hdr_pos = hs.hdr_pos
  BY <1>2, <1>4 DEF Hs
<1>9. hs'.left = Buffered' - hs'.file + 1
  BY <1>1, <1>2, <1>3, <1>5, <1>6, <1>7, <1>8 DEF Buffered
<1> QED
  BY <1>3, <1>5, <1>7, <1>8, <1>9 DEF HsOK

LEMMA LeftNext == SendInv /\ Left => SendInv'
<1> SUFFICES ASSUME SendInv, Left PROVE SendInv'
  OBVIOUS
<1>1. UNCHANGED <<page, include, ssi, queued, out>> /\ run.pc = "left"
  BY DEF Left
<1>2. /\ page \in Pages /\ HsOK /\ RunOK /\ hs \in Hs /\ run \in Run /\ run.ok \in BOOLEAN
      /\ (page.kind = "ssi" => SsiOK) /\ Room \in Nat
  BY Numbers DEF SendInv, HsOK, RunOK, Run, Room
<1>3. page.kind = "ssi" /\ ssi.state \in {"LEADIN", "FOUND", "LEADOUT"} => ~(ssi.parse_left > 0)
  BY <1>1, <1>2 DEF RunOK
<1>4. CASE hs.left # 0
  <2>1. run' = [run EXCEPT !.pc = IF page.kind = "ssi" THEN "first" ELSE "data"] /\ UNCHANGED <<hs, end>>
    BY <1>4 DEF Left
  <2>2. run' \in Run /\ (run'.pc = IF page.kind = "ssi" THEN "first" ELSE "data")
    BY <1>2, <2>1, RunFields
  <2>3. hs.left > 0
    BY <1>2, <1>4, LeftIs
  <2>4. RunOK'
    BY <1>1, <1>3, <2>1, <2>2, <2>3 DEF RunOK
  <2>5. HsOK' /\ (page.kind = "ssi" => SsiOK')
    BY <1>1, <1>2, <2>1, HsSame, SsiSame
  <2> QED
    BY <1>1, <2>4, <2>5 DEF SendInv

<1>5. CASE hs.left = 0 /\ BytesLeft <= 0
  <2>1. end' = "eof" /\ run' = Returned(run.ok) /\ UNCHANGED hs
    BY <1>5 DEF Left, CheckEof, Eof
  <2>2. run' \in Run /\ run'.pc = "idle"
    BY <1>2, <2>1, ReturnedIs
  <2>3. RunOK'
    BY <1>1, <1>3, <2>1, <2>2 DEF RunOK
  <2>4. HsOK' /\ (page.kind = "ssi" => SsiOK')
    BY <1>1, <1>2, <2>1, HsSame, SsiSame
  <2> QED
    BY <1>1, <2>3, <2>4 DEF SendInv
<1>6. CASE hs.left = 0 /\ ~(BytesLeft <= 0)
  <2> DEFINE count == IF hs.buf > 0 THEN hs.buf ELSE LesserOf(Room, BytesLeft)
  <2>1. BytesLeft > 0 /\ BytesLeft \in Nat
    BY <1>2, <1>6, LeftIs
  <2>2. count \in Nat
    BY <1>2, <2>1 DEF LesserOf, Hs
  <2>3. NoBuffer \/ (count \in Nat \ {0} /\ (ReadDelayed(count) \/ Loaded(count)))
    BY <1>6, <2>2 DEF Left, CheckEof
  <2> HIDE DEF count
  <2>4. CASE NoBuffer
    <3>1. run' = Returned(FALSE) /\ UNCHANGED <<hs, end>>
      BY <2>4 DEF NoBuffer
    <3>2. run' \in Run /\ run'.pc = "idle" /\ ~run'.ok
      BY <3>1, ReturnedIs
    <3>3. RunOK'
      BY <1>1, <1>3, <3>2 DEF RunOK
    <3>4. HsOK' /\ (page.kind = "ssi" => SsiOK')
      BY <1>1, <1>2, <3>1, HsSame, SsiSame
    <3> QED
      BY <1>1, <3>3, <3>4 DEF SendInv
  <2>5. CASE count \in Nat \ {0} /\ ReadDelayed(count)
    <3>1. /\ run' = Returned(run.ok) /\ UNCHANGED end
          /\ hs' = [hs EXCEPT !.buf = count, !.wait = "yes"]
      BY <2>5 DEF ReadDelayed
    <3>2. /\ hs' \in Hs /\ hs'.wait = "yes" /\ hs'.file = hs.file /\ hs'.index = hs.index
          /\ hs'.left = hs.left
          /\ hs'.hdr_index = hs.hdr_index /\ hs'.hdr_pos = hs.hdr_pos
      BY <1>2, <2>2, <3>1 DEF Hs
    <3>3. HsOK'
      BY <1>1, <1>2, <3>2 DEF HsOK, Text, NumHdrs, Buffered
    <3>4. run' \in Run /\ run'.pc = "idle"
      BY <1>2, <3>1, ReturnedIs
    <3>5. RunOK'
      BY <1>1, <1>3, <3>2, <3>4 DEF RunOK
    <3>6. page.kind = "ssi" => SsiOK'
      BY <1>1, <1>2, <3>2, SsiSame
    <3> QED
      BY <1>1, <3>3, <3>5, <3>6 DEF SendInv
  <2>6. CASE count \in Nat \ {0} /\ Loaded(count)
    <3>1. run' = [run EXCEPT !.pc = "data"] /\ UNCHANGED end
      BY <2>6 DEF Loaded
    <3>2. HsOK' /\ hs'.left > 0 /\ hs'.file = hs.file
      BY <1>1, <1>2, <1>6, <2>1, <2>6, LoadedFields
    <3>3. run' \in Run /\ run'.pc = "data"
      BY <1>2, <3>1, RunFields
    <3>4. RunOK'
      BY <1>1, <1>2, <1>3, <2>1, <3>2, <3>3, LeftIs DEF RunOK
    <3>5. page.kind = "ssi" => SsiOK'
      BY <1>1, <1>2, <3>2, SsiSame
    <3> QED
      BY <1>1, <3>2, <3>4, <3>5 DEF SendInv
  <2> QED
    BY <2>3, <2>4, <2>5, <2>6
<1> QED
  BY <1>4, <1>5, <1>6

LEMMA DataNext == SendInv /\ SendData => SendInv'
<1> SUFFICES ASSUME SendInv, SendData PROVE SendInv'
  OBVIOUS
<1>1. UNCHANGED <<page, include, ssi, end>> /\ run.pc = "data"
  BY DEF SendData
<1>2. /\ page \in Pages /\ HsOK /\ RunOK /\ run \in Run /\ hs.left \in Nat
      /\ hs.left > 0 /\ queued \in 0 .. SndBuf /\ include \in BOOLEAN
  BY <1>1, LeftIs DEF SendInv, HsOK, RunOK
<1>3. PICK w \in Outcomes(hs.left) :
        /\ queued' = queued + w.n
        /\ Sending(w.n)
        /\ run' = [run EXCEPT !.pc = "check", !.ok = w.ok]
  BY DEF SendData, Written
<1>4. /\ w.n \in 0 .. hs.left /\ w.ok \in BOOLEAN
      /\ queued + w.n \in 0 .. SndBuf
      /\ w.ok /\ w.n = 0 => queued = SndBuf
  BY <1>2, WriteTakes
<1>5. HsOK' /\ hs'.left = hs.left - w.n /\ hs'.file = hs.file + w.n
  BY <1>1, <1>2, <1>3, <1>4, SendingKeeps
<1>6. run' \in Run /\ run'.pc = "check" /\ run'.ok = w.ok
  BY <1>2, <1>3, <1>4, RunFields
<1>7. queued' \in 0 .. SndBuf /\ (w.ok => queued' > 0)
  BY <1>2, <1>3, <1>4, Numbers
<1>8. RunOK'
  BY <1>1, <1>2, <1>5, <1>6, <1>7 DEF RunOK
<1> QED
  BY <1>1, <1>2, <1>5, <1>7, <1>8 DEF SendInv, RunOK

LEMMA CheckNext == SendInv /\ Check => SendInv'
<1> SUFFICES ASSUME SendInv, Check PROVE SendInv'
  OBVIOUS
<1>1. UNCHANGED <<page, include, hs, ssi, queued, out>> /\ run.pc = "check" /\ run' = Returned(run.ok)
  BY DEF Check
<1>2. hs.left = 0 /\ BytesLeft <= 0 => end' = "eof"
  BY DEF Check, Eof
<1>3. run \in Run /\ run.ok \in BOOLEAN
  BY DEF SendInv, RunOK, Run
<1>4. run' \in Run /\ run'.pc = "idle" /\ run'.ok = run.ok
  BY <1>1, <1>3, ReturnedIs
<1>5. queued \in 0 .. SndBuf
  BY DEF SendInv
<1>6. RunOK'
  BY <1>1, <1>2, <1>3, <1>4, <1>5, Numbers DEF RunOK, SendInv
<1>7. HsOK' /\ (page.kind = "ssi" => SsiOK')
  BY <1>1, HsSame, SsiSame DEF SendInv
<1> QED
  BY <1>1, <1>6, <1>7 DEF SendInv

(* The page is one with tags while its tags are parsed.                     *)
LEMMA SsiFacts ==
  ASSUME SendInv, run.pc \in {"first", "loop", "tail"}
  PROVE  /\ page \in Pages /\ page.kind = "ssi" /\ HsOK /\ SsiOK /\ RunOK
         /\ hs.left = Len(Text) - hs.file + 1 /\ hs.left \in Nat /\ hs.file \in Nat \ {0}
         /\ BytesLeft = 0 /\ Len(Text) \in Nat
         /\ ssi \in Ssi /\ ssi.parsed \in Nat \ {0} /\ ssi.parse_left \in Nat
         /\ ssi.started \in Nat \ {0} /\ ssi.tag_end \in Nat \ {0}
         /\ ssi.parsed <= Len(Text) + 1
         /\ run \in Run /\ run.len \in Nat /\ run.ok \in BOOLEAN
         /\ queued \in 0 .. SndBuf /\ Room \in Nat /\ Room = SndBuf - queued
         /\ include \in BOOLEAN
<1>1. page \in Pages /\ page.kind = "ssi" /\ HsOK /\ SsiOK /\ RunOK /\ queued \in 0 .. SndBuf
      /\ include \in BOOLEAN
  BY DEF SendInv, RunOK
<1>2. /\ ssi \in Ssi /\ ssi.parsed \in Nat \ {0} /\ ssi.parse_left \in Nat
      /\ ssi.started \in Nat \ {0} /\ ssi.tag_end \in Nat \ {0}
      /\ ssi.state \in {"NONE", "LEADIN", "FOUND", "LEADOUT", "SENDING"}
  BY <1>1 DEF SsiOK, Ssi
<1>3. run \in Run /\ run.len \in Nat /\ run.ok \in BOOLEAN
  BY <1>1 DEF RunOK, Run
<1>4. /\ hs.left = Len(Text) - hs.file + 1 /\ hs.left \in Nat /\ hs.file \in Nat \ {0}
      /\ BytesLeft = 0 /\ Len(Text) \in Nat
  BY <1>1, LeftIs, PageTypes DEF HsOK, Hs
<1>5. ssi.parsed <= Len(Text) + 1
  BY <1>1, <1>2, <1>4 DEF SsiOK
<1> QED
  BY <1>1, <1>2, <1>3, <1>4, <1>5, Numbers DEF Room

LEMMA FirstNext == SendInv /\ SsiFirst => SendInv'
<1> SUFFICES ASSUME SendInv, SsiFirst PROVE SendInv'
  OBVIOUS
<1>1. UNCHANGED <<page, include, ssi, end>> /\ run.pc = "first"
  BY DEF SsiFirst
<1>2. /\ page \in Pages /\ page.kind = "ssi" /\ HsOK /\ SsiOK /\ RunOK
      /\ hs.left = Len(Text) - hs.file + 1 /\ hs.left \in Nat /\ hs.file \in Nat \ {0}
      /\ Len(Text) \in Nat
      /\ ssi.parsed \in Nat /\ ssi.parsed <= Len(Text) + 1
      /\ queued \in 0 .. SndBuf /\ Room \in Nat /\ Room = SndBuf - queued /\ include \in BOOLEAN
  BY <1>1, SsiFacts
<1>3. ssi.state \in {"LEADIN", "FOUND", "LEADOUT"} => ~(ssi.parse_left > 0)
  BY <1>1, <1>2 DEF RunOK
<1>4. ssi.state \in {"LEADIN", "FOUND", "LEADOUT"} => ssi.parse_left = 0
  BY <1>1, <1>3, SsiFacts
<1>5. CASE ssi.parsed > hs.file
  <2> DEFINE len == ssi.parsed - hs.file
  <2>1. PICK w \in Outcomes(len) :
          /\ queued' = queued + w.n
          /\ Sending(w.n)
          /\ run' = [pc |-> IF Room = w.n THEN "check" ELSE "loop", len |-> w.n, ok |-> w.ok]
    BY <1>5 DEF SsiFirst, Written
  <2>2. len \in Nat \ {0} /\ len <= hs.left
    BY <1>2, <1>5
  <2>3. /\ w.n \in 0 .. len /\ w.ok \in BOOLEAN
        /\ queued + w.n \in 0 .. SndBuf
        /\ w.ok /\ w.n = 0 => len = 0 \/ queued = SndBuf
        /\ Room = w.n => queued + w.n = SndBuf
    <3> HIDE DEF len
    <3> QED
      BY <1>2, <2>2, WriteTakes
  <2>4. w.n \in Nat /\ w.n <= hs.left
    BY <1>2, <2>2, <2>3
  <2>5. HsOK' /\ hs'.file = hs.file + w.n
    BY <1>1, <1>2, <2>1, <2>4, SendingKeeps
  <2>6. hs'.file <= ssi.parsed
    BY <1>2, <2>3, <2>5
  <2>7. SsiOK'
    BY <1>1, <1>2, <1>4, <2>4, <2>5, <2>6, SsiSent
  <2>8. /\ run' \in Run /\ run'.ok = w.ok /\ run'.len = w.n
        /\ run'.pc = IF Room = w.n THEN "check" ELSE "loop"
    BY <2>1, <2>3, <2>4 DEF Run
  <2>9. /\ queued' \in 0 .. SndBuf
        /\ w.ok /\ w.n = 0 => queued' > 0
        /\ Room = w.n => queued' > 0
    BY <1>2, <2>1, <2>2, <2>3, Numbers
  <2>10. RunOK'
    BY <1>1, <1>2, <1>3, <2>8, <2>9 DEF RunOK
  <2> QED
    BY <1>1, <1>2, <2>5, <2>7, <2>9, <2>10 DEF SendInv
<1>6. CASE ~(ssi.parsed > hs.file)
  <2>1. run' = [pc |-> "loop", len |-> Room, ok |-> TRUE] /\ UNCHANGED <<hs, queued, out>>
    BY <1>6 DEF SsiFirst
  <2>2. TRUE \in BOOLEAN
    BY Zenon
  <2>3. run' \in Run /\ run'.pc = "loop" /\ run'.len = Room
    <3>1. ASSUME NEW b \in BOOLEAN, run' = [pc |-> "loop", len |-> Room, ok |-> b]
          PROVE  run' \in Run /\ run'.pc = "loop" /\ run'.len = Room
      BY <1>2, <3>1 DEF Run
    <3> QED
      BY <2>1, <2>2, <3>1, Zenon
  <2>4. Room = 0 => queued > 0
    BY <1>2, Numbers
  <2>5. RunOK'
    BY <1>1, <1>2, <1>3, <2>1, <2>3, <2>4 DEF RunOK
  <2>6. HsOK' /\ SsiOK'
    BY <1>1, <1>2, <2>1, HsSame, SsiSame
  <2> QED
    BY <1>1, <1>2, <2>1, <2>5, <2>6 DEF SendInv
<1> QED
  BY <1>5, <1>6

(* A turn of the loop over the characters.                                  *)
LEMMA TurnFacts ==
  ASSUME NEW st, SendInv, Turn(st)
  PROVE  /\ run.pc = "loop" /\ run.ok /\ run.len > 0 /\ ssi.state = st
         /\ st # "SENDING" => ssi.parse_left > 0
BY DEF Turn, More

LEMMA AdvanceFields ==
  ASSUME NEW s \in Ssi, s.parse_left > 0
  PROVE  /\ Advance(s) \in Ssi
         /\ Advance(s).parsed = s.parsed + 1 /\ Advance(s).parse_left = s.parse_left - 1
         /\ Advance(s).state = s.state /\ Advance(s).started = s.started
         /\ Advance(s).name = s.name /\ Advance(s).index = s.index
<1> DEFINE p == s.parsed + 1
           l == s.parse_left - 1
<1>1. Advance(s) = [s EXCEPT !.parsed = p, !.parse_left = l]
  BY DEF Advance
<1>2. s.parsed \in Nat \ {0} /\ s.parse_left \in Nat
  BY DEF Ssi
<1>3. p \in Nat \ {0} /\ l \in Nat
  BY <1>2
<1> HIDE DEF p, l
<1>4. Advance(s) \in Ssi /\ Advance(s).parsed = p /\ Advance(s).parse_left = l
  BY <1>1, <1>3 DEF Ssi
<1>5. /\ Advance(s).state = s.state /\ Advance(s).started = s.started
      /\ Advance(s).name = s.name /\ Advance(s).index = s.index
  BY <1>1 DEF Ssi
<1> QED
  BY <1>4, <1>5 DEF p, l

(* A turn that only parses leaves the call as it is.                        *)
LEMMA ParserRun ==
  ASSUME NEW st, SendInv, Turn(st), UNCHANGED <<page, include, hs, run, queued, out, end>>
  PROVE  RunOK' /\ HsOK'
<1>1. run.pc = "loop" /\ run.ok /\ run.len > 0
  BY TurnFacts
<1>2. RunOK /\ HsOK
  BY DEF SendInv
<1> QED
  BY <1>1, <1>2, HsSame DEF RunOK

(* A turn that takes a character, and so keeps one less to be parsed.       *)
LEMMA CharTaken ==
  ASSUME NEW st, SendInv, Turn(st), st # "SENDING",
         UNCHANGED <<page, include, hs, run, queued, out, end>>,
         NEW s \in Ssi, ssi' = Advance(s),
         s.parsed = ssi.parsed, s.parse_left = ssi.parse_left,
         s.state \in {"NONE", "LEADIN", "FOUND", "LEADOUT"},
         s.state # "NONE" => s.started <= ssi.parsed /\ hs.file <= s.started,
         Len(s.name) <= MaxName,
         s.state = "FOUND" => s.index = Len(s.name)
  PROVE  SendInv'
<1>1. run.pc = "loop" /\ ssi.state = st /\ ssi.parse_left > 0
  BY TurnFacts
<1>2. /\ page \in Pages /\ page.kind = "ssi" /\ HsOK /\ SsiOK /\ RunOK
      /\ hs.file \in Nat /\ Len(Text) \in Nat
      /\ ssi \in Ssi /\ ssi.parsed \in Nat \ {0} /\ ssi.parse_left \in Nat
      /\ queued \in 0 .. SndBuf /\ include \in BOOLEAN
  BY <1>1, SsiFacts
<1>3. /\ ssi' \in Ssi /\ ssi'.parsed = ssi.parsed + 1 /\ ssi'.parse_left = ssi.parse_left - 1
      /\ ssi'.state = s.state /\ ssi'.started = s.started /\ ssi'.name = s.name
      /\ ssi'.index = s.index
  BY <1>1, AdvanceFields
<1>4. st \in {"NONE", "LEADIN", "FOUND", "LEADOUT"}
  BY <1>1, <1>2 DEF Ssi
<1>5. ssi.parsed + ssi.parse_left = Len(Text) + 1 /\ hs.file <= ssi.parsed
  BY <1>1, <1>2, <1>4 DEF SsiOK
<1>6. /\ ssi'.parsed + ssi'.parse_left = Len(Text) + 1 /\ hs.file <= ssi'.parsed
      /\ s.state # "NONE" => ssi'.started < ssi'.parsed /\ hs.file <= ssi'.started
  <2>1. s.started \in Nat
    BY DEF Ssi
  <2> QED
    BY <1>2, <1>3, <1>5, <2>1
<1>7. Text' = Text /\ hs' = hs
  BY DEF Text
<1>8. SsiOK'
  BY <1>3, <1>6, <1>7 DEF SsiOK
<1> QED
  BY <1>2, <1>8, ParserRun DEF SendInv

LEMMA NoneNext == SendInv /\ TagNone => SendInv'
<1> SUFFICES ASSUME SendInv, TagNone PROVE SendInv'
  OBVIOUS
<1>1. Turn("NONE") /\ UNCHANGED <<page, include, hs, run, queued, out, end>>
  BY DEF TagNone
<1>2. run.pc = "loop" /\ ssi.state = "NONE" /\ ssi.parse_left > 0
  BY <1>1, TurnFacts
<1>3. /\ SsiOK /\ ssi \in Ssi
      /\ hs.file <= ssi.parsed /\ ssi.parsed \in Nat \ {0} /\ Len(ssi.name) <= MaxName
  BY <1>2, SsiFacts DEF SsiOK
<1> DEFINE types == {t \in DOMAIN TagDesc : TagDesc[t].lead_in[1] = Char}
           type == CHOOSE t \in types : TRUE
<1>4. ssi' = Advance(IF types = {} THEN ssi
                     ELSE [ssi EXCEPT !.type = type, !.state = "LEADIN",
                                      !.index = 1, !.started = ssi.parsed])
  BY DEF TagNone
<1>5. CASE types = {}
  <2>1. ssi' = Advance(ssi)
    BY <1>4, <1>5
  <2> QED
    BY <1>1, <1>2, <1>3, <2>1, CharTaken
<1>6. CASE types # {}
  <2>1. type \in DOMAIN TagDesc
    BY <1>6
  <2> HIDE DEF type, types
  <2> DEFINE a == [ssi EXCEPT !.type = type, !.state = "LEADIN"]
             s == [a EXCEPT !.index = 1, !.started = ssi.parsed]
  <2>2. s = [ssi EXCEPT !.type = type, !.state = "LEADIN", !.index = 1, !.started = ssi.parsed]
    OBVIOUS
  <2>3. /\ a \in Ssi /\ a.state = "LEADIN"
        /\ a.parsed = ssi.parsed /\ a.parse_left = ssi.parse_left
        /\ a.name = ssi.name
    BY <1>3, <2>1 DEF Ssi
  <2> HIDE DEF a
  <2>4. /\ s \in Ssi /\ s.state = "LEADIN"
        /\ s.parsed = ssi.parsed /\ s.parse_left = ssi.parse_left
        /\ s.name = ssi.name
        /\ s.started = ssi.parsed
    BY <1>3, <2>3 DEF Ssi
  <2>5. ssi' = Advance(s)
    BY <1>4, <1>6, <2>2
  <2> HIDE DEF s
  <2> QED
    BY <1>1, <1>2, <1>3, <2>4, <2>5, CharTaken
<1> QED
  BY <1>5, <1>6

(* Inside a tag.                                                            *)
LEMMA TagFacts ==
  ASSUME NEW st \in {"LEADIN", "FOUND", "LEADOUT"}, SendInv, Turn(st)
  PROVE  /\ ssi \in Ssi /\ ssi.state = st
         /\ ssi.parse_left > 0 /\ ssi.parse_left \in 1 .. Len(Text)
         /\ ssi.started \in Nat \ {0} /\ ssi.parsed \in Nat \ {0} /\ ssi.started < ssi.parsed
         /\ hs.file <= ssi.started /\ ssi.started <= ssi.parsed
         /\ ssi.parsed + ssi.parse_left = Len(Text) + 1
         /\ Len(ssi.name) \in Nat /\ Len(ssi.name) <= MaxName /\ ssi.name \in Seq(Chars)
         /\ ssi.index \in Nat /\ (st = "FOUND" => ssi.index = Len(ssi.name))
         /\ Char \in Chars
<1>1. run.pc = "loop" /\ ssi.state = st /\ ssi.parse_left > 0
  BY TurnFacts
<1>2. /\ page \in Pages /\ SsiOK /\ Len(Text) \in Nat
      /\ ssi \in Ssi /\ ssi.parsed \in Nat \ {0} /\ ssi.parse_left \in Nat
      /\ ssi.started \in Nat \ {0}
  BY <1>1, SsiFacts
<1>3. /\ ssi.parsed + ssi.parse_left = Len(Text) + 1 /\ ssi.started < ssi.parsed
      /\ hs.file <= ssi.started
  BY <1>1, <1>2 DEF SsiOK
<1>4. ssi.name \in Seq(Chars) /\ ssi.index \in Nat
  BY <1>2 DEF Ssi
<1>5. Len(ssi.name) \in Nat /\ Len(ssi.name) <= MaxName /\ (st = "FOUND" => ssi.index = Len(ssi.name))
  BY <1>1, <1>2, <1>4 DEF SsiOK
<1>6. ssi.parse_left \in 1 .. Len(Text)
  BY <1>1, <1>2, <1>3
<1>7. Len(Text) - ssi.parse_left + 1 \in 1 .. Len(Text) /\ Text \in Seq(STRING)
  BY <1>2, <1>6, PageTypes
<1>8. Char \in Chars
  <2>1. Char \in STRING
    BY <1>7 DEF Char
  <2> QED
    BY <2>1, CharsAre
<1> QED
  BY <1>1, <1>2, <1>3, <1>4, <1>5, <1>6, <1>8

LEMMA LeadInNext == SendInv /\ TagLeadIn => SendInv'
<1> SUFFICES ASSUME SendInv, TagLeadIn PROVE SendInv'
  OBVIOUS
<1>1. Turn("LEADIN") /\ UNCHANGED <<page, include, hs, run, queued, out, end>>
  BY DEF TagLeadIn
<1>2. /\ ssi \in Ssi /\ ssi.state = "LEADIN"
      /\ ssi.parse_left > 0
      /\ hs.file <= ssi.started /\ ssi.started <= ssi.parsed /\ ssi.started < ssi.parsed
      /\ Len(ssi.name) <= MaxName /\ ssi.index \in Nat
      /\ hs.file \in Nat /\ ssi.started \in Nat /\ ssi.parsed \in Nat /\ Len(Text) \in Nat
      /\ ssi.parsed + ssi.parse_left = Len(Text) + 1
  BY <1>1, TagFacts, TurnFacts, SsiFacts
<1>3. CASE ssi.index = Len(Desc.lead_in)
  <2> DEFINE empty == <<>>
  <2>1. ssi' = [ssi EXCEPT !.index = 0, !.state = "FOUND", !.name = empty]
    BY <1>3 DEF TagLeadIn
  <2>5. empty \in Seq(Chars) /\ Len(empty) = 0
    OBVIOUS
  <2> HIDE DEF empty
  <2>2. /\ ssi' \in Ssi /\ ssi'.state = "FOUND" /\ ssi'.index = 0 /\ ssi'.name = empty
        /\ ssi'.parsed = ssi.parsed /\ ssi'.parse_left = ssi.parse_left
        /\ ssi'.started = ssi.started
    BY <1>2, <2>1, <2>5 DEF Ssi
  <2>3. Len(ssi'.name) = 0 /\ Text' = Text
    BY <1>1, <2>2, <2>5 DEF Text
  <2>4. SsiOK'
    <3>1. hs.file <= ssi.parsed
      BY <1>2
    <3>2. hs'.file = hs.file /\ 0 <= MaxName
      BY <1>1, Numbers
    <3> QED
      BY <1>2, <2>2, <2>3, <3>1, <3>2 DEF SsiOK
  <2> QED
    BY <1>1, <2>4, ParserRun DEF SendInv
<1>4. CASE ssi.index # Len(Desc.lead_in) /\ Char = Desc.lead_in[ssi.index + 1]
  <2> DEFINE i == ssi.index + 1
             s == [ssi EXCEPT !.index = i]
  <2>1. ssi' = Advance(s)
    BY <1>4 DEF TagLeadIn
  <2>2. i \in Nat
    BY <1>2
  <2> HIDE DEF i
  <2>3. /\ s \in Ssi /\ s.state = "LEADIN"
        /\ s.parsed = ssi.parsed /\ s.parse_left = ssi.parse_left
        /\ s.name = ssi.name
        /\ s.started = ssi.started
    BY <1>2, <2>2 DEF Ssi
  <2> HIDE DEF s
  <2> QED
    BY <1>1, <1>2, <2>1, <2>3, CharTaken
<1>5. CASE ssi.index # Len(Desc.lead_in) /\ Char # Desc.lead_in[ssi.index + 1]
  <2> DEFINE s == [ssi EXCEPT !.state = "NONE"]
  <2>1. ssi' = Advance(s)
    BY <1>5 DEF TagLeadIn
  <2>2. /\ s \in Ssi /\ s.state = "NONE"
        /\ s.parsed = ssi.parsed /\ s.parse_left = ssi.parse_left
        /\ s.name = ssi.name
    BY <1>2 DEF Ssi
  <2> HIDE DEF s
  <2> QED
    BY <1>1, <1>2, <2>1, <2>2, CharTaken
<1> QED
  BY <1>3, <1>4, <1>5

LEMMA FoundNext == SendInv /\ TagFound => SendInv'
<1> SUFFICES ASSUME SendInv, TagFound PROVE SendInv'
  OBVIOUS
<1>1. Turn("FOUND") /\ UNCHANGED <<page, include, hs, run, queued, out, end>>
  BY DEF TagFound
<1>2. /\ ssi \in Ssi /\ ssi.state = "FOUND"
      /\ ssi.parse_left > 0
      /\ hs.file <= ssi.started /\ ssi.started <= ssi.parsed
      /\ Len(ssi.name) <= MaxName /\ ssi.index \in Nat /\ ssi.index = Len(ssi.name)
      /\ ssi.name \in Seq(Chars) /\ Char \in Chars
  BY <1>1, TagFacts
<1> DEFINE e == IF Char = " " THEN 0 ELSE 1
           s1 == [ssi EXCEPT !.state = "LEADOUT", !.index = e]
           i == ssi.index + 1
           name == Append(ssi.name, Char)
           s2 == [ssi EXCEPT !.name = name, !.index = i]
           s3 == [ssi EXCEPT !.state = "NONE"]
<1>3. \/ ssi' = Advance(ssi)
      \/ ssi' = Advance(s1)
      \/ ssi.index < MaxName /\ ssi' = Advance(s2)
      \/ ssi' = Advance(s3)
  <2>1. s1 = [ssi EXCEPT !.state = "LEADOUT", !.index = IF Char = " " THEN 0 ELSE 1]
    OBVIOUS
  <2>2. s2 = [ssi EXCEPT !.name = Append(@, Char), !.index = @ + 1]
    BY <1>2 DEF Ssi
  <2> HIDE DEF s1, s2, s3
  <2>3. s3 = [ssi EXCEPT !.state = "NONE"]
    BY DEF s3
  <2> QED
    BY <2>1, <2>2, <2>3 DEF TagFound
<1>4. CASE ssi' = Advance(ssi)
  BY <1>1, <1>2, <1>4, CharTaken
<1>5. CASE ssi' = Advance(s1)
  <2>1. e \in Nat
    OBVIOUS
  <2> HIDE DEF e
  <2>2. /\ s1 \in Ssi /\ s1.state = "LEADOUT"
        /\ s1.parsed = ssi.parsed /\ s1.parse_left = ssi.parse_left
        /\ s1.name = ssi.name
        /\ s1.started = ssi.started
    BY <1>2, <2>1 DEF Ssi
  <2> HIDE DEF s1
  <2> QED
    BY <1>1, <1>2, <1>5, <2>2, CharTaken
<1>6. CASE ssi.index < MaxName /\ ssi' = Advance(s2)
  <2>1. i \in Nat /\ name \in Seq(Chars) /\ Len(name) = i /\ Len(name) <= MaxName
    BY <1>2, <1>6, Numbers
  <2> HIDE DEF i, name
  <2>2. /\ s2 \in Ssi /\ s2.state = "FOUND"
        /\ s2.parsed = ssi.parsed /\ s2.parse_left = ssi.parse_left
        /\ s2.name = name
        /\ s2.index = i /\ s2.started = ssi.started
    BY <1>2, <2>1 DEF Ssi
  <2> HIDE DEF s2
  <2> QED
    BY <1>1, <1>2, <1>6, <2>1, <2>2, CharTaken
<1>7. CASE ssi' = Advance(s3)
  <2>1. /\ s3 \in Ssi /\ s3.state = "NONE"
        /\ s3.parsed = ssi.parsed /\ s3.parse_left = ssi.parse_left
        /\ s3.name = ssi.name
    BY <1>2 DEF Ssi
  <2> HIDE DEF s3
  <2> QED
    BY <1>1, <1>2, <1>7, <2>1, CharTaken
<1> QED
  BY <1>3, <1>4, <1>5, <1>6, <1>7

(* What the SSI handler returns.                                            *)
LEMMA PartsAre ==
  ASSUME NEW name \in Seq(Chars)
  PROVE  Parts(name) \in Seq(Seq(Chars)) /\ Len(Parts(name)) \in Nat \ {0}
<1>1. CASE name \in DOMAIN Known
  <2>1. Known[name] \in Seq(Seq(Chars)) /\ Known[name] # <<>>
    BY <1>1, CharsAre, HttpdSendAssumption DEF HttpdSendAssumption
  <2>2. Parts(name) = Known[name]
    BY <1>1 DEF Parts
  <2> QED
    BY <2>1, <2>2
<1>2. CASE name \notin DOMAIN Known
  <2>1. Unknown(name) \in Seq(Chars)
    <3>1. \A q \in Chars : <<q>> \o name \o <<q>> \in Seq(Chars)
      OBVIOUS
    <3> QED
      BY <3>1, CharsAre DEF Unknown
  <2> DEFINE u == Unknown(name)
  <2>2. Parts(name) = <<u>>
    BY <1>2 DEF Parts
  <2> HIDE DEF u
  <2>3. u \in Seq(Chars)
    BY <2>1 DEF u
  <2> QED
    BY <2>2, <2>3
<1> QED
  BY <1>1, <1>2

LEMMA InsertFields ==
  ASSUME NEW s \in Ssi, s.part \in Nat, s.part < Len(Parts(s.name))
  PROVE  LET r == GetTagInsert(s) IN
         /\ r \in Ssi /\ r.index = 0 /\ Len(r.insert) \in Nat
         /\ r.part # LastPart => r.part < Len(Parts(r.name))
         /\ r.state = s.state /\ r.parsed = s.parsed /\ r.parse_left = s.parse_left
         /\ r.started = s.started /\ r.tag_end = s.tag_end /\ r.name = s.name
<1> DEFINE parts == Parts(s.name)
           insert == parts[s.part + 1]
           part == IF s.part + 1 < Len(parts) THEN s.part + 1 ELSE LastPart
           r == GetTagInsert(s)
<1>1. s.name \in Seq(Chars)
  BY DEF Ssi
<1>2. parts \in Seq(Seq(Chars)) /\ Len(parts) \in Nat
  BY <1>1, PartsAre
<1>3. insert \in Seq(Chars) /\ Len(insert) \in Nat
  <2> HIDE DEF parts
  <2>1. s.part + 1 \in 1 .. Len(parts)
    BY <1>2 DEF parts
  <2> QED
    BY <1>2, <2>1
<1>4. part \in Nat \cup {LastPart} /\ (part # LastPart => part < Len(parts))
  BY <1>2
<1>5. r = [s EXCEPT !.index = 0, !.insert = insert, !.part = part]
  BY DEF GetTagInsert, Parts
<1> HIDE DEF parts, insert, part, r
<1>6. r \in Ssi /\ r.index = 0 /\ r.insert = insert /\ r.part = part
  BY <1>3, <1>4, <1>5 DEF Ssi
<1>7. /\ r.state = s.state /\ r.parsed = s.parsed /\ r.parse_left = s.parse_left
      /\ r.started = s.started /\ r.tag_end = s.tag_end /\ r.name = s.name
  BY <1>5 DEF Ssi
<1>8. r.part # LastPart => r.part < Len(Parts(r.name))
  BY <1>4, <1>6, <1>7 DEF parts
<1> QED
  BY <1>3, <1>6, <1>7, <1>8 DEF r

(* The text up to a tag: what has been sent then ends before the tag or     *)
(* behind it, and something has been sent unless there is no room.          *)
LEMMA UpToTag ==
  ASSUME SendInv, run.pc = "loop", UNCHANGED <<page, include>>,
         NEW s \in Ssi, s.tag_end + s.parse_left = Len(Text) + 1,
         hs.file < s.tag_end, s.started < s.tag_end, include \/ hs.file <= s.started,
         SendUpToTag(s)
  PROVE  /\ HsOK' /\ hs'.file \in Nat /\ hs'.file <= s.tag_end
         /\ include \/ hs'.file <= s.started \/ hs'.file = s.tag_end
         /\ run' \in Run /\ run'.pc = "loop"
         /\ run'.ok /\ run'.len = 0 => queued' > 0
         /\ queued' \in 0 .. SndBuf
<1>1. /\ page \in Pages /\ HsOK /\ run \in Run
      /\ hs.left = Len(Text) - hs.file + 1 /\ hs.left \in Nat /\ hs.file \in Nat
      /\ queued \in 0 .. SndBuf /\ include \in BOOLEAN /\ Len(Text) \in Nat
  BY SsiFacts
<1>2. s.tag_end \in Nat /\ s.started \in Nat /\ s.parse_left \in Nat
  BY DEF Ssi
<1> DEFINE bound == IF include THEN s.tag_end ELSE s.started
           len == bound - hs.file
<1>3. len \in Nat /\ (include => len > 0) /\ (~include => len = s.started - hs.file)
      /\ (include => len = s.tag_end - hs.file)
  BY <1>1, <1>2
<1>4. PICK w \in Outcomes(len) :
        /\ queued' = queued + w.n
        /\ LET n == IF w.ok /\ ~include /\ s.started <= hs.file
                    THEN w.n + s.tag_end - s.started ELSE w.n
           IN Sending(n) /\ run' = [run EXCEPT !.len = n, !.ok = w.ok]
  BY DEF SendUpToTag, Written
<1> DEFINE n == IF w.ok /\ ~include /\ s.started <= hs.file
                THEN w.n + s.tag_end - s.started ELSE w.n
<1>5. Sending(n) /\ run' = [run EXCEPT !.len = n, !.ok = w.ok]
  BY <1>4
<1>6. /\ w.n \in 0 .. len /\ w.ok \in BOOLEAN
      /\ queued + w.n \in 0 .. SndBuf
      /\ w.ok /\ w.n = 0 => len = 0 \/ queued = SndBuf
      /\ ~w.ok => w.n = 0
  <2> HIDE DEF len
  <2> QED
    BY <1>1, <1>3, WriteTakes
<1> HIDE DEF len
<1>7. /\ n \in Nat /\ hs.file + n <= s.tag_end
      /\ include \/ hs.file + n <= s.started \/ hs.file + n = s.tag_end
      /\ w.ok /\ n = 0 => queued = SndBuf
  <2>1. CASE w.ok /\ ~include /\ s.started <= hs.file
    <3>1. n = w.n + s.tag_end - s.started
      BY <2>1
    <3>2. s.started = hs.file /\ len = 0 /\ w.n = 0
      BY <1>1, <1>2, <1>3, <1>6, <2>1
    <3> HIDE DEF n
    <3>3. n = s.tag_end - s.started /\ n \in Nat /\ n # 0
      BY <1>2, <3>1, <3>2
    <3>4. hs.file + n = s.tag_end
      BY <1>1, <1>2, <3>2, <3>3
    <3> QED
      BY <1>1, <1>2, <3>3, <3>4
  <2>2. CASE ~(w.ok /\ ~include /\ s.started <= hs.file)
    <3>1. n = w.n
      BY <2>2
    <3>2. w.ok => len > 0
      BY <1>1, <1>2, <1>3, <2>2
    <3>3. w.n \in Nat /\ w.n <= len
      BY <1>3, <1>6
    <3>4. hs.file + w.n <= hs.file + len
      BY <1>1, <1>3, <3>3
    <3>5. hs.file + len = IF include THEN s.tag_end ELSE s.started
      BY <1>1, <1>2, <1>3
    <3> HIDE DEF n
    <3>6. w.ok /\ n = 0 => queued = SndBuf
      BY <1>3, <1>6, <3>1, <3>2
    <3>7. hs.file + n <= s.tag_end /\ (include \/ hs.file + n <= s.started)
      BY <1>1, <1>2, <1>3, <3>1, <3>3, <3>4, <3>5
    <3> QED
      BY <3>1, <3>3, <3>6, <3>7
  <2> QED
    BY <2>1, <2>2
<1> HIDE DEF n
<1>8. n <= hs.left
  BY <1>1, <1>2, <1>7
<1>9. HsOK' /\ hs'.file = hs.file + n
  BY <1>1, <1>5, <1>7, <1>8, SendingKeeps
<1>10. run' \in Run /\ run'.pc = run.pc /\ run'.len = n /\ run'.ok = w.ok
  BY <1>1, <1>5, <1>6, <1>7 DEF Run
<1>11. queued' \in 0 .. SndBuf /\ (w.ok /\ n = 0 => queued' > 0)
  BY <1>1, <1>4, <1>6, <1>7, Numbers
<1> QED
  BY <1>1, <1>7, <1>9, <1>10, <1>11

(* Where the parser is once it has reached a tag.                           *)
LEMMA TagEndedFields ==
  ASSUME SendInv, Turn("LEADOUT")
  PROVE  /\ TagEnded \in Ssi /\ TagEnded.state = "SENDING"
         /\ TagEnded.tag_end = ssi.parsed + 1 /\ TagEnded.parse_left = ssi.parse_left - 1
         /\ TagEnded.started = ssi.started /\ TagEnded.name = ssi.name
         /\ TagEnded.parsed = IF include THEN ssi.parsed + 1 ELSE ssi.started
         /\ TagEnded.index = 0 /\ Len(TagEnded.insert) \in Nat
         /\ TagEnded.part # LastPart => TagEnded.part < Len(Parts(TagEnded.name))
<1>1. /\ ssi \in Ssi /\ ssi.parse_left > 0 /\ ssi.started \in Nat \ {0} /\ ssi.parsed \in Nat \ {0}
      /\ ssi.name \in Seq(Chars)
  BY TagFacts
<1> DEFINE a == Advance(ssi)
           b == [a EXCEPT !.part = 0]
           s == GetTagInsert(b)
           p == s.parsed
           q == IF include THEN p ELSE s.started
<1>2. TagEnded = [s EXCEPT !.state = "SENDING", !.tag_end = p, !.parsed = q]
  <2>1. TagEnded = [s EXCEPT !.state = "SENDING", !.tag_end = s.parsed,
                             !.parsed = IF include THEN @ ELSE s.started]
    BY DEF TagEnded
  <2> HIDE DEF s
  <2> QED
    BY <2>1
<1>3. /\ a \in Ssi /\ a.parsed = ssi.parsed + 1 /\ a.parse_left = ssi.parse_left - 1
      /\ a.started = ssi.started /\ a.name = ssi.name
  BY <1>1, AdvanceFields
<1> HIDE DEF a
<1>4. /\ b \in Ssi /\ b.part = 0 /\ b.parsed = a.parsed /\ b.parse_left = a.parse_left
      /\ b.started = a.started /\ b.name = a.name
  BY <1>3 DEF Ssi
<1> HIDE DEF b
<1>5. b.part \in Nat /\ b.part < Len(Parts(b.name))
  BY <1>1, <1>3, <1>4, PartsAre
<1>6. /\ s \in Ssi /\ s.index = 0 /\ Len(s.insert) \in Nat
      /\ s.part # LastPart => s.part < Len(Parts(s.name))
      /\ s.parsed = b.parsed /\ s.parse_left = b.parse_left
      /\ s.started = b.started /\ s.name = b.name
  BY <1>4, <1>5, InsertFields
<1> HIDE DEF s
<1>7. p \in Nat \ {0} /\ q \in Nat \ {0} /\ p = ssi.parsed + 1 /\ q = IF include THEN p ELSE ssi.started
  BY <1>1, <1>3, <1>4, <1>6
<1> HIDE DEF p, q
<1> DEFINE r == [s EXCEPT !.state = "SENDING", !.tag_end = p]
<1>8. /\ r \in Ssi /\ r.state = "SENDING" /\ r.tag_end = p /\ r.parse_left = s.parse_left
      /\ r.started = s.started /\ r.name = s.name /\ r.index = s.index /\ r.insert = s.insert
      /\ r.part = s.part
  BY <1>6, <1>7 DEF Ssi
<1>9. TagEnded = [r EXCEPT !.parsed = q]
  BY <1>2
<1> HIDE DEF r
<1>10. /\ TagEnded \in Ssi /\ TagEnded.state = "SENDING" /\ TagEnded.tag_end = p
       /\ TagEnded.parse_left = s.parse_left
       /\ TagEnded.started = s.started /\ TagEnded.name = s.name /\ TagEnded.index = s.index
       /\ TagEnded.insert = s.insert /\ TagEnded.part = s.part /\ TagEnded.parsed = q
  BY <1>7, <1>8, <1>9 DEF Ssi
<1> QED
  BY <1>3, <1>4, <1>6, <1>7, <1>10

(* What holds of a tag whose insert is being sent.                          *)
LEMMA SendingOK ==
  ASSUME ssi' \in Ssi, ssi'.state = "SENDING", Len(ssi'.name) <= MaxName,
         ssi'.tag_end + ssi'.parse_left = Len(Text) + 1, Text' = Text, include' = include,
         hs'.file <= ssi'.tag_end, ssi'.started < ssi'.tag_end,
         ssi'.parsed = IF include THEN ssi'.tag_end ELSE ssi'.started,
         include \/ hs'.file <= ssi'.started \/ hs'.file = ssi'.tag_end,
         ssi'.index <= Len(ssi'.insert),
         ssi'.part # LastPart => ssi'.part < Len(Parts(ssi'.name))
  PROVE  SsiOK'
BY DEF SsiOK, Parts

LEMMA LeadOutNext == SendInv /\ TagLeadOut => SendInv'
<1> SUFFICES ASSUME SendInv, TagLeadOut PROVE SendInv'
  OBVIOUS
<1>1. Turn("LEADOUT") /\ UNCHANGED <<page, include, end>> /\ run.pc = "loop"
  BY DEF TagLeadOut, Turn
<1>2. /\ ssi \in Ssi /\ ssi.state = "LEADOUT"
      /\ ssi.parse_left > 0 /\ ssi.parse_left \in Nat
      /\ hs.file <= ssi.started /\ ssi.started <= ssi.parsed
      /\ ssi.started \in Nat /\ ssi.parsed \in Nat
      /\ Len(ssi.name) <= MaxName /\ ssi.index \in Nat
      /\ ssi.parsed + ssi.parse_left = Len(Text) + 1
  BY <1>1, TagFacts
<1>3. CASE Char = Desc.lead_out[ssi.index + 1] /\ ssi.index + 1 = Len(Desc.lead_out)
  <2> DEFINE s == TagEnded
  <2>1. ssi' = s /\ SendUpToTag(ssi')
    BY <1>3 DEF TagLeadOut
  <2>2. /\ s \in Ssi /\ s.state = "SENDING"
        /\ s.tag_end = ssi.parsed + 1 /\ s.parse_left = ssi.parse_left - 1
        /\ s.started = ssi.started /\ s.name = ssi.name
        /\ s.parsed = IF include THEN ssi.parsed + 1 ELSE ssi.started
        /\ s.index = 0 /\ Len(s.insert) \in Nat
        /\ s.part # LastPart => s.part < Len(Parts(s.name))
    BY <1>1, TagEndedFields
  <2>3. SendUpToTag(s)
    BY <2>1
  <2> HIDE DEF s
  <2>4. /\ page \in Pages /\ hs.file \in Nat /\ Len(Text) \in Nat /\ RunOK
        /\ page.kind = "ssi" /\ include \in BOOLEAN
    BY <1>1, SsiFacts
  <2>5. /\ s.tag_end + s.parse_left = Len(Text) + 1
        /\ hs.file < s.tag_end /\ s.started < s.tag_end /\ hs.file <= s.started
    BY <1>2, <2>2, <2>4
  <2>6. /\ HsOK' /\ hs'.file \in Nat /\ hs'.file <= s.tag_end
        /\ include \/ hs'.file <= s.started \/ hs'.file = s.tag_end
        /\ run' \in Run /\ run'.pc = "loop"
        /\ run'.ok /\ run'.len = 0 => queued' > 0
        /\ queued' \in 0 .. SndBuf
    BY <1>1, <2>2, <2>3, <2>5, UpToTag
  <2>7. Text' = Text /\ ssi' = s
    BY <1>1, <2>1 DEF Text
  <2>8. SsiOK'
    BY <1>1, <1>2, <2>2, <2>5, <2>6, <2>7, SendingOK
  <2>9. RunOK'
    BY <1>1, <2>2, <2>4, <2>6, <2>7 DEF RunOK
  <2> QED
    BY <1>1, <2>4, <2>6, <2>8, <2>9 DEF SendInv
<1>4. CASE ~(Char = Desc.lead_out[ssi.index + 1] /\ ssi.index + 1 = Len(Desc.lead_out))
  <2> DEFINE i == ssi.index + 1
             s1 == [ssi EXCEPT !.index = i]
             s2 == [ssi EXCEPT !.state = "NONE"]
  <2>1. UNCHANGED <<page, include, hs, run, queued, out, end>>
    BY <1>1, <1>4 DEF TagLeadOut
  <2>2. ssi' = Advance(ssi) \/ ssi' = Advance(s1) \/ ssi' = Advance(s2)
    <3>1. s1 = [ssi EXCEPT !.index = @ + 1] /\ s2 = [ssi EXCEPT !.state = "NONE"]
      BY <1>2 DEF Ssi
    <3> HIDE DEF s1, s2
    <3> QED
      BY <1>4, <3>1 DEF TagLeadOut
  <2>3. CASE ssi' = Advance(ssi)
    BY <1>1, <1>2, <2>1, <2>3, CharTaken
  <2>4. CASE ssi' = Advance(s1)
    <3>1. i \in Nat
      BY <1>2
    <3> HIDE DEF i
    <3>2. /\ s1 \in Ssi /\ s1.state = "LEADOUT" /\ s1.parsed = ssi.parsed
          /\ s1.parse_left = ssi.parse_left /\ s1.name = ssi.name /\ s1.started = ssi.started
      BY <1>2, <3>1 DEF Ssi
    <3> HIDE DEF s1
    <3> QED
      BY <1>1, <1>2, <2>1, <2>4, <3>2, CharTaken
  <2>5. CASE ssi' = Advance(s2)
    <3>1. /\ s2 \in Ssi /\ s2.state = "NONE" /\ s2.parsed = ssi.parsed
          /\ s2.parse_left = ssi.parse_left /\ s2.name = ssi.name
      BY <1>2 DEF Ssi
    <3> HIDE DEF s2
    <3> QED
      BY <1>1, <1>2, <2>1, <2>5, <3>1, CharTaken
  <2> QED
    BY <2>2, <2>3, <2>4, <2>5
<1> QED
  BY <1>3, <1>4

(* What is known of a tag whose insert is being sent.                       *)
LEMMA SendingFacts ==
  ASSUME SendInv, Turn("SENDING")
  PROVE  /\ run.pc = "loop" /\ run.ok /\ run.len > 0 /\ ssi.state = "SENDING"
         /\ page \in Pages /\ page.kind = "ssi" /\ HsOK /\ SsiOK /\ RunOK
         /\ ssi \in Ssi /\ Len(ssi.name) <= MaxName
         /\ ssi.tag_end + ssi.parse_left = Len(Text) + 1
         /\ hs.file <= ssi.tag_end /\ ssi.started < ssi.tag_end
         /\ ssi.parsed = IF include THEN ssi.tag_end ELSE ssi.started
         /\ include \/ hs.file <= ssi.started \/ hs.file = ssi.tag_end
         /\ ssi.index <= Len(ssi.insert)
         /\ ssi.part # LastPart => ssi.part < Len(Parts(ssi.name))
         /\ hs.file \in Nat /\ ssi.tag_end \in Nat /\ ssi.index \in Nat
         /\ queued \in 0 .. SndBuf /\ include \in BOOLEAN
<1>1. run.pc = "loop" /\ run.ok /\ run.len > 0 /\ ssi.state = "SENDING"
  BY TurnFacts
<1>2. /\ page \in Pages /\ page.kind = "ssi" /\ HsOK /\ SsiOK /\ RunOK
      /\ ssi \in Ssi /\ hs.file \in Nat /\ ssi.tag_end \in Nat
      /\ queued \in 0 .. SndBuf /\ include \in BOOLEAN
  BY <1>1, SsiFacts
<1>3. ssi.index \in Nat
  BY <1>2 DEF Ssi
<1> QED
  BY <1>1, <1>2, <1>3 DEF SsiOK

LEMMA SendingTextNext == SendInv /\ TagSendingText => SendInv'
<1> SUFFICES ASSUME SendInv, TagSendingText PROVE SendInv'
  OBVIOUS
<1>1. /\ Turn("SENDING") /\ UNCHANGED <<page, include, ssi, end>>
      /\ SendUpToTag(ssi) /\ ssi.tag_end > hs.file
  BY DEF TagSendingText
<1>2. /\ run.pc = "loop" /\ ssi.state = "SENDING"
      /\ page \in Pages /\ page.kind = "ssi" /\ RunOK
      /\ ssi \in Ssi /\ Len(ssi.name) <= MaxName
      /\ ssi.tag_end + ssi.parse_left = Len(Text) + 1
      /\ ssi.started < ssi.tag_end
      /\ ssi.parsed = IF include THEN ssi.tag_end ELSE ssi.started
      /\ include \/ hs.file <= ssi.started \/ hs.file = ssi.tag_end
      /\ ssi.index <= Len(ssi.insert)
      /\ ssi.part # LastPart => ssi.part < Len(Parts(ssi.name))
      /\ hs.file \in Nat /\ ssi.tag_end \in Nat /\ include \in BOOLEAN
  BY <1>1, SendingFacts
<1>3. hs.file < ssi.tag_end /\ (include \/ hs.file <= ssi.started)
  BY <1>1, <1>2
<1>4. /\ HsOK' /\ hs'.file \in Nat /\ hs'.file <= ssi.tag_end
      /\ include \/ hs'.file <= ssi.started \/ hs'.file = ssi.tag_end
      /\ run' \in Run /\ run'.pc = "loop"
      /\ run'.ok /\ run'.len = 0 => queued' > 0
      /\ queued' \in 0 .. SndBuf
  BY <1>1, <1>2, <1>3, UpToTag
<1>5. Text' = Text
  BY <1>1 DEF Text
<1>6. SsiOK'
  BY <1>1, <1>2, <1>4, <1>5, SendingOK
<1>7. RunOK'
  BY <1>1, <1>2, <1>4 DEF RunOK
<1> QED
  BY <1>1, <1>2, <1>4, <1>6, <1>7 DEF SendInv

LEMMA SendingInsertNext == SendInv /\ TagSendingInsert => SendInv'
<1> SUFFICES ASSUME SendInv, TagSendingInsert PROVE SendInv'
  OBVIOUS
<1>1. Turn("SENDING") /\ UNCHANGED <<page, include, hs, end>> /\ ssi.tag_end <= hs.file
  BY DEF TagSendingInsert
<1>2. /\ run.pc = "loop" /\ run.ok /\ run.len > 0 /\ ssi.state = "SENDING"
      /\ page \in Pages /\ page.kind = "ssi" /\ HsOK /\ RunOK
      /\ ssi \in Ssi /\ Len(ssi.name) <= MaxName
      /\ ssi.tag_end + ssi.parse_left = Len(Text) + 1
      /\ hs.file <= ssi.tag_end /\ ssi.started < ssi.tag_end
      /\ ssi.parsed = IF include THEN ssi.tag_end ELSE ssi.started
      /\ include \/ hs.file <= ssi.started \/ hs.file = ssi.tag_end
      /\ ssi.index <= Len(ssi.insert)
      /\ ssi.part # LastPart => ssi.part < Len(Parts(ssi.name))
      /\ hs.file \in Nat /\ ssi.tag_end \in Nat /\ ssi.index \in Nat
      /\ queued \in 0 .. SndBuf /\ include \in BOOLEAN
  BY <1>1, SendingFacts
<1>3. HsOK' /\ Text' = Text
  BY <1>1, <1>2, HsSame DEF Text
<1> DEFINE s == NextPart
           rest == SubSeq(s.insert, s.index + 1, Len(s.insert))
<1>4. /\ s \in Ssi /\ s.index \in Nat /\ s.insert \in Seq(Chars) /\ Len(s.insert) \in Nat
      /\ s.index <= Len(s.insert)
      /\ s.part # LastPart => s.part < Len(Parts(s.name))
      /\ s.state = "SENDING" /\ s.parsed = ssi.parsed /\ s.parse_left = ssi.parse_left
      /\ s.started = ssi.started /\ s.tag_end = ssi.tag_end /\ s.name = ssi.name
  <2>1. CASE ssi.index >= Len(ssi.insert) /\ ssi.part # LastPart
    <3> DEFINE r == GetTagInsert(ssi)
    <3>1. s = r
      BY <2>1 DEF NextPart
    <3>2. ssi.part \in Nat
      BY <1>2, <2>1 DEF Ssi
    <3>3. /\ r \in Ssi /\ r.index = 0 /\ Len(r.insert) \in Nat
          /\ r.part # LastPart => r.part < Len(Parts(r.name))
          /\ r.state = ssi.state /\ r.parsed = ssi.parsed /\ r.parse_left = ssi.parse_left
          /\ r.started = ssi.started /\ r.tag_end = ssi.tag_end /\ r.name = ssi.name
      BY <1>2, <2>1, <3>2, InsertFields
    <3> HIDE DEF r, s
    <3>4. r.insert \in Seq(Chars)
      BY <3>3 DEF Ssi
    <3> QED
      BY <1>2, <3>1, <3>3, <3>4
  <2>2. CASE ~(ssi.index >= Len(ssi.insert) /\ ssi.part # LastPart)
    <3>1. s = ssi
      BY <2>2 DEF NextPart
    <3>2. ssi.insert \in Seq(Chars)
      BY <1>2 DEF Ssi
    <3> HIDE DEF s
    <3> QED
      BY <1>2, <3>1, <3>2
  <2> QED
    BY <2>1, <2>2
<1>5. CASE rest # <<>>
  <2>1. PICK w \in Outcomes(Len(rest)) :
          /\ queued' = queued + w.n
          /\ ssi' = [s EXCEPT !.index = @ + w.n]
          /\ run' = [run EXCEPT !.len = w.n, !.ok = w.ok]
    BY <1>5 DEF TagSendingInsert, Written
  <2> HIDE DEF s
  <2>2. Len(rest) = Len(s.insert) - s.index /\ Len(rest) \in Nat \ {0}
    <3>1. /\ rest \in Seq(Chars)
          /\ Len(rest) = IF s.index + 1 <= Len(s.insert) THEN Len(s.insert) - s.index ELSE 0
      BY <1>4
    <3>2. Len(rest) # 0
      BY <1>5, <3>1
    <3> QED
      BY <1>4, <3>1, <3>2
  <2>3. /\ w.n \in 0 .. Len(rest) /\ w.ok \in BOOLEAN
        /\ queued + w.n \in 0 .. SndBuf
        /\ w.ok /\ w.n = 0 => Len(rest) = 0 \/ queued = SndBuf
    BY <1>2, <2>2, WriteTakes
  <2> DEFINE i == s.index + w.n
  <2>4. i \in Nat /\ i <= Len(s.insert) /\ w.n \in Nat
    BY <1>4, <2>2, <2>3
  <2>5. ssi' = [s EXCEPT !.index = i]
    BY <1>4, <2>1 DEF Ssi
  <2> HIDE DEF i
  <2>6. /\ ssi' \in Ssi /\ ssi'.index = i /\ ssi'.insert = s.insert /\ ssi'.part = s.part
        /\ ssi'.state = "SENDING" /\ ssi'.parsed = ssi.parsed /\ ssi'.parse_left = ssi.parse_left
        /\ ssi'.started = ssi.started /\ ssi'.tag_end = ssi.tag_end /\ ssi'.name = ssi.name
    BY <1>4, <2>4, <2>5 DEF Ssi
  <2>7. SsiOK'
    BY <1>1, <1>2, <1>3, <1>4, <2>4, <2>6, SendingOK
  <2>8. run \in Run
    BY <1>2 DEF RunOK
  <2>9. run' \in Run /\ run'.pc = "loop" /\ run'.len = w.n /\ run'.ok = w.ok
    BY <1>2, <2>1, <2>3, <2>4, <2>8 DEF Run
  <2>10. queued' \in 0 .. SndBuf /\ (w.ok /\ w.n = 0 => queued' > 0)
    <3>1. queued' = queued + w.n
      BY <2>1
    <3>2. w.ok /\ w.n = 0 => queued = SndBuf
      BY <2>2, <2>3
    <3> QED
      BY <1>2, <2>3, <2>4, <3>1, <3>2, Numbers
  <2>11. RunOK'
    BY <1>1, <1>2, <2>6, <2>9, <2>10 DEF RunOK
  <2> QED
    BY <1>1, <1>2, <1>3, <2>7, <2>10, <2>11 DEF SendInv
<1>6. CASE rest = <<>> /\ s.part # LastPart
  <2>1. ssi' = s /\ UNCHANGED <<run, queued, out>>
    BY <1>6 DEF TagSendingInsert
  <2> HIDE DEF s
  <2>2. SsiOK'
    BY <1>1, <1>2, <1>3, <1>4, <2>1, SendingOK
  <2>3. RunOK'
    BY <1>1, <1>2, <1>4, <2>1 DEF RunOK
  <2> QED
    BY <1>1, <1>2, <1>3, <2>1, <2>2, <2>3 DEF SendInv
<1>7. CASE rest = <<>> /\ s.part = LastPart
  <2> DEFINE p == IF include THEN s.parsed ELSE s.tag_end
  <2>1. ssi' = [s EXCEPT !.index = 0, !.state = "NONE", !.parsed = IF include THEN @ ELSE s.tag_end]
        /\ UNCHANGED <<run, queued, out>>
    BY <1>7 DEF TagSendingInsert
  <2> HIDE DEF s
  <2>2. ssi' = [s EXCEPT !.index = 0, !.state = "NONE", !.parsed = p]
    BY <1>4, <2>1 DEF Ssi
  <2>3. p \in Nat \ {0} /\ p = ssi.tag_end
    BY <1>2, <1>4 DEF Ssi
  <2> HIDE DEF p
  <2>4. /\ ssi' \in Ssi /\ ssi'.state = "NONE" /\ ssi'.parsed = p
        /\ ssi'.parse_left = ssi.parse_left /\ ssi'.name = ssi.name
    BY <1>4, <2>2, <2>3 DEF Ssi
  <2>5. SsiOK'
    BY <1>1, <1>2, <1>3, <2>3, <2>4 DEF SsiOK
  <2>6. RunOK'
    BY <1>1, <1>2, <2>1, <2>4 DEF RunOK
  <2> QED
    BY <1>1, <1>2, <1>3, <2>1, <2>5, <2>6 DEF SendInv
<1> QED
  BY <1>5, <1>6, <1>7

LEMMA LoopEndsNext == SendInv /\ LoopEnds => SendInv'
<1> SUFFICES ASSUME SendInv, LoopEnds PROVE SendInv'
  OBVIOUS
<1>1. UNCHANGED <<page, include, hs, ssi, queued, out, end>> /\ run.pc = "loop"
  BY DEF LoopEnds
<1>2. /\ page \in Pages /\ page.kind = "ssi" /\ HsOK /\ SsiOK /\ RunOK /\ run \in Run /\ run.len \in Nat
      /\ queued \in 0 .. SndBuf /\ include \in BOOLEAN /\ ssi \in Ssi /\ ssi.parse_left \in Nat
      /\ run.ok \in BOOLEAN
  BY <1>1, SsiFacts
<1>3. ssi.state \in {"LEADIN", "FOUND", "LEADOUT"} => ~(ssi.parse_left > 0)
  BY <1>1, <1>2 DEF RunOK, LoopEnds, More
<1>4. CASE More
  <2>1. run.ok /\ run.len = 0 /\ run' = [run EXCEPT !.pc = "check"]
    BY <1>4 DEF LoopEnds, More
  <2>2. run' \in Run /\ run'.pc = "check" /\ queued > 0
    BY <1>1, <1>2, <2>1, RunFields DEF RunOK
  <2> QED
    BY <1>1, <1>2, <1>3, <2>2, HsSame, SsiSame DEF SendInv, RunOK
<1>5. CASE ~More
  <2>1. run' = [run EXCEPT !.pc = "tail"]
    BY <1>5 DEF LoopEnds
  <2>2. run' \in Run /\ run'.pc = "tail" /\ run'.ok = run.ok
    BY <1>2, <2>1, RunFields
  <2>3. run.ok => ssi.state # "SENDING" /\ ssi.parse_left = 0
    BY <1>2, <1>5 DEF More
  <2> QED
    BY <1>1, <1>2, <1>3, <2>2, <2>3, HsSame, SsiSame DEF SendInv, RunOK
<1> QED
  BY <1>4, <1>5

LEMMA TailNext == SendInv /\ SsiTail => SendInv'
<1> SUFFICES ASSUME SendInv, SsiTail PROVE SendInv'
  OBVIOUS
<1>1. UNCHANGED <<page, include, ssi, end>> /\ run.pc = "tail"
  BY DEF SsiTail
<1>2. /\ page \in Pages /\ page.kind = "ssi" /\ HsOK /\ SsiOK /\ RunOK
      /\ hs.left = Len(Text) - hs.file + 1 /\ hs.left \in Nat /\ hs.file \in Nat \ {0}
      /\ BytesLeft = 0 /\ Len(Text) \in Nat
      /\ ssi \in Ssi /\ ssi.parsed \in Nat /\ ssi.parse_left \in Nat /\ ssi.parsed <= Len(Text) + 1
      /\ run \in Run /\ run.ok \in BOOLEAN
      /\ queued \in 0 .. SndBuf /\ include \in BOOLEAN
  BY <1>1, SsiFacts
<1>3. ssi.state \in {"LEADIN", "FOUND", "LEADOUT"} => ssi.parse_left = 0
  BY <1>1, <1>2 DEF RunOK
<1>4. run.ok => ssi.state # "SENDING" /\ ssi.parse_left = 0
  BY <1>1, <1>2 DEF RunOK
<1>5. ssi.state # "SENDING" => ssi.parsed + ssi.parse_left = Len(Text) + 1 /\ hs.file <= ssi.parsed
  <2>1. ssi.state # "SENDING" => ssi.state \in {"NONE", "LEADIN", "FOUND", "LEADOUT"}
    BY <1>2 DEF Ssi
  <2> QED
    BY <1>2, <2>1 DEF SsiOK
<1>6. CASE ssi.state # "SENDING" /\ ssi.parsed > hs.file
  <2> DEFINE len == ssi.parsed - hs.file
  <2>1. PICK w \in Outcomes(len) :
          /\ queued' = queued + w.n
          /\ Sending(w.n)
          /\ run' = [run EXCEPT !.pc = "check", !.ok = @ /\ w.ok]
    BY <1>6 DEF SsiTail, Written
  <2>2. len \in Nat \ {0} /\ len <= hs.left
    BY <1>2, <1>6
  <2>3. /\ w.n \in 0 .. len /\ w.ok \in BOOLEAN
        /\ queued + w.n \in 0 .. SndBuf
        /\ w.ok /\ w.n = 0 => len = 0 \/ queued = SndBuf
    <3> HIDE DEF len
    <3> QED
      BY <1>2, <2>2, WriteTakes
  <2>4. w.n \in Nat /\ w.n <= hs.left
    BY <1>2, <2>2, <2>3
  <2>5. HsOK' /\ hs'.file = hs.file + w.n
    BY <1>1, <1>2, <2>1, <2>4, SendingKeeps
  <2>6. hs'.file <= ssi.parsed
    BY <1>2, <2>3, <2>5
  <2>7. SsiOK'
    BY <1>1, <1>2, <1>3, <2>4, <2>5, <2>6, SsiSent
  <2> DEFINE b == run.ok /\ w.ok
  <2>8. run' = [run EXCEPT !.pc = "check", !.ok = b] /\ b \in BOOLEAN
    BY <1>2, <2>1 DEF Run
  <2>9. b => w.ok
    OBVIOUS
  <2> HIDE DEF b
  <2>10. run' \in Run /\ run'.pc = "check" /\ run'.ok = b
    BY <1>2, <2>8, RunFields
  <2>11. /\ queued' \in 0 .. SndBuf
         /\ w.ok => queued' > 0
    <3>1. queued' = queued + w.n
      BY <2>1
    <3>2. w.ok /\ w.n = 0 => queued = SndBuf
      BY <2>2, <2>3
    <3> QED
      BY <1>2, <2>3, <2>4, <3>1, <3>2, Numbers
  <2>12. RunOK'
    BY <1>1, <1>2, <1>3, <2>9, <2>10, <2>11 DEF RunOK
  <2> QED
    BY <1>1, <1>2, <2>5, <2>7, <2>11, <2>12 DEF SendInv
<1>7. CASE ~(ssi.state # "SENDING" /\ ssi.parsed > hs.file)
  <2>1. run' = [run EXCEPT !.pc = "check"] /\ UNCHANGED <<hs, queued, out>>
    BY <1>7 DEF SsiTail
  <2>2. run' \in Run /\ run'.pc = "check" /\ run'.ok = run.ok
    BY <1>2, <2>1, RunFields
  <2>3. run.ok => hs.left = 0
    <3> SUFFICES ASSUME run.ok PROVE hs.left = 0
      OBVIOUS
    <3>1. ssi.state # "SENDING" /\ ssi.parse_left = 0
      BY <1>4
    <3>2. ssi.parsed = Len(Text) + 1 /\ hs.file = ssi.parsed
      BY <1>2, <1>5, <1>7, <3>1
    <3> QED
      BY <1>2, <3>2
  <2>4. BytesLeft' = 0
    BY <1>1, <1>2, <2>1 DEF BytesLeft, Text
  <2>5. RunOK'
    BY <1>1, <1>2, <1>3, <2>1, <2>2, <2>3, <2>4 DEF RunOK
  <2>6. HsOK' /\ SsiOK'
    BY <1>1, <1>2, <2>1, HsSame, SsiSame
  <2> QED
    BY <1>1, <1>2, <2>1, <2>5, <2>6 DEF SendInv
<1> QED
  BY <1>6, <1>7

(* Between two calls.                                                       *)
LEMMA IdleFacts ==
  ASSUME SendInv, run.pc = "idle"
  PROVE  /\ page \in Pages /\ HsOK /\ hs \in Hs /\ (page.kind = "ssi" => SsiOK) /\ RunOK /\ run \in Run
         /\ queued \in 0 .. SndBuf /\ include \in BOOLEAN
         /\ page.kind = "ssi" /\ ssi.state \in {"LEADIN", "FOUND", "LEADOUT"} => ~(ssi.parse_left > 0)
BY DEF SendInv, RunOK, HsOK

(* A callback that counts, or forgets, the polls and may start a call.      *)
LEMMA CallbackNext ==
  ASSUME SendInv, run.pc = "idle", UNCHANGED <<page, include, ssi>>,
         NEW r \in Nat, hs' = [hs EXCEPT !.retries = r],
         queued' \in 0 .. SndBuf,
         \/ HttpSend(hs)
         \/ UNCHANGED <<run, queued, end>>
         \/ end' # "no" /\ UNCHANGED run
  PROVE  SendInv'
<1>1. /\ page \in Pages /\ HsOK /\ hs \in Hs /\ (page.kind = "ssi" => SsiOK) /\ RunOK /\ run \in Run
      /\ include \in BOOLEAN
      /\ page.kind = "ssi" /\ ssi.state \in {"LEADIN", "FOUND", "LEADOUT"} => ~(ssi.parse_left > 0)
  BY IdleFacts
<1>2. /\ hs' \in Hs /\ hs'.wait = hs.wait /\ hs'.file = hs.file /\ hs'.index = hs.index
      /\ hs'.left = hs.left /\ hs'.hdr_index = hs.hdr_index /\ hs'.hdr_pos = hs.hdr_pos
  BY <1>1 DEF Hs
<1>3. HsOK'
  BY <1>1, <1>2 DEF HsOK, Text, NumHdrs, Buffered
<1>4. page.kind = "ssi" => SsiOK'
  BY <1>1, <1>2, SsiSame
<1>5. \/ run' \in Run /\ run'.pc = "headers"
      \/ UNCHANGED run /\ hs.wait = "yes"
      \/ UNCHANGED <<run, queued, end>>
      \/ end' # "no" /\ UNCHANGED run
  <2>1. CASE HttpSend(hs)
    <3>1. run' = IF hs.wait = "yes" THEN run ELSE [Returned(TRUE) EXCEPT !.pc = "headers"]
      BY <2>1 DEF HttpSend
    <3> QED
      BY <3>1, StartIs
  <2> QED
    BY <2>1
<1>6. RunOK'
  BY <1>1, <1>2, <1>5 DEF RunOK
<1> QED
  BY <1>1, <1>3, <1>4, <1>6 DEF SendInv

LEMMA SentNext == SendInv /\ (\E k \in 1 .. SndBuf : Sent(k)) => SendInv'
<1> SUFFICES ASSUME SendInv, NEW k \in 1 .. SndBuf, Sent(k) PROVE SendInv'
  OBVIOUS
<1>1. run.pc = "idle" /\ UNCHANGED <<page, include, ssi, end>> /\ HttpSend(hs)
  BY DEF Sent
<1>2. hs' = [hs EXCEPT !.retries = 0] /\ queued' = queued - k /\ k <= queued
  BY DEF Sent
<1>3. queued' \in 0 .. SndBuf
  BY <1>1, <1>2, IdleFacts, Numbers
<1> QED
  BY <1>1, <1>2, <1>3, CallbackNext

LEMMA PollNext == SendInv /\ Poll => SendInv'
<1> SUFFICES ASSUME SendInv, Poll PROVE SendInv'
  OBVIOUS
<1>1. run.pc = "idle" /\ UNCHANGED <<page, include, ssi, queued>>
  BY DEF Poll
<1> DEFINE r == hs.retries + 1
<1>2. hs \in Hs /\ queued \in 0 .. SndBuf
  BY <1>1, IdleFacts
<1>3. hs' = [hs EXCEPT !.retries = r] /\ r \in Nat
  BY <1>2 DEF Poll, Hs
<1>4. \/ HttpSend(hs)
      \/ UNCHANGED <<run, queued, end>>
      \/ end' # "no" /\ UNCHANGED run
  BY DEF Poll
<1> HIDE DEF r
<1> QED
  BY <1>1, <1>2, <1>3, <1>4, CallbackNext

LEMMA ContinueNext == SendInv /\ Continue => SendInv'
<1> SUFFICES ASSUME SendInv, Continue PROVE SendInv'
  OBVIOUS
<1>1. run.pc = "idle" /\ UNCHANGED <<page, include, ssi, queued, out, end>>
  BY DEF Continue
<1>2. /\ page \in Pages /\ HsOK /\ hs \in Hs /\ (page.kind = "ssi" => SsiOK) /\ RunOK
      /\ queued \in 0 .. SndBuf /\ include \in BOOLEAN
      /\ page.kind = "ssi" /\ ssi.state \in {"LEADIN", "FOUND", "LEADOUT"} => ~(ssi.parse_left > 0)
  BY <1>1, IdleFacts
<1>3. hs' = [hs EXCEPT !.wait = "over"] /\ HttpSend(hs')
  BY DEF Continue
<1>4. /\ hs' \in Hs /\ hs'.wait = "over" /\ hs'.file = hs.file /\ hs'.index = hs.index
      /\ hs'.left = hs.left /\ hs'.hdr_index = hs.hdr_index /\ hs'.hdr_pos = hs.hdr_pos
  BY <1>2, <1>3 DEF Hs
<1>5. run' = [Returned(TRUE) EXCEPT !.pc = "headers"]
  BY <1>3, <1>4 DEF HttpSend
<1>6. HsOK'
  BY <1>1, <1>2, <1>4 DEF HsOK, Text, NumHdrs, Buffered
<1>7. RunOK'
  BY <1>1, <1>2, <1>5, StartIs DEF RunOK
<1>8. page.kind = "ssi" => SsiOK'
  BY <1>1, <1>2, <1>4, SsiSame
<1> QED
  BY <1>1, <1>2, <1>6, <1>7, <1>8 DEF SendInv

LEMMA ErrNext == SendInv /\ Err => SendInv'
<1> SUFFICES ASSUME SendInv, Err PROVE SendInv'
  OBVIOUS
<1>1. run.pc = "idle" /\ end' = "err" /\ UNCHANGED <<page, include, hs, ssi, run, queued, out>>
  BY DEF Err
<1>2. HsOK' /\ (page.kind = "ssi" => SsiOK')
  BY <1>1, IdleFacts, HsSame, SsiSame
<1>3. RunOK'
  BY <1>1, IdleFacts DEF RunOK
<1> QED
  BY <1>1, <1>2, <1>3 DEF SendInv

LEMMA StutterNext == SendInv /\ UNCHANGED sendVars => SendInv'
<1> SUFFICES ASSUME SendInv, UNCHANGED sendVars PROVE SendInv'
  OBVIOUS
<1>1. UNCHANGED <<page, include, hs, ssi, run, queued, out, end>>
  BY DEF sendVars
<1>2. HsOK' /\ (page.kind = "ssi" => SsiOK')
  BY <1>1, HsSame, SsiSame DEF SendInv
<1>3. RunOK'
  BY <1>1 DEF RunOK, SendInv, BytesLeft, Text
<1> QED
  BY <1>1, <1>2, <1>3 DEF SendInv

LEMMA SendInitInv == SendInit => SendInv
<1> SUFFICES ASSUME SendInit PROVE SendInv
  OBVIOUS
<1>1. page \in Pages /\ include \in BOOLEAN /\ queued \in 0 .. SndBuf
  BY HttpdSendAssumption, Numbers DEF SendInit, HttpdSendAssumption
<1> DEFINE l == IF page.kind \in {"memory", "ssi"} THEN Len(page.text) ELSE 0
           k == IF page.kind = "ssi" THEN Len(page.text) ELSE 0
<1>2. Len(Text) \in Nat /\ NumHdrs \in Nat /\ page.text = Text
  BY <1>1, PageTypes DEF Text
<1>3. l \in Nat /\ k \in Nat
  BY <1>2
<1>4. hs = [hdr_index |-> 1, hdr_pos |-> 0, file |-> 1, index |-> 0, buf |-> 0,
            retries |-> 0, wait |-> "no", left |-> l]
  BY DEF SendInit
<1>5. /\ page.kind \in {"memory", "ssi", "read", "none"}
      /\ l = IF page.kind = "read" THEN 0 ELSE Len(Text)
      /\ page.kind = "ssi" => k = Len(Text)
  BY <1>1, <1>2, PageTypes
<1> HIDE DEF l
<1>6. /\ hs \in Hs /\ hs.hdr_index = 1 /\ hs.hdr_pos = 0 /\ hs.file = 1 /\ hs.index = 0
      /\ hs.left = l
  BY <1>3, <1>4 DEF Hs
<1>7. HsOK
  <2>1. Buffered = l
    BY <1>5, <1>6 DEF Buffered
  <2>2. 1 <= NumHdrs => Len(page.hdrs[1]) \in Nat
    BY <1>1, <1>2, PageTypes
  <2> QED
    BY <1>2, <1>3, <1>6, <2>1, <2>2 DEF HsOK
<1> DEFINE s == NoSsi
<1>8. ssi = [s EXCEPT !.parse_left = k]
  BY DEF SendInit
<1> HIDE DEF k
<1>9. /\ s \in Ssi /\ s.state = "NONE" /\ s.parsed = 1 /\ Len(s.name) = 0
  <2> DEFINE empty == <<>>
             last == LastPart
  <2>1. s = [state |-> "NONE", type |-> 1, index |-> 0, parsed |-> 1, parse_left |-> 0,
             started |-> 1, tag_end |-> 1, name |-> empty, insert |-> empty, part |-> last]
    BY DEF NoSsi
  <2>2. empty \in Seq(Chars) /\ Len(empty) = 0
    OBVIOUS
  <2> HIDE DEF empty, last, s
  <2>3. s \in Ssi
    BY <2>1, <2>2 DEF Ssi, last
  <2>4. s.state = "NONE" /\ s.parsed = 1 /\ s.name = empty
    BY <2>1
  <2> QED
    BY <2>2, <2>3, <2>4
<1> HIDE DEF s
<1>10. /\ ssi \in Ssi /\ ssi.state = "NONE" /\ ssi.parsed = 1 /\ ssi.parse_left = k
       /\ Len(ssi.name) = 0
  BY <1>3, <1>8, <1>9 DEF Ssi
<1>11. page.kind = "ssi" => SsiOK
  BY <1>2, <1>5, <1>6, <1>10, Numbers DEF SsiOK
<1>12. run \in Run /\ run.pc = "headers"
  BY StartIs DEF SendInit
<1>13. RunOK
  BY <1>10, <1>12 DEF RunOK
<1> QED
  BY <1>1, <1>7, <1>11, <1>13 DEF SendInv

-----------------------------------------------------------------------------
(* Where an answer stands, for any pages, tags and inserts: headers and     *)
(* file are sent up to a place inside them, what is parsed and what is not  *)
(* make the file, a name is never longer than its buffer, and a call goes   *)
(* on until the page is sent, no room is left or something has failed.      *)
THEOREM SendInvariant == SendSpec => []SendInv
<1>1. SendInv /\ [SendNext]_sendVars => SendInv'
  <2> SUFFICES ASSUME SendInv, [SendNext]_sendVars PROVE SendInv'
    OBVIOUS
  <2>1. CASE Call
    BY <2>1, HeaderNext, HeadersDoneNext, LeftNext, DataNext, CheckNext, FirstNext, NoneNext,
       LeadInNext, FoundNext, LeadOutNext, SendingTextNext, SendingInsertNext, LoopEndsNext,
       TailNext DEF Call
  <2>2. CASE Poll \/ Continue \/ Err \/ \E k \in 1 .. SndBuf : Sent(k)
    BY <2>2, PollNext, ContinueNext, ErrNext, SentNext
  <2> QED
    BY <2>1, <2>2, StutterNext DEF SendNext
<1> QED
  BY <1>1, SendInitInv, PTL DEF SendSpec

(* No answer waits for nothing: whenever http_send() has returned and the   *)
(* connection goes on, an acknowledgement, the file system or, after a      *)
(* failure, the poll starts it again.                                       *)
THEOREM StallCorrect == SendSpec => []NoStall
<1>1. SendInv => NoStall
  BY DEF SendInv, RunOK, NoStall
<1> QED
  BY <1>1, SendInvariant, PTL

=============================================================================
