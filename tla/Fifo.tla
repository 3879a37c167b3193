-------------------------------- MODULE Fifo --------------------------------
(***************************************************************************)
(* What the ring queue promises to its callers: a first-in first-out       *)
(* buffer of Capacity items.  A put is refused exactly when the buffer is  *)
(* full and a get returns NULL exactly when it is empty.                   *)
(***************************************************************************)
EXTENDS Integers, Sequences

CONSTANTS Producers, Consumers, Items, NoItem, Capacity

VARIABLES
  buffer,  (* the queued items, oldest first                                *)
  result   (* what the last call of each context returned                   *)

vars == <<buffer, result>>

Init ==
  /\ buffer = << >>
  /\ result = [c \in Producers \cup Consumers |-> "none"]

Put(c, x) ==
  /\ Len(buffer) < Capacity
  /\ buffer' = Append(buffer, x)
  /\ result' = [result EXCEPT ![c] = "ok"]

PutFull(c) ==
  /\ Len(buffer) = Capacity
  /\ result' = [result EXCEPT ![c] = "full"]
  /\ UNCHANGED buffer

Get(c) ==
  /\ buffer # << >>
  /\ buffer' = Tail(buffer)
  /\ result' = [result EXCEPT ![c] = Head(buffer)]

GetEmpty(c) ==
  /\ buffer = << >>
  /\ result' = [result EXCEPT ![c] = NoItem]
  /\ UNCHANGED buffer

Next ==
  \/ \E c \in Producers : PutFull(c) \/ \E x \in Items : Put(c, x)
  \/ \E c \in Consumers : Get(c) \/ GetEmpty(c)

Spec == Init /\ [][Next]_vars
=============================================================================
