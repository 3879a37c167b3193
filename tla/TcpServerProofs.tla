-------------------------- MODULE TcpServerProofs --------------------------
(***************************************************************************)
(* Proofs about the structs of the server's connections, for every size of *)
(* the table, any number of connections and bytes, and every sketch.       *)
(***************************************************************************)
EXTENDS TcpServer, WellFoundedInduction, TLAPS

(* Where the user's thread is.  A connection is in hand (app.cl) from the   *)
(* scan that has found it, or the loop of write(), until it is given up;    *)
(* the indices stay inside the arrays while it is.                          *)
AppOK ==
  /\ app.pc \in {"setup", "loop", "check", "scan", "write"} => app.i = 1 /\ app.cl = 0
  /\ app.pc \in {"round", "wrote", "stop", "close", "free"} => app.cl # 0
  /\ app.pc = "check" => app.fn \in {"accept", "available", "write"} /\ app.n <= MAX_CLIENT
  /\ app.pc = "scan" => app.fn \in {"accept", "available"} /\ app.n <= MAX_CLIENT
  /\ app.pc \in {"round", "wrote"} /\ app.fn \in {"write", "relay"} => app.n <= MAX_CLIENT
  /\ app.pc \in {"stop", "close", "free"} => app.i <= MAX_CLIENT
  /\ app.fn = "write" => app.size <= MaxBytes
  /\ app.fn = "relay" /\ app.size > 0 => app.i <= MAX_CLIENT

(* Which sketch makes which calls.                                          *)
CallsOK ==
  /\ app.fn \in {"accept", "relay", "reap"} => sketch = "advanced"
  /\ app.fn \in {"available", "write"} => sketch # "advanced"
  /\ sketch = "advanced" =>
       /\ app.pc = "use" => app.fn \in {"accept", "relay", "reap"}
       /\ app.pc \in {"stop", "close", "free"} => app.fn = "reap"
       /\ app.pc \in {"round", "wrote"} => app.fn \in {"hello", "relay"}
       /\ app.pc \in {"round", "wrote"} /\ app.fn = "hello" => \E k \in Slots : clients[k] = 0

(* The life of a struct: none before its connection, alive while callbacks  *)
(* come.                                                                    *)
StructOK ==
  /\ \A c \in Conns :
       /\ pcbs[c] = "none" => tcp[c].mem = "none"
       /\ tcp[c].available <= received[c]
  /\ CallbacksAlive

(* Whose a connection is: the table's until accept() has returned it, the   *)
(* sketch's from then on.                                                   *)
OwnerOK ==
  /\ \A k \in Slots : clients[k] # 0 => tcp[clients[k]].is_accept
  /\ \A k \in Slots : table[k] # 0 =>
       ~tcp[table[k]].is_accept /\ \A l \in Slots : table[l] = table[k] => l = k
  /\ sketch # "advanced" =>
       (\A k \in Slots : clients[k] = 0) /\ \A c \in Conns : ~tcp[c].is_accept

(* What is held is alive.                                                   *)
HeldAlive ==
  \A k \in Slots : /\ table[k] # 0 => tcp[table[k]].mem = "heap"
                   /\ clients[k] # 0 => tcp[clients[k]].mem = "heap"

(* The connection in hand is alive; it is in the table too, or was, and     *)
(* then is in the array, unless the sketch is about to put it there.        *)
HandOK ==
  /\ app.pc = "free" => tcp[app.cl].state = "CLOSING"
  /\ app.cl # 0 => tcp[app.cl].mem = "heap"
  /\ app.cl # 0 /\ sketch = "advanced" =>
       /\ tcp[app.cl].is_accept
       /\ app.fn \in {"relay", "reap"} => \E k \in Slots : clients[k] = app.cl
  /\ app.cl # 0 /\ sketch # "advanced" =>
       app.i = 1 /\ \E k \in Slots : table[k] = app.cl

(* What is alive is held.                                                   *)
AliveHeld ==
  \A c \in Conns : tcp[c].mem = "heap" =>
    \/ \E k \in Slots : table[k] = c \/ clients[k] = c
    \/ c = app.cl \/ c \in strays

ServerInv ==
  /\ TypeOK /\ AppOK /\ CallsOK
  /\ StructOK /\ OwnerOK /\ HeldAlive /\ HandOK /\ AliveHeld

-----------------------------------------------------------------------------
(* The constants, and the intervals that counters and indices are in: the   *)
(* proofs cite what they need of them and keep them closed otherwise.       *)
LEMMA Bounds ==
  /\ MAX_CLIENT \in Nat \ {0} /\ MaxConns \in Nat \ {0} /\ MaxBytes \in Nat \ {0}
  /\ SndBuf \in Nat \ {0} /\ Reply \in Nat \ {0}
  /\ Sketches \subseteq {"web", "chat", "dhcpchat", "advanced"}
  BY TcpServerAssumption

(* Membership in the intervals, as comparisons.                             *)
LEMMA Sets ==
  /\ \A n \in Int : n \in Slots <=> n >= 1 /\ n <= MAX_CLIENT
  /\ \A n \in Int : n \in Positions <=> n >= 1 /\ n <= MAX_CLIENT + MaxBytes + 1
  /\ \A n \in Int : n \in Lengths <=> n >= 0 /\ n <= MaxBytes + Reply
  /\ \A n \in Int : n \in Amounts <=> n >= 0 /\ n <= MaxBytes
  /\ Slots \subseteq Int /\ Positions \subseteq Int /\ Lengths \subseteq Int
  /\ Amounts \subseteq Int /\ Conns \subseteq Int
  BY Bounds DEF Slots, Conns, Positions, Lengths, Amounts

(* Values that the actions assign are in the sets they should be in.        *)
LEMMA Members ==
  /\ 1 \in Slots /\ 1 \in Positions /\ Slots \subseteq Positions
  /\ 0 \in Lengths /\ Reply \in Lengths /\ Amounts \subseteq Lengths
  /\ 0 \in Amounts /\ 0 \notin Conns
  BY Bounds DEF Slots, Conns, Positions, Lengths, Amounts

(* What the types say, for the proofs that need no more of them.            *)
LEMMA Typed ==
  ASSUME ServerInv
  PROVE  /\ app \in Calls /\ app.i <= MAX_CLIENT + 1 /\ app.left <= app.size
         /\ tcp \in [Conns -> Struct]
         /\ table \in [Slots -> Conns \cup {0}]
         /\ clients \in [Slots -> Conns \cup {0}]
         /\ strays \subseteq Conns
         /\ app.cl # 0 => app.cl \in Conns
  BY DEF ServerInv, TypeOK, Calls

(* The locals are numbers with these bounds.                                *)
LEMMA Numbers ==
  ASSUME ServerInv
  PROVE  /\ app.n \in Int /\ app.n >= 1 /\ app.n \in Positions
         /\ app.i \in Int /\ app.i >= 1 /\ app.i <= MAX_CLIENT + 1
         /\ app.left \in Int /\ app.left >= 0 /\ app.left <= app.size
         /\ app.size \in Int /\ app.size >= 0 /\ app.size \in Lengths
         /\ MAX_CLIENT \in Int
<1>1. app \in Calls /\ app.i <= MAX_CLIENT + 1 /\ app.left <= app.size
  BY Typed
<1>2. app.n \in Positions /\ app.i \in Positions /\ app.left \in Lengths /\ app.size \in Lengths
  BY <1>1 DEF Calls
<1>3. app.n \in Int /\ app.i \in Int /\ app.left \in Int /\ app.size \in Int
  BY <1>2, Sets
<1>4. app.n >= 1 /\ app.i >= 1 /\ app.left >= 0 /\ app.size >= 0
  BY <1>2, <1>3, Sets
<1> QED
  BY <1>1, <1>2, <1>3, <1>4, Bounds

(* What a new value of the locals is made of.                               *)
LEMMA Locals ==
  ASSUME ServerInv
  PROVE  /\ app \in Calls /\ app.i <= MAX_CLIENT + 1 /\ app.left <= app.size
         /\ 0 <= app.size /\ app.size <= app.size /\ 0 <= 0 /\ 1 <= MAX_CLIENT + 1 /\ Reply <= Reply
         /\ 1 \in Positions /\ 0 \in Lengths /\ Reply \in Lengths /\ Amounts \subseteq Lengths
  BY Typed, Numbers, Members, Bounds

(* An index that is inside an array can be moved on.                        *)
LEMMA NextIndex ==
  ASSUME ServerInv
  PROVE  /\ app.n <= MAX_CLIENT => app.n + 1 \in Positions
         /\ app.i <= MAX_CLIENT => app.i + 1 \in Positions /\ app.i + 1 <= MAX_CLIENT + 1
<1>1. app.n + 1 >= 1 /\ app.n + 1 \in Int /\ app.i + 1 >= 1 /\ app.i + 1 \in Int
  BY Numbers
<1> QED
  BY <1>1, Numbers, Sets, Bounds

(* The first free place: a non-empty set of slots has a least one.          *)
LEMMA LeastSlot ==
  ASSUME NEW S \in SUBSET Slots, S # {}
  PROVE  \E k \in S : \A l \in S : k <= l
<1>1. S \subseteq Nat
  BY DEF Slots
<1>2. PICK k \in S : \A l \in S : ~(<<l, k>> \in OpToRel(<, Nat))
  BY <1>1, NatLessThanWellFounded, WFMin
<1>3. ASSUME NEW l \in S PROVE k <= l
  <2>1. <<l, k>> \in Nat \X Nat /\ ~(<<l, k>> \in OpToRel(<, Nat))
    BY <1>1, <1>2
  <2>2. ~(l < k)
    BY <2>1 DEF OpToRel
  <2> QED
    BY <1>1, <2>2
<1> QED
  BY <1>3

(* The sketch starts with nothing.                                          *)
LEMMA InitInv == Init => ServerInv
<1> SUFFICES ASSUME Init PROVE ServerInv
  OBVIOUS
<1> USE DEF Init, Idle
<1>1. TypeOK
  <2>1. app \in Calls /\ app.i <= MAX_CLIENT + 1 /\ app.left <= app.size
    BY Bounds, Members DEF Calls
  <2>2. tcp \in [Conns -> Struct]
    BY Members DEF Struct, NoStruct
  <2>3. received \in [Conns -> Amounts] /\ room \in [Conns -> 0 .. SndBuf]
    BY Members, Bounds
  <2> QED
    BY <2>1, <2>2, <2>3 DEF TypeOK
<1>2. AppOK /\ CallsOK
  BY DEF AppOK, CallsOK
<1>3. StructOK /\ OwnerOK /\ HeldAlive /\ HandOK /\ AliveHeld
  BY Members DEF StructOK, OwnerOK, HeldAlive, HandOK, AliveHeld, CallbacksAlive, NoStruct
<1> QED
  BY <1>1, <1>2, <1>3 DEF ServerInv

(* A step of the user's thread, or of lwIP, that leaves the owners of all   *)
(* connections and the state of their structs alone: what it does to the    *)
(* connection in hand is all there is to see.                               *)
LEMMA Quiet ==
  ASSUME ServerInv, TypeOK', AppOK', CallsOK', HandOK',
         UNCHANGED <<sketch, table, clients, pcbs>>,
         \A c \in Conns : /\ tcp'[c].mem = tcp[c].mem /\ tcp'[c].state = tcp[c].state
                          /\ tcp'[c].pcb = tcp[c].pcb /\ tcp'[c].is_accept = tcp[c].is_accept
                          /\ tcp'[c].available <= received'[c],
         strays \subseteq strays',
         \/ app'.cl = app.cl \/ app.cl \in strays' \cup {0} \/ sketch # "advanced"
         \/ \E k \in Slots : clients[k] = app.cl
  PROVE  ServerInv'
<1>1. StructOK'
  BY Typed DEF ServerInv, StructOK, CallbacksAlive
<1>2. OwnerOK' /\ HeldAlive'
  BY Typed DEF ServerInv, OwnerOK, HeldAlive
<1>3. AliveHeld'
  BY Typed, Members DEF ServerInv, AliveHeld, HandOK
<1> QED
  BY <1>1, <1>2, <1>3 DEF ServerInv

(* ... and when it changes nothing but the thread's own locals              *)
LEMMA Local ==
  ASSUME ServerInv, UNCHANGED <<sketch, mem, pcbs, received, clients, strays>>,
         listening' \in BOOLEAN, greeted' \in BOOLEAN, room' \in [Conns -> 0 .. SndBuf],
         app' \in Calls, app'.i <= MAX_CLIENT + 1, app'.left <= app'.size,
         AppOK', CallsOK', HandOK',
         \/ app'.cl = app.cl \/ app.cl = 0 \/ sketch # "advanced"
         \/ \E k \in Slots : clients[k] = app.cl
  PROVE  ServerInv'
<1>1. TypeOK'
  BY DEF ServerInv, TypeOK, mem
<1>2. \A c \in Conns : tcp[c].available <= received[c]
  BY DEF ServerInv, StructOK
<1> QED
  BY <1>1, <1>2, Quiet DEF mem

(* begin(): the server listens, or the sketch halts.                        *)
LEMMA BeginInv == ServerInv /\ Begin => ServerInv'
<1> SUFFICES ASSUME ServerInv, Begin PROVE ServerInv'
  OBVIOUS
<1>1. CASE listening'
  <2>1. app' = Idle
    BY <1>1, Numbers DEF Begin
  <2>2. app' \in Calls /\ app'.i <= MAX_CLIENT + 1 /\ app'.left <= app'.size
    BY <1>1, <2>1, Locals DEF Calls, Idle
  <2>3. AppOK' /\ CallsOK'
    BY <1>1, <2>1, Typed, Numbers, Bounds, Members DEF ServerInv, AppOK, CallsOK,
       HandOK, Calls, Idle, Begin
  <2>4. HandOK'
    BY <2>1 DEF HandOK, Idle
  <2> QED
    BY <1>1, <2>1, <2>2, <2>3, <2>4, Typed, Local DEF ServerInv, TypeOK, AppOK,
       HandOK, CallsOK, Calls, mem, lwip, Idle, Begin
<1>2. CASE ~listening'
  <2>1. app' = [app EXCEPT !.pc = "halt"]
    BY <1>2, Numbers DEF Begin
  <2>2. app' \in Calls /\ app'.i <= MAX_CLIENT + 1 /\ app'.left <= app'.size
    BY <1>2, <2>1, Locals DEF Calls
  <2>3. AppOK' /\ CallsOK'
    BY <1>2, <2>1, Typed, Numbers, Bounds, Members DEF ServerInv, AppOK, CallsOK,
       HandOK, Calls, Begin
  <2>4. HandOK'
    BY <1>2, <2>1, Typed DEF ServerInv, HandOK, AppOK, CallsOK, OwnerOK,
       HeldAlive, Calls, mem, lwip, Begin
  <2> QED
    BY <1>2, <2>1, <2>2, <2>3, <2>4, Typed, Local DEF ServerInv, TypeOK, AppOK,
       HandOK, CallsOK, Calls, mem, lwip, Begin
<1> QED
  BY <1>1, <1>2, Numbers

(* loop() asks for a client.                                                *)
LEMMA LoopInv == ServerInv /\ Loop => ServerInv'
<1> SUFFICES ASSUME ServerInv, Loop PROVE ServerInv'
  OBVIOUS
<1>1. app' = [app EXCEPT !.pc = "check", !.fn = (IF sketch = "advanced" THEN "accept" ELSE "available"), !.n = 1]
  BY Numbers DEF Call, Loop
<1>2. app' \in Calls /\ app'.i <= MAX_CLIENT + 1 /\ app'.left <= app'.size
  BY <1>1, Locals DEF Calls
<1>3. AppOK' /\ CallsOK'
  BY <1>1, Typed, Numbers, Bounds, Members DEF ServerInv, AppOK, CallsOK,
     HandOK, Calls, Call, Loop
<1>4. HandOK'
  BY <1>1, Typed DEF ServerInv, HandOK, AppOK, CallsOK, OwnerOK, HeldAlive,
     Calls, mem, lwip, Call, Loop
<1> QED
  BY <1>1, <1>2, <1>3, <1>4, Typed, Local DEF ServerInv, TypeOK, AppOK, HandOK,
     CallsOK, Calls, mem, lwip, Call, Loop

(* write() to all: the next slot with an accepted connection, or none.      *)
LEMMA ServerWriteInv == ServerInv /\ ServerWrite => ServerInv'
<1> SUFFICES ASSUME ServerInv, ServerWrite PROVE ServerInv'
  OBVIOUS
<1>1. CASE app.n > MAX_CLIENT
  <2>1. app' = Idle
    BY <1>1, Numbers DEF ServerWrite
  <2>2. app' \in Calls /\ app'.i <= MAX_CLIENT + 1 /\ app'.left <= app'.size
    BY <1>1, <2>1, Locals DEF Calls, Idle
  <2>3. AppOK' /\ CallsOK'
    BY <1>1, <2>1, Typed, Numbers, Bounds, Members DEF ServerInv, AppOK, CallsOK,
       HandOK, Calls, Idle, ServerWrite
  <2>4. HandOK'
    BY <2>1 DEF HandOK, Idle
  <2> QED
    BY <1>1, <2>1, <2>2, <2>3, <2>4, Typed, Local DEF ServerInv, TypeOK, AppOK,
       HandOK, CallsOK, Calls, mem, lwip, Idle, ServerWrite
<1>2. CASE app.n <= MAX_CLIENT /\ Accepted(table[app.n])
  <2>1. app.n \in Slots
    BY <1>2, Numbers, Sets DEF ServerInv, AppOK
  <2>2. table[app.n] \in Conns
    BY <1>2, <2>1, Typed DEF Accepted
  <2>3. app' = [app EXCEPT !.pc = "round", !.cl = table[app.n], !.left = app.size]
    BY <1>2, <2>1, <2>2, Numbers DEF ServerWrite
  <2>4. app' \in Calls /\ app'.i <= MAX_CLIENT + 1 /\ app'.left <= app'.size
    BY <1>2, <2>3, <2>1, <2>2, Locals DEF Calls
  <2>5. AppOK' /\ CallsOK'
    BY <1>2, <2>3, <2>1, <2>2, Typed, Numbers, Bounds, Members DEF ServerInv,
       AppOK, CallsOK, HandOK, Calls, ServerWrite
  <2>6. HandOK'
    BY <1>2, <2>3, <2>1, <2>2, Typed DEF ServerInv, HandOK, AppOK, CallsOK,
       OwnerOK, HeldAlive, Calls, mem, lwip, ServerWrite
  <2> QED
    BY <1>2, <2>3, <2>4, <2>5, <2>6, <2>1, <2>2, Typed, Local DEF ServerInv,
       TypeOK, AppOK, HandOK, CallsOK, Calls, mem, lwip, ServerWrite
<1>3. CASE app.n <= MAX_CLIENT /\ ~Accepted(table[app.n])
  <2>1. app' = [app EXCEPT !.n = @ + 1]
    BY <1>3, Numbers DEF ServerWrite
  <2>2. app' \in Calls /\ app'.i <= MAX_CLIENT + 1 /\ app'.left <= app'.size
    BY <1>3, <2>1, Locals, NextIndex DEF Calls
  <2>3. AppOK' /\ CallsOK'
    BY <1>3, <2>1, Typed, Numbers, Bounds, Members DEF ServerInv, AppOK, CallsOK,
       HandOK, Calls, ServerWrite
  <2>4. HandOK'
    BY <1>3, <2>1, Typed DEF ServerInv, HandOK, AppOK, CallsOK, OwnerOK,
       HeldAlive, Calls, mem, lwip, ServerWrite
  <2> QED
    BY <1>3, <2>1, <2>2, <2>3, <2>4, Typed, Local DEF ServerInv, TypeOK, AppOK,
       HandOK, CallsOK, Calls, mem, lwip, ServerWrite
<1> QED
  BY <1>1, <1>2, <1>3, Numbers

(* A round of write() takes what lwIP has room for, or fails.               *)
LEMMA RoundInv == ServerInv /\ Round => ServerInv'
<1> SUFFICES ASSUME ServerInv, Round PROVE ServerInv'
  OBVIOUS
<1>1. app.cl \in Conns /\ room \in [Conns -> 0 .. SndBuf] /\ Fits \in Int
      /\ Fits >= 0 /\ Fits <= app.left /\ Fits <= room[app.cl]
  <2>1. app.cl \in Conns /\ room \in [Conns -> 0 .. SndBuf]
    BY Typed DEF ServerInv, AppOK, TypeOK, Round
  <2> QED
    BY <2>1, Numbers, Bounds DEF Fits
<1>2. CASE /\ room' = [room EXCEPT ![app.cl] = @ - Fits]
           /\ app' = [app EXCEPT !.left = @ - Fits,
                                 !.pc = IF app.left = Fits THEN "wrote" ELSE "round"]
  <2>1. room' \in [Conns -> 0 .. SndBuf]
    <3>1. room[app.cl] \in Int /\ room[app.cl] <= SndBuf
      BY <1>1, Bounds
    <3>2. room[app.cl] - Fits \in 0 .. SndBuf
      BY <1>1, <3>1, Bounds
    <3> QED
      BY <1>1, <1>2, <3>2
  <2>2. app.left - Fits \in Lengths /\ app.left - Fits <= app.size
    <3>1. app.size <= MaxBytes + Reply
      BY Numbers, Sets
    <3>2. /\ app.left - Fits \in Int /\ app.left - Fits >= 0
          /\ app.left - Fits <= app.size /\ app.left - Fits <= MaxBytes + Reply
      BY <1>1, <3>1, Numbers, Bounds
    <3> QED
      BY <3>2, Sets
  <2>3. app' \in Calls /\ app'.i <= MAX_CLIENT + 1 /\ app'.left <= app'.size
    BY <1>2, <2>2, Typed DEF Calls
  <2>4. AppOK' /\ CallsOK'
    BY <1>2, Typed DEF ServerInv, AppOK, CallsOK, Calls, Round
  <2>5. HandOK'
    BY <1>2, Typed DEF ServerInv, HandOK, Calls, Round, mem
  <2> QED
    BY <1>2, <2>1, <2>3, <2>4, <2>5, Typed, Local
       DEF ServerInv, TypeOK, Calls, Round
<1>3. CASE UNCHANGED room /\ app' = [app EXCEPT !.pc = "wrote"]
  <2>1. app' \in Calls /\ app'.i <= MAX_CLIENT + 1 /\ app'.left <= app'.size
    BY <1>3, Typed DEF Calls
  <2>2. AppOK' /\ CallsOK'
    BY <1>3, Typed DEF ServerInv, AppOK, CallsOK, Calls, Round
  <2>3. HandOK'
    BY <1>3, Typed DEF ServerInv, HandOK, Calls, Round, mem
  <2> QED
    BY <1>3, <2>1, <2>2, <2>3, Typed, Local DEF ServerInv, TypeOK, Calls, Round
<1> QED
  BY <1>2, <1>3 DEF Round

(* The index moves on, at most by as many slots as there are bytes.         *)
LEMMA ServerWroteInv == ServerInv /\ ServerWrote => ServerInv'
<1> SUFFICES ASSUME ServerInv, ServerWrote PROVE ServerInv'
  OBVIOUS
<1>1. app.n + 1 + (IF app.left = 0 THEN app.size ELSE 0) \in Positions
  BY Numbers, Sets, Bounds DEF ServerInv, AppOK, ServerWrote
<1>2. app' = [app EXCEPT !.pc = "write", !.cl = 0, !.left = 0, !.n = @ + 1 + IF app.left = 0 THEN app.size ELSE 0]
  BY <1>1, Numbers DEF ServerWrote
<1>3. app' \in Calls /\ app'.i <= MAX_CLIENT + 1 /\ app'.left <= app'.size
  BY <1>2, <1>1, Locals DEF Calls
<1>4. AppOK' /\ CallsOK'
  BY <1>2, <1>1, Typed, Numbers, Bounds, Members DEF ServerInv, AppOK, CallsOK,
     HandOK, Calls, ServerWrote
<1>5. HandOK'
  BY <1>2, <1>1, Typed DEF ServerInv, HandOK, AppOK, CallsOK, OwnerOK,
     HeldAlive, Calls, mem, lwip, ServerWrote
<1> QED
  BY <1>2, <1>3, <1>4, <1>5, <1>1, Typed, Local DEF ServerInv, TypeOK, AppOK,
     HandOK, CallsOK, Calls, mem, lwip, ServerWrote

(* Nothing is modelled after the fault.                                     *)
LEMMA FaultInv == ServerInv /\ Fault => ServerInv'
<1> SUFFICES ASSUME ServerInv, Fault PROVE ServerInv'
  OBVIOUS
<1>1. app' = [app EXCEPT !.pc = "fault"]
  BY Numbers DEF Fault
<1>2. app' \in Calls /\ app'.i <= MAX_CLIENT + 1 /\ app'.left <= app'.size
  BY <1>1, Locals DEF Calls
<1>3. AppOK' /\ CallsOK'
  BY <1>1, Typed, Numbers, Bounds, Members DEF ServerInv, AppOK, CallsOK,
     HandOK, Calls, Fault
<1>4. HandOK'
  BY <1>1, Typed DEF ServerInv, HandOK, AppOK, CallsOK, OwnerOK, HeldAlive,
     Calls, mem, lwip, Fault
<1> QED
  BY <1>1, <1>2, <1>3, <1>4, Typed, Local DEF ServerInv, TypeOK, AppOK, HandOK,
     CallsOK, Calls, mem, lwip, Fault

(* stop(): the first test.                                                  *)
LEMMA StopInv == ServerInv /\ Stop => ServerInv'
<1> SUFFICES ASSUME ServerInv, Stop PROVE ServerInv'
  OBVIOUS
<1>1. app' = [app EXCEPT !.pc = IF tcp[app.cl].state = "CLOSING" THEN "free" ELSE "close"]
  BY Numbers DEF Stop
<1>2. app' \in Calls /\ app'.i <= MAX_CLIENT + 1 /\ app'.left <= app'.size
  BY <1>1, Locals DEF Calls
<1>3. AppOK' /\ CallsOK'
  BY <1>1, Typed, Numbers, Bounds, Members DEF ServerInv, AppOK, CallsOK,
     HandOK, Calls, Stop
<1>4. HandOK'
  BY <1>1, Typed DEF ServerInv, HandOK, AppOK, CallsOK, OwnerOK, HeldAlive,
     Calls, mem, lwip, Stop
<1> QED
  BY <1>1, <1>2, <1>3, <1>4, Typed, Local DEF ServerInv, TypeOK, AppOK, HandOK,
     CallsOK, Calls, mem, lwip, Stop

(* What a struct holds is an amount.                                        *)
LEMMA Available ==
  ASSUME ServerInv
  PROVE  /\ app.cl # 0 => app.cl \in Conns
         /\ \A c \in Conns : /\ tcp[c].available \in Amounts
                            /\ 0 <= tcp[c].available /\ tcp[c].available <= MaxBytes
<1>1. \A c \in Conns : tcp[c].available \in Amounts
  BY Typed DEF Struct
<1> QED
  BY <1>1, Typed, Sets

(* read() of all there is: no struct changes but in its data.               *)
LEMMA ReadFrame ==
  ASSUME ServerInv, NEW c \in Conns, tcp' = [tcp EXCEPT ![c].available = 0]
  PROVE  tcp' \in [Conns -> Struct] /\ \A d \in Conns :
           /\ tcp'[d].mem = tcp[d].mem /\ tcp'[d].state = tcp[d].state
           /\ tcp'[d].pcb = tcp[d].pcb /\ tcp'[d].is_accept = tcp[d].is_accept
           /\ tcp'[d].available <= received[d]
<1>1. \A d \in Conns : received[d] >= 0 /\ tcp[d].available <= received[d]
  BY Sets DEF ServerInv, TypeOK, StructOK
<1>2. tcp[c] \in Struct
  BY Typed
<1>3. tcp' = [tcp EXCEPT ![c] = [tcp[c] EXCEPT !.available = 0]]
  BY Typed
<1>4. [tcp[c] EXCEPT !.available = 0] \in Struct
  BY <1>2, Members DEF Struct
<1> QED
  BY <1>1, <1>2, <1>3, <1>4, Typed DEF Struct

(* WebServer reads, answers or stops.                                       *)
LEMMA WebInv == ServerInv /\ Web => ServerInv'
<1> SUFFICES ASSUME ServerInv, Web PROVE ServerInv'
  OBVIOUS
<1>1. CASE app.cl = 0
  <2>1. app' = Idle
    BY <1>1, Numbers DEF Web
  <2>2. app' \in Calls /\ app'.i <= MAX_CLIENT + 1 /\ app'.left <= app'.size
    BY <1>1, <2>1, Locals DEF Calls, Idle
  <2>3. AppOK' /\ CallsOK'
    BY <1>1, <2>1, Typed, Numbers, Bounds, Members DEF ServerInv, AppOK, CallsOK,
       HandOK, Calls, Idle, Web
  <2>4. HandOK'
    BY <2>1 DEF HandOK, Idle
  <2> QED
    BY <1>1, <2>1, <2>2, <2>3, <2>4, Typed, Local DEF ServerInv, TypeOK, AppOK,
       HandOK, CallsOK, Calls, mem, lwip, Idle, Web
<1>2. CASE app.cl # 0 /\ ~Connected(app.cl)
  <2>1. app' = [app EXCEPT !.pc = "stop"]
    BY <1>2, Numbers DEF Web
  <2>2. app' \in Calls /\ app'.i <= MAX_CLIENT + 1 /\ app'.left <= app'.size
    BY <1>2, <2>1, Locals DEF Calls
  <2>3. AppOK' /\ CallsOK'
    BY <1>2, <2>1, Typed, Numbers, Bounds, Members DEF ServerInv, AppOK, CallsOK,
       HandOK, Calls, Web
  <2>4. HandOK'
    BY <1>2, <2>1, Typed DEF ServerInv, HandOK, AppOK, CallsOK, OwnerOK,
       HeldAlive, Calls, mem, lwip, Web
  <2> QED
    BY <1>2, <2>1, <2>2, <2>3, <2>4, Typed, Local DEF ServerInv, TypeOK, AppOK,
       HandOK, CallsOK, Calls, mem, lwip, Web
<1>3. CASE app.cl # 0 /\ Connected(app.cl) /\ tcp[app.cl].available > 0
  <2>1. app.cl \in Conns /\ tcp[app.cl].available \in Amounts
        /\ 0 <= tcp[app.cl].available /\ tcp[app.cl].available <= MaxBytes
    BY <1>3, Available
  <2>2. tcp' = [tcp EXCEPT ![app.cl].available = 0] /\ table' = table
    BY <1>3 DEF Web, ReadAll
  <2>3. app' = app
    BY <1>3, Numbers DEF Web, ReadAll
  <2>4. app' \in Calls /\ app'.i <= MAX_CLIENT + 1 /\ app'.left <= app'.size
    BY <2>1, <2>3, Locals DEF Calls
  <2>5. AppOK' /\ CallsOK'
    BY <1>3, <2>1, <2>3, Typed, Numbers, Bounds, Sets
       DEF ServerInv, AppOK, CallsOK, HandOK, Calls, Web
  <2>6. tcp' \in [Conns -> Struct] /\ \A d \in Conns :
          /\ tcp'[d].mem = tcp[d].mem /\ tcp'[d].state = tcp[d].state
          /\ tcp'[d].pcb = tcp[d].pcb /\ tcp'[d].is_accept = tcp[d].is_accept
          /\ tcp'[d].available <= received[d]
    BY <2>1, <2>2, ReadFrame
  <2>7. HandOK'
    BY <1>3, <2>1, <2>2, <2>3, <2>6, Typed DEF ServerInv, HandOK, Calls, Web
  <2>8. TypeOK'
    BY <1>3, <2>2, <2>4, <2>6 DEF ServerInv, TypeOK, lwip, Web, ReadAll
  <2> QED
    BY <1>3, <2>2, <2>3, <2>5, <2>6, <2>7, <2>8, Typed, Quiet
       DEF Calls, lwip, Web, ReadAll
<1>4. CASE app.cl # 0 /\ Connected(app.cl) /\ ~(tcp[app.cl].available > 0)
  <2>1. app' = [app EXCEPT !.fn = "page", !.cl = app.cl, !.size = Reply, !.left = Reply,
                        !.pc = IF Accepted(app.cl) /\ Reply > 0 THEN "round" ELSE "wrote"]
    BY <1>4, Numbers DEF ClientWrite, Web
  <2>2. app' \in Calls /\ app'.i <= MAX_CLIENT + 1 /\ app'.left <= app'.size
    BY <1>4, <2>1, Locals DEF Calls
  <2>3. AppOK' /\ CallsOK'
    BY <1>4, <2>1, Typed, Numbers, Bounds, Members DEF ServerInv, AppOK, CallsOK,
       HandOK, Calls, ClientWrite, Web
  <2>4. HandOK'
    BY <1>4, <2>1, Typed DEF ServerInv, HandOK, AppOK, CallsOK, OwnerOK,
       HeldAlive, Calls, mem, lwip, ClientWrite, Web
  <2> QED
    BY <1>4, <2>1, <2>2, <2>3, <2>4, Typed, Local DEF ServerInv, TypeOK, AppOK,
       HandOK, CallsOK, Calls, mem, lwip, ClientWrite, Web
<1> QED
  BY <1>1, <1>2, <1>3, <1>4, Numbers

(* WebServer has sent its page.                                             *)
LEMMA WebSentInv == ServerInv /\ WebSent => ServerInv'
<1> SUFFICES ASSUME ServerInv, WebSent PROVE ServerInv'
  OBVIOUS
<1>1. app' = [app EXCEPT !.pc = "stop", !.left = 0, !.size = 0]
  BY Numbers DEF WebSent
<1>2. app' \in Calls /\ app'.i <= MAX_CLIENT + 1 /\ app'.left <= app'.size
  BY <1>1, Locals DEF Calls
<1>3. AppOK' /\ CallsOK'
  BY <1>1, Typed, Numbers, Bounds, Members DEF ServerInv, AppOK, CallsOK,
     HandOK, Calls, WebSent
<1>4. HandOK'
  BY <1>1, Typed DEF ServerInv, HandOK, AppOK, CallsOK, OwnerOK, HeldAlive,
     Calls, mem, lwip, WebSent
<1> QED
  BY <1>1, <1>2, <1>3, <1>4, Typed, Local DEF ServerInv, TypeOK, AppOK, HandOK,
     CallsOK, Calls, mem, lwip, WebSent

(* ChatServer and DhcpChatServer greet, or pass on what they read.          *)
LEMMA ChatLoopInv ==
  ASSUME ServerInv, sketch \in {"chat", "dhcpchat"}, ChatLoop
  PROVE  ServerInv'
<1>1. CASE app.cl = 0
  <2>1. app' = Idle
    BY <1>1, Numbers DEF ChatLoop
  <2>2. app' \in Calls /\ app'.i <= MAX_CLIENT + 1 /\ app'.left <= app'.size
    BY <1>1, <2>1, Locals DEF Calls, Idle
  <2>3. AppOK' /\ CallsOK'
    BY <1>1, <2>1, Typed, Numbers, Bounds, Members DEF ServerInv, AppOK, CallsOK,
       HandOK, Calls, Idle, ChatLoop
  <2>4. HandOK'
    BY <2>1 DEF HandOK, Idle
  <2> QED
    BY <1>1, <2>1, <2>2, <2>3, <2>4, Typed, Local DEF ServerInv, TypeOK, AppOK,
       HandOK, CallsOK, Calls, mem, lwip, Idle, ChatLoop
<1>2. CASE app.cl # 0 /\ ~greeted
  <2>1. app' = [app EXCEPT !.fn = "hello", !.cl = app.cl, !.size = Reply, !.left = Reply,
                        !.pc = IF Accepted(app.cl) /\ Reply > 0 THEN "round" ELSE "wrote"]
    BY <1>2, Numbers DEF ClientWrite, ChatLoop
  <2>2. app' \in Calls /\ app'.i <= MAX_CLIENT + 1 /\ app'.left <= app'.size
    BY <1>2, <2>1, Locals DEF Calls
  <2>3. AppOK' /\ CallsOK'
    BY <1>2, <2>1, Typed, Numbers, Bounds, Members DEF ServerInv, AppOK, CallsOK,
       HandOK, Calls, ClientWrite, ChatLoop
  <2>4. HandOK'
    BY <1>2, <2>1, Typed DEF ServerInv, HandOK, AppOK, CallsOK, OwnerOK,
       HeldAlive, Calls, mem, lwip, ClientWrite, ChatLoop
  <2> QED
    BY <1>2, <2>1, <2>2, <2>3, <2>4, Typed, Local DEF ServerInv, TypeOK, AppOK,
       HandOK, CallsOK, Calls, mem, lwip, ClientWrite, ChatLoop
<1>3. CASE app.cl # 0 /\ greeted /\ tcp[app.cl].available > 0
  <2>1. app.cl \in Conns /\ tcp[app.cl].available \in Amounts
        /\ 0 <= tcp[app.cl].available /\ tcp[app.cl].available <= MaxBytes
    BY <1>3, Available
  <2>2. tcp' = [tcp EXCEPT ![app.cl].available = 0] /\ table' = table
    BY <1>3 DEF ChatLoop, ChatHeard, ReadAll
  <2>3. app' = [app EXCEPT !.pc = "check", !.fn = "write", !.n = 1, !.cl = 0,
                          !.size = tcp[app.cl].available, !.left = 0]
    BY <1>3, Numbers DEF ChatLoop, ChatHeard, ReadAll
  <2>4. app' \in Calls /\ app'.i <= MAX_CLIENT + 1 /\ app'.left <= app'.size
    BY <2>1, <2>3, Locals DEF Calls
  <2>5. AppOK' /\ CallsOK'
    BY <1>3, <2>1, <2>3, Typed, Numbers, Bounds, Sets
       DEF ServerInv, AppOK, CallsOK, HandOK, Calls, ChatLoop
  <2>6. tcp' \in [Conns -> Struct] /\ \A d \in Conns :
          /\ tcp'[d].mem = tcp[d].mem /\ tcp'[d].state = tcp[d].state
          /\ tcp'[d].pcb = tcp[d].pcb /\ tcp'[d].is_accept = tcp[d].is_accept
          /\ tcp'[d].available <= received[d]
    BY <2>1, <2>2, ReadFrame
  <2>7. HandOK'
    BY <1>3, <2>1, <2>2, <2>3, <2>6, Typed DEF ServerInv, HandOK, Calls, ChatLoop
  <2>8. TypeOK'
    BY <1>3, <2>2, <2>4, <2>6 DEF ServerInv, TypeOK, lwip, ChatLoop, ChatHeard, ReadAll
  <2> QED
    BY <1>3, <2>2, <2>3, <2>5, <2>6, <2>7, <2>8, Typed, Quiet
       DEF Calls, lwip, ChatLoop, ChatHeard, ReadAll
<1>4. CASE app.cl # 0 /\ greeted /\ ~(tcp[app.cl].available > 0)
  <2>1. app' = Idle
    BY <1>4, Numbers DEF ChatHeard, ChatLoop
  <2>2. app' \in Calls /\ app'.i <= MAX_CLIENT + 1 /\ app'.left <= app'.size
    BY <1>4, <2>1, Locals DEF Calls, Idle
  <2>3. AppOK' /\ CallsOK'
    BY <1>4, <2>1, Typed, Numbers, Bounds, Members DEF ServerInv, AppOK, CallsOK,
       HandOK, Calls, Idle, ChatHeard, ChatLoop
  <2>4. HandOK'
    BY <2>1 DEF HandOK, Idle
  <2> QED
    BY <1>4, <2>1, <2>2, <2>3, <2>4, Typed, Local DEF ServerInv, TypeOK, AppOK,
       HandOK, CallsOK, Calls, mem, lwip, Idle, ChatHeard, ChatLoop
<1> QED
  BY <1>1, <1>2, <1>3, <1>4, Numbers

(* The greeting is sent.                                                    *)
LEMMA ChatGreetedInv == ServerInv /\ ChatGreeted => ServerInv'
<1> SUFFICES ASSUME ServerInv, ChatGreeted PROVE ServerInv'
  OBVIOUS
<1>1. app' = [app EXCEPT !.pc = "use", !.fn = "none", !.left = 0, !.size = 0]
  BY Numbers DEF ChatGreeted
<1>2. app' \in Calls /\ app'.i <= MAX_CLIENT + 1 /\ app'.left <= app'.size
  BY <1>1, Locals DEF Calls
<1>3. AppOK' /\ CallsOK'
  BY <1>1, Typed, Numbers, Bounds, Members DEF ServerInv, AppOK, CallsOK,
     HandOK, Calls, ChatGreeted
<1>4. HandOK'
  BY <1>1, Typed DEF ServerInv, HandOK, AppOK, CallsOK, OwnerOK, HeldAlive,
     Calls, mem, lwip, ChatGreeted
<1> QED
  BY <1>1, <1>2, <1>3, <1>4, Typed, Local DEF ServerInv, TypeOK, AppOK, HandOK,
     CallsOK, Calls, mem, lwip, ChatGreeted

(* AdvancedChatServer greets a newcomer, or lets it go (strays).            *)
LEMMA NewcomerInv == ServerInv /\ Newcomer => ServerInv'
<1> SUFFICES ASSUME ServerInv, Newcomer PROVE ServerInv'
  OBVIOUS
<1>1. CASE app.cl # 0 /\ Places # {}
  <2>1. app' = [app EXCEPT !.fn = "hello", !.cl = app.cl, !.size = Reply, !.left = Reply,
                        !.pc = IF Accepted(app.cl) /\ Reply > 0 THEN "round" ELSE "wrote"]
    BY <1>1, Numbers DEF ClientWrite, Places, Newcomer
  <2>2. app' \in Calls /\ app'.i <= MAX_CLIENT + 1 /\ app'.left <= app'.size
    BY <1>1, <2>1, Locals DEF Calls
  <2>3. AppOK' /\ CallsOK'
    BY <1>1, <2>1, Typed, Numbers, Bounds, Members DEF ServerInv, AppOK, CallsOK,
       HandOK, Calls, ClientWrite, Places, Newcomer
  <2>4. HandOK'
    BY <1>1, <2>1, Typed DEF ServerInv, HandOK, AppOK, CallsOK, OwnerOK,
       HeldAlive, Calls, mem, lwip, ClientWrite, Places, Newcomer
  <2> QED
    BY <1>1, <2>1, <2>2, <2>3, <2>4, Typed, Local DEF ServerInv, TypeOK, AppOK,
       HandOK, CallsOK, Calls, mem, lwip, ClientWrite, Places, Newcomer
<1>2. CASE ~(app.cl # 0 /\ Places # {})
  <2>1. app' = [app EXCEPT !.fn = "relay", !.i = 1, !.cl = 0]
    BY <1>2 DEF Newcomer
  <2>2. app' \in Calls /\ app'.i <= MAX_CLIENT + 1 /\ app'.left <= app'.size
    BY <2>1, Locals DEF Calls
  <2>3. AppOK' /\ CallsOK' /\ HandOK'
    BY <2>1, Typed, Numbers, Sets, Bounds
       DEF ServerInv, AppOK, CallsOK, HandOK, Calls, Newcomer
  <2>4. strays' = strays \cup ({app.cl} \ {0}) /\ strays' \subseteq Conns
    BY <1>2, Typed DEF Newcomer
  <2>5. TypeOK'
    BY <2>2, <2>4 DEF ServerInv, TypeOK, Newcomer, mem, lwip
  <2>6. \A d \in Conns : tcp[d].available <= received[d]
    BY DEF ServerInv, StructOK
  <2> QED
    BY <2>3, <2>4, <2>5, <2>6, Quiet DEF Newcomer, mem, lwip
<1> QED
  BY <1>1, <1>2, Numbers

(* AdvancedChatServer reads what client i says.                             *)
LEMMA RelayInv == ServerInv /\ Relay => ServerInv'
<1> SUFFICES ASSUME ServerInv, Relay PROVE ServerInv'
  OBVIOUS
<1>1. CASE app.i > MAX_CLIENT
  <2>1. app' = [app EXCEPT !.fn = "reap", !.i = 1]
    BY <1>1, Numbers DEF Relay
  <2>2. app' \in Calls /\ app'.i <= MAX_CLIENT + 1 /\ app'.left <= app'.size
    BY <1>1, <2>1, Locals DEF Calls
  <2>3. AppOK' /\ CallsOK'
    BY <1>1, <2>1, Typed, Numbers, Bounds, Members DEF ServerInv, AppOK, CallsOK,
       HandOK, Calls, Relay
  <2>4. HandOK'
    BY <1>1, <2>1, Typed DEF ServerInv, HandOK, AppOK, CallsOK, OwnerOK,
       HeldAlive, Calls, mem, lwip, Relay
  <2> QED
    BY <1>1, <2>1, <2>2, <2>3, <2>4, Typed, Local DEF ServerInv, TypeOK, AppOK,
       HandOK, CallsOK, Calls, mem, lwip, Relay
<1>2. CASE app.i <= MAX_CLIENT /\ clients[app.i] # 0 /\ tcp[clients[app.i]].available > 0
  <2>1. clients[app.i] \in Conns /\ tcp[clients[app.i]].available \in Amounts
        /\ 0 <= tcp[clients[app.i]].available /\ tcp[clients[app.i]].available <= MaxBytes
    BY <1>2, Available, Typed, Numbers, Sets
  <2>2. tcp' = [tcp EXCEPT ![clients[app.i]].available = 0] /\ table' = table
    BY <1>2, Numbers DEF Relay, ReadAll
  <2>3. app' = [app EXCEPT !.n = 1, !.size = tcp[clients[app.i]].available]
    BY <1>2, Numbers DEF Relay, ReadAll
  <2>0. app.left = 0
    BY Numbers DEF Relay
  <2>4. app' \in Calls /\ app'.i <= MAX_CLIENT + 1 /\ app'.left <= app'.size
    BY <2>1, <2>3, <2>0, Locals DEF Calls
  <2>5. AppOK' /\ CallsOK'
    BY <1>2, <2>1, <2>3, Typed, Numbers, Bounds, Sets
       DEF ServerInv, AppOK, CallsOK, HandOK, Calls, Relay
  <2>6. tcp' \in [Conns -> Struct] /\ \A d \in Conns :
          /\ tcp'[d].mem = tcp[d].mem /\ tcp'[d].state = tcp[d].state
          /\ tcp'[d].pcb = tcp[d].pcb /\ tcp'[d].is_accept = tcp[d].is_accept
          /\ tcp'[d].available <= received[d]
    BY <2>1, <2>2, ReadFrame
  <2>7. HandOK'
    BY <1>2, <2>1, <2>2, <2>3, <2>6, Typed DEF ServerInv, HandOK, Calls, Relay
  <2>8. TypeOK'
    BY <1>2, <2>2, <2>4, <2>6 DEF ServerInv, TypeOK, lwip, Relay, ReadAll
  <2> QED
    BY <1>2, <2>2, <2>3, <2>5, <2>6, <2>7, <2>8, Typed, Quiet
       DEF Calls, lwip, Relay, ReadAll
<1>3. CASE app.i <= MAX_CLIENT /\ ~(clients[app.i] # 0 /\ tcp[clients[app.i]].available > 0)
  <2>1. app' = [app EXCEPT !.i = @ + 1]
    BY <1>3, Numbers DEF Relay
  <2>2. app' \in Calls /\ app'.i <= MAX_CLIENT + 1 /\ app'.left <= app'.size
    BY <1>3, <2>1, Locals, NextIndex DEF Calls
  <2>3. AppOK' /\ CallsOK'
    BY <1>3, <2>1, Typed, Numbers, Bounds, Members DEF ServerInv, AppOK, CallsOK,
       HandOK, Calls, Relay
  <2>4. HandOK'
    BY <1>3, <2>1, Typed DEF ServerInv, HandOK, AppOK, CallsOK, OwnerOK,
       HeldAlive, Calls, mem, lwip, Relay
  <2> QED
    BY <1>3, <2>1, <2>2, <2>3, <2>4, Typed, Local DEF ServerInv, TypeOK, AppOK,
       HandOK, CallsOK, Calls, mem, lwip, Relay
<1> QED
  BY <1>1, <1>2, <1>3, Numbers

(* ... and sends it to client n.                                            *)
LEMMA RelayToInv == ServerInv /\ RelayTo => ServerInv'
<1> SUFFICES ASSUME ServerInv, RelayTo PROVE ServerInv'
  OBVIOUS
<1>1. CASE app.n > MAX_CLIENT
  <2>1. app.i <= MAX_CLIENT
    BY <1>1, Numbers DEF ServerInv, AppOK, RelayTo
  <2>2. app' = [app EXCEPT !.size = 0, !.left = 0, !.n = 1, !.i = @ + 1, !.cl = 0]
    BY <1>1, <2>1, Numbers DEF RelayTo
  <2>3. app' \in Calls /\ app'.i <= MAX_CLIENT + 1 /\ app'.left <= app'.size
    BY <1>1, <2>2, <2>1, Locals, NextIndex DEF Calls
  <2>4. AppOK' /\ CallsOK'
    BY <1>1, <2>2, <2>1, Typed, Numbers, Bounds, Members DEF ServerInv, AppOK,
       CallsOK, HandOK, Calls, RelayTo
  <2>5. HandOK'
    BY <1>1, <2>2, <2>1, Typed DEF ServerInv, HandOK, AppOK, CallsOK, OwnerOK,
       HeldAlive, Calls, mem, lwip, RelayTo
  <2> QED
    BY <1>1, <2>2, <2>3, <2>4, <2>5, <2>1, Typed, Local DEF ServerInv, TypeOK,
       AppOK, HandOK, CallsOK, Calls, mem, lwip, RelayTo
<1>2. CASE app.n <= MAX_CLIENT /\ app.n # app.i /\ Connected(clients[app.n])
  <2>1. app.n \in Slots /\ clients[app.n] \in Conns
    BY <1>2, Typed, Numbers, Sets DEF Connected
  <2>2. app' = [app EXCEPT !.fn = "relay", !.cl = clients[app.n], !.size = app.size,
                        !.left = app.size,
                        !.pc = IF Accepted(clients[app.n]) /\ app.size > 0 THEN "round" ELSE "wrote"]
    BY <1>2, <2>1, Numbers DEF ClientWrite, RelayTo
  <2>3. app' \in Calls /\ app'.i <= MAX_CLIENT + 1 /\ app'.left <= app'.size
    BY <1>2, <2>2, <2>1, Locals DEF Calls
  <2>4. AppOK' /\ CallsOK'
    BY <1>2, <2>2, <2>1, Typed, Numbers, Bounds, Members DEF ServerInv, AppOK,
       CallsOK, HandOK, Calls, ClientWrite, RelayTo
  <2>5. HandOK'
    BY <1>2, <2>2, <2>1, Typed DEF ServerInv, HandOK, AppOK, CallsOK, OwnerOK,
       HeldAlive, Calls, mem, lwip, ClientWrite, RelayTo
  <2> QED
    BY <1>2, <2>2, <2>3, <2>4, <2>5, <2>1, Typed, Local DEF ServerInv, TypeOK,
       AppOK, HandOK, CallsOK, Calls, mem, lwip, ClientWrite, RelayTo
<1>3. CASE app.n <= MAX_CLIENT /\ ~(app.n # app.i /\ Connected(clients[app.n]))
  <2>1. app' = [app EXCEPT !.n = @ + 1]
    BY <1>3, Numbers DEF RelayTo
  <2>2. app' \in Calls /\ app'.i <= MAX_CLIENT + 1 /\ app'.left <= app'.size
    BY <1>3, <2>1, Locals, NextIndex DEF Calls
  <2>3. AppOK' /\ CallsOK'
    BY <1>3, <2>1, Typed, Numbers, Bounds, Members DEF ServerInv, AppOK, CallsOK,
       HandOK, Calls, RelayTo
  <2>4. HandOK'
    BY <1>3, <2>1, Typed DEF ServerInv, HandOK, AppOK, CallsOK, OwnerOK,
       HeldAlive, Calls, mem, lwip, RelayTo
  <2> QED
    BY <1>3, <2>1, <2>2, <2>3, <2>4, Typed, Local DEF ServerInv, TypeOK, AppOK,
       HandOK, CallsOK, Calls, mem, lwip, RelayTo
<1> QED
  BY <1>1, <1>2, <1>3, Numbers

(* ... and goes on to the next client.                                      *)
LEMMA RelayedInv == ServerInv /\ Relayed => ServerInv'
<1> SUFFICES ASSUME ServerInv, Relayed PROVE ServerInv'
  OBVIOUS
<1>1. app.n <= MAX_CLIENT
  BY Numbers DEF ServerInv, AppOK, Relayed
<1>2. app' = [app EXCEPT !.pc = "use", !.left = 0, !.cl = 0, !.n = @ + 1]
  BY <1>1, Numbers DEF Relayed
<1>3. app' \in Calls /\ app'.i <= MAX_CLIENT + 1 /\ app'.left <= app'.size
  BY <1>2, <1>1, Locals, NextIndex DEF Calls
<1>4. AppOK' /\ CallsOK'
  BY <1>2, <1>1, Typed, Numbers, Bounds, Members DEF ServerInv, AppOK, CallsOK,
     HandOK, Calls, Relayed
<1>5. HandOK'
  BY <1>2, <1>1, Typed DEF ServerInv, HandOK, AppOK, CallsOK, OwnerOK,
     HeldAlive, Calls, mem, lwip, Relayed
<1> QED
  BY <1>2, <1>3, <1>4, <1>5, <1>1, Typed, Local DEF ServerInv, TypeOK, AppOK,
     HandOK, CallsOK, Calls, mem, lwip, Relayed

(* AdvancedChatServer stops a client that is not connected.                 *)
LEMMA ReapInv == ServerInv /\ Reap => ServerInv'
<1> SUFFICES ASSUME ServerInv, Reap PROVE ServerInv'
  OBVIOUS
<1>1. CASE app.i > MAX_CLIENT
  <2>1. app' = Idle
    BY <1>1, Numbers DEF Reap
  <2>2. app' \in Calls /\ app'.i <= MAX_CLIENT + 1 /\ app'.left <= app'.size
    BY <1>1, <2>1, Locals DEF Calls, Idle
  <2>3. AppOK' /\ CallsOK'
    BY <1>1, <2>1, Typed, Numbers, Bounds, Members DEF ServerInv, AppOK, CallsOK,
       HandOK, Calls, Idle, Reap
  <2>4. HandOK'
    BY <2>1 DEF HandOK, Idle
  <2> QED
    BY <1>1, <2>1, <2>2, <2>3, <2>4, Typed, Local DEF ServerInv, TypeOK, AppOK,
       HandOK, CallsOK, Calls, mem, lwip, Idle, Reap
<1>2. CASE app.i <= MAX_CLIENT /\ clients[app.i] # 0 /\ ~Connected(clients[app.i])
  <2>1. app.i \in Slots /\ clients[app.i] \in Conns
    BY <1>2, Typed, Numbers, Sets
  <2>2. app' = [app EXCEPT !.pc = "stop", !.cl = clients[app.i]]
    BY <1>2, <2>1, Numbers DEF Reap
  <2>3. app' \in Calls /\ app'.i <= MAX_CLIENT + 1 /\ app'.left <= app'.size
    BY <1>2, <2>2, <2>1, Locals DEF Calls
  <2>4. AppOK' /\ CallsOK'
    BY <1>2, <2>2, <2>1, Typed, Numbers, Bounds, Members DEF ServerInv, AppOK,
       CallsOK, HandOK, Calls, Reap
  <2>5. HandOK'
    BY <1>2, <2>2, <2>1, Typed DEF ServerInv, HandOK, AppOK, CallsOK, OwnerOK,
       HeldAlive, Calls, mem, lwip, Reap
  <2> QED
    BY <1>2, <2>2, <2>3, <2>4, <2>5, <2>1, Typed, Local DEF ServerInv, TypeOK,
       AppOK, HandOK, CallsOK, Calls, mem, lwip, Reap
<1>3. CASE app.i <= MAX_CLIENT /\ ~(clients[app.i] # 0 /\ ~Connected(clients[app.i]))
  <2>1. app' = [app EXCEPT !.i = @ + 1]
    BY <1>3, Numbers DEF Reap
  <2>2. app' \in Calls /\ app'.i <= MAX_CLIENT + 1 /\ app'.left <= app'.size
    BY <1>3, <2>1, Locals, NextIndex DEF Calls
  <2>3. AppOK' /\ CallsOK'
    BY <1>3, <2>1, Typed, Numbers, Bounds, Members DEF ServerInv, AppOK, CallsOK,
       HandOK, Calls, Reap
  <2>4. HandOK'
    BY <1>3, <2>1, Typed DEF ServerInv, HandOK, AppOK, CallsOK, OwnerOK,
       HeldAlive, Calls, mem, lwip, Reap
  <2> QED
    BY <1>3, <2>1, <2>2, <2>3, <2>4, Typed, Local DEF ServerInv, TypeOK, AppOK,
       HandOK, CallsOK, Calls, mem, lwip, Reap
<1> QED
  BY <1>1, <1>2, <1>3, Numbers

(* Connections whose struct keeps its owners and is not freed.              *)
LEMMA ClosingInv ==
  ASSUME ServerInv, NEW d \in Conns, ConnectionClose(d),
         UNCHANGED <<sketch, listening, table, received, room, clients, greeted, strays>>,
         app' = app \/ (app.cl = d /\ app.pc = "close" /\ app' = [app EXCEPT !.pc = "free"])
  PROVE  ServerInv'
<1>1. tcp' = [tcp EXCEPT ![d] = [tcp[d] EXCEPT !.pcb = FALSE, !.state = "CLOSING"]]
  BY Typed DEF ConnectionClose
<1>2. [tcp[d] EXCEPT !.pcb = FALSE, !.state = "CLOSING"] \in Struct
  BY Typed DEF Struct
<1>3. /\ tcp' \in [Conns -> Struct]
      /\ tcp'[d].state = "CLOSING"
      /\ \A c \in Conns : /\ tcp'[c].mem = tcp[c].mem /\ tcp'[c].is_accept = tcp[c].is_accept
                          /\ tcp'[c].available = tcp[c].available
                          /\ c # d => tcp'[c] = tcp[c]
  <2>1. tcp' \in [Conns -> Struct] /\ \A c \in Conns \ {d} : tcp'[c] = tcp[c]
    BY <1>1, <1>2, Typed
  <2>2. tcp'[d] = [tcp[d] EXCEPT !.pcb = FALSE, !.state = "CLOSING"] /\ tcp[d] \in Struct
    BY <1>1, Typed
  <2> QED
    BY <2>1, <2>2 DEF Struct
<1>4. TypeOK'
  <2>1. app' \in Calls /\ app'.i <= MAX_CLIENT + 1 /\ app'.left <= app'.size
    BY Locals DEF Calls
  <2>2. pcbs' \in [Conns -> {"none", "open", "over"}]
    BY DEF ServerInv, TypeOK, ConnectionClose
  <2> QED
    BY <1>3, <2>1, <2>2 DEF ServerInv, TypeOK
<1>5. AppOK' /\ CallsOK'
  BY Typed, Numbers DEF ServerInv, AppOK, CallsOK, Calls
<1>6. StructOK'
  <2>1. pcbs'[d] = "over" /\ \A c \in Conns \ {d} : pcbs'[c] = pcbs[c]
    BY DEF ServerInv, TypeOK, ConnectionClose
  <2> QED
    BY <1>3, <2>1 DEF ServerInv, StructOK, CallbacksAlive
<1>7. OwnerOK' /\ HeldAlive'
  BY <1>3, Typed DEF ServerInv, OwnerOK, HeldAlive
<1>8. HandOK'
  BY <1>3, Typed DEF ServerInv, HandOK, AppOK, Calls
<1>9. AliveHeld'
  BY <1>3, Typed DEF ServerInv, AliveHeld, Calls
<1> QED
  BY <1>4, <1>5, <1>6, <1>7, <1>8, <1>9 DEF ServerInv

(* stop(): tcp_connection_close in the user's thread.                       *)
LEMMA StopCloseInv == ServerInv /\ StopClose => ServerInv'
<1> SUFFICES ASSUME ServerInv, StopClose PROVE ServerInv'
  OBVIOUS
<1>1. app.cl \in Conns
  BY Typed DEF StopClose, Accepted
<1> QED
  BY <1>1, ClosingInv DEF StopClose

(* The callbacks: the end of the stream ...                                 *)
LEMMA FinishedInv ==
  ASSUME ServerInv, NEW d \in Conns, Finished(d)
  PROVE  ServerInv'
  BY ClosingInv DEF Finished

(* ... an error ...                                                         *)
LEMMA ErrCallbackInv ==
  ASSUME ServerInv, NEW d \in Conns, ErrCallback(d)
  PROVE  ServerInv'
  BY ClosingInv DEF ErrCallback, ConnectionClose

(* ... data, of which there is never more than was received ...             *)
LEMMA RecvCallbackInv ==
  ASSUME ServerInv, NEW d \in Conns, RecvCallback(d)
  PROVE  ServerInv'
<1>1. /\ received[d] \in Amounts /\ received[d] + 1 \in Amounts
      /\ tcp[d].available + 1 <= received[d] + 1 /\ tcp[d].available + 1 \in Amounts
  <2>1. received[d] \in Amounts /\ tcp[d].available <= received[d] /\ received[d] < MaxBytes
    BY DEF ServerInv, TypeOK, StructOK, RecvCallback
  <2>2. received[d] \in Int /\ tcp[d].available \in Int /\ tcp[d].available >= 0
        /\ received[d] >= 0
    BY <2>1, Available, Sets
  <2> QED
    BY <2>1, <2>2, Sets, Bounds
<1>2. tcp' = [tcp EXCEPT ![d] = [tcp[d] EXCEPT !.available = @ + 1]]
  BY Typed DEF RecvCallback
<1>3. tcp[d] \in Struct /\ [tcp[d] EXCEPT !.available = @ + 1] \in Struct
  BY <1>1, Typed DEF Struct
<1>4. received' = [received EXCEPT ![d] = @ + 1] /\ received \in [Conns -> Amounts]
  BY DEF RecvCallback, ServerInv, TypeOK
<1>5. tcp' \in [Conns -> Struct] /\ received' \in [Conns -> Amounts]
  BY <1>1, <1>2, <1>3, <1>4, Typed
<1>6. /\ tcp'[d] = [tcp[d] EXCEPT !.available = @ + 1] /\ received'[d] = received[d] + 1
      /\ \A c \in Conns \ {d} : tcp'[c] = tcp[c] /\ received'[c] = received[c]
  BY <1>2, <1>4, Typed
<1>7. \A c \in Conns :
        /\ tcp'[c].mem = tcp[c].mem /\ tcp'[c].state = tcp[c].state
        /\ tcp'[c].pcb = tcp[c].pcb /\ tcp'[c].is_accept = tcp[c].is_accept
        /\ tcp'[c].available <= received'[c]
  BY <1>1, <1>3, <1>6 DEF ServerInv, StructOK, Struct
<1>8. TypeOK'
  BY <1>5 DEF ServerInv, TypeOK, RecvCallback
<1>9. AppOK' /\ CallsOK'
  BY DEF ServerInv, AppOK, CallsOK, RecvCallback
<1>10. HandOK'
  BY <1>7, Typed DEF ServerInv, HandOK, AppOK, RecvCallback
<1> QED
  BY <1>7, <1>8, <1>9, <1>10, Quiet DEF RecvCallback

(* ... and an acknowledgement.                                              *)
LEMMA SentCallbackInv ==
  ASSUME ServerInv, NEW d \in Conns, SentCallback(d)
  PROVE  ServerInv'
<1>1. room' \in [Conns -> 0 .. SndBuf]
  BY Bounds DEF ServerInv, TypeOK, SentCallback
<1>2. AppOK' /\ CallsOK' /\ HandOK'
  BY DEF ServerInv, AppOK, CallsOK, HandOK, SentCallback, mem
<1> QED
  BY <1>1, <1>2, Typed, Local DEF ServerInv, TypeOK, SentCallback

(* The table: checkClient() frees a struct there, and no other place has it *)
(* then.                                                                    *)
LEMMA CheckClientInv == ServerInv /\ CheckClient => ServerInv'
<1> SUFFICES ASSUME ServerInv, CheckClient PROVE ServerInv'
  OBVIOUS
<1>1. app.n \in Slots /\ app.cl = 0 /\ app.i = 1 /\ app.fn \in {"accept", "available", "write"}
  BY Numbers, Sets DEF ServerInv, AppOK, CheckClient
<1>2. app' \in Calls /\ app'.i <= MAX_CLIENT + 1 /\ app'.left <= app'.size
  <2>1. CASE app.n < MAX_CLIENT
    BY <1>1, <2>1, Locals, NextIndex, Numbers DEF Calls, CheckClient
  <2>2. CASE ~(app.n < MAX_CLIENT)
    BY <1>1, <2>2, Locals DEF Calls, CheckClient
  <2> QED
    BY <2>1, <2>2
<1>3. /\ app'.cl = 0 /\ app'.i = 1 /\ app'.fn = app.fn /\ app'.size = app.size
      /\ app'.pc \in {"check", "scan", "write"} /\ app'.n <= MAX_CLIENT
      /\ app'.pc = "scan" => app.fn # "write"
  BY <1>1, Numbers, Bounds, Typed DEF CheckClient, Calls
<1>4. AppOK' /\ CallsOK'
  BY <1>1, <1>3 DEF ServerInv, AppOK, CallsOK, CheckClient
<1>5. HandOK'
  BY <1>3 DEF HandOK
<1>6. CASE UNCHANGED mem
  <2>1. TypeOK'
    BY <1>2, <1>6 DEF ServerInv, TypeOK, CheckClient, mem, lwip
  <2>2. \A c \in Conns : tcp[c].available <= received[c]
    BY DEF ServerInv, StructOK
  <2> QED
    BY <1>1, <1>3, <1>4, <1>5, <1>6, <2>1, <2>2, Quiet DEF CheckClient, mem, lwip
<1>7. ASSUME NEW c \in Conns, c = table[app.n], tcp[c].state = "CLOSING",
             tcp' = [tcp EXCEPT ![c].mem = "freed"], table' = [table EXCEPT ![app.n] = 0]
      PROVE  ServerInv'
  <2>1. tcp' = [tcp EXCEPT ![c] = [tcp[c] EXCEPT !.mem = "freed"]]
    BY <1>7, Typed
  <2>2. tcp[c] \in Struct /\ [tcp[c] EXCEPT !.mem = "freed"] \in Struct
    BY Typed DEF Struct
  <2>3. tcp' \in [Conns -> Struct] /\ table' \in [Slots -> Conns \cup {0}]
    BY <1>1, <1>7, <2>1, <2>2, Typed
  <2>4. /\ \A d \in Conns \ {c} : tcp'[d] = tcp[d]
        /\ table'[app.n] = 0 /\ \A k \in Slots \ {app.n} : table'[k] = table[k]
    BY <1>1, <1>7, <2>1, Typed
  <2>5. /\ tcp'[c].mem = "freed" /\ tcp'[c].is_accept = tcp[c].is_accept
        /\ tcp'[c].available = tcp[c].available
        /\ tcp'[c].pcb = tcp[c].pcb /\ tcp'[c].state = tcp[c].state
    BY <2>1, <2>2, Typed DEF Struct
  <2>6. \A k \in Slots : clients[k] # c /\ (k # app.n => table[k] # c)
    BY <1>1, <1>7, Members DEF ServerInv, OwnerOK
  <2>7. TypeOK'
    BY <1>2, <2>3 DEF ServerInv, TypeOK, CheckClient, lwip
  <2>8. pcbs[c] # "open" /\ pcbs[c] # "none" /\ UNCHANGED <<sketch, pcbs, received, clients, strays>>
    BY <1>1, <1>7, Members DEF ServerInv, StructOK, CallbacksAlive, HeldAlive, CheckClient, lwip
  <2>9. StructOK'
    BY <2>4, <2>5, <2>8 DEF ServerInv, StructOK, CallbacksAlive
  <2>10. OwnerOK' /\ HeldAlive'
    <3>1. \A k \in Slots : /\ clients[k] # 0 => tcp'[clients[k]] = tcp[clients[k]]
                           /\ table'[k] # 0 => k # app.n /\ table'[k] = table[k]
                                               /\ tcp'[table[k]] = tcp[table[k]]
      BY <2>4, <2>6, Typed
    <3>2. \A b \in Conns : tcp'[b].is_accept = tcp[b].is_accept
      BY <2>4, <2>5
    <3> QED
      BY <2>8, <3>1, <3>2 DEF ServerInv, OwnerOK, HeldAlive
  <2>11. AliveHeld'
    BY <1>1, <1>3, <1>7, <2>4, <2>5, <2>8, Members DEF ServerInv, AliveHeld
  <2> QED
    BY <1>4, <1>5, <2>7, <2>9, <2>10, <2>11 DEF ServerInv
<1> QED
  BY <1>1, <1>6, <1>7, Typed DEF CheckClient, CheckClientFrees

(* accept() and available(): what is found is handed over, or only looked   *)
(* at.                                                                      *)
LEMMA ScanInv == ServerInv /\ Scan => ServerInv'
<1> SUFFICES ASSUME ServerInv, Scan PROVE ServerInv'
  OBVIOUS
<1>1. app.n \in Slots /\ app.cl = 0 /\ app.i = 1 /\ app.fn \in {"accept", "available"}
  BY Numbers, Sets DEF ServerInv, AppOK, Scan
<1> DEFINE c == table[app.n]
           found == Accepted(c) /\ (app.fn = "available" => tcp[c].available > 0)
<1>2. CASE ~found /\ app.n < MAX_CLIENT
  <2>1. app' = [app EXCEPT !.n = @ + 1] /\ UNCHANGED mem
    BY <1>2 DEF Scan
  <2>2. app' \in Calls /\ app'.i <= MAX_CLIENT + 1 /\ app'.left <= app'.size
    BY <1>2, <2>1, Locals, NextIndex, Numbers DEF Calls
  <2>3. AppOK' /\ CallsOK' /\ HandOK'
    BY <1>1, <1>2, <2>1, Typed, Numbers DEF ServerInv, AppOK, CallsOK, HandOK, Calls, Scan
  <2> QED
    BY <1>1, <2>1, <2>2, <2>3, Local DEF Scan, lwip, ServerInv, TypeOK
<1>3. CASE ~found /\ ~(app.n < MAX_CLIENT)
  <2>1. app' = [app EXCEPT !.pc = "use", !.cl = 0, !.n = 1] /\ UNCHANGED mem
    BY <1>3 DEF Scan
  <2>2. app' \in Calls /\ app'.i <= MAX_CLIENT + 1 /\ app'.left <= app'.size
    BY <2>1, Locals DEF Calls
  <2>3. AppOK' /\ CallsOK' /\ HandOK'
    BY <1>1, <2>1, Typed, Numbers DEF ServerInv, AppOK, CallsOK, HandOK, Calls, Scan
  <2> QED
    BY <1>1, <2>1, <2>2, <2>3, Local DEF Scan, lwip, ServerInv, TypeOK
<1>4. CASE found
  <2>1. c \in Conns /\ app' = [app EXCEPT !.pc = "use", !.cl = c, !.n = 1]
    BY <1>1, <1>4, Typed DEF Scan, Accepted
  <2>c. c = table[app.n]
    OBVIOUS
  <2> HIDE DEF c, found
  <2>2. app' \in Calls /\ app'.i <= MAX_CLIENT + 1 /\ app'.left <= app'.size
    BY <2>1, Locals DEF Calls
  <2>3. AppOK' /\ CallsOK'
    BY <1>1, <2>1, Typed, Numbers DEF ServerInv, AppOK, CallsOK, Calls, Scan
  <2>4. /\ app'.cl = c /\ app'.pc = "use" /\ app'.i = 1 /\ app'.fn = app.fn
        /\ UNCHANGED <<sketch, pcbs, received, clients, strays>>
    BY <1>1, <2>1, Typed DEF Calls, Scan, lwip
  <2>5. tcp[c].mem = "heap" /\ c # 0
    BY <1>1, <2>1, <2>c, Members DEF ServerInv, HeldAlive
  <2>6. CASE app.fn # "accept"
    <3>1. UNCHANGED mem
      BY <1>4, <2>6 DEF Scan, c, found
    <3>2. HandOK'
      BY <1>1, <2>4, <2>5, <2>6, <2>c, <3>1 DEF HandOK, ServerInv, CallsOK, mem
    <3> QED
      BY <1>1, <2>2, <2>3, <3>1, <3>2, Local DEF Scan, lwip, ServerInv, TypeOK
  <2>7. CASE app.fn = "accept"
    <3>1. tcp' = [tcp EXCEPT ![c].is_accept = TRUE] /\ table' = [table EXCEPT ![app.n] = 0]
      BY <1>4, <2>7 DEF Scan, Take, c, found
    <3>2. tcp' = [tcp EXCEPT ![c] = [tcp[c] EXCEPT !.is_accept = TRUE]]
      BY <2>1, <3>1, Typed
    <3>3. tcp[c] \in Struct /\ [tcp[c] EXCEPT !.is_accept = TRUE] \in Struct
      BY <2>1, Typed DEF Struct
    <3>4. tcp' \in [Conns -> Struct] /\ table' \in [Slots -> Conns \cup {0}]
      BY <1>1, <2>1, <3>1, <3>2, <3>3, Typed
    <3>5. /\ \A d \in Conns \ {c} : tcp'[d] = tcp[d]
          /\ table'[app.n] = 0 /\ \A k \in Slots \ {app.n} : table'[k] = table[k]
      BY <1>1, <2>1, <3>1, <3>2, Typed
    <3>6. /\ tcp'[c].mem = tcp[c].mem /\ tcp'[c].is_accept /\ tcp'[c].state = tcp[c].state
          /\ tcp'[c].available = tcp[c].available /\ tcp'[c].pcb = tcp[c].pcb
      BY <2>1, <3>2, <3>3, Typed DEF Struct
    <3>7. TypeOK'
      BY <2>2, <3>4 DEF ServerInv, TypeOK, Scan, lwip
    <3>8. StructOK'
      BY <2>4, <3>5, <3>6 DEF ServerInv, StructOK, CallbacksAlive
    <3>9. sketch = "advanced" /\ \A k \in Slots : k # app.n => table[k] # c
      BY <1>1, <2>5, <2>7, <2>c DEF ServerInv, CallsOK, OwnerOK
    <3>10. OwnerOK' /\ HeldAlive'
      <4>1. \A k \in Slots : table'[k] # 0 => /\ k # app.n /\ table'[k] = table[k]
                                              /\ tcp'[table[k]] = tcp[table[k]]
        BY <3>5, <3>9, Typed
      <4>2. \A b \in Conns : /\ tcp'[b].mem = tcp[b].mem
                             /\ tcp[b].is_accept => tcp'[b].is_accept
        BY <3>5, <3>6
      <4> QED
        BY <2>4, <3>9, <4>1, <4>2, Typed DEF ServerInv, OwnerOK, HeldAlive
    <3>11. HandOK'
      BY <2>4, <2>5, <2>7, <3>6, <3>9 DEF HandOK
    <3>12. AliveHeld'
      BY <1>1, <2>4, <2>c, <3>5, <3>6, Members DEF ServerInv, AliveHeld
    <3> QED
      BY <2>3, <3>7, <3>8, <3>10, <3>11, <3>12 DEF ServerInv
  <2> QED
    BY <2>6, <2>7
<1> QED
  BY <1>2, <1>3, <1>4

(* stop() frees the struct that accept() has handed over, and the sketch    *)
(* forgets it.                                                              *)
LEMMA StopFreeInv == ServerInv /\ StopFree => ServerInv'
<1> SUFFICES ASSUME ServerInv, StopFree PROVE ServerInv'
  OBVIOUS
<1> DEFINE c == app.cl
           freed == [tcp[c] EXCEPT !.available = 0, !.mem = IF tcp[c].is_accept THEN "freed" ELSE @]
<1>1. c \in Conns /\ app.i <= MAX_CLIENT /\ tcp[c].state = "CLOSING" /\ tcp[c].mem = "heap"
  BY Typed DEF ServerInv, AppOK, HandOK, StopFree
<1>2. app' = [app EXCEPT !.pc = "use", !.cl = 0, !.i = @ + 1]
  BY DEF StopFree
<1>3. app' \in Calls /\ app'.i <= MAX_CLIENT + 1 /\ app'.left <= app'.size
  BY <1>1, <1>2, Locals, NextIndex DEF Calls
<1>4. AppOK' /\ CallsOK' /\ HandOK'
  BY <1>1, <1>2, Typed, Numbers, Bounds DEF ServerInv, AppOK, CallsOK, HandOK, Calls, StopFree
<1>5. tcp[c] \in Struct /\ freed \in Struct /\ tcp' = [tcp EXCEPT ![c] = freed]
  BY <1>1, Typed, Members DEF Struct, StopFree
<1>6. tcp' \in [Conns -> Struct] /\ tcp'[c] = freed /\ \A d \in Conns \ {c} : tcp'[d] = tcp[d]
  <2> HIDE DEF freed
  <2> QED
    BY <1>1, <1>5, Typed
<1> HIDE DEF c
<1>7. /\ tcp'[c].available = 0 /\ tcp'[c].is_accept = tcp[c].is_accept
      /\ tcp'[c].pcb = tcp[c].pcb /\ tcp'[c].state = tcp[c].state
      /\ tcp'[c].mem = IF tcp[c].is_accept THEN "freed" ELSE "heap"
  BY <1>1, <1>5, <1>6 DEF Struct
<1> HIDE DEF freed
<1>8. /\ clients' \in [Slots -> Conns \cup {0}]
      /\ \A k \in Slots : clients'[k] = IF tcp[c].is_accept /\ clients[k] = c THEN 0 ELSE clients[k]
  BY Typed DEF StopFree, c
<1>9. UNCHANGED <<sketch, table, pcbs, received, strays>> /\ app'.cl = 0 /\ app.cl = c
  BY <1>2, Typed DEF StopFree, lwip, Calls, c
<1>10. TypeOK'
  BY <1>3, <1>6, <1>8 DEF ServerInv, TypeOK, StopFree, lwip
<1>11. StructOK'
  <2>1. pcbs[c] # "open" /\ pcbs[c] # "none" /\ received[c] >= 0
    BY <1>1, Sets DEF ServerInv, TypeOK, StructOK, CallbacksAlive
  <2> QED
    BY <1>6, <1>7, <1>9, <2>1 DEF ServerInv, StructOK, CallbacksAlive
<1>12. \A d \in Conns : tcp'[d].is_accept = tcp[d].is_accept
  BY <1>6, <1>7
<1>13. OwnerOK'
  BY <1>8, <1>9, <1>12, Typed DEF ServerInv, OwnerOK
<1>15. HeldAlive'
  <2>1. \A d \in Conns : d # c \/ ~tcp[c].is_accept => tcp'[d].mem = tcp[d].mem
    BY <1>1, <1>6, <1>7
  <2>2. \A k \in Slots : table[k] # 0 => table[k] # c \/ ~tcp[c].is_accept
    BY DEF ServerInv, OwnerOK
  <2>3. \A k \in Slots : clients'[k] # 0 => clients'[k] = clients[k] /\ (clients[k] # c \/ ~tcp[c].is_accept)
    BY <1>8
  <2> QED
    BY <1>9, <2>1, <2>2, <2>3, Typed DEF ServerInv, HeldAlive
<1>14. AliveHeld'
  <2>1. CASE tcp[c].is_accept
    BY <1>1, <1>6, <1>7, <1>8, <1>9, <2>1 DEF ServerInv, AliveHeld
  <2>2. CASE ~tcp[c].is_accept
    <3>1. \E k \in Slots : table[k] = c
      BY <1>1, <1>9, <2>2, Members DEF ServerInv, HandOK
    <3> QED
      BY <1>1, <1>6, <1>7, <1>8, <1>9, <2>2, <3>1 DEF ServerInv, AliveHeld
  <2> QED
    BY <2>1, <2>2
<1> QED
  BY <1>4, <1>10, <1>11, <1>13, <1>14, <1>15 DEF ServerInv

(* The sketch keeps the client in a free place of its array.                *)
LEMMA WelcomeInv == ServerInv /\ Welcome => ServerInv'
<1> SUFFICES ASSUME ServerInv, Welcome PROVE ServerInv'
  OBVIOUS
<1>1. Places # {} /\ Places \subseteq Slots /\ Places \subseteq Nat
  BY Sets DEF ServerInv, CallsOK, Welcome, Places
<1>2. PICK k \in Places : clients' = [clients EXCEPT ![k] = app.cl]
  <2>1. PICK m \in Places : \A l \in Places : m <= l
    <3>1. \E m \in Places : \A l \in Places : m <= l
      BY <1>1, LeastSlot DEF Places
    <3> QED
      BY <3>1
  <2> QED
    BY <2>1 DEF Welcome
<1>3. k \in Slots /\ clients[k] = 0 /\ app.cl \in Conns /\ app.cl # 0 /\ sketch = "advanced"
      /\ tcp[app.cl].mem = "heap" /\ tcp[app.cl].is_accept
  BY <1>2, Typed DEF Places, ServerInv, AppOK, HandOK, Welcome
<1>4. app' = [app EXCEPT !.pc = "use", !.fn = "relay", !.i = 1, !.cl = 0, !.left = 0, !.size = 0]
  BY DEF Welcome
<1>5. app' \in Calls /\ app'.i <= MAX_CLIENT + 1 /\ app'.left <= app'.size
  BY <1>4, Locals DEF Calls
<1>6. AppOK' /\ CallsOK' /\ HandOK'
  BY <1>3, <1>4, Typed, Numbers, Bounds DEF ServerInv, AppOK, CallsOK, HandOK, Calls, Welcome
<1>7. /\ clients' \in [Slots -> Conns \cup {0}]
      /\ clients'[k] = app.cl /\ \A l \in Slots \ {k} : clients'[l] = clients[l]
  BY <1>2, <1>3, Typed
<1>8. UNCHANGED <<sketch, table, tcp, pcbs, received, strays>> /\ app'.cl = 0
  BY <1>4, Typed DEF Welcome, lwip, mem, Calls
<1>9. TypeOK'
  BY <1>5, <1>7 DEF ServerInv, TypeOK, Welcome, lwip, mem
<1>10. StructOK'
  BY <1>8 DEF ServerInv, StructOK, CallbacksAlive
<1>11. OwnerOK' /\ HeldAlive'
  BY <1>3, <1>7, <1>8 DEF ServerInv, OwnerOK, HeldAlive
<1>12. AliveHeld'
  BY <1>3, <1>7, <1>8, Members DEF ServerInv, AliveHeld
<1> QED
  BY <1>6, <1>9, <1>10, <1>11, <1>12 DEF ServerInv

(* A new connection gets a struct of its own, in a slot or, when the table  *)
(* is full, in none.                                                        *)
LEMMA AcceptCallbackInv ==
  ASSUME ServerInv, NEW d \in Conns, AcceptCallback(d)
  PROVE  ServerInv'
<1>1. /\ pcbs[d] = "none" /\ tcp[d].mem = "none" /\ tcp[d].available <= received[d]
      /\ \A k \in Slots : table[k] # d /\ clients[k] # d
      /\ app.cl # d /\ ~(sketch # "advanced" /\ tcp[d].is_accept)
  BY Members DEF ServerInv, StructOK, HeldAlive, HandOK, OwnerOK, AcceptCallback
<1>2. AppOK' /\ CallsOK'
  BY DEF ServerInv, AppOK, CallsOK, AcceptCallback
<1>3. received[d] >= 0 /\ received[d] \in Int
  BY Sets DEF ServerInv, TypeOK
<1>4. UNCHANGED <<sketch, received, clients, app>>
  BY DEF AcceptCallback
<1>5. ASSUME NEW s \in Struct, tcp' = [tcp EXCEPT ![d] = s], s.available <= received[d],
             ~s.is_accept \/ (s.is_accept = tcp[d].is_accept /\ table' = table),
             pcbs' = [pcbs EXCEPT ![d] = IF s.mem = "heap" THEN "open" ELSE "over"],
             s.mem = "heap" => s.pcb /\ s.state = "ACCEPTED",
             \/ table' = table /\ (s.mem = "heap" => d \in strays')
             \/ s.mem = "heap" /\ \E k \in Slots :
                  table[k] = 0 /\ table' = [table EXCEPT ![k] = d],
             strays' \subseteq Conns, strays \subseteq strays'
      PROVE  ServerInv'
  <2>1. tcp' \in [Conns -> Struct] /\ tcp'[d] = s /\ \A c \in Conns \ {d} : tcp'[c] = tcp[c]
    BY <1>5, Typed
  <2>2. /\ pcbs' \in [Conns -> {"none", "open", "over"}] /\ \A c \in Conns \ {d} : pcbs'[c] = pcbs[c]
        /\ pcbs'[d] = IF s.mem = "heap" THEN "open" ELSE "over"
    BY <1>5 DEF ServerInv, TypeOK
  <2>3. table' \in [Slots -> Conns \cup {0}]
    BY <1>5, Typed
  <2>4. TypeOK'
    BY <1>5, <2>1, <2>2, <2>3 DEF ServerInv, TypeOK, AcceptCallback
  <2>5. StructOK'
    BY <1>4, <1>5, <2>1, <2>2 DEF ServerInv, StructOK, CallbacksAlive
  <2>6. \A k \in Slots : \/ table'[k] = table[k]
                         \/ /\ table'[k] = d /\ table[k] = 0 /\ s.mem = "heap" /\ ~s.is_accept
                            /\ \A l \in Slots \ {k} : table'[l] = table[l]
    BY <1>1, <1>5, Typed
  <2>7. OwnerOK'
    BY <1>1, <1>4, <1>5, <2>1, <2>6, Typed, Members DEF ServerInv, OwnerOK
  <2>8. HeldAlive'
    BY <1>1, <1>4, <2>1, <2>6, Typed DEF ServerInv, HeldAlive
  <2>9. HandOK'
    BY <1>1, <1>4, <2>1, <2>6, Typed DEF ServerInv, HandOK, AppOK
  <2>10. AliveHeld'
    BY <1>4, <1>5, <2>1, <2>6, Typed, Members DEF ServerInv, AliveHeld
  <2> QED
    BY <1>2, <2>4, <2>5, <2>7, <2>8, <2>9, <2>10 DEF ServerInv
<1>6. CASE FreeSlots # {}
  <2>1. FreeSlots \subseteq Slots /\ \E k \in FreeSlots : \A l \in FreeSlots : k <= l
    BY <1>6, LeastSlot DEF FreeSlots
  <2>2. PICK k \in FreeSlots : AcceptInto(d, k)
    BY <1>6, <2>1 DEF AcceptCallback
  <2>3. [mem |-> "heap", state |-> "ACCEPTED", pcb |-> TRUE, available |-> 0, is_accept |-> FALSE]
          \in Struct
    BY Members DEF Struct
  <2>4. k \in Slots /\ table[k] = 0
    BY DEF FreeSlots
  <2> QED
    BY <1>3, <1>5, <2>2, <2>3, <2>4, Typed DEF AcceptInto
<1>7. CASE FreeSlots = {}
  <2>1. AcceptFull(d)
    BY <1>7 DEF AcceptCallback
  <2>2. CASE /\ tcp' = [tcp EXCEPT ![d].mem = "freed"]
             /\ pcbs' = [pcbs EXCEPT ![d] = "over"]
             /\ UNCHANGED strays
    <3> DEFINE s == [tcp[d] EXCEPT !.mem = "freed"]
    <3>1. tcp' = [tcp EXCEPT ![d] = s]
      BY <2>2, Typed
    <3>2. tcp[d] \in Struct
      BY Typed
    <3>3. s \in Struct /\ s.mem = "freed" /\ s.available = tcp[d].available /\ s.is_accept = tcp[d].is_accept
      BY <3>2 DEF Struct
    <3>4. UNCHANGED table /\ strays \subseteq Conns
      BY <2>1, Typed DEF AcceptFull
    <3> HIDE DEF s
    <3> QED
      BY <1>1, <1>5, <2>2, <3>1, <3>3, <3>4
  <2>3. CASE /\ tcp' = [tcp EXCEPT ![d] = [NoStruct EXCEPT !.mem = "heap", !.state = "ACCEPTED", !.pcb = TRUE]]
             /\ pcbs' = [pcbs EXCEPT ![d] = "open"]
             /\ strays' = strays \cup {d}
    <3> DEFINE s == [NoStruct EXCEPT !.mem = "heap", !.state = "ACCEPTED", !.pcb = TRUE]
    <3>1. s \in Struct /\ s.mem = "heap" /\ s.available = 0 /\ ~s.is_accept /\ s.pcb /\ s.state = "ACCEPTED"
      BY Members DEF Struct, NoStruct
    <3>2. UNCHANGED table /\ strays \subseteq Conns
      BY <2>1, Typed DEF AcceptFull
    <3>3. tcp' = [tcp EXCEPT ![d] = s]
      BY <2>3
    <3> HIDE DEF s
    <3> QED
      BY <1>3, <1>5, <2>3, <3>1, <3>2, <3>3
  <2> QED
    BY <2>1, <2>2, <2>3 DEF AcceptFull
<1> QED
  BY <1>6, <1>7

-----------------------------------------------------------------------------
(* Every step keeps the invariant.                                          *)
LEMMA NextInv == ServerInv /\ [Next]_vars => ServerInv'
<1> SUFFICES ASSUME ServerInv, [Next]_vars PROVE ServerInv'
  OBVIOUS
<1>1. CASE App
  BY <1>1, BeginInv, LoopInv, CheckClientInv, ScanInv, ServerWriteInv, RoundInv, ServerWroteInv,
     FaultInv, StopInv, StopCloseInv, StopFreeInv, WebInv, WebSentInv, ChatLoopInv,
     ChatGreetedInv, NewcomerInv, WelcomeInv, RelayInv, RelayToInv, RelayedInv, ReapInv
     DEF App, Chat, DhcpChat
<1>2. ASSUME NEW d \in Conns, Lwip(d) PROVE ServerInv'
  BY <1>2, AcceptCallbackInv, RecvCallbackInv, FinishedInv, ErrCallbackInv, SentCallbackInv
     DEF Lwip
<1>3. CASE UNCHANGED vars
  <2>1. UNCHANGED <<sketch, listening, table, tcp, pcbs, received, room, clients, greeted, app, strays>>
    BY <1>3 DEF vars, mem, lwip
  <2>2. TypeOK' /\ AppOK' /\ CallsOK'
    BY <2>1 DEF ServerInv, TypeOK, AppOK, CallsOK
  <2>3. StructOK' /\ OwnerOK' /\ HeldAlive' /\ HandOK' /\ AliveHeld'
    BY <2>1 DEF ServerInv, StructOK, CallbacksAlive, OwnerOK, HeldAlive, HandOK, AliveHeld
  <2> QED
    BY <2>2, <2>3 DEF ServerInv
<1> QED
  BY <1>1, <1>2, <1>3 DEF Next

(* The invariant holds in every reachable state.                            *)
LEMMA InvCorrect == Spec => []ServerInv
<1>1. Init => ServerInv
  BY InitInv
<1>2. ServerInv /\ [Next]_vars => ServerInv'
  BY NextInv
<1> QED
  BY <1>1, <1>2, PTL DEF Spec

(* tcp_accept_callback, the other callbacks and the user's thread share the *)
(* structs of the connections.  For any number of connections, slots and    *)
(* bytes, and in every sketch: the callbacks find the struct of their       *)
(* connection alive; the table and the sketch never keep a freed one, and   *)
(* own no connection together; and no struct is lost but in the two cases   *)
(* of strays.                                                               *)
THEOREM StructsCorrect == Spec => []StructsSafe
<1>1. ServerInv => StructsSafe
  <2> SUFFICES ASSUME ServerInv PROVE StructsSafe
    OBVIOUS
  <2>1. /\ Range(table) = {table[k] : k \in Slots}
        /\ Range(clients) = {clients[k] : k \in Slots}
    BY Typed DEF Range
  <2>2. NoDanglingClient
    BY <2>1, Typed DEF NoDanglingClient, ServerInv, OwnerOK, HeldAlive, HandOK
  <2>3. NoOrphan
    BY <2>1 DEF NoOrphan, ServerInv, AliveHeld
  <2> QED
    BY <2>2, <2>3 DEF StructsSafe, ServerInv, StructOK
<1> QED
  BY <1>1, InvCorrect, PTL

=============================================================================
