-------------------------- MODULE TcpClientProofs --------------------------
(***************************************************************************)
(* Proofs about the TCP client: its pcb, and the data that the callbacks   *)
(* hand to the reader, for streams of every length cut anywhere.           *)
(***************************************************************************)
EXTENDS TcpClient, FiniteSetTheorems, FunctionTheorems, SequenceTheorems, TLAPS

(* The bytes of all the pbufs that there is room for can be counted: for    *)
(* ETH_RXBUFNB + 1 segments of TCP_MSS it is so by far.                     *)
Fits == \E m \in Nat : Lengths \subseteq 0 .. m /\ (QueueLen + 1) * m < AvailMod

MaxLen == CHOOSE m \in Nat : Lengths \subseteq 0 .. m /\ (QueueLen + 1) * m < AvailMod

End(q) == q.from + q.len

(* The user's thread: a read is one of a client that is not stopped.        *)
UserOK ==
  /\ stopped \/ upc # "idle" => step = "idle"
  /\ upc # "idle" => ~stopped
  /\ stopped => p = NULL \/ available = 0

(* The pcbs.                                                                *)
PcbOK ==
  /\ OnePcb
  /\ state = "CLOSING" \/ upc = "free" => \A c \in Pcbs : ~Live(c)

(* The locals of stm32_get_data.                                            *)
GetType == [size : Nat, nb : Nat, copied : Nat, avail : Nat, item : Pbuf]
CallOK ==
  /\ get \in GetType
  /\ step # "idle" => get.size > 0 /\ get.nb <= get.size /\ p # NULL
  /\ step = "copy" => get.nb < get.size
  /\ step = "store" => get.nb + get.copied <= get.size
  /\ Single /\ step \in {"copy", "store"} => get.nb = 0

(* The pbuf that is being read, or about to be, and those behind it are     *)
(* stretches of the stream one after the other.                             *)
Cur == IF step = "set" THEN get.item ELSE p
Stretch(q) == q.len \in Lengths /\ End(q) <= received
Chained == "chain" \in spoilt

OrderOK ==
  ~Chained /\ ~stopped =>
    /\ Cur = NULL => pbuf_queue = <<>>
    /\ Cur # NULL => Stretch(Cur) /\ \A i \in DOMAIN pbuf_queue : End(Cur) <= pbuf_queue[i].from
    /\ p # NULL => Stretch(p)
    /\ step = "set" /\ get.item # NULL => End(p) <= get.item.from
    /\ \A i \in DOMAIN pbuf_queue : Stretch(pbuf_queue[i])
    /\ \A i, j \in DOMAIN pbuf_queue : i < j => End(pbuf_queue[i]) <= pbuf_queue[j].from

(* What has been read is before what will be.                               *)
Pos == IF step = "store" THEN offset + get.copied ELSE offset
Upto(n) == \A i \in DOMAIN got : got[i] <= n
Rising == \A i, j \in DOMAIN got : i < j /\ got[i] # 0 /\ got[j] # 0 => got[i] < got[j]

GotOK ==
  ~Chained =>
    /\ Rising
    /\ ~stopped =>
         /\ Upto(received)
         /\ step \in {"take", "set"} => Upto(End(p))
         /\ step \in {"idle", "copy", "store"} /\ p # NULL =>
              \/ Upto(p.from)
              \/ /\ IF step = "store" THEN Pos <= p.len ELSE Pos < p.len
                 /\ Upto(p.from + Pos)

(* The stream without a gap: the pbuf cur and those of q behind it reach to *)
(* the last byte received, and not further than so many pbufs can.          *)
Span(n) == n * MaxLen
Linked(cur, q, n) ==
  /\ cur # NULL /\ q = <<>> => End(cur) = n
  /\ q # <<>> =>
       /\ End(cur) = q[1].from /\ End(q[Len(q)]) = n
       /\ \A i \in 1 .. Len(q) - 1 : End(q[i]) = q[i + 1].from
  /\ cur # NULL => n <= End(cur) + Span(Len(q))
  /\ \A i \in DOMAIN q : n <= End(q[i]) + Span(Len(q) - i)

(* How far the reader is, and what available says, in each step of a read.  *)
Total == Len(got)
Gapless ==
  /\ Linked(Cur, pbuf_queue, received)
  /\ Cur = NULL => Total = received
  /\ got = [i \in 1 .. Total |-> i]
  /\ IF step = "store" THEN available = get.avail /\ available - get.copied = received - Total
     ELSE available = received - Total
  /\ step \in {"idle", "copy"} /\ p # NULL => p.from + offset = Total /\ offset < p.len
  /\ step = "store" => /\ p.from + Pos = Total /\ Pos <= p.len
                       /\ get.copied < ToCopy => Pos = p.len
  /\ step = "take" => Total = End(p)
  /\ step = "set" /\ get.item # NULL => Total = get.item.from
  /\ step \in {"take", "set"} => offset = 0
  /\ step \in {"store", "take"} \/ (step = "set" /\ ~Single) => get.copied > 0

StreamOK == spoilt = {} /\ ~stopped => Gapless

(* The pbufs that lwIP has passed on.                                       *)
PoolOK ==
  ~Chained =>
    pool = IF stopped THEN {}
           ELSE IF step = "take" THEN Range(pbuf_queue)
           ELSE (Range(pbuf_queue) \cup {Cur}) \ {NULL}

ClientInv ==
  /\ TypeOK /\ UserOK /\ PcbOK /\ CallOK
  /\ OrderOK /\ GotOK /\ StreamOK /\ PoolOK
-----------------------------------------------------------------------------
(* The steps of the user's thread and of lwIP, by what they do to the data  *)
(* of the connection.                                                       *)
Quiet == UNCHANGED <<dataVars, received, stopped>>
Fresh == UNCHANGED <<received, stopped>>
Reader == ~stopped /\ upc = "idle"
ReadStep == \E size \in Sizes : GetCall(size)
Empty == step = "idle" /\ stopped /\ Connect
Freed == step = "idle" /\ ~stopped /\ StopFree
Arrival(len) == ~stopped /\ \E c \in Pcbs : Receive(c, len)

(* In the beginning there is no pcb, and nothing is being read.             *)
LEMMA PcbInit == Init => UserOK /\ PcbOK
BY DEF Init, DataInit, EmptyData, UserOK, PcbOK, OnePcb, Live

(* What is done to pcbs and state, for PcbOK.                               *)
LEMMA PcbNext ==
  ASSUME UserOK, PcbOK, TypeOK, [Next]_vars
  PROVE  PcbOK'
<1> USE DEF PcbOK, OnePcb, Live
<1>0. 0 \notin Pcbs /\ connects + 1 # 0 /\ DOMAIN pcbs = Pcbs
  BY TcpClientAssumption DEF Pcbs, TypeOK
<1>1. CASE Connect
  BY <1>0, <1>1 DEF UserOK, Connect
<1>2. CASE ConnectDone \/ ReadNothing \/ Reading \/ (\E size \in Sizes : Read(size))
  BY <1>2 DEF ConnectDone, ReadNothing, Reading, Read, conn, user, UserOK
<1>3. CASE ConnectTimeout \/ Stop
  BY <1>0, <1>3 DEF ConnectTimeout, Stop, StopStart, UserOK
<1>4. CASE StopClose
  <2>1. PICK after \in {"shut", "free"} : pcbs' = [pcbs EXCEPT ![tpcb] = after]
    BY <1>4 DEF StopClose, ConnectionClose
  <2>2. tpcb \in Pcbs /\ pcb = tpcb /\ upc = "close"
    BY <1>4 DEF StopClose, ConnectionClose, TypeOK
  <2>3. \A c \in Pcbs : pcbs'[c] \notin {"new", "syn", "open"}
    BY <1>0, <2>1, <2>2
  <2> QED
    BY <2>3
<1>5. CASE StopFree
  BY <1>0, <1>5 DEF StopFree, conn, UserOK
<1>6. ASSUME NEW c \in Pcbs, Connected(c)
      PROVE  PcbOK'
  BY <1>0, <1>6 DEF Connected, ConnectionClose, user, UserOK
<1>7. ASSUME NEW c \in Pcbs, Refused(c) \/ Closed(c)
      PROVE  PcbOK'
  BY <1>0, <1>7 DEF Refused, Closed, user, UserOK
<1>8. ASSUME NEW c \in Pcbs, Finished(c) \/ Reset(c)
      PROVE  PcbOK'
  BY <1>0, <1>8 DEF Finished, Reset, ConnectionClose, user, UserOK
<1>9. ASSUME NEW c \in Pcbs, NEW len \in Lengths, Receive(c, len)
      PROVE  PcbOK'
  BY <1>9 DEF Receive, conn, user
<1>10. CASE UNCHANGED vars
  BY <1>10 DEF vars, conn, user
<1> QED
  BY <1>1, <1>2, <1>3, <1>4, <1>5, <1>6, <1>7, <1>8, <1>9, <1>10 DEF Next, User, Lwip

(* Whatever comes, the data changes in one of these ways.                   *)
LEMMA Ways ==
  ASSUME UserOK, PcbOK, [Next]_vars
  PROVE  \/ Quiet
         \/ Empty
         \/ Reader /\ ReadStep /\ Fresh
         \/ ReadNothing
         \/ Reader /\ GetData /\ Fresh
         \/ Freed
         \/ \E len \in Lengths : Arrival(len)
<1>1. CASE Connect
  BY <1>1 DEF UserOK, Empty, Connect
<1>2. CASE ConnectDone \/ ConnectTimeout \/ Stop
  BY <1>2 DEF ConnectDone, ConnectTimeout, Stop, Quiet
<1>3. CASE ReadNothing
  BY <1>3
<1>4. CASE Reading
  BY <1>4 DEF Reading, Reader, Fresh, user, GetData, GetCopy, GetStore, GetTake, GetSet, UserOK
<1>5. CASE \E size \in Sizes : Read(size)
  BY <1>5 DEF Read, Reader, Fresh, ReadStep, user, GetCall, UserOK
<1>6. CASE StopClose
  BY <1>6 DEF StopClose, Quiet
<1>7. CASE StopFree
  BY <1>7 DEF StopFree, Freed, UserOK
<1>8. ASSUME NEW c \in Pcbs, Connected(c) \/ Refused(c) \/ Finished(c) \/ Reset(c) \/ Closed(c)
      PROVE  Quiet
  BY <1>8 DEF Connected, Refused, Finished, Reset, Closed, user, Quiet
<1>9. ASSUME NEW c \in Pcbs, NEW len \in Lengths, Receive(c, len)
      PROVE  Arrival(len)
  BY <1>9 DEF Receive, Arrival, PcbOK, OnePcb
<1>10. CASE UNCHANGED vars
  BY <1>10 DEF vars, user, Quiet
<1> QED
  BY <1>1, <1>2, <1>3, <1>4, <1>5, <1>6, <1>7, <1>8, <1>9, <1>10 DEF Next, User, Lwip

(* The user's thread is in one call at a time: no step of another leads     *)
(* into or out of a read.                                                   *)
LEMMA UserNext ==
  ASSUME UserOK, PcbOK, [Next]_vars
  PROVE  UserOK'
<1> USE DEF UserOK
<1>1. CASE Connect
  BY <1>1 DEF Connect, call
<1>2. CASE ConnectDone \/ ConnectTimeout \/ Stop
  BY <1>2 DEF ConnectDone, ConnectTimeout, Stop, StopStart, Idle, dataVars, data, call
<1>3. CASE ReadNothing
  BY <1>3 DEF ReadNothing, data, call, user
<1>4. CASE Reading
  BY <1>4 DEF Reading, user, GetData, GetCopy, GetStore, GetTake, GetSet
<1>5. CASE \E size \in Sizes : Read(size)
  BY <1>5 DEF Read, user, GetCall, data
<1>6. CASE StopClose
  BY <1>6 DEF StopClose, dataVars, data, call
<1>7. CASE StopFree
  BY <1>7 DEF StopFree, FreeData, call, data
<1>8. ASSUME NEW c \in Pcbs, Connected(c) \/ Refused(c) \/ Finished(c) \/ Reset(c) \/ Closed(c)
      PROVE  UserOK'
  BY <1>8 DEF Connected, Refused, Finished, Reset, Closed, user, dataVars, data, call
<1>9. ASSUME NEW c \in Pcbs, NEW len \in Lengths, Receive(c, len)
      PROVE  UserOK'
  BY <1>9 DEF Receive, PcbOK, OnePcb, call, user
<1>10. CASE UNCHANGED vars
  BY <1>10 DEF vars, user, dataVars, data, call
<1> QED
  BY <1>1, <1>2, <1>3, <1>4, <1>5, <1>6, <1>7, <1>8, <1>9, <1>10 DEF Next, User, Lwip
-----------------------------------------------------------------------------
(* Numbers, sequences and pbufs.                                            *)
LEMMA Consts ==
  /\ QueueLen \in Nat \ {0} /\ AvailMod \in Nat \ {0} /\ MaxBytes \in Nat /\ MaxConnects \in Nat
  /\ Lengths \subseteq Nat \ {0} /\ Sizes \subseteq Nat \ {0}
  BY PbufDataAssumption, TcpClientAssumption

(* A number below the modulus is its own remainder.                         *)
LEMMA Modulo ==
  ASSUME NEW m \in Nat \ {0}, NEW x \in Int
  PROVE  x % m \in 0 .. m - 1 /\ (x \in 0 .. m - 1 => x % m = x)
BY SMT

(* The counter available, of 16 bits, is exact below its modulus.           *)
LEMMA Counted ==
  \A x \in Int : x % AvailMod \in 0 .. AvailMod - 1 /\ (x \in 0 .. AvailMod - 1 => x % AvailMod = x)
BY Consts, Modulo

(* A pbuf, and the one that lwIP makes of the next bytes of the stream.     *)
LEMMA PbufFacts ==
  /\ NULL \in Pbuf
  /\ \A q \in Pbuf : q.from \in Nat /\ q.len \in Nat /\ End(q) \in Nat /\ End(q) = q.from + q.len
  /\ \A q \in Pbuf : q.len \in Lengths => q # NULL /\ q.len > 0
  /\ \A n \in Nat : \A len \in Lengths :
       LET q == [from |-> n, len |-> len]
       IN  q \in Pbuf /\ q # NULL /\ q.from = n /\ q.len = len
BY Consts DEF Pbuf, NULL, End

(* The indices and the elements of a sequence.                              *)
LEMMA Elements ==
  ASSUME NEW S, NEW s \in Seq(S)
  PROVE  Len(s) \in Nat /\ DOMAIN s = 1 .. Len(s) /\ \A i \in DOMAIN s : s[i] \in S
BY LenProperties

(* A sequence that is not empty is its head and its tail.                   *)
LEMMA Headed ==
  ASSUME NEW S, NEW s \in Seq(S), s # <<>>
  PROVE  /\ Len(s) \in Nat /\ Len(s) >= 1 /\ DOMAIN s = 1 .. Len(s)
         /\ Head(s) = s[1] /\ s[1] \in S /\ Tail(s) \in Seq(S)
         /\ Len(Tail(s)) = Len(s) - 1 /\ DOMAIN Tail(s) = 1 .. Len(s) - 1
         /\ \A i \in 1 .. Len(s) - 1 : Tail(s)[i] = s[i + 1]
BY HeadTailProperties, EmptySeq, LenProperties, SMTT(30)

(* A sequence with one element more.                                        *)
LEMMA Appended ==
  ASSUME NEW S, NEW s \in Seq(S), NEW x \in S
  PROVE  /\ Append(s, x) \in Seq(S) /\ Append(s, x) # <<>>
         /\ Len(s) \in Nat /\ Len(Append(s, x)) = Len(s) + 1
         /\ DOMAIN s = 1 .. Len(s) /\ DOMAIN Append(s, x) = 1 .. Len(s) + 1
         /\ \A i \in 1 .. Len(s) : Append(s, x)[i] = s[i]
         /\ Append(s, x)[Len(s) + 1] = x
BY AppendProperties, LenProperties

(* Two sequences one after the other.                                       *)
LEMMA Joined ==
  ASSUME NEW S, NEW s \in Seq(S), NEW t \in Seq(S)
  PROVE  /\ s \o t \in Seq(S) /\ Len(s) \in Nat /\ Len(t) \in Nat
         /\ Len(s \o t) = Len(s) + Len(t)
         /\ DOMAIN s = 1 .. Len(s) /\ DOMAIN t = 1 .. Len(t)
         /\ DOMAIN (s \o t) = 1 .. Len(s) + Len(t)
         /\ \A i \in 1 .. Len(s) : (s \o t)[i] = s[i]
         /\ \A i \in Len(s) + 1 .. Len(s) + Len(t) : (s \o t)[i] = t[i - Len(s)]
BY ConcatProperties, LenProperties

(* The bytes of a copy: pbuf_copy_partial's, or the one of pbuf_get_at.     *)
Taken == IF Left < ToCopy THEN Left ELSE ToCopy

(* The bytes that one round of stm32_get_data adds: those of the pbuf       *)
(* behind offset, or the 0 of a read of one byte that finds the pbuf at its *)
(* end.                                                                     *)
LEMMA Copied ==
  ASSUME DataTypeOK, CallOK, step = "copy"
  PROVE  /\ Left \in Nat /\ ToCopy \in Nat /\ ToCopy > 0 /\ Taken \in Nat
         /\ offset \in Nat /\ Left = (IF offset < p.len THEN p.len - offset ELSE 0)
         /\ Bytes \in Seq(Nat)
         /\ Single /\ Left = 0 => Bytes = <<0>> /\ Len(Bytes) = 1
         /\ ~(Single /\ Left = 0) =>
              /\ Len(Bytes) = Taken
              /\ \A i \in 1 .. Taken : Bytes[i] = p.from + offset + i
         /\ get.nb + Len(Bytes) <= get.size
<1>1. offset \in Nat /\ p.len \in Nat /\ p.from \in Nat
  BY PbufFacts, Consts DEF DataTypeOK
<1>2. /\ get.size \in Nat /\ get.nb \in Nat /\ get.nb < get.size
      /\ Single => get.nb = 0
      /\ Single <=> get.size = 1
      /\ ToCopy = get.size - get.nb
      /\ Left = (IF offset < p.len THEN p.len - offset ELSE 0)
  BY DEF CallOK, GetType, Single, ToCopy, Left
<1>3. Left \in Nat /\ ToCopy \in Nat /\ ToCopy > 0 /\ Taken \in Nat /\ Taken <= ToCopy
  BY <1>1, <1>2 DEF Taken
<1>4. CASE Single /\ Left = 0
  <2>1. Bytes = <<0>>
    BY <1>4 DEF Bytes
  <2>2. <<0>> \in Seq(Nat) /\ Len(<<0>>) = 1
    OBVIOUS
  <2> QED
    BY <1>1, <1>2, <1>3, <1>4, <2>1, <2>2
<1>5. CASE ~(Single /\ Left = 0)
  <2>1. Bytes = [i \in 1 .. Taken |-> p.from + offset + i]
    BY <1>5 DEF Bytes, Taken
  <2>2. \A i \in 1 .. Taken : p.from + offset + i \in Nat
    BY <1>1, <1>3
  <2>3. Bytes \in Seq(Nat) /\ Len(Bytes) = Taken
    BY <1>3, <2>1, <2>2
  <2> QED
    BY <1>1, <1>2, <1>3, <1>5, <2>1, <2>3
<1> QED
  BY <1>4, <1>5
-----------------------------------------------------------------------------
(* The part of TypeOK that is not about pbufs.                              *)
ClientTypeOK ==
  /\ state \in {"NONE", "CONNECTED", "CLOSING"}
  /\ pcb \in Pcbs \cup {0} /\ tpcb \in Pcbs \cup {0}
  /\ pcbs \in [Pcbs -> {"free", "new", "syn", "open", "shut"}]
  /\ connects \in 0 .. MaxConnects
  /\ upc \in {"idle", "wait", "close", "free"}
  /\ stopped \in BOOLEAN

(* In the beginning every variable has its type.                            *)
LEMMA TypeInit == Init => TypeOK /\ CallOK
<1> SUFFICES ASSUME Init PROVE TypeOK /\ CallOK
  OBVIOUS
<1>1. p \in Pbuf /\ get \in GetType /\ get.item \in Pbuf /\ <<>> \in Seq(Pbuf) /\ <<>> \in Seq(Nat)
      /\ Len(<<>>) = 0 /\ step = "idle"
      /\ {get.size, get.nb, get.copied, get.avail} \subseteq Nat
  BY PbufFacts DEF Init, DataInit, EmptyData, NoCall, GetType
<1>2. DataTypeOK
  BY <1>1, Consts DEF Init, DataInit, EmptyData, DataTypeOK
<1>3. CallOK
  BY <1>1 DEF CallOK
<1> QED
  BY <1>2, <1>3, Consts DEF TypeOK, Init

(* The pcbs and the user's thread.                                          *)
LEMMA ClientTypeNext ==
  ASSUME TypeOK, [Next]_vars
  PROVE  ClientTypeOK'
<1> USE DEF ClientTypeOK
<1>0. /\ ClientTypeOK /\ Consts!1
      /\ connects < MaxConnects => connects + 1 \in Pcbs /\ connects + 1 \in 0 .. MaxConnects
  BY Consts DEF TypeOK, Pcbs
<1>1. CASE Connect
  BY <1>0, <1>1 DEF Connect
<1>2. CASE ConnectDone \/ ReadNothing \/ Reading \/ (\E size \in Sizes : Read(size))
  BY <1>0, <1>2 DEF ConnectDone, ReadNothing, Reading, Read, conn, user
<1>3. CASE ConnectTimeout \/ Stop
  BY <1>0, <1>3 DEF ConnectTimeout, Stop, StopStart
<1>4. CASE StopClose
  BY <1>0, <1>4 DEF StopClose, ConnectionClose
<1>5. CASE StopFree
  BY <1>0, <1>5 DEF StopFree, conn
<1>6. ASSUME NEW c \in Pcbs, Connected(c)
      PROVE  ClientTypeOK'
  BY <1>0, <1>6 DEF Connected, ConnectionClose, user
<1>7. ASSUME NEW c \in Pcbs, Refused(c) \/ Closed(c)
      PROVE  ClientTypeOK'
  BY <1>0, <1>7 DEF Refused, Closed, user
<1>8. ASSUME NEW c \in Pcbs, Finished(c) \/ Reset(c)
      PROVE  ClientTypeOK'
  BY <1>0, <1>8 DEF Finished, Reset, ConnectionClose, user
<1>9. ASSUME NEW c \in Pcbs, NEW len \in Lengths, Receive(c, len)
      PROVE  ClientTypeOK'
  BY <1>0, <1>9 DEF Receive, conn, user
<1>10. CASE UNCHANGED vars
  BY <1>0, <1>10 DEF vars, conn, user
<1> QED
  BY <1>1, <1>2, <1>3, <1>4, <1>5, <1>6, <1>7, <1>8, <1>9, <1>10 DEF Next, User, Lwip

(* What one step of a read does to its locals.                              *)
LEMMA CallNext ==
  ASSUME DataTypeOK, CallOK, UserOK, PcbOK, [Next]_vars
  PROVE  CallOK'
<1> USE DEF CallOK, GetType
<1>0. get \in GetType /\ NULL \in Pbuf /\ p \in Pbuf
  BY PbufFacts DEF DataTypeOK
<1>1. CASE Quiet
  BY <1>0, <1>1 DEF Quiet, dataVars, data, call, Single
<1>2. CASE Empty
  BY <1>0, <1>2 DEF Empty, Connect, call, Single
<1>3. CASE Reader /\ ReadStep /\ Fresh
  <2>1. PICK size \in Sizes : GetCall(size)
    BY <1>3 DEF ReadStep
  <2>2. get' = [size |-> size, nb |-> 0, copied |-> 0, avail |-> 0, item |-> NULL]
        /\ step' = "copy" /\ p' = p /\ p # NULL /\ size \in Nat \ {0}
    BY <2>1, Consts DEF GetCall, NoCall, data
  <2> QED
    BY <1>0, <2>2 DEF Single
<1>4. CASE ReadNothing
  BY <1>0, <1>4 DEF ReadNothing, call, data, Single
<1>5. CASE Freed
  BY <1>0, <1>5 DEF Freed, StopFree, FreeData, call, data, Single
<1>6. CASE \E len \in Lengths : Arrival(len)
  <2>1. PICK len \in Lengths : Arrival(len)
    BY <1>6
  <2>2. step' = step /\ get' = get /\ (p # NULL => p' = p)
    BY <2>1 DEF Arrival, Receive, Accept, call, data
  <2> QED
    BY <1>0, <2>2 DEF Single
<1>7. CASE Reader /\ GetData /\ Fresh
  <2>1. CASE GetCopy
    <3>1. Bytes \in Seq(Nat) /\ Len(Bytes) \in Nat /\ get.nb + Len(Bytes) <= get.size
      BY <2>1, Copied, Joined DEF GetCopy
    <3>2. get' = [get EXCEPT !.copied = Len(Bytes), !.avail = available] /\ step' = "store" /\ p' = p
          /\ step = "copy" /\ available \in Nat
      BY <2>1, Consts DEF GetCopy, data, DataTypeOK
    <3> QED
      BY <1>0, <3>1, <3>2 DEF Single
  <2>2. CASE GetStore
    BY <1>0, <2>2 DEF GetStore, NoCall, Single, PbufDone
  <2>3. CASE GetTake
    <3>1. pbuf_queue # <<>> => Head(pbuf_queue) \in Pbuf
      BY Headed DEF DataTypeOK
    <3> QED
      BY <1>0, <2>3, <3>1 DEF GetTake, Single
  <2>4. CASE GetSet
    <3>1. ToCopy \in Int /\ (ToCopy > 0 => get.nb < get.size)
      BY <1>0 DEF ToCopy
    <3>2. CASE step' = "idle" /\ get' = NoCall
      BY <1>0, <3>2 DEF NoCall, Single
    <3>3. CASE /\ ~Single /\ get.item # NULL /\ ToCopy > 0
               /\ step' = "copy" /\ get' = [get EXCEPT !.copied = 0, !.avail = 0, !.item = NULL]
      <4>1. /\ get' = [size |-> get.size, nb |-> get.nb, copied |-> 0, avail |-> 0, item |-> NULL]
            /\ p' = get.item /\ step = "set"
        BY <1>0, <2>4, <3>3 DEF GetSet
      <4> QED
        BY <1>0, <3>1, <3>3, <4>1 DEF Single
    <3> QED
      BY <2>4, <3>2, <3>3 DEF GetSet
  <2> QED
    BY <1>7, <2>1, <2>2, <2>3, <2>4 DEF GetData
<1> QED
  BY <1>1, <1>2, <1>3, <1>4, <1>5, <1>6, <1>7, Ways

(* What a callback with data does.                                          *)
Arrives(q) ==
  \/ /\ p = NULL /\ p' = q /\ offset' = 0 /\ pbuf_queue' = pbuf_queue
     /\ available' = (available + q.len) % AvailMod
     /\ pool' = pool \cup {q} /\ spoilt' = spoilt
  \/ /\ p # NULL /\ Len(pbuf_queue) < QueueLen /\ p' = p /\ offset' = offset
     /\ pbuf_queue' = Append(pbuf_queue, q)
     /\ available' = (available + q.len) % AvailMod
     /\ pool' = pool \cup {q} /\ spoilt' = spoilt \cup Preempted
  \/ /\ p # NULL /\ spoilt' = spoilt \cup {"full"}
     /\ UNCHANGED <<p, offset, available, pbuf_queue, pool>>

(* A segment that the receive callback gets is the next stretch of the      *)
(* stream.                                                                  *)
LEMMA Arrived ==
  ASSUME TypeOK, NEW len \in Lengths, Arrival(len)
  PROVE  /\ Arrives([from |-> received, len |-> len])
         /\ [from |-> received, len |-> len] \in Pbuf \ {NULL}
         /\ received' = received + len /\ received' \in 0 .. MaxBytes
         /\ received \in Nat /\ len \in Nat /\ len > 0
         /\ ~stopped /\ stopped' = stopped /\ UNCHANGED <<step, get, got>>
<1>1. received \in Nat /\ len \in Nat /\ len > 0 /\ MaxBytes \in Nat
  BY Consts DEF TypeOK
<1>2. PICK c \in Pcbs : Receive(c, len)
  BY DEF Arrival
<1>3. Arrives([from |-> received, len |-> len])
  BY <1>2 DEF Receive, Accept, Arrives, data
<1>4. [from |-> received, len |-> len] \in Pbuf \ {NULL}
  BY <1>1, PbufFacts
<1> QED
  BY <1>1, <1>2, <1>3, <1>4 DEF Receive, call, user, Arrival

(* The pbufs, their queue and the counters keep their types.                *)
LEMMA DataTypeNext ==
  ASSUME TypeOK, CallOK, CallOK', UserOK, PcbOK, [Next]_vars
  PROVE  DataTypeOK' /\ received' \in 0 .. MaxBytes
<1>0. /\ NULL \in Pbuf /\ 0 \in 0 .. AvailMod - 1 /\ 0 \in 0 .. MaxBytes
      /\ QueueLen \in Nat \ {0} /\ AvailMod \in Nat \ {0}
  BY Consts, PbufFacts
<1>1. /\ p \in Pbuf /\ offset \in 0 .. AvailMod - 1 /\ available \in 0 .. AvailMod - 1
      /\ pbuf_queue \in Seq(Pbuf) /\ Len(pbuf_queue) <= QueueLen
      /\ pool \subseteq Pbuf \ {NULL} /\ got \in Seq(Nat)
      /\ spoilt \subseteq {"count", "chain", "skip", "full"}
      /\ step \in {"idle", "copy", "store", "take", "set"}
      /\ received \in 0 .. MaxBytes
  BY DEF TypeOK, DataTypeOK
<1>2. /\ get'.item \in Pbuf /\ {get'.size, get'.nb, get'.copied, get'.avail} \subseteq Nat
  BY DEF CallOK, GetType
<1> SUFFICES /\ p' \in Pbuf /\ offset' \in 0 .. AvailMod - 1 /\ available' \in 0 .. AvailMod - 1
             /\ pbuf_queue' \in Seq(Pbuf) /\ Len(pbuf_queue') <= QueueLen
             /\ pool' \subseteq Pbuf \ {NULL} /\ got' \in Seq(Nat)
             /\ spoilt' \subseteq {"count", "chain", "skip", "full"}
             /\ step' \in {"idle", "copy", "store", "take", "set"}
             /\ received' \in 0 .. MaxBytes
  BY <1>2 DEF DataTypeOK
<1>3. CASE Quiet
  BY <1>1, <1>3 DEF Quiet, dataVars, data, call
<1>4. CASE Empty
  <2>1. <<>> \in Seq(Pbuf) /\ Len(<<>>) = 0 /\ <<>> \in Seq(Nat)
    OBVIOUS
  <2> QED
    BY <1>0, <1>1, <1>4, <2>1 DEF Empty, Connect, call
<1>5. CASE Reader /\ ReadStep /\ Fresh
  BY <1>1, <1>5 DEF ReadStep, GetCall, data, Fresh
<1>6. CASE ReadNothing
  <2>1. Append(got, 0) \in Seq(Nat)
    BY <1>1
  <2> QED
    BY <1>1, <1>6, <2>1 DEF ReadNothing, data, call
<1>7. CASE Freed
  <2>1. <<>> \in Seq(Pbuf) /\ Len(<<>>) = 0
    OBVIOUS
  <2>2. UNCHANGED <<step, got, spoilt, received, p>>
    BY <1>7 DEF Freed, StopFree, FreeData, data, call
  <2>3. \/ UNCHANGED <<offset, available, pbuf_queue, pool>>
        \/ pbuf_queue' = <<>> /\ available' = 0 /\ offset' = 0 /\ pool' \subseteq pool
    BY <1>7 DEF Freed, StopFree, FreeData, data
  <2>4. pbuf_queue' \in Seq(Pbuf) /\ Len(pbuf_queue') <= QueueLen
    <3>1. CASE pbuf_queue' = pbuf_queue
      BY <1>1, <3>1
    <3>2. CASE pbuf_queue' = <<>>
      <4>1. 0 <= QueueLen
        BY <1>0
      <4> QED
        BY <2>1, <3>2, <4>1
    <3> QED
      BY <2>3, <3>1, <3>2
  <2> QED
    BY <1>0, <1>1, <2>2, <2>3, <2>4
<1>8. CASE \E len \in Lengths : Arrival(len)
  <2>1. PICK len \in Lengths : Arrival(len)
    BY <1>8
  <2> DEFINE q == [from |-> received, len |-> len]
  <2>2. /\ Arrives(q) /\ q \in Pbuf \ {NULL} /\ q.len = len /\ len \in Nat
        /\ received' \in 0 .. MaxBytes /\ UNCHANGED <<step, get, got>>
    BY <2>1, Arrived
  <2>a. available + len \in Int
    BY <1>0, <1>1, <2>2
  <2>3. (available + q.len) % AvailMod \in 0 .. AvailMod - 1
    BY <2>2, <2>a, Counted
  <2>4. Append(pbuf_queue, q) \in Seq(Pbuf) /\ Len(Append(pbuf_queue, q)) = Len(pbuf_queue) + 1
        /\ Len(pbuf_queue) \in Nat
    BY <1>1, <2>2, Appended
  <2>5. Preempted \subseteq {"count", "chain", "skip", "full"}
    BY DEF Preempted
  <2> HIDE DEF q
  <2>6. /\ p' \in {p, q} /\ offset' \in {offset, 0} /\ available' \in {available, (available + q.len) % AvailMod}
        /\ pool' \subseteq pool \cup {q} /\ spoilt' \subseteq spoilt \cup Preempted \cup {"full"}
    BY <2>2 DEF Arrives
  <2>7. pbuf_queue' \in Seq(Pbuf) /\ Len(pbuf_queue') <= QueueLen
    <3>1. \/ pbuf_queue' = pbuf_queue
          \/ pbuf_queue' = Append(pbuf_queue, q) /\ Len(pbuf_queue) < QueueLen
      BY <2>2 DEF Arrives
    <3>2. CASE pbuf_queue' = pbuf_queue
      BY <1>1, <3>2
    <3>3. CASE pbuf_queue' = Append(pbuf_queue, q) /\ Len(pbuf_queue) < QueueLen
      <4>1. Len(pbuf_queue) + 1 <= QueueLen
        BY <1>0, <2>4, <3>3
      <4> QED
        BY <2>4, <3>3, <4>1
    <3> QED
      BY <3>1, <3>2, <3>3
  <2> QED
    BY <1>0, <1>1, <2>2, <2>3, <2>5, <2>6, <2>7
<1>9. CASE Reader /\ GetData /\ Fresh
  <2>0. received' = received /\ get.copied \in Nat /\ get.avail \in Nat /\ get.item \in Pbuf
    BY <1>9 DEF Fresh, CallOK, GetType
  <2>1. CASE GetCopy
    <3>1. got \o Bytes \in Seq(Nat)
      BY <1>1, <2>1, Copied, Joined DEF GetCopy, TypeOK
    <3> QED
      BY <1>1, <2>0, <2>1, <3>1 DEF GetCopy, data
  <2>2. CASE GetStore
    <3>0. get.avail - get.copied \in Int /\ offset + get.copied \in Int
      BY <1>0, <1>1, <2>0
    <3>1. (get.avail - get.copied) % AvailMod \in 0 .. AvailMod - 1
          /\ (offset + get.copied) % AvailMod \in 0 .. AvailMod - 1
      BY <1>1, <2>0, <3>0, Counted
    <3> QED
      BY <1>0, <1>1, <2>0, <2>2, <3>1 DEF GetStore
  <2>3. CASE GetTake
    <3>1. pbuf_queue # <<>> => /\ Tail(pbuf_queue) \in Seq(Pbuf)
                               /\ Len(Tail(pbuf_queue)) <= QueueLen
      BY <1>0, <1>1, Headed
    <3> QED
      BY <1>0, <1>1, <2>0, <2>3, <3>1 DEF GetTake
  <2>4. CASE GetSet
    <3>0. offset + get.copied \in Int
      BY <1>0, <1>1, <2>0
    <3>1. (offset + get.copied) % AvailMod \in 0 .. AvailMod - 1
      BY <1>1, <2>0, <3>0, Counted
    <3> QED
      BY <1>0, <1>1, <2>0, <2>4, <3>1 DEF GetSet
  <2> QED
    BY <1>9, <2>1, <2>2, <2>3, <2>4 DEF GetData
<1> QED
  BY <1>3, <1>4, <1>5, <1>6, <1>7, <1>8, <1>9, Ways

(* Every step keeps the types and the locals of a read.                     *)
LEMMA TypeNext ==
  ASSUME TypeOK, CallOK, UserOK, PcbOK, [Next]_vars
  PROVE  TypeOK' /\ CallOK'
<1>1. CallOK'
  BY CallNext DEF TypeOK
<1> QED
  BY <1>1, DataTypeNext, ClientTypeNext DEF TypeOK, ClientTypeOK
-----------------------------------------------------------------------------
(* The order of the pbufs.                                                  *)
LEMMA EmptyTuple == DOMAIN <<>> = {} /\ Len(<<>>) = 0
OBVIOUS

(* What has spoilt the stream is never forgotten.                           *)
LEMMA SpoiltKept ==
  ASSUME UserOK, PcbOK, TypeOK, [Next]_vars
  PROVE  spoilt \subseteq spoilt'
<1>1. CASE \E len \in Lengths : Arrival(len)
  <2>1. PICK len \in Lengths : Arrives([from |-> received, len |-> len])
    BY <1>1, Arrived
  <2> QED
    BY <2>1 DEF Arrives
<1>2. CASE Reader /\ GetData /\ Fresh
  BY <1>2 DEF GetData, GetCopy, GetStore, GetTake, GetSet
<1>3. CASE Quiet \/ Empty \/ (Reader /\ ReadStep /\ Fresh) \/ ReadNothing \/ Freed
  BY <1>3 DEF Quiet, Empty, ReadStep, ReadNothing, Freed, dataVars, Connect, GetCall, StopFree
<1> QED
  BY <1>1, <1>2, <1>3, Ways

(* OrderOK, for any pbufs.                                                  *)
Lined(cur, q) ==
  /\ cur = NULL => q = <<>>
  /\ cur # NULL => Stretch(cur) /\ \A i \in DOMAIN q : End(cur) <= q[i].from
  /\ \A i \in DOMAIN q : Stretch(q[i])
  /\ \A i, j \in DOMAIN q : i < j => End(q[i]) <= q[j].from

(* The pbufs stay in the order of the stream: the callback appends behind   *)
(* the last one, the reader takes the first.                                *)
LEMMA OrderNext ==
  ASSUME TypeOK, TypeOK', CallOK, CallOK', UserOK, PcbOK, OrderOK, [Next]_vars
  PROVE  OrderOK'
<1> SUFFICES ASSUME ~Chained', ~stopped'
             PROVE  /\ Lined(Cur, pbuf_queue)'
                    /\ p' # NULL => Stretch(p)'
                    /\ step' = "set" /\ get'.item # NULL => End(p') <= get'.item.from
  BY DEF OrderOK, Lined, End
<1>1. ~Chained
  BY SpoiltKept DEF Chained
<1>2. ~stopped =>
        /\ Lined(Cur, pbuf_queue)
        /\ p # NULL => Stretch(p)
        /\ step = "set" /\ get.item # NULL => End(p) <= get.item.from
  BY <1>1 DEF OrderOK, Lined
<1>3. /\ p \in Pbuf /\ p' \in Pbuf /\ get.item \in Pbuf /\ get'.item \in Pbuf
      /\ pbuf_queue \in Seq(Pbuf) /\ DOMAIN pbuf_queue = 1 .. Len(pbuf_queue)
      /\ Len(pbuf_queue) \in Nat /\ received \in Nat
  BY Consts, LenProperties DEF TypeOK, DataTypeOK
<1>4. CASE Quiet
  BY <1>2, <1>4 DEF Quiet, dataVars, data, call, Lined, Stretch, Cur
<1>5. CASE Empty
  BY <1>5, EmptyTuple DEF Empty, Connect, call, Lined, Cur
<1>6. CASE Reader /\ ReadStep /\ Fresh
  <2>1. p' = p /\ pbuf_queue' = pbuf_queue /\ step = "idle" /\ step' = "copy" /\ received' = received
        /\ stopped' = stopped
    BY <1>6 DEF ReadStep, GetCall, data, Fresh
  <2> QED
    BY <1>2, <2>1 DEF Lined, Stretch, Cur
<1>7. CASE ReadNothing
  BY <1>2, <1>7 DEF ReadNothing, data, call, user, Lined, Stretch, Cur
<1>8. CASE Freed
  BY <1>8 DEF Freed, StopFree
<1>9. CASE \E len \in Lengths : Arrival(len)
  <2>1. PICK len \in Lengths : Arrival(len)
    BY <1>9
  <2>2. PICK q \in Pbuf \ {NULL} :
          /\ Arrives(q) /\ q.from = received /\ q.len = len
          /\ received' = received + len /\ len \in Nat
          /\ ~stopped /\ UNCHANGED <<step, get, got>>
    BY <2>1, Arrived
  <2>3. q.from = received /\ End(q) = received + len /\ q.len = len
    BY <2>2 DEF End
  <2>4. /\ \A x \in Pbuf : Stretch(x) => Stretch(x)' /\ End(x) <= received
        /\ Stretch(q)'
    BY <1>3, <2>2, <2>3, PbufFacts DEF Stretch
  <2>5. CASE p = NULL /\ p' = q /\ pbuf_queue' = pbuf_queue
    <3>1. step = "idle" /\ Cur = NULL /\ Cur' = q
      BY <2>2, <2>5 DEF CallOK, Cur
    <3> QED
      BY <1>2, <2>2, <2>4, <2>5, <3>1, EmptyTuple DEF Lined
  <2>6. CASE p # NULL /\ p' = p /\ pbuf_queue' = Append(pbuf_queue, q) /\ spoilt' = spoilt \cup Preempted
    <3>1. Cur # NULL /\ Cur' = Cur /\ Cur \in Pbuf
      BY <1>3, <2>2, <2>6 DEF Cur, Preempted, Chained
    <3>2. /\ DOMAIN pbuf_queue' = 1 .. Len(pbuf_queue) + 1
          /\ \A i \in 1 .. Len(pbuf_queue) : pbuf_queue'[i] = pbuf_queue[i] /\ pbuf_queue[i] \in Pbuf
          /\ pbuf_queue'[Len(pbuf_queue) + 1] = q
      BY <1>3, <2>2, <2>6, Appended
    <3>3. \A i \in 1 .. Len(pbuf_queue) : Stretch(pbuf_queue[i])' /\ End(pbuf_queue[i]) <= received
                                          /\ Stretch(pbuf_queue[i])
      BY <1>2, <1>3, <2>2, <2>4, <3>2 DEF Lined
    <3>4. \A i \in DOMAIN pbuf_queue' : i \in 1 .. Len(pbuf_queue) \/ i = Len(pbuf_queue) + 1
      BY <1>3, <3>2
    <3>5. Stretch(Cur) /\ End(Cur) <= received /\ Stretch(Cur)'
      BY <1>2, <2>2, <2>4, <3>1 DEF Lined
    <3>6. \A i \in DOMAIN pbuf_queue' : Stretch(pbuf_queue[i])' /\ End(Cur) <= pbuf_queue'[i].from
      BY <1>2, <1>3, <2>2, <2>3, <2>4, <3>1, <3>2, <3>3, <3>4, <3>5 DEF Lined, Stretch
    <3>7. \A i, j \in DOMAIN pbuf_queue' : i < j => End(pbuf_queue'[i]) <= pbuf_queue'[j].from
      <4> SUFFICES ASSUME NEW i \in DOMAIN pbuf_queue', NEW j \in DOMAIN pbuf_queue', i < j
                   PROVE  End(pbuf_queue'[i]) <= pbuf_queue'[j].from
        OBVIOUS
      <4>1. i \in 1 .. Len(pbuf_queue)
        BY <1>3, <3>2
      <4>2. CASE j = Len(pbuf_queue) + 1
        BY <2>3, <3>2, <3>3, <4>1, <4>2
      <4>3. CASE j \in 1 .. Len(pbuf_queue)
        BY <1>2, <1>3, <2>2, <3>2, <4>1, <4>3 DEF Lined
      <4> QED
        BY <3>4, <4>2, <4>3
    <3>8. Stretch(p)'
      BY <1>2, <1>3, <2>2, <2>4, <2>6
    <3>9. step' = "set" /\ get'.item # NULL => End(p') <= get'.item.from
      BY <1>2, <2>2, <2>6
    <3> QED
      BY <3>1, <3>5, <3>6, <3>7, <3>8, <3>9 DEF Lined, End, Stretch
  <2>7. CASE p # NULL /\ p' = p /\ pbuf_queue' = pbuf_queue
    <3>1. Cur' = Cur /\ Cur \in Pbuf /\ \A i \in DOMAIN pbuf_queue : pbuf_queue[i] \in Pbuf
      BY <1>3, <2>2, <2>7, LenProperties DEF Cur
    <3>2. p' # NULL => Stretch(p)'
      BY <1>2, <1>3, <2>2, <2>4, <2>7
    <3>3. Cur # NULL => Stretch(Cur)'
      BY <1>2, <2>2, <2>4, <3>1 DEF Lined
    <3>4. \A i \in DOMAIN pbuf_queue : Stretch(pbuf_queue[i])'
      BY <1>2, <2>2, <2>4, <2>7, <3>1 DEF Lined
    <3> QED
      BY <1>2, <2>2, <2>7, <3>1, <3>2, <3>3, <3>4 DEF Lined, Stretch, End
  <2> QED
    BY <2>2, <2>5, <2>6, <2>7 DEF Arrives
<1>10. CASE Reader /\ GetData /\ Fresh
  <2>0. ~stopped /\ received' = received
    BY <1>10 DEF Reader, Fresh
  <2>1. CASE GetCopy \/ GetStore
    <3>1. p' = p /\ pbuf_queue' = pbuf_queue /\ step # "set" /\ step' # "set"
      BY <2>1 DEF GetCopy, GetStore, data
    <3> QED
      BY <1>2, <2>0, <3>1 DEF Lined, Stretch, Cur
  <2>2. CASE GetTake
    <3>1. p' = p /\ step = "take" /\ step' = "set" /\ p # NULL /\ Cur = p /\ Cur' = get'.item
      BY <2>2 DEF GetTake, CallOK, Cur
    <3>2. CASE pbuf_queue = <<>>
      <4>1. get'.item = NULL /\ pbuf_queue' = <<>>
        BY <1>3, <2>2, <3>2 DEF GetTake, CallOK, GetType
      <4> QED
        BY <1>2, <2>0, <3>1, <4>1, EmptyTuple DEF Lined, Stretch
    <3>3. CASE pbuf_queue # <<>>
      <4>1. get'.item = pbuf_queue[1] /\ pbuf_queue' = Tail(pbuf_queue)
        BY <1>3, <2>2, <3>3, Headed DEF GetTake, CallOK, GetType
      <4>2. /\ DOMAIN pbuf_queue' = 1 .. Len(pbuf_queue) - 1 /\ Len(pbuf_queue) >= 1
            /\ \A i \in 1 .. Len(pbuf_queue) - 1 : pbuf_queue'[i] = pbuf_queue[i + 1]
        BY <1>3, <3>3, <4>1, Headed
      <4>3. 1 \in DOMAIN pbuf_queue /\ \A i \in 1 .. Len(pbuf_queue) - 1 : i + 1 \in DOMAIN pbuf_queue /\ 1 < i + 1
        BY <1>3, <4>2
      <4>4. Stretch(get'.item) /\ End(p) <= get'.item.from /\ Stretch(p)
        BY <1>2, <2>0, <3>1, <4>1, <4>3 DEF Lined
      <4>5. \A i \in DOMAIN pbuf_queue' : Stretch(pbuf_queue'[i]) /\ End(get'.item) <= pbuf_queue'[i].from
        BY <1>2, <2>0, <4>1, <4>2, <4>3 DEF Lined
      <4>6. \A i, j \in DOMAIN pbuf_queue' : i < j => End(pbuf_queue'[i]) <= pbuf_queue'[j].from
        <5> SUFFICES ASSUME NEW i \in DOMAIN pbuf_queue', NEW j \in DOMAIN pbuf_queue', i < j
                     PROVE  End(pbuf_queue'[i]) <= pbuf_queue'[j].from
          OBVIOUS
        <5>1. i + 1 \in DOMAIN pbuf_queue /\ j + 1 \in DOMAIN pbuf_queue /\ i + 1 < j + 1
          BY <1>3, <4>2
        <5> QED
          BY <1>2, <2>0, <4>2, <5>1 DEF Lined
      <4>7. get'.item # NULL
        BY <1>3, <4>4, PbufFacts DEF Stretch
      <4> QED
        BY <2>0, <3>1, <4>4, <4>5, <4>6, <4>7 DEF Lined, Stretch, End
    <3> QED
      BY <3>2, <3>3
  <2>3. CASE GetSet
    <3>1. /\ p' = get.item /\ pbuf_queue' = pbuf_queue /\ step = "set" /\ step' # "set"
          /\ Cur = get.item /\ Cur' = get.item
      BY <2>3 DEF GetSet, Cur
    <3> QED
      BY <1>2, <2>0, <3>1 DEF Lined, Stretch, End
  <2> QED
    BY <1>10, <2>1, <2>2, <2>3 DEF GetData
<1> QED
  BY <1>4, <1>5, <1>6, <1>7, <1>8, <1>9, <1>10, Ways
-----------------------------------------------------------------------------
(* What has been read.                                                      *)
LEMMA FitsAll ==
  ASSUME Fits
  PROVE  /\ MaxLen \in Nat /\ (QueueLen + 1) * MaxLen < AvailMod
         /\ \A len \in Lengths : len <= MaxLen /\ len < AvailMod /\ len > 0
<1>1. MaxLen \in Nat /\ Lengths \subseteq 0 .. MaxLen /\ (QueueLen + 1) * MaxLen < AvailMod
  BY DEF Fits, MaxLen
<1>2. (QueueLen + 1) * MaxLen >= MaxLen
  BY <1>1, Consts
<1>3. \A len \in Lengths : len <= MaxLen /\ len < AvailMod /\ len > 0
  <2> SUFFICES ASSUME NEW len \in Lengths PROVE len <= MaxLen /\ len < AvailMod /\ len > 0
    OBVIOUS
  <2>1. len \in Nat \ {0} /\ len <= MaxLen
    BY <1>1, Consts
  <2>2. (QueueLen + 1) * MaxLen \in Int
    BY <1>1, Consts
  <2> QED
    BY <1>1, <1>2, <2>1, <2>2, Consts
<1> QED
  BY <1>1, <1>3

(* Where the reader is in the pbuf it reads.                                *)
Within ==
  \/ Upto(p.from)
  \/ /\ IF step = "store" THEN Pos <= p.len ELSE Pos < p.len
     /\ Upto(p.from + Pos)

(* The part of GotOK about a connection that is not stopped.                *)
Behind ==
  /\ Upto(received)
  /\ step \in {"take", "set"} => Upto(End(p))
  /\ step \in {"idle", "copy", "store"} /\ p # NULL => Within

(* No byte comes twice or before an earlier one: a read goes on where the   *)
(* last one ended, and the next pbuf is further on in the stream.           *)
LEMMA GotNext ==
  ASSUME Fits, TypeOK, TypeOK', CallOK, CallOK', UserOK, PcbOK, OrderOK, OrderOK', GotOK, [Next]_vars
  PROVE  GotOK'
<1> SUFFICES ASSUME ~Chained'
             PROVE  Rising' /\ (~stopped' => Behind')
  BY DEF GotOK, Behind, Within
<1>1. ~Chained
  BY SpoiltKept DEF Chained
<1>2. Rising /\ (~stopped => Behind)
  BY <1>1 DEF GotOK, Behind, Within
<1>3. /\ p \in Pbuf /\ p' \in Pbuf /\ p.from \in Nat /\ p.len \in Nat /\ received \in Nat
      /\ End(p) = p.from + p.len
      /\ offset \in Nat /\ got \in Seq(Nat) /\ DOMAIN got = 1 .. Len(got) /\ Len(got) \in Nat
      /\ \A i \in DOMAIN got : got[i] \in Nat
      /\ get.copied \in Nat
  <2>1. got \in Seq(Nat) /\ DOMAIN got = 1 .. Len(got) /\ Len(got) \in Nat
        /\ \A i \in DOMAIN got : got[i] \in Nat
    BY Elements DEF TypeOK, DataTypeOK
  <2> QED
    BY <2>1, Consts, PbufFacts DEF TypeOK, DataTypeOK
<1>4. CASE Quiet
  BY <1>2, <1>4 DEF Quiet, dataVars, data, call, Rising, Behind, Within, Upto, Pos, End
<1>5. CASE Empty
  BY <1>5, EmptyTuple DEF Empty, Connect, call, Rising, Behind, Upto
<1>6. CASE Reader /\ ReadStep /\ Fresh
  <2>1. /\ p' = p /\ offset' = offset /\ got' = got /\ step = "idle" /\ step' = "copy"
        /\ received' = received /\ stopped' = stopped /\ p # NULL
    BY <1>6 DEF ReadStep, GetCall, data, Fresh
  <2> QED
    BY <1>2, <2>1 DEF Rising, Behind, Within, Upto, Pos
<1>7. CASE ReadNothing
  <2>1. /\ p' = p /\ offset' = offset /\ got' = Append(got, 0) /\ step = "idle" /\ step' = "idle"
        /\ received' = received /\ stopped' = stopped
    BY <1>7 DEF ReadNothing, data, call, user, Idle
  <2>2. /\ DOMAIN got' = 1 .. Len(got) + 1
        /\ \A i \in 1 .. Len(got) : got'[i] = got[i]
        /\ got'[Len(got) + 1] = 0
    BY <1>3, <2>1, Appended
  <2>3. \A n \in Nat : Upto(n) => Upto(n)'
    BY <1>3, <2>2 DEF Upto
  <2>4. Rising'
    BY <1>2, <1>3, <2>2 DEF Rising
  <2>5. (received \in Nat /\ p.from \in Nat /\ p.from + Pos \in Nat) /\ Pos = offset /\ Pos' = offset
    BY <1>3, <2>1 DEF Pos
  <2>6. Upto(received) => \A i \in DOMAIN got' : got'[i] <= received
    BY <2>3, <2>5 DEF Upto
  <2>7. Upto(p.from) => \A i \in DOMAIN got' : got'[i] <= p.from
    BY <2>3, <2>5 DEF Upto
  <2>8. Upto(p.from + Pos) => \A i \in DOMAIN got' : got'[i] <= p.from + Pos
    BY <2>3, <2>5 DEF Upto
  <2> QED
    BY <1>2, <2>1, <2>4, <2>5, <2>6, <2>7, <2>8 DEF Behind, Within, Upto
<1>8. CASE Freed
  BY <1>2, <1>8 DEF Freed, StopFree, Rising
<1>9. CASE \E len \in Lengths : Arrival(len)
  <2>1. PICK len \in Lengths : Arrival(len)
    BY <1>9
  <2>2. PICK q \in Pbuf \ {NULL} :
          /\ Arrives(q) /\ q.from = received /\ q.len = len
          /\ received' = received + len /\ len \in Nat
          /\ ~stopped /\ UNCHANGED <<step, get, got>>
    BY <2>1, Arrived
  <2>3. Upto(received) /\ Upto(received)'
    BY <1>2, <1>3, <2>2 DEF Behind, Upto
  <2>4. Rising'
    BY <1>2, <2>2 DEF Rising
  <2>5. CASE p = NULL /\ p' = q /\ pbuf_queue' = pbuf_queue
    <3>1. step = "idle" /\ step' = "idle"
      BY <2>2, <2>5 DEF CallOK
    <3>2. Upto(p.from)'
      BY <2>2, <2>3, <2>5 DEF Upto
    <3> QED
      BY <2>2, <2>3, <2>4, <3>1, <3>2 DEF Behind, Within, Upto
  <2>6. CASE p' = p /\ offset' = offset
    BY <1>2, <2>2, <2>3, <2>4, <2>6 DEF Behind, Within, Upto, Pos, End
  <2> QED
    BY <2>2, <2>5, <2>6 DEF Arrives
<1>10. CASE Reader /\ GetData /\ Fresh
  <2>0. /\ ~stopped /\ received' = received /\ stopped' = stopped /\ Behind /\ step # "idle" /\ p # NULL
        /\ p.len \in Lengths /\ End(p) <= received
    BY <1>1, <1>2, <1>10 DEF Reader, Fresh, GetData, GetCopy, GetStore, GetTake, GetSet, CallOK, OrderOK, Stretch
  <2>1. CASE GetCopy
    <3>1. /\ p' = p /\ offset' = offset /\ got' = got \o Bytes /\ step = "copy" /\ step' = "store"
          /\ get'.copied = Len(Bytes)
      <4>1. get' = [get EXCEPT !.copied = Len(Bytes), !.avail = available] /\ get \in GetType
        BY <2>1 DEF GetCopy, CallOK
      <4>2. get'.copied = Len(Bytes)
        BY <4>1 DEF GetType
      <4> QED
        BY <2>1, <4>2 DEF GetCopy, data
    <3>2. /\ Left \in Nat /\ ToCopy \in Nat /\ ToCopy > 0 /\ Taken \in Nat
          /\ Left = (IF offset < p.len THEN p.len - offset ELSE 0)
          /\ Bytes \in Seq(Nat) /\ Len(Bytes) \in Nat
          /\ Single /\ Left = 0 => Bytes = <<0>> /\ Len(Bytes) = 1
          /\ ~(Single /\ Left = 0) =>
              /\ Len(Bytes) = Taken
              /\ \A i \in 1 .. Taken : Bytes[i] = p.from + offset + i
      BY <3>1, Copied, LenProperties DEF TypeOK
    <3>3. /\ DOMAIN got' = 1 .. Len(got) + Len(Bytes)
          /\ \A i \in 1 .. Len(got) : got'[i] = got[i]
          /\ \A i \in Len(got) + 1 .. Len(got) + Len(Bytes) : got'[i] = Bytes[i - Len(got)]
      BY <1>3, <3>1, <3>2, Joined
    <3>4. Pos = offset /\ Pos' = offset + Len(Bytes) /\ Within
      BY <2>0, <3>1 DEF Pos, Behind
    <3>5. CASE Single /\ Left = 0
      <4>1. offset >= p.len /\ Upto(p.from)
        BY <1>3, <3>1, <3>2, <3>4, <3>5 DEF Within
      <4>2. /\ DOMAIN got' = 1 .. Len(got) + 1 /\ \A i \in 1 .. Len(got) : got'[i] = got[i]
            /\ got'[Len(got) + 1] = 0
        <5>1. Len(Bytes) = 1 /\ Bytes[1] = 0
          BY <3>2, <3>5
        <5>2. Len(got) + 1 \in Len(got) + 1 .. Len(got) + Len(Bytes) /\ (Len(got) + 1) - Len(got) = 1
          BY <1>3, <5>1
        <5> QED
          BY <3>3, <5>1, <5>2
      <4>3. \A i \in DOMAIN got' : got'[i] <= p.from /\ got'[i] <= received
        BY <1>3, <2>0, <4>1, <4>2 DEF Upto, Behind
      <4>4. Rising'
        BY <1>2, <1>3, <4>2 DEF Rising
      <4> QED
        BY <2>0, <3>1, <4>3, <4>4 DEF Behind, Within, Upto
    <3>6. CASE Left = 0 /\ ~Single
      <4>1. offset >= p.len /\ Upto(p.from) /\ Len(Bytes) = 0
        BY <1>3, <3>1, <3>2, <3>4, <3>6 DEF Within, Taken
      <4>2. DOMAIN got' = 1 .. Len(got) /\ \A i \in 1 .. Len(got) : got'[i] = got[i]
        BY <1>3, <3>3, <4>1
      <4>3. Rising' /\ Upto(p.from)' /\ Upto(received)'
        BY <1>2, <1>3, <2>0, <3>1, <4>1, <4>2 DEF Upto, Behind, Rising
      <4> QED
        BY <2>0, <3>1, <4>3 DEF Behind, Within
    <3>7. CASE Left # 0
      <4>1. /\ offset < p.len /\ Len(Bytes) \in 1 .. p.len - offset
            /\ \A i \in 1 .. Len(Bytes) : Bytes[i] = p.from + offset + i
        BY <1>3, <3>2, <3>7 DEF Taken
      <4>2. Upto(p.from + offset)
        BY <1>3, <3>4 DEF Within, Upto
      <4>3. \A i \in Len(got) + 1 .. Len(got) + Len(Bytes) :
              got'[i] = p.from + offset + (i - Len(got))
        <5> SUFFICES ASSUME NEW i \in Len(got) + 1 .. Len(got) + Len(Bytes)
                     PROVE  got'[i] = p.from + offset + (i - Len(got))
          OBVIOUS
        <5>1. i - Len(got) \in 1 .. Len(Bytes)
          BY <1>3, <3>2
        <5> QED
          BY <3>3, <4>1, <5>1
      <4>4. \A i \in DOMAIN got' : i \in 1 .. Len(got) \/ i \in Len(got) + 1 .. Len(got) + Len(Bytes)
        BY <1>3, <3>2, <3>3
      <4>5. \A i \in 1 .. Len(got) : got'[i] = got[i] /\ got[i] <= p.from + offset
        BY <1>3, <3>3, <4>2 DEF Upto
      <4>6. \A i \in DOMAIN got' : got'[i] <= p.from + offset + Len(Bytes)
        <5> SUFFICES ASSUME NEW i \in DOMAIN got' PROVE got'[i] <= p.from + offset + Len(Bytes)
          OBVIOUS
        <5>1. CASE i \in 1 .. Len(got)
          BY <1>3, <3>2, <4>5, <5>1
        <5>2. CASE i \in Len(got) + 1 .. Len(got) + Len(Bytes)
          BY <1>3, <3>2, <4>3, <5>2
        <5> QED
          BY <4>4, <5>1, <5>2
      <4>7. Rising'
        <5> SUFFICES ASSUME NEW i \in DOMAIN got', NEW j \in DOMAIN got',
                            i < j, got'[i] # 0, got'[j] # 0
                     PROVE  got'[i] < got'[j]
          BY DEF Rising
        <5>1. CASE j \in 1 .. Len(got)
          <6>1. i \in 1 .. Len(got)
            BY <1>3, <3>3, <5>1
          <6> QED
            BY <1>2, <1>3, <4>5, <5>1, <6>1 DEF Rising
        <5>2. CASE j \in Len(got) + 1 .. Len(got) + Len(Bytes) /\ i \in 1 .. Len(got)
          BY <1>3, <3>2, <4>3, <4>5, <5>2
        <5>3. CASE j \in Len(got) + 1 .. Len(got) + Len(Bytes) /\ i \in Len(got) + 1 .. Len(got) + Len(Bytes)
          BY <1>3, <3>2, <4>3, <5>3
        <5> QED
          BY <4>4, <5>1, <5>2, <5>3
      <4>8. offset + Len(Bytes) <= p.len /\ p.from + offset + Len(Bytes) <= received
        BY <1>3, <2>0, <3>2, <4>1
      <4>9. Upto(received)'
        <5> SUFFICES ASSUME NEW i \in DOMAIN got' PROVE got'[i] <= received
          BY <2>0 DEF Upto
        <5>1. got'[i] \in Nat
          BY Elements DEF TypeOK, DataTypeOK
        <5> QED
          BY <1>3, <3>2, <4>6, <4>8, <5>1
      <4>10. Upto(p.from + Pos)'
        <5>1. p'.from + Pos' = p.from + offset + Len(Bytes)
          <6>1. p'.from = p.from /\ Pos' = offset + Len(Bytes)
            BY <3>1, <3>4
          <6>2. p.from \in Nat /\ offset \in Nat /\ Len(Bytes) \in Nat
            BY <1>3, <3>2
          <6> HIDE DEF Pos
          <6> QED
            BY <6>1, <6>2
        <5> QED
          BY <4>6, <5>1 DEF Upto
      <4> QED
        BY <2>0, <3>1, <3>4, <4>7, <4>8, <4>9, <4>10 DEF Behind, Within
    <3> QED
      BY <3>5, <3>6, <3>7
  <2>2. CASE GetStore
    <3>1. p' = p /\ got' = got /\ step = "store" /\ Within /\ Pos = offset + get.copied /\ Pos \in Nat
      BY <1>3, <2>0, <2>2 DEF GetStore, Behind, Pos
    <3>2. Rising' /\ Upto(received)'
      BY <1>2, <2>0, <3>1 DEF Rising, Behind, Upto
    <3>3. CASE PbufDone
      <4>1. step' = "take"
        BY <2>2, <3>3 DEF GetStore
      <4>2. Upto(End(p))
        BY <1>3, <3>1 DEF Within, Upto
      <4> QED
        BY <3>1, <3>2, <4>1, <4>2 DEF Behind, Upto
    <3>4. CASE ~PbufDone
      <4>1. step' = "idle" /\ offset' = Pos % AvailMod /\ Pos # p.len
        BY <2>2, <3>1, <3>4 DEF GetStore, PbufDone
      <4>2. CASE Upto(p.from)
        BY <3>1, <3>2, <4>1, <4>2 DEF Behind, Within, Upto
      <4>3. CASE Pos <= p.len /\ Upto(p.from + Pos)
        <5>1. Pos < p.len /\ p.len < AvailMod
          BY <1>3, <2>0, <3>1, <4>1, <4>3, FitsAll
        <5>2. Pos \in 0 .. AvailMod - 1
          BY <1>3, <3>1, <5>1, Consts
        <5>3. offset' = Pos
          BY <4>1, <5>2, Counted
        <5>4. Pos' = Pos
          BY <4>1, <5>3 DEF Pos
        <5>5. Upto(p.from + Pos)'
          BY <3>1, <4>3, <5>4 DEF Upto
        <5> QED
          BY <3>1, <3>2, <4>1, <5>1, <5>4, <5>5 DEF Behind, Within
      <4> QED
        BY <3>1, <4>2, <4>3 DEF Within
    <3> QED
      BY <3>3, <3>4
  <2>3. CASE GetTake
    <3>1. p' = p /\ got' = got /\ step = "take" /\ step' = "set"
      BY <2>3 DEF GetTake
    <3> QED
      BY <1>2, <2>0, <3>1 DEF Behind, Rising, Upto, End
  <2>4. CASE GetSet
    <3>1. /\ p' = get.item /\ got' = got /\ step = "set" /\ step' \in {"idle", "copy"}
          /\ Upto(End(p)) /\ Upto(received)
      BY <2>0, <2>4 DEF GetSet, Behind
    <3>2. Rising' /\ Upto(received)'
      BY <1>2, <2>0, <3>1 DEF Rising, Upto
    <3>3. p' # NULL => Upto(p.from)'
      <4> SUFFICES ASSUME p' # NULL PROVE Upto(p.from)'
        OBVIOUS
      <4>1. End(p) <= p'.from /\ p'.from \in Nat /\ End(p) \in Nat
        BY <1>1, <1>3, <2>0, <3>1, PbufFacts DEF OrderOK
      <4> QED
        BY <1>3, <3>1, <4>1 DEF Upto
    <3> QED
      BY <3>1, <3>2, <3>3 DEF Behind, Within
  <2> QED
    BY <1>10, <2>1, <2>2, <2>3, <2>4 DEF GetData
<1> QED
  BY <1>4, <1>5, <1>6, <1>7, <1>8, <1>9, <1>10, Ways
-----------------------------------------------------------------------------
(* The stream without a gap.                                                *)
LEMMA Spans ==
  ASSUME Fits
  PROVE  /\ MaxLen \in Nat /\ \A n \in Int : Span(n) \in Int /\ Span(n + 1) = Span(n) + MaxLen
         /\ Span(0) = 0
         /\ \A n \in Nat : n < QueueLen => Span(n) + MaxLen + MaxLen < AvailMod
<1>1. MaxLen \in Nat /\ (QueueLen + 1) * MaxLen < AvailMod /\ QueueLen \in Nat /\ AvailMod \in Nat
  BY FitsAll, Consts
<1>2. \A n \in Int : n * MaxLen \in Int /\ (n + 1) * MaxLen = n * MaxLen + MaxLen
  BY <1>1
<1>3. \A n \in Nat : n < QueueLen => n * MaxLen + MaxLen + MaxLen < AvailMod
  <2> SUFFICES ASSUME NEW n \in Nat, n < QueueLen
               PROVE  n * MaxLen + MaxLen + MaxLen < AvailMod
    OBVIOUS
  <2>1. (QueueLen + 1) * MaxLen = n * MaxLen + MaxLen + MaxLen + (QueueLen - (n + 1)) * MaxLen
    BY <1>1
  <2>2. (QueueLen - (n + 1)) * MaxLen >= 0
    BY <1>1
  <2>3. n * MaxLen \in Int /\ (QueueLen - (n + 1)) * MaxLen \in Int
    BY <1>1
  <2> QED
    BY <1>1, <2>1, <2>2, <2>3
<1> QED
  BY <1>1, <1>2, <1>3 DEF Span

(* One pbuf alone, up to its end.                                           *)
LEMMA LinkNew ==
  ASSUME Fits, NEW x \in Pbuf
  PROVE  Linked(x, <<>>, End(x))
BY Spans, EmptyTuple, PbufFacts DEF Linked

(* A segment appended to the queue goes on where the stream ended.          *)
LEMMA LinkAppend ==
  ASSUME Fits, NEW cur \in Pbuf, NEW q \in Seq(Pbuf), NEW n \in Nat, NEW x \in Pbuf,
         cur # NULL, Linked(cur, q, n), x.from = n, x.len <= MaxLen
  PROVE  Linked(cur, Append(q, x), End(x))
<1> DEFINE r == Append(q, x)
<1>1. /\ r \in Seq(Pbuf) /\ r # <<>> /\ Len(q) \in Nat /\ Len(r) = Len(q) + 1
      /\ DOMAIN q = 1 .. Len(q) /\ DOMAIN r = 1 .. Len(q) + 1
      /\ \A i \in 1 .. Len(q) : r[i] = q[i] /\ q[i] \in Pbuf
      /\ r[Len(q) + 1] = x
  BY Appended, Elements
<1> HIDE DEF r
<1>2. End(x) = n + x.len /\ x.len \in Nat /\ MaxLen \in Nat /\ End(x) <= n + MaxLen /\ End(cur) \in Nat
  <2>1. x.len \in Nat /\ MaxLen \in Nat /\ End(x) = x.from + x.len /\ End(cur) \in Nat
    BY PbufFacts, Spans
  <2> QED
    BY <2>1
<1>3. q # <<>> => Len(q) >= 1
  BY <1>1, Headed
<1>4. q = <<>> => Len(q) = 0
  BY EmptyTuple
<1>5. \A m \in Int : Span(m) \in Int /\ Span(m + 1) = Span(m) + MaxLen
  BY Spans
<1>6. End(cur) = r[1].from
  <2>1. CASE q = <<>>
    BY <1>1, <1>4, <2>1 DEF Linked
  <2>2. CASE q # <<>>
    BY <1>1, <1>3, <2>2 DEF Linked
  <2> QED
    BY <2>1, <2>2
<1>7. \A i \in 1 .. Len(r) - 1 : End(r[i]) = r[i + 1].from
  <2> SUFFICES ASSUME NEW i \in 1 .. Len(q) PROVE End(r[i]) = r[i + 1].from
    BY <1>1
  <2>1. q # <<>>
    BY <1>1, <1>4
  <2>2. CASE i = Len(q)
    BY <1>1, <2>1, <2>2 DEF Linked
  <2>3. CASE i \in 1 .. Len(q) - 1
    <3>1. i + 1 \in 1 .. Len(q)
      BY <1>1, <2>3
    <3> QED
      BY <1>1, <2>1, <2>3, <3>1 DEF Linked
  <2> QED
    BY <1>1, <2>2, <2>3
<1>8. End(x) <= End(cur) + Span(Len(r))
  <2>1. n <= End(cur) + Span(Len(q))
    BY DEF Linked
  <2>2. Span(Len(q)) \in Int /\ Span(Len(q) + 1) = Span(Len(q)) + MaxLen
    BY <1>1, <1>5
  <2>3. Span(Len(r)) = Span(Len(q) + 1)
    BY <1>1
  <2> QED
    BY <1>2, <2>1, <2>2, <2>3
<1>9. \A i \in DOMAIN r : End(x) <= End(r[i]) + Span(Len(r) - i)
  <2> SUFFICES ASSUME NEW i \in 1 .. Len(q) + 1
               PROVE  End(x) <= End(r[i]) + Span(Len(q) + 1 - i)
    BY <1>1
  <2>1. CASE i = Len(q) + 1
    <3>1. r[i] = x /\ Len(q) + 1 - i = 0
      BY <1>1, <2>1
    <3>2. Span(Len(q) + 1 - i) = 0
      BY <3>1, Spans
    <3>3. End(x) \in Int
      BY <1>2
    <3> QED
      BY <3>1, <3>2, <3>3
  <2>2. CASE i \in 1 .. Len(q)
    <3>1. Len(q) - i \in Int /\ Len(q) + 1 - i = (Len(q) - i) + 1 /\ End(q[i]) \in Nat
      BY <1>1, <2>2, PbufFacts
    <3>2. n <= End(q[i]) + Span(Len(q) - i)
      BY <1>1, <2>2 DEF Linked
    <3>3. Span(Len(q) - i) \in Int /\ Span(Len(q) + 1 - i) = Span(Len(q) - i) + MaxLen
      BY <1>5, <3>1
    <3> QED
      BY <1>1, <1>2, <2>2, <3>1, <3>2, <3>3
  <2> QED
    BY <1>1, <2>1, <2>2
<1>10. End(r[Len(r)]) = End(x)
  BY <1>1
<1> QED
  BY <1>1, <1>6, <1>7, <1>8, <1>9, <1>10 DEF Linked, r

(* When the first pbuf of the queue becomes the current one, the others are *)
(* behind it.                                                               *)
LEMMA LinkTail ==
  ASSUME NEW cur \in Pbuf, NEW q \in Seq(Pbuf), NEW n \in Nat, q # <<>>, Linked(cur, q, n)
  PROVE  Linked(q[1], Tail(q), n)
<1> DEFINE r == Tail(q)
<1>1. /\ Len(q) \in Nat /\ Len(q) >= 1 /\ DOMAIN q = 1 .. Len(q)
      /\ r \in Seq(Pbuf) /\ Len(r) = Len(q) - 1 /\ DOMAIN r = 1 .. Len(q) - 1
      /\ \A i \in 1 .. Len(q) - 1 : r[i] = q[i + 1]
  BY Headed
<1> HIDE DEF r
<1>2. CASE r = <<>>
  <2>1. Len(q) = 1
    <3>1. Len(r) = 0
      BY <1>2, EmptyTuple
    <3>2. Len(r) = Len(q) - 1 /\ Len(q) \in Int
      BY <1>1
    <3> QED
      BY <3>1, <3>2
  <2>2. End(q[1]) = n /\ n <= End(q[1]) + Span(1 - 1)
    BY <1>1, <2>1 DEF Linked
  <2> QED
    BY <1>2, <2>2, EmptyTuple DEF Linked, r
<1>3. CASE r # <<>>
  <2>1. Len(q) >= 2
    BY <1>1, <1>3, Headed
  <2>2. r[1] = q[2] /\ r[Len(r)] = q[Len(q)]
    BY <1>1, <2>1
  <2>3. End(q[1]) = q[1 + 1].from
    BY <1>1, <2>1 DEF Linked
  <2>4. End(q[Len(q)]) = n
    BY <1>1 DEF Linked
  <2>5. \A i \in 1 .. Len(r) - 1 : End(r[i]) = r[i + 1].from
    <3> SUFFICES ASSUME NEW i \in 1 .. Len(q) - 2 PROVE End(r[i]) = r[i + 1].from
      BY <1>1
    <3>1. r[i] = q[i + 1] /\ r[i + 1] = q[(i + 1) + 1] /\ i + 1 \in 1 .. Len(q) - 1
      BY <1>1
    <3> QED
      BY <1>1, <3>1 DEF Linked
  <2>6. n <= End(q[1]) + Span(Len(r))
    BY <1>1 DEF Linked
  <2>7. \A i \in DOMAIN r : n <= End(r[i]) + Span(Len(r) - i)
    <3> SUFFICES ASSUME NEW i \in 1 .. Len(q) - 1 PROVE n <= End(r[i]) + Span(Len(r) - i)
      BY <1>1
    <3>1. r[i] = q[i + 1] /\ Len(r) - i = Len(q) - (i + 1) /\ i + 1 \in DOMAIN q
      BY <1>1
    <3>2. n <= End(q[i + 1]) + Span(Len(q) - (i + 1))
      BY <3>1 DEF Linked
    <3> QED
      BY <3>1, <3>2
  <2> QED
    BY <1>3, <2>2, <2>3, <2>4, <2>5, <2>6, <2>7 DEF Linked, r
<1> QED
  BY <1>2, <1>3
(* The pbufs of a gapless connection after every step.                      *)
LEMMA Counting ==
  ASSUME NEW n \in Nat, NEW s \in Seq(Nat)
  PROVE  s = [i \in 1 .. n |-> i] <=> Len(s) = n /\ \A i \in 1 .. n : s[i] = i
<1>1. Len(s) \in Nat /\ DOMAIN s = 1 .. Len(s) /\ s \in [1 .. Len(s) -> Nat]
  BY LenProperties
<1>2. [i \in 1 .. n |-> i] \in Seq(Nat) /\ Len([i \in 1 .. n |-> i]) = n
  OBVIOUS
<1>3. ASSUME Len(s) = n, \A i \in 1 .. n : s[i] = i
      PROVE  s = [i \in 1 .. n |-> i]
  BY <1>1, <1>3
<1>4. ASSUME s = [i \in 1 .. n |-> i]
      PROVE  Len(s) = n /\ \A i \in 1 .. n : s[i] = i
  BY <1>2, <1>4
<1> QED
  BY <1>3, <1>4

(* The lengths fit, as far as there is room in the queue.                   *)
LEMMA Room ==
  ASSUME Fits, NEW n \in Nat, n < QueueLen, NEW len \in Lengths,
         NEW a \in Int, NEW q \in Pbuf, q.len \in Lengths,
         a >= 0, a <= q.len + Span(n)
  PROVE  (a + len) % AvailMod = a + len
<1>1. q.len \in Nat /\ q.len <= MaxLen /\ len \in Nat /\ len <= MaxLen
  BY FitsAll, Consts
<1>2. MaxLen \in Nat /\ Span(n) \in Int /\ Span(n) + MaxLen + MaxLen < AvailMod /\ AvailMod \in Nat
  BY Spans, Consts
<1>3. a + len \in 0 .. AvailMod - 1
  BY <1>1, <1>2
<1> QED
  BY <1>3, Counted

(* A pbuf that comes leaves no gap in the stream.                           *)
LEMMA ArrivalStream ==
  ASSUME Fits, TypeOK, CallOK, OrderOK, Gapless, ~stopped, spoilt = {}, spoilt' = {},
         NEW len \in Lengths, Arrival(len)
  PROVE  Gapless'
<1>1. PICK q \in Pbuf \ {NULL} :
        /\ Arrives(q) /\ q.from = received /\ q.len = len
        /\ received' = received + len /\ len \in Nat /\ len > 0
        /\ UNCHANGED <<step, get, got>>
  BY Arrived
<1>2. /\ p \in Pbuf /\ received \in Nat /\ pbuf_queue \in Seq(Pbuf) /\ Total \in Nat /\ Total' = Total
      /\ Len(pbuf_queue) \in Nat /\ Cur \in Pbuf /\ offset \in Nat /\ available \in Int
      /\ End(q) = received + len /\ received' = End(q) /\ len <= MaxLen
      /\ p.from \in Nat /\ p.len \in Nat /\ End(p) = p.from + p.len
      /\ get.item.from \in Nat /\ get.item.len \in Nat /\ End(get.item) = get.item.from + get.item.len
  <2>1. /\ p \in Pbuf /\ received \in Nat /\ pbuf_queue \in Seq(Pbuf) /\ got \in Seq(Nat)
        /\ Cur \in Pbuf /\ offset \in Nat /\ available \in Int /\ get.item \in Pbuf
    BY Consts DEF TypeOK, DataTypeOK, Cur
  <2>2. Total \in Nat /\ Total' = Total /\ Len(pbuf_queue) \in Nat
    BY <1>1, <2>1, Elements DEF Total
  <2>3. End(q) = received + len /\ received' = End(q) /\ len <= MaxLen
    BY <1>1, FitsAll DEF End
  <2> QED
    BY <2>1, <2>2, <2>3, PbufFacts
<1>3. CASE p = NULL /\ p' = q /\ offset' = 0 /\ pbuf_queue' = pbuf_queue
           /\ available' = (available + q.len) % AvailMod
  <2>1. step = "idle" /\ step' = "idle" /\ Cur = NULL /\ Cur' = q /\ pbuf_queue = <<>>
    BY <1>1, <1>3 DEF CallOK, Cur, OrderOK, Chained
  <2>2. available = 0 /\ Total = received
    BY <1>2, <2>1 DEF Gapless
  <2>3. len \in 0 .. AvailMod - 1
    BY <1>1, FitsAll, Consts
  <2>4. available' = len
    BY <1>1, <1>3, <2>2, <2>3, Counted
  <2>5. Linked(Cur, pbuf_queue, received)'
    BY <1>1, <1>2, <1>3, <2>1, LinkNew
  <2>6. p'.from + offset' = Total /\ offset' < p'.len /\ available' = received' - Total /\ Cur' # NULL
    BY <1>1, <1>2, <1>3, <2>1, <2>2, <2>4
  <2> QED
    BY <1>1, <1>2, <2>1, <2>5, <2>6 DEF Gapless
<1>4. CASE p # NULL /\ Len(pbuf_queue) < QueueLen /\ p' = p /\ offset' = offset
           /\ pbuf_queue' = Append(pbuf_queue, q)
           /\ available' = (available + q.len) % AvailMod
           /\ spoilt' = spoilt \cup Preempted
  <2>1. step # "store" /\ (step = "set" => get.item # NULL) /\ Cur # NULL /\ Cur' = Cur
    BY <1>1, <1>4 DEF Preempted, Cur
  <2>2. Linked(Cur, pbuf_queue, received) /\ received <= End(Cur) + Span(Len(pbuf_queue))
    BY <2>1 DEF Gapless, Linked
  <2>3. Linked(Cur, pbuf_queue, received)'
    BY <1>1, <1>2, <1>4, <2>1, <2>2, LinkAppend
  <2>4. available = received - Total /\ available >= 0
    BY <2>1, Consts DEF Gapless, TypeOK, DataTypeOK
  <2>5. Cur.len \in Lengths /\ Cur.from \in Nat /\ Cur.len \in Nat /\ End(Cur) = Cur.from + Cur.len
    BY <1>2, <2>1, PbufFacts DEF OrderOK, Chained, Stretch
  <2>6. Total >= Cur.from
    <3>1. CASE step \in {"idle", "copy"}
      BY <1>2, <1>4, <3>1 DEF Gapless, Cur
    <3>2. CASE step = "take"
      BY <1>2, <3>2 DEF Gapless, Cur
    <3>3. CASE step = "set"
      BY <1>2, <2>1, <3>3 DEF Gapless, Cur
    <3> QED
      BY <2>1, <3>1, <3>2, <3>3 DEF TypeOK, DataTypeOK
  <2>7. Span(Len(pbuf_queue)) \in Int
    BY <1>2, Spans
  <2>8. available <= Cur.len + Span(Len(pbuf_queue))
    BY <1>2, <2>2, <2>4, <2>5, <2>6, <2>7
  <2>9. available' = received' - Total
    <3>1. (available + len) % AvailMod = available + len
      BY <1>2, <1>4, <2>4, <2>5, <2>8, Room
    <3> QED
      BY <1>1, <1>2, <1>4, <2>4, <3>1
  <2>10. got' = [i \in 1 .. Total' |-> i]
    BY <1>1, <1>2 DEF Gapless
  <2>11. step \in {"idle", "copy"} => p'.from + offset' = Total' /\ offset' < p'.len
    BY <1>2, <1>4 DEF Gapless
  <2>12. /\ step = "take" => Total' = End(p')
         /\ step = "set" /\ get.item # NULL => Total' = get'.item.from
         /\ step \in {"take", "set"} => offset' = 0
         /\ step = "take" \/ (step = "set" /\ ~Single) => get'.copied > 0
         /\ Single' <=> Single
    BY <1>1, <1>2, <1>4 DEF Gapless, Single
  <2> QED
    BY <1>1, <1>2, <2>1, <2>3, <2>9, <2>10, <2>11, <2>12 DEF Gapless
<1> QED
  BY <1>1, <1>3, <1>4 DEF Arrives

(* No step of a read leaves a gap in the stream.                            *)
LEMMA ReadStream ==
  ASSUME Fits, TypeOK, TypeOK', CallOK, OrderOK, Gapless, ~stopped, spoilt = {}, spoilt' = {},
         GetData, received' = received
  PROVE  Gapless'
<1>1. /\ p \in Pbuf /\ received \in Nat /\ pbuf_queue \in Seq(Pbuf) /\ Total \in Nat
      /\ got \in Seq(Nat) /\ DOMAIN got = 1 .. Total /\ got' \in Seq(Nat)
      /\ offset \in Nat /\ available \in 0 .. AvailMod - 1
      /\ p.from \in Nat /\ p.len \in Nat /\ End(p) = p.from + p.len
      /\ get \in GetType /\ get.copied \in Nat /\ get.avail \in Nat /\ get.item \in Pbuf
      /\ AvailMod \in Nat \ {0}
  BY Consts, Elements, PbufFacts DEF TypeOK, DataTypeOK, Total, CallOK
<1>2. p # NULL /\ p.len \in Lengths /\ End(p) <= received
  BY DEF GetData, GetCopy, GetStore, GetTake, GetSet, CallOK, OrderOK, Chained, Stretch
<1>3. CASE GetCopy
  <2>1. /\ p' = p /\ offset' = offset /\ got' = got \o Bytes /\ step = "copy" /\ step' = "store"
        /\ pbuf_queue' = pbuf_queue /\ available' = available
        /\ get' = [get EXCEPT !.copied = Len(Bytes), !.avail = available]
    BY <1>3 DEF GetCopy, data
  <2>2. /\ get'.copied = Len(Bytes) /\ get'.avail = available
        /\ get'.size = get.size /\ get'.nb = get.nb
    BY <1>1, <2>1 DEF GetType
  <2>3. /\ Left \in Nat /\ ToCopy \in Nat /\ ToCopy > 0
        /\ Left = (IF offset < p.len THEN p.len - offset ELSE 0)
        /\ Bytes \in Seq(Nat)
        /\ ~(Single /\ Left = 0) =>
              /\ Len(Bytes) = Taken
              /\ \A i \in 1 .. Taken : Bytes[i] = p.from + offset + i
    BY <2>1, Copied DEF TypeOK
  <2>4. p.from + offset = Total /\ offset < p.len /\ available = received - Total
        /\ got = [i \in 1 .. Total |-> i]
    BY <1>2, <2>1 DEF Gapless
  <2>5. Left = p.len - offset /\ Left > 0
    BY <1>1, <2>3, <2>4
  <2>6. /\ Len(Bytes) = Taken /\ Taken \in 1 .. Left /\ (Taken < ToCopy => Taken = Left)
        /\ \A i \in 1 .. Taken : Bytes[i] = Total + i
    BY <1>1, <2>3, <2>4, <2>5 DEF Taken
  <2>7. /\ Len(got') = Total + Taken
        /\ \A i \in 1 .. Total : got'[i] = got[i]
        /\ \A i \in Total + 1 .. Total + Taken : got'[i] = Bytes[i - Total]
    <3>1. Len(got) = Total
      BY DEF Total
    <3>2. /\ Len(got \o Bytes) = Len(got) + Len(Bytes)
          /\ \A i \in 1 .. Len(got) : (got \o Bytes)[i] = got[i]
          /\ \A i \in Len(got) + 1 .. Len(got) + Len(Bytes) : (got \o Bytes)[i] = Bytes[i - Len(got)]
      BY <1>1, <2>3, Joined
    <3> QED
      BY <2>1, <2>6, <3>1, <3>2
  <2>8. \A i \in 1 .. Total + Taken : got'[i] = i
    <3> SUFFICES ASSUME NEW i \in 1 .. Total + Taken PROVE got'[i] = i
      OBVIOUS
    <3>1. CASE i \in 1 .. Total
      BY <1>1, <2>4, <2>7, <3>1
    <3>2. CASE i \in Total + 1 .. Total + Taken
      <4>1. i - Total \in 1 .. Taken /\ Total + (i - Total) = i
        BY <1>1, <2>3, <2>6, <3>2
      <4> QED
        BY <2>6, <2>7, <3>2, <4>1
    <3> QED
      BY <1>1, <2>3, <2>6, <3>1, <3>2
  <2>9. Total' = Total + Taken /\ Total + Taken \in Nat
    BY <1>1, <2>3, <2>6, <2>7 DEF Total
  <2>10. got' = [i \in 1 .. Total' |-> i]
    BY <1>1, <2>7, <2>8, <2>9, Counting
  <2>11. Pos' = offset + Taken /\ (Taken < ToCopy' => Pos' = p.len) /\ Pos' <= p.len
    BY <1>1, <2>1, <2>2, <2>5, <2>6 DEF Pos, ToCopy
  <2>12. available' - get'.copied = received' - Total' /\ p'.from + Pos' = Total'
    <3>1. /\ p'.from = p.from /\ Pos' = offset + Taken /\ Total' = Total + Taken /\ received' = received
          /\ available' = received - Total /\ get'.copied = Taken /\ p.from + offset = Total
      BY <2>1, <2>2, <2>4, <2>6, <2>9, <2>11
    <3>2. p.from \in Nat /\ offset \in Nat /\ Taken \in Int /\ Total \in Nat /\ received \in Nat
      BY <1>1, <2>3, <2>6
    <3> QED
      BY <3>1, <3>2
  <2>13. Cur' = Cur /\ Cur' # NULL
    BY <1>2, <2>1 DEF Cur
  <2>14. Linked(Cur, pbuf_queue, received)'
    BY <2>1, <2>13 DEF Gapless, Linked, End
  <2>15. get'.avail = available' /\ get'.copied > 0 /\ (get'.copied < ToCopy' => Pos' = p'.len) /\ Pos' <= p'.len
    BY <2>1, <2>2, <2>6, <2>11
  <2> QED
    BY <2>1, <2>10, <2>12, <2>13, <2>14, <2>15 DEF Gapless
<1>4. CASE GetStore
  <2>1. /\ p' = p /\ got' = got /\ step = "store" /\ pbuf_queue' = pbuf_queue
        /\ available' = (get.avail - get.copied) % AvailMod /\ Pos = offset + get.copied
        /\ Cur = p /\ Total' = Total
    BY <1>4 DEF GetStore, Pos, Cur, Total
  <2>2. /\ available = get.avail /\ available - get.copied = received - Total
        /\ p.from + Pos = Total /\ Pos <= p.len /\ get.copied > 0
        /\ get.copied < ToCopy => Pos = p.len
        /\ got = [i \in 1 .. Total |-> i] /\ Linked(p, pbuf_queue, received)
    BY <2>1 DEF Gapless
  <2>3. received - Total \in 0 .. AvailMod - 1 /\ Pos \in Nat /\ get.avail - get.copied = received - Total
    <3>1. Pos \in Nat
      BY <1>1, <2>1
    <3>2. Total <= received
      BY <1>1, <1>2, <2>2, <3>1
    <3>3. received - Total <= available
      BY <1>1, <2>2
    <3> QED
      BY <1>1, <2>2, <3>1, <3>2, <3>3
  <2>4. available' = received' - Total'
    BY <2>1, <2>3, Counted
  <2>5. Linked(p, pbuf_queue, received)'
    BY <2>1, <2>2 DEF Linked, End
  <2>6. CASE PbufDone
    <3>1. step' = "take" /\ offset' = 0 /\ get' = [get EXCEPT !.nb = @ + get.copied]
      BY <1>4, <2>6 DEF GetStore
    <3>2. get'.copied = get.copied
      BY <1>1, <3>1 DEF GetType
    <3>3. Pos = p.len
      BY <2>1, <2>2, <2>6 DEF PbufDone
    <3>4. Total' = End(p')
      BY <1>1, <2>1, <2>2, <3>3 DEF End
    <3>5. Cur' = p' /\ p' # NULL
      BY <1>2, <2>1, <3>1 DEF Cur
    <3> QED
      BY <2>1, <2>2, <2>4, <2>5, <3>1, <3>2, <3>4, <3>5 DEF Gapless
  <2>7. CASE ~PbufDone
    <3>1. step' = "idle" /\ offset' = Pos % AvailMod /\ Pos # p.len
      BY <1>4, <2>1, <2>7 DEF GetStore, PbufDone
    <3>2. Pos < p.len /\ p.len < AvailMod
      <4>1. p.len < AvailMod
        BY <1>2, FitsAll
      <4> QED
        BY <1>1, <2>2, <2>3, <3>1, <4>1
    <3>3. Pos \in 0 .. AvailMod - 1
      BY <1>1, <2>3, <3>2
    <3>4. offset' = Pos
      BY <3>1, <3>3, Counted
    <3>5. Cur' = p' /\ p' # NULL
      BY <1>2, <2>1, <3>1 DEF Cur
    <3> QED
      BY <2>1, <2>2, <2>4, <2>5, <3>1, <3>2, <3>4, <3>5 DEF Gapless
  <2> QED
    BY <2>6, <2>7
<1>5. CASE GetTake
  <2>1. /\ p' = p /\ got' = got /\ step = "take" /\ step' = "set" /\ Cur = p /\ Cur' = get'.item
        /\ Total' = Total /\ available' = available /\ offset' = offset
    BY <1>5 DEF GetTake, Cur, Total
  <2>2. /\ available = received - Total /\ Total = End(p) /\ offset = 0 /\ get.copied > 0
        /\ got = [i \in 1 .. Total |-> i] /\ Linked(p, pbuf_queue, received)
    BY <2>1 DEF Gapless
  <2>3. CASE pbuf_queue = <<>>
    <3>1. get' = [get EXCEPT !.item = NULL] /\ pbuf_queue' = <<>>
      BY <1>5, <2>3 DEF GetTake
    <3>2. get'.item = NULL /\ get'.copied = get.copied
      BY <1>1, <3>1 DEF GetType
    <3>3. End(p) = received
      BY <1>2, <2>2, <2>3 DEF Linked
    <3>4. Linked(Cur, pbuf_queue, received)'
      BY <2>1, <3>1, <3>2, EmptyTuple DEF Linked
    <3> QED
      BY <2>1, <2>2, <3>2, <3>3, <3>4 DEF Gapless
  <2>4. CASE pbuf_queue # <<>>
    <3>1. get' = [get EXCEPT !.item = Head(pbuf_queue)] /\ pbuf_queue' = Tail(pbuf_queue)
          /\ Head(pbuf_queue) = pbuf_queue[1] /\ pbuf_queue[1] \in Pbuf
      BY <1>1, <1>5, <2>4, Headed DEF GetTake
    <3>2. get'.item = pbuf_queue[1] /\ get'.copied = get.copied
      BY <1>1, <3>1 DEF GetType
    <3>3. End(p) = pbuf_queue[1].from
      BY <2>2, <2>4 DEF Linked
    <3>4. Linked(pbuf_queue[1], Tail(pbuf_queue), received)
      BY <1>1, <2>2, <2>4, LinkTail
    <3>5. Linked(Cur, pbuf_queue, received)'
      BY <2>1, <3>1, <3>2, <3>4
    <3>6. Cur' # NULL
      <4>1. 1 \in DOMAIN pbuf_queue
        BY <1>1, <2>4, Headed
      <4>2. pbuf_queue[1].len \in Lengths
        BY <4>1 DEF OrderOK, Chained, Stretch
      <4> QED
        BY <2>1, <3>1, <3>2, <4>2, PbufFacts
    <3> QED
      BY <2>1, <2>2, <3>2, <3>3, <3>5, <3>6 DEF Gapless
  <2> QED
    BY <2>3, <2>4
<1>6. CASE GetSet
  <2>1. /\ p' = get.item /\ got' = got /\ step = "set" /\ step' \in {"idle", "copy"} /\ Cur = get.item
        /\ Cur' = get.item /\ Total' = Total /\ available' = available /\ pbuf_queue' = pbuf_queue
    BY <1>6 DEF GetSet, Cur, Total
  <2>2. /\ available = received - Total /\ offset = 0
        /\ get.item = NULL => Total = received
        /\ get.item # NULL => Total = get.item.from
        /\ ~Single => get.copied > 0
        /\ got = [i \in 1 .. Total |-> i] /\ Linked(get.item, pbuf_queue, received)
    BY <2>1 DEF Gapless
  <2>3. ~Skips
    BY <1>6 DEF GetSet
  <2>4. offset' = 0 /\ step' = "idle"
    BY <1>6, <2>2, <2>3 DEF GetSet, Skips
  <2>5. Linked(Cur, pbuf_queue, received)'
    BY <2>1, <2>2 DEF Linked, End
  <2>6. p' # NULL => p'.from + offset' = Total /\ offset' < p'.len
    <3> SUFFICES ASSUME get.item # NULL PROVE get.item.from + 0 = Total /\ 0 < get.item.len
      BY <2>1, <2>4
    <3>1. get.item.len \in Lengths
      BY <2>1 DEF OrderOK, Chained, Stretch
    <3> QED
      BY <1>1, <2>2, <3>1, PbufFacts
  <2> QED
    BY <2>1, <2>2, <2>4, <2>5, <2>6 DEF Gapless
<1> QED
  BY <1>3, <1>4, <1>5, <1>6 DEF GetData

(* A connection that nothing has spoilt has no gap.                         *)
LEMMA StreamNext ==
  ASSUME Fits, TypeOK, TypeOK', CallOK, UserOK, PcbOK, OrderOK, StreamOK, [Next]_vars
  PROVE  StreamOK'
<1> SUFFICES ASSUME spoilt' = {}, ~stopped'
             PROVE  Gapless'
  BY DEF StreamOK
<1>1. spoilt = {} /\ (~stopped => Gapless)
  BY SpoiltKept DEF StreamOK
<1>2. CASE Quiet
  BY <1>1, <1>2 DEF Quiet, dataVars, data, call, Gapless, Linked, Cur, End, Total, Pos, ToCopy, Single
<1>3. CASE Empty
  <2>1. Cur' = NULL /\ pbuf_queue' = <<>> /\ got' = <<>> /\ received' = 0 /\ available' = 0
        /\ step' = "idle" /\ p' = NULL
    BY <1>3 DEF Empty, Connect, call, Cur
  <2>2. Total' = 0
    BY <2>1, EmptyTuple DEF Total
  <2>3. <<>> = [i \in 1 .. 0 |-> i]
    OBVIOUS
  <2>4. Linked(Cur, pbuf_queue, received)'
    BY <2>1, EmptyTuple DEF Linked
  <2> QED
    BY <2>1, <2>2, <2>3, <2>4 DEF Gapless
<1>4. CASE Reader /\ ReadStep /\ Fresh
  <2>1. /\ UNCHANGED <<p, offset, available, pbuf_queue, got, received, stopped>>
        /\ step = "idle" /\ step' = "copy" /\ Cur' = Cur /\ Total' = Total /\ ~stopped
    BY <1>4 DEF ReadStep, GetCall, data, Fresh, Cur, Total, Reader
  <2> QED
    BY <1>1, <2>1 DEF Gapless, Linked, End
<1>5. CASE ReadNothing
  <2>1. p # NULL /\ available = 0 /\ step = "idle" /\ ~stopped
    BY <1>5 DEF ReadNothing, Idle, user
  <2>2. p.from + offset = Total /\ offset < p.len /\ available = received - Total
    BY <1>1, <2>1 DEF Gapless
  <2>3. End(p) <= received /\ End(p) = p.from + p.len /\ p.from \in Nat /\ p.len \in Nat /\ received \in Nat
        /\ offset \in Nat
    BY <1>1, <2>1, PbufFacts, Consts DEF OrderOK, Chained, Stretch, TypeOK, DataTypeOK
  <2> QED
    BY <2>1, <2>2, <2>3
<1>6. CASE Freed
  BY <1>6 DEF Freed, StopFree
<1>7. CASE \E len \in Lengths : Arrival(len)
  BY <1>1, <1>7, ArrivalStream DEF Arrival
<1>8. CASE Reader /\ GetData /\ Fresh
  BY <1>1, <1>8, ReadStream DEF Reader, Fresh
<1> QED
  BY <1>2, <1>3, <1>4, <1>5, <1>6, <1>7, <1>8, Ways
-----------------------------------------------------------------------------
(* The pbufs that lwIP has passed on and nobody has freed.                  *)
LEMMA RangeAppend ==
  ASSUME NEW S, NEW s \in Seq(S), NEW x \in S
  PROVE  Range(Append(s, x)) = Range(s) \cup {x}
<1>1. /\ DOMAIN s = 1 .. Len(s) /\ DOMAIN Append(s, x) = 1 .. Len(s) + 1 /\ Len(s) \in Nat
      /\ \A i \in 1 .. Len(s) : Append(s, x)[i] = s[i]
      /\ Append(s, x)[Len(s) + 1] = x
  BY Appended
<1>2. 1 .. Len(s) + 1 = 1 .. Len(s) \cup {Len(s) + 1}
  BY <1>1
<1> QED
  BY <1>1, <1>2 DEF Range

(* The elements of a sequence are its head and those of its tail.           *)
LEMMA RangeTail ==
  ASSUME NEW S, NEW s \in Seq(S), s # <<>>
  PROVE  Range(s) = {s[1]} \cup Range(Tail(s))
<1>1. /\ DOMAIN s = 1 .. Len(s) /\ DOMAIN Tail(s) = 1 .. Len(s) - 1 /\ Len(s) \in Nat /\ Len(s) >= 1
      /\ \A i \in 1 .. Len(s) - 1 : Tail(s)[i] = s[i + 1]
  BY Headed
<1>2. ASSUME NEW y \in Range(s)
      PROVE  y \in {s[1]} \cup Range(Tail(s))
  <2>1. PICK i \in 1 .. Len(s) : y = s[i]
    BY <1>1, <1>2 DEF Range
  <2>2. CASE i = 1
    BY <2>1, <2>2
  <2>3. CASE i # 1
    <3>1. i - 1 \in DOMAIN Tail(s) /\ Tail(s)[i - 1] = s[(i - 1) + 1] /\ (i - 1) + 1 = i
      BY <1>1, <2>3
    <3> QED
      BY <2>1, <3>1 DEF Range
  <2> QED
    BY <2>2, <2>3
<1>3. ASSUME NEW y \in {s[1]} \cup Range(Tail(s))
      PROVE  y \in Range(s)
  <2>1. CASE y = s[1]
    <3>1. 1 \in DOMAIN s
      BY <1>1
    <3> QED
      BY <2>1, <3>1 DEF Range
  <2>2. CASE y \in Range(Tail(s))
    <3>1. PICK i \in 1 .. Len(s) - 1 : y = Tail(s)[i]
      BY <1>1, <2>2 DEF Range
    <3>2. i + 1 \in DOMAIN s /\ y = s[i + 1]
      BY <1>1, <3>1
    <3> QED
      BY <3>2 DEF Range
  <2> QED
    BY <1>3, <2>1, <2>2
<1> QED
  BY <1>2, <1>3

(* The empty sequence has no elements.                                      *)
LEMMA RangeEmpty == Range(<<>>) = {}
BY EmptyTuple DEF Range

(* A pbuf is in one place.                                                  *)
LEMMA Apart ==
  ASSUME TypeOK, OrderOK, ~Chained, ~stopped
  PROVE  /\ NULL \notin Range(pbuf_queue) /\ Cur \notin Range(pbuf_queue)
         /\ Cur = NULL => pbuf_queue = <<>>
         /\ \A i, j \in DOMAIN pbuf_queue : pbuf_queue[i] = pbuf_queue[j] => i = j
<1>1. /\ Cur \in Pbuf /\ pbuf_queue \in Seq(Pbuf) /\ DOMAIN pbuf_queue = 1 .. Len(pbuf_queue)
      /\ Len(pbuf_queue) \in Nat /\ \A i \in DOMAIN pbuf_queue : pbuf_queue[i] \in Pbuf
  BY Elements DEF TypeOK, DataTypeOK, Cur
<1>2. /\ Cur = NULL => pbuf_queue = <<>>
      /\ Cur # NULL => Stretch(Cur) /\ \A i \in DOMAIN pbuf_queue : End(Cur) <= pbuf_queue[i].from
      /\ \A i \in DOMAIN pbuf_queue : Stretch(pbuf_queue[i])
      /\ \A i, j \in DOMAIN pbuf_queue : i < j => End(pbuf_queue[i]) <= pbuf_queue[j].from
  BY DEF OrderOK
<1>3. \A q \in Pbuf : Stretch(q) => q # NULL /\ q.from < End(q) /\ q.from \in Nat /\ End(q) \in Nat
  BY PbufFacts, Consts DEF Stretch
<1>4. NULL \notin Range(pbuf_queue)
  BY <1>1, <1>2, <1>3 DEF Range
<1>5. Cur \notin Range(pbuf_queue)
  <2>1. CASE Cur = NULL
    BY <1>4, <2>1
  <2>2. CASE Cur # NULL
    <3>1. ASSUME NEW i \in DOMAIN pbuf_queue PROVE Cur # pbuf_queue[i]
      BY <1>1, <1>2, <1>3, <2>2
    <3> QED
      BY <3>1 DEF Range
  <2> QED
    BY <2>1, <2>2
<1>6. ASSUME NEW i \in DOMAIN pbuf_queue, NEW j \in DOMAIN pbuf_queue, pbuf_queue[i] = pbuf_queue[j]
      PROVE  i = j
  <2>1. pbuf_queue[i].from < End(pbuf_queue[i]) /\ pbuf_queue[i].from \in Nat /\ End(pbuf_queue[i]) \in Nat
    BY <1>1, <1>2, <1>3
  <2>2. ~(i < j) /\ ~(j < i)
    BY <1>2, <1>6, <2>1
  <2> QED
    BY <1>1, <2>2
<1> QED
  BY <1>2, <1>4, <1>5, <1>6

(* The pbufs that the client has, in the steps of a read too.               *)
Owned == IF step = "take" THEN Range(pbuf_queue) ELSE (Range(pbuf_queue) \cup {Cur}) \ {NULL}

(* The callback keeps what it queues and stop() frees everything; a read    *)
(* frees the pbuf that it has emptied, and only that.                       *)
LEMMA PoolNext ==
  ASSUME TypeOK, CallOK, UserOK, PcbOK, OrderOK, PoolOK, [Next]_vars
  PROVE  PoolOK'
<1> SUFFICES ASSUME ~Chained'
             PROVE  /\ stopped' => pool' = {}
                    /\ ~stopped' => pool' = Owned'
  BY DEF PoolOK, Owned
<1>1. ~Chained
  BY SpoiltKept DEF Chained
<1>2. (stopped => pool = {}) /\ (~stopped => pool = Owned)
  BY <1>1 DEF PoolOK, Owned
<1>3. pbuf_queue \in Seq(Pbuf) /\ stopped \in BOOLEAN /\ get \in GetType
  BY DEF TypeOK, DataTypeOK, CallOK
<1>4. CASE Quiet
  BY <1>2, <1>4 DEF Quiet, dataVars, data, call, Owned, Cur
<1>5. CASE Empty
  <2>1. stopped /\ pool' = pool /\ pbuf_queue' = <<>> /\ p' = NULL /\ step' = "idle" /\ ~stopped'
    BY <1>5 DEF Empty, Connect, call
  <2> QED
    BY <1>2, <2>1, RangeEmpty DEF Owned, Cur
<1>6. CASE Reader /\ ReadStep /\ Fresh
  <2>1. UNCHANGED <<p, pbuf_queue, pool, stopped>> /\ step = "idle" /\ step' = "copy"
    BY <1>6 DEF ReadStep, GetCall, data, Fresh
  <2> QED
    BY <1>2, <2>1 DEF Owned, Cur
<1>7. CASE ReadNothing
  BY <1>2, <1>7 DEF ReadNothing, data, call, user, Owned, Cur
<1>8. CASE Freed
  <2>1. step = "idle" /\ ~stopped /\ stopped' /\ Cur = p
    BY <1>8 DEF Freed, StopFree, Cur
  <2>2. pool = (Range(pbuf_queue) \cup {p}) \ {NULL}
    BY <1>2, <2>1 DEF Owned
  <2>3. CASE p = NULL
    <3>1. pbuf_queue = <<>> /\ pool' = pool
      BY <1>1, <1>8, <2>1, <2>3, Apart DEF Freed, StopFree, FreeData
    <3> QED
      BY <2>1, <2>2, <2>3, <3>1, RangeEmpty
  <2>4. CASE p # NULL
    <3>1. pool' = pool \ Held
      BY <1>8, <2>4 DEF Freed, StopFree, FreeData
    <3> QED
      BY <2>1, <2>2, <3>1 DEF Held
  <2> QED
    BY <2>3, <2>4
<1>9. CASE \E len \in Lengths : Arrival(len)
  <2>1. PICK len \in Lengths : Arrival(len)
    BY <1>9
  <2>2. PICK q \in Pbuf \ {NULL} :
          Arrives(q) /\ ~stopped /\ stopped' = stopped /\ UNCHANGED <<step, get, got>>
    BY <2>1, Arrived
  <2>3. CASE p = NULL /\ p' = q /\ pbuf_queue' = pbuf_queue /\ pool' = pool \cup {q}
    <3>1. step = "idle" /\ Cur = NULL /\ Cur' = q
      BY <2>2, <2>3 DEF CallOK, Cur
    <3>2. pbuf_queue = <<>>
      BY <1>1, <2>2, <3>1, Apart
    <3> QED
      BY <1>2, <2>2, <2>3, <3>1, <3>2, RangeEmpty DEF Owned
  <2>4. CASE p' = p /\ pbuf_queue' = Append(pbuf_queue, q) /\ pool' = pool \cup {q}
    <3>1. Range(pbuf_queue)' = Range(pbuf_queue) \cup {q}
      BY <1>3, <2>4, RangeAppend
    <3>2. Cur' = Cur
      BY <2>2, <2>4 DEF Cur
    <3> QED
      BY <1>2, <2>2, <2>4, <3>1, <3>2 DEF Owned
  <2>5. CASE UNCHANGED <<p, pbuf_queue, pool>>
    BY <1>2, <2>2, <2>5 DEF Owned, Cur
  <2> QED
    BY <2>2, <2>3, <2>4, <2>5 DEF Arrives
<1>10. CASE Reader /\ GetData /\ Fresh
  <2>0. ~stopped /\ stopped' = stopped /\ pool = Owned
        /\ NULL \notin Range(pbuf_queue) /\ Cur \notin Range(pbuf_queue)
    BY <1>1, <1>2, <1>10, Apart DEF Reader, Fresh
  <2>1. CASE GetCopy
    <3>1. UNCHANGED <<p, pbuf_queue, pool>> /\ step = "copy" /\ step' = "store"
      BY <2>1 DEF GetCopy, data
    <3> QED
      BY <2>0, <3>1 DEF Owned, Cur
  <2>2. CASE GetStore
    <3>1. UNCHANGED <<p, pbuf_queue>> /\ step = "store" /\ Cur = p /\ p # NULL
      BY <2>2 DEF GetStore, Cur, CallOK
    <3>2. CASE PbufDone
      <4>1. step' = "take" /\ pool' = pool \ {p}
        BY <2>2, <3>2 DEF GetStore
      <4> QED
        BY <2>0, <3>1, <4>1 DEF Owned
    <3>3. CASE ~PbufDone
      <4>1. step' = "idle" /\ pool' = pool
        BY <2>2, <3>3 DEF GetStore
      <4> QED
        BY <2>0, <3>1, <4>1 DEF Owned, Cur
    <3> QED
      BY <3>2, <3>3
  <2>3. CASE GetTake
    <3>1. step = "take" /\ step' = "set" /\ pool' = pool /\ Cur' = get'.item /\ pool = Range(pbuf_queue)
      BY <2>0, <2>3 DEF GetTake, Cur, Owned
    <3>2. CASE pbuf_queue = <<>>
      <4>1. get'.item = NULL /\ pbuf_queue' = <<>>
        BY <1>3, <2>3, <3>2 DEF GetTake, GetType
      <4> QED
        BY <2>0, <3>1, <3>2, <4>1, RangeEmpty DEF Owned
    <3>3. CASE pbuf_queue # <<>>
      <4>1. get'.item = pbuf_queue[1] /\ pbuf_queue' = Tail(pbuf_queue)
        BY <1>3, <2>3, <3>3, Headed DEF GetTake, GetType
      <4>2. Range(pbuf_queue) = {get'.item} \cup Range(pbuf_queue)'
        BY <1>3, <3>3, <4>1, RangeTail
      <4> QED
        BY <2>0, <3>1, <4>2 DEF Owned
    <3> QED
      BY <3>2, <3>3
  <2>4. CASE GetSet
    <3>1. pool' = pool /\ pbuf_queue' = pbuf_queue /\ step = "set" /\ step' \in {"idle", "copy"}
          /\ Cur = get.item /\ Cur' = get.item
      BY <2>4 DEF GetSet, Cur
    <3> QED
      BY <2>0, <3>1 DEF Owned
  <2> QED
    BY <1>10, <2>1, <2>2, <2>3, <2>4 DEF GetData
<1> QED
  BY <1>4, <1>5, <1>6, <1>7, <1>8, <1>9, <1>10, Ways

-----------------------------------------------------------------------------
(* In the beginning there is no data.                                       *)
LEMMA DataStart == Init => OrderOK /\ GotOK /\ StreamOK /\ PoolOK
<1> SUFFICES ASSUME Init PROVE OrderOK /\ GotOK /\ StreamOK /\ PoolOK
  OBVIOUS
<1>1. stopped /\ got = <<>> /\ pool = {}
  BY DEF Init, DataInit
<1> QED
  BY <1>1, EmptyTuple DEF OrderOK, GotOK, Rising, StreamOK, PoolOK

(* What holds of streams of every length: who is in which step, with which  *)
(* pcb, and which pbufs there are, in which order.                          *)
BaseInv == TypeOK /\ UserOK /\ PcbOK /\ CallOK /\ OrderOK /\ PoolOK

(* ... is an invariant, for all lengths and all orders of the callbacks.     *)
THEOREM BaseInvariant == Spec => []BaseInv
<1>1. Init => BaseInv
  BY PcbInit, TypeInit, DataStart DEF BaseInv
<1>2. BaseInv /\ [Next]_vars => BaseInv'
  BY TypeNext, UserNext, PcbNext, OrderNext, PoolNext DEF BaseInv
<1> QED
  BY <1>1, <1>2, PTL DEF Spec

(* ... and what the reader has got of it, when the lengths fit.             *)
THEOREM ClientInvariant ==
  ASSUME Fits
  PROVE  Spec => []ClientInv
<1>1. Init => ClientInv
  BY PcbInit, TypeInit, DataStart DEF ClientInv
<1>2. ClientInv /\ [Next]_vars => ClientInv'
  <2> SUFFICES ASSUME ClientInv, [Next]_vars PROVE ClientInv'
    OBVIOUS
  <2>1. TypeOK' /\ CallOK' /\ UserOK' /\ PcbOK'
    BY TypeNext, UserNext, PcbNext DEF ClientInv
  <2>2. OrderOK' /\ PoolOK'
    BY <2>1, OrderNext, PoolNext DEF ClientInv
  <2>3. GotOK' /\ StreamOK'
    BY <2>1, <2>2, GotNext, StreamNext DEF ClientInv
  <2> QED
    BY <2>1, <2>2, <2>3 DEF ClientInv
<1> QED
  BY <1>1, <1>2, PTL DEF Spec

(* A connection that lwIP has open, or is opening, is the one the client    *)
(* has, and its state says so, however connect(), its timeout, stop(), and  *)
(* the callbacks for an error or a closed connection follow each other:     *)
(* none of an old connection comes to the data of a new one.                *)
THEOREM OnePcbCorrect == Spec => []OnePcb
<1>1. BaseInv => OnePcb
  BY DEF BaseInv, PcbOK
<1> QED
  BY <1>1, BaseInvariant, PTL

(* Every pbuf is freed once, by the read that empties it or by stop(),      *)
(* whatever came in between, for streams of every length.                   *)
THEOREM PbufsCorrect == Spec => []PbufsFreed
<1>1. ASSUME BaseInv, step = "idle", "chain" \notin spoilt
      PROVE  /\ pool = IF stopped THEN {} ELSE Held
             /\ ~stopped => Cardinality(Held) = Len(pbuf_queue) + (IF p = NULL THEN 0 ELSE 1)
  <2>1. Cur = p /\ ~Chained /\ TypeOK /\ OrderOK /\ PoolOK /\ pbuf_queue \in Seq(Pbuf)
    BY <1>1 DEF BaseInv, Cur, Chained, TypeOK, DataTypeOK
  <2>2. pool = IF stopped THEN {} ELSE Held
    BY <1>1, <2>1 DEF PoolOK, Held
  <2>3. ASSUME ~stopped
        PROVE  Cardinality(Held) = Len(pbuf_queue) + (IF p = NULL THEN 0 ELSE 1)
    <3>1. /\ NULL \notin Range(pbuf_queue) /\ p \notin Range(pbuf_queue)
          /\ p = NULL => pbuf_queue = <<>>
          /\ \A i, j \in DOMAIN pbuf_queue : pbuf_queue[i] = pbuf_queue[j] => i = j
      BY <2>1, <2>3, Apart
    <3>2. Len(pbuf_queue) \in Nat /\ DOMAIN pbuf_queue = 1 .. Len(pbuf_queue)
          /\ pbuf_queue \in [1 .. Len(pbuf_queue) -> Pbuf]
      BY <2>1, LenProperties
    <3>3. IsFiniteSet(Range(pbuf_queue)) /\ Cardinality(Range(pbuf_queue)) = Len(pbuf_queue)
      <4>1. pbuf_queue \in [1 .. Len(pbuf_queue) -> Range(pbuf_queue)]
        BY <3>2 DEF Range
      <4>2. pbuf_queue \in Surjection(1 .. Len(pbuf_queue), Range(pbuf_queue))
        BY <3>2, <4>1 DEF Surjection, Range
      <4>3. pbuf_queue \in Injection(1 .. Len(pbuf_queue), Range(pbuf_queue))
        BY <3>1, <4>1 DEF Injection, IsInjective
      <4>4. IsFiniteSet(1 .. Len(pbuf_queue)) /\ Cardinality(1 .. Len(pbuf_queue)) = Len(pbuf_queue)
        BY <3>2, FS_Interval
      <4> QED
        BY <4>2, <4>3, <4>4, FS_Surjection
    <3>4. CASE p = NULL
      <4>1. Held = {} /\ Len(pbuf_queue) = 0
        BY <3>1, <3>4, RangeEmpty, EmptyTuple DEF Held
      <4> QED
        BY <3>4, <4>1, FS_EmptySet
    <3>5. CASE p # NULL
      <4>1. Held = Range(pbuf_queue) \cup {p}
        BY <3>1, <3>5 DEF Held
      <4>2. Cardinality(Range(pbuf_queue) \cup {p}) = Len(pbuf_queue) + 1
        BY <3>1, <3>3, FS_AddElement
      <4> QED
        BY <3>5, <4>1, <4>2
    <3> QED
      BY <3>4, <3>5
  <2> QED
    BY <2>2, <2>3
<1>2. BaseInv => PbufsFreed
  BY <1>1 DEF PbufsFreed
<1> QED
  BY <1>2, BaseInvariant, PTL

(* Between two calls the bytes that have been read and those that           *)
(* available() counts are those received.                                   *)
LEMMA NoGap ==
  ASSUME ClientInv, ~InCall, spoilt = {}
  PROVE  /\ got = [i \in 1 .. Len(got) |-> i]
         /\ available = received - Len(got)
         /\ available = 0 <=> p = NULL
         /\ Len(got) <= received /\ received \in Nat /\ Len(got) \in Nat
<1>1. /\ ~stopped /\ step = "idle" /\ Gapless /\ OrderOK /\ Cur = p /\ ~Chained /\ TypeOK
  BY DEF ClientInv, InCall, Idle, StreamOK, Cur, Chained
<1>2. /\ got = [i \in 1 .. Len(got) |-> i]
      /\ available = received - Len(got)
      /\ p # NULL => p.from + offset = Len(got) /\ offset < p.len /\ Stretch(p)
      /\ p = NULL => Len(got) = received
  BY <1>1 DEF Gapless, Total, OrderOK
<1>3. received \in Nat /\ Len(got) \in Nat /\ p \in Pbuf /\ offset \in Nat
  BY <1>1, Consts, Elements DEF TypeOK, DataTypeOK
<1>4. p # NULL => Len(got) < received
  BY <1>2, <1>3, PbufFacts DEF Stretch
<1>5. available = 0 <=> p = NULL
  <2>1. available = received - Len(got)
    BY <1>2
  <2>2. p = NULL => Len(got) = received
    BY <1>2
  <2>3. p # NULL => available # 0
    BY <1>3, <1>4, <2>1
  <2>4. p = NULL => available = 0
    BY <1>3, <2>1, <2>2
  <2> QED
    BY <2>3, <2>4
<1>6. Len(got) <= received
  <2>1. p = NULL => Len(got) = received
    BY <1>2
  <2> QED
    BY <1>3, <1>4, <2>1
<1> QED
  BY <1>2, <1>3, <1>5, <1>6

(* The user reads the bytes of the connection in order and without gaps,    *)
(* and available() is what is left, for every length of the stream and of   *)
(* the reads, as long as nothing has spoilt it; and in order even then.     *)
THEOREM StreamCorrect ==
  ASSUME Fits
  PROVE  Spec => []StreamRead
<1>1. ASSUME ClientInv PROVE StreamRead
  <2>1. TypeOK /\ Ordered
    BY <1>1 DEF ClientInv, GotOK, Rising, Chained, Ordered
  <2> QED
    BY <1>1, <2>1, NoGap DEF StreamRead
<1>2. ClientInv => StreamRead
  BY <1>1
<1> QED
  BY <1>2, ClientInvariant, PTL

(* A loop "while (client.connected())" reads all that the peer sent before  *)
(* it closed the connection, and then ends.                                 *)
THEOREM EndCorrect ==
  ASSUME Fits
  PROVE  Spec => []ReadToTheEnd
<1>1. ASSUME ClientInv, ~InCall, spoilt = {}, state = "CLOSING"
      PROVE  StatusConnected <=> Len(got) < received
  BY <1>1, NoGap DEF StatusConnected
<1>2. ClientInv => ReadToTheEnd
  BY <1>1 DEF ReadToTheEnd
<1> QED
  BY <1>2, ClientInvariant, PTL
=============================================================================
