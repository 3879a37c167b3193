----------------------------- MODULE UdpProofs -----------------------------
(***************************************************************************)
(* Proofs about the sketches of UDP and the resolver, for any datagrams,   *)
(* names and lengths.                                                      *)
(***************************************************************************)
EXTENDS Udp, SequenceTheorems, TLAPS

(* In which step of which call the user's thread is.  Nothing is ever       *)
(* queued, so the loop of stm32_get_data ends after one round.              *)
Locals == [size : Nat, nb : Nat, copied : Nat, avail : Nat, item : Pbuf]

CallOK ==
  /\ pbuf_queue = <<>> /\ get \in Locals /\ p.len < AvailMod
  /\ IF step = "idle" THEN get = NoCall ELSE pc = "read" /\ get.item = NULL
  /\ step \in {"copy", "store"} => get.nb = 0
  /\ step \in {"copy", "store", "take"} => p # NULL
  /\ step = "copy" \/ pc # "read" => got = <<>>

(* The pbuf at hand is the only one, and free from its last byte on until   *)
(* p is NULL.                                                               *)
PoolOK ==
  "twice" \notin odd => pool = IF step \in {"take", "set"} THEN {} ELSE {p} \ {NULL}

PacketOK ==
  /\ out # 0 => pbufs > 0
  /\ "leak" \notin odd => pbufs = IF out = 0 THEN 0 ELSE 1

(* The next n bytes of the datagram that parsePacket() announced.           *)
Announced(n) == [i \in 1 .. n |-> End(-remote) - remaining + i]

(* What is left of the datagram at hand can be read, what remains is that   *)
(* or not yet announced.                                                    *)
RestOK ==
  IF p = NULL THEN offset = 0 /\ available = 0 /\ remaining = 0 /\ pc # "parse"
  ELSE /\ available = p.len - offset /\ available > 0 /\ p.from + p.len = End(-ip)
       /\ IF remaining = 0 THEN offset = 0 ELSE remaining = available /\ remote = ip
       /\ pc = "parse" => remote = ip

(* How far a read is.                                                       *)
ReadOK ==
  /\ remaining > 0
  /\ CASE step \in {"copy", "store"} ->
            /\ p # NULL /\ p.from + p.len = End(-remote) /\ remote = ip
            /\ remaining = available /\ available = p.len - offset
            /\ get.size \in 1 .. remaining
            /\ step = "store" => get.copied = get.size /\ get.avail = available /\ got = Announced(get.size)
       [] step \in {"take", "set"} -> available = 0 /\ offset = 0 /\ got = Announced(remaining)
       [] step = "idle" ->
            \E n \in 1 .. remaining :
              /\ got = Announced(n)
              /\ IF n = remaining THEN p = NULL /\ offset = 0 /\ available = 0
                 ELSE /\ p # NULL /\ p.from + p.len = End(-remote) /\ remote = ip
                      /\ available = remaining - n /\ available = p.len - offset

(* As long as datagrams do not run into each other.                         *)
DatagramOK ==
  odd \cap {"replaced", "stale"} = {} => IF pc = "read" THEN ReadOK ELSE RestOK

(* An answer to the lookup under way is for the name that is wanted; with   *)
(* answers that come late anything may be in the word.                      *)
LookupOK ==
  /\ \A r \in pending : r[1] <= lookups
  /\ pc \in {"dns", "found"} =>
       /\ ~ready
       /\ \A r \in pending : r[1] = lookups => r[2] = wanted
       /\ "late" \notin odd => ipResult \in {0, wanted}

UdpInv ==
  /\ TypeOK /\ CallOK /\ PoolOK /\ PacketOK /\ DatagramOK /\ LookupOK /\ SendsToWanted

-----------------------------------------------------------------------------
(* What the assumptions say of each constant.                               *)
LEMMA Consts ==
  /\ AvailMod \in Nat \ {0} /\ MaxLength \in 0 .. AvailMod - 1
  /\ Lengths \subseteq 1 .. MaxLength /\ Hosts \subseteq Nat \ {0}
  /\ BufferSize \in Nat \ {0} /\ Sizes \cup {BufferSize} \subseteq Nat \ {0}
  /\ MaxDatagrams \in Nat /\ MaxLookups \in Nat /\ MaxData \in Nat
  /\ MaxBegins \in Nat \ {0}
  BY PbufDataAssumption, UdpAssumption

(* A number below the modulus is its own remainder.                         *)
LEMMA Modulo ==
  ASSUME NEW m \in Nat \ {0}, NEW x \in Int
  PROVE  x % m \in 0 .. m - 1 /\ (x \in 0 .. m - 1 => x % m = x)
  BY SMT

(* A count below AvailMod does not wrap.                                    *)
LEMMA Counted ==
  \A x \in Int : x % AvailMod \in 0 .. AvailMod - 1 /\ (x \in 0 .. AvailMod - 1 => x % AvailMod = x)
  BY Consts, Modulo

(* Ends of datagrams are one MaxLength apart.                               *)
LEMMA Multiple ==
  ASSUME NEW m \in Nat, NEW d \in Nat
  PROVE  (d + 1) * m = d * m + m /\ d * m \in Nat
  BY SMT

(* A datagram is a pbuf, and its last byte is number End.                   *)
LEMMA DatagramIs ==
  ASSUME NEW d \in Nat, NEW len \in Lengths
  PROVE  LET q == [from |-> End(d + 1) - len, len |-> len] IN
         /\ q \in Pbuf /\ q # NULL /\ q.len = len /\ q.from + q.len = End(d + 1)
         /\ len \in 1 .. AvailMod - 1
<1>1. MaxLength \in Nat /\ len \in 1 .. MaxLength /\ len \in 1 .. AvailMod - 1
  BY Consts
<1>2. End(d + 1) = d * MaxLength + MaxLength /\ d * MaxLength \in Nat
  BY <1>1, Multiple DEF End
<1>3. End(d + 1) \in Nat /\ End(d + 1) - len \in Nat
  BY <1>1, <1>2
<1> HIDE DEF End
<1> QED
  BY <1>1, <1>3 DEF Pbuf, NULL

(* No pbuf has no bytes.                                                    *)
LEMMA NullIs == NULL \in Pbuf /\ NULL.from = 0 /\ NULL.len = 0
  BY DEF NULL, Pbuf

(* What one round of stm32_get_data copies.                                 *)
LEMMA BytesAre ==
  ASSUME TypeOK, CallOK, step = "copy"
  PROVE  /\ Bytes \in Seq(Nat) /\ Len(Bytes) \in Nat /\ got \o Bytes = Bytes
         /\ get.size \in Nat \ {0} /\ p.len - offset >= get.size =>
              Bytes = [i \in 1 .. get.size |-> p.from + offset + i] /\ Len(Bytes) = get.size
<1>1. /\ p.from \in Nat /\ p.len \in Nat /\ offset \in Nat /\ get.size \in Nat /\ get.nb = 0
      /\ got = <<>>
  BY Consts DEF TypeOK, DataTypeOK, CallOK, Pbuf
<1>2. Left \in Nat /\ (p.len - offset >= get.size /\ get.size # 0 => Left = p.len - offset)
  BY <1>1 DEF Left
<1>3. ToCopy = get.size
  BY <1>1 DEF ToCopy
<1> DEFINE n == IF Left < ToCopy THEN Left ELSE ToCopy
<1>4. n \in Nat /\ (p.len - offset >= get.size /\ get.size # 0 => n = get.size)
  BY <1>1, <1>2, <1>3
<1>5. [i \in 1 .. n |-> p.from + offset + i] \in Seq(Nat)
      /\ Len([i \in 1 .. n |-> p.from + offset + i]) = n
  <2> HIDE DEF n
  <2> QED
    BY <1>1, <1>4
<1>6. Bytes \in Seq(Nat) /\ Len(Bytes) \in Nat
  BY <1>4, <1>5 DEF Bytes
<1>7. got \o Bytes = Bytes
  BY <1>1, <1>6, ConcatEmptySeq
<1>8. ASSUME get.size # 0, p.len - offset >= get.size
      PROVE  Bytes = [i \in 1 .. get.size |-> p.from + offset + i] /\ Len(Bytes) = get.size
  <2>1. ~(Single /\ Left = 0)
    BY <1>1, <1>2, <1>8
  <2>2. Bytes = [i \in 1 .. n |-> p.from + offset + i]
    BY <2>1 DEF Bytes
  <2> HIDE DEF n
  <2> QED
    BY <2>2, <1>4, <1>5, <1>8
<1> QED
  BY <1>1, <1>6, <1>7, <1>8

-----------------------------------------------------------------------------
(* At the start nothing has been received, read, sent or looked up.         *)
LEMMA InitInv == Init => UdpInv
<1> SUFFICES ASSUME Init PROVE UdpInv
  OBVIOUS
<1> USE DEF Init, DataInit, EmptyData, NoCall
<1>1. TypeOK
  <2>1. DataTypeOK
    BY Consts, NullIs, PbufDataAssumption DEF DataTypeOK
  <2>2. 0 \in 0 .. AvailMod - 1 /\ 0 \in 0 .. MaxData /\ 0 \in 0 .. MaxLookups
        /\ 0 \in 0 .. MaxDatagrams /\ 0 \in 0 .. MaxBegins
    BY Consts
  <2>3. remaining \in 0 .. AvailMod - 1 /\ out \in 0 .. MaxData /\ pbufs \in Nat
        /\ lookups \in 0 .. MaxLookups /\ datagrams \in 0 .. MaxDatagrams /\ begins \in 0 .. MaxBegins
        /\ turn \in 1 .. 5
    BY <2>2
  <2>4. /\ pcb \in BOOLEAN /\ ready \in BOOLEAN /\ ip = 0 /\ remote = 0 /\ sendto = 0 /\ wanted = 0
        /\ ipResult = 0 /\ pending = {} /\ sketch \in Sketches /\ pc = "idle" /\ odd = {}
    OBVIOUS
  <2> HIDE DEF Init
  <2> QED
    BY <2>1, <2>3, <2>4 DEF TypeOK
<1>4. get \in Locals /\ p.len < AvailMod
  BY NullIs, Consts DEF Locals
<1>2. CallOK /\ PoolOK /\ PacketOK /\ LookupOK /\ SendsToWanted
  BY <1>4, NullIs DEF CallOK, PoolOK, PacketOK, LookupOK, SendsToWanted
<1>3. DatagramOK
  BY DEF DatagramOK, RestOK
<1> QED
  BY <1>1, <1>2, <1>3 DEF UdpInv

(* The steps of a read, one by one.                                         *)
LEMMA DataTypeNext ==
  ASSUME TypeOK, CallOK, [Next]_vars
  PROVE  DataTypeOK'
<1> USE DEF DataTypeOK
<1>0. DataTypeOK
  BY DEF TypeOK
<1>1. ASSUME UNCHANGED dataVars PROVE DataTypeOK'
  BY <1>0, <1>1 DEF dataVars, data, call
<1>2. ASSUME NEW len \in Sizes \cup {BufferSize}, Read(len), ~UNCHANGED dataVars
      PROVE  DataTypeOK'
  <2>1. GetCall(AtMost(len))
    BY <1>2 DEF Read
  <2>2. AtMost(len) \in Nat
    BY Consts DEF TypeOK, AtMost
  <2>3. get' = [NoCall EXCEPT !.size = AtMost(len)] /\ step' = "copy" /\ UNCHANGED <<data, pool, got, spoilt>>
    BY <2>1 DEF GetCall
  <2>4. get'.item = NULL /\ get'.size \in Nat /\ get'.nb = 0 /\ get'.copied = 0 /\ get'.avail = 0
    BY <2>2, <2>3 DEF NoCall
  <2> QED
    BY <1>0, <2>3, <2>4, NullIs DEF data
<1>3. ASSUME GetCopy PROVE DataTypeOK'
  <2>1. /\ got' = Bytes /\ get' = [get EXCEPT !.copied = Len(Bytes), !.avail = available]
        /\ step' = "store" /\ UNCHANGED <<data, pool, spoilt>>
    BY <1>3, BytesAre DEF GetCopy
  <2> QED
    BY <1>0, <1>3, <2>1, BytesAre, Consts DEF GetCopy, data
<1>4. ASSUME GetStore PROVE DataTypeOK'
  <2>1. /\ get.avail - get.copied \in Int /\ offset + get.copied \in Int
        /\ get.nb + get.copied \in Nat /\ 0 \in 0 .. AvailMod - 1
    BY <1>0, Consts
  <2>2. (get.avail - get.copied) % AvailMod \in 0 .. AvailMod - 1
        /\ (offset + get.copied) % AvailMod \in 0 .. AvailMod - 1
    BY <2>1, Counted
  <2>3. available' \in 0 .. AvailMod - 1 /\ offset' \in 0 .. AvailMod - 1
    BY <1>4, <2>1, <2>2 DEF GetStore
  <2>4. get'.item \in Pbuf /\ {get'.size, get'.nb, get'.copied, get'.avail} \subseteq Nat
    BY <1>0, <1>4, <2>1, NullIs DEF GetStore, NoCall, CallOK
  <2>5. pool' \subseteq pool /\ step' \in {"take", "idle"} /\ UNCHANGED <<p, pbuf_queue, got, spoilt>>
    BY <1>4 DEF GetStore
  <2> QED
    BY <1>0, <2>3, <2>4, <2>5
<1>5. ASSUME GetTake PROVE DataTypeOK'
  <2>1. /\ get' = [get EXCEPT !.item = NULL] /\ step' = "set"
        /\ UNCHANGED <<p, offset, available, pbuf_queue, pool, got, spoilt>>
    BY <1>5 DEF GetTake, CallOK
  <2>2. get'.item \in Pbuf /\ {get'.size, get'.nb, get'.copied, get'.avail} \subseteq Nat
    BY <1>0, <1>5, <2>1, NullIs DEF CallOK, GetTake
  <2> QED
    BY <1>0, <2>1, <2>2
<1>6. ASSUME GetSet PROVE DataTypeOK'
  BY <1>0, <1>6, NullIs DEF GetSet, CallOK, NoCall, Skips
<1>7. ASSUME ReadDone PROVE DataTypeOK'
  BY <1>0, <1>7 DEF ReadDone, data, call
<1>8. ASSUME NEW len \in Lengths, Datagram(len) PROVE DataTypeOK'
  <2>1. /\ p' \in Pbuf /\ p' # NULL /\ available' = len /\ available' \in 0 .. AvailMod - 1
        /\ pool' = (pool \ {p}) \cup {p'}
    BY <1>8, DatagramIs, Consts DEF Datagram, TypeOK
  <2> QED
    BY <1>0, <1>8, <2>1 DEF Datagram, call
<1>9. CASE UNCHANGED vars
  BY <1>1, <1>9 DEF vars
<1> QED
  BY <1>1, <1>2, <1>3, <1>4, <1>5, <1>6, <1>7, <1>8, <1>9
     DEF Next, User, Lwip, Begin, Stop, ParseSender, ParseLength, Reading, GetData, BeginPacket,
         BeginPacketHost, DnsFound, DnsTimeout, DnsReturn, Write, EndPacket, DnsCallback

(* A call of the sketch moves its turn within its loop.                     *)
LEMMA GoesOn ==
  ASSUME turn \in 1 .. 5, NEW on \in BOOLEAN, Goes(on)
  PROVE  turn' \in 1 .. 5
  BY DEF Goes

(* Each step keeps the variables in their types.                            *)
LEMMA TypeNext ==
  ASSUME TypeOK, CallOK, PacketOK, [Next]_vars
  PROVE  TypeOK'
<1>0. DataTypeOK' /\ DataTypeOK /\ turn \in 1 .. 5 /\ \A on \in BOOLEAN : Goes(on) => turn' \in 1 .. 5
  BY DataTypeNext, GoesOn DEF TypeOK
<1> HIDE DEF Goes
<1> USE <1>0 DEF TypeOK, udp, sending, dns, user
<1>1. CASE Begin
  <2>1. begins + 1 \in 0 .. MaxBegins /\ 0 \in 0 .. AvailMod - 1
    BY <1>1, Consts DEF Begin
  <2> QED
    BY <1>1, <2>1 DEF Begin
<1>2. CASE Stop
  BY <1>2 DEF Stop
<1>3. CASE ParseSender
  BY <1>3 DEF ParseSender
<1>4. CASE ParseLength
  <2>1. available \in 0 .. AvailMod - 1
    BY DEF DataTypeOK
  <2> QED
    BY <1>4, <2>1 DEF ParseLength
<1>5. ASSUME NEW len \in Sizes \cup {BufferSize}, Read(len) PROVE TypeOK'
  BY <1>5 DEF Read
<1>6. CASE Reading
  BY <1>6 DEF Reading
<1>7. CASE ReadDone
  <2>1. Len(got) \in Nat
    BY DEF DataTypeOK
  <2>2. remaining - Len(got) \in Int
    BY <2>1, Consts
  <2>3. (remaining - Len(got)) % AvailMod \in 0 .. AvailMod - 1
    BY <2>2, Counted
  <2> QED
    BY <1>7, <2>3 DEF ReadDone
<1>8. CASE BeginPacket
  BY <1>8 DEF BeginPacket
<1>9. ASSUME NEW h \in Hosts, BeginPacketHost(h) PROVE TypeOK'
  <2>1. lookups + 1 \in 1 .. MaxLookups /\ lookups + 1 \in 0 .. MaxLookups
    BY <1>9, Consts DEF BeginPacketHost
  <2>2. <<lookups + 1, h>> \in (1 .. MaxLookups) \X Hosts
    BY <2>1
  <2>3. pending' \subseteq (1 .. MaxLookups) \X Hosts /\ ipResult' \in Hosts \cup {0}
        /\ wanted' \in Senders \cup Hosts \cup {0} /\ turn' \in 1 .. 5
        /\ pc' \in {"idle", "parse", "read", "dns", "found"}
    BY <1>9, <2>2 DEF BeginPacketHost
  <2> QED
    BY <1>9, <2>1, <2>3 DEF BeginPacketHost
<1>10. CASE DnsFound \/ DnsTimeout
  BY <1>10 DEF DnsFound, DnsTimeout
<1>11. CASE DnsReturn
  BY <1>11 DEF DnsReturn
<1>12. CASE Write
  <2>1. out' \in 0 .. MaxData /\ pbufs' \in Nat
    BY <1>12, Consts DEF Write
  <2> QED
    BY <1>12, <2>1 DEF Write
<1>13. CASE EndPacket
  <2>1. out' \in 0 .. MaxData /\ pbufs' \in Nat
    BY <1>13, Consts DEF EndPacket, PacketOK
  <2> QED
    BY <1>13, <2>1 DEF EndPacket
<1>14. ASSUME NEW len \in Lengths, Datagram(len) PROVE TypeOK'
  <2>1. datagrams + 1 \in 1 .. MaxDatagrams /\ datagrams + 1 \in 0 .. MaxDatagrams
    BY <1>14, Consts DEF Datagram
  <2>2. ip' \in Senders
    BY <1>14, <2>1 DEF Datagram, Senders
  <2> QED
    BY <1>14, <2>1, <2>2 DEF Datagram
<1>15. ASSUME NEW r \in pending, DnsCallback(r) PROVE TypeOK'
  <2>1. r[2] \in Hosts
    OBVIOUS
  <2> QED
    BY <1>15, <2>1 DEF DnsCallback
<1>16. CASE UNCHANGED vars
  BY <1>16 DEF vars
<1> QED
  BY <1>1, <1>2, <1>3, <1>4, <1>5, <1>6, <1>7, <1>8, <1>9, <1>10, <1>11, <1>12, <1>13, <1>14,
     <1>15, <1>16 DEF Next, User, Lwip

-----------------------------------------------------------------------------
(* The steps by what they do to the data.                                   *)
(* A step that is no part of receiving or reading.                          *)
Apart == UNCHANGED <<dataVars>> /\ (pc' = "read" <=> pc = "read")

(* What a step is to the data, the pool and the reader.                     *)
LEMMA Ways ==
  ASSUME [Next]_vars
  PROVE  \/ Apart /\ (odd \cap {"twice"} = odd' \cap {"twice"})
         \/ \E len \in Sizes \cup {BufferSize} :
              /\ GetCall(AtMost(len)) /\ pc = "idle" /\ pc' = "read" /\ remaining > 0
              /\ UNCHANGED <<udp, odd>>
         \/ /\ GetCopy \/ GetStore \/ GetTake \/ GetSet
            /\ UNCHANGED <<udp, pc, odd>>
         \/ ReadDone
         \/ \E len \in Lengths : Datagram(len)
<1> USE DEF Apart, dataVars, user
<1>1. CASE Begin \/ Stop
  BY <1>1 DEF Begin, Stop
<1>2. CASE ParseSender \/ ParseLength
  BY <1>2 DEF ParseSender, ParseLength, May
<1>3. ASSUME NEW len \in Sizes \cup {BufferSize}, Read(len)
      PROVE  \/ Apart /\ odd' = odd
             \/ GetCall(AtMost(len)) /\ pc = "idle" /\ pc' = "read" /\ remaining > 0 /\ UNCHANGED <<udp, odd>>
  BY <1>3 DEF Read, May
<1>4. CASE Reading
  BY <1>4 DEF Reading, GetData
<1>5. CASE BeginPacket \/ \E h \in Hosts : BeginPacketHost(h)
  BY <1>5 DEF BeginPacket, BeginPacketHost, May
<1>6. CASE DnsFound \/ DnsTimeout \/ DnsReturn
  BY <1>6 DEF DnsFound, DnsTimeout, DnsReturn
<1>7. CASE Write \/ EndPacket
  BY <1>7 DEF Write, EndPacket
<1>8. CASE \E request \in pending : DnsCallback(request)
  BY <1>8 DEF DnsCallback
<1>9. CASE UNCHANGED vars
  BY <1>9 DEF vars
<1> QED
  BY <1>1, <1>2, <1>3, <1>4, <1>5, <1>6, <1>7, <1>8, <1>9 DEF Next, User, Lwip

(* Each step leaves a call in a step that goes with its locals.             *)
LEMMA CallNext ==
  ASSUME TypeOK, CallOK, [Next]_vars
  PROVE  CallOK'
<1>0. available \in Nat /\ NoCall \in Locals /\ get \in Locals
  BY NullIs, Consts DEF TypeOK, DataTypeOK, NoCall, Locals, CallOK
<1> USE DEF CallOK
<1>1. CASE Apart
  BY <1>1 DEF Apart, dataVars, data, call
<1>2. ASSUME NEW len \in Sizes \cup {BufferSize}, GetCall(AtMost(len)), pc = "idle", pc' = "read"
      PROVE  CallOK'
  <2>1. AtMost(len) \in Nat
    BY Consts DEF TypeOK, AtMost
  <2>2. [NoCall EXCEPT !.size = AtMost(len)] \in Locals /\ [NoCall EXCEPT !.size = AtMost(len)].nb = 0
        /\ [NoCall EXCEPT !.size = AtMost(len)].item = NULL
    BY <2>1, NullIs DEF NoCall, Locals
  <2> QED
    BY <1>2, <2>2 DEF GetCall, data
<1>3. CASE GetCopy /\ UNCHANGED pc
  <2>1. get' = [get EXCEPT !.copied = Len(Bytes), !.avail = available] /\ step = "copy"
        /\ step' = "store" /\ UNCHANGED <<p, pbuf_queue>>
    BY <1>3 DEF GetCopy, data
  <2>2. get' \in Locals /\ get'.nb = get.nb /\ get'.item = get.item
    BY <1>0, <2>1, BytesAre DEF Locals
  <2> QED
    BY <1>3, <2>1, <2>2
<1>4. CASE GetStore /\ UNCHANGED pc
  <2>1. [get EXCEPT !.nb = @ + get.copied] \in Locals /\ [get EXCEPT !.nb = @ + get.copied].item = get.item
    BY <1>0 DEF Locals
  <2> QED
    BY <1>0, <1>4, <2>1 DEF GetStore
<1>5. CASE GetTake /\ UNCHANGED pc
  <2>1. /\ get' = [get EXCEPT !.item = NULL] /\ step = "take" /\ step' = "set"
        /\ pbuf_queue' = <<>> /\ pc' = "read" /\ p' = p
    BY <1>5 DEF GetTake
  <2>2. get'.item = NULL /\ get' \in Locals
    BY <1>0, <2>1, NullIs DEF Locals
  <2> QED
    BY <2>1, <2>2
<1>6. CASE GetSet /\ UNCHANGED pc
  <2>1. p' = NULL /\ step' = "idle" /\ get' = NoCall /\ pbuf_queue' = <<>> /\ got' = got
    BY <1>6 DEF GetSet
  <2>2. p'.len < AvailMod
    BY <2>1, NullIs, Consts
  <2> QED
    BY <1>0, <1>6, <2>1, <2>2 DEF GetSet
<1>7. CASE ReadDone
  <2>1. UNCHANGED <<p, pbuf_queue, step, get>> /\ pc' = "idle" /\ got' = <<>> /\ step = "idle"
    BY <1>7 DEF ReadDone, data, call
  <2> QED
    BY <2>1
<1>8. ASSUME NEW len \in Lengths, Datagram(len) PROVE CallOK'
  <2>1. p' # NULL /\ p'.len < AvailMod
    BY <1>8, DatagramIs, Consts DEF Datagram, TypeOK
  <2> QED
    BY <1>8, <2>1 DEF Datagram, call, user
<1> QED
  BY <1>1, <1>2, <1>3, <1>4, <1>5, <1>6, <1>7, <1>8, Ways

(* Each step accounts for the pbuf of the datagram.                         *)
LEMMA PoolNext ==
  ASSUME TypeOK, CallOK, PoolOK, [Next]_vars
  PROVE  PoolOK'
<1> USE DEF PoolOK
<1>1. CASE Apart /\ (odd \cap {"twice"} = odd' \cap {"twice"})
  <2>1. "twice" \in odd' <=> "twice" \in odd
    BY <1>1
  <2> QED
    BY <1>1, <2>1 DEF Apart, dataVars, data, call
<1>2. ASSUME NEW len \in Sizes \cup {BufferSize}, GetCall(AtMost(len)), UNCHANGED odd
      PROVE  PoolOK'
  BY <1>2 DEF GetCall, data
<1>3. CASE (GetCopy \/ GetTake) /\ UNCHANGED odd
  BY <1>3 DEF GetCopy, GetTake, data
<1>4. CASE GetStore /\ UNCHANGED odd
  BY <1>4 DEF GetStore
<1>5. CASE GetSet /\ UNCHANGED odd
  BY <1>5 DEF GetSet, CallOK
<1>7. CASE ReadDone
  BY <1>7 DEF ReadDone, data, call
<1>8. ASSUME NEW len \in Lengths, Datagram(len) PROVE PoolOK'
  <2>1. p' # NULL
    BY <1>8, DatagramIs, Consts DEF Datagram, TypeOK
  <2>2. step \in {"take", "set"} => "twice" \in odd'
    BY <1>8 DEF Datagram
  <2>3. "twice" \notin odd' => "twice" \notin odd
    BY <1>8 DEF Datagram
  <2>4. step' = step /\ pool' = (pool \ {p}) \cup {p'}
    BY <1>8 DEF Datagram, call
  <2> QED
    BY <2>1, <2>2, <2>3, <2>4
<1> QED
  BY <1>1, <1>2, <1>3, <1>4, <1>5, <1>7, <1>8, Ways

(* Each step accounts for the pbuf of the packet.                           *)
LEMMA PacketNext ==
  ASSUME TypeOK, PacketOK, [Next]_vars
  PROVE  PacketOK'
<1> USE DEF PacketOK
<1>0. out \in Nat /\ pbufs \in Nat
  BY Consts DEF TypeOK
<1>1. CASE Write
  BY <1>0, <1>1 DEF Write
<1>2. CASE EndPacket
  BY <1>0, <1>2 DEF EndPacket
<1>3. ASSUME UNCHANGED <<out, pbufs>>, "leak" \in odd' <=> "leak" \in odd PROVE PacketOK'
  BY <1>3
<1>4. CASE Begin \/ Stop \/ ParseSender \/ ParseLength \/ \E len \in Sizes \cup {BufferSize} : Read(len)
  BY <1>3, <1>4 DEF Begin, Stop, ParseSender, ParseLength, Read, sending
<1>5. CASE Reading \/ ReadDone \/ BeginPacket \/ \E h \in Hosts : BeginPacketHost(h)
  BY <1>3, <1>5 DEF Reading, ReadDone, BeginPacket, BeginPacketHost, sending
<1>6. CASE DnsFound \/ DnsTimeout \/ DnsReturn \/ UNCHANGED vars
  BY <1>3, <1>6 DEF DnsFound, DnsTimeout, DnsReturn, sending, vars
<1>7. ASSUME NEW len \in Lengths, Datagram(len) PROVE PacketOK'
  <2>1. "leak" \in odd' <=> "leak" \in odd
    BY <1>7 DEF Datagram
  <2> QED
    BY <1>3, <1>7, <2>1 DEF Datagram, sending
<1>8. ASSUME NEW r \in pending, DnsCallback(r) PROVE PacketOK'
  <2>1. "leak" \in odd' <=> "leak" \in odd
    BY <1>8 DEF DnsCallback
  <2> QED
    BY <1>3, <1>8, <2>1 DEF DnsCallback, sending
<1> QED
  BY <1>1, <1>2, <1>4, <1>5, <1>6, <1>7, <1>8 DEF Next, User, Lwip

(* Each step keeps the lookup under way, its answers and sendto together.   *)
LEMMA LookupNext ==
  ASSUME TypeOK, LookupOK, SendsToWanted, [Next]_vars
  PROVE  LookupOK' /\ SendsToWanted'
<1> USE DEF LookupOK, SendsToWanted
<1>0. lookups \in Nat /\ \A r \in pending : r[1] \in Nat /\ r[2] \in Hosts
  BY Consts DEF TypeOK
<1>3. ASSUME UNCHANGED <<dns, sendto, wanted>>, "late" \in odd' <=> "late" \in odd,
             ready' => ready, pc' = pc \/ pc' \in {"idle", "parse", "read"}
      PROVE  LookupOK' /\ SendsToWanted'
  BY <1>3 DEF dns
<1>1. CASE BeginPacket
  BY <1>1 DEF BeginPacket, May, dns
<1>2. ASSUME NEW h \in Hosts, BeginPacketHost(h) PROVE LookupOK' /\ SendsToWanted'
  <2>1. /\ lookups' = lookups + 1 /\ wanted' = h /\ ~ready' /\ UNCHANGED odd
        /\ ipResult' \in {0, h} /\ pending' \subseteq pending \cup {<<lookups + 1, h>>}
    BY <1>2 DEF BeginPacketHost
  <2>2. ASSUME NEW r \in pending' PROVE r[1] <= lookups' /\ (r[1] = lookups' => r[2] = wanted')
    <3>1. CASE r = <<lookups + 1, h>>
      BY <3>1, <2>1, <1>0
    <3>2. CASE r \in pending
      <4>1. r[1] \in Nat /\ r[1] <= lookups
        BY <3>2, <1>0
      <4> QED
        BY <4>1, <2>1, <1>0
    <3> QED
      BY <3>1, <3>2, <2>1
  <2> QED
    BY <2>1, <2>2
<1>4. CASE Begin \/ Stop
  <2>1. "late" \in odd' <=> "late" \in odd
    BY <1>4 DEF Begin, Stop
  <2>2. UNCHANGED <<dns, sendto, wanted, ready, pc>>
    BY <1>4 DEF Begin, Stop, sending, user
  <2> QED
    BY <1>3, <2>1, <2>2
<1>11. CASE ParseSender \/ ParseLength \/ \E len \in Sizes \cup {BufferSize} : Read(len)
  <2>1. UNCHANGED <<dns, sendto, wanted, ready, odd>>
    BY <1>11 DEF ParseSender, ParseLength, Read, sending
  <2>2. pc' = pc \/ pc' \in {"idle", "parse", "read"}
    BY <1>11 DEF ParseSender, ParseLength, Read
  <2> QED
    BY <1>3, <2>1, <2>2
<1>5. CASE Reading \/ ReadDone \/ DnsTimeout \/ UNCHANGED vars
  <2>1. UNCHANGED <<dns, sendto, wanted, ready, odd>>
    BY <1>5 DEF Reading, ReadDone, DnsTimeout, sending, vars
  <2>2. pc' = pc \/ pc' \in {"idle", "parse", "read"}
    BY <1>5 DEF Reading, ReadDone, DnsTimeout, user, vars
  <2> QED
    BY <1>3, <2>1, <2>2
<1>6. CASE Write \/ EndPacket
  <2>1. "late" \in odd' <=> "late" \in odd
    BY <1>6 DEF Write, EndPacket
  <2> QED
    BY <1>3, <1>6, <2>1 DEF Write, EndPacket
<1>7. CASE DnsFound
  BY <1>7 DEF DnsFound, dns, sending
<1>8. CASE DnsReturn
  BY <1>8 DEF DnsReturn, dns
<1>9. ASSUME NEW len \in Lengths, Datagram(len) PROVE LookupOK' /\ SendsToWanted'
  <2>1. "late" \in odd' <=> "late" \in odd
    BY <1>9 DEF Datagram
  <2> QED
    BY <1>3, <1>9, <2>1 DEF Datagram, sending, user
<1>10. ASSUME NEW r \in pending, DnsCallback(r) PROVE LookupOK' /\ SendsToWanted'
  <2>1. /\ ipResult' \in {r[2], 0} /\ pending' = pending \ {r}
        /\ UNCHANGED <<lookups, sendto, wanted, ready, pc>>
    BY <1>10 DEF DnsCallback, sending, user
  <2>2. "late" \notin odd' => "late" \notin odd /\ pc \in {"dns", "found"} /\ r[1] = lookups
    BY <1>10 DEF DnsCallback
  <2> QED
    BY <2>1, <2>2
<1> QED
  BY <1>1, <1>2, <1>4, <1>5, <1>6, <1>7, <1>8, <1>9, <1>10, <1>11 DEF Next, User, Lwip

-----------------------------------------------------------------------------
(* The numbers of bytes, remaining and available, that a datagram allows.   *)
LEMMA Numbers ==
  ASSUME TypeOK, CallOK
  PROVE  /\ p.from \in Nat /\ p.len \in Nat /\ offset \in Nat /\ available \in 0 .. AvailMod - 1
         /\ remaining \in 0 .. AvailMod - 1 /\ remaining \in Nat /\ available \in Nat
         /\ get.size \in Nat /\ get.copied \in Nat /\ get.avail \in Nat
         /\ End(-ip) \in Int /\ End(-remote) \in Int
<1>1. ip \in Int /\ remote \in Int
  BY Consts DEF TypeOK, Senders
<1>2. End(-ip) \in Int /\ End(-remote) \in Int
  BY <1>1, Consts DEF End
<1> QED
  BY <1>2, Consts DEF TypeOK, DataTypeOK, CallOK, Pbuf, Locals

(* Between two reads: the calls that start one, or do not read.             *)
LEMMA RestNext ==
  ASSUME TypeOK, CallOK, pc # "read", RestOK, odd' \cap {"replaced", "stale"} = {}, [Next]_vars
  PROVE  IF pc' = "read" THEN ReadOK' ELSE RestOK'
<1>0. p.from \in Nat /\ p.len \in Nat /\ offset \in Nat /\ available \in Nat /\ remaining \in Nat
      /\ step = "idle"
  BY Numbers DEF CallOK
<1> USE DEF RestOK
<1>1. CASE Begin
  <2>1. "stale" \notin odd'
    OBVIOUS
  <2>2. UNCHANGED <<p, offset, available, ip, remote>> /\ pc' = pc
        /\ ((p = NULL /\ remaining' = 0) \/ UNCHANGED remaining)
    BY <1>1, <2>1 DEF Begin, dataVars, data, user
  <2> QED
    BY <2>2
<1>2. CASE ParseSender
  <2>1. UNCHANGED <<p, offset, available, remaining, ip>>
    BY <1>2 DEF ParseSender, dataVars, data
  <2>2. \/ available > 0 /\ remote' = ip /\ pc' = "parse"
        \/ UNCHANGED <<remote, pc>>
    BY <1>2 DEF ParseSender
  <2> QED
    BY <1>0, <2>1, <2>2
<1>3. CASE ParseLength
  <2>1. UNCHANGED <<p, offset, available, remote, ip>> /\ remaining' = available /\ pc' = "idle"
        /\ pc = "parse"
    BY <1>3 DEF ParseLength, dataVars, data
  <2> QED
    BY <1>0, <2>1
<1>4. ASSUME UNCHANGED <<p, offset, available, remaining, remote, ip>>,
             pc' = pc \/ pc' \in {"idle", "dns", "found"}
      PROVE  IF pc' = "read" THEN ReadOK' ELSE RestOK'
  BY <1>4
<1>5. ASSUME NEW len \in Sizes \cup {BufferSize}, Read(len)
      PROVE  IF pc' = "read" THEN ReadOK' ELSE RestOK'
  <2>1. CASE ~(remaining > 0 /\ p # NULL /\ available > 0)
    <3>1. UNCHANGED <<p, offset, available, remaining, remote, ip, pc>>
      BY <1>5, <2>1 DEF Read, dataVars, data, udp
    <3> QED
      BY <1>4, <3>1
  <2>2. CASE remaining > 0 /\ p # NULL /\ available > 0
    <3>1. GetCall(AtMost(len)) /\ pc' = "read" /\ UNCHANGED <<remaining, remote, ip>>
      BY <1>5, <2>2 DEF Read, udp
    <3>2. AtMost(len) \in 1 .. remaining
      BY <1>0, <2>2, Consts DEF AtMost
    <3>3. step' = "copy" /\ UNCHANGED <<p, offset, available>> /\ get'.size = AtMost(len)
      BY <3>1 DEF GetCall, NoCall, data
    <3>4. p.from + p.len = End(-remote) /\ remote = ip /\ remaining = available
      BY <2>2
    <3>5. End(-remote') = End(-remote)
      BY <3>1
    <3>6. ReadOK'
      BY <2>2, <3>1, <3>2, <3>3, <3>4, <3>5 DEF ReadOK
    <3> QED
      BY <3>1, <3>6
  <2> QED
    BY <2>1, <2>2
<1>6. CASE Stop \/ BeginPacket \/ Write \/ EndPacket
  <2>1. UNCHANGED <<p, offset, available, remaining, remote, ip, pc>>
    BY <1>6 DEF Stop, BeginPacket, Write, EndPacket, dataVars, data, udp, user
  <2> QED
    BY <1>4, <2>1
<1>7. CASE (\E h \in Hosts : BeginPacketHost(h)) \/ DnsFound \/ DnsTimeout \/ DnsReturn
  <2>1. UNCHANGED <<p, offset, available, remaining, remote, ip>>
    BY <1>7 DEF BeginPacketHost, DnsFound, DnsTimeout, DnsReturn, dataVars, data, udp
  <2>2. pc' = pc \/ pc' \in {"idle", "dns", "found"}
    BY <1>7 DEF BeginPacketHost, DnsFound, DnsTimeout, DnsReturn
  <2> QED
    BY <1>4, <2>1, <2>2
<1>8. CASE \E r \in pending : DnsCallback(r)
  <2>1. UNCHANGED <<p, offset, available, remaining, remote, ip, pc>>
    BY <1>8 DEF DnsCallback, dataVars, data, udp, user
  <2> QED
    BY <1>4, <2>1
<1>9. ASSUME NEW len \in Lengths, Datagram(len)
      PROVE  IF pc' = "read" THEN ReadOK' ELSE RestOK'
  <2>1. "replaced" \notin odd'
    OBVIOUS
  <2>2. remaining = 0 /\ pc # "parse"
    BY <1>0, <1>9, <2>1 DEF Datagram
  <2>3. /\ p' = [from |-> End(datagrams + 1) - len, len |-> len] /\ available' = len
        /\ ip' = -(datagrams + 1) /\ UNCHANGED <<offset, remaining, pc>> /\ datagrams \in Nat
    BY <1>9, Consts DEF Datagram, user, TypeOK
  <2>4. p' # NULL /\ p'.len = len /\ p'.from + p'.len = End(datagrams + 1) /\ len \in 1 .. AvailMod - 1
    BY <2>3, DatagramIs
  <2>5. -ip' = datagrams + 1
    BY <2>3
  <2>6. offset = 0
    BY <2>2
  <2>7. len = len - offset /\ len > 0
    BY <2>4, <2>6, Consts
  <2> QED
    BY <2>2, <2>3, <2>4, <2>5, <2>6, <2>7
<1>10. ~Reading /\ ~ReadDone
  BY DEF Reading, ReadDone
<1>11. CASE UNCHANGED vars
  <2>1. UNCHANGED <<p, offset, available, remaining, remote, ip, pc>>
    BY <1>11 DEF vars, dataVars, data, udp, user
  <2> QED
    BY <1>4, <2>1
<1> QED
  BY <1>1, <1>2, <1>3, <1>5, <1>6, <1>7, <1>8, <1>9, <1>10, <1>11 DEF Next, User, Lwip

(* The announced bytes are as many as were announced.                       *)
LEMMA AnnouncedIs ==
  ASSUME NEW n \in Nat
  PROVE  Len(Announced(n)) = n
  BY LenProperties DEF Announced

(* During a read.                                                           *)
LEMMA ReadNext ==
  ASSUME TypeOK, CallOK, pc = "read", ReadOK, odd' \cap {"replaced", "stale"} = {}, [Next]_vars
  PROVE  IF pc' = "read" THEN ReadOK' ELSE RestOK'
<1>0. /\ p.from \in Nat /\ p.len \in Nat /\ offset \in Nat /\ available \in Nat /\ remaining \in Nat
      /\ available \in 0 .. AvailMod - 1 /\ remaining \in 0 .. AvailMod - 1
      /\ get.size \in Nat /\ remaining > 0 /\ End(-remote) \in Int /\ AvailMod \in Nat \ {0}
      /\ step \in {"idle", "copy", "store", "take", "set"} /\ get \in Locals
  BY Numbers, Consts DEF CallOK, TypeOK, DataTypeOK, ReadOK
<1>1. ASSUME GetCopy, UNCHANGED <<udp, pc>> PROVE ReadOK'
  <2>1. /\ step = "copy" /\ step' = "store" /\ got' = got \o Bytes
        /\ get' = [get EXCEPT !.copied = Len(Bytes), !.avail = available]
        /\ UNCHANGED <<p, offset, available, remaining, remote, ip>>
    BY <1>1 DEF GetCopy, data, udp
  <2>2. /\ p # NULL /\ p.from + p.len = End(-remote) /\ remote = ip
        /\ remaining = available /\ available = p.len - offset /\ get.size \in 1 .. remaining
    BY <2>1 DEF ReadOK
  <2>3. Bytes = [i \in 1 .. get.size |-> p.from + offset + i] /\ Len(Bytes) = get.size /\ got' = Bytes
    <3>1. get.size \in Nat \ {0} /\ p.len - offset >= get.size
      BY <1>0, <2>2
    <3> QED
      BY <2>1, <3>1, BytesAre
  <2>4. \A i \in 1 .. get.size : p.from + offset + i = End(-remote) - remaining + i
    BY <1>0, <2>2
  <2>5. Bytes = Announced(get.size)
    BY <2>3, <2>4 DEF Announced
  <2>6. get'.copied = get.size /\ get'.size = get.size /\ get'.avail = available
    BY <1>0, <2>1, <2>3 DEF Locals
  <2>7. Announced(get.size)' = Announced(get'.size)
    BY <2>1, <2>6 DEF Announced
  <2>8. Announced(get.size) = Announced(get'.size)
    BY <2>6
  <2> QED
    BY <1>0, <2>1, <2>2, <2>3, <2>5, <2>6, <2>7, <2>8 DEF ReadOK
<1>2. ASSUME GetStore, UNCHANGED <<udp, pc>> PROVE ReadOK'
  <2>1. /\ step = "store" /\ UNCHANGED <<p, got, remaining, remote, ip>>
        /\ available' = (get.avail - get.copied) % AvailMod
        /\ offset' = IF PbufDone THEN 0 ELSE (offset + get.copied) % AvailMod
        /\ step' = IF PbufDone THEN "take" ELSE "idle"
    BY <1>2 DEF GetStore, udp
  <2>2. /\ p # NULL /\ p.from + p.len = End(-remote) /\ remote = ip
        /\ remaining = available /\ available = p.len - offset /\ get.size \in 1 .. remaining
        /\ get.copied = get.size /\ get.avail = available /\ got = Announced(get.size)
    BY <2>1 DEF ReadOK
  <2>3. available' = remaining - get.size
    <3>1. get.avail - get.copied = remaining - get.size /\ remaining - get.size \in 0 .. AvailMod - 1
          /\ remaining - get.size \in Int
      BY <1>0, <2>2
    <3> QED
      BY <2>1, <3>1, Counted
  <2>4. PbufDone <=> get.size = remaining
    <3>1. ToCopy = get.size /\ ~(get.copied < ToCopy)
      BY <1>0, <2>1, <2>2 DEF ToCopy, CallOK
    <3>2. offset + get.copied = p.len <=> get.size = remaining
      BY <1>0, <2>2
    <3> QED
      BY <3>1, <3>2 DEF PbufDone
  <2>5. \A n \in Nat : Announced(n)' = Announced(n)
    BY <2>1 DEF Announced
  <2>6. CASE get.size = remaining
    <3>1. step' = "take" /\ offset' = 0 /\ available' = 0
      BY <1>0, <2>1, <2>3, <2>4, <2>6
    <3>2. got' = Announced(remaining)' /\ remaining' > 0
      BY <1>0, <2>1, <2>2, <2>6 DEF Announced
    <3> QED
      BY <3>1, <3>2 DEF ReadOK
  <2>7. CASE get.size # remaining
    <3>1. offset + get.copied \in 0 .. AvailMod - 1 /\ offset + get.copied \in Int
      <4>1. offset + get.copied <= p.len /\ p.len = offset + remaining
        BY <1>0, <2>2
      <4>2. offset \in 0 .. AvailMod - 1 /\ p.len < AvailMod
        BY DEF TypeOK, DataTypeOK, CallOK
      <4> QED
        BY <4>1, <4>2, <1>0, <2>2
    <3>2. offset' = offset + get.size /\ step' = "idle"
      BY <2>1, <2>2, <2>4, <2>7, <3>1, Counted
    <3>3. available' = p.len - offset' /\ get.size \in 1 .. remaining /\ get.size \in Nat
      BY <1>0, <2>2, <2>3, <3>2
    <3> QED
      BY <2>1, <2>2, <2>3, <2>5, <2>7, <3>2, <3>3 DEF ReadOK
  <2> QED
    BY <2>6, <2>7
<1>3. ASSUME GetTake, UNCHANGED <<udp, pc>> PROVE ReadOK'
  <2>1. /\ step = "take" /\ step' = "set" /\ UNCHANGED <<p, offset, available, got, remaining, remote>>
    BY <1>3 DEF GetTake, udp
  <2>2. Announced(remaining)' = Announced(remaining)
    BY <2>1 DEF Announced
  <2> QED
    BY <2>1, <2>2 DEF ReadOK
<1>4. ASSUME GetSet, UNCHANGED <<udp, pc>> PROVE ReadOK'
  <2>1. /\ step = "set" /\ step' = "idle" /\ p' = NULL
        /\ UNCHANGED <<offset, available, got, remaining, remote>>
    BY <1>4 DEF GetSet, CallOK, udp, Skips
  <2>2. Announced(remaining)' = Announced(remaining)
    BY <2>1 DEF Announced
  <2>3. available = 0 /\ offset = 0 /\ got = Announced(remaining)
    BY <2>1 DEF ReadOK
  <2>4. remaining \in 1 .. remaining
    BY <1>0
  <2> QED
    BY <1>0, <2>1, <2>2, <2>3, <2>4 DEF ReadOK
<1>5. ASSUME ReadDone PROVE pc' # "read" /\ RestOK'
  <2>1. /\ step = "idle" /\ pc' = "idle" /\ UNCHANGED <<p, offset, available, remote, ip>>
        /\ remaining' = IF Len(got) > 0 THEN (remaining - Len(got)) % AvailMod ELSE remaining
    BY <1>5 DEF ReadDone, data
  <2>2. PICK n \in 1 .. remaining :
          /\ got = Announced(n)
          /\ IF n = remaining THEN p = NULL /\ offset = 0 /\ available = 0
             ELSE /\ p # NULL /\ p.from + p.len = End(-remote) /\ remote = ip
                  /\ available = remaining - n /\ available = p.len - offset
    BY <2>1 DEF ReadOK
  <2>3. Len(got) = n /\ n \in Nat /\ n > 0
    BY <1>0, <2>2, AnnouncedIs
  <2>4. remaining - n \in 0 .. AvailMod - 1 /\ remaining - n \in Int
    BY <1>0, <2>2
  <2>5. remaining' = remaining - n
    BY <2>1, <2>3, <2>4, Counted
  <2>6. CASE n = remaining
    BY <1>0, <2>1, <2>2, <2>5, <2>6 DEF RestOK
  <2>7. CASE n # remaining
    <3>1. remaining' # 0 /\ available > 0 /\ remaining' = available
      BY <1>0, <2>2, <2>3, <2>5, <2>7
    <3> QED
      BY <2>1, <2>2, <2>7, <3>1 DEF RestOK
  <2> QED
    BY <2>1, <2>6, <2>7
<1>6. ASSUME UNCHANGED <<dataVars, udp, pc>> PROVE ReadOK'
  <2>1. UNCHANGED <<p, offset, available, step, get, got, remaining, remote, ip>>
    BY <1>6 DEF dataVars, data, call, udp
  <2>2. \A n : Announced(n)' = Announced(n)
    BY <2>1 DEF Announced
  <2> QED
    BY <2>1, <2>2 DEF ReadOK
<1>7. ~(Begin \/ Stop \/ ParseSender \/ ParseLength \/ BeginPacket \/ Write \/ EndPacket
        \/ DnsFound \/ DnsTimeout \/ DnsReturn)
  BY DEF Begin, Stop, ParseSender, ParseLength, BeginPacket, Write, EndPacket, DnsFound,
         DnsTimeout, DnsReturn, May
<1>8. ~(\E len \in Sizes \cup {BufferSize} : Read(len)) /\ ~(\E h \in Hosts : BeginPacketHost(h))
  BY DEF Read, BeginPacketHost, May
<1>9. ~(\E len \in Lengths : Datagram(len))
  <2>1. ASSUME NEW len \in Lengths, Datagram(len) PROVE FALSE
    <3>1. "replaced" \in odd'
      BY <2>1 DEF Datagram
    <3> QED
      BY <3>1
  <2> QED
    BY <2>1
<1>10. CASE (\E r \in pending : DnsCallback(r)) \/ UNCHANGED vars
  BY <1>6, <1>10 DEF DnsCallback, user, vars
<1>11. CASE Reading
  BY <1>1, <1>2, <1>3, <1>4, <1>11 DEF Reading, GetData, user
<1> QED
  BY <1>5, <1>7, <1>8, <1>9, <1>10, <1>11 DEF Next, User, Lwip

(* Each step keeps what is announced, at hand and available in agreement.   *)
LEMMA DatagramNext ==
  ASSUME TypeOK, CallOK, DatagramOK, [Next]_vars
  PROVE  DatagramOK'
<1> SUFFICES ASSUME odd' \cap {"replaced", "stale"} = {}
             PROVE  IF pc' = "read" THEN ReadOK' ELSE RestOK'
  BY DEF DatagramOK
<1>1. odd \subseteq odd'
  <2>1. CASE Begin \/ Write \/ (\E len \in Lengths : Datagram(len)) \/ \E r \in pending : DnsCallback(r)
    BY <2>1 DEF Begin, Write, Datagram, DnsCallback
  <2>2. CASE Stop \/ ParseSender \/ ParseLength \/ \E len \in Sizes \cup {BufferSize} : Read(len)
    BY <2>2 DEF Stop, ParseSender, ParseLength, Read
  <2>3. CASE Reading \/ ReadDone \/ BeginPacket \/ \E h \in Hosts : BeginPacketHost(h)
    BY <2>3 DEF Reading, ReadDone, BeginPacket, BeginPacketHost
  <2>4. CASE DnsFound \/ DnsTimeout \/ DnsReturn \/ EndPacket \/ UNCHANGED vars
    BY <2>4 DEF DnsFound, DnsTimeout, DnsReturn, EndPacket, vars
  <2> QED
    BY <2>1, <2>2, <2>3, <2>4 DEF Next, User, Lwip
<1>2. odd \cap {"replaced", "stale"} = {}
  BY <1>1
<1> QED
  BY <1>2, RestNext, ReadNext DEF DatagramOK

-----------------------------------------------------------------------------
(* The library's datagrams and lookups, whatever the sketch, lwIP and the   *)
(* network do: all that follows is from this.                               *)
THEOREM UdpInvariant == Spec => []UdpInv
<1>1. UdpInv /\ [Next]_vars => UdpInv'
  BY TypeNext, CallNext, PoolNext, PacketNext, DatagramNext, LookupNext DEF UdpInv
<1> QED
  BY <1>1, InitInv, PTL DEF Spec

(* parsePacket(), read() and available() agree on one datagram, and its     *)
(* pbuf is freed once, as is that of a packet.                              *)
THEOREM DataCorrect == Spec => []DataSound
<1>1. ASSUME UdpInv PROVE DataSound
  <2>1. TypeOK /\ CallOK /\ PoolOK /\ PacketOK /\ DatagramOK
    BY <1>1 DEF UdpInv
  <2>2. ReadsOneDatagram
    BY <2>1 DEF ReadsOneDatagram, DatagramOK, ReadOK, Announced
  <2>3. CountsAgree
    BY <2>1, Numbers DEF CountsAgree, DatagramOK, RestOK
  <2>4. PbufsFreed
    BY <2>1 DEF PbufsFreed, PoolOK, PacketOK
  <2> QED
    BY <2>1, <2>2, <2>3, <2>4 DEF DataSound
<1> QED
  BY <1>1, UdpInvariant, PTL

(* A packet goes where the user wants it, whichever lookups are under way.  *)
THEOREM WantedCorrect == Spec => []SendsToWanted
<1>1. UdpInv => SendsToWanted
  BY DEF UdpInv
<1> QED
  BY <1>1, UdpInvariant, PTL

=============================================================================
