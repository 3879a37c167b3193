-------------------------------- MODULE Udp --------------------------------
(***************************************************************************)
(* EthernetUDP over module PbufData, udp_receive_callback, and the         *)
(* resolver: getHostByName, stm32_dns_gethostbyname and dns_callback.  The *)
(* user's thread is one of the sketches UdpNtpClient ("ntp") and           *)
(* UDPSendReceiveString ("echo"), or one that calls what there is for      *)
(* receiving ("reads") or for sending ("sends") in any order.              *)
(*                                                                         *)
(* Datagram d comes from address -d, and its last byte is number           *)
(* d * MaxLength in the stream of PbufData, so that no two share a byte.   *)
(* A host name is the address that it stands for.                          *)
(***************************************************************************)
EXTENDS PbufData

CONSTANTS
  Hosts,
  Lengths,       (* lengths of the datagrams that come                      *)
  MaxLength,     (* the longest; tot_len is as wide as available            *)
  BufferSize,    (* of the sketches: NTP_PACKET_SIZE, UDP_TX_PACKET_MAX_SIZE*)
  MaxDatagrams,  (* bound: datagrams received                               *)
  MaxLookups,    (* bound: names looked up                                  *)
  MaxData,       (* bound: bytes written to one packet                      *)
  MaxBegins,     (* bound: calls of begin()                                 *)
  Sketches

ASSUME UdpAssumption ==
  /\ Hosts \subseteq Nat \ {0}
  /\ MaxLength \in 0 .. AvailMod - 1 /\ Lengths \subseteq 1 .. MaxLength
  /\ {BufferSize, MaxBegins} \subseteq Nat \ {0}
  /\ {MaxDatagrams, MaxLookups, MaxData} \subseteq Nat
  /\ Sketches \subseteq {"ntp", "echo", "reads", "sends"}

VARIABLES
  pcb, ip,                    (* _udp.pcb is not NULL; the sender in _udp   *)
  remaining, remote, sendto,
  out,                        (* length of _data, 0 for NULL                *)
  pbufs,                      (* outgoing pbufs that are allocated          *)
  ipResult,                   (* the word on the stack that dns_callback has the address of *)
  pending,                    (* requests whose callback is still to come   *)
  lookups, datagrams, begins, (* how many so far                            *)
  sketch, turn, pc,           (* the user's thread                          *)
  wanted,                     (* where the user wants the packet to go      *)
  ready,                      (* beginPacket() has returned 1               *)
  odd                         (* what has happened that the code does not allow for *)

udp == <<pcb, ip, remaining, remote>>
sending == <<sendto, out, pbufs, wanted, ready>>
dns == <<ipResult, pending, lookups>>
user == <<sketch, turn, pc>>
vars == <<dataVars, udp, sending, dns, datagrams, begins, user, odd>>

Senders == {-d : d \in 1 .. MaxDatagrams}
End(d) == d * MaxLength

TypeOK ==
  /\ DataTypeOK
  /\ pcb \in BOOLEAN /\ ready \in BOOLEAN
  /\ ip \in Senders \cup {0} /\ remote \in Senders \cup {0}
  /\ sendto \in Senders \cup Hosts \cup {0} /\ wanted \in Senders \cup Hosts \cup {0}
  /\ remaining \in 0 .. AvailMod - 1
  /\ out \in 0 .. MaxData /\ pbufs \in Nat
  /\ ipResult \in Hosts \cup {0}
  /\ pending \subseteq (1 .. MaxLookups) \X Hosts
  /\ lookups \in 0 .. MaxLookups /\ datagrams \in 0 .. MaxDatagrams /\ begins \in 0 .. MaxBegins
  /\ sketch \in Sketches /\ turn \in 1 .. 5
  /\ pc \in {"idle", "parse", "read", "dns", "found"}
  /\ odd \subseteq {"replaced", "twice", "stale", "late", "leak"}

Init ==
  /\ DataInit
  /\ pcb = FALSE /\ ip = 0 /\ remaining = 0 /\ remote = 0
  /\ sendto = 0 /\ out = 0 /\ pbufs = 0 /\ wanted = 0 /\ ready = FALSE
  /\ ipResult = 0 /\ pending = {} /\ lookups = 0
  /\ datagrams = 0 /\ begins = 0
  /\ sketch \in Sketches /\ turn = 1 /\ pc = "idle"
  /\ odd = {}

-----------------------------------------------------------------------------
(* loop() of the sketches; after parsePacket() has found nothing they start *)
(* again.                                                                   *)
NtpLoop == <<"host", "write", "end", "parse", "read">>
EchoLoop == <<"parse", "read", "packet", "write", "end">>

May(op) ==
  /\ pc = "idle" /\ step = "idle"
  /\ CASE sketch = "ntp"  -> begins > 0 /\ NtpLoop[turn] = op
       [] sketch = "echo" -> begins > 0 /\ EchoLoop[turn] = op
       [] sketch = "reads" -> op \in {"stop", "parse", "read"}
       [] sketch = "sends" -> op \in {"stop", "host", "packet", "write", "end"}

Fixed == sketch \in {"ntp", "echo"}

Goes(on) == turn' = IF ~Fixed \/ ~on \/ turn = 5 THEN 1 ELSE turn + 1

(* begin(); the sketches do not ask whether it worked.                      *)
Begin ==
  /\ pc = "idle" /\ step = "idle" /\ begins < (IF Fixed THEN 1 ELSE MaxBegins)
  /\ begins' = begins + 1
  /\ \/ /\ ~pcb /\ pcb' = TRUE /\ remaining' = 0
        /\ odd' = IF p = NULL THEN odd ELSE odd \cup {"stale"}
     \/ UNCHANGED <<pcb, remaining, odd>>
  /\ UNCHANGED <<dataVars, ip, remote, sending, dns, datagrams, user>>

(* stop() removes the pcb and leaves the data.                              *)
Stop ==
  /\ May("stop")
  /\ pcb /\ pcb' = FALSE
  /\ UNCHANGED <<dataVars, ip, remaining, remote, sending, dns, datagrams, begins, user, odd>>

(* parsePacket() reads the sender and the length one after the other.  It   *)
(* does not discard what is left of the datagram before.                    *)
ParseSender ==
  /\ May("parse")
  /\ IF available > 0
     THEN remote' = ip /\ pc' = "parse" /\ UNCHANGED turn
     ELSE Goes(FALSE) /\ UNCHANGED <<remote, pc>>
  /\ UNCHANGED <<dataVars, pcb, ip, remaining, sending, dns, datagrams, begins, sketch, odd>>

ParseLength ==
  /\ pc = "parse"
  /\ remaining' = available
  /\ pc' = "idle" /\ Goes(TRUE)
  /\ UNCHANGED <<dataVars, pcb, ip, remote, sending, dns, datagrams, begins, sketch, odd>>

(* read(), read(buffer, len): what is left of the datagram, at most.        *)
AtMost(len) == IF remaining <= len THEN remaining ELSE len

Read(len) ==
  /\ May("read")
  /\ IF remaining > 0 /\ p # NULL /\ available > 0
     THEN GetCall(AtMost(len)) /\ pc' = "read" /\ UNCHANGED turn
     ELSE Goes(TRUE) /\ UNCHANGED <<dataVars, pc>>
  /\ UNCHANGED <<udp, sending, dns, datagrams, begins, sketch, odd>>

Reading ==
  /\ pc = "read" /\ step # "idle"
  /\ GetData
  /\ UNCHANGED <<udp, sending, dns, datagrams, begins, user, odd>>

(* The bytes that stm32_get_data has returned count as read.                *)
ReadDoneUncounted ==
  /\ pc = "read" /\ step = "idle"
  /\ UNCHANGED remaining
  /\ pc' = "idle" /\ Goes(TRUE)
  /\ UNCHANGED <<dataVars, pcb, ip, remote, sending, dns, datagrams, begins, sketch, odd>>

ReadDone ==
  /\ pc = "read" /\ step = "idle"
  /\ remaining' = IF Len(got) > 0 THEN (remaining - Len(got)) % AvailMod ELSE remaining
  /\ got' = <<>>
  /\ pc' = "idle" /\ Goes(TRUE)
  /\ UNCHANGED <<data, pool, call, spoilt, pcb, ip, remote, sending, dns, datagrams, begins, sketch, odd>>

-----------------------------------------------------------------------------
(* beginPacket(ip, port): in the sketches, to the sender.                   *)
BeginPacket ==
  /\ May("packet")
  /\ wanted' = remote
  /\ IF pcb THEN sendto' = remote /\ ready' = TRUE ELSE UNCHANGED sendto /\ ready' = FALSE
  /\ Goes(TRUE)
  /\ UNCHANGED <<dataVars, udp, out, pbufs, dns, datagrams, begins, sketch, pc, odd>>

BeginPacketHostNoReset(h) ==
  /\ May("host")
  /\ lookups < MaxLookups
  /\ lookups' = lookups + 1
  /\ wanted' = h
  /\ ready' = FALSE
  /\ pending' = pending \cup {<<lookups + 1, h>>} /\ pc' = "dns"
  /\ UNCHANGED <<ipResult, turn, dataVars, udp, sendto, out, pbufs, datagrams, begins, sketch, odd>>

(* beginPacket(host, port): getHostByName() fails at once without a server  *)
(* or when dns_gethostbyname does, finds the name in lwIP's cache, or waits *)
(* for the callback.                                                        *)
BeginPacketHost(h) ==
  /\ May("host")
  /\ lookups < MaxLookups
  /\ lookups' = lookups + 1
  /\ wanted' = h
  /\ ready' = FALSE
  /\ \/ ipResult' = 0 /\ Goes(TRUE) /\ UNCHANGED <<pending, pc>>
     \/ ipResult' = h /\ pc' = "found" /\ UNCHANGED <<pending, turn>>
     \/ ipResult' = 0 /\ pending' = pending \cup {<<lookups + 1, h>>} /\ pc' = "dns" /\ UNCHANGED turn
  /\ UNCHANGED <<dataVars, udp, sendto, out, pbufs, datagrams, begins, sketch, odd>>

(* The loop of stm32_dns_gethostbyname sees an address, or gives up.        *)
DnsFound ==
  /\ pc = "dns" /\ ipResult # 0
  /\ pc' = "found"
  /\ UNCHANGED <<dataVars, udp, sending, dns, datagrams, begins, sketch, turn, odd>>

DnsTimeoutIfAnswered ==
  /\ pc = "dns" /\ ipResult = 0 /\ \A h \in Hosts : <<lookups, h>> \notin pending
  /\ pc' = "idle" /\ Goes(TRUE)
  /\ UNCHANGED <<dataVars, udp, sending, dns, datagrams, begins, sketch, odd>>

DnsTimeout ==
  /\ pc = "dns" /\ ipResult = 0
  /\ pc' = "idle" /\ Goes(TRUE)
  /\ UNCHANGED <<dataVars, udp, sending, dns, datagrams, begins, sketch, odd>>

(* The address is read once more: a failure that came late has erased it.   *)
DnsReturn ==
  /\ pc = "found"
  /\ IF ipResult # 0 /\ pcb THEN sendto' = ipResult /\ ready' = TRUE ELSE UNCHANGED <<sendto, ready>>
  /\ pc' = "idle" /\ Goes(TRUE)
  /\ UNCHANGED <<dataVars, udp, out, pbufs, wanted, dns, datagrams, begins, sketch, odd>>

(* write(): stm32_new_data copies what there is into a new pbuf.  When the  *)
(* heap is exhausted the packet is forgotten, but its pbuf not freed.       *)
Write ==
  /\ May("write")
  /\ \/ /\ out < MaxData /\ out' = out + 1
        /\ pbufs' = IF out = 0 THEN pbufs + 1 ELSE pbufs
        /\ UNCHANGED odd
     \/ /\ "leak" \notin odd (* bound: this happens once *)
        /\ out' = 0
        /\ odd' = IF out = 0 THEN odd ELSE odd \cup {"leak"}
        /\ UNCHANGED pbufs
  /\ Goes(TRUE)
  /\ UNCHANGED <<dataVars, udp, sendto, wanted, ready, dns, datagrams, begins, sketch, pc>>

(* endPacket(): whether udp_sendto succeeds or not.                         *)
EndPacket ==
  /\ May("end")
  /\ IF pcb /\ out # 0
     THEN out' = 0 /\ pbufs' = pbufs - 1 /\ ready' = FALSE
     ELSE UNCHANGED <<out, pbufs, ready>>
  /\ Goes(TRUE)
  /\ UNCHANGED <<dataVars, udp, sendto, wanted, dns, datagrams, begins, sketch, pc, odd>>

User ==
  \/ Begin \/ Stop \/ ParseSender \/ ParseLength
  \/ \E len \in Sizes \cup {BufferSize} : Read(len)
  \/ Reading \/ ReadDone
  \/ BeginPacket \/ \E h \in Hosts : BeginPacketHost(h)
  \/ DnsFound \/ DnsTimeout \/ DnsReturn
  \/ Write \/ EndPacket

-----------------------------------------------------------------------------
(* udp_receive_callback.  The pbuf before is freed, read or not, and the    *)
(* offset stays; between pbuf_free and the assignment to p in               *)
(* stm32_get_data it is freed a second time.                                *)
Datagram(len) ==
  /\ pcb /\ datagrams < MaxDatagrams
  /\ datagrams' = datagrams + 1
  /\ p' = [from |-> End(datagrams + 1) - len, len |-> len]
  /\ available' = len
  /\ pool' = (pool \ {p}) \cup {p'}
  /\ ip' = -(datagrams + 1)
  /\ odd' = odd \cup (IF step \in {"take", "set"} THEN {"twice"} ELSE {})
                \cup (IF remaining > 0 \/ pc \in {"parse", "read"} THEN {"replaced"} ELSE {})
  /\ UNCHANGED <<offset, pbuf_queue, call, got, spoilt, pcb, remaining, remote, sending, dns, begins, user>>

(* dns_callback, with an address or without.  When the caller has given up  *)
(* the word may be anybody's.                                               *)
DnsCallback(request) ==
  /\ request \in pending
  /\ ipResult' \in {request[2], 0}
  /\ pending' = pending \ {request}
  /\ odd' = IF pc \in {"dns", "found"} /\ request[1] = lookups THEN odd ELSE odd \cup {"late"}
  /\ UNCHANGED <<dataVars, udp, sending, lookups, datagrams, begins, user>>

Lwip ==
  \/ \E len \in Lengths : Datagram(len)
  \/ \E request \in pending : DnsCallback(request)

Next == User \/ Lwip

Spec == Init /\ [][Next]_vars

(* A call of the library goes on, and millis() does too.                    *)
FairSpec == Spec /\ WF_vars(pc # "idle" /\ User)

-----------------------------------------------------------------------------
(* read() returns the bytes of the datagram that parsePacket() announced,   *)
(* from where the last read() stopped, and as many as were asked for,       *)
(* unless another datagram has come in the meantime or was left over.       *)
ReadsOneDatagram ==
  pc = "read" /\ step = "idle" /\ odd \cap {"replaced", "stale"} = {} =>
    \E n \in 1 .. remaining : got = [i \in 1 .. n |-> End(-remote) - remaining + i]

(* available() is what is left of the datagram, and with nothing left the   *)
(* next parsePacket() does not announce it again.                           *)
CountsAgree ==
  pc = "idle" /\ odd \cap {"replaced", "stale"} = {} =>
    /\ remaining # 0 => remaining = available
    /\ available = 0 <=> p = NULL

(* Received pbufs are freed once each, by the reader or by the next         *)
(* datagram, and sent ones whether udp_sendto succeeds or not.              *)
PbufsFreed ==
  /\ step = "idle" /\ "twice" \notin odd => pool = {p} \ {NULL}
  /\ "leak" \notin odd => pbufs = (IF out = 0 THEN 0 ELSE 1)

(* After beginPacket() has returned 1 the packet goes where the user wants  *)
(* it: no answer to an earlier lookup is taken for this one's.              *)
SendsToWanted == ready /\ "late" \notin odd => sendto = wanted

(* A call of the library returns: a lookup too, whether the answer comes,   *)
(* says no, or is lost.                                                     *)
CallsReturn == pc # "idle" ~> pc = "idle"

(* A datagram from its arrival to its end: what is announced can be read,   *)
(* is what was sent, and is freed once, as is what is built for sending.    *)
DataSound == TypeOK /\ ReadsOneDatagram /\ CountsAgree /\ PbufsFreed

=============================================================================
