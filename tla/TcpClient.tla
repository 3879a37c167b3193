------------------------------ MODULE TcpClient ------------------------------
(***************************************************************************)
(* EthernetClient over lwIP's raw TCP interface: connect(), read() and     *)
(* stop() in the user's thread, and the callbacks of                       *)
(* src/src/utility/stm32_eth.cpp in the tcpip thread, which preempts the   *)
(* user's at any point but inside the core lock.  The data of the          *)
(* connection is module PbufData.                                          *)
(*                                                                         *)
(* The user calls connect() only after stop(), and stop() once: a second   *)
(* one frees the pbuf p once more.  What the code does with a pcb that     *)
(* lwIP has freed is undefined and ends the behaviour.                     *)
(***************************************************************************)
EXTENDS PbufData

CONSTANTS
  MaxConnects,  (* bound: calls of connect()                                *)
  MaxBytes,     (* bound: bytes received on a connection                    *)
  Lengths       (* lengths of the pbufs lwIP passes on                      *)

ASSUME TcpClientAssumption ==
  /\ {MaxConnects, MaxBytes} \subseteq Nat
  /\ Lengths \subseteq Nat \ {0}

VARIABLES
  state, pcb,   (* of struct tcp_struct; pcb 0 is NULL                      *)
  pcbs,         (* what lwIP does with each pcb                             *)
  connects,     (* pcbs allocated so far                                    *)
  received,     (* bytes received on this connection                        *)
  upc,          (* the next step of the user's thread                       *)
  tpcb,         (* the argument of its tcp_connection_close                 *)
  stopped       (* the user has called stop()                               *)

conn == <<state, pcb, pcbs, connects>>
user == <<upc, tpcb, stopped>>
vars == <<dataVars, conn, received, user>>

Pcbs == 1 .. MaxConnects

TypeOK ==
  /\ DataTypeOK
  /\ state \in {"NONE", "CONNECTED", "CLOSING"}
  /\ pcb \in Pcbs \cup {0} /\ tpcb \in Pcbs \cup {0}
  /\ pcbs \in [Pcbs -> {"free", "new", "syn", "open", "shut"}]
  /\ connects \in 0 .. MaxConnects /\ received \in 0 .. MaxBytes
  /\ upc \in {"idle", "wait", "close", "free"}
  /\ stopped \in BOOLEAN

Init ==
  /\ DataInit
  /\ state = "NONE" /\ pcb = 0
  /\ pcbs = [c \in Pcbs |-> "free"]
  /\ connects = 0
  /\ received = 0
  /\ upc = "idle" /\ tpcb = 0
  /\ stopped = TRUE

Live(c) == c # 0 /\ pcbs[c] \in {"new", "syn", "open"}

(* tcp_connection_close of a connection that is not closing.  When          *)
(* tcp_close fails, tcp_abort frees the pcb at once.                        *)
ConnectionClose(c) ==
  /\ Live(c)
  /\ \E after \in {"shut", "free"} : pcbs' = [pcbs EXCEPT ![c] = after]
  /\ pcb' = 0
  /\ state' = "CLOSING"
  /\ UNCHANGED connects

-----------------------------------------------------------------------------
(* The user's thread.  stop(), up to the core lock: what it does next, with *)
(* which pcb, is decided from what it reads here.                           *)
StopStart ==
  IF state = "CLOSING" \/ pcb = 0
  THEN upc' = "free" /\ state' = "CLOSING" /\ UNCHANGED tpcb
  ELSE upc' = "close" /\ tpcb' = pcb /\ UNCHANGED state

(* connect() reads no pointer of the old connection: its data is gone.      *)
Connect ==
  /\ upc = "idle" /\ stopped
  /\ connects < MaxConnects
  /\ connects' = connects + 1
  /\ pcb' = connects + 1
  /\ p' = NULL /\ offset' = 0 /\ available' = 0 /\ pbuf_queue' = <<>>
  /\ got' = <<>> /\ received' = 0
  /\ stopped' = FALSE
  /\ \/ (* tcp_connect sends a SYN *)
        /\ pcbs' = [pcbs EXCEPT ![connects + 1] = "syn"]
        /\ state' = "NONE"
        /\ upc' = "wait"
        /\ UNCHANGED tpcb
     \/ (* tcp_connect fails: stop() *)
        /\ pcbs' = [pcbs EXCEPT ![connects + 1] = "new"]
        /\ state' = "NONE"
        /\ upc' = "close" /\ tpcb' = connects + 1
  /\ UNCHANGED <<pool, call, spoilt>>

ConnectDone ==
  /\ upc = "wait"
  /\ state # "NONE"
  /\ upc' = "idle"
  /\ UNCHANGED <<dataVars, conn, received, tpcb, stopped>>

ConnectTimeoutNoStop ==
  /\ upc = "wait"
  /\ state = "NONE"
  /\ upc' = "free"
  /\ UNCHANGED <<dataVars, conn, received, tpcb, stopped>>

ConnectTimeout ==
  /\ upc = "wait"
  /\ state = "NONE"
  /\ StopStart
  /\ UNCHANGED <<dataVars, pcb, pcbs, connects, received, stopped>>

(* read() and read(buf, size).  read() asks for p but not for available and *)
(* returns a byte in any case.                                              *)
Idle == upc = "idle" /\ step = "idle"

Read(size) ==
  /\ upc = "idle"
  /\ GetCall(size)
  /\ UNCHANGED <<conn, received, user>>

ReadNothing ==
  /\ Idle
  /\ p # NULL /\ available = 0
  /\ Len(got) <= MaxBytes
  /\ got' = Append(got, 0)
  /\ UNCHANGED <<data, pool, call, spoilt, conn, received, user>>

Reading ==
  /\ GetData
  /\ UNCHANGED <<conn, received, user>>

Stop ==
  /\ Idle /\ ~stopped
  /\ StopStart
  /\ UNCHANGED <<dataVars, pcb, pcbs, connects, received, stopped>>

(* tcp_connection_close reads the state once more before it takes the lock. *)
StopClose ==
  /\ upc = "close"
  /\ ConnectionClose(tpcb)
  /\ upc' = "free"
  /\ UNCHANGED <<dataVars, received, tpcb, stopped>>

StopFree ==
  /\ upc = "free"
  /\ FreeData
  /\ upc' = "idle" /\ tpcb' = 0
  /\ stopped' = TRUE
  /\ UNCHANGED <<call, got, spoilt, conn, received>>

-----------------------------------------------------------------------------
(* lwIP.  tcp_connected_callback.                                           *)
Connected(c) ==
  /\ pcbs[c] = "syn"
  /\ IF pcb = c
     THEN /\ pcbs' = [pcbs EXCEPT ![c] = "open"]
          /\ state' = "CONNECTED"
          /\ UNCHANGED <<pcb, connects>>
     ELSE state # "CLOSING" /\ ConnectionClose(c)
  /\ UNCHANGED <<dataVars, received, user>>

(* The peer answers a SYN with a reset: lwIP frees the pcb.  The client has *)
(* no error callback yet.                                                   *)
Refused(c) ==
  /\ pcbs[c] = "syn"
  /\ pcbs' = [pcbs EXCEPT ![c] = "free"]
  /\ UNCHANGED <<dataVars, state, pcb, connects, received, user>>

(* tcp_recv_callback, with data.                                            *)
Receive(c, len) ==
  /\ pcbs[c] = "open" /\ state = "CONNECTED"
  /\ received + len <= MaxBytes
  /\ Accept([from |-> received, len |-> len])
  /\ received' = received + len
  /\ UNCHANGED <<call, got, conn, user>>

(* tcp_recv_callback, at the end of the stream.                             *)
Finished(c) ==
  /\ pcbs[c] = "open"
  /\ ConnectionClose(c)
  /\ UNCHANGED <<dataVars, received, user>>

(* tcp_err_callback: lwIP has freed the pcb.                                *)
Reset(c) ==
  /\ pcbs[c] = "open"
  /\ pcbs' = [pcbs EXCEPT ![c] = "free"]
  /\ pcb' = 0
  /\ state' = "CLOSING"
  /\ UNCHANGED <<connects, dataVars, received, user>>

(* lwIP ends what tcp_close began.                                          *)
Closed(c) ==
  /\ pcbs[c] = "shut"
  /\ pcbs' = [pcbs EXCEPT ![c] = "free"]
  /\ UNCHANGED <<dataVars, state, pcb, connects, received, user>>

User ==
  \/ Connect \/ ConnectDone \/ ConnectTimeout
  \/ \E size \in Sizes : Read(size)
  \/ ReadNothing \/ Reading
  \/ Stop \/ StopClose \/ StopFree

Lwip(c) ==
  \/ Connected(c) \/ Refused(c)
  \/ \E len \in Lengths : Receive(c, len)
  \/ Finished(c) \/ Reset(c) \/ Closed(c)

Next == User \/ \E c \in Pcbs : Lwip(c)

Spec == Init /\ [][Next]_vars

-----------------------------------------------------------------------------
(* EthernetClient::connected()                                              *)
StatusConnectedOpen == state = "CONNECTED"
StatusConnected == state = "CONNECTED" \/ (available # 0 /\ state = "CLOSING")

InCall == stopped \/ ~Idle

(* A read of several bytes, a full queue and a callback that is not counted *)
(* lose bytes, but nothing comes twice or out of order.                     *)
Ordered ==
  "chain" \notin spoilt =>
    \A i, j \in DOMAIN got : i < j /\ got[i] # 0 /\ got[j] # 0 => got[i] < got[j]

(* The user gets the bytes of the connection in order, without gaps, and    *)
(* available() is what is left of them, as long as no callback has come at  *)
(* one of the two points of Preempted, no read of several bytes has gone on *)
(* into the next pbuf and no pbuf has found the queue full; and even then   *)
(* they come in order.                                                      *)
StreamRead ==
  /\ TypeOK /\ Ordered
  /\ ~InCall /\ spoilt = {} =>
       /\ got = [i \in 1 .. Len(got) |-> i]
       /\ available = received - Len(got)
       /\ available = 0 <=> p = NULL

(* Under the same conditions a loop "while (client.connected())" reads what *)
(* the peer sent before it closed the connection, and then ends.            *)
ReadToTheEnd ==
  ~InCall /\ spoilt = {} /\ state = "CLOSING" => (StatusConnected <=> Len(got) < received)

(* Every pbuf is freed once: when it has been read, or by stop(), whatever  *)
(* came in between.  (Behind a p that is NULL stop() would not find it.)    *)
PbufsFreed ==
  step = "idle" /\ "chain" \notin spoilt =>
    /\ pool = IF stopped THEN {} ELSE Held
    /\ ~stopped => Cardinality(Held) = Len(pbuf_queue) + (IF p = NULL THEN 0 ELSE 1)

(* A connection that lwIP has open, or is opening, is the one the client    *)
(* has, and the client's state says so: no callback of an old connection    *)
(* comes to the data of a new one.                                          *)
OnePcb ==
  \A c \in Pcbs : pcbs[c] \in {"new", "syn", "open"} =>
    /\ pcb = c /\ ~stopped
    /\ pcbs[c] = "open" <=> state = "CONNECTED"
=============================================================================
