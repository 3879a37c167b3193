-------------------------- MODULE HttpClientProofs --------------------------
(***************************************************************************)
(* Proofs about the HTTP client: what it allocates is freed once at every  *)
(* way out, and what it passes on is the body, for bodies of every length; *)
(* and, in the second half, about link supervision and DHCP, for any       *)
(* number of begin() calls and so of ethernet_threads, of link changes,    *)
(* renewals and retries.  The two specifications share no variable.        *)
(***************************************************************************)
EXTENDS HttpClient, DhcpLink, SequenceTheorems, TLAPS

(* The request has been started and has not ended in any way.               *)
Live == api = "ok" /\ results = <<>> /\ "closed" \notin odd

Results == {"OK", "CLOSED", "CONTENT_LEN", "LOCAL_ABORT", "MEM", "TIMEOUT", "CONNECT", "HOSTNAME"}

(* A request has no result, or one.                                         *)
ResultOK ==
  \/ results = <<>>
  \/ api = "ok" /\ \E r \in Results : results = <<r>>

(* While it lives everything is allocated, and the query or the pcb will    *)
(* call back; the request is there until it has been handed to lwIP.        *)
LiveOK ==
  Live =>
    /\ req.mem = "heap" /\ req.pcb /\ file \in {"none", "heap"}
    /\ pcb.arg /\ pcb.state \in {"new", "syn", "open"} /\ (dns <=> pcb.state = "new")
    /\ conn.mem = IF proxied THEN "heap" ELSE "none"
    /\ conn.done => pcb.state = "open"
    /\ req.request = IF Ready THEN "none" ELSE "heap"
    /\ odd = {}

(* Afterwards nobody calls back, and all has been freed unless the proxy    *)
(* closed the connection.                                                   *)
Gone ==
  /\ {req.mem, req.request, file} \subseteq {"none", "freed"}
  /\ req.hdrs = 0
  /\ conn.mem \in {"none", "freed"} \/ (proxied /\ "abort" \in odd)

OverOK ==
  ~Live =>
    /\ pcb.state \in {"none", "over"} /\ ~pcb.arg /\ ~dns
    /\ results # <<>> \/ api = "err" => Gone

(* How far the answer has been read.                                        *)
Unread ==
  /\ req.parse = "line" /\ req.hdrs = 0 /\ req.rx = 0 /\ got = <<>> /\ unacked = 0
  /\ at <= AnswerLen /\ (~proxied => at = 0)

InHeader ==
  /\ req.hdrs = at /\ req.rx = 0 /\ got = <<>> /\ unacked = at
  /\ req.parse = IF resp.ok /\ at > 0 THEN "headers" ELSE "line"

InBody ==
  /\ resp.ok /\ req.want = resp.length
  /\ req.hdrs = 0 /\ unacked = 0
  /\ at = HeaderLen + req.rx /\ Len(got) = req.rx

Reading ==
  IF ~Ready THEN Unread
  ELSE /\ at <= Pieces
       /\ IF req.parse = "data" THEN InBody ELSE InHeader

BodyOK ==
  /\ Live => Reading
  /\ got \in Seq(Nat) /\ Len(got) <= MaxBody
  /\ BodyInOrder
  /\ OkMeansWhole

HttpInv == TypeOK /\ ResultOK /\ LiveOK /\ OverOK /\ BodyOK

-----------------------------------------------------------------------------
(* Types.                                                                   *)
ReqType == [mem : Mem, request : Mem, hdrs : 0 .. 4 + MaxBody, pcb : BOOLEAN,
            ticks : 0 .. HTTPC_POLL_TIMEOUT, parse : {"line", "headers", "data"},
            want : Lengths, rx : 0 .. MaxBody]
ConnType == [mem : Mem, started : BOOLEAN, asked : BOOLEAN, done : BOOLEAN]
PcbType == [state : {"none", "new", "syn", "open", "over"}, arg : BOOLEAN]
RespType == [ok : BOOLEAN, length : Lengths, body : 0 .. MaxBody]

(* What the assumption says of the constants.                               *)
LEMMA Consts ==
  /\ MaxBody \in Nat \ {0} /\ HTTPC_POLL_TIMEOUT \in Nat \ {0}
  /\ HTTPC_CONTENT_LEN_INVALID \in Lengths /\ HTTPC_CONTENT_LEN_INVALID = MaxBody + 1
  /\ \A n \in 0 .. 4 + MaxBody : n \in Nat
BY HttpClientAssumption DEF HTTPC_CONTENT_LEN_INVALID, Lengths

(* Freed memory is freed, and memory freed again shows.                     *)
LEMMA Memory ==
  /\ Free("heap") = "freed"
  /\ \A m \in Mem : Free(m) \in Mem /\ FreeIf(m) \in Mem
  /\ \A m \in {"none", "heap"} : FreeIf(m) \in {"none", "freed"}
BY DEF Free, FreeIf, Mem

(* TypeOK, record by record.                                                *)
LEMMA Records ==
  ASSUME TypeOK
  PROVE  /\ proxied \in BOOLEAN /\ req \in ReqType /\ conn \in ConnType /\ pcb \in PcbType
         /\ resp \in RespType /\ unacked \in Nat /\ odd \subseteq {"closed", "abort"}
         /\ file \in Mem /\ dns \in BOOLEAN /\ at \in 0 .. 4 + MaxBody
         /\ HeaderLen \in {3, 4}
BY DEF TypeOK, AltcpTypeOK, ReqType, ConnType, PcbType, RespType, HeaderLen

-----------------------------------------------------------------------------
(* What a call does to the data.  First the ends: httpc_close() and the     *)
(* error callback, with their result.                                       *)
Ended(code) ==
  /\ results' = <<code>>
  /\ req' \in ReqType /\ file' \in Mem /\ conn' \in ConnType
  /\ pcb' = [state |-> "over", arg |-> FALSE]
  /\ odd' \subseteq {"closed", "abort"}
  /\ Gone'

Ends ==
  \E code \in Results :
    /\ Ended(code)
    /\ code = "OK" => resp.ok /\ resp.length \in {HTTPC_CONTENT_LEN_INVALID, Len(got)}
    /\ dns' = FALSE /\ at' \in 0 .. 4 + MaxBody /\ unacked' \in Nat
    /\ UNCHANGED <<proxied, got, api, resp>>

(* The proxy closes: the client is not told.                                *)
Lost ==
  /\ ~dns
  /\ pcb' = [state |-> "over", arg |-> FALSE]
  /\ conn' \in ConnType
  /\ odd' = odd \cup {"closed"}
  /\ UNCHANGED <<proxied, unacked, client, api, resp, at>>

(* Then the ways to go on.                                                  *)
Same == UNCHANGED <<proxied, odd, file, results, api, resp>>

Found ==
  /\ Same /\ dns /\ dns' = FALSE
  /\ pcb' = [pcb EXCEPT !.state = "syn"] /\ conn' = Connecting(conn)
  /\ UNCHANGED <<req, got, unacked, at>>

Opens ==
  /\ Same /\ pcb.state = "syn" /\ ~proxied
  /\ pcb' = [pcb EXCEPT !.state = "open"] /\ conn' = conn
  /\ req' = [req EXCEPT !.request = "none"]
  /\ UNCHANGED <<dns, got, unacked, at>>

Asks ==
  /\ Same /\ pcb.state = "syn" /\ proxied
  /\ pcb' = [pcb EXCEPT !.state = "open"]
  /\ \E a \in BOOLEAN : conn' = [conn EXCEPT !.asked = a]
  /\ UNCHANGED <<req, dns, got, unacked, at>>

Answering ==
  /\ Same /\ proxied /\ pcb.state = "open" /\ ~conn.done
  /\ at' \in 0 .. AnswerLen
  /\ UNCHANGED <<conn, pcb, req, dns, got, unacked>>

Through ==
  /\ Same /\ proxied /\ pcb.state = "open" /\ ~conn.done
  /\ at' = 0
  /\ conn' = [conn EXCEPT !.done = TRUE] /\ pcb' = [pcb EXCEPT !.state = "open"]
  /\ req' = [req EXCEPT !.request = "none"]
  /\ UNCHANGED <<dns, got, unacked>>

Ticks ==
  /\ Same /\ req.ticks > 1
  /\ req' = [req EXCEPT !.ticks = @ - 1]
  /\ UNCHANGED <<conn, pcb, dns, got, unacked, at>>

(* A pbuf of n pieces is part of the header, or its end, or body.           *)
Piece(n) ==
  /\ Same /\ Ready /\ n \in Nat /\ n > 0 /\ at + n <= Pieces /\ at' = at + n
  /\ UNCHANGED <<conn, pcb, dns>>

Headers(n) ==
  /\ Piece(n) /\ req.parse # "data" /\ ~HeaderDone(req.hdrs + n)
  /\ req' = [req EXCEPT !.hdrs = @ + n, !.parse = ParseState(req.hdrs + n)]
  /\ unacked' = unacked + n /\ got' = got

Whole(n) ==
  /\ Piece(n) /\ HeaderDone(req.hdrs + n)
  /\ LET body == req.hdrs + n - HeaderLen IN
     /\ req' = [req EXCEPT !.want = resp.length, !.hdrs = 0, !.parse = "data", !.rx = @ + body]
     /\ got' = got \o [i \in 1 .. body |-> HeaderLen + i]
     /\ unacked' = unacked + n - (HeaderLen + body)

Body(n) ==
  /\ Piece(n) /\ req.parse = "data"
  /\ req' = [req EXCEPT !.rx = @ + n]
  /\ got' = got \o [i \in 1 .. n |-> at + i]
  /\ unacked' = unacked

Goes ==
  \/ Found \/ Opens \/ Asks \/ Answering \/ Through \/ Ticks
  \/ \E n \in 1 .. 4 + MaxBody : Headers(n) \/ Whole(n) \/ Body(n)

(* Closing a request that lives ends it: whatever r of it has changed, what *)
(* it has is freed.                                                         *)
LEMMA CloseEnds ==
  ASSUME TypeOK, LiveOK, Live, NEW r \in ReqType, NEW code \in Results, NEW fail,
         r.mem = "heap", r.request \in {"none", "heap"}, r.pcb, proxied' = proxied,
         Close(r, code, fail)
  PROVE  Ended(code)
<1>1. /\ req \in ReqType /\ conn \in ConnType /\ odd = {} /\ file \in {"none", "heap"}
      /\ proxied \in BOOLEAN /\ conn.mem = IF proxied THEN "heap" ELSE "none"
      /\ results = <<>>
  BY Records DEF LiveOK, Live
<1>2. results' = <<code>>
  BY <1>1 DEF Close
<1>3. req' \in ReqType /\ req'.mem = "freed" /\ req'.request \in {"none", "freed"} /\ req'.hdrs = 0
  <2>1. /\ req' = [r EXCEPT !.mem = Free(@), !.request = FreeIf(@), !.hdrs = 0, !.pcb = FALSE]
        /\ Free(r.mem) = "freed" /\ FreeIf(r.request) \in {"none", "freed"}
    BY Memory DEF Close, FreeState, Dropped
  <2>2. 0 \in 0 .. 4 + MaxBody /\ {"none", "freed"} \subseteq Mem
    BY Consts DEF Mem
  <2> QED
    BY <2>1, <2>2 DEF ReqType
<1>4. file' \in {"none", "freed"} /\ file' \in Mem
  BY <1>1, Memory DEF Close, FileClosed, Mem
<1>5. CloseAltcp(fail)
  BY DEF Close, FreeState
<1>6. /\ pcb' = [state |-> "over", arg |-> FALSE]
      /\ conn' \in ConnType /\ odd' \subseteq {"closed", "abort"}
      /\ conn'.mem \in {"none", "freed"} \/ (proxied /\ "abort" \in odd')
  <2>1. CASE "close" \in fail
    BY <1>1, <1>5, <2>1, Memory DEF CloseAltcp, ConnType, Mem
  <2>2. CASE "close" \notin fail
    BY <1>1, <1>5, <2>2, Memory DEF CloseAltcp, ConnType, Mem
  <2> QED
    BY <2>1, <2>2
<1> QED
  BY <1>2, <1>3, <1>4, <1>6 DEF Ended, Gone

(* So does the error callback.                                              *)
LEMMA ErrEnds ==
  ASSUME TypeOK, LiveOK, Live, Err
  PROVE  Ended("CLOSED")
<1>1. /\ req \in ReqType /\ conn \in ConnType /\ odd = {} /\ file \in {"none", "heap"}
      /\ proxied \in BOOLEAN /\ conn.mem = IF proxied THEN "heap" ELSE "none"
      /\ results = <<>> /\ req.mem = "heap" /\ req.request \in {"none", "heap"}
  BY Records DEF LiveOK, Live
<1>2. results' = <<"CLOSED">>
  BY <1>1 DEF Err
<1>3. req' \in ReqType /\ req'.mem = "freed" /\ req'.request \in {"none", "freed"} /\ req'.hdrs = 0
  <2>1. /\ req' = [req EXCEPT !.mem = Free(@), !.request = FreeIf(@), !.hdrs = 0, !.pcb = FALSE]
        /\ Free(req.mem) = "freed" /\ FreeIf(req.request) \in {"none", "freed"}
    BY <1>1, Memory DEF Err, Dropped
  <2>2. 0 \in 0 .. 4 + MaxBody /\ {"none", "freed"} \subseteq Mem
    BY Consts DEF Mem
  <2> QED
    BY <1>1, <2>1, <2>2 DEF ReqType
<1>4. file' \in {"none", "freed"} /\ file' \in Mem
  BY <1>1, Memory DEF Err, FileClosed, Mem
<1>5. /\ pcb' = [state |-> "over", arg |-> FALSE]
      /\ conn' \in ConnType /\ odd' = odd
      /\ conn'.mem \in {"none", "freed"}
  BY <1>1, Memory DEF Err, LowerErr, ConnType, Mem
<1> QED
  BY <1>1, <1>2, <1>3, <1>4, <1>5 DEF Ended, Gone

-----------------------------------------------------------------------------
(* A request ends as OK only in the body, with as many bytes as announced.  *)
LEMMA Result ==
  ASSUME TypeOK, BodyOK, Live, Ready
  PROVE  /\ ResultOf \in Results
         /\ ResultOf = "OK" => resp.ok /\ resp.length \in {HTTPC_CONTENT_LEN_INVALID, Len(got)}
BY DEF BodyOK, Reading, InBody, ResultOf, Results

(* Callbacks come to a request that lives only.                             *)
LEMMA Alive ==
  ASSUME LiveOK, OverOK, dns \/ Polled
  PROVE  Live /\ pcb.arg /\ odd = {} /\ results = <<>>
BY DEF LiveOK, OverOK, Polled, Live

(* Closing it with another result than OK is one of the ways to end.        *)
LEMMA ClosingEnds ==
  ASSUME TypeOK, LiveOK, Live, NEW r \in ReqType, NEW code \in Results \ {"OK"}, NEW fail,
         r.mem = "heap", r.request \in {"none", "heap"}, r.pcb,
         Close(r, code, fail),
         dns' = FALSE, at' \in 0 .. 4 + MaxBody, unacked' \in Nat, UNCHANGED <<proxied, got, api, resp>>
  PROVE  Ends
BY CloseEnds DEF Ends

(* The request can be handed to lwIP, or that ends it.                      *)
LEMMA ConnectedWays ==
  ASSUME TypeOK, LiveOK, Live, NEW c \in ConnType, NEW x, Connected(c, x),
         dns' = FALSE, at' \in 0 .. 4 + MaxBody, unacked' \in Nat, UNCHANGED <<proxied, got, api, resp>>
  PROVE  \/ Ends
         \/ /\ req' = [req EXCEPT !.request = "none"]
            /\ pcb' = [pcb EXCEPT !.state = "open"]
            /\ conn' = c
            /\ Same
<1>1. CASE WriteFails(c, x)
  <2>1. Close(req, "MEM", x)
    BY <1>1 DEF Connected
  <2>2. req \in ReqType /\ req.mem = "heap" /\ req.request \in {"none", "heap"} /\ req.pcb
    BY Records DEF LiveOK
  <2>3. "MEM" \in Results \ {"OK"}
    BY DEF Results
  <2> QED
    BY <2>1, <2>2, <2>3, ClosingEnds
<1>2. CASE ~WriteFails(c, x)
  BY <1>2 DEF Connected, Same
<1> QED
  BY <1>1, <1>2

(* What has been received of the answer.                                    *)
LEMMA Window ==
  ASSUME TypeOK, BodyOK, Live, Ready, NEW n \in 1 .. 4 + MaxBody, at + n <= Pieces
  PROVE  /\ n \in Nat /\ n > 0 /\ at \in Nat /\ at + n \in 0 .. 4 + MaxBody
         /\ HeaderLen \in Nat /\ unacked \in Nat /\ req.hdrs \in Nat /\ resp.body \in 0 .. MaxBody
         /\ req.parse # "data" => req.hdrs = at /\ unacked = at
         /\ req.parse = "data" => req.hdrs = 0 /\ unacked = 0
<1>1. /\ HeaderLen \in {3, 4} /\ at \in 0 .. 4 + MaxBody /\ unacked \in Nat
      /\ req.hdrs \in 0 .. 4 + MaxBody /\ resp.body \in 0 .. MaxBody
  BY Records DEF ReqType, RespType
<1>2. /\ req.parse # "data" => req.hdrs = at /\ unacked = at
      /\ req.parse = "data" => req.hdrs = 0 /\ unacked = 0
  BY DEF BodyOK, Reading, InBody, InHeader
<1>3. at + n \in 0 .. 4 + MaxBody
  BY <1>1, Consts DEF Pieces
<1> QED
  BY <1>1, <1>2, <1>3, Consts

(* A pbuf behind the handshake.                                             *)
LEMMA RecvWays ==
  ASSUME TypeOK, LiveOK, BodyOK, Live, NEW n \in 1 .. 4 + MaxBody, NEW x, Recv(n, x)
  PROVE  Ends \/ Headers(n) \/ Whole(n) \/ Body(n)
<1>1. /\ Ready /\ at + n <= Pieces /\ at' = at + n
      /\ UNCHANGED <<proxied, dns, api, resp>>
  BY DEF Recv
<1>2. /\ n \in Nat /\ n > 0 /\ at \in Nat /\ at + n \in 0 .. 4 + MaxBody
      /\ HeaderLen \in Nat /\ unacked \in Nat /\ req.hdrs \in Nat
      /\ req.parse # "data" => req.hdrs = at /\ unacked = at
      /\ req.parse = "data" => req.hdrs = 0 /\ unacked = 0
  BY <1>1, Window
<1>3. ~(proxied /\ ~conn.done) /\ dns = FALSE
  BY <1>1, Records DEF Ready, LiveOK
<1>4. \A k \in Nat : Recved(n, k) => unacked' = unacked + n - k
  BY <1>3 DEF Recved
<1>5. CASE RecvHeaderPart(n)
  <2>1. Piece(n)
    BY <1>1, <1>2, <1>5 DEF RecvHeaderPart, Piece, Same
  <2>2. unacked' = unacked + n
    BY <1>2, <1>3, <1>5 DEF RecvHeaderPart, Recved
  <2> QED
    BY <1>5, <2>1, <2>2 DEF RecvHeaderPart, Headers
<1>6. CASE RecvAborted(n, x)
  <2> DEFINE r == [req EXCEPT !.want = resp.length, !.parse = "headers"]
  <2>1. r \in ReqType /\ r.mem = "heap" /\ r.request \in {"none", "heap"} /\ r.pcb
    BY Records DEF LiveOK, ReqType, RespType
  <2>2. req.hdrs + n >= HeaderLen /\ req.parse # "data"
    BY <1>6 DEF RecvAborted, HeaderDone
  <2>3. unacked' = unacked + n - HeaderLen
    BY <1>2, <1>4, <1>6 DEF RecvAborted
  <2>4. unacked' \in Nat
    BY <1>2, <2>2, <2>3
  <2>5. dns' = FALSE /\ got' = got /\ Close(r, "LOCAL_ABORT", x)
    BY <1>1, <1>3, <1>6 DEF RecvAborted
  <2>6. "LOCAL_ABORT" \in Results \ {"OK"}
    BY DEF Results
  <2> HIDE DEF r
  <2> QED
    BY <1>1, <1>2, <2>1, <2>4, <2>5, <2>6, ClosingEnds
<1>7. CASE RecvHeaderDone(n)
  <2>1. Piece(n)
    BY <1>1, <1>2, <1>7 DEF RecvHeaderDone, Piece, Same
  <2>2. HeaderDone(req.hdrs + n) /\ req.hdrs + n - HeaderLen \in Nat
    BY <1>2, <1>7 DEF RecvHeaderDone, HeaderDone
  <2> DEFINE body == req.hdrs + n - HeaderLen
  <2>3. unacked' = unacked + n - (HeaderLen + body)
    BY <1>2, <1>4, <1>7, <2>2 DEF RecvHeaderDone
  <2>4. req' = [req EXCEPT !.want = resp.length, !.hdrs = 0, !.parse = "data", !.rx = @ + body]
    BY <1>7 DEF RecvHeaderDone, RecvFn
  <2>5. got' = got \o [i \in 1 .. body |-> HeaderLen + i]
    BY <1>7 DEF RecvHeaderDone, RecvFn
  <2> QED
    BY <2>1, <2>2, <2>3, <2>4, <2>5 DEF Whole
<1>8. CASE RecvBody(n)
  <2>1. Piece(n)
    BY <1>1, <1>2, <1>8 DEF RecvBody, Piece, Same
  <2>2. unacked' = unacked
    BY <1>2, <1>4, <1>8 DEF RecvBody
  <2> QED
    BY <1>8, <2>1, <2>2 DEF RecvBody, RecvFn, Body
<1> QED
  BY <1>5, <1>6, <1>7, <1>8 DEF Recv

(* Whatever comes, it is a new start, the end of a request that lives, or   *)
(* one of the ways to go on with it.                                        *)
LEMMA Ways ==
  ASSUME HttpInv, [Next]_vars
  PROVE  UNCHANGED vars \/ Start \/ (Live /\ (Ends \/ Lost \/ Goes))
<1> USE DEF HttpInv
<1>0. /\ req \in ReqType /\ conn \in ConnType /\ at \in 0 .. 4 + MaxBody /\ unacked \in Nat
      /\ Live => req.mem = "heap" /\ req.request \in {"none", "heap"} /\ req.pcb
  BY Records DEF LiveOK
<1>a. {"CLOSED", "LOCAL_ABORT", "MEM", "TIMEOUT", "CONNECT", "HOSTNAME"} \subseteq Results \ {"OK"}
  BY DEF Results
<1>1. CASE DnsNotFound
  <2>1. Live
    BY <1>1, Alive DEF DnsNotFound
  <2>2. Close(req, "HOSTNAME", {}) /\ dns' = FALSE /\ UNCHANGED <<proxied, unacked, got, api, resp, at>>
    BY <1>1 DEF DnsNotFound
  <2> QED
    BY <1>0, <1>a, <2>1, <2>2, ClosingEnds
<1>2. CASE Err
  <2>1. Live /\ Ended("CLOSED")
    BY <1>2, Alive, ErrEnds DEF Err
  <2>2. dns = FALSE
    BY <1>2, <2>1, Records DEF Err, LiveOK, Polled
  <2>3. Ends
    BY <1>0, <1>2, <1>a, <2>1, <2>2 DEF Err, Ends
  <2> QED
    BY <2>1, <2>3
<1>3. ASSUME NEW x \in Failing, DnsFound(x)
      PROVE  Live /\ (Ends \/ Goes)
  <2>1. Live
    BY <1>3, Alive DEF DnsFound
  <2>2. CASE Close(req, "CONNECT", {})
    <3>1. dns' = FALSE /\ UNCHANGED <<proxied, unacked, got, api, resp, at>>
      BY <1>3 DEF DnsFound
    <3> QED
      BY <1>0, <1>a, <2>1, <2>2, <3>1, ClosingEnds
  <2>3. CASE ~ConnectFails(x) /\ pcb' = [pcb EXCEPT !.state = "syn"] /\ conn' = Connecting(conn)
             /\ UNCHANGED <<req, file, results, odd>>
    BY <1>3, <2>1, <2>3 DEF DnsFound, Goes, Found, Same
  <2> QED
    BY <1>3, <2>2, <2>3 DEF DnsFound
<1>4. ASSUME NEW x \in Failing, LowerConnected(x)
      PROVE  Live /\ (Ends \/ Goes)
  <2>1. Live /\ dns = FALSE
    BY <1>4, Records, Alive DEF LowerConnected, Polled, LiveOK
  <2>2. pcb.state = "syn" /\ UNCHANGED <<proxied, unacked, dns, got, api, resp, at>>
    BY <1>4 DEF LowerConnected
  <2>3. CASE proxied
    <3>1. Asked(x) \in BOOLEAN
      BY DEF Asked
    <3>2. Asks
      BY <1>4, <2>2, <2>3, <3>1 DEF LowerConnected, Asks, Same
    <3> QED
      BY <2>1, <3>2 DEF Goes
  <2>4. CASE ~proxied
    <3>1. Connected(conn, x)
      BY <1>4, <2>4 DEF LowerConnected
    <3>2. CASE Ends
      BY <2>1, <3>2
    <3>3. CASE req' = [req EXCEPT !.request = "none"] /\ pcb' = [pcb EXCEPT !.state = "open"]
               /\ conn' = conn /\ Same
      BY <2>1, <2>2, <2>4, <3>3 DEF Goes, Opens
    <3> QED
      BY <1>0, <2>1, <2>2, <3>1, <3>2, <3>3, ConnectedWays
  <2> QED
    BY <2>3, <2>4
<1>5. ASSUME NEW x \in Failing, Finished(x)
      PROVE  Live /\ (Ends \/ Goes)
  <2>1. Live /\ dns = FALSE
    BY <1>5, Records, Alive DEF Finished, Ready, Polled, LiveOK
  <2>2. Ready /\ Close(req, ResultOf, x) /\ UNCHANGED <<proxied, unacked, dns, got, api, resp, at>>
    BY <1>5 DEF Finished
  <2>3. /\ ResultOf \in Results
        /\ ResultOf = "OK" => resp.ok /\ resp.length \in {HTTPC_CONTENT_LEN_INVALID, Len(got)}
    BY <2>1, <2>2, Result
  <2>4. Ended(ResultOf)
    BY <1>0, <2>1, <2>2, <2>3, CloseEnds
  <2> QED
    BY <1>0, <2>1, <2>2, <2>3, <2>4 DEF Ends
<1>6. ASSUME NEW x \in Failing, Poll(x)
      PROVE  Live /\ (Ends \/ Goes)
  <2>1. Live /\ dns = FALSE
    BY <1>6, Records, Alive DEF Poll, Polled, LiveOK
  <2>2. UNCHANGED <<proxied, unacked, dns, got, api, resp, at>>
    BY <1>6 DEF Poll
  <2>3. CASE req.ticks > 1
    BY <1>6, <2>1, <2>2, <2>3 DEF Poll, Goes, Ticks, Same
  <2>4. CASE ~(req.ticks > 1)
    BY <1>0, <1>6, <1>a, <2>1, <2>2, <2>4, ClosingEnds DEF Poll
  <2> QED
    BY <2>3, <2>4
<1>7. ASSUME NEW x \in Failing, HandshakeClosed(x)
      PROVE  Live /\ Lost
  <2>1. Live /\ dns = FALSE
    BY <1>7, Records, Alive DEF HandshakeClosed, Polled, LiveOK
  <2>2. conn' \in ConnType
    BY <1>0, <1>7, Memory DEF HandshakeClosed, ConnType, Mem, LiveOK
  <2> QED
    BY <1>7, <2>1, <2>2 DEF HandshakeClosed, Lost
<1>8. ASSUME NEW x \in Failing, NEW n \in 1 .. 4 + MaxBody, HandshakeAnswer(n, x)
      PROVE  Live /\ (Ends \/ Goes)
  <2>1. Live /\ dns = FALSE
    BY <1>8, Records, Alive DEF HandshakeAnswer, Polled, LiveOK
  <2>2. /\ proxied /\ pcb.state = "open" /\ ~conn.done /\ at + n <= AnswerLen
        /\ UNCHANGED <<proxied, unacked, dns, got, api, resp>>
    BY <1>8 DEF HandshakeAnswer
  <2>3. CASE at' = 0 /\ Connected([conn EXCEPT !.done = TRUE], x)
    <3> DEFINE c == [conn EXCEPT !.done = TRUE]
    <3>0. at' \in 0 .. 4 + MaxBody
      BY <2>3, Consts
    <3>1. c \in ConnType /\ at' \in 0 .. 4 + MaxBody
      BY <1>0, <3>0 DEF ConnType
    <3>2. CASE Ends
      BY <2>1, <3>2
    <3>3. CASE req' = [req EXCEPT !.request = "none"] /\ pcb' = [pcb EXCEPT !.state = "open"]
               /\ conn' = c /\ Same
      BY <2>1, <2>2, <2>3, <3>3 DEF Goes, Through
    <3> HIDE DEF c
    <3> QED
      BY <1>0, <2>1, <2>2, <2>3, <3>1, <3>2, <3>3, ConnectedWays DEF c
  <2>4. CASE at' = at + n /\ UNCHANGED <<conn, pcb, odd, req, file, results>>
    <3>1. at' \in 0 .. AnswerLen
      BY <1>0, <2>2, <2>4, Consts DEF AnswerLen
    <3> QED
      BY <2>1, <2>2, <2>4, <3>1 DEF Goes, Answering, Same
  <2> QED
    BY <1>8, <2>3, <2>4 DEF HandshakeAnswer
<1>9. ASSUME NEW x \in Failing, NEW n \in 1 .. 4 + MaxBody, Recv(n, x)
      PROVE  Live /\ (Ends \/ Goes)
  <2>1. Live
    BY <1>9, Alive DEF Recv, Ready, Polled
  <2> QED
    BY <1>9, <2>1, RecvWays DEF Goes
<1> QED
  BY <1>1, <1>2, <1>3, <1>4, <1>5, <1>6, <1>7, <1>8, <1>9 DEF Next

-----------------------------------------------------------------------------
(* Nothing at all is of the right type.                                     *)
LEMMA Empties == NoReq \in ReqType /\ NoPcb \in PcbType /\ NoConn \in ConnType
<1>1. /\ 0 \in 0 .. 4 + MaxBody /\ 0 \in 0 .. MaxBody /\ 0 \in 0 .. HTTPC_POLL_TIMEOUT
      /\ HTTPC_CONTENT_LEN_INVALID \in Lengths
  BY Consts
<1> QED
  BY <1>1 DEF NoReq, NoPcb, NoConn, ReqType, PcbType, ConnType, Mem

(* Every start begins anew.                                                 *)
LEMMA Started ==
  ASSUME TypeOK, Start
  PROVE  /\ proxied' = proxied /\ results' = <<>> /\ got' = <<>> /\ odd' = {}
         /\ at' = 0 /\ unacked' = 0 /\ resp' \in RespType
         /\ req' \in ReqType /\ file' \in Mem /\ conn' \in ConnType /\ pcb' \in PcbType
         /\ \/ /\ api' = "err" /\ dns' = FALSE /\ pcb' = NoPcb /\ Gone'
            \/ /\ api' = "ok" /\ dns' \in BOOLEAN /\ file' \in {"none", "heap"}
               /\ req' = [NoReq EXCEPT !.mem = "heap", !.request = "heap", !.pcb = TRUE,
                                       !.ticks = HTTPC_POLL_TIMEOUT]
               /\ pcb' = [state |-> IF dns' THEN "new" ELSE "syn", arg |-> TRUE]
               /\ conn'.mem = (IF proxied THEN "heap" ELSE "none") /\ ~conn'.done
<1>0. /\ proxied \in BOOLEAN /\ 0 \in 0 .. 4 + MaxBody /\ 0 \in 0 .. MaxBody
      /\ 0 \in 0 .. HTTPC_POLL_TIMEOUT /\ HTTPC_POLL_TIMEOUT \in 0 .. HTTPC_POLL_TIMEOUT
      /\ HTTPC_CONTENT_LEN_INVALID \in Lengths
  BY Records, Consts
<1>1. NoReq \in ReqType /\ NoPcb \in PcbType /\ NoConn \in ConnType
  BY Empties
<1>2. /\ proxied' = proxied /\ results' = <<>> /\ got' = <<>> /\ odd' = {}
      /\ at' = 0 /\ unacked' = 0 /\ resp' \in RespType
  BY DEF Start, RespType
<1>3. ASSUME NEW fail, NEW disk \in BOOLEAN, StartFailing(fail, disk)
      PROVE  /\ api' = "err" /\ dns' = FALSE /\ pcb' = NoPcb /\ Gone'
             /\ req' \in ReqType /\ file' \in Mem /\ conn' \in ConnType
  <2>1. /\ api' = "err" /\ dns' = FALSE /\ pcb' = NoPcb /\ conn' = NoConn
        /\ file' \in {"none", "freed"}
    BY <1>3 DEF StartFailing
  <2>2. \/ req' = NoReq
        \/ \E m \in {"none", "heap"} : req' = Dropped([NoReq EXCEPT !.mem = "heap", !.request = m])
    BY <1>3 DEF StartFailing
  <2>3. /\ req' \in ReqType /\ req'.mem \in {"none", "freed"}
        /\ req'.request \in {"none", "freed"} /\ req'.hdrs = 0
    <3>1. CASE req' = NoReq
      BY <1>1, <3>1 DEF NoReq
    <3>2. CASE \E m \in {"none", "heap"} : req' = Dropped([NoReq EXCEPT !.mem = "heap", !.request = m])
      <4>1. PICK m \in {"none", "heap"} : req' = Dropped([NoReq EXCEPT !.mem = "heap", !.request = m])
        BY <3>2
      <4>2. req' = [NoReq EXCEPT !.mem = Free("heap"), !.request = FreeIf(m), !.hdrs = 0, !.pcb = FALSE]
        BY <4>1 DEF Dropped, NoReq
      <4>3. Free("heap") = "freed" /\ FreeIf(m) \in {"none", "freed"} /\ {"none", "freed"} \subseteq Mem
        BY Memory DEF Mem
      <4> QED
        BY <1>0, <1>1, <4>2, <4>3 DEF ReqType
    <3> QED
      BY <2>2, <3>1, <3>2
  <2> QED
    BY <1>1, <2>1, <2>3 DEF Gone, NoConn, Mem
<1>4. ASSUME NEW fail, NEW disk \in BOOLEAN, NEW wait \in BOOLEAN, Starting(fail, disk, wait)
      PROVE  /\ api' = "ok" /\ dns' \in BOOLEAN /\ file' \in {"none", "heap"}
             /\ req' = [NoReq EXCEPT !.mem = "heap", !.request = "heap", !.pcb = TRUE,
                                     !.ticks = HTTPC_POLL_TIMEOUT]
             /\ pcb' = [state |-> IF dns' THEN "new" ELSE "syn", arg |-> TRUE]
             /\ conn'.mem = (IF proxied THEN "heap" ELSE "none") /\ ~conn'.done
             /\ req' \in ReqType /\ pcb' \in PcbType /\ conn' \in ConnType
  <2>1. /\ api' = "ok" /\ dns' = wait /\ file' \in {"none", "heap"}
        /\ req' = [NoReq EXCEPT !.mem = "heap", !.request = "heap", !.pcb = TRUE,
                                !.ticks = HTTPC_POLL_TIMEOUT]
        /\ pcb' = [state |-> IF wait THEN "new" ELSE "syn", arg |-> TRUE]
    BY <1>4 DEF Starting, FirstStep
  <2>2. conn' \in {NewConn, Connecting(NewConn)}
    BY <1>4 DEF Starting
  <2>3. conn'.mem = (IF proxied THEN "heap" ELSE "none") /\ ~conn'.done /\ conn' \in ConnType
    BY <1>0, <1>1, <2>2 DEF NewConn, Connecting, NoConn, ConnType, Mem
  <2>4. req' \in ReqType
    BY <1>0, <1>1, <2>1 DEF ReqType, Mem
  <2>5. pcb' \in PcbType
    BY <2>1 DEF PcbType
  <2> QED
    BY <2>1, <2>3, <2>4, <2>5
<1>5. PICK fail \in AtMostOne(Failures \ {"write", "close"}), disk \in BOOLEAN, wait \in BOOLEAN :
        StartFailing(fail, disk) \/ Starting(fail, disk, wait)
  BY DEF Start
<1>6. CASE StartFailing(fail, disk)
  BY <1>1, <1>2, <1>3, <1>6 DEF Mem
<1>7. CASE Starting(fail, disk, wait)
  BY <1>2, <1>4, <1>7 DEF Mem
<1> QED
  BY <1>5, <1>6, <1>7

(* A request lives on in the same state of the connection, or in the next.  *)
LEMMA LiveNext ==
  ASSUME HttpInv, [Next]_vars
  PROVE  LiveOK' /\ OverOK' /\ ResultOK'
<1> USE DEF HttpInv
<1>1. CASE UNCHANGED vars
  BY <1>1 DEF vars, altcp, client, LiveOK, OverOK, ResultOK, Live, Ready, Gone
<1>2. CASE Start
  <2>1. results' = <<>> /\ odd' = {} /\ proxied' = proxied
    BY <1>2, Started
  <2>2. CASE api' = "err" /\ dns' = FALSE /\ pcb' = NoPcb /\ Gone'
    BY <2>1, <2>2 DEF LiveOK, OverOK, ResultOK, Live, NoPcb
  <2>3. CASE /\ api' = "ok" /\ dns' \in BOOLEAN /\ file' \in {"none", "heap"}
             /\ req' = [NoReq EXCEPT !.mem = "heap", !.request = "heap", !.pcb = TRUE,
                                     !.ticks = HTTPC_POLL_TIMEOUT]
             /\ pcb' = [state |-> IF dns' THEN "new" ELSE "syn", arg |-> TRUE]
             /\ conn'.mem = (IF proxied THEN "heap" ELSE "none") /\ ~conn'.done
    <3>1. req'.mem = "heap" /\ req'.request = "heap" /\ req'.pcb
      BY <2>3 DEF NoReq
    <3>2. pcb'.arg /\ pcb'.state \in {"new", "syn"} /\ (dns' <=> pcb'.state = "new")
      BY <2>3
    <3>3. Live' /\ ~Ready'
      BY <2>1, <2>3, <3>2 DEF Live, Ready
    <3> QED
      BY <2>1, <2>3, <3>1, <3>2, <3>3 DEF LiveOK, OverOK, ResultOK
  <2> QED
    BY <1>2, <2>2, <2>3, Started
<1>3. CASE Live /\ Ends
  <2>1. PICK r \in Results : Ended(r) /\ dns' = FALSE /\ api' = api
    BY <1>3 DEF Ends
  <2>2. results' = <<r>> /\ results' # <<>> /\ Gone' /\ pcb'.state = "over" /\ ~pcb'.arg
    BY <2>1 DEF Ended
  <2> QED
    BY <1>3, <2>1, <2>2 DEF LiveOK, OverOK, ResultOK, Live
<1>4. CASE Live /\ Lost
  BY <1>4 DEF Lost, client, LiveOK, OverOK, ResultOK, Live
<1>5. CASE Live /\ Goes
  <2>1. Live' /\ UNCHANGED <<proxied, odd, file, results, api>>
    BY <1>5 DEF Live, Goes, Same, Found, Opens, Asks, Answering, Through, Ticks, Piece, Headers,
                Whole, Body
  <2>2. /\ req \in ReqType /\ conn \in ConnType /\ pcb \in PcbType /\ odd = {}
        /\ req.mem = "heap" /\ req.pcb /\ file \in {"none", "heap"}
        /\ pcb.arg /\ pcb.state \in {"new", "syn", "open"} /\ (dns <=> pcb.state = "new")
        /\ conn.mem = (IF proxied THEN "heap" ELSE "none")
        /\ conn.done => pcb.state = "open"
        /\ req.request = (IF Ready THEN "none" ELSE "heap")
    BY <1>5, Records DEF LiveOK
  <2> SUFFICES /\ req'.mem = "heap" /\ req'.pcb
               /\ pcb'.arg /\ pcb'.state \in {"syn", "open"} \cup {pcb.state}
               /\ dns' <=> pcb'.state = "new"
               /\ conn'.mem = conn.mem
               /\ conn'.done => pcb'.state = "open"
               /\ req'.request = IF Ready' THEN "none" ELSE "heap"
    BY <2>1, <2>2 DEF LiveOK, OverOK, ResultOK
  <2> USE DEF Ready, Same, ReqType, ConnType, PcbType
  <2>3. CASE Found
    BY <2>2, <2>3 DEF Found, Connecting
  <2>4. CASE Opens
    BY <2>2, <2>4 DEF Opens
  <2>5. CASE Asks
    BY <2>2, <2>5 DEF Asks
  <2>6. CASE Answering
    BY <2>2, <2>6 DEF Answering
  <2>7. CASE Through
    BY <2>2, <2>7 DEF Through
  <2>8. CASE Ticks
    BY <2>2, <2>8 DEF Ticks
  <2>9. CASE \E n \in 1 .. 4 + MaxBody : Headers(n) \/ Whole(n) \/ Body(n)
    <3>1. /\ UNCHANGED <<conn, pcb, dns, proxied>>
          /\ req'.mem = req.mem /\ req'.pcb = req.pcb /\ req'.request = req.request
      BY <2>2, <2>9 DEF Piece, Headers, Whole, Body
    <3> QED
      BY <2>2, <3>1
  <2> QED
    BY <1>5, <2>3, <2>4, <2>5, <2>6, <2>7, <2>8, <2>9 DEF Goes
<1> QED
  BY <1>1, <1>2, <1>3, <1>4, <1>5, Ways

-----------------------------------------------------------------------------
(* Bytes that count up from h + 1.                                          *)
Run(s, h) == \A i \in 1 .. Len(s) : s[i] = h + i

(* The body goes on where it ended ...                                      *)
LEMMA Extended ==
  ASSUME NEW h \in Nat, NEW s \in Seq(Nat), NEW u \in Seq(Nat), Run(s, h), Run(u, h + Len(s))
  PROVE  s \o u \in Seq(Nat) /\ Len(s \o u) = Len(s) + Len(u) /\ Run(s \o u, h)
<1> DEFINE k == Len(s)
           n == Len(u)
<1>0. k \in Nat /\ n \in Nat
  OBVIOUS
<1>1. /\ s \o u \in Seq(Nat) /\ Len(s \o u) = k + n
      /\ \A i \in 1 .. k + n : (s \o u)[i] = IF i <= k THEN s[i] ELSE u[i - k]
  BY ConcatProperties
<1>2. ASSUME NEW i \in 1 .. k + n
      PROVE  (s \o u)[i] = h + i
  <2>1. CASE i <= k
    BY <1>0, <1>1, <2>1 DEF Run
  <2>2. CASE ~(i <= k)
    <3>1. i - k \in 1 .. n
      BY <1>0, <2>2
    <3>2. (s \o u)[i] = h + k + (i - k)
      BY <1>1, <2>2, <3>1 DEF Run
    <3> QED
      BY <1>0, <3>2
  <2> QED
    BY <2>1, <2>2
<1> QED
  BY <1>1, <1>2 DEF Run

(* ... after a pbuf that ends the header ...                                *)
LEMMA WholeBody ==
  ASSUME TypeOK, BodyOK, Live, NEW n \in 1 .. 4 + MaxBody, Whole(n)
  PROVE  /\ req' \in ReqType /\ InBody' /\ BodyInOrder' /\ got' \in Seq(Nat) /\ Len(got') <= MaxBody
         /\ unacked' \in Nat
<1>1. /\ Ready /\ at + n <= Pieces /\ at' = at + n /\ resp' = resp /\ HeaderDone(req.hdrs + n)
  BY DEF Whole, Piece, Same
<1>2. /\ n \in Nat /\ at \in Nat /\ HeaderLen \in Nat /\ resp.body \in 0 .. MaxBody
      /\ req.parse # "data" => req.hdrs = at /\ unacked = at
  BY <1>1, Window
<1>3. req.parse # "data" /\ ParseState(req.hdrs + n) = "headers" /\ req.hdrs + n >= HeaderLen
  BY <1>1 DEF HeaderDone
<1>4. InHeader /\ resp.ok
  <2>1. InHeader
    BY <1>1, <1>3 DEF BodyOK, Reading
  <2> QED
    BY <1>3, <2>1 DEF ParseState, InHeader
<1> DEFINE body == req.hdrs + n - HeaderLen
<1>5. body \in Nat /\ at' = HeaderLen + body /\ body <= MaxBody
  BY <1>1, <1>2, <1>3, Consts DEF Pieces
<1>6. /\ req' = [req EXCEPT !.want = resp.length, !.hdrs = 0, !.parse = "data", !.rx = @ + body]
      /\ got' = got \o [i \in 1 .. body |-> HeaderLen + i]
      /\ unacked' = unacked + n - (HeaderLen + body)
  BY DEF Whole
<1>7. unacked' = 0
  BY <1>2, <1>3, <1>5, <1>6
<1>8. got = <<>> /\ req.rx = 0
  BY <1>4 DEF InHeader
<1> HIDE DEF body
<1>9. req \in ReqType /\ resp \in RespType /\ body \in 0 .. MaxBody /\ 0 \in 0 .. 4 + MaxBody /\ 0 + body = body
  BY <1>5, Records, Consts
<1>10. req' = [req EXCEPT !.want = resp.length, !.hdrs = 0, !.parse = "data", !.rx = body]
  BY <1>6, <1>8, <1>9
<1>11. /\ req' \in ReqType /\ req'.rx = body /\ req'.hdrs = 0 /\ req'.want = resp.length
  BY <1>9, <1>10 DEF ReqType, RespType
<1>12. got' = [i \in 1 .. body |-> HeaderLen + i] /\ got' \in Seq(Nat) /\ Len(got') = body
  <2>1. [i \in 1 .. body |-> HeaderLen + i] \in Seq(Nat)
    BY <1>2, <1>5
  <2> QED
    BY <1>2, <1>5, <1>6, <1>8, <2>1
<1>13. HeaderLen' = HeaderLen
  BY <1>1 DEF HeaderLen
<1>14. InBody'
  BY <1>1, <1>4, <1>5, <1>7, <1>11, <1>12, <1>13 DEF InBody
<1>15. BodyInOrder'
  BY <1>12, <1>13 DEF BodyInOrder
<1> QED
  BY <1>5, <1>7, <1>11, <1>12, <1>14, <1>15

(* ... and in the body.                                                     *)
LEMMA MoreBody ==
  ASSUME TypeOK, BodyOK, Live, NEW n \in 1 .. 4 + MaxBody, Body(n)
  PROVE  /\ req' \in ReqType /\ InBody' /\ BodyInOrder' /\ got' \in Seq(Nat) /\ Len(got') <= MaxBody
         /\ unacked' \in Nat
<1>1. /\ Ready /\ at + n <= Pieces /\ at' = at + n /\ resp' = resp /\ req.parse = "data"
  BY DEF Body, Piece, Same
<1>2. /\ n \in Nat /\ at \in Nat /\ HeaderLen \in Nat /\ resp.body \in 0 .. MaxBody
  BY <1>1, Window
<1>3. InBody /\ BodyInOrder /\ got \in Seq(Nat)
  BY <1>1 DEF BodyOK, Reading
<1>4. /\ at = HeaderLen + req.rx /\ Len(got) = req.rx /\ req \in ReqType /\ req.rx \in Nat
  BY <1>3, Records, Consts DEF InBody, ReqType
<1>5. /\ req' = [req EXCEPT !.rx = @ + n] /\ unacked' = unacked
      /\ got' = got \o [i \in 1 .. n |-> at + i]
  BY DEF Body
<1>6. req.rx + n \in 0 .. MaxBody
  <2>1. HeaderLen + req.rx + n <= HeaderLen + resp.body /\ resp.body <= MaxBody /\ resp.body \in Nat
    BY <1>1, <1>2, <1>4, Consts DEF Pieces
  <2>2. MaxBody \in Nat
    BY Consts
  <2> QED
    BY <1>2, <1>4, <2>1, <2>2
<1>7. req' \in ReqType /\ req'.rx = req.rx + n /\ req'.hdrs = req.hdrs /\ req'.want = req.want
  BY <1>4, <1>5, <1>6 DEF ReqType
<1>8. got' \in Seq(Nat) /\ Len(got') = req.rx + n /\ got' = [i \in 1 .. Len(got') |-> HeaderLen + i]
  <2> DEFINE u == [i \in 1 .. n |-> at + i]
  <2>1. u \in Seq(Nat) /\ Len(u) = n /\ Run(u, HeaderLen + Len(got))
    BY <1>2, <1>4 DEF Run
  <2>2. got' = got \o u
    BY <1>5
  <2>3. Run(got, HeaderLen) /\ HeaderLen \in Nat /\ got \in Seq(Nat)
    BY <1>2, <1>3 DEF BodyInOrder, Run
  <2> HIDE DEF u
  <2>4. got' \in Seq(Nat) /\ Len(got') = req.rx + n /\ Run(got', HeaderLen)
    BY <1>4, <2>1, <2>2, <2>3, Extended
  <2>5. got' \in [1 .. req.rx + n -> Nat]
    BY <2>4, LenProperties
  <2>6. got' = [i \in 1 .. req.rx + n |-> HeaderLen + i]
    BY <2>4, <2>5 DEF Run
  <2> QED
    BY <2>4, <2>6
<1>9. HeaderLen' = HeaderLen
  BY <1>1 DEF HeaderLen
<1>10. InBody'
  BY <1>1, <1>2, <1>3, <1>4, <1>5, <1>7, <1>8, <1>9 DEF InBody
<1>11. BodyInOrder'
  BY <1>8, <1>9 DEF BodyInOrder
<1>12. Len(got') <= MaxBody
  BY <1>6, <1>8
<1>13. unacked' \in Nat
  BY <1>5, Records
<1> QED
  BY <1>7, <1>8, <1>10, <1>11, <1>12, <1>13

(* A part of the header is kept.                                            *)
LEMMA MoreHeader ==
  ASSUME TypeOK, BodyOK, Live, NEW n \in 1 .. 4 + MaxBody, Headers(n)
  PROVE  req' \in ReqType /\ req'.parse # "data" /\ InHeader' /\ got' = got /\ unacked' \in Nat
<1>1. /\ Ready /\ at + n <= Pieces /\ at' = at + n /\ resp' = resp /\ req.parse # "data"
      /\ req' = [req EXCEPT !.hdrs = @ + n, !.parse = ParseState(req.hdrs + n)]
      /\ unacked' = unacked + n /\ got' = got
  BY DEF Headers, Piece, Same
<1>2. /\ n \in Nat /\ n > 0 /\ at \in Nat /\ at + n \in 0 .. 4 + MaxBody
      /\ req.hdrs = at /\ unacked = at
  BY <1>1, Window
<1>3. InHeader /\ req \in ReqType /\ resp.ok \in BOOLEAN
  BY <1>1, Records DEF BodyOK, Reading, RespType
<1>4. ParseState(req.hdrs + n) = IF resp.ok THEN "headers" ELSE "line"
  BY <1>1, <1>2, <1>3 DEF ParseState, InHeader
<1>5. req' = [req EXCEPT !.hdrs = at + n, !.parse = IF resp.ok THEN "headers" ELSE "line"]
  BY <1>1, <1>2, <1>3, <1>4
<1>6. /\ req' \in ReqType /\ req'.hdrs = at + n /\ req'.rx = req.rx
      /\ req'.parse = IF resp.ok THEN "headers" ELSE "line"
  BY <1>2, <1>3, <1>5 DEF ReqType
<1>7. at + n > 0 /\ unacked' = at + n
  BY <1>1, <1>2
<1> QED
  BY <1>1, <1>2, <1>3, <1>6, <1>7 DEF InHeader

-----------------------------------------------------------------------------
(* One step: the types and what has been read.                              *)
LEMMA GoesOn ==
  ASSUME HttpInv, LiveOK', Live, Live', Goes
  PROVE  /\ req' \in ReqType /\ conn' \in ConnType /\ pcb' \in PcbType /\ dns' \in BOOLEAN
         /\ at' \in 0 .. 4 + MaxBody /\ unacked' \in Nat
         /\ got' \in Seq(Nat) /\ Len(got') <= MaxBody /\ BodyInOrder'
         /\ Reading'
<1> USE DEF HttpInv
<1>1. /\ req \in ReqType /\ conn \in ConnType /\ pcb \in PcbType /\ dns \in BOOLEAN
      /\ at \in 0 .. 4 + MaxBody /\ unacked \in Nat
  BY Records
<1>2. Reading /\ got \in Seq(Nat) /\ Len(got) <= MaxBody /\ BodyInOrder
  BY DEF BodyOK
<1>3. Same
  BY DEF Goes, Found, Opens, Asks, Answering, Through, Ticks, Piece, Headers, Whole, Body
<1>4. HeaderLen' = HeaderLen /\ Pieces' = Pieces /\ AnswerLen' = AnswerLen
  BY <1>3 DEF Same, HeaderLen, Pieces, AnswerLen
<1>5. ASSUME ~Ready, got' = got, unacked' = unacked, at' \in 0 .. AnswerLen, ~proxied => at' = 0,
             req'.parse = req.parse, req'.hdrs = req.hdrs, req'.rx = req.rx
      PROVE  ~Ready' => Reading'
  BY <1>2, <1>3, <1>4, <1>5 DEF Reading, Unread, Same
<1>6. ASSUME ~Ready, got' = got, unacked' = unacked, at' = 0,
             req'.parse = req.parse, req'.hdrs = req.hdrs, req'.rx = req.rx
      PROVE  Ready' => Reading'
  <2>1. Unread
    BY <1>2, <1>6 DEF Reading
  <2>2. HeaderLen \in Nat /\ resp.body \in Nat /\ resp' = resp
    BY <1>3, Records, Consts DEF RespType, Same
  <2>3. at' <= Pieces'
    BY <1>4, <1>6, <2>2 DEF Pieces
  <2>4. InHeader'
    BY <1>6, <2>1, <2>2 DEF InHeader, Unread
  <2> QED
    BY <1>6, <2>1, <2>3, <2>4 DEF Reading, Unread
<1>7. ~Ready => at \in 0 .. AnswerLen /\ (~proxied => at = 0)
  BY <1>1, <1>2, Consts DEF Reading, Unread, AnswerLen
<1>8. got' = got => BodyInOrder'
  BY <1>2, <1>4 DEF BodyInOrder
<1>a. 0 \in 0 .. 4 + MaxBody /\ 0 \in 0 .. AnswerLen /\ 0 .. AnswerLen \subseteq 0 .. 4 + MaxBody
  BY Consts DEF AnswerLen
<1>9. CASE Found
  <2>1. ~Ready /\ ~Ready'
    BY <1>1, <1>9 DEF Found, Ready, LiveOK, PcbType
  <2>2. Reading'
    BY <1>5, <1>7, <1>9, <2>1 DEF Found
  <2>3. conn' \in ConnType
    BY <1>1, <1>9, Records DEF Found, Connecting, ConnType
  <2>4. pcb' \in PcbType
    BY <1>1, <1>9 DEF Found, PcbType
  <2> QED
    BY <1>1, <1>2, <1>8, <1>9, <2>2, <2>3, <2>4 DEF Found
<1>10. CASE Opens
  <2>1. ~Ready /\ at' = 0 /\ ~proxied
    BY <1>7, <1>10 DEF Opens, Ready
  <2>2. Reading'
    BY <1>1, <1>3, <1>5, <1>6, <1>10, <1>a, <2>1 DEF Opens, ReqType
  <2>3. req' \in ReqType /\ pcb' \in PcbType
    BY <1>1, <1>10 DEF Opens, ReqType, PcbType, Mem
  <2> QED
    BY <1>1, <1>2, <1>8, <1>10, <2>2, <2>3 DEF Opens
<1>11. CASE Asks
  <2>1. ~Ready /\ ~Ready' /\ proxied
    BY <1>1, <1>3, <1>11 DEF Asks, Ready, LiveOK, ConnType, Same
  <2>2. Reading'
    BY <1>5, <1>7, <1>11, <2>1 DEF Asks
  <2>3. conn' \in ConnType /\ pcb' \in PcbType
    BY <1>1, <1>11 DEF Asks, ConnType, PcbType
  <2> QED
    BY <1>1, <1>2, <1>8, <1>11, <2>2, <2>3 DEF Asks
<1>12. CASE Answering
  <2>1. ~Ready /\ ~Ready' /\ proxied
    BY <1>3, <1>12 DEF Answering, Ready, Same
  <2>2. Reading'
    BY <1>5, <1>12, <2>1 DEF Answering
  <2> QED
    BY <1>1, <1>2, <1>8, <1>12, <1>a, <2>2 DEF Answering
<1>13. CASE Through
  <2>1. ~Ready /\ at' = 0
    BY <1>13 DEF Through, Ready
  <2>2. Reading'
    BY <1>1, <1>5, <1>6, <1>13, <1>a, <2>1 DEF Through, ReqType
  <2>3. req' \in ReqType /\ pcb' \in PcbType /\ conn' \in ConnType
    BY <1>1, <1>13 DEF Through, ReqType, PcbType, ConnType, Mem
  <2> QED
    BY <1>1, <1>2, <1>8, <1>13, <1>a, <2>2, <2>3 DEF Through
<1>14. CASE Ticks
  <2>1. req.ticks - 1 \in 0 .. HTTPC_POLL_TIMEOUT
    BY <1>1, <1>14, Consts DEF Ticks, ReqType
  <2>2. req' = [req EXCEPT !.ticks = req.ticks - 1]
    BY <1>14 DEF Ticks
  <2>3. /\ req' \in ReqType /\ req'.parse = req.parse /\ req'.hdrs = req.hdrs
        /\ req'.rx = req.rx /\ req'.want = req.want
    BY <1>1, <2>1, <2>2 DEF ReqType
  <2>4. Ready' = Ready /\ UNCHANGED <<proxied, resp, conn, pcb, dns, got, unacked, at>>
    BY <1>14 DEF Ticks, Same, Ready
  <2>5. Reading'
    BY <1>2, <1>4, <2>3, <2>4 DEF Reading, Unread, InHeader, InBody
  <2> QED
    BY <1>1, <1>2, <1>8, <2>3, <2>4, <2>5
<1>15. CASE \E n \in 1 .. 4 + MaxBody : Headers(n) \/ Whole(n) \/ Body(n)
  <2>1. PICK n \in 1 .. 4 + MaxBody : Headers(n) \/ Whole(n) \/ Body(n)
    BY <1>15
  <2>2. /\ Ready /\ at + n <= Pieces /\ at' = at + n /\ UNCHANGED <<conn, pcb, dns>>
    BY <2>1 DEF Headers, Whole, Body, Piece
  <2>3. at' \in 0 .. 4 + MaxBody /\ Ready' /\ at' <= Pieces'
    BY <1>3, <1>4, <2>2, Window DEF Ready, Same
  <2>4. CASE Headers(n)
    <3>1. req' \in ReqType /\ req'.parse # "data" /\ InHeader' /\ got' = got /\ unacked' \in Nat
      BY <2>4, MoreHeader
    <3> QED
      BY <1>1, <1>2, <1>8, <2>2, <2>3, <3>1 DEF Reading
  <2>5. CASE Whole(n)
    <3>1. /\ req' \in ReqType /\ InBody' /\ BodyInOrder' /\ got' \in Seq(Nat) /\ Len(got') <= MaxBody
          /\ unacked' \in Nat
      BY <2>5, WholeBody
    <3>2. req'.parse = "data"
      BY <1>1, <2>5 DEF Whole, ReqType
    <3> QED
      BY <1>1, <2>2, <2>3, <3>1, <3>2 DEF Reading
  <2>6. CASE Body(n)
    <3>1. /\ req' \in ReqType /\ InBody' /\ BodyInOrder' /\ got' \in Seq(Nat) /\ Len(got') <= MaxBody
          /\ unacked' \in Nat
      BY <2>6, MoreBody
    <3>2. req'.parse = "data"
      BY <1>1, <2>6 DEF Body, ReqType
    <3> QED
      BY <1>1, <2>2, <2>3, <3>1, <3>2 DEF Reading
  <2> QED
    BY <2>1, <2>4, <2>5, <2>6
<1> QED
  BY <1>9, <1>10, <1>11, <1>12, <1>13, <1>14, <1>15 DEF Goes

(* The result says OK of a whole body only.                                 *)
LEMMA Final ==
  ASSUME TypeOK, Live, Ends
  PROVE  OkMeansWhole'
<1>1. PICK r \in Results :
        /\ results' = <<r>> /\ UNCHANGED <<got, resp>>
        /\ r = "OK" => resp.ok /\ resp.length \in {HTTPC_CONTENT_LEN_INVALID, Len(got)}
  BY DEF Ends, Ended
<1>2. results' = <<"OK">> => r = "OK"
  BY <1>1
<1> QED
  BY <1>1, <1>2 DEF OkMeansWhole, HTTPC_CONTENT_LEN_INVALID

(* Every step keeps the types and what is known of the body.                *)
LEMMA DataNext ==
  ASSUME HttpInv, LiveOK', ResultOK', [Next]_vars
  PROVE  TypeOK' /\ BodyOK'
<1> USE DEF HttpInv
<1>0. /\ proxied \in BOOLEAN /\ req \in ReqType /\ conn \in ConnType /\ pcb \in PcbType
      /\ resp \in RespType /\ unacked \in Nat /\ odd \subseteq {"closed", "abort"}
      /\ file \in Mem /\ dns \in BOOLEAN /\ at \in 0 .. 4 + MaxBody /\ api \in {"idle", "ok", "err"}
      /\ got \in Seq(Nat) /\ Len(got) <= MaxBody
  BY Records DEF TypeOK, BodyOK
<1>1. Len(results') <= 2 /\ \A i \in DOMAIN results' : results'[i] \in Results
  <2>1. CASE results' = <<>>
    BY <2>1
  <2>2. ASSUME NEW r \in Results, results' = <<r>>
        PROVE  Len(results') <= 2 /\ \A i \in DOMAIN results' : results'[i] \in Results
    BY <2>2
  <2> QED
    BY <2>1, <2>2 DEF ResultOK
<1>2. ASSUME /\ proxied' \in BOOLEAN /\ req' \in ReqType /\ conn' \in ConnType /\ pcb' \in PcbType
             /\ resp' \in RespType /\ unacked' \in Nat /\ odd' \subseteq {"closed", "abort"}
             /\ file' \in Mem /\ dns' \in BOOLEAN /\ at' \in 0 .. 4 + MaxBody
             /\ api' \in {"idle", "ok", "err"} /\ Len(got') <= MaxBody
      PROVE  TypeOK'
  BY <1>1, <1>2 DEF TypeOK, AltcpTypeOK, ReqType, ConnType, PcbType, RespType, Results
<1>3. CASE UNCHANGED vars
  <2>1. TypeOK'
    BY <1>0, <1>2, <1>3 DEF vars, altcp, client
  <2>2. BodyOK'
    BY <1>3 DEF vars, altcp, client, BodyOK, Reading, Unread, InHeader, InBody, BodyInOrder,
                OkMeansWhole, Live, Ready, Pieces, HeaderLen
  <2> QED
    BY <2>1, <2>2
<1>4. CASE Start
  <2>1. /\ proxied' = proxied /\ results' = <<>> /\ got' = <<>> /\ odd' = {}
        /\ at' = 0 /\ unacked' = 0 /\ resp' \in RespType
        /\ req' \in ReqType /\ file' \in Mem /\ conn' \in ConnType /\ pcb' \in PcbType
        /\ api' \in {"err", "ok"} /\ dns' \in BOOLEAN
    BY <1>4, Started
  <2>0. at' \in 0 .. 4 + MaxBody /\ unacked' \in Nat /\ Len(got') <= MaxBody
    BY <2>1, Consts
  <2>2. TypeOK'
    <3>1. proxied' \in BOOLEAN /\ odd' \subseteq {"closed", "abort"} /\ api' \in {"idle", "ok", "err"}
      BY <1>0, <2>1
    <3> QED
      BY <1>2, <2>0, <2>1, <3>1
  <2>3. api' = "ok" => /\ req'.parse = "line" /\ req'.hdrs = 0 /\ req'.rx = 0 /\ ~Ready'
    <3> SUFFICES ASSUME api' = "ok"
                 PROVE  req'.parse = "line" /\ req'.hdrs = 0 /\ req'.rx = 0 /\ ~Ready'
      OBVIOUS
    <3>1. /\ req' = [NoReq EXCEPT !.mem = "heap", !.request = "heap", !.pcb = TRUE,
                                  !.ticks = HTTPC_POLL_TIMEOUT]
          /\ pcb' = [state |-> IF dns' THEN "new" ELSE "syn", arg |-> TRUE]
      BY <1>4, Started
    <3>2. req'.parse = "line" /\ req'.hdrs = 0 /\ req'.rx = 0
      BY <3>1 DEF NoReq
    <3>3. ~Ready'
      BY <3>1 DEF Ready
    <3> QED
      BY <3>2, <3>3
  <2>4. Live' => Reading'
    BY <2>1, <2>3 DEF Live, Reading, Unread, AnswerLen
  <2>5. got' \in Seq(Nat) /\ Len(got') <= MaxBody /\ BodyInOrder' /\ OkMeansWhole'
    <3>1. Len(got') = 0 /\ got' = [i \in 1 .. 0 |-> HeaderLen' + i]
      BY <2>1
    <3>2. OkMeansWhole'
      BY <2>1 DEF OkMeansWhole
    <3> QED
      BY <2>1, <3>1, <3>2, Consts DEF BodyInOrder
  <2> QED
    BY <2>2, <2>4, <2>5 DEF BodyOK
<1>5. CASE Live /\ Ends
  <2>1. /\ ~Live' /\ req' \in ReqType /\ file' \in Mem /\ conn' \in ConnType /\ pcb' \in PcbType
        /\ odd' \subseteq {"closed", "abort"} /\ dns' \in BOOLEAN
        /\ at' \in 0 .. 4 + MaxBody /\ unacked' \in Nat /\ UNCHANGED <<proxied, got, api, resp>>
    <3>1. PICK r \in Results : Ended(r)
      BY <1>5 DEF Ends
    <3>2. results' = <<r>> /\ <<r>> # <<>>
      BY <3>1 DEF Ended
    <3>3. /\ req' \in ReqType /\ file' \in Mem /\ conn' \in ConnType /\ pcb' \in PcbType
          /\ odd' \subseteq {"closed", "abort"}
      BY <3>1 DEF Ended, PcbType
    <3>4. dns' = FALSE /\ at' \in 0 .. 4 + MaxBody /\ unacked' \in Nat
          /\ UNCHANGED <<proxied, got, api, resp>>
      BY <1>5 DEF Ends
    <3> QED
      BY <3>2, <3>3, <3>4 DEF Live
  <2>2. TypeOK'
    BY <1>0, <1>2, <2>1
  <2>3. BodyInOrder'
    BY <2>1 DEF BodyInOrder, HeaderLen, BodyOK
  <2> QED
    BY <1>0, <1>5, <2>1, <2>2, <2>3, Final DEF BodyOK
<1>6. CASE Live /\ Lost
  <2>1. /\ ~Live' /\ pcb' \in PcbType /\ conn' \in ConnType /\ odd' \subseteq {"closed", "abort"}
        /\ UNCHANGED <<proxied, unacked, req, file, dns, results, got, api, resp, at>>
    BY <1>0, <1>6 DEF Lost, client, PcbType, Live
  <2>2. TypeOK'
    BY <1>0, <1>2, <2>1
  <2>3. BodyInOrder' /\ OkMeansWhole'
    BY <2>1 DEF BodyInOrder, HeaderLen, BodyOK, OkMeansWhole
  <2> QED
    BY <1>0, <2>1, <2>2, <2>3 DEF BodyOK
<1>7. CASE Live /\ Goes
  <2>1. Same
    BY <1>7 DEF Goes, Found, Opens, Asks, Answering, Through, Ticks, Piece, Headers, Whole, Body
  <2>2. Live'
    BY <1>7, <2>1 DEF Live, Same
  <2>3. /\ req' \in ReqType /\ conn' \in ConnType /\ pcb' \in PcbType /\ dns' \in BOOLEAN
        /\ at' \in 0 .. 4 + MaxBody /\ unacked' \in Nat
        /\ got' \in Seq(Nat) /\ Len(got') <= MaxBody /\ BodyInOrder'
        /\ Reading'
    BY <1>7, <2>2, GoesOn
  <2>4. TypeOK'
    BY <1>0, <1>2, <2>1, <2>3 DEF Same
  <2>5. OkMeansWhole'
    BY <2>2 DEF Live, OkMeansWhole
  <2> QED
    BY <2>3, <2>4, <2>5 DEF BodyOK
<1> QED
  BY <1>3, <1>4, <1>5, <1>6, <1>7, Ways

-----------------------------------------------------------------------------
(* In the beginning there is no request.                                    *)
LEMMA HttpInit == Init => HttpInv
<1> SUFFICES ASSUME Init PROVE HttpInv
  OBVIOUS
<1>1. /\ req = NoReq /\ conn = NoConn /\ pcb = NoPcb /\ results = <<>> /\ got = <<>> /\ odd = {}
      /\ file = "none" /\ dns = FALSE /\ api = "idle" /\ at = 0 /\ unacked = 0
      /\ proxied \in BOOLEAN /\ resp = [ok |-> TRUE, length |-> 0, body |-> 0]
  BY DEF Init
<1>2. /\ 0 \in 0 .. 4 + MaxBody /\ 0 \in 0 .. MaxBody /\ 0 \in Lengths
      /\ 0 \in 0 .. HTTPC_POLL_TIMEOUT /\ HTTPC_CONTENT_LEN_INVALID \in Lengths /\ 0 <= MaxBody
  BY Consts DEF Lengths
<1>3. TypeOK
  <2>1. req \in ReqType /\ conn \in ConnType /\ pcb \in PcbType
    BY <1>1, Empties
  <2>2. AltcpTypeOK
    BY <1>1, <2>1 DEF AltcpTypeOK, ConnType, PcbType
  <2>3. resp \in RespType
    BY <1>1, <1>2 DEF RespType
  <2>4. Len(results) <= 2 /\ DOMAIN results = {} /\ Len(got) <= MaxBody
    BY <1>1, <1>2
  <2>5. file \in Mem /\ dns \in BOOLEAN /\ api \in {"idle", "ok", "err"} /\ at \in 0 .. 4 + MaxBody
    BY <1>1, <1>2 DEF Mem
  <2> QED
    BY <2>1, <2>2, <2>3, <2>4, <2>5 DEF TypeOK, ReqType, RespType
<1>4. ~Live /\ ResultOK /\ LiveOK
  BY <1>1 DEF Live, ResultOK, LiveOK
<1>5. OverOK
  BY <1>1, <1>4 DEF OverOK, NoPcb
<1>6. BodyInOrder /\ OkMeansWhole
  BY <1>1 DEF BodyInOrder, OkMeansWhole
<1>7. BodyOK
  BY <1>1, <1>2, <1>4, <1>6 DEF BodyOK
<1> QED
  BY <1>3, <1>4, <1>5, <1>7 DEF HttpInv

(* The inductive invariant.                                                 *)
THEOREM HttpInvariant == Spec => []HttpInv
<1>1. HttpInv /\ [Next]_vars => HttpInv'
  <2> SUFFICES ASSUME HttpInv, [Next]_vars PROVE HttpInv'
    OBVIOUS
  <2>1. LiveOK' /\ OverOK' /\ ResultOK'
    BY LiveNext
  <2>2. TypeOK' /\ BodyOK'
    BY <2>1, DataNext
  <2> QED
    BY <2>1, <2>2 DEF HttpInv
<1> QED
  BY <1>1, HttpInit, PTL DEF Spec

(* Whichever call fails, and whatever the peer, the proxy or the resolver   *)
(* do: a callback finds its state alive, result_fn is called once, and then *)
(* everything httpc_get_file*() had allocated has been freed once.          *)
THEOREM RequestCorrect == Spec => []RequestSafe
<1>1. ASSUME HttpInv PROVE RequestSafe
  <2>1. CallbacksAlive
    BY <1>1 DEF HttpInv, LiveOK, OverOK, Live, CallbacksAlive
  <2>2. EverythingFreedOnce
    <3>1. Len(results) <= (IF api = "ok" THEN 1 ELSE 0)
      <4>1. CASE results = <<>>
        BY <4>1
      <4>2. CASE api = "ok" /\ \E r \in Results : results = <<r>>
        BY <4>2
      <4> QED
        BY <1>1, <4>1, <4>2 DEF HttpInv, ResultOK
    <3>2. results # <<>> \/ api = "err" => ~Live
      BY DEF Live
    <3> QED
      BY <1>1, <3>1, <3>2 DEF HttpInv, OverOK, Gone, EverythingFreedOnce
  <2> QED
    BY <1>1, <2>1, <2>2 DEF HttpInv, RequestSafe
<1>2. HttpInv => RequestSafe
  BY <1>1
<1> QED
  BY <1>2, HttpInvariant, PTL

(* recv_fn gets the body in order, wherever the pbufs are cut, a result of  *)
(* OK means that it is whole, and the window is closed by no more than the  *)
(* header that is still held, for bodies of every length.                   *)
THEOREM BodyCorrect == Spec => []BodySound
<1>1. ASSUME HttpInv PROVE BodySound
  <2>1. pcb.arg => Live /\ Reading
    BY <1>1 DEF HttpInv, OverOK, BodyOK
  <2>2. Reading => unacked = req.hdrs
    BY DEF Reading, Unread, InHeader, InBody
  <2> QED
    BY <1>1, <2>1, <2>2 DEF HttpInv, BodyOK, WindowGivenBack, BodySound
<1>2. HttpInv => BodySound
  BY <1>1
<1> QED
  BY <1>2, HttpInvariant, PTL

-----------------------------------------------------------------------------
(* Link supervision and DHCP.                                               *)

(* The start leaves every variable in its type.                             *)
LEMMA LinkInitType == LinkInit => LinkTypeOK
<1> SUFFICES ASSUME LinkInit PROVE LinkTypeOK
  OBVIOUS
<1>1. FlagsOK
  BY DEF LinkInit, FlagsOK
<1>2. StatesOK
  BY DhcpLinkAssumption DEF LinkInit, StatesOK, DhcpStates, LeaseChecks, EthThreads, Supplied
<1> QED
  BY <1>1, <1>2 DEF LinkTypeOK

(* Each step keeps every flag a flag.                                       *)
LEMMA LinkNextFlags == FlagsOK /\ [LinkNext]_linkVars => FlagsOK'
<1> SUFFICES ASSUME FlagsOK, [LinkNext]_linkVars PROVE FlagsOK'
  OBVIOUS
<1> USE DEF FlagsOK, phyVars, netif, lwipDhcp, user, bounds
<1>1. CASE PhyChange
  BY <1>1 DEF PhyChange
<1>2. CASE BeginDhcp
  BY <1>2 DEF BeginDhcp, EthInit
<1>3. CASE BeginStatic
  BY <1>3 DEF BeginStatic, EthInit
<1>4. CASE Maintain
  BY <1>4 DEF Maintain
<1>5. CASE User
  BY <1>5 DEF User, SetStart, SetStarted, BeginDone, BeginTimeout
<1>6. ASSUME NEW t \in EthThreads, Link(t) PROVE FlagsOK'
  BY <1>6 DEF Link, LinkDown, LinkUp, ConnChanged
<1>7. ASSUME NEW t \in EthThreads, Dhcp(t) PROVE FlagsOK'
  BY <1>7 DEF Dhcp, ProcessDown, ProcessStart, DhcpStart, ProcessAssigned, ProcessTimeout,
    ProcessRelease, DhcpStop
<1>8. CASE LeaseBound \/ Client
  BY <1>8 DEF LeaseBound, Client, LeaseRetry, LeaseRenew, LeaseRebind, LeaseRenewed, LeaseLost
<1>9. CASE UNCHANGED linkVars
  BY <1>9 DEF linkVars
<1> QED
  BY <1>1, <1>2, <1>3, <1>4, <1>5, <1>6, <1>7, <1>8, <1>9 DEF LinkNext

(* Each step keeps states, codes and counters in their types.               *)
LEMMA LinkNextStates == LinkTypeOK /\ [LinkNext]_linkVars => StatesOK'
<1> SUFFICES ASSUME StatesOK, [LinkNext]_linkVars PROVE StatesOK'
  BY DEF LinkTypeOK
<1> USE DhcpLinkAssumption
    DEF StatesOK, DhcpStates, Supplied, phyVars, netif, lwipDhcp, user, bounds
<1>1. CASE PhyChange
  BY <1>1 DEF PhyChange
<1>2. CASE BeginDhcp
  <2>1. begins + 1 \in EthThreads /\ begins + 1 \in 0 .. MaxBegins
    BY <1>2 DEF BeginDhcp, EthThreads
  <2> QED
    BY <1>2, <2>1 DEF BeginDhcp, EthInit
<1>3. CASE BeginStatic
  <2>1. begins + 1 \in EthThreads /\ begins + 1 \in 0 .. MaxBegins
    BY <1>3 DEF BeginStatic, EthThreads
  <2> QED
    BY <1>3, <2>1 DEF BeginStatic, EthInit, Return
<1>4. CASE Maintain
  <2>1. LeaseNow \in {"NONE", "RENEW_OK", "REBIND_OK"}
    BY DEF LeaseNow
  <2>2. CheckLease(lease_state, LeaseNow) \in LeaseChecks
    BY <2>1 DEF CheckLease, LeaseChecks
  <2> QED
    BY <1>4, <2>1, <2>2 DEF Maintain, Return
<1>5. CASE User
  BY <1>5 DEF User, SetStart, SetStarted, BeginDone, BeginTimeout, Return
<1>6. ASSUME NEW t \in EthThreads, Link(t) PROVE StatesOK'
  BY <1>6 DEF Link, LinkDown, LinkUp, ConnChanged, Jump
<1>7. ASSUME NEW t \in EthThreads, Dhcp(t) PROVE StatesOK'
  BY <1>7 DEF Dhcp, ProcessDown, ProcessStart, DhcpStart, ProcessAssigned, ProcessTimeout,
    ProcessRelease, DhcpStop, Jump
<1>8. CASE LeaseBound \/ Client
  BY <1>8 DEF LeaseBound, Client, LeaseRetry, LeaseRenew, LeaseRebind, LeaseRenewed, LeaseLost
<1>9. CASE UNCHANGED linkVars
  BY <1>9 DEF linkVars
<1> QED
  BY <1>1, <1>2, <1>3, <1>4, <1>5, <1>6, <1>7, <1>8, <1>9 DEF LinkNext

(* Whatever the threads interleave, DHCP_state, the client's state and the  *)
(* codes of maintain() stay what the code can interpret.                    *)
THEOREM DhcpTypeCorrect == LinkSpec => []LinkTypeOK
<1>1. LinkTypeOK /\ [LinkNext]_linkVars => LinkTypeOK'
  BY LinkNextFlags, LinkNextStates DEF LinkTypeOK
<1> QED
  BY <1>1, LinkInitType, PTL DEF LinkSpec
-----------------------------------------------------------------------------
(* The interface follows its link flag from the first begin() on.           *)
THEOREM UpCorrect == LinkSpec => []UpMatchesLink
<1>1. LinkInit => UpMatchesLink
  BY DEF LinkInit, UpMatchesLink
<1>2. ASSUME UpMatchesLink, [LinkNext]_linkVars PROVE UpMatchesLink'
  <2> USE <1>2 DEF UpMatchesLink, phyVars, netif, lwipDhcp, user, bounds
  <2>1. CASE PhyChange
    BY <2>1 DEF PhyChange
  <2>2. CASE BeginDhcp \/ BeginStatic
    BY <2>2 DEF BeginDhcp, BeginStatic, EthInit
  <2>3. CASE Maintain \/ User
    BY <2>3 DEF Maintain, User, SetStart, SetStarted, BeginDone, BeginTimeout
  <2>4. ASSUME NEW t \in EthThreads, Link(t) PROVE UpMatchesLink'
    <3>1. CASE LinkDown(t) /\ int4 /\ linkUp
      BY <3>1 DEF LinkDown, ConnChanged
    <3>2. CASE LinkDown(t) /\ ~(int4 /\ linkUp)
      BY <3>2 DEF LinkDown
    <3>3. CASE LinkUp(t) /\ phy /\ ~linkUp
      BY <3>3 DEF LinkUp, ConnChanged
    <3>4. CASE LinkUp(t) /\ ~(phy /\ ~linkUp)
      BY <3>4 DEF LinkUp
    <3> QED
      BY <2>4, <3>1, <3>2, <3>3, <3>4 DEF Link
  <2>5. ASSUME NEW t \in EthThreads, Dhcp(t) PROVE UpMatchesLink'
    BY <2>5 DEF Dhcp, ProcessDown, ProcessStart, DhcpStart, ProcessAssigned, ProcessTimeout,
      ProcessRelease, DhcpStop
  <2>6. CASE LeaseBound \/ Client
    BY <2>6 DEF LeaseBound, Client, LeaseRetry, LeaseRenew, LeaseRebind, LeaseRenewed, LeaseLost
  <2>7. CASE UNCHANGED linkVars
    BY <2>7 DEF linkVars
  <2> QED
    BY <2>1, <2>2, <2>3, <2>4, <2>5, <2>6, <2>7 DEF LinkNext
<1> QED
  BY <1>1, <1>2, PTL DEF LinkSpec

-----------------------------------------------------------------------------
(* At the start nothing waits and nothing has been asked for.               *)
LEMMA LinkInitDhcp == LinkInit => StartUnderWay /\ AskedOrStatic
  BY DEF LinkInit, StartUnderWay, AskedOrStatic, NeverAsked

(* A request in DHCP_WAIT_ADDRESS has a client, or a thread about to make   *)
(* one; no thread leaves "start" without making it.                         *)
LEMMA LinkNextStart == LinkTypeOK /\ StartUnderWay /\ [LinkNext]_linkVars => StartUnderWay'
<1> SUFFICES ASSUME LinkTypeOK, StartUnderWay, [LinkNext]_linkVars PROVE StartUnderWay'
  OBVIOUS
<1> USE DEF StartUnderWay, phyVars, netif, lwipDhcp, user, bounds
<1>p. pc \in [EthThreads -> {"idle", "bsr", "start", "stop", "release"}]
  BY DEF LinkTypeOK, StatesOK
<1>1. CASE PhyChange
  BY <1>1 DEF PhyChange
<1>2. CASE BeginDhcp \/ BeginStatic
  BY <1>2 DEF BeginDhcp, BeginStatic, EthInit
<1>3. CASE Maintain \/ User
  BY <1>3 DEF Maintain, User, SetStart, SetStarted, BeginDone, BeginTimeout
<1>4. ASSUME NEW t \in EthThreads, Link(t) PROVE StartUnderWay'
  <2>1. dhcp' = "none" => dhcp = "none"
    BY <1>4 DEF Link, LinkDown, LinkUp
  <2>2. DHCP_state' = "WAIT_ADDRESS" => DHCP_state = "WAIT_ADDRESS"
    BY <1>4 DEF Link, LinkDown, LinkUp, ConnChanged
  <2>3. threads' = threads /\ \A s \in EthThreads : pc[s] = "start" => pc'[s] = "start"
    BY <1>p, <1>4 DEF Link, LinkDown, LinkUp, Jump, Runs
  <2>4. threads \subseteq EthThreads
    BY DEF LinkTypeOK, StatesOK
  <2> QED
    BY <2>1, <2>2, <2>3, <2>4
<1>5. ASSUME NEW t \in EthThreads, Dhcp(t) PROVE StartUnderWay'
  <2>1. CASE ProcessDown(t)
    BY <2>1 DEF ProcessDown
  <2>2. CASE ProcessStart(t)
    BY <1>p, <2>2 DEF ProcessStart, Process, Runs, Jump
  <2>3. CASE DhcpStart(t)
    BY <2>3 DEF DhcpStart
  <2>4. CASE ProcessAssigned(t)
    BY <2>4 DEF ProcessAssigned
  <2>5. CASE ProcessTimeout(t)
    BY <2>5 DEF ProcessTimeout
  <2>6. CASE ProcessRelease(t)
    BY <2>6 DEF ProcessRelease, Process
  <2>7. CASE DhcpStop(t)
    BY <1>p, <2>7 DEF DhcpStop, Runs, Jump
  <2> QED
    BY <1>5, <2>1, <2>2, <2>3, <2>4, <2>5, <2>6, <2>7 DEF Dhcp
<1>6. CASE LeaseBound \/ Client
  BY <1>6 DEF LeaseBound, Client, LeaseRetry, LeaseRenew, LeaseRebind, LeaseRenewed, LeaseLost,
    Lwip
<1>7. CASE UNCHANGED linkVars
  BY <1>7 DEF linkVars
<1> QED
  BY <1>1, <1>2, <1>3, <1>4, <1>5, <1>6, <1>7 DEF LinkNext

(* As long as DHCP has not been asked for, nothing moves the state machine. *)
LEMMA LinkNextAsked == LinkTypeOK /\ AskedOrStatic /\ [LinkNext]_linkVars => AskedOrStatic'
<1> SUFFICES ASSUME LinkTypeOK, AskedOrStatic, [LinkNext]_linkVars PROVE AskedOrStatic'
  OBVIOUS
<1> USE DEF AskedOrStatic, NeverAsked, phyVars, netif, lwipDhcp, user, bounds
<1>1. CASE PhyChange
  BY <1>1 DEF PhyChange
<1>2. CASE BeginDhcp
  BY <1>2 DEF BeginDhcp, EthInit, UserRuns
<1>3. CASE BeginStatic
  BY <1>3 DEF BeginStatic, EthInit, UserRuns, Return
<1>4. CASE Maintain
  BY <1>4 DEF Maintain, Return, CheckLease, LeaseNow, LinkTypeOK, StatesOK
<1>5. CASE User
  <2>1. CASE SetStart
    BY <2>1 DEF SetStart, UserRuns
  <2>2. CASE SetStarted
    BY <2>2 DEF SetStarted, UserRuns
  <2>3. CASE BeginDone
    BY <2>3 DEF BeginDone, UserRuns, Return
  <2>4. CASE BeginTimeout
    BY <2>4 DEF BeginTimeout, UserRuns, Return
  <2> QED
    BY <1>5, <2>1, <2>2, <2>3, <2>4 DEF User
<1>6. ASSUME NEW t \in EthThreads, Link(t) PROVE AskedOrStatic'
  BY <1>6 DEF Link, LinkDown, LinkUp, ConnChanged, Supplied
<1>7. ASSUME NEW t \in EthThreads, Dhcp(t) PROVE AskedOrStatic'
  <2>1. CASE ProcessDown(t)
    BY <2>1 DEF ProcessDown
  <2>2. CASE ProcessStart(t)
    BY <2>2 DEF ProcessStart, Process
  <2>3. CASE DhcpStart(t)
    BY <2>3 DEF DhcpStart
  <2>4. CASE ProcessAssigned(t)
    BY <2>4 DEF ProcessAssigned, Supplied
  <2>5. CASE ProcessTimeout(t)
    <3>1. MAX_DHCP_TRIES \in Nat
      BY DhcpLinkAssumption
    <3> QED
      BY <2>5, <3>1 DEF ProcessTimeout
  <2>6. CASE ProcessRelease(t)
    BY <2>6 DEF ProcessRelease
  <2>7. CASE DhcpStop(t)
    BY <2>7 DEF DhcpStop
  <2> QED
    BY <1>7, <2>1, <2>2, <2>3, <2>4, <2>5, <2>6, <2>7 DEF Dhcp
<1>8. CASE LeaseBound \/ Client
  BY <1>8 DEF LeaseBound, Client, LeaseRetry, LeaseRenew, LeaseRebind, LeaseRenewed, LeaseLost,
    Lwip
<1>9. CASE UNCHANGED linkVars
  BY <1>9 DEF linkVars
<1> QED
  BY <1>1, <1>2, <1>3, <1>4, <1>5, <1>6, <1>7, <1>8, <1>9 DEF LinkNext

(* The inductive invariant of link supervision and DHCP.                    *)
THEOREM DhcpInvariant == LinkSpec => []DhcpInv
<1>1. LinkInit => DhcpInv
  BY LinkInitType, LinkInitDhcp DEF DhcpInv
<1>2. DhcpInv /\ [LinkNext]_linkVars => DhcpInv'
  BY LinkNextFlags, LinkNextStates, LinkNextStart, LinkNextAsked DEF DhcpInv, LinkTypeOK
<1> QED
  BY <1>1, <1>2, PTL DEF LinkSpec

(* After one begin(), stm32_DHCP_process never reads the tries of a client  *)
(* that does not exist: the only thread is not in "start".                  *)
THEOREM WaitCorrect == LinkSpec => []WaitHasClient
<1>1. DhcpInv => WaitHasClient
  BY DEF DhcpInv, StartUnderWay, WaitHasClient, Process, Runs
<1> QED
  BY <1>1, DhcpInvariant, PTL

(* A program that never asked for DHCP keeps its static address, however    *)
(* often it calls begin(ip) and the link changes.                           *)
THEOREM StaticCorrect == LinkSpec => []StaticKept
<1>1. DhcpInv => StaticKept
  BY DEF DhcpInv, AskedOrStatic, NeverAsked, StaticKept, LinkTypeOK, StatesOK
<1> QED
  BY <1>1, DhcpInvariant, PTL
=============================================================================
