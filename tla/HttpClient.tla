----------------------------- MODULE HttpClient ------------------------------
(***************************************************************************)
(* The HTTP client of src/examples/LwipHttp, to memory or to a file, by    *)
(* address or by name, with and without altcp_proxyconnect, and the sketch *)
(* that starts it.  Everything runs in tcpip_thread or under its lock: a   *)
(* step is a call of the API or a callback, with all the calls it makes.   *)
(*                                                                         *)
(* What the peer sends is a sequence of pieces: the status line, the       *)
(* Content-Length line if there is one, the two line ends that end the     *)
(* header, and the bytes of the body, cut into pbufs anywhere.             *)
(***************************************************************************)
EXTENDS Altcp, Sequences, FiniteSets

CONSTANTS
  MaxBody,             (* bound: bytes of a body                            *)
  HTTPC_POLL_TIMEOUT,
  Failures             (* the calls to lwIP and the heap that may fail      *)

ASSUME HttpClientAssumption ==
  /\ {MaxBody, HTTPC_POLL_TIMEOUT} \subseteq Nat \ {0}
  /\ Failures \subseteq {"req", "request", "pcb", "conn", "state", "connect", "write", "close", "file"}

VARIABLES
  req,      (* httpc_state_t                                                *)
  file,     (* httpc_filestate_t                                            *)
  dns,      (* a query for req is under way                                 *)
  api,      (* what the call of the API has returned                        *)
  results,  (* the results result_fn was called with                        *)
  got,      (* the pieces given to recv_fn                                  *)
  resp,     (* what the peer answers                                        *)
  at        (* pieces of it that have been received                         *)

client == <<req, file, dns, results, got>>
vars == <<proxied, altcp, client, api, resp, at>>

HTTPC_CONTENT_LEN_INVALID == MaxBody + 1
Lengths == 0 .. HTTPC_CONTENT_LEN_INVALID
HeaderLen == IF resp.length = HTTPC_CONTENT_LEN_INVALID THEN 3 ELSE 4
AnswerLen == 3    (* of the proxy: its status line and two line ends        *)

NoReq == [mem |-> "none", request |-> "none", hdrs |-> 0, pcb |-> FALSE, ticks |-> 0,
          parse |-> "line", want |-> HTTPC_CONTENT_LEN_INVALID, rx |-> 0]

TypeOK ==
  /\ AltcpTypeOK
  /\ req \in [mem : Mem, request : Mem, hdrs : 0 .. 4 + MaxBody, pcb : BOOLEAN,
              ticks : 0 .. HTTPC_POLL_TIMEOUT, parse : {"line", "headers", "data"},
              want : Lengths, rx : 0 .. MaxBody]
  /\ file \in Mem
  /\ dns \in BOOLEAN
  /\ api \in {"idle", "ok", "err"}
  /\ Len(results) <= 2 /\ \A i \in DOMAIN results :
       results[i] \in {"OK", "CLOSED", "CONTENT_LEN", "LOCAL_ABORT", "MEM", "TIMEOUT", "CONNECT", "HOSTNAME"}
  /\ Len(got) <= MaxBody
  /\ resp \in [ok : BOOLEAN, length : Lengths, body : 0 .. MaxBody]
  /\ at \in 0 .. 4 + MaxBody

Init ==
  /\ proxied \in BOOLEAN /\ conn = NoConn /\ pcb = NoPcb /\ unacked = 0 /\ odd = {}
  /\ req = NoReq /\ file = "none" /\ dns = FALSE /\ api = "idle"
  /\ results = <<>> /\ got = <<>>
  /\ resp = [ok |-> TRUE, length |-> 0, body |-> 0] /\ at = 0

-----------------------------------------------------------------------------
(* The end of a request.                                                    *)
Dropped(r) == [r EXCEPT !.mem = Free(@), !.request = FreeIf(@), !.hdrs = 0, !.pcb = FALSE]

FreeStateKeepsCallbacks(r, fail) ==
  /\ req' = Dropped(r)
  /\ UNCHANGED <<conn, odd>>
  /\ pcb' = IF r.pcb THEN [state |-> "over", arg |-> TRUE] ELSE pcb

FreeState(r, fail) ==
  /\ req' = Dropped(r)
  /\ IF r.pcb THEN CloseAltcp(fail) ELSE UNCHANGED <<conn, pcb, odd>>

(* httpc_fs_result() is the result_fn when there is a file: it closes it    *)
(* and frees its state.                                                     *)
FileClosed == file' = FreeIf(file)

Close(r, result, fail) ==
  /\ results' = Append(results, result)
  /\ FileClosed
  /\ FreeState(r, fail)

-----------------------------------------------------------------------------
(* The API.  The sketch starts a request when it has none that could still  *)
(* call back.                                                               *)
AtMostOne(calls) == {{}} \cup {{f} : f \in calls}

(* The calls that make httpc_get_file[_dns][_to_disk]() give up; "connect"  *)
(* stands for a name that cannot be looked up as well.                      *)
StartFails(fail, disk) ==
  \/ fail \cap {"req", "request", "connect"} # {} \/ NewFails(fail)
  \/ (disk /\ "file" \in fail)

(* It gives back what it had allocated, and calls nobody.                   *)
StartFailing(fail, disk) ==
  /\ StartFails(fail, disk)
  /\ api' = "err" /\ dns' = FALSE
  /\ LET noFile == disk /\ "file" \in fail IN
     /\ file' = IF disk /\ ~noFile THEN "freed" ELSE "none"
     /\ req' = IF noFile \/ "req" \in fail THEN NoReq
               ELSE Dropped([NoReq EXCEPT !.mem = "heap",
                               !.request = IF "request" \in fail THEN "none" ELSE "heap"])
  /\ pcb' = NoPcb /\ conn' = NoConn

(* httpc_get_internal_dns(): connects at once or waits for the address.     *)
FirstStep(wait) == [state |-> IF wait THEN "new" ELSE "syn", arg |-> TRUE]

Starting(fail, disk, wait) ==
  /\ ~StartFails(fail, disk)
  /\ api' = "ok" /\ dns' = wait
  /\ file' = IF disk THEN "heap" ELSE "none"
  /\ req' = [NoReq EXCEPT !.mem = "heap", !.request = "heap", !.pcb = TRUE,
                          !.ticks = HTTPC_POLL_TIMEOUT]
  /\ pcb' = FirstStep(wait)
  /\ conn' = IF wait THEN NewConn ELSE Connecting(NewConn)

(* The sketch starts a request when it has none that could still call back; *)
(* what earlier ones left behind is forgotten.                              *)
Start ==
  /\ api # "ok" \/ results # <<>> \/ "closed" \in odd
  /\ resp' \in [ok : BOOLEAN, length : Lengths, body : 0 .. MaxBody]
  /\ at' = 0 /\ unacked' = 0 /\ odd' = {} /\ results' = <<>> /\ got' = <<>>
  /\ \E fail \in AtMostOne(Failures \ {"write", "close"}), disk \in BOOLEAN, wait \in BOOLEAN :
       StartFailing(fail, disk) \/ Starting(fail, disk, wait)
  /\ UNCHANGED proxied

-----------------------------------------------------------------------------
(* The callbacks.  x is the set of calls that fail during one of them.      *)
DnsFound(x) ==
  /\ dns
  /\ dns' = FALSE
  /\ \/ /\ ~ConnectFails(x)
        /\ pcb' = [pcb EXCEPT !.state = "syn"]
        /\ conn' = Connecting(conn)
        /\ UNCHANGED <<req, file, results, odd>>
     \/ ConnectFails(x) /\ Close(req, "CONNECT", {})
  /\ UNCHANGED <<proxied, unacked, got, api, resp, at>>

DnsNotFound ==
  /\ dns
  /\ dns' = FALSE
  /\ Close(req, "HOSTNAME", {})
  /\ UNCHANGED <<proxied, unacked, got, api, resp, at>>

(* httpc_tcp_connected(), with the layer in state c: the request is handed  *)
(* to lwIP, which copies it.                                                *)
Connected(c, x) ==
  IF WriteFails(c, x)
  THEN Close(req, "MEM", x)
  ELSE /\ req' = [req EXCEPT !.request = "none"]
       /\ pcb' = [pcb EXCEPT !.state = "open"]
       /\ conn' = c
       /\ UNCHANGED <<odd, file, results>>

(* altcp_proxyconnect_send_request().                                       *)
Asked(x) == "write" \notin x

(* altcp_proxyconnect_lower_connected(): when the proxy cannot be asked,    *)
(* nothing more happens before the time-out.                                *)
LowerConnected(x) ==
  /\ pcb.state = "syn"
  /\ IF ~proxied THEN Connected(conn, x)
     ELSE /\ conn' = [conn EXCEPT !.asked = Asked(x)]
          /\ pcb' = [pcb EXCEPT !.state = "open"]
          /\ UNCHANGED <<odd, req, file, results>>
  /\ UNCHANGED <<proxied, unacked, dns, got, api, resp, at>>

(* altcp_proxyconnect_lower_recv() in the handshake.  Any answer will do, if *)
(* one pbuf has both line ends; the layer is closed below the client when    *)
(* the proxy closes.                                                        *)
HandshakeAnswer(n, x) ==
  /\ proxied /\ pcb.state = "open" /\ conn.asked /\ ~conn.done
  /\ at + n <= AnswerLen
  /\ IF at < 2 /\ at + n = AnswerLen
     THEN at' = 0 /\ Connected([conn EXCEPT !.done = TRUE], x)
     ELSE at' = at + n /\ UNCHANGED <<conn, pcb, odd, req, file, results>>
  /\ UNCHANGED <<proxied, unacked, dns, got, api, resp>>

HandshakeClosed(x) ==
  /\ proxied /\ pcb.state = "open" /\ ~conn.done
  /\ pcb' = [state |-> "over", arg |-> FALSE]
  /\ conn' = [conn EXCEPT !.mem = IF "close" \in x THEN Free(Free(@)) ELSE Free(@)]
  /\ odd' = odd \cup {"closed"}
  /\ UNCHANGED <<proxied, unacked, client, api, resp, at>>

Ready == pcb.state = "open" /\ (proxied => conn.done)
Pieces == HeaderLen + resp.body

(* httpc_tcp_recv() with a pbuf of n pieces.  Those of the header are held  *)
(* in rx_hdrs until it is whole.                                            *)
ParseState(held) ==
  IF req.parse = "line" /\ resp.ok /\ held > 0 THEN "headers" ELSE req.parse

HeaderDone(held) ==
  req.parse # "data" /\ ParseState(held) = "headers" /\ held >= HeaderLen

RecvHeaderPart(n) ==
  /\ req.parse # "data" /\ ~HeaderDone(req.hdrs + n)
  /\ req' = [req EXCEPT !.hdrs = @ + n, !.parse = ParseState(req.hdrs + n)]
  /\ Recved(n, 0)
  /\ UNCHANGED <<got, conn, pcb, odd, file, results>>

(* headers_done_fn refuses.                                                 *)
RecvAborted(n, x) ==
  /\ HeaderDone(req.hdrs + n)
  /\ Recved(n, HeaderLen)
  /\ Close([req EXCEPT !.want = resp.length, !.parse = "headers"], "LOCAL_ABORT", x)
  /\ UNCHANGED got

(* recv_fn: rx_body() of the sketch and httpc_fs_tcp_recv() take the pbuf   *)
(* and open the window by its length.                                       *)
RecvFn(r, from, n) ==
  /\ req' = [r EXCEPT !.rx = @ + n]
  /\ got' = got \o [i \in 1 .. n |-> from + i]

RecvHeaderDoneAll(n) ==
  /\ HeaderDone(req.hdrs + n)
  /\ LET body == req.hdrs + n - HeaderLen IN
     /\ RecvFn([req EXCEPT !.want = resp.length, !.hdrs = 0, !.parse = "data"], HeaderLen - 1, body)
     /\ Recved(n, HeaderLen + body)
  /\ UNCHANGED <<conn, pcb, odd, file, results>>

(* What follows the header in the same pbufs is body.                       *)
RecvHeaderDone(n) ==
  /\ HeaderDone(req.hdrs + n)
  /\ LET body == req.hdrs + n - HeaderLen IN
     /\ RecvFn([req EXCEPT !.want = resp.length, !.hdrs = 0, !.parse = "data"], HeaderLen, body)
     /\ Recved(n, HeaderLen + body)
  /\ UNCHANGED <<conn, pcb, odd, file, results>>

RecvBody(n) ==
  /\ req.parse = "data"
  /\ RecvFn(req, at, n)
  /\ Recved(n, n)
  /\ UNCHANGED <<conn, pcb, odd, file, results>>

Recv(n, x) ==
  /\ Ready /\ req.request # "heap"
  /\ at + n <= Pieces /\ at' = at + n
  /\ RecvHeaderPart(n) \/ RecvAborted(n, x) \/ RecvHeaderDone(n) \/ RecvBody(n)
  /\ UNCHANGED <<proxied, dns, api, resp>>

(* httpc_tcp_recv() without a pbuf: the peer has closed.                    *)
ResultOf ==
  IF req.parse # "data" THEN "CLOSED"
  ELSE IF req.want \notin {req.rx, HTTPC_CONTENT_LEN_INVALID} THEN "CONTENT_LEN"
  ELSE "OK"

Finished(x) ==
  /\ Ready
  /\ Close(req, ResultOf, x)
  /\ UNCHANGED <<proxied, unacked, dns, got, api, resp, at>>

(* Every pcb that has been connected is polled, through the layer or not.   *)
Polled == pcb.state \in {"syn", "open"}

(* httpc_tcp_err(), through altcp_proxyconnect_lower_err(): the pcb is gone. *)
Err ==
  /\ Polled
  /\ LowerErr
  /\ results' = Append(results, "CLOSED")
  /\ FileClosed
  /\ req' = Dropped(req)
  /\ UNCHANGED <<proxied, unacked, dns, got, api, resp, at>>

PollOnceConnected(x) ==
  /\ pcb.state = "open"
  /\ IF req.ticks > 1
     THEN req' = [req EXCEPT !.ticks = @ - 1] /\ UNCHANGED <<conn, pcb, odd, file, results>>
     ELSE Close(req, "TIMEOUT", x)
  /\ UNCHANGED <<proxied, unacked, dns, got, api, resp, at>>

(* httpc_tcp_poll(): counts from the start, whatever is received.           *)
Poll(x) ==
  /\ Polled
  /\ IF req.ticks > 1
     THEN req' = [req EXCEPT !.ticks = @ - 1] /\ UNCHANGED <<conn, pcb, odd, file, results>>
     ELSE Close(req, "TIMEOUT", x)
  /\ UNCHANGED <<proxied, unacked, dns, got, api, resp, at>>

Failing == AtMostOne(Failures \cap {"connect", "write", "close"})

Next ==
  \/ Start \/ DnsNotFound \/ Err
  \/ \E x \in Failing :
       \/ DnsFound(x) \/ LowerConnected(x) \/ Finished(x) \/ Poll(x) \/ HandshakeClosed(x)
       \/ \E n \in 1 .. 4 + MaxBody : HandshakeAnswer(n, x) \/ Recv(n, x)

(* lwIP ends every query, and polls every active pcb.                       *)
Fairness == WF_vars(DnsNotFound \/ \E x \in Failing : DnsFound(x)) /\ WF_vars(\E x \in Failing : Poll(x))

Spec == Init /\ [][Next]_vars
FairSpec == Spec /\ Fairness

-----------------------------------------------------------------------------
(* A callback that can still come finds the state of its request alive:     *)
(* the pcb's argument and the pending query point to httpc_state_t (and the  *)
(* former through conn, and to the file's state).                           *)
CallbacksAlive ==
  /\ (pcb.arg \/ dns) => req.mem = "heap" /\ results = <<>> /\ file \in {"none", "heap"}
  /\ (pcb.arg /\ proxied) => conn.mem = "heap"

(* result_fn is called once for a request that was started, and never for   *)
(* one that the API refused; by then, or by the refusal, everything that    *)
(* was allocated has been freed, and freed once: the state, the request,    *)
(* the header, the file, both connections.  Left out: a failing             *)
(* altcp_close() below altcp_proxyconnect, whose altcp_abort() frees twice. *)
EverythingFreedOnce ==
  /\ Len(results) <= (IF api = "ok" THEN 1 ELSE 0)
  /\ (results # <<>> \/ api = "err") =>
       /\ {req.mem, req.request, file} \subseteq {"none", "freed"}
       /\ req.hdrs = 0 /\ ~dns /\ ~pcb.arg /\ pcb.state \in {"none", "over"}
       /\ conn.mem \in {"none", "freed"} \/ (proxied /\ "abort" \in odd)

(* The pieces given to recv_fn are the body, from its first byte on, in     *)
(* order and without a gap, wherever the pbufs were cut.                    *)
BodyInOrder == got = [i \in 1 .. Len(got) |-> HeaderLen + i]

(* A result of OK means that the peer announced no length or that as many   *)
(* bytes as it announced have reached recv_fn; and that the status line was *)
(* one.                                                                     *)
OkMeansWhole ==
  results = <<"OK">> =>
    /\ resp.ok
    /\ resp.length \in {HTTPC_CONTENT_LEN_INVALID, Len(got)}

(* The window is closed by what the client still holds of the header, and   *)
(* by nothing else, as long as it receives.                                 *)
WindowGivenBack == pcb.arg => unacked = req.hdrs

(* Every request that was started ends with a result, through the time-out  *)
(* at the latest, unless the proxy closes the connection in the handshake.  *)
EveryRequestEnds == api = "ok" ~> (results # <<>> \/ "closed" \in odd)

(* What is freed is freed once and before nobody can use it any more, at    *)
(* every way out of a request.                                              *)
RequestSafe == TypeOK /\ CallbacksAlive /\ EverythingFreedOnce

(* The body: whole when the result says so, in order, and its window open.  *)
BodySound == BodyInOrder /\ OkMeansWhole /\ WindowGivenBack

=============================================================================
