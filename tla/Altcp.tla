-------------------------------- MODULE Altcp --------------------------------
(***************************************************************************)
(* The connection an HTTP client works on, seen from above: what its calls *)
(* altcp_new, _connect, _write, _recved, _close and _abort do, on a plain  *)
(* pcb of lwIP and on one behind altcp_proxyconnect, which first asks a    *)
(* proxy for the connection.  What comes up from below is in HttpClient.   *)
(***************************************************************************)
EXTENDS Integers

VARIABLES
  proxied,  (* the allocator is altcp_proxyconnect_alloc                    *)
  conn,     (* the altcp_pcb of altcp_proxyconnect and its state            *)
  pcb,      (* the pcb of lwIP and whether its callbacks lead to the client *)
  unacked,  (* received, and not given back with tcp_recved                 *)
  odd       (* what went wrong: "closed" by the proxy, "abort" after close  *)

altcp == <<conn, pcb, unacked, odd>>

Mem == {"none", "heap", "freed", "twice"}
Free(m) == IF m = "heap" THEN "freed" ELSE "twice"
FreeIf(m) == IF m = "none" THEN m ELSE Free(m)

NoConn == [mem |-> "none", started |-> FALSE, asked |-> FALSE, done |-> FALSE]
NoPcb == [state |-> "none", arg |-> FALSE]

AltcpTypeOK ==
  /\ proxied \in BOOLEAN
  /\ conn \in [mem : Mem, started : BOOLEAN, asked : BOOLEAN, done : BOOLEAN]
  /\ pcb \in [state : {"none", "new", "syn", "open", "over"}, arg : BOOLEAN]
  /\ unacked \in Nat
  /\ odd \subseteq {"closed", "abort"}

(* altcp_new() fails when a call in fail does; an inner pcb without an      *)
(* outer is closed.                                                         *)
NewFails(fail) == "pcb" \in fail \/ (proxied /\ fail \cap {"conn", "state"} # {})

NewConn == IF proxied THEN [NoConn EXCEPT !.mem = "heap"] ELSE NoConn

(* altcp_connect(): the layer accepts one per connection.                   *)
ConnectFails(fail) == "connect" \in fail \/ (proxied /\ conn.started)

Connecting(c) == [c EXCEPT !.started = proxied]

(* altcp_write() before the handshake is refused.                           *)
WriteFails(c, fail) == "write" \in fail \/ (proxied /\ ~c.done)

(* altcp_recved(): the layer swallows it before the handshake.              *)
Recved(n, k) ==
  unacked' = IF proxied /\ ~conn.done THEN unacked + n ELSE unacked + n - k

(* altcp_close(), and altcp_abort() when it fails.  abort frees the inner   *)
(* pcb, whose error callback frees conn, and then frees conn.               *)
CloseAltcp(fail) ==
  /\ pcb' = [state |-> "over", arg |-> FALSE]
  /\ IF "close" \in fail
     THEN /\ conn' = [conn EXCEPT !.mem = IF proxied THEN Free(Free(@)) ELSE @]
          /\ odd' = odd \cup {"abort"}
     ELSE /\ conn' = [conn EXCEPT !.mem = IF proxied THEN Free(@) ELSE @]
          /\ UNCHANGED odd

(* The inner pcb is gone: the layer frees its conn after telling the client *)
(* of it.                                                                   *)
LowerErr ==
  /\ pcb' = [state |-> "over", arg |-> FALSE]
  /\ conn' = [conn EXCEPT !.mem = IF proxied THEN Free(@) ELSE @]
  /\ UNCHANGED odd
=============================================================================
