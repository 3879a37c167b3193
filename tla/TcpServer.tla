------------------------------ MODULE TcpServer ------------------------------
(***************************************************************************)
(* EthernetServer, its table of clients and tcp_accept_callback, with the  *)
(* sketches of src/examples that use them as the user's thread: WebServer  *)
(* ("web"), ChatServer ("chat"), DhcpChatServer ("dhcpchat") and           *)
(* AdvancedChatServer ("advanced").  The clients are EthernetClients; their *)
(* write(), flush() and stop() are here, connection by connection.         *)
(*                                                                         *)
(* The callbacks of lwIP come between any two steps of the user's thread.  *)
(* Connection c has pcb c and, once accepted, struct c.  Its data is a     *)
(* number of bytes (module PbufData has the detail).                       *)
(***************************************************************************)
EXTENDS Integers, FiniteSets, Functions

CONSTANTS
  MAX_CLIENT,
  MaxConns,   (* bound: connections that peers open                         *)
  MaxBytes,   (* bound: bytes received on a connection                      *)
  SndBuf,     (* TCP_SND_BUF                                                *)
  Reply,      (* length of what the sketch itself sends: a page, a greeting *)
  Sketches

ASSUME TcpServerAssumption ==
  /\ {MAX_CLIENT, MaxConns, MaxBytes, SndBuf, Reply} \subseteq Nat \ {0}
  /\ Sketches \subseteq {"web", "chat", "dhcpchat", "advanced"}

VARIABLES
  sketch,
  listening,    (* _tcp_server.pcb is a listening pcb                       *)
  table,        (* _tcp_client                                              *)
  tcp,          (* the struct tcp_struct of each connection                 *)
  pcbs,         (* what lwIP does with each pcb                             *)
  received,     (* bytes received on each connection                        *)
  room,         (* tcp_sndbuf of each pcb                                   *)
  clients,      (* the array of AdvancedChatServer                          *)
  greeted,      (* alreadyConnected, gotAMessage                            *)
  app,          (* the user's thread: its next step and its locals          *)
  strays        (* structs that the code has let go of                      *)

lwip == <<pcbs, received, room>>
mem == <<table, tcp>>
vars == <<sketch, listening, mem, lwip, clients, greeted, app, strays>>

Slots == 1 .. MAX_CLIENT
Conns == 1 .. MaxConns
Amounts == 0 .. MaxBytes
Struct == [mem : {"none", "heap", "freed"}, state : {"ACCEPTED", "CLOSING"},
           pcb : BOOLEAN, available : Amounts, is_accept : BOOLEAN]
NoStruct == [mem |-> "none", state |-> "CLOSING", pcb |-> FALSE, available |-> 0, is_accept |-> FALSE]
Positions == 1 .. MAX_CLIENT + MaxBytes + 1
Lengths == 0 .. MaxBytes + Reply
Calls == [pc : {"setup", "loop", "check", "scan", "use", "write", "round", "wrote",
                "stop", "close", "free", "halt", "fault"},
          fn : {"none", "accept", "available", "write", "hello", "relay", "reap", "page"},
          n : Positions, i : Positions, cl : Conns \cup {0}, left : Lengths, size : Lengths]
Idle == [pc |-> "loop", fn |-> "none", n |-> 1, i |-> 1, cl |-> 0, left |-> 0, size |-> 0]

TypeOK ==
  /\ sketch \in Sketches
  /\ listening \in BOOLEAN /\ greeted \in BOOLEAN
  /\ table \in [Slots -> Conns \cup {0}]
  /\ clients \in [Slots -> Conns \cup {0}]
  /\ tcp \in [Conns -> Struct]
  /\ pcbs \in [Conns -> {"none", "open", "over"}]
  /\ received \in [Conns -> Amounts]
  /\ room \in [Conns -> 0 .. SndBuf]
  /\ app \in Calls /\ app.i <= MAX_CLIENT + 1 /\ app.left <= app.size
  /\ strays \subseteq Conns

Init ==
  /\ sketch \in Sketches
  /\ listening = FALSE /\ greeted = FALSE
  /\ table = [k \in Slots |-> 0] /\ clients = [k \in Slots |-> 0]
  /\ tcp = [c \in Conns |-> NoStruct]
  /\ pcbs = [c \in Conns |-> "none"]
  /\ received = [c \in Conns |-> 0]
  /\ room = [c \in Conns |-> SndBuf]
  /\ app = [Idle EXCEPT !.pc = "setup"]
  /\ strays = {}

(* EthernetServer::begin(), from setup_after_rtt_start(), which calls it    *)
(* once: no pcb, or none that binds, and the server never listens.          *)
Begin ==
  /\ app.pc = "setup"
  /\ listening' \in BOOLEAN
  /\ app' = IF listening' THEN Idle ELSE [app EXCEPT !.pc = "halt"]
  /\ UNCHANGED <<sketch, mem, lwip, clients, greeted, strays>>

-----------------------------------------------------------------------------
(* EthernetServer in the user's thread.                                     *)
Call(fn) == app' = [app EXCEPT !.pc = "check", !.fn = fn, !.n = 1]

(* checkClient(): a struct whose connection is over is freed, with its data *)
(* unread or not.                                                           *)
CheckClientFrees(k) ==
  LET c == table[k] IN
  IF c # 0 /\ tcp[c].state = "CLOSING"
  THEN tcp' = [tcp EXCEPT ![c].mem = "freed"] /\ table' = [table EXCEPT ![k] = 0]
  ELSE UNCHANGED mem

CheckClientShort ==
  /\ app.pc = "check"
  /\ CheckClientFrees(app.n)
  /\ app' = IF app.n < MAX_CLIENT - 1 THEN [app EXCEPT !.n = @ + 1]
            ELSE [app EXCEPT !.n = 1, !.pc = IF app.fn = "write" THEN "write" ELSE "scan"]
  /\ UNCHANGED <<sketch, listening, lwip, clients, greeted, strays>>

CheckClient ==
  /\ app.pc = "check"
  /\ CheckClientFrees(app.n)
  /\ app' = IF app.n < MAX_CLIENT THEN [app EXCEPT !.n = @ + 1]
            ELSE [app EXCEPT !.n = 1, !.pc = IF app.fn = "write" THEN "write" ELSE "scan"]
  /\ UNCHANGED <<sketch, listening, lwip, clients, greeted, strays>>

Accepted(c) == c # 0 /\ tcp[c].pcb /\ tcp[c].state = "ACCEPTED"

(* accept() hands the connection over and forgets it.                       *)
Take(k) ==
  /\ tcp' = [tcp EXCEPT ![table[k]].is_accept = TRUE]
  /\ table' = [table EXCEPT ![k] = 0]

ScanShort ==
  /\ app.pc = "scan"
  /\ LET c == table[app.n]
         found == Accepted(c) /\ (app.fn = "available" => tcp[c].available > 0)
     IN IF found
        THEN /\ app' = [app EXCEPT !.pc = "use", !.cl = c, !.n = 1]
             /\ IF app.fn = "accept" THEN Take(app.n) ELSE UNCHANGED mem
        ELSE /\ app' = IF app.n < MAX_CLIENT - 1 THEN [app EXCEPT !.n = @ + 1]
                       ELSE [app EXCEPT !.pc = "use", !.cl = 0, !.n = 1]
             /\ UNCHANGED mem
  /\ UNCHANGED <<sketch, listening, lwip, clients, greeted, strays>>

(* accept() and available(): the first slot that will do.                   *)
Scan ==
  /\ app.pc = "scan"
  /\ LET c == table[app.n]
         found == Accepted(c) /\ (app.fn = "available" => tcp[c].available > 0)
     IN IF found
        THEN /\ app' = [app EXCEPT !.pc = "use", !.cl = c, !.n = 1]
             /\ IF app.fn = "accept" THEN Take(app.n) ELSE UNCHANGED mem
        ELSE /\ app' = IF app.n < MAX_CLIENT THEN [app EXCEPT !.n = @ + 1]
                       ELSE [app EXCEPT !.pc = "use", !.cl = 0, !.n = 1]
             /\ UNCHANGED mem
  /\ UNCHANGED <<sketch, listening, lwip, clients, greeted, strays>>

(* write(): one slot.  The n that counts the bytes is the n of the loop: a  *)
(* client that has been written to moves it on by as many slots as bytes.   *)
ServerWrite ==
  /\ app.pc = "write" /\ app.fn = "write"
  /\ app' =
       CASE app.n > MAX_CLIENT      -> Idle
         [] app.n <= MAX_CLIENT /\ Accepted(table[app.n]) ->
              [app EXCEPT !.pc = "round", !.cl = table[app.n], !.left = app.size]
         [] OTHER                   -> [app EXCEPT !.n = @ + 1]
  /\ UNCHANGED <<sketch, listening, mem, lwip, clients, greeted, strays>>

-----------------------------------------------------------------------------
(* EthernetClient in the user's thread.  write() to one client, from the    *)
(* check at its start.                                                      *)
ClientWrite(c, fn, size) ==
  app' = [app EXCEPT !.fn = fn, !.cl = c, !.size = size, !.left = size,
                     !.pc = IF Accepted(c) /\ size > 0 THEN "round" ELSE "wrote"]

(* One round of its loop, with the room that lwIP has.  tcp_write or        *)
(* tcp_output may fail, and write() then returns 0.                         *)
Fits == IF app.left < room[app.cl] THEN app.left ELSE room[app.cl]

Round ==
  /\ app.pc = "round"
  /\ Accepted(app.cl)
  /\ \/ /\ room' = [room EXCEPT ![app.cl] = @ - Fits]
        /\ app' = [app EXCEPT !.left = @ - Fits, !.pc = IF app.left = Fits THEN "wrote" ELSE "round"]
     \/ UNCHANGED room /\ app' = [app EXCEPT !.pc = "wrote"]
  /\ UNCHANGED <<sketch, listening, mem, pcbs, received, clients, greeted, strays>>

(* The pcb is NULL by now: write() and tcp_connection_close() go on with it *)
(* nevertheless, and what happens is undefined.                             *)
Fault ==
  /\ app.pc \in {"round", "close"}
  /\ ~Accepted(app.cl)
  /\ app' = [app EXCEPT !.pc = "fault"]
  /\ UNCHANGED <<sketch, listening, mem, lwip, clients, greeted, strays>>

(* connected()                                                              *)
Connected(c) ==
  /\ c # 0
  /\ tcp[c].state = "ACCEPTED" \/ (tcp[c].state = "CLOSING" /\ tcp[c].available > 0)

(* stop(), from its first test to the core lock of tcp_connection_close.    *)
Stop ==
  /\ app.pc = "stop"
  /\ app' = [app EXCEPT !.pc = IF tcp[app.cl].state = "CLOSING" THEN "free" ELSE "close"]
  /\ UNCHANGED <<sketch, listening, mem, lwip, clients, greeted, strays>>

ConnectionCloseKeepsCallbacks(c) ==
  /\ UNCHANGED pcbs
  /\ tcp' = [tcp EXCEPT ![c].pcb = FALSE, ![c].state = "CLOSING"]

(* tcp_connection_close, in any thread.  By tcp_close or tcp_abort, the pcb *)
(* is lwIP's from now on, and without callbacks.                            *)
ConnectionClose(c) ==
  /\ pcbs' = [pcbs EXCEPT ![c] = "over"]
  /\ tcp' = [tcp EXCEPT ![c].pcb = FALSE, ![c].state = "CLOSING"]

StopClose ==
  /\ app.pc = "close"
  /\ Accepted(app.cl)
  /\ ConnectionClose(app.cl)
  /\ app' = [app EXCEPT !.pc = "free"]
  /\ UNCHANGED <<sketch, listening, table, received, room, clients, greeted, strays>>

(* The data and, when accept() has returned it, the struct are freed.       *)
StopFree ==
  /\ app.pc = "free"
  /\ LET c == app.cl IN
       /\ tcp' = [tcp EXCEPT ![c].available = 0,
                             ![c].mem = IF tcp[c].is_accept THEN "freed" ELSE @]
       /\ clients' = IF tcp[c].is_accept THEN [k \in Slots |-> IF clients[k] = c THEN 0 ELSE clients[k]]
                     ELSE clients
  /\ app' = [app EXCEPT !.pc = "use", !.cl = 0, !.i = @ + 1]
  /\ UNCHANGED <<sketch, listening, table, lwip, greeted, strays>>

(* read() of what is available                                              *)
ReadAll(c) == tcp' = [tcp EXCEPT ![c].available = 0] /\ UNCHANGED table

-----------------------------------------------------------------------------
(* loop() of the sketches: what they do with what they got.                 *)
Loop ==
  /\ app.pc = "loop"
  /\ Call(IF sketch = "advanced" THEN "accept" ELSE "available")
  /\ UNCHANGED <<sketch, listening, mem, lwip, clients, greeted, strays>>

(* WebServer: read the request to its end, send the page, close.            *)
Web ==
  /\ sketch = "web" /\ app.pc = "use"
  /\ LET c == app.cl IN
       IF c = 0 THEN app' = Idle /\ UNCHANGED mem
       ELSE IF ~Connected(c) THEN app' = [app EXCEPT !.pc = "stop"] /\ UNCHANGED mem
       ELSE IF tcp[c].available > 0 THEN ReadAll(c) /\ UNCHANGED app
       ELSE ClientWrite(c, "page", Reply) /\ UNCHANGED mem
  /\ UNCHANGED <<sketch, listening, lwip, clients, greeted, strays>>

WebSent ==
  /\ app.pc = "wrote" /\ app.fn = "page"
  /\ app' = [app EXCEPT !.pc = "stop", !.left = 0, !.size = 0]
  /\ UNCHANGED <<sketch, listening, mem, lwip, clients, greeted, strays>>

(* ChatServer and DhcpChatServer: greet the first client that speaks, then  *)
(* send what a client says to all.  flush() before the greeting, in one of  *)
(* them, is tcp_output and leaves everything here as it is.                 *)
ChatHeard(c) ==
  IF tcp[c].available > 0
  THEN ReadAll(c) /\ app' = [app EXCEPT !.pc = "check", !.fn = "write", !.n = 1, !.cl = 0,
                                        !.size = tcp[c].available, !.left = 0]
  ELSE app' = Idle /\ UNCHANGED mem

ChatLoop ==
  /\ app.pc = "use"
  /\ LET c == app.cl IN
       IF c = 0 THEN app' = Idle /\ UNCHANGED <<mem, greeted>>
       ELSE IF ~greeted
       THEN ClientWrite(c, "hello", Reply) /\ greeted' = TRUE /\ UNCHANGED mem
       ELSE ChatHeard(c) /\ UNCHANGED greeted
  /\ UNCHANGED <<sketch, listening, lwip, clients, strays>>

Chat == sketch = "chat" /\ ChatLoop
DhcpChat == sketch = "dhcpchat" /\ ChatLoop

ChatGreeted ==
  /\ sketch \in {"chat", "dhcpchat"}
  /\ app.pc = "wrote" /\ app.fn = "hello"
  /\ app' = [app EXCEPT !.pc = "use", !.fn = "none", !.left = 0, !.size = 0]
  /\ UNCHANGED <<sketch, listening, mem, lwip, clients, greeted, strays>>

(* ServerWrite goes on with the next slot, or further.                      *)
ServerWrote ==
  /\ app.pc = "wrote" /\ app.fn = "write"
  /\ app' = [app EXCEPT !.pc = "write", !.cl = 0, !.left = 0,
                        !.n = @ + 1 + IF app.left = 0 THEN app.size ELSE 0]
  /\ UNCHANGED <<sketch, listening, mem, lwip, clients, greeted, strays>>

(* AdvancedChatServer: a new client is greeted and kept, if there is a      *)
(* place for it.                                                            *)
Places == {k \in Slots : clients[k] = 0}

Newcomer ==
  /\ sketch = "advanced" /\ app.pc = "use" /\ app.fn = "accept"
  /\ IF app.cl # 0 /\ Places # {}
     THEN ClientWrite(app.cl, "hello", Reply) /\ UNCHANGED strays
     ELSE /\ app' = [app EXCEPT !.fn = "relay", !.i = 1, !.cl = 0]
          /\ strays' = strays \cup ({app.cl} \ {0})
  /\ UNCHANGED <<sketch, listening, mem, lwip, clients, greeted>>

Welcome ==
  /\ sketch = "advanced" /\ app.pc = "wrote" /\ app.fn = "hello"
  /\ LET k == CHOOSE k \in Places : \A l \in Places : k <= l
     IN clients' = [clients EXCEPT ![k] = app.cl]
  /\ app' = [app EXCEPT !.pc = "use", !.fn = "relay", !.i = 1, !.cl = 0, !.left = 0, !.size = 0]
  /\ UNCHANGED <<sketch, listening, mem, lwip, greeted, strays>>

(* What client i says goes to all others, which are clients[n] in turn.     *)
Relay ==
  /\ sketch = "advanced" /\ app.pc = "use" /\ app.fn = "relay" /\ app.size = 0
  /\ IF app.i > MAX_CLIENT THEN app' = [app EXCEPT !.fn = "reap", !.i = 1] /\ UNCHANGED mem
     ELSE IF clients[app.i] # 0 /\ tcp[clients[app.i]].available > 0
     THEN /\ app' = [app EXCEPT !.n = 1, !.size = tcp[clients[app.i]].available]
          /\ ReadAll(clients[app.i])
     ELSE app' = [app EXCEPT !.i = @ + 1] /\ UNCHANGED mem
  /\ UNCHANGED <<sketch, listening, lwip, clients, greeted, strays>>

RelayTo ==
  /\ app.pc = "use" /\ app.fn = "relay" /\ app.size > 0
  /\ IF app.n > MAX_CLIENT THEN app' = [app EXCEPT !.size = 0, !.left = 0, !.n = 1, !.i = @ + 1, !.cl = 0]
     ELSE IF app.n # app.i /\ Connected(clients[app.n])
     THEN ClientWrite(clients[app.n], "relay", app.size)
     ELSE app' = [app EXCEPT !.n = @ + 1]
  /\ UNCHANGED <<sketch, listening, mem, lwip, clients, greeted, strays>>

Relayed ==
  /\ app.pc = "wrote" /\ app.fn = "relay"
  /\ app' = [app EXCEPT !.pc = "use", !.left = 0, !.cl = 0, !.n = @ + 1]
  /\ UNCHANGED <<sketch, listening, mem, lwip, clients, greeted, strays>>

(* ... and clients that are not connected any more are stopped.             *)
Reap ==
  /\ sketch = "advanced" /\ app.pc = "use" /\ app.fn = "reap"
  /\ app' = IF app.i > MAX_CLIENT THEN Idle
            ELSE IF clients[app.i] # 0 /\ ~Connected(clients[app.i])
            THEN [app EXCEPT !.pc = "stop", !.cl = clients[app.i]]
            ELSE [app EXCEPT !.i = @ + 1]
  /\ UNCHANGED <<sketch, listening, mem, lwip, clients, greeted, strays>>

App ==
  \/ Begin \/ Loop \/ CheckClient \/ Scan \/ ServerWrite \/ Round \/ ServerWrote \/ Fault
  \/ Stop \/ StopClose \/ StopFree
  \/ Web \/ WebSent \/ Chat \/ DhcpChat \/ ChatGreeted
  \/ Newcomer \/ Welcome \/ Relay \/ RelayTo \/ Relayed \/ Reap

-----------------------------------------------------------------------------
(* lwIP.  tcp_accept_callback.  When all slots are taken, accepted has not  *)
(* been assigned: the connection is closed, or left open with a struct that *)
(* is in no slot.                                                           *)
FreeSlots == {k \in Slots : table[k] = 0}

AcceptInto(c, k) ==
  /\ table' = [table EXCEPT ![k] = c]
  /\ tcp' = [tcp EXCEPT ![c] = [mem |-> "heap", state |-> "ACCEPTED", pcb |-> TRUE,
                                available |-> 0, is_accept |-> FALSE]]
  /\ pcbs' = [pcbs EXCEPT ![c] = "open"]
  /\ UNCHANGED strays

AcceptFull(c) ==
  /\ UNCHANGED table
  /\ \/ /\ tcp' = [tcp EXCEPT ![c].mem = "freed"]
        /\ pcbs' = [pcbs EXCEPT ![c] = "over"]
        /\ UNCHANGED strays
     \/ /\ tcp' = [tcp EXCEPT ![c] = [NoStruct EXCEPT !.mem = "heap", !.state = "ACCEPTED", !.pcb = TRUE]]
        /\ pcbs' = [pcbs EXCEPT ![c] = "open"]
        /\ strays' = strays \cup {c}

AcceptCallback(c) ==
  /\ listening /\ pcbs[c] = "none" /\ \A b \in 1 .. c - 1 : pcbs[b] # "none"
  /\ IF FreeSlots = {} THEN AcceptFull(c)
     ELSE AcceptInto(c, CHOOSE k \in FreeSlots : \A l \in FreeSlots : k <= l)
  /\ UNCHANGED <<sketch, listening, received, room, clients, greeted, app>>

(* tcp_recv_callback, with data and at the end of the stream.  Its test of  *)
(* the state holds for every connection that still has the callback.        *)
RecvCallback(c) ==
  /\ pcbs[c] = "open"
  /\ received[c] < MaxBytes
  /\ received' = [received EXCEPT ![c] = @ + 1]
  /\ tcp' = [tcp EXCEPT ![c].available = @ + 1]
  /\ UNCHANGED <<sketch, listening, table, pcbs, room, clients, greeted, app, strays>>

Finished(c) ==
  /\ pcbs[c] = "open"
  /\ ConnectionClose(c)
  /\ UNCHANGED <<sketch, listening, table, received, room, clients, greeted, app, strays>>

(* tcp_err_callback                                                         *)
ErrCallback(c) ==
  /\ pcbs[c] = "open"
  /\ pcbs' = [pcbs EXCEPT ![c] = "over"]
  /\ tcp' = [tcp EXCEPT ![c].pcb = FALSE, ![c].state = "CLOSING"]
  /\ UNCHANGED <<sketch, listening, table, received, room, clients, greeted, app, strays>>

(* The peer acknowledges: tcp_sent_callback only looks.                     *)
SentCallback(c) ==
  /\ pcbs[c] = "open"
  /\ room[c] < SndBuf
  /\ room' = [room EXCEPT ![c] = SndBuf]
  /\ UNCHANGED <<sketch, listening, mem, pcbs, received, clients, greeted, app, strays>>

Lwip(c) ==
  \/ AcceptCallback(c) \/ RecvCallback(c) \/ Finished(c) \/ ErrCallback(c)
  \/ SentCallback(c)

Next == App \/ \E c \in Conns : Lwip(c)

Spec == Init /\ [][Next]_vars

(* The user's thread runs.  lwIP gets an acknowledgement for what it has    *)
(* sent or gives the connection up.                                         *)
FairSpec ==
  /\ Spec
  /\ WF_vars(App)
  /\ \A c \in Conns : WF_vars(SentCallback(c) \/ (room[c] < SndBuf /\ ErrCallback(c)))

-----------------------------------------------------------------------------
(* A connection whose callbacks lwIP still calls has a struct that nobody   *)
(* has freed, and that is where the callbacks write: freeing structs in the *)
(* user's thread, in two places, never races with them.                     *)
CallbacksAlive ==
  \A c \in Conns : pcbs[c] = "open" =>
    tcp[c].mem = "heap" /\ tcp[c].pcb /\ tcp[c].state = "ACCEPTED"

(* Neither the server's table nor the sketch has a client whose struct has  *)
(* been freed, and a connection has one owner: the table or, after          *)
(* accept(), the sketch.                                                    *)
NoDanglingClient ==
  /\ \A c \in Range(table) \cup Range(clients) \cup {app.cl} : c # 0 => tcp[c].mem = "heap"
  /\ \A k \in Slots : table[k] # 0 =>
       /\ ~tcp[table[k]].is_accept /\ table[k] \notin Range(clients)
       /\ \A l \in Slots \ {k} : table[l] # table[k]

(* A struct that is allocated can be reached, except in the two cases of    *)
(* strays: the full table and the full array of the sketch.                 *)
NoOrphan ==
  {c \in Conns : tcp[c].mem = "heap"} \subseteq
    Range(table) \cup Range(clients) \cup {app.cl} \cup strays

(* A slot whose connection is over is given back, whatever the other        *)
(* clients do: MAX_CLIENT peers that leave do not close the server.         *)
SlotRecycled ==
  \A c \in Conns :
    c \in Range(table) /\ tcp[c].state = "CLOSING" ~> c \notin Range(table) \/ app.pc = "fault"

(* What a client sends is read, or its connection ends: available() always  *)
(* looks at the slots in the same order, and a reply to one client that     *)
(* does not take it must not keep the others waiting for ever.              *)
EveryoneHeard ==
  \A c \in Conns :
    pcbs[c] = "open" /\ tcp[c].available > 0 ~>
      tcp[c].available = 0 \/ pcbs[c] # "open" \/ c \in strays \/ app.pc = "fault"

(* The structs of the connections, which two threads allocate and free: the *)
(* callbacks find them alive, nobody keeps a freed one, and none is lost.   *)
StructsSafe == TypeOK /\ CallbacksAlive /\ NoDanglingClient /\ NoOrphan

=============================================================================
