-------------------------------- MODULE Httpd --------------------------------
(***************************************************************************)
(* The connections of httpd: accepted, read request by request, answered   *)
(* and closed, with the options POST, manual window, keep-alive, dynamic   *)
(* headers, error pages and the killing of the oldest connection.  A step  *)
(* is one callback with all it calls.  How an answer is sent is in         *)
(* HttpdSend; here it is a number of pieces.                               *)
(*                                                                         *)
(* A request is a number of pieces too: opt.header of header, then its body.*)
(* A pbuf brings any number of them.  The peer asks the next when it has   *)
(* the answer to the last.  Of the chain of pbufs that a request waits in, *)
(* the code uses how many there are and how much they hold.                *)
(***************************************************************************)
EXTENDS Integers, Sequences, SequencesExt, FiniteSets, Functions

CONSTANTS
  Options,             (* builds, the files they serve, and bounds         *)
  MaxBody,             (* bound: Content-Length of a POST                  *)
  FileLen,             (* pieces of a file                                 *)
  QueueLen,            (* LWIP_HTTPD_REQ_QUEUELEN                          *)
  HTTPD_MAX_RETRIES

ASSUME HttpdAssumption ==
  /\ {MaxBody, FileLen, QueueLen, HTTPD_MAX_RETRIES} \subseteq Nat \ {0}
  /\ \A o \in Options :
       /\ {o.post, o.manual, o.keepalive, o.persistent, o.headers, o.kill, o.page404}
            \subseteq BOOLEAN
       /\ {o.conns, o.states, o.requests, o.header} \subseteq Nat \ {0}

VARIABLES
  opt,        (* the build                                                  *)
  hs,         (* struct http_state of each connection, and its pcb          *)
  list,       (* http_connections                                           *)
  app,        (* what the application was told of the connection's POST     *)
  peer        (* what the other end is sending                              *)

vars == <<opt, hs, list, app, peer>>

Conns == 1 .. opt.conns

NoReq == [clen |-> 0, tot_len |-> 0]
NoState == [mem |-> "none", pcb |-> "none", handle |-> FALSE, hdrs |-> 0, left |-> 0, req |-> NoReq,
            retries |-> 0, keepalive |-> FALSE, post_left |-> 0, no_auto_wnd |-> FALSE,
            unrecved |-> 0, post_finished |-> FALSE, unacked |-> FALSE, debt |-> 0]
NoApp == [begun |-> FALSE, finished |-> 0, got |-> 0, cut |-> FALSE]
NoPeer == [method |-> "GET", found |-> TRUE, body |-> 0, keep |-> FALSE, sent |-> 0, count |-> 0]

Methods == {"GET", "PUT"} \cup (IF opt.post THEN {"POST", "nolength"} ELSE {})
Length(p) == opt.header + (IF p.method = "POST" THEN p.body ELSE 0)

TypeOK ==
  /\ opt \in Options
  /\ hs \in [Conns -> [mem : {"none", "heap", "freed"}, pcb : {"none", "open", "closing", "over"},
                       handle : BOOLEAN, hdrs : 0 .. 1, left : 0 .. FileLen,
                       req : [clen : 0 .. QueueLen, tot_len : 0 .. opt.header + MaxBody],
                       retries : 0 .. HTTPD_MAX_RETRIES, keepalive : BOOLEAN,
                       post_left : 0 .. MaxBody, no_auto_wnd : BOOLEAN,
                       unrecved : 0 .. MaxBody, post_finished : BOOLEAN,
                       unacked : BOOLEAN, debt : -(opt.requests * MaxBody) .. MaxBody]]
  /\ list \in SeqOf(Conns, opt.conns)
  /\ app \in [Conns -> [begun : BOOLEAN, finished : 0 .. 2, got : 0 .. MaxBody, cut : BOOLEAN]]
  /\ peer \in [Conns -> [method : Methods, found : BOOLEAN, body : 0 .. MaxBody, keep : BOOLEAN,
                         sent : 0 .. opt.header + MaxBody, count : 0 .. opt.requests]]

Init ==
  /\ opt \in Options
  /\ hs = [c \in Conns |-> NoState]
  /\ list = <<>>
  /\ app = [c \in Conns |-> NoApp]
  /\ peer = [c \in Conns |-> NoPeer]

-----------------------------------------------------------------------------
(* What the callbacks are made of: functions of a world w, which is the    *)
(* variables but opt.                                                       *)
World == [hs |-> hs, list |-> list, app |-> app, peer |-> peer]
Becomes(w) == hs' = w.hs /\ list' = w.list /\ app' = w.app /\ peer' = w.peer /\ UNCHANGED opt
Put(w, c, s) == [w EXCEPT !.hs[c] = s]

AddConnection(w, c) == IF opt.kill THEN [w EXCEPT !.list = <<c>> \o @] ELSE w

RemoveConnection(w, c) == [w EXCEPT !.list = RemoveFirst(@, c)]

StateInit(s) ==
  [NoState EXCEPT !.mem = s.mem, !.pcb = s.pcb, !.unacked = s.unacked, !.debt = s.debt]

StateEof(s) == [s EXCEPT !.handle = FALSE, !.req = NoReq]

(* What is in a state that is freed does not matter, but for what it holds. *)
Freed(s) == [NoState EXCEPT !.mem = "freed", !.pcb = s.pcb, !.handle = s.handle, !.req = s.req]

StateFreeStaysListed(w, c) == [Put(w, c, Freed(StateEof(w.hs[c]))) EXCEPT !.peer[c] = NoPeer]

StateFree(w, c) ==
  RemoveConnection([Put(w, c, Freed(StateEof(w.hs[c]))) EXCEPT !.peer[c] = NoPeer], c)

(* httpd_post_finished().                                                   *)
PostFinished(w, c) == [w EXCEPT !.app[c].finished = IF @ < 2 THEN @ + 1 ELSE @]

CloseOrAbortTellsNobody(w, c, how) ==
  LET v == StateFree(w, c)
  IN [v EXCEPT !.hs[c].pcb = IF how = "fails" THEN "closing" ELSE "over"]

(* http_close_or_abort_conn(): an application in the middle of a POST is    *)
(* told first.  A close may fail: the pcb stays, without a state.           *)
CloseOrAbort(w, c, how) ==
  LET s == w.hs[c]
      v == StateFree(IF s.post_left # 0 \/ (s.no_auto_wnd /\ s.unrecved # 0)
                     THEN PostFinished(w, c) ELSE w, c)
  IN [v EXCEPT !.hs[c].pcb = IF how = "fails" THEN "closing" ELSE "over"]

(* http_eof(): a connection that is kept alive starts anew, as the youngest.*)
Eof(w, c, how) ==
  IF w.hs[c].keepalive
  THEN AddConnection(RemoveConnection(
         Put(w, c, [StateInit(StateEof(w.hs[c])) EXCEPT !.keepalive = TRUE]), c), c)
  ELSE CloseOrAbort(w, c, how)

-----------------------------------------------------------------------------
(* What to answer.                                                          *)
InitFile(s, file) ==
  [s EXCEPT !.handle = file, !.left = IF file THEN FileLen ELSE 0, !.retries = 0,
            !.hdrs = IF opt.headers THEN 1 ELSE 0,
            !.keepalive = @ /\ (file /\ ~opt.headers => opt.persistent)]

FindFile(s, found) == InitFile(s, found \/ opt.page404)

(* The choices a callback leaves to others: k pieces fit into the send      *)
(* buffer, a close succeeds or not, the application refuses a POST or data, *)
(* takes the window in its own hands, gives some of it back at once.        *)
Choice ==
  [k : 0 .. FileLen + 1, how : {"ok", "fails"}, good : BOOLEAN, manual : {FALSE, opt.manual},
   ack : 0 .. MaxBody]

SendChoice == [k : 0 .. FileLen + 1, how : {"ok", "fails"}]

(* http_get_content_length(): without a length, no keep-alive.              *)
ContentLength(s) ==
  IF s.hdrs > 0 THEN [s EXCEPT !.keepalive = @ /\ s.handle /\ opt.persistent] ELSE s

(* http_send().                                                             *)
Send(w, c, ch) ==
  LET s == ContentLength(w.hs[c])
      k == IF ch.k > s.hdrs THEN ch.k - s.hdrs ELSE 0         (* of the file *)
      left == IF k < s.left THEN s.left - k ELSE 0
      out == [s EXCEPT !.hdrs = IF ch.k > 0 THEN 0 ELSE @, !.left = left,
                       !.unacked = @ \/ (ch.k > 0 /\ (s.hdrs > 0 \/ s.left > 0))]
  IN IF s.unrecved # 0 THEN w
     ELSE IF out.hdrs = 0 /\ left = 0 THEN Eof(Put(w, c, out), c, ch.how) ELSE Put(w, c, out)

(* http_handle_post_finished(): what the application answers may be there   *)
(* or not.                                                                  *)
HandlePostFinished(w, c) ==
  LET s == w.hs[c]
      v == PostFinished(w, c)
  IN IF opt.manual /\ s.post_finished THEN w
     ELSE Put(v, c, [FindFile(s, v.peer[c].found) EXCEPT !.post_finished = opt.manual])

(* http_post_rxpbuf(): n pieces for the application, which may give their   *)
(* window back in its callback; it may also refuse them and the rest.       *)
PostRxpbuf(w, c, n, ch) ==
  LET s == w.hs[c]
      ack == IF s.no_auto_wnd /\ ch.ack <= n THEN ch.ack ELSE 0
      left == IF ch.good /\ n < s.post_left THEN s.post_left - n ELSE 0
      t == [s EXCEPT !.post_left = left, !.unrecved = @ - ack, !.debt = @ - ack]
      given == [w.app[c] EXCEPT !.got = @ + n, !.cut = @ \/ ~ch.good]
      v == [Put(w, c, t) EXCEPT !.app[c] = given]
  IN IF left = 0 /\ t.unrecved = 0 THEN HandlePostFinished(v, c) ELSE v

(* http_post_request(): the header is whole; some of the body may be behind *)
(* it in the same pbufs, and the window has been given back for that.       *)
PostRequest(w, c, ch) ==
  LET s == w.hs[c]
      body == s.req.tot_len - opt.header
      t == [s EXCEPT !.no_auto_wnd = ch.manual, !.post_left = w.peer[c].body,
                     !.unrecved = IF ch.manual THEN body ELSE @]
      v == [Put(w, c, t) EXCEPT !.app[c] = [NoApp EXCEPT !.begun = TRUE]]
  IN IF ~ch.good THEN Put(w, c, FindFile(s, w.peer[c].found))
     ELSE IF body > 0 \/ w.peer[c].body = 0 THEN PostRxpbuf(v, c, body, [ch EXCEPT !.good = TRUE])
     ELSE v

FindErrorFile(w, c) == IF opt.page404 THEN Put(w, c, InitFile(w.hs[c], TRUE)) ELSE w

ParsedKeepsRequest(w, c, bad, ch) ==
  IF bad /\ ~opt.page404 THEN CloseOrAbort(w, c, ch.how)
  ELSE IF w.hs[c].post_left = 0 THEN Send(w, c, ch) ELSE w

(* The end of http_recv() after http_parse_request().                       *)
Parsed(w, c, bad, ch) ==
  LET v == Put(w, c, [w.hs[c] EXCEPT !.req = NoReq]) IN
  IF bad /\ ~opt.page404 THEN CloseOrAbort(v, c, ch.how)
  ELSE IF v.hs[c].post_left = 0 THEN Send(v, c, ch) ELSE v

(* http_parse_request(): the pieces queue up until the header is whole.     *)
(* What does not start a request is no request.                             *)
ParseRequest(w, c, ch) ==
  LET s == w.hs[c]
      p == w.peer[c]
      whole == s.req.tot_len >= opt.header
      keep == Put(w, c, [s EXCEPT !.keepalive = opt.keepalive /\ p.keep])
  IN IF p.method = "PUT" \/ p.sent # s.req.tot_len THEN Parsed(FindErrorFile(w, c), c, TRUE, ch)
     ELSE IF ~whole /\ s.req.clen <= QueueLen THEN w
     ELSE IF ~whole THEN Parsed(FindErrorFile(w, c), c, TRUE, ch)
     ELSE IF p.method = "nolength" THEN Parsed(FindErrorFile(keep, c), c, TRUE, ch)
     ELSE IF p.method = "POST" THEN Parsed(PostRequest(keep, c, ch), c, FALSE, ch)
     ELSE Parsed(Put(keep, c, FindFile(keep.hs[c], p.found)), c, FALSE, ch)

-----------------------------------------------------------------------------
(* The callbacks.                                                           *)
InState(c) == hs[c].pcb = "open"

Full(w) == Cardinality({d \in Conns : w.hs[d].mem = "heap"}) >= opt.states

(* http_state_alloc(): when there is no state left, the oldest of two or    *)
(* more connections is killed for one.                                      *)
Alloc(w) == IF Full(w) /\ Len(w.list) > 1 THEN CloseOrAbort(w, Last(w.list), "abort") ELSE w

(* http_accept(): without a state lwIP aborts the pcb.                      *)
Accept(c) ==
  /\ hs[c].pcb = "none" /\ \A d \in Conns : d < c => hs[d].pcb # "none"
  /\ LET w == Alloc(World) IN
     Becomes(IF Full(w) THEN [w EXCEPT !.hs[c].pcb = "over"]
             ELSE AddConnection(Put(w, c, [NoState EXCEPT !.mem = "heap", !.pcb = "open"]), c))

(* The peer's next request.                                                 *)
Ask(c) ==
  /\ InState(c) /\ peer[c].count < opt.requests
  /\ peer[c].count = 0 \/ peer[c].sent >= Length(peer[c])
  /\ ~hs[c].handle /\ hs[c].hdrs = 0 /\ ~hs[c].unacked /\ hs[c].post_left + hs[c].unrecved = 0
  /\ \E m \in Methods, f \in {TRUE, opt.page404}, b \in 0 .. MaxBody, k \in {FALSE, opt.keepalive} :
       /\ m # "POST" => b = 0
       /\ peer' = [peer EXCEPT ![c] = [method |-> m, found |-> f, body |-> b, keep |-> k,
                                       sent |-> 0, count |-> @.count + 1]]
  /\ app' = [app EXCEPT ![c] = NoApp]
  /\ UNCHANGED <<opt, hs, list>>

RecvQueued(s, n) == [s EXCEPT !.req.clen = @ + 1, !.req.tot_len = @ + n]

(* http_recv(): what comes while an answer is on its way is thrown away.    *)
Recv(c) ==
  /\ InState(c) /\ peer[c].count > 0
  /\ \E n \in 1 .. opt.header + MaxBody, ch \in Choice :
       LET s == hs[c]
           t == IF s.no_auto_wnd THEN [s EXCEPT !.unrecved = @ + n, !.debt = @ + n] ELSE s
           w == [World EXCEPT !.peer[c].sent = @ + n]
           body == PostRxpbuf(Put(w, c, [t EXCEPT !.retries = 0]), c, n, ch)
       IN /\ w.peer[c].sent <= Length(peer[c])
          /\ Becomes(IF s.post_left > 0
                     THEN IF body.hs[c].post_left = 0 THEN Send(body, c, ch) ELSE body
                     ELSE IF ~s.handle THEN ParseRequest(Put(w, c, RecvQueued(t, n)), c, ch)
                     ELSE Put(w, c, t))

(* httpd_post_data_recved(), called by an application that has n pieces of  *)
(* its data left to give back.                                              *)
PostDataRecved(c) ==
  /\ InState(c) /\ hs[c].no_auto_wnd /\ app[c].finished = 0
  /\ \E n \in 1 .. hs[c].unrecved, ch \in SendChoice :
       LET v == Put(World, c, [hs[c] EXCEPT !.unrecved = @ - n, !.debt = @ - n]) IN
       Becomes(IF v.hs[c].post_left + v.hs[c].unrecved = 0
               THEN Send(HandlePostFinished(v, c), c, ch) ELSE v)

(* http_sent().                                                             *)
Sent(c) ==
  /\ hs[c].unacked /\ InState(c)
  /\ \E ch \in SendChoice :
       Becomes(Send(Put(World, c, [hs[c] EXCEPT !.unacked = FALSE, !.retries = 0]), c, ch))

PollTwice(c) ==
  /\ InState(c)
  /\ \E ch \in SendChoice :
       LET v == Put(World, c, [hs[c] EXCEPT !.retries = IF opt.keepalive THEN 1 ELSE @ + 1]) IN
       Becomes(IF v.hs[c].retries = HTTPD_MAX_RETRIES THEN CloseOrAbort(v, c, ch.how)
               ELSE IF hs[c].handle THEN Send(v, c, ch) ELSE v)

(* http_poll(): the timer of lwIP gives up a connection in the end.         *)
Poll(c) ==
  /\ InState(c)
  /\ \E ch \in SendChoice :
       LET v == Put(World, c, [hs[c] EXCEPT !.retries = @ + 1]) IN
       Becomes(IF v.hs[c].retries = HTTPD_MAX_RETRIES THEN CloseOrAbort(v, c, ch.how)
               ELSE IF hs[c].handle THEN Send(v, c, ch) ELSE v)

(* http_poll() of a pcb whose close had failed; a close that fails again    *)
(* changes nothing.                                                         *)
PollClosing(c) ==
  /\ hs[c].pcb = "closing"
  /\ Becomes([World EXCEPT !.hs[c].pcb = "over"])

(* http_recv() without data: the peer has closed.                           *)
Fin(c) ==
  /\ InState(c)
  /\ \E how \in {"ok", "fails"} : Becomes(CloseOrAbort(World, c, how))

(* http_err(): the peer's reset.  The application hears nothing of it.      *)
Err(c) ==
  /\ InState(c)
  /\ Becomes([StateFree(World, c) EXCEPT !.hs[c].pcb = "over", !.app[c].cut = TRUE])

Next ==
  \E c \in Conns : \/ Accept(c) \/ Ask(c) \/ Recv(c) \/ PostDataRecved(c) \/ Sent(c)
                   \/ Poll(c) \/ PollClosing(c) \/ Fin(c) \/ Err(c)

Spec == Init /\ [][Next]_vars

(* lwIP polls every pcb, and a close that failed for lack of memory         *)
(* succeeds in the end.  Nothing is asked of the peer.                      *)
FairSpec ==
  Spec /\ \A c \in UNION {1 .. o.conns : o \in Options} :
            WF_vars(c \in Conns /\ Poll(c)) /\ WF_vars(c \in Conns /\ PollClosing(c))

-----------------------------------------------------------------------------
(* The callbacks of an open pcb find a state on the heap and every state    *)
(* has its pcb; a state that is freed holds no file and no request; the     *)
(* list that the oldest connection is killed from holds the states there    *)
(* are, each once (a list with a loop has no oldest).                       *)
NoDangling ==
  /\ TypeOK
  /\ \A c \in Conns :
       /\ hs[c].mem = "heap" <=> hs[c].pcb = "open"
       /\ hs[c].mem = "freed" => ~hs[c].handle /\ hs[c].req = NoReq
  /\ opt.kill => /\ IsInjective(list)
                 /\ Range(list) = {c \in Conns : hs[c].mem = "heap"}

(* The window is given back for all that was received, except for what an   *)
(* application that took it in its own hands still owes.                    *)
WindowGivenBack ==
  \A c \in Conns : hs[c].mem = "heap" => hs[c].debt <= hs[c].unrecved

(* The connection is in step with its peer, over any number of requests: a  *)
(* request waits with all its pieces and no other's, and so many pieces are *)
(* left of a POST as the peer has not sent.  What the application had of a  *)
(* POST that it is told is finished is the whole of it; and its window is   *)
(* open.                                                                    *)
InStep ==
  /\ WindowGivenBack
  /\ \A c \in Conns :
       LET s == hs[c] p == peer[c] IN
       /\ s.req # NoReq => s.req.tot_len = p.sent
       /\ s.post_left > 0 => s.post_left + p.sent = Length(p)
       /\ s.mem = "heap" /\ app[c].finished = 1 /\ ~app[c].cut => app[c].got = p.body

(* An application that has begun a POST hears that it is finished exactly   *)
(* once, whether the data came, the peer closed, the time was up or the     *)
(* connection was killed for another: not yet as long as data or window is  *)
(* missing, at once when not.  Left out: a reset does not tell it, and one  *)
(* that refuses its data may be told twice.                                 *)
PostFinishedOnce ==
  \A c \in Conns :
    LET s == hs[c] IN
    app[c].begun /\ ~app[c].cut =>
      app[c].finished = IF s.mem = "heap" /\ (s.post_left > 0 \/ s.unrecved > 0) THEN 0 ELSE 1

(* Every connection ends, whatever the peer does.                           *)
ConnectionEnds ==
  \A c \in UNION {1 .. o.conns : o \in Options} :
    c \in Conns /\ hs[c].pcb = "open" ~> c \in Conns /\ hs[c].pcb = "over"

=============================================================================
