-------------------------------- MODULE Iperf --------------------------------
(***************************************************************************)
(* lwiperf: sessions that listen, receive or send, the list of them, and   *)
(* the two modes in which the receiver of a test sends one back (dual: at  *)
(* once, tradeoff: afterwards), on both sides.  A step is one callback of  *)
(* lwIP or one call of the sketch LwipIperf.                               *)
(*                                                                         *)
(* Session i has struct i and pcb i.  A peer sends blocks of Block bytes,  *)
(* each with the settings as its first Header bytes, after a first copy of *)
(* the settings, in pbufs of any size.                                     *)
(***************************************************************************)
EXTENDS Integers, Sequences, SequencesExt, Functions

CONSTANTS
  Modes,               (* of {"server", "client", "dual", "tradeoff"}      *)
  MaxSessions,         (* bound                                            *)
  Header,              (* sizeof(lwiperf_settings_t), 24                   *)
  Block,               (* 128 KiB                                          *)
  MaxStream,           (* bound: bytes that a peer sends                   *)
  MaxIdle              (* LWIPERF_TCP_MAX_IDLE_SEC                         *)

ASSUME IperfAssumption ==
  /\ Modes \subseteq {"server", "client", "dual", "tradeoff"}
  /\ {Header, Block, MaxStream, MaxIdle} \subseteq Nat \ {0}
  /\ MaxSessions \in Nat \ {0, 1}
  /\ Header < Block

VARIABLES
  mode,         (* what the sketch has asked for                            *)
  up,           (* the sketch's next call: "start", "listen" or none        *)
  ss,           (* lwiperf_state_tcp_t of each session, its pcb, its peer   *)
  connections   (* lwiperf_all_connections                                  *)

iperfVars == <<mode, up, ss, connections>>

Sessions == 1 .. MaxSessions
Flags == {"none", "test", "now"}       (* ANSWER_TEST, and ANSWER_NOW with it *)

NoSession ==
  [mem |-> "none", kind |-> "none", pcb |-> "none", master |-> 0, report |-> TRUE, reports |-> 0,
   poll_count |-> 0, bytes |-> 0, have |-> FALSE, flags |-> "none", specific |-> FALSE,
   tradeoff |-> FALSE, timeup |-> FALSE, unacked |-> FALSE, sent |-> 0, shifted |-> FALSE,
   short |-> FALSE, answers |-> 0, result |-> "none"]

Results == {"none", "done_server", "done_client", "local", "dataerror", "txerror", "remote"}

IperfTypeOK ==
  /\ mode \in Modes /\ up \in {"start", "listen", "none", "aborted"}
  /\ connections \in SeqOf(Sessions, MaxSessions)
  /\ ss \in [Sessions ->
       [mem : {"none", "heap", "freed"}, kind : {"none", "listener", "server", "client"},
        pcb : {"none", "connecting", "open", "closing", "over"}, master : {0} \cup Sessions,
        report : BOOLEAN, reports : 0 .. 1, poll_count : 0 .. MaxIdle - 1,
        bytes : 0 .. MaxStream + 2 * Header, have : BOOLEAN, flags : Flags, specific : BOOLEAN,
        tradeoff : BOOLEAN, timeup : BOOLEAN, unacked : BOOLEAN, sent : 0 .. MaxStream,
        shifted : BOOLEAN, short : BOOLEAN, answers : 0 .. 2, result : Results]]

IperfInit ==
  /\ mode \in Modes /\ up = "start"
  /\ ss = [i \in Sessions |-> NoSession]
  /\ connections = <<>>

-----------------------------------------------------------------------------
(* Functions of a world w, which is ss and list.                            *)
Now == [ss |-> ss, list |-> connections]
Then(w) == ss' = w.ss /\ connections' = w.list
PutSession(w, i, s) == [w EXCEPT !.ss[i] = s]
Unused == {i \in Sessions : ss[i].mem = "none" /\ \A j \in Sessions : j < i => ss[j].mem # "none"}

ListAdd(w, i) == [w EXCEPT !.list = <<i>> \o @]
ListRemove(w, i) == [w EXCEPT !.list = RemoveFirst(@, i)]
ListFind(w, i) == i \in Range(w.list)

(* lwip_tcp_conn_report().                                                  *)
Report(s, type) == IF s.report THEN [s EXCEPT !.reports = @ + 1, !.result = type] ELSE s

FreedSession(s) ==
  [NoSession EXCEPT !.mem = "freed", !.kind = s.kind, !.pcb = "over", !.master = s.master,
                    !.report = s.report, !.reports = s.reports, !.result = s.result,
                    !.answers = s.answers, !.flags = s.flags, !.specific = s.specific,
                    !.shifted = s.shifted, !.short = s.short]

CloseStaysListed(w, i, type) == PutSession(w, i, FreedSession(Report(w.ss[i], type)))

(* lwiperf_tcp_close(): a close that fails is followed by an abort.         *)
Close(w, i, type) == ListRemove(PutSession(w, i, FreedSession(Report(w.ss[i], type))), i)

(* lwiperf_tcp_client_send_more(): the headers one by one, then data as     *)
(* long as it fits (k writes), until the time is up.                        *)
SendMore(w, i, k) ==
  LET s == w.ss[i] IN
  IF s.timeup THEN Close(w, i, "done_client")
  ELSE IF k = 0 THEN w
  ELSE PutSession(w, i, [s EXCEPT !.unacked = TRUE,
                           !.bytes = IF @ = 0 THEN Header ELSE 2 * Header])

(* lwiperf_tx_start_impl() as session i, for master m.  Without memory      *)
(* nothing happens; a connect that fails at once is reported.               *)
TxStart(w, i, m, flags, how) ==
  LET s == [NoSession EXCEPT !.mem = "heap", !.kind = "client", !.pcb = "connecting",
                             !.master = m, !.flags = flags, !.have = TRUE]
  IN CASE how = "ok"   -> ListAdd(PutSession(w, i, s), i)
       [] how = "fail" -> Close(PutSession(w, i, s), i, "local")
       [] how = "mem"  -> w

(* lwiperf_tx_start_passive(): the test that is sent back asks for none.    *)
Passive(w, i, how) ==
  LET v == [w EXCEPT !.ss[i].answers = @ + 1]
  IN [err |-> how # "ok" \/ Unused = {},
      w |-> IF Unused = {} THEN v
            ELSE TxStart(v, CHOOSE j \in Unused : TRUE, v.ss[i].master, "none", how)]

Hows == {"ok", "fail", "mem"}

-----------------------------------------------------------------------------
(* What the sketch calls.                                                   *)

(* lwiperf_start_tcp_server_default(); without memory, or without the port, *)
(* there is no server.                                                      *)
StartServer ==
  /\ up = "start" /\ mode = "server" /\ up' = "none" /\ UNCHANGED mode
  /\ \/ Then(ListAdd(PutSession(Now, 1, [NoSession EXCEPT !.mem = "heap", !.kind = "listener",
                                                        !.pcb = "open"]), 1))
     \/ UNCHANGED <<ss, connections>>

(* lwiperf_start_tcp_client(), its first half.                              *)
StartClient ==
  /\ up = "start" /\ mode # "server" /\ UNCHANGED mode
  /\ \E how \in Hows :
       /\ Then(TxStart(Now, 1, 0, CASE mode = "client" -> "none" [] mode = "dual" -> "now"
                                         [] mode = "tradeoff" -> "test", how))
       /\ up' = IF how = "ok" /\ mode # "client" THEN "listen" ELSE "none"

(* lwiperf_abort() of the client that is on its own: its struct is freed,   *)
(* and both the list and the callbacks of its pcb still lead to it.         *)
Abort(w) == PutSession(w, 1, [w.ss[1] EXCEPT !.mem = "freed"])

(* Its second half, under the same lock: a listener for the test that is    *)
(* sent back.                                                               *)
StartListener ==
  /\ up = "listen" /\ UNCHANGED mode
  /\ \/ /\ Then(ListAdd(PutSession(Now, 2, [NoSession EXCEPT !.mem = "heap", !.kind = "listener",
             !.pcb = "open", !.master = 1, !.specific = TRUE, !.tradeoff = mode = "tradeoff"]), 2))
        /\ up' = "none"
     \/ Then(Abort(Now)) /\ up' = "aborted"

-----------------------------------------------------------------------------
(* The callbacks.                                                           *)
Ready(i) == up = "none" /\ ss[i].mem = "heap" /\ UNCHANGED <<mode, up>>
Connected(i) == Ready(i) /\ ss[i].pcb \in {"open", "closing"} /\ ss[i].kind # "listener"

ListenerStays(w, l) == w

(* The listener of a client has served its purpose with one connection, in  *)
(* tradeoff mode when the client is done.                                   *)
ListenerServed(w, l) ==
  LET s == w.ss[l] IN
  IF s.specific /\ (~s.tradeoff \/ ~ListFind(w, s.master))
  THEN Close([w EXCEPT !.ss[l].report = FALSE], l, "local") ELSE w

(* lwiperf_tcp_accept(); a peer that the listener is not for, or one        *)
(* without memory for it, is refused.                                       *)
TcpAccept(l) ==
  /\ Ready(l) /\ ss[l].kind = "listener"
  /\ \E i \in Unused :
       LET c == [NoSession EXCEPT !.mem = "heap", !.kind = "server", !.pcb = "open",
                                  !.master = IF ss[l].specific THEN ss[l].master ELSE l]
       IN Then(ListAdd(ListenerServed(PutSession(Now, i, c), l), i))

(* lwiperf_tcp_client_connected(), which lwIP calls only when all is well.  *)
ClientConnected(i) ==
  /\ Ready(i) /\ ss[i].pcb = "connecting"
  /\ \E k \in 0 .. 1 :
       Then(SendMore(PutSession(Now, i, [ss[i] EXCEPT !.pcb = "open", !.poll_count = 0]), i, k))

(* The clock: the ten seconds of a client are over.                         *)
TimeUp(i) ==
  /\ Ready(i) /\ ss[i].kind = "client" /\ ~ss[i].timeup
  /\ Then([Now EXCEPT !.ss[i].timeup = TRUE])

(* lwiperf_tcp_client_sent().                                               *)
ClientSent(i) ==
  /\ Connected(i) /\ ss[i].unacked
  /\ \E k \in 0 .. 1 :
       Then(SendMore(PutSession(Now, i, [ss[i] EXCEPT !.unacked = FALSE, !.poll_count = 0]), i, k))

PollCountsTime(i) ==
  /\ Ready(i) /\ ss[i].kind # "listener" /\ ss[i].pcb # "none"
  /\ \E k \in 0 .. 1 :
       LET w == [Now EXCEPT !.ss[i].poll_count = IF ss[i].kind = "server" THEN 0 ELSE @ + 1] IN
       Then(IF w.ss[i].poll_count >= MaxIdle THEN Close(w, i, "local")
               ELSE IF ss[i].kind = "client" THEN SendMore(w, i, k) ELSE w)

(* lwiperf_tcp_poll().                                                      *)
TcpPoll(i) ==
  /\ Ready(i) /\ ss[i].kind # "listener" /\ ss[i].pcb # "none"
  /\ \E k \in 0 .. 1 :
       LET w == [Now EXCEPT !.ss[i].poll_count = @ + 1] IN
       Then(IF w.ss[i].poll_count >= MaxIdle THEN Close(w, i, "local")
               ELSE IF ss[i].kind = "client" THEN SendMore(w, i, k) ELSE w)

(* lwiperf_tcp_err(): a connection is refused or reset.                     *)
TcpErr(i) ==
  /\ Ready(i) /\ ss[i].kind # "listener" /\ ss[i].pcb # "none"
  /\ Then(Close(Now, i, "remote"))

(* The receiver of a client's data closes.  A client has no tcp_recv        *)
(* callback: lwIP closes its pcb, which it gets no more callbacks of when   *)
(* the peer has acknowledged that.                                          *)
ClientFin(i) ==
  /\ Ready(i) /\ ss[i].kind = "client" /\ ss[i].pcb = "open"
  /\ Then([Now EXCEPT !.ss[i].pcb = "closing"])

ClientGone(i) ==
  /\ Ready(i) /\ ss[i].pcb = "closing" /\ ~ss[i].unacked
  /\ Then([Now EXCEPT !.ss[i].pcb = "none"])

(* lwiperf_tcp_recv() of n bytes: the settings at the start of each block   *)
(* are read, or compared when a test is asked for; what comes behind the    *)
(* very first settings in the same pbuf is thrown away.                     *)
SettingsUnshifted(s) == ~s.have \/ s.bytes % Block = 0

Settings(s) == ~s.have \/ (s.bytes - Header) % Block = 0

HeaderAt(pos) == pos = 0 \/ (pos - Header) % Block = 0

Count(s, n) == [s EXCEPT !.bytes = IF @ = 0 THEN Header ELSE @ + n]

(* What the peer asks for, when its first settings are read.                *)
RecvSettings(w, i, n, flags, how) ==
  LET s == [w.ss[i] EXCEPT !.have = TRUE, !.flags = flags]
      p == Passive(PutSession(w, i, s), i, how)
  IN IF flags = "now" /\ p.err THEN Close(p.w, i, "txerror")
     ELSE IF flags = "now" THEN PutSession(p.w, i, Count(p.w.ss[i], n))
     ELSE PutSession(w, i, Count(s, n))

TcpRecv(i) ==
  /\ Connected(i) /\ ss[i].kind = "server"
  /\ \E n \in 1 .. MaxStream - ss[i].sent, flags \in Flags, how \in Hows :
       LET s == [ss[i] EXCEPT !.poll_count = 0, !.sent = @ + n,
                              !.shifted = @ \/ (ss[i].sent = 0 /\ n > Header),
                              !.short = Settings(ss[i]) /\ n < Header]
           w == PutSession(Now, i, s)
       IN Then(
            IF s.short THEN Close(w, i, "dataerror")
            ELSE IF ~s.have THEN RecvSettings(w, i, n, flags, how)
            ELSE IF Settings(s) /\ s.flags # "none" /\ ~HeaderAt(ss[i].sent)
            THEN Close(w, i, "dataerror")
            ELSE PutSession(w, i, Count(s, n)))

(* lwiperf_tcp_recv() without data: the test is over.                       *)
RecvFin(i) ==
  /\ Connected(i) /\ ss[i].kind = "server"
  /\ \E how \in Hows :
       Then(Close(IF ss[i].flags = "test" THEN Passive(Now, i, how).w ELSE Now,
                     i, "done_server"))

IperfNext ==
  \/ StartServer \/ StartClient \/ StartListener
  \/ \E i \in Sessions :
       \/ TcpAccept(i) \/ ClientConnected(i) \/ TimeUp(i) \/ ClientSent(i) \/ TcpPoll(i)
       \/ TcpErr(i) \/ ClientFin(i) \/ ClientGone(i) \/ TcpRecv(i) \/ RecvFin(i)

IperfSpec == IperfInit /\ [][IperfNext]_iperfVars

(* The sketch goes on, lwIP polls every connection, and time passes.        *)
FairIperfSpec ==
  IperfSpec /\ WF_iperfVars(StartListener)
       /\ \A i \in Sessions : WF_iperfVars(TcpPoll(i)) /\ WF_iperfVars(TimeUp(i))

-----------------------------------------------------------------------------
(* The callbacks of a pcb find a session on the heap and the list holds the *)
(* sessions there are, each once.  Left out: lwiperf_abort.                 *)
NoDanglingSession ==
  up # "aborted" =>
    /\ IsInjective(connections)
    /\ Range(connections) = {i \in Sessions : ss[i].mem = "heap"}
    /\ \A i \in Sessions : ss[i].pcb \in {"connecting", "open", "closing"} => ss[i].mem = "heap"

(* A test ends with one report, whoever ends it; the listener of a client   *)
(* goes without one.                                                        *)
ReportedOnce ==
  up # "aborted" =>
    \A i \in Sessions :
      ss[i].reports = IF ss[i].mem = "freed" /\ ss[i].kind # "listener" THEN 1 ELSE 0

(* A test that asks for one in return gets it once, at its start or at its  *)
(* end (if it comes to that), and that one asks for none: two servers do    *)
(* not go on for ever.                                                      *)
AnsweredOnce ==
  \A i \in Sessions :
    LET s == ss[i] IN
    /\ s.kind = "server" =>
         s.answers = IF s.flags = "now" \/ (s.flags = "test" /\ s.result = "done_server")
                     THEN 1 ELSE 0
    /\ s.kind = "client" /\ s.master # 0 => s.flags = "none"

(* The bookkeeping of the sessions: no callback, report or test in return   *)
(* is lost or comes twice.                                                  *)
SessionsSound == IperfTypeOK /\ NoDanglingSession /\ ReportedOnce /\ AnsweredOnce

(* A peer is not accused of bad data unless a pbuf cut its settings in two  *)
(* or the first one had more than the settings in it: without that, the     *)
(* bytes that are counted are the bytes that it sent, over all blocks.      *)
SessionsInStep ==
  \A i \in Sessions :
    LET s == ss[i] IN
    s.kind = "server" /\ ~s.shifted =>
      /\ s.mem = "heap" => s.bytes = s.sent
      /\ s.result = "dataerror" => s.short

(* The listener of a client is gone after the connection it waited for, in  *)
(* dual mode, and in tradeoff mode when the client was done by then.        *)
OneAnswerOnly ==
  [][\A l \in Sessions :
       TcpAccept(l) /\ ss[l].specific /\ (mode = "dual" \/ ss[1].mem # "heap")
         => ss'[l].mem = "freed"]_iperfVars

(* Every test ends, whatever the peer does, unless lwIP has closed its pcb  *)
(* without a callback.                                                      *)
TestEnds ==
  \A i \in Sessions :
    ss[i].mem = "heap" /\ ss[i].kind \in {"server", "client"} ~>
      ss[i].mem = "freed" \/ ss[i].pcb = "none" \/ up = "aborted"

=============================================================================
