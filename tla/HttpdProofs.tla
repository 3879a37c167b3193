----------------------------- MODULE HttpdProofs -----------------------------
(***************************************************************************)
(* Proofs about the connections of httpd, in every build and for any       *)
(* number of connections, requests and pieces: states and pcbs die         *)
(* together, a connection stays in step with its peer, and an application  *)
(* hears once that its POST is finished; and, in the second half, about    *)
(* the sessions of iperf, any number of them and streams of any length.    *)
(* The two share no variable; the lemmas on lists serve both.              *)
(***************************************************************************)
EXTENDS Httpd, Iperf, SequenceTheorems, FiniteSetTheorems, TLAPS

(* What the variables are made of.                                          *)
State == [mem : {"none", "heap", "freed"}, pcb : {"none", "open", "closing", "over"},
          handle : BOOLEAN, hdrs : Nat, left : Nat, req : [clen : Nat, tot_len : Nat],
          retries : Nat, keepalive : BOOLEAN, post_left : Nat, no_auto_wnd : BOOLEAN,
          unrecved : Nat, post_finished : BOOLEAN, unacked : BOOLEAN, debt : Int]
App == [begun : BOOLEAN, finished : 0 .. 2, got : Nat, cut : BOOLEAN]
Peer == [method : {"GET", "PUT", "POST", "nolength"}, found : BOOLEAN, body : Nat, keep : BOOLEAN,
         sent : Nat, count : Nat]
Worlds == [hs : [Conns -> State], list : Seq(Conns), app : [Conns -> App], peer : [Conns -> Peer]]

(* The peer sends one request at a time and no more than it has.            *)
PeerOK(p) ==
  /\ p.method \in Methods /\ p.body <= MaxBody /\ (p.method # "POST" => p.body = 0)
  /\ p.sent <= Length(p)
  /\ p.count <= opt.requests /\ (p.count = 0 => p.sent = 0)

(* No answer is on its way, no data of a POST is expected or held, and the  *)
(* peer has acknowledged all.                                               *)
Quiet(s) == ~s.handle /\ s.hdrs = 0 /\ s.post_left = 0 /\ s.unrecved = 0 /\ ~s.unacked

Bounded(s) ==
  /\ s.retries < HTTPD_MAX_RETRIES /\ s.hdrs <= 1 /\ s.left <= FileLen /\ s.req.clen <= QueueLen
  /\ ~s.handle => s.left = 0

(* A request waits from its first piece to the end of its header, and       *)
(* nothing else happens meanwhile; before its first piece neither.          *)
WaitOK(s, a, p) ==
  /\ s.req # NoReq =>
       s.req.tot_len = p.sent /\ 0 < p.sent /\ p.sent < opt.header /\ Quiet(s) /\ ~a.begun
  /\ p.sent = 0 => Quiet(s) /\ s.req = NoReq

(* A POST that still expects data is in step with the peer.                 *)
PostingOK(s, a, p) ==
  s.post_left > 0 =>
    /\ a.begun /\ ~a.cut /\ ~s.handle /\ s.hdrs = 0 /\ ~s.unacked
    /\ s.post_left + p.sent = Length(p)

(* Only a POST has a manual window; between two requests none is left over. *)
ManualOK(s, a, p) ==
  IF s.no_auto_wnd THEN a.begun /\ opt.manual /\ opt.header + s.unrecved <= p.sent
  ELSE s.unrecved = 0

FreshOK(s) ==
  ~s.handle /\ s.hdrs = 0 /\ s.post_left = 0 /\ s.unrecved = 0 =>
    ~s.no_auto_wnd /\ ~s.post_finished

(* What the application has been told.                                      *)
ToldOK(s, a, p) ==
  /\ IF a.begun
     THEN /\ p.method = "POST" /\ opt.header + a.got <= p.sent
          /\ ~a.cut => /\ opt.header + a.got = p.sent
                       /\ s.post_left = 0 => p.sent = Length(p)
                       /\ a.finished = IF s.post_left > 0 \/ s.unrecved > 0 THEN 0 ELSE 1
     ELSE a.finished = 0 /\ a.got = 0
  /\ s.post_finished => a.finished > 0

(* Each POST closes the window by its length at most.                       *)
Room(a, p) == (IF a.begun \/ p.count = 0 THEN p.count ELSE p.count - 1) * MaxBody
WindowOK(s, a, p) == s.debt <= s.unrecved /\ s.unrecved <= s.debt + Room(a, p)

(* At the end of a callback FreshOK holds too; http_send() sees to that.    *)
ReadyOK(s, a, p) ==
  /\ s.mem = "heap" /\ s.pcb = "open"
  /\ PeerOK(p) /\ Bounded(s) /\ WaitOK(s, a, p) /\ PostingOK(s, a, p) /\ ManualOK(s, a, p)
  /\ ToldOK(s, a, p) /\ WindowOK(s, a, p)

Empty(s) ==
  /\ ~s.handle /\ s.hdrs = 0 /\ s.left = 0 /\ s.req = NoReq /\ s.retries = 0 /\ ~s.keepalive
  /\ s.post_left = 0 /\ ~s.no_auto_wnd /\ s.unrecved = 0 /\ ~s.post_finished

(* Without a state there is nothing, and a POST that had begun has been     *)
(* finished, unless it was cut short.                                       *)
GoneOK(s, a, p) ==
  /\ s.mem # "heap" /\ s.pcb # "open" /\ PeerOK(p)
  /\ Empty(s) /\ ~s.unacked /\ s.debt = 0
  /\ s.pcb = "none" => s.mem = "none" /\ a = NoApp /\ p = NoPeer
  /\ a.begun /\ ~a.cut => a.finished = 1
  /\ a.got <= MaxBody

ConnOK(s, a, p) ==
  IF s.mem = "heap" THEN ReadyOK(s, a, p) /\ FreshOK(s) ELSE GoneOK(s, a, p)

(* The list has the connections with a state, each once.                    *)
ListOK(w) ==
  IF opt.kill
  THEN IsInjective(w.list) /\ Range(w.list) = {d \in Conns : w.hs[d].mem = "heap"}
  ELSE w.list = <<>>

(* While a callback of c runs: everything is right but c, which is s, a, p. *)
At(w, c, s, a, p) ==
  /\ w \in Worlds /\ ListOK(w)
  /\ \A d \in Conns \ {c} : ConnOK(w.hs[d], w.app[d], w.peer[d])
  /\ w.hs[c] = s /\ w.app[c] = a /\ w.peer[c] = p

WorldOK(w) ==
  /\ w \in Worlds /\ ListOK(w)
  /\ \A d \in Conns : ConnOK(w.hs[d], w.app[d], w.peer[d])

HttpdInv == opt \in Options /\ WorldOK(World)

-----------------------------------------------------------------------------
LEMMA Builds ==
  ASSUME opt \in Options
  PROVE  /\ {opt.post, opt.manual, opt.keepalive, opt.persistent, opt.headers, opt.kill, opt.page404}
              \subseteq BOOLEAN
         /\ {opt.conns, opt.states, opt.requests, opt.header} \subseteq Nat \ {0}
         /\ {MaxBody, FileLen, QueueLen, HTTPD_MAX_RETRIES} \subseteq Nat \ {0}
  BY HttpdAssumption

LEMMA MemInRange ==
  ASSUME NEW S, NEW q \in Seq(S)
  PROVE  /\ \A x \in Range(q) : x \in S /\ \E i \in 1 .. Len(q) : q[i] = x
         /\ \A i \in 1 .. Len(q) : q[i] \in Range(q)
  BY DEF Range

(* RemoveFirst, of which the library gives the definition only: a list that *)
(* has everything once loses one element.                                   *)
LEMMA RemoveFirstIs ==
  ASSUME NEW S, NEW q \in Seq(S), IsInjective(q), NEW i \in 1 .. Len(q)
  PROVE  RemoveFirst(q, q[i]) = SubSeq(q, 1, i - 1) \o SubSeq(q, i + 1, Len(q))
<1>1. \A j \in 1 .. Len(q) : q[j] = q[i] => j = i
  BY DEF IsInjective
<1>2. DOMAIN q = 1 .. Len(q)
  OBVIOUS
<1>3. {j \in 1 .. Len(q) : q[j] = q[i]} = {i}
  BY <1>1
<1>4. SelectInSeq(q, LAMBDA v : v = q[i]) = i
  <2>1. i \in {i} /\ \A y \in {i} : i <= y
    OBVIOUS
  <2>2. Min({i}) = i
    BY <2>1 DEF Min
  <2> QED
    BY <1>2, <1>3, <2>2 DEF SelectInSeq
<1> QED
  BY <1>2, <1>4 DEF RemoveFirst, RemoveAt

LEMMA Concat ==
  ASSUME NEW S, NEW a \in Seq(S), NEW b \in Seq(S)
  PROVE  /\ a \o b \in Seq(S) /\ Len(a) \in Nat /\ Len(b) \in Nat
         /\ Len(a \o b) = Len(a) + Len(b)
         /\ \A j \in 1 .. Len(a) + Len(b) :
              (a \o b)[j] = IF j <= Len(a) THEN a[j] ELSE b[j - Len(a)]
  BY ConcatProperties, LenProperties

LEMMA Joined ==
  ASSUME NEW S, NEW q \in Seq(S), NEW i \in 1 .. Len(q),
         NEW r, r = SubSeq(q, 1, i - 1) \o SubSeq(q, i + 1, Len(q))
  PROVE  /\ r \in Seq(S) /\ Len(r) = Len(q) - 1
         /\ \A j \in 1 .. Len(q) - 1 : r[j] = IF j < i THEN q[j] ELSE q[j + 1]
<1> DEFINE a == SubSeq(q, 1, i - 1)
           b == SubSeq(q, i + 1, Len(q))
<1>1. Len(q) \in Nat /\ i \in Int /\ 1 <= i /\ i <= Len(q)
  OBVIOUS
<1>2. /\ a \in Seq(S) /\ Len(a) = i - 1
      /\ \A j \in 1 .. i - 1 : a[j] = q[j]
  BY <1>1, SubSeqProperties
<1>3. /\ b \in Seq(S) /\ Len(b) = Len(q) - i
      /\ \A j \in 1 .. Len(q) - i : b[j] = q[j + i]
  <2>1. i + 1 \in Int /\ Len(q) \in Int /\ \A j \in i + 1 .. Len(q) : q[j] \in S
    BY <1>1
  <2>2. /\ b \in Seq(S)
        /\ Len(b) = IF i + 1 <= Len(q) THEN Len(q) - (i + 1) + 1 ELSE 0
        /\ \A j \in 1 .. Len(q) - (i + 1) + 1 : b[j] = q[(i + 1) + j - 1]
    BY <2>1, SubSeqProperties
  <2> HIDE DEF b
  <2>3. Len(b) = Len(q) - i /\ Len(q) - (i + 1) + 1 = Len(q) - i
    BY <1>1, <2>2
  <2>4. \A j \in 1 .. Len(q) - i : (i + 1) + j - 1 = j + i
    BY <1>1
  <2> QED
    BY <2>2, <2>3, <2>4
<1> HIDE DEF a, b
<1>4. r = a \o b
  BY DEF a, b
<1>5. /\ r \in Seq(S) /\ Len(r) = Len(a) + Len(b)
      /\ \A j \in 1 .. Len(a) + Len(b) : r[j] = IF j <= Len(a) THEN a[j] ELSE b[j - Len(a)]
  <2>1. a \in Seq(S) /\ b \in Seq(S)
    BY <1>2, <1>3
  <2> QED
    BY <1>4, <2>1, Concat, Zenon
<1>6. ASSUME NEW j \in 1 .. Len(q) - 1 PROVE r[j] = IF j < i THEN q[j] ELSE q[j + 1]
  <2>1. CASE j < i
    <3>1. j \in 1 .. i - 1 /\ j <= i - 1 /\ j \in 1 .. (i - 1) + (Len(q) - i)
      BY <1>1, <2>1
    <3>2. r[j] = a[j]
      BY <1>2, <1>3, <1>5, <3>1
    <3> QED
      BY <1>2, <2>1, <3>1, <3>2
  <2>2. CASE ~(j < i)
    <3>1. j - (i - 1) \in 1 .. Len(q) - i /\ ~(j <= i - 1) /\ j \in 1 .. (i - 1) + (Len(q) - i)
      BY <1>1, <2>2
    <3>2. r[j] = b[j - (i - 1)]
      BY <1>2, <1>3, <1>5, <3>1
    <3>3. b[j - (i - 1)] = q[(j - (i - 1)) + i] /\ (j - (i - 1)) + i = j + 1
      BY <1>1, <1>3, <3>1
    <3> QED
      BY <2>2, <3>2, <3>3
  <2> QED
    BY <2>1, <2>2
<1>7. Len(r) = Len(q) - 1
  <2>1. Len(r) = (i - 1) + (Len(q) - i)
    BY <1>2, <1>3, <1>5, Zenon
  <2>2. (i - 1) + (Len(q) - i) = Len(q) - 1
    BY <1>1
  <2> QED
    BY <2>1, <2>2, Zenon
<1> QED
  BY <1>5, <1>6, <1>7, Zenon

LEMMA RemoveFirstKeeps ==
  ASSUME NEW S, NEW q \in Seq(S), IsInjective(q), NEW x
  PROVE  /\ RemoveFirst(q, x) \in Seq(S) /\ IsInjective(RemoveFirst(q, x))
         /\ Range(RemoveFirst(q, x)) = Range(q) \ {x}
<1>1. CASE \A i \in 1 .. Len(q) : q[i] # x
  <2>1. RemoveFirst(q, x) = q
    BY <1>1 DEF RemoveFirst
  <2>2. x \notin Range(q)
    BY <1>1, MemInRange
  <2> QED
    BY <2>1, <2>2
<1>2. CASE \E i \in 1 .. Len(q) : q[i] = x
  <2>1. PICK i \in 1 .. Len(q) : q[i] = x
    BY <1>2
  <2> DEFINE r == RemoveFirst(q, x)
  <2>2. r = SubSeq(q, 1, i - 1) \o SubSeq(q, i + 1, Len(q))
    BY <2>1, RemoveFirstIs
  <2>3. Len(q) \in Nat /\ i \in Int /\ 1 <= i /\ i <= Len(q)
    OBVIOUS
  <2>4. /\ r \in Seq(S) /\ Len(r) = Len(q) - 1
        /\ \A j \in 1 .. Len(q) - 1 : r[j] = IF j < i THEN q[j] ELSE q[j + 1]
    BY <2>2, Joined
  <2> HIDE DEF r
  <2>5. \A k, l \in 1 .. Len(q) : q[k] = q[l] => k = l
    BY DEF IsInjective
  <2>6. \A k, l \in 1 .. Len(r) : r[k] = r[l] => k = l
    <3> SUFFICES ASSUME NEW k \in 1 .. Len(r), NEW l \in 1 .. Len(r), r[k] = r[l]
                 PROVE  k = l
      OBVIOUS
    <3>1. /\ k \in Int /\ l \in Int /\ 1 <= k /\ k <= Len(q) - 1 /\ 1 <= l /\ l <= Len(q) - 1
      BY <2>3, <2>4
    <3> DEFINE k1 == IF k < i THEN k ELSE k + 1
               l1 == IF l < i THEN l ELSE l + 1
    <3>2. q[k1] = q[l1] /\ k1 \in 1 .. Len(q) /\ l1 \in 1 .. Len(q)
      BY <2>3, <2>4, <3>1
    <3>3. k1 = l1
      BY <2>5, <3>2
    <3> QED
      BY <2>3, <3>1, <3>3
  <2>7. IsInjective(r)
    BY <2>4, <2>6 DEF IsInjective
  <2>8. ASSUME NEW y \in Range(r) PROVE y \in Range(q) /\ y # x
    <3>1. PICK j \in 1 .. Len(r) : r[j] = y
      BY <2>4, <2>8, MemInRange
    <3> DEFINE j1 == IF j < i THEN j ELSE j + 1
    <3>2. q[j1] = y /\ j1 \in 1 .. Len(q) /\ j1 # i
      BY <2>3, <2>4, <3>1
    <3> QED
      BY <2>1, <2>5, <3>2, MemInRange
  <2>9. ASSUME NEW y \in Range(q), y # x PROVE y \in Range(r)
    <3>1. PICK j \in 1 .. Len(q) : q[j] = y
      BY <2>9, MemInRange
    <3> DEFINE j1 == IF j < i THEN j ELSE j - 1
    <3>2. r[j1] = y /\ j1 \in 1 .. Len(r)
      BY <2>1, <2>3, <2>4, <2>9, <3>1
    <3> QED
      BY <2>4, <3>2, MemInRange
  <2> QED
    BY <2>4, <2>7, <2>8, <2>9 DEF r
<1> QED
  BY <1>1, <1>2

LEMMA PrependKeeps ==
  ASSUME NEW S, NEW q \in Seq(S), IsInjective(q), NEW x \in S, x \notin Range(q)
  PROVE  /\ <<x>> \o q \in Seq(S) /\ IsInjective(<<x>> \o q)
         /\ Range(<<x>> \o q) = Range(q) \cup {x}
<1> DEFINE r == <<x>> \o q
<1>1. /\ r \in Seq(S) /\ Len(r) = Len(q) + 1 /\ Len(q) \in Nat
      /\ r[1] = x /\ \A j \in 1 .. Len(q) : r[j + 1] = q[j]
  <2> DEFINE a == <<x>>
  <2>1. a \in Seq(S) /\ Len(a) = 1 /\ a[1] = x /\ Len(q) \in Nat
    OBVIOUS
  <2> HIDE DEF a
  <2>2. /\ a \o q \in Seq(S) /\ Len(a \o q) = 1 + Len(q)
        /\ \A j \in 1 .. 1 + Len(q) : (a \o q)[j] = IF j <= 1 THEN a[j] ELSE q[j - 1]
    <3>1. /\ a \o q \in Seq(S) /\ Len(a \o q) = Len(a) + Len(q)
          /\ \A j \in 1 .. Len(a) + Len(q) :
               (a \o q)[j] = IF j <= Len(a) THEN a[j] ELSE q[j - Len(a)]
      BY <2>1, Concat, Zenon
    <3> QED
      BY <2>1, <3>1, Zenon
  <2>3. r = a \o q
    BY DEF a
  <2> HIDE DEF r
  <2>4. \A j \in 1 .. Len(q) : j + 1 \in 1 .. 1 + Len(q) /\ ~(j + 1 <= 1) /\ (j + 1) - 1 = j
    BY <2>1
  <2> QED
    BY <2>1, <2>2, <2>3, <2>4
<1> HIDE DEF r
<1>2. \A k, l \in 1 .. Len(q) : q[k] = q[l] => k = l
  BY DEF IsInjective
<1>3. \A k \in 2 .. Len(r) : k - 1 \in 1 .. Len(q) /\ r[k] = q[k - 1]
  BY <1>1
<1>4. \A k \in 2 .. Len(r) : r[k] # x
  BY <1>1, <1>3, MemInRange
<1>5. \A k, l \in 1 .. Len(r) : r[k] = r[l] => k = l
  BY <1>1, <1>2, <1>3, <1>4
<1>6. IsInjective(r)
  BY <1>1, <1>5 DEF IsInjective
<1>7. ASSUME NEW y \in Range(r) PROVE y \in Range(q) \cup {x}
  <2>1. PICK j \in 1 .. Len(r) : r[j] = y
    BY <1>1, <1>7, MemInRange
  <2>2. CASE j = 1
    BY <1>1, <2>1, <2>2
  <2>3. CASE j # 1
    <3>1. j \in 2 .. Len(r)
      BY <1>1, <2>3
    <3>2. j - 1 \in 1 .. Len(q) /\ q[j - 1] = y
      BY <1>3, <2>1, <3>1
    <3> QED
      BY <3>2, MemInRange
  <2> QED
    BY <2>2, <2>3
<1>8. ASSUME NEW y \in Range(q) \cup {x} PROVE y \in Range(r)
  <2>1. CASE y = x
    BY <1>1, <2>1, MemInRange
  <2>2. CASE y \in Range(q)
    <3>1. PICK j \in 1 .. Len(q) : q[j] = y
      BY <2>2, MemInRange
    <3>2. r[j + 1] = y /\ j + 1 \in 1 .. Len(r)
      BY <1>1, <3>1
    <3> QED
      BY <1>1, <3>2, MemInRange
  <2> QED
    BY <1>8, <2>1, <2>2
<1> QED
  BY <1>1, <1>6, <1>7, <1>8 DEF r

-----------------------------------------------------------------------------
(* The functions of a world: what they make of the connection they are      *)
(* called for, and that they leave the others alone.                        *)

LEMMA AtTypes ==
  ASSUME NEW w, NEW c \in Conns, NEW s, NEW a, NEW p, At(w, c, s, a, p)
  PROVE  /\ s \in State /\ a \in App /\ p \in Peer
         /\ w.hs[c] = s /\ w.app[c] = a /\ w.peer[c] = p
  BY DEF At, Worlds

(* A new state, new news and a new request for c.                           *)
LEMMA ChangeAt ==
  ASSUME NEW w, NEW c \in Conns, NEW s, NEW a, NEW p, At(w, c, s, a, p),
         NEW t \in State, NEW b \in App, NEW q \in Peer, t.mem = s.mem,
         NEW v, v = [hs |-> [w.hs EXCEPT ![c] = t], list |-> w.list,
                     app |-> [w.app EXCEPT ![c] = b], peer |-> [w.peer EXCEPT ![c] = q]]
  PROVE  At(v, c, t, b, q)
<1>1. w \in Worlds /\ w.hs[c] = s
  BY DEF At
<1>2. v \in Worlds
  BY <1>1 DEF Worlds
<1>3. /\ v.hs[c] = t /\ v.app[c] = b /\ v.peer[c] = q /\ v.list = w.list
      /\ \A d \in Conns \ {c} : v.hs[d] = w.hs[d] /\ v.app[d] = w.app[d] /\ v.peer[d] = w.peer[d]
  BY <1>1 DEF Worlds
<1>4. \A d \in Conns : v.hs[d].mem = w.hs[d].mem
  BY <1>1, <1>3
<1>5. ListOK(v)
  <2>1. {d \in Conns : v.hs[d].mem = "heap"} = {d \in Conns : w.hs[d].mem = "heap"}
    BY <1>4
  <2> QED
    BY <1>3, <2>1 DEF At, ListOK
<1>6. \A d \in Conns \ {c} : ConnOK(v.hs[d], v.app[d], v.peer[d])
  BY <1>3 DEF At
<1> QED
  BY <1>2, <1>3, <1>5, <1>6 DEF At

LEMMA PutIs ==
  ASSUME NEW w \in Worlds, NEW c \in Conns, NEW t
  PROVE  Put(w, c, t) = [hs |-> [w.hs EXCEPT ![c] = t], list |-> w.list, app |-> w.app,
                         peer |-> w.peer]
  BY DEF Put, Worlds

LEMMA PutAt ==
  ASSUME NEW w, NEW c \in Conns, NEW s, NEW a, NEW p, At(w, c, s, a, p),
         NEW t \in State, t.mem = s.mem
  PROVE  At(Put(w, c, t), c, t, a, p)
<1>1. Put(w, c, t) = [hs |-> [w.hs EXCEPT ![c] = t], list |-> w.list,
                      app |-> [w.app EXCEPT ![c] = a], peer |-> [w.peer EXCEPT ![c] = p]]
  BY DEF Put, At, Worlds
<1> QED
  BY <1>1, AtTypes, ChangeAt

Told(a) == [a EXCEPT !.finished = IF @ < 2 THEN @ + 1 ELSE @]

LEMMA PostFinishedAt ==
  ASSUME NEW w, NEW c \in Conns, NEW s, NEW a, NEW p, At(w, c, s, a, p)
  PROVE  At(PostFinished(w, c), c, s, Told(a), p) /\ Told(a) \in App
<1>1. Told(a) \in App
  <2>1. a \in App
    BY AtTypes
  <2>2. (IF a.finished < 2 THEN a.finished + 1 ELSE a.finished) \in 0 .. 2
    BY <2>1 DEF App
  <2> QED
    BY <2>1, <2>2 DEF Told, App
<1>2. PostFinished(w, c) = [hs |-> [w.hs EXCEPT ![c] = s], list |-> w.list,
                            app |-> [w.app EXCEPT ![c] = Told(a)],
                            peer |-> [w.peer EXCEPT ![c] = p]]
  BY DEF PostFinished, At, Worlds, Told
<1> QED
  BY <1>1, <1>2, AtTypes, ChangeAt

LEMMA NoStateIs ==
  /\ NoState \in State /\ Empty(NoState) /\ ~NoState.unacked /\ NoState.debt = 0
  /\ NoState.mem = "none" /\ NoState.pcb = "none"
  BY DEF NoState, NoReq, State, Empty

LEMMA NoPeerIs ==
  /\ NoApp \in App /\ ~NoApp.begun /\ NoApp.finished = 0 /\ NoApp.got = 0 /\ ~NoApp.cut
  /\ NoPeer \in Peer /\ NoPeer.method = "GET" /\ NoPeer.body = 0 /\ NoPeer.sent = 0
  /\ NoPeer.count = 0
  BY DEF NoApp, NoPeer, App, Peer

(* c leaves the list when its state is freed.                               *)
LEMMA RemovedAt ==
  ASSUME opt \in Options, NEW w, NEW c \in Conns, NEW s, NEW a, NEW p, At(w, c, s, a, p),
         NEW t \in State, NEW q \in Peer, t.mem # "heap",
         NEW v, v = [hs |-> [w.hs EXCEPT ![c] = t], list |-> RemoveFirst(w.list, c),
                     app |-> w.app, peer |-> [w.peer EXCEPT ![c] = q]]
  PROVE  At(v, c, t, a, q)
<1>1. w \in Worlds /\ w.hs[c] = s /\ w.app[c] = a /\ ListOK(w) /\ w.list \in Seq(Conns)
  BY DEF At, Worlds
<1>2. /\ v.hs[c] = t /\ v.app[c] = a /\ v.peer[c] = q
      /\ \A d \in Conns \ {c} : v.hs[d] = w.hs[d] /\ v.app[d] = w.app[d] /\ v.peer[d] = w.peer[d]
  BY <1>1 DEF Worlds
<1>3. ListOK(v) /\ v.list \in Seq(Conns)
  <2>1. CASE opt.kill
    <3>1. IsInjective(w.list) /\ Range(w.list) = {d \in Conns : w.hs[d].mem = "heap"}
      BY <1>1, <2>1 DEF ListOK
    <3>2. /\ v.list \in Seq(Conns) /\ IsInjective(v.list)
          /\ Range(v.list) = Range(w.list) \ {c}
      BY <1>1, <3>1, RemoveFirstKeeps
    <3>3. Range(w.list) \ {c} = {d \in Conns : v.hs[d].mem = "heap"}
      BY <1>2, <3>1
    <3> QED
      BY <2>1, <3>2, <3>3 DEF ListOK
  <2>2. CASE ~opt.kill
    <3>1. w.list = << >>
      BY <1>1, <2>2 DEF ListOK
    <3>2. RemoveFirst(w.list, c) = << >>
      BY <3>1 DEF RemoveFirst
    <3> QED
      BY <2>2, <3>2 DEF ListOK
  <2> QED
    BY <2>1, <2>2
<1>4. v \in Worlds
  <2>1. /\ w.hs \in [Conns -> State] /\ w.app \in [Conns -> App] /\ w.peer \in [Conns -> Peer]
    BY <1>1 DEF Worlds
  <2>2. /\ [w.hs EXCEPT ![c] = t] \in [Conns -> State]
        /\ [w.peer EXCEPT ![c] = q] \in [Conns -> Peer]
    BY <2>1
  <2> QED
    BY <1>3, <2>1, <2>2 DEF Worlds
<1>5. \A d \in Conns \ {c} : ConnOK(v.hs[d], v.app[d], v.peer[d])
  BY <1>2 DEF At
<1> QED
  BY <1>2, <1>3, <1>4, <1>5 DEF At

Gone(s) == Freed(StateEof(s))

LEMMA GoneIs ==
  ASSUME NEW s \in State
  PROVE  /\ Gone(s) \in State /\ Gone(s).mem = "freed" /\ Gone(s).pcb = s.pcb
         /\ Empty(Gone(s)) /\ ~Gone(s).unacked /\ Gone(s).debt = 0
<1> DEFINE e == StateEof(s)
<1>1. e \in State /\ e.handle = FALSE /\ e.req = NoReq /\ e.pcb = s.pcb
  BY DEF StateEof, State, NoReq
<1> HIDE DEF e
<1>2. /\ Freed(e) \in State /\ Freed(e).mem = "freed" /\ Freed(e).pcb = e.pcb
      /\ Empty(Freed(e)) /\ ~Freed(e).unacked /\ Freed(e).debt = 0
  BY <1>1, NoStateIs DEF Freed, State, Empty
<1> QED
  BY <1>1, <1>2 DEF Gone, e

LEMMA FreeAt ==
  ASSUME opt \in Options, NEW w, NEW c \in Conns, NEW s, NEW a, NEW p, At(w, c, s, a, p)
  PROVE  At(StateFree(w, c), c, Gone(s), a, NoPeer)
<1> DEFINE t == Gone(s)
           u == [hs |-> [w.hs EXCEPT ![c] = t], list |-> w.list, app |-> w.app,
                 peer |-> [w.peer EXCEPT ![c] = NoPeer]]
<1>1. s \in State /\ w \in Worlds /\ w.hs[c] = s
  BY AtTypes DEF At
<1>2. t \in State /\ t.mem # "heap"
  BY <1>1, GoneIs
<1>3. StateFree(w, c) = RemoveConnection([Put(w, c, t) EXCEPT !.peer[c] = NoPeer], c)
  BY <1>1 DEF StateFree, Gone
<1> HIDE DEF t
<1>4. [Put(w, c, t) EXCEPT !.peer[c] = NoPeer] = u
  BY <1>1, PutIs
<1>5. RemoveConnection(u, c)
        = [hs |-> [w.hs EXCEPT ![c] = t], list |-> RemoveFirst(w.list, c),
           app |-> w.app, peer |-> [w.peer EXCEPT ![c] = NoPeer]]
  BY DEF RemoveConnection
<1> HIDE DEF u
<1>6. At(StateFree(w, c), c, t, a, NoPeer)
  BY <1>2, <1>3, <1>4, <1>5, NoPeerIs, RemovedAt
<1> QED
  BY <1>6 DEF t

(* A pcb that is closed without a state, or was never given one.            *)
LEMMA PcbAt ==
  ASSUME NEW w, NEW c \in Conns, NEW s, NEW a, NEW p, At(w, c, s, a, p),
         NEW pcb \in {"none", "open", "closing", "over"}
  PROVE  At([w EXCEPT !.hs[c].pcb = pcb], c, [s EXCEPT !.pcb = pcb], a, p)
<1> DEFINE t == [s EXCEPT !.pcb = pcb]
<1>1. s \in State /\ a \in App /\ p \in Peer /\ w \in Worlds /\ w.hs[c] = s
      /\ w.app[c] = a /\ w.peer[c] = p
  BY AtTypes DEF At
<1>2. t \in State /\ t.mem = s.mem
  BY <1>1 DEF State
<1> DEFINE v == [w EXCEPT !.hs[c].pcb = pcb]
<1>3. v = [hs |-> [w.hs EXCEPT ![c] = t], list |-> w.list,
           app |-> [w.app EXCEPT ![c] = a], peer |-> [w.peer EXCEPT ![c] = p]]
  BY <1>1 DEF Worlds
<1> HIDE DEF t, v
<1>4. At(v, c, t, a, p)
  BY <1>1, <1>2, <1>3, ChangeAt
<1> QED
  BY <1>4 DEF t, v

Closed(s, how) == [Gone(s) EXCEPT !.pcb = IF how = "fails" THEN "closing" ELSE "over"]
LastNews(s, a) ==
  IF s.post_left # 0 \/ (s.no_auto_wnd /\ s.unrecved # 0) THEN Told(a) ELSE a

LEMMA CloseAt ==
  ASSUME opt \in Options, NEW w, NEW c \in Conns, NEW s, NEW a, NEW p, At(w, c, s, a, p), NEW how
  PROVE  At(CloseOrAbort(w, c, how), c, Closed(s, how), LastNews(s, a), NoPeer)
<1> DEFINE u == IF s.post_left # 0 \/ (s.no_auto_wnd /\ s.unrecved # 0) THEN PostFinished(w, c) ELSE w
           b == LastNews(s, a)
           pcb == IF how = "fails" THEN "closing" ELSE "over"
<1>1. w.hs[c] = s
  BY DEF At
<1>2. At(u, c, s, b, p)
  BY PostFinishedAt DEF LastNews
<1>3. CloseOrAbort(w, c, how) = [StateFree(u, c) EXCEPT !.hs[c].pcb = pcb]
  BY <1>1 DEF CloseOrAbort
<1> HIDE DEF u, b
<1>4. At(StateFree(u, c), c, Gone(s), b, NoPeer)
  BY <1>2, FreeAt
<1>5. At([StateFree(u, c) EXCEPT !.hs[c].pcb = pcb], c, Closed(s, how), b, NoPeer)
  BY <1>4, PcbAt DEF Closed
<1> QED
  BY <1>3, <1>5 DEF b

Again(s) == [StateInit(StateEof(s)) EXCEPT !.keepalive = TRUE]

LEMMA AgainIs ==
  ASSUME NEW s \in State
  PROVE  /\ Again(s) \in State /\ Again(s).mem = s.mem /\ Again(s).pcb = s.pcb
         /\ Again(s).handle = FALSE /\ Again(s).hdrs = 0 /\ Again(s).left = 0
         /\ Again(s).req = NoReq /\ Again(s).retries = 0 /\ Again(s).post_left = 0
         /\ Again(s).no_auto_wnd = FALSE /\ Again(s).unrecved = 0
         /\ Again(s).post_finished = FALSE
         /\ Again(s).unacked = s.unacked /\ Again(s).debt = s.debt
<1> DEFINE e == StateEof(s)
           i == StateInit(e)
<1>1. /\ e \in State /\ e.mem = s.mem /\ e.pcb = s.pcb
      /\ e.unacked = s.unacked /\ e.debt = s.debt
  BY DEF StateEof, State, NoReq
<1> HIDE DEF e
<1>2. /\ i \in State /\ i.mem = e.mem /\ i.pcb = e.pcb /\ Empty(i)
      /\ i.unacked = e.unacked /\ i.debt = e.debt
  BY <1>1, NoStateIs DEF StateInit, State, Empty
<1> HIDE DEF i
<1> QED
  BY <1>1, <1>2 DEF Again, e, i, State, Empty

(* http_eof() of a connection that is kept alive.                           *)
LEMMA AgainAt ==
  ASSUME opt \in Options, NEW w, NEW c \in Conns, NEW s, NEW a, NEW p, At(w, c, s, a, p),
         s.mem = "heap", s.keepalive, NEW how
  PROVE  At(Eof(w, c, how), c, Again(s), a, p)
<1> DEFINE t == Again(s)
           l == RemoveFirst(w.list, c)
           v == Eof(w, c, how)
<1>1. /\ s \in State /\ a \in App /\ p \in Peer /\ w \in Worlds /\ ListOK(w)
      /\ w.hs[c] = s /\ w.app[c] = a /\ w.peer[c] = p
  BY AtTypes DEF At
<1>2. t \in State /\ t.mem = "heap"
  BY <1>1, AgainIs
<1> HIDE DEF t
<1>3. v = [hs |-> [w.hs EXCEPT ![c] = t], list |-> IF opt.kill THEN <<c>> \o l ELSE l,
           app |-> w.app, peer |-> w.peer]
  <2>1. v = AddConnection(RemoveConnection(Put(w, c, t), c), c)
    BY <1>1 DEF Eof, t, Again
  <2>2. RemoveConnection(Put(w, c, t), c)
          = [hs |-> [w.hs EXCEPT ![c] = t], list |-> l, app |-> w.app, peer |-> w.peer]
    BY <1>1, PutIs DEF RemoveConnection
  <2> HIDE DEF v, l
  <2>3. CASE opt.kill
    <3> DEFINE u == [hs |-> [w.hs EXCEPT ![c] = t], list |-> l, app |-> w.app, peer |-> w.peer]
    <3>1. v = [u EXCEPT !.list = <<c>> \o u.list]
      BY <2>1, <2>2, <2>3 DEF AddConnection
    <3>2. v = [hs |-> u.hs, list |-> <<c>> \o u.list, app |-> u.app, peer |-> u.peer]
      BY <3>1
    <3> QED
      BY <2>3, <3>2
  <2>4. CASE ~opt.kill
    BY <2>1, <2>2, <2>4 DEF AddConnection
  <2> QED
    BY <2>3, <2>4
<1>4. \A d \in Conns : IF d = c THEN v.hs[d] = t ELSE v.hs[d] = w.hs[d]
  BY <1>1, <1>3 DEF Worlds
<1>5. ListOK(v) /\ v.list \in Seq(Conns)
  <2>1. CASE opt.kill
    <3>1. IsInjective(w.list) /\ Range(w.list) = {d \in Conns : w.hs[d].mem = "heap"}
          /\ w.list \in Seq(Conns)
      BY <1>1, <2>1 DEF ListOK, Worlds
    <3>2. l \in Seq(Conns) /\ IsInjective(l) /\ Range(l) = Range(w.list) \ {c}
      BY <3>1, RemoveFirstKeeps
    <3> HIDE DEF l
    <3>3. v.list = <<c>> \o l
      BY <1>3, <2>1
    <3> HIDE DEF v
    <3>4. v.list \in Seq(Conns) /\ IsInjective(v.list) /\ Range(v.list) = Range(l) \cup {c}
      BY <3>2, <3>3, PrependKeeps
    <3>5. Range(l) \cup {c} = {d \in Conns : v.hs[d].mem = "heap"}
      BY <1>1, <1>2, <1>4, <3>1, <3>2
    <3> QED
      BY <2>1, <3>4, <3>5 DEF ListOK
  <2>2. CASE ~opt.kill
    <3>1. w.list = << >>
      BY <1>1, <2>2 DEF ListOK
    <3>2. l = << >>
      BY <3>1 DEF RemoveFirst
    <3>3. v.list = l
      BY <1>3, <2>2
    <3> QED
      BY <2>2, <3>2, <3>3 DEF ListOK
  <2> QED
    BY <2>1, <2>2
<1>6. v \in Worlds
  <2>1. [w.hs EXCEPT ![c] = t] \in [Conns -> State] /\ v.hs = [w.hs EXCEPT ![c] = t]
    BY <1>1, <1>2, <1>3 DEF Worlds
  <2>2. v.app = w.app /\ v.peer = w.peer
    BY <1>3
  <2>3. v = [hs |-> v.hs, list |-> v.list, app |-> v.app, peer |-> v.peer]
    BY <1>3
  <2> HIDE DEF v
  <2> QED
    BY <1>1, <1>5, <2>1, <2>2, <2>3 DEF Worlds
<1>7. \A d \in Conns \ {c} : ConnOK(v.hs[d], v.app[d], v.peer[d])
  <2>1. v.app = w.app /\ v.peer = w.peer
    BY <1>3
  <2> QED
    BY <1>4, <2>1 DEF At
<1>8. v.hs[c] = t /\ v.app[c] = a /\ v.peer[c] = p
  BY <1>1, <1>3, <1>4
<1> HIDE DEF v
<1>9. At(v, c, t, a, p)
  BY <1>5, <1>6, <1>7, <1>8 DEF At
<1> QED
  BY <1>9 DEF t, v

LEMMA WholeWorld ==
  ASSUME NEW w, NEW c \in Conns, NEW s, NEW a, NEW p, At(w, c, s, a, p), ConnOK(s, a, p)
  PROVE  WorldOK(w)
  BY DEF At, WorldOK

LEMMA NoPeerOK ==
  ASSUME opt \in Options
  PROVE  PeerOK(NoPeer)
  BY Builds, NoPeerIs DEF PeerOK, Length, Methods

LEMMA ToldIs ==
  ASSUME NEW a \in App
  PROVE  /\ Told(a) \in App /\ Told(a).begun = a.begun /\ Told(a).got = a.got
         /\ Told(a).cut = a.cut
         /\ Told(a).finished = IF a.finished < 2 THEN a.finished + 1 ELSE a.finished
<1>1. (IF a.finished < 2 THEN a.finished + 1 ELSE a.finished) \in 0 .. 2
  BY DEF App
<1> QED
  BY <1>1 DEF Told, App

-----------------------------------------------------------------------------
(* The ends of an answer.                                                   *)

(* An application in the middle of a POST is told, another has been.        *)
LEMMA CloseOK ==
  ASSUME opt \in Options, NEW w, NEW c \in Conns, NEW s, NEW a, NEW p, At(w, c, s, a, p),
         PeerOK(p), PostingOK(s, a, p), ManualOK(s, a, p), ToldOK(s, a, p), NEW how
  PROVE  WorldOK(CloseOrAbort(w, c, how))
<1> DEFINE t == Closed(s, how)
           b == LastNews(s, a)
<1>1. s \in State /\ a \in App /\ p \in Peer
  BY AtTypes
<1>2. /\ t.mem = "freed" /\ t.pcb \in {"closing", "over"}
      /\ Empty(t) /\ ~t.unacked /\ t.debt = 0
  BY <1>1, GoneIs DEF Closed, State, Empty
<1>3. b.begun = a.begun /\ b.cut = a.cut /\ b.got = a.got
  BY <1>1, ToldIs DEF LastNews
<1>4. b.begun /\ ~b.cut => b.finished = 1
  <2> HAVE b.begun /\ ~b.cut
  <2>1. a.begun /\ ~a.cut /\ a.finished = IF s.post_left > 0 \/ s.unrecved > 0 THEN 0 ELSE 1
    BY <1>3 DEF ToldOK
  <2>2. s.post_left \in Nat /\ s.unrecved \in Nat
    BY <1>1 DEF State
  <2>3. CASE s.post_left # 0 \/ (s.no_auto_wnd /\ s.unrecved # 0)
    BY <1>1, <2>1, <2>2, <2>3, ToldIs DEF LastNews
  <2>4. CASE ~(s.post_left # 0 \/ (s.no_auto_wnd /\ s.unrecved # 0))
    BY <2>1, <2>2, <2>4 DEF LastNews, ManualOK
  <2> QED
    BY <2>3, <2>4
<1>5. b.got <= MaxBody
  BY <1>1, <1>3, Builds DEF ToldOK, PeerOK, Length, App, Peer
<1> HIDE DEF t, b
<1>6. GoneOK(t, b, NoPeer)
  BY <1>2, <1>4, <1>5, NoPeerOK DEF GoneOK
<1>7. ConnOK(t, b, NoPeer)
  BY <1>2, <1>6 DEF ConnOK
<1> QED
  BY <1>7, CloseAt, WholeWorld DEF t, b

(* http_eof().                                                              *)
LEMMA EofOK ==
  ASSUME opt \in Options, NEW w, NEW c \in Conns, NEW s, NEW a, NEW p, At(w, c, s, a, p),
         ReadyOK(s, a, p), s.post_left = 0, s.unrecved = 0, s.req = NoReq, p.sent > 0, NEW how
  PROVE  WorldOK(Eof(w, c, how))
<1>1. s \in State /\ a \in App /\ p \in Peer /\ w.hs[c] = s
  BY AtTypes DEF At
<1>2. CASE s.keepalive
  <2> DEFINE t == Again(s)
  <2>1. /\ t \in State /\ t.mem = s.mem /\ t.pcb = s.pcb /\ t.handle = FALSE /\ t.hdrs = 0
        /\ t.left = 0 /\ t.req = NoReq /\ t.retries = 0 /\ t.post_left = 0
        /\ t.no_auto_wnd = FALSE /\ t.unrecved = 0 /\ t.post_finished = FALSE
        /\ t.unacked = s.unacked /\ t.debt = s.debt
    BY <1>1, AgainIs
  <2>2. At(Eof(w, c, how), c, t, a, p)
    BY <1>2, AgainAt DEF ReadyOK
  <2> HIDE DEF t
  <2>3. Bounded(t)
    BY <2>1, Builds DEF Bounded, NoReq
  <2>4. WaitOK(t, a, p) /\ PostingOK(t, a, p) /\ ManualOK(t, a, p) /\ FreshOK(t)
    BY <1>1, <2>1 DEF WaitOK, PostingOK, ManualOK, FreshOK, Peer
  <2>5. ToldOK(t, a, p) /\ WindowOK(t, a, p)
    BY <1>1, <2>1 DEF ReadyOK, ToldOK, WindowOK
  <2>6. ReadyOK(t, a, p)
    BY <2>1, <2>3, <2>4, <2>5 DEF ReadyOK
  <2> QED
    BY <2>1, <2>2, <2>4, <2>6, WholeWorld DEF ConnOK, ReadyOK
<1>3. CASE ~s.keepalive
  <2>1. Eof(w, c, how) = CloseOrAbort(w, c, how)
    BY <1>1, <1>3 DEF Eof
  <2> QED
    BY <2>1, CloseOK DEF ReadyOK
<1> QED
  BY <1>2, <1>3

LEMMA ContentLengthIs ==
  ASSUME NEW s \in State
  PROVE  \E k \in BOOLEAN : ContentLength(s) = [s EXCEPT !.keepalive = k]
<1>1. CASE s.hdrs > 0
  <2> DEFINE k == (s.keepalive /\ s.handle /\ opt.persistent)
  <2>1. ContentLength(s) = [s EXCEPT !.keepalive = k] /\ k \in BOOLEAN
    BY <1>1 DEF ContentLength
  <2> QED
    BY <2>1
<1>2. CASE ~(s.hdrs > 0)
  <2>1. s.keepalive \in BOOLEAN /\ [s EXCEPT !.keepalive = s.keepalive] = s
    BY DEF State
  <2> QED
    BY <1>2, <2>1 DEF ContentLength
<1> QED
  BY <1>1, <1>2

(* http_send(), at the end of a callback: it finds an answer, or waits for  *)
(* the window of a POST.                                                    *)
LEMMA SendOK ==
  ASSUME opt \in Options, NEW w, NEW c \in Conns, NEW s, NEW a, NEW p, At(w, c, s, a, p),
         ReadyOK(s, a, p), s.post_left = 0, s.req = NoReq, p.sent > 0,
         NEW ch, ch.k \in Nat
  PROVE  WorldOK(Send(w, c, ch))
<1>1. s \in State /\ a \in App /\ p \in Peer /\ w.hs[c] = s
  BY AtTypes DEF At
<1>2. CASE s.unrecved # 0
  <2>1. PICK k \in BOOLEAN : ContentLength(s) = [s EXCEPT !.keepalive = k]
    BY <1>1, ContentLengthIs
  <2>2. ContentLength(s).unrecved # 0
    BY <1>1, <1>2, <2>1 DEF State
  <2>3. Send(w, c, ch) = w
    BY <1>1, <2>2 DEF Send
  <2>4. ConnOK(s, a, p)
    BY <1>2 DEF ConnOK, ReadyOK, FreshOK
  <2> QED
    BY <2>3, <2>4, WholeWorld
<1>3. CASE s.unrecved = 0
  <2> DEFINE z == ContentLength(s)
             k == IF ch.k > z.hdrs THEN ch.k - z.hdrs ELSE 0
             left == IF k < z.left THEN z.left - k ELSE 0
             hdrs == IF ch.k > 0 THEN 0 ELSE z.hdrs
             unacked == (z.unacked \/ (ch.k > 0 /\ (z.hdrs > 0 \/ z.left > 0)))
             out == [z EXCEPT !.hdrs = hdrs, !.left = left, !.unacked = unacked]
  <2>1. PICK ka \in BOOLEAN : z = [s EXCEPT !.keepalive = ka]
    BY <1>1, ContentLengthIs
  <2>2. /\ z \in State /\ z.unrecved = 0 /\ z.hdrs = s.hdrs /\ z.left = s.left
        /\ z.unacked = s.unacked
    BY <1>1, <1>3, <2>1 DEF State
  <2>3. Send(w, c, ch) = IF out.hdrs = 0 /\ left = 0 THEN Eof(Put(w, c, out), c, ch.how)
                         ELSE Put(w, c, out)
    BY <1>1, <2>2 DEF Send
  <2>4. /\ left \in Nat /\ left <= s.left /\ hdrs \in Nat /\ hdrs <= s.hdrs
        /\ unacked \in BOOLEAN
    BY <1>1, <2>2 DEF State
  <2> HIDE DEF z, k, left, hdrs, unacked
  <2>5. /\ out \in State /\ out.mem = s.mem /\ out.pcb = s.pcb /\ out.handle = s.handle
        /\ out.hdrs = hdrs /\ out.left = left /\ out.req = s.req /\ out.retries = s.retries
        /\ out.post_left = s.post_left /\ out.no_auto_wnd = s.no_auto_wnd
        /\ out.unrecved = s.unrecved /\ out.post_finished = s.post_finished
        /\ out.debt = s.debt
    <3>1. /\ z.mem = s.mem /\ z.pcb = s.pcb /\ z.handle = s.handle /\ z.req = s.req
          /\ z.retries = s.retries /\ z.post_left = s.post_left
          /\ z.no_auto_wnd = s.no_auto_wnd /\ z.post_finished = s.post_finished
          /\ z.debt = s.debt /\ z.unrecved = s.unrecved
      BY <1>1, <2>1 DEF State
    <3> QED
      BY <2>2, <2>4, <3>1 DEF State
  <2> HIDE DEF out
  <2>6. At(Put(w, c, out), c, out, a, p)
    BY <2>5, PutAt
  <2>7. ReadyOK(out, a, p)
    <3>1. Bounded(out)
      <4>1. /\ s.hdrs \in Nat /\ s.left \in Nat /\ FileLen \in Nat
            /\ s.hdrs <= 1 /\ s.left <= FileLen /\ (~s.handle => s.left = 0)
        BY <1>1, Builds DEF ReadyOK, Bounded, State
      <4>2. hdrs <= 1 /\ left <= FileLen /\ (~s.handle => left = 0)
        BY <2>4, <4>1
      <4> QED
        BY <2>5, <4>2 DEF ReadyOK, Bounded
    <3>2. WaitOK(out, a, p) /\ PostingOK(out, a, p) /\ ManualOK(out, a, p)
      BY <1>1, <2>5 DEF ReadyOK, WaitOK, PostingOK, ManualOK, Peer
    <3>3. ToldOK(out, a, p) /\ WindowOK(out, a, p)
      BY <1>1, <2>5 DEF ReadyOK, ToldOK, WindowOK
    <3> QED
      BY <2>5, <3>1, <3>2, <3>3 DEF ReadyOK
  <2>8. CASE out.hdrs = 0 /\ left = 0
    BY <1>3, <2>3, <2>5, <2>6, <2>7, <2>8, EofOK
  <2>9. CASE ~(out.hdrs = 0 /\ left = 0)
    <3>1. FreshOK(out)
      BY <2>5, <2>7, <2>9 DEF FreshOK, ReadyOK, Bounded
    <3> QED
      BY <2>3, <2>6, <2>7, <2>9, <3>1, WholeWorld DEF ConnOK, ReadyOK
  <2> QED
    BY <2>8, <2>9
<1> QED
  BY <1>2, <1>3

-----------------------------------------------------------------------------
(* The start of an answer.                                                  *)

(* ReadyOK but for the pbufs of the request, which http_recv() frees.       *)
StartedOK(s, a, p) ==
  /\ s.mem = "heap" /\ s.pcb = "open" /\ PeerOK(p) /\ p.sent > 0
  /\ s.retries < HTTPD_MAX_RETRIES /\ s.hdrs <= 1 /\ s.left <= FileLen /\ (~s.handle => s.left = 0)
  /\ PostingOK(s, a, p) /\ ManualOK(s, a, p) /\ ToldOK(s, a, p) /\ WindowOK(s, a, p)

LEMMA StartedReady ==
  ASSUME NEW s, NEW a, NEW p \in Peer, StartedOK(s, a, p), s.req = NoReq
  PROVE  ReadyOK(s, a, p)
<1>1. Bounded(s)
  BY HttpdAssumption DEF Bounded, StartedOK, NoReq
<1>2. WaitOK(s, a, p)
  BY DEF WaitOK, StartedOK, Peer
<1> QED
  BY <1>1, <1>2 DEF ReadyOK, StartedOK

(* The end of http_recv().                                                  *)
LEMMA ParsedOK ==
  ASSUME opt \in Options, NEW w, NEW c \in Conns, NEW s, NEW a, NEW p, At(w, c, s, a, p),
         StartedOK(s, a, p), NEW bad \in BOOLEAN, NEW ch, ch.k \in Nat
  PROVE  WorldOK(Parsed(w, c, bad, ch))
<1> DEFINE t == [s EXCEPT !.req = NoReq]
           v == Put(w, c, t)
<1>1. s \in State /\ a \in App /\ p \in Peer /\ w.hs[c] = s
  BY AtTypes DEF At
<1>2. /\ t \in State /\ t.req = NoReq /\ t.mem = s.mem /\ t.pcb = s.pcb /\ t.handle = s.handle
      /\ t.hdrs = s.hdrs /\ t.left = s.left /\ t.retries = s.retries
      /\ t.post_left = s.post_left /\ t.no_auto_wnd = s.no_auto_wnd /\ t.unrecved = s.unrecved
      /\ t.post_finished = s.post_finished /\ t.unacked = s.unacked /\ t.debt = s.debt
  BY <1>1 DEF State, NoReq
<1>3. Parsed(w, c, bad, ch) = IF bad /\ ~opt.page404 THEN CloseOrAbort(v, c, ch.how)
                              ELSE IF v.hs[c].post_left = 0 THEN Send(v, c, ch) ELSE v
  BY <1>1 DEF Parsed
<1> HIDE DEF t
<1>4. At(v, c, t, a, p)
  BY <1>2, PutAt
<1>5. v.hs[c] = t
  BY <1>4 DEF At
<1> HIDE DEF v
<1>6. StartedOK(t, a, p)
  BY <1>2 DEF StartedOK, PostingOK, ManualOK, ToldOK, WindowOK
<1>7. ReadyOK(t, a, p)
  BY <1>1, <1>2, <1>6, StartedReady
<1>8. CASE bad /\ ~opt.page404
  BY <1>3, <1>4, <1>7, <1>8, CloseOK DEF ReadyOK
<1>9. CASE ~(bad /\ ~opt.page404) /\ t.post_left = 0
  <2>1. Parsed(w, c, bad, ch) = Send(v, c, ch)
    BY <1>3, <1>5, <1>9
  <2> QED
    BY <1>2, <1>4, <1>6, <1>7, <1>9, <2>1, SendOK DEF StartedOK
<1>10. CASE ~(bad /\ ~opt.page404) /\ t.post_left # 0
  <2>1. Parsed(w, c, bad, ch) = v
    BY <1>3, <1>5, <1>10
  <2>2. ConnOK(t, a, p)
    BY <1>7, <1>10 DEF ConnOK, ReadyOK, FreshOK
  <2> QED
    BY <1>4, <2>1, <2>2, WholeWorld
<1> QED
  BY <1>8, <1>9, <1>10

LEMMA FileIs ==
  ASSUME opt \in Options, NEW s \in State, NEW file \in BOOLEAN
  PROVE  LET t == InitFile(s, file) IN
         /\ t \in State /\ t.handle = file /\ t.hdrs <= 1
         /\ t.left = (IF file THEN FileLen ELSE 0) /\ t.retries = 0
         /\ t.mem = s.mem /\ t.pcb = s.pcb /\ t.req = s.req
         /\ t.post_left = s.post_left /\ t.no_auto_wnd = s.no_auto_wnd /\ t.unrecved = s.unrecved
         /\ t.post_finished = s.post_finished /\ t.unacked = s.unacked /\ t.debt = s.debt
<1> DEFINE left == IF file THEN FileLen ELSE 0
           hdrs == IF opt.headers THEN 1 ELSE 0
           k == s.keepalive /\ (file /\ ~opt.headers => opt.persistent)
           t == [s EXCEPT !.handle = file, !.left = left, !.retries = 0, !.hdrs = hdrs,
                          !.keepalive = k]
<1>1. left \in Nat /\ hdrs \in Nat /\ hdrs <= 1 /\ k \in BOOLEAN
  BY Builds DEF State
<1>2. InitFile(s, file) = t
  BY DEF InitFile
<1> HIDE DEF left, hdrs, k
<1>3. /\ t \in State /\ t.handle = file /\ t.hdrs = hdrs /\ t.left = left /\ t.retries = 0
      /\ t.mem = s.mem /\ t.pcb = s.pcb /\ t.req = s.req
      /\ t.post_left = s.post_left /\ t.no_auto_wnd = s.no_auto_wnd /\ t.unrecved = s.unrecved
      /\ t.post_finished = s.post_finished /\ t.unacked = s.unacked /\ t.debt = s.debt
  BY <1>1 DEF State
<1> HIDE DEF t
<1> QED
  BY <1>1, <1>2, <1>3 DEF left

(* A file, or none, for a request that is whole or bad.                     *)
LEMMA FileOK ==
  ASSUME opt \in Options, NEW s \in State, NEW a \in App, NEW p \in Peer, NEW file \in BOOLEAN,
         StartedOK(s, a, p), s.post_left = 0
  PROVE  InitFile(s, file) \in State /\ InitFile(s, file).mem = s.mem
         /\ StartedOK(InitFile(s, file), a, p)
<1> DEFINE t == InitFile(s, file)
<1>1. /\ t \in State /\ t.handle = file /\ t.hdrs <= 1
      /\ t.left = (IF file THEN FileLen ELSE 0) /\ t.retries = 0
      /\ t.mem = s.mem /\ t.pcb = s.pcb /\ t.req = s.req
      /\ t.post_left = s.post_left /\ t.no_auto_wnd = s.no_auto_wnd /\ t.unrecved = s.unrecved
      /\ t.post_finished = s.post_finished /\ t.unacked = s.unacked /\ t.debt = s.debt
  BY FileIs
<1> HIDE DEF t
<1>2. t.retries < HTTPD_MAX_RETRIES /\ t.left <= FileLen /\ (~t.handle => t.left = 0)
  BY <1>1, HttpdAssumption
<1>3. PostingOK(t, a, p) /\ ManualOK(t, a, p) /\ ToldOK(t, a, p) /\ WindowOK(t, a, p)
  BY <1>1 DEF StartedOK, PostingOK, ManualOK, ToldOK, WindowOK
<1>4. StartedOK(t, a, p)
  BY <1>1, <1>2, <1>3 DEF StartedOK
<1> QED
  BY <1>1, <1>4 DEF t

(* http_handle_post_finished(), when all has been received and given back.  *)
LEMMA HandlePostFinishedOK ==
  ASSUME opt \in Options, NEW w, NEW c \in Conns, NEW s, NEW a, NEW p, At(w, c, s, a, p),
         s.mem = "heap", s.pcb = "open", PeerOK(p), p.sent > 0,
         s.post_left = 0, s.unrecved = 0, ~s.post_finished, s.no_auto_wnd => opt.manual,
         a.begun, a.finished = 0, p.method = "POST", opt.header + a.got <= p.sent,
         ~a.cut => opt.header + a.got = p.sent /\ p.sent = Length(p),
         WindowOK(s, a, p)
  PROVE  \E t \in State, b \in App :
           /\ At(HandlePostFinished(w, c), c, t, b, p)
           /\ StartedOK(t, b, p) /\ t.req = s.req /\ t.post_left = 0
<1> DEFINE v == PostFinished(w, c)
           b == Told(a)
           f == p.found \/ opt.page404
           u == InitFile(s, f)
           t == [u EXCEPT !.post_finished = opt.manual]
<1>1. s \in State /\ a \in App /\ p \in Peer /\ w.hs[c] = s /\ f \in BOOLEAN /\ opt.manual \in BOOLEAN
  BY AtTypes, Builds DEF At, Peer
<1>2. At(v, c, s, b, p)
  BY PostFinishedAt
<1>3. v.peer[c] = p
  BY <1>2 DEF At
<1>4. HandlePostFinished(w, c) = Put(v, c, t)
  BY <1>1, <1>3 DEF HandlePostFinished, FindFile
<1> HIDE DEF v, f
<1>5. b \in App /\ b.begun = a.begun /\ b.got = a.got /\ b.cut = a.cut /\ b.finished = 1
  <2>1. /\ b \in App /\ b.begun = a.begun /\ b.got = a.got /\ b.cut = a.cut
        /\ b.finished = IF a.finished < 2 THEN a.finished + 1 ELSE a.finished
    BY <1>1, ToldIs, Zenon
  <2> HIDE DEF b
  <2> QED
    BY <2>1
<1>6. /\ u \in State /\ u.handle = f /\ u.hdrs <= 1
      /\ u.left = (IF f THEN FileLen ELSE 0) /\ u.retries = 0
      /\ u.mem = s.mem /\ u.pcb = s.pcb /\ u.req = s.req
      /\ u.post_left = s.post_left /\ u.no_auto_wnd = s.no_auto_wnd /\ u.unrecved = s.unrecved
      /\ u.unacked = s.unacked /\ u.debt = s.debt
  BY <1>1, FileIs
<1> HIDE DEF u, b
<1>7. /\ t \in State /\ t.handle = f /\ t.hdrs <= 1 /\ t.post_finished = opt.manual
      /\ t.left = (IF f THEN FileLen ELSE 0) /\ t.retries = 0
      /\ t.mem = s.mem /\ t.pcb = s.pcb /\ t.req = s.req
      /\ t.post_left = s.post_left /\ t.no_auto_wnd = s.no_auto_wnd /\ t.unrecved = s.unrecved
      /\ t.unacked = s.unacked /\ t.debt = s.debt
  BY <1>1, <1>6 DEF State
<1> HIDE DEF t
<1>8. At(Put(v, c, t), c, t, b, p)
  BY <1>2, <1>7, PutAt
<1>9. t.retries < HTTPD_MAX_RETRIES /\ t.left <= FileLen /\ (~t.handle => t.left = 0)
  BY <1>1, <1>7, HttpdAssumption
<1>10. PostingOK(t, b, p) /\ ManualOK(t, b, p)
  <2>1. opt.header \in Int /\ a.got \in Nat /\ p.sent \in Nat
    BY <1>1, Builds DEF App, Peer
  <2> QED
    BY <1>5, <1>7, <2>1 DEF PostingOK, ManualOK
<1>11. ToldOK(t, b, p)
  BY <1>5, <1>7 DEF ToldOK
<1>12. WindowOK(t, b, p)
  BY <1>5, <1>7 DEF WindowOK, Room
<1>13. StartedOK(t, b, p)
  BY <1>7, <1>9, <1>10, <1>11, <1>12 DEF StartedOK
<1> QED
  BY <1>4, <1>5, <1>7, <1>8, <1>13

-----------------------------------------------------------------------------
(* A POST.                                                                  *)

(* n pieces of its data have come and the application has not seen them.    *)
DataOK(s, a, p, n) ==
  /\ s.mem = "heap" /\ s.pcb = "open" /\ PeerOK(p) /\ p.sent > 0
  /\ s.retries < HTTPD_MAX_RETRIES /\ ~s.handle /\ s.hdrs = 0 /\ s.left = 0 /\ ~s.unacked
  /\ ~s.post_finished
  /\ a.begun /\ ~a.cut /\ a.finished = 0 /\ p.method = "POST"
  /\ opt.header + a.got + n = p.sent /\ s.post_left + p.sent = Length(p) + n
  /\ IF s.no_auto_wnd THEN opt.manual /\ opt.header + s.unrecved <= p.sent /\ n <= s.unrecved
     ELSE s.unrecved = 0
  /\ WindowOK(s, a, p)

LEMMA PostRxpbufOK ==
  ASSUME opt \in Options, NEW w, NEW c \in Conns, NEW s, NEW a, NEW p, At(w, c, s, a, p),
         NEW n \in Nat, DataOK(s, a, p, n), NEW ch, ch.good \in BOOLEAN, ch.ack \in Nat
  PROVE  \E t \in State, b \in App :
           At(PostRxpbuf(w, c, n, ch), c, t, b, p) /\ StartedOK(t, b, p) /\ t.req = s.req
<1> DEFINE ack == IF s.no_auto_wnd /\ ch.ack <= n THEN ch.ack ELSE 0
           left == IF ch.good /\ n < s.post_left THEN s.post_left - n ELSE 0
           unrecved == s.unrecved - ack
           debt == s.debt - ack
           t == [s EXCEPT !.post_left = left, !.unrecved = unrecved, !.debt = debt]
           got == a.got + n
           cut == (a.cut \/ ~ch.good)
           b == [a EXCEPT !.got = got, !.cut = cut]
           v == [hs |-> [w.hs EXCEPT ![c] = t], list |-> w.list,
                 app |-> [w.app EXCEPT ![c] = b], peer |-> [w.peer EXCEPT ![c] = p]]
<1>1. /\ s \in State /\ a \in App /\ p \in Peer /\ w \in Worlds
      /\ w.hs[c] = s /\ w.app[c] = a /\ w.peer[c] = p
  BY AtTypes DEF At
<1>2. [Put(w, c, t) EXCEPT !.app[c] = b] = v
  <2> HIDE DEF t, b
  <2>1. Put(w, c, t) = [hs |-> [w.hs EXCEPT ![c] = t], list |-> w.list, app |-> w.app,
                        peer |-> w.peer]
    BY <1>1, PutIs
  <2>2. [w.peer EXCEPT ![c] = p] = w.peer
    BY <1>1 DEF Worlds
  <2> QED
    BY <2>1, <2>2
<1>3. PostRxpbuf(w, c, n, ch)
        = IF left = 0 /\ t.unrecved = 0 THEN HandlePostFinished(v, c) ELSE v
  BY <1>1, <1>2 DEF PostRxpbuf
<1>4. /\ opt.header \in Int /\ opt.header > 0 /\ s.post_left \in Nat /\ s.unrecved \in Nat
      /\ s.debt \in Int /\ a.got \in Nat /\ p.sent \in Nat /\ p.body \in Nat
      /\ Length(p) = opt.header + p.body /\ p.sent <= Length(p)
  BY <1>1, Builds DEF DataOK, State, App, Peer, Length, PeerOK
<1>5. /\ ack \in Nat /\ ack <= n /\ (s.no_auto_wnd => ack <= s.unrecved)
      /\ (~s.no_auto_wnd => ack = 0) /\ unrecved \in Nat /\ debt \in Int
      /\ unrecved <= s.unrecved /\ unrecved - debt = s.unrecved - s.debt
  BY <1>4 DEF DataOK
<1>6. /\ left \in Nat /\ got \in Nat /\ cut \in BOOLEAN /\ n <= s.post_left
      /\ left > 0 => ch.good /\ left = s.post_left - n
      /\ ch.good /\ left = 0 => n = s.post_left
  BY <1>4 DEF DataOK
<1>6a. cut <=> ~ch.good
  BY DEF DataOK
<1> HIDE DEF ack, left, unrecved, debt, got, cut
<1>7. /\ t \in State /\ t.post_left = left /\ t.unrecved = unrecved /\ t.debt = debt
      /\ t.mem = s.mem /\ t.pcb = s.pcb /\ t.handle = s.handle /\ t.hdrs = s.hdrs
      /\ t.left = s.left /\ t.req = s.req /\ t.retries = s.retries
      /\ t.no_auto_wnd = s.no_auto_wnd /\ t.post_finished = s.post_finished
      /\ t.unacked = s.unacked
  BY <1>1, <1>5, <1>6 DEF State
<1>8. /\ b \in App /\ b.got = got /\ b.cut = cut /\ b.begun = a.begun /\ b.finished = a.finished
  BY <1>1, <1>6 DEF App
<1> HIDE DEF t, b
<1>9. At(v, c, t, b, p)
  BY <1>1, <1>7, <1>8, ChangeAt
<1>10. WindowOK(t, b, p)
  <2>1. Room(b, p) = Room(a, p)
    BY <1>8 DEF Room
  <2>2. unrecved = debt + (s.unrecved - s.debt)
    BY <1>4, <1>5
  <2>3. s.debt <= s.unrecved /\ s.unrecved <= s.debt + Room(a, p)
    BY DEF DataOK, WindowOK
  <2>4. Room(a, p) \in Int
    BY <1>1, HttpdAssumption DEF Room, Peer
  <2> QED
    BY <1>4, <1>5, <1>7, <2>1, <2>2, <2>3, <2>4 DEF WindowOK
<1>11. /\ opt.header + b.got = p.sent
       /\ ch.good => left + p.sent = Length(p)
  BY <1>4, <1>6, <1>8 DEF DataOK, got
<1> HIDE DEF v
<1>12. CASE left = 0 /\ unrecved = 0
  <2>1. PostRxpbuf(w, c, n, ch) = HandlePostFinished(v, c)
    BY <1>3, <1>7, <1>12
  <2>2. ~b.cut => p.sent = Length(p)
    <3>1. ~b.cut => ch.good
      BY <1>6a, <1>8
    <3>2. ch.good => 0 + p.sent = Length(p)
      BY <1>11, <1>12
    <3> QED
      BY <1>4, <3>1, <3>2
  <2>3. opt.header + b.got <= p.sent
    BY <1>4, <1>11
  <2>4. \E u \in State, d \in App :
          At(HandlePostFinished(v, c), c, u, d, p) /\ StartedOK(u, d, p) /\ u.req = t.req
    <3>1. /\ t.mem = "heap" /\ t.pcb = "open" /\ PeerOK(p) /\ p.sent > 0
          /\ ~t.post_finished /\ (t.no_auto_wnd => opt.manual)
          /\ b.begun /\ b.finished = 0 /\ p.method = "POST"
      BY <1>7, <1>8 DEF DataOK
    <3>2. t.post_left = 0 /\ t.unrecved = 0
      BY <1>7, <1>12
    <3>3. ~b.cut => opt.header + b.got = p.sent /\ p.sent = Length(p)
      BY <1>11, <2>2
    <3> QED
      BY <1>9, <1>10, <2>3, <3>1, <3>2, <3>3, HandlePostFinishedOK
  <2> QED
    BY <1>7, <2>1, <2>4
<1>13. CASE ~(left = 0 /\ unrecved = 0)
  <2>1. PostRxpbuf(w, c, n, ch) = v
    BY <1>3, <1>7, <1>13
  <2>2. PostingOK(t, b, p)
    BY <1>6, <1>6a, <1>7, <1>8, <1>11 DEF PostingOK, DataOK
  <2>3. ManualOK(t, b, p)
    <3>1. CASE s.no_auto_wnd
      BY <1>4, <1>5, <1>7, <1>8, <3>1 DEF ManualOK, DataOK
    <3>2. CASE ~s.no_auto_wnd
      <4>1. s.unrecved = 0
        BY <3>2 DEF DataOK
      <4>2. unrecved = 0
        BY <1>4, <1>5, <4>1
      <4> QED
        BY <1>7, <3>2, <4>2 DEF ManualOK
    <3> QED
      BY <3>1, <3>2
  <2>4. ToldOK(t, b, p)
    <3>1. t.post_left > 0 \/ t.unrecved > 0
      BY <1>5, <1>6, <1>7, <1>13
    <3>2. opt.header + b.got <= p.sent /\ ~t.post_finished /\ b.begun /\ b.finished = 0
      BY <1>4, <1>7, <1>8, <1>11 DEF DataOK
    <3>3. ~b.cut => (t.post_left = 0 => p.sent = Length(p))
      <4>1. ~b.cut => ch.good
        BY <1>6a, <1>8
      <4>2. t.post_left = 0 => left = 0
        BY <1>7
      <4>3. ch.good /\ left = 0 => 0 + p.sent = Length(p)
        BY <1>11
      <4> QED
        BY <1>4, <4>1, <4>2, <4>3
    <3> QED
      BY <1>11, <3>1, <3>2, <3>3 DEF ToldOK, DataOK
  <2>5. t.hdrs <= 1 /\ t.left <= FileLen
    BY <1>7, HttpdAssumption DEF DataOK
  <2>6. StartedOK(t, b, p)
    BY <1>7, <1>10, <2>2, <2>3, <2>4, <2>5 DEF StartedOK, DataOK
  <2> QED
    BY <1>7, <1>8, <1>9, <2>1, <2>6
<1> QED
  BY <1>12, <1>13

LEMMA AnotherBody ==
  ASSUME NEW k \in Nat, k > 0
  PROVE  (k - 1) * MaxBody \in Nat /\ k * MaxBody = (k - 1) * MaxBody + MaxBody
<1>1. MaxBody \in Nat
  BY HttpdAssumption
<1> QED
  BY <1>1

(* http_post_request(), which is called with a whole header.                *)
LEMMA PostRequestOK ==
  ASSUME opt \in Options, NEW w, NEW c \in Conns, NEW s, NEW a, NEW p, At(w, c, s, a, p),
         StartedOK(s, a, p), Quiet(s), ~a.begun, ~s.no_auto_wnd, ~s.post_finished,
         s.req.tot_len = p.sent, p.sent >= opt.header, p.method = "POST", NEW ch \in Choice
  PROVE  \E t \in State, b \in App :
           At(PostRequest(w, c, ch), c, t, b, p) /\ StartedOK(t, b, p)
<1> DEFINE body == s.req.tot_len - opt.header
           unrecved == IF ch.manual THEN body ELSE s.unrecved
           t == [s EXCEPT !.no_auto_wnd = ch.manual, !.post_left = p.body, !.unrecved = unrecved]
           b == [NoApp EXCEPT !.begun = TRUE]
           v == [Put(w, c, t) EXCEPT !.app[c] = b]
           ch1 == [ch EXCEPT !.good = TRUE]
           f == p.found \/ opt.page404
<1>1. /\ s \in State /\ a \in App /\ p \in Peer /\ w \in Worlds
      /\ w.hs[c] = s /\ w.app[c] = a /\ w.peer[c] = p
  BY AtTypes DEF At
<1>2. /\ ch.good \in BOOLEAN /\ ch.manual \in BOOLEAN /\ (ch.manual => opt.manual)
      /\ f \in BOOLEAN /\ ch1.good \in BOOLEAN /\ ch1.ack \in Nat
  <2>1. opt.manual \in BOOLEAN /\ MaxBody \in Nat
    BY Builds
  <2>2. ch.good \in BOOLEAN /\ ch.manual \in {FALSE, opt.manual} /\ ch.ack \in 0 .. MaxBody
    BY DEF Choice
  <2>3. ch1.good = TRUE /\ ch1.ack = ch.ack
    BY DEF Choice
  <2>4. f \in BOOLEAN
    OBVIOUS
  <2> HIDE DEF ch1, f
  <2>5. ch.manual \in BOOLEAN /\ (ch.manual => opt.manual)
    <3>1. ch.manual = FALSE \/ ch.manual = opt.manual
      BY <2>2
    <3> QED
      BY <2>1, <3>1, Zenon
  <2>6. ch1.good \in BOOLEAN
    BY <2>3
  <2>7. ch1.ack \in Nat
    BY <2>1, <2>2, <2>3
  <2> QED
    BY <2>2, <2>4, <2>5, <2>6, <2>7, Zenon
<1>3. PostRequest(w, c, ch)
        = IF ~ch.good THEN Put(w, c, InitFile(s, f))
          ELSE IF body > 0 \/ p.body = 0 THEN PostRxpbuf(v, c, body, ch1) ELSE v
  BY <1>1 DEF PostRequest, FindFile
<1>4. /\ opt.header \in Nat /\ opt.header > 0 /\ p.sent \in Nat /\ p.body \in Nat
      /\ p.body <= MaxBody /\ MaxBody \in Nat /\ p.sent <= opt.header + p.body
      /\ Length(p) = opt.header + p.body /\ s.unrecved = 0 /\ s.debt \in Int
  BY <1>1, Builds DEF StartedOK, PeerOK, Length, Peer, State, Quiet
<1>5. body \in Nat /\ opt.header + body = p.sent /\ body <= p.body
  BY <1>4
<1> HIDE DEF body
<1>6. unrecved \in Nat /\ unrecved <= body
  BY <1>4, <1>5
<1>6a. (ch.manual => unrecved = body) /\ (~ch.manual => unrecved = 0)
  BY <1>4
<1> HIDE DEF unrecved
<1>7. /\ t \in State /\ t.mem = s.mem /\ t.pcb = s.pcb /\ t.handle = s.handle /\ t.hdrs = s.hdrs
      /\ t.left = s.left /\ t.req = s.req /\ t.retries = s.retries /\ t.unacked = s.unacked
      /\ t.no_auto_wnd = ch.manual /\ t.post_left = p.body /\ t.unrecved = unrecved
      /\ t.post_finished = s.post_finished /\ t.debt = s.debt
  BY <1>1, <1>2, <1>4, <1>6 DEF State
<1>8. b \in App /\ b.begun = TRUE /\ b.finished = 0 /\ b.got = 0 /\ b.cut = FALSE
  BY NoPeerIs DEF App
<1> HIDE DEF t, b
<1>9. At(v, c, t, b, p)
  <2>1. v = [hs |-> [w.hs EXCEPT ![c] = t], list |-> w.list,
             app |-> [w.app EXCEPT ![c] = b], peer |-> [w.peer EXCEPT ![c] = p]]
    <3>1. Put(w, c, t) = [hs |-> [w.hs EXCEPT ![c] = t], list |-> w.list, app |-> w.app,
                          peer |-> w.peer]
      BY <1>1, PutIs
    <3>2. [w.peer EXCEPT ![c] = p] = w.peer
      BY <1>1 DEF Worlds
    <3> QED
      BY <3>1, <3>2
  <2> HIDE DEF v
  <2> QED
    BY <1>1, <1>7, <1>8, <2>1, ChangeAt
<1> HIDE DEF v, ch1, f
<1>10. WindowOK(t, b, p)
  <2>1. p.count \in Nat /\ p.count > 0
    BY <1>1 DEF StartedOK, PeerOK, Peer
  <2> DEFINE r == (p.count - 1) * MaxBody
             r1 == p.count * MaxBody
  <2>2. r \in Nat /\ r1 = r + MaxBody
    BY <2>1, AnotherBody
  <2>3. Room(a, p) = r /\ Room(b, p) = r1
    BY <1>8, <2>1 DEF Room
  <2> HIDE DEF r, r1
  <2>4. s.debt <= 0 /\ 0 <= s.debt + r
    BY <1>4, <2>3 DEF StartedOK, WindowOK
  <2>5. t.unrecved = unrecved /\ t.debt = s.debt
    BY <1>7
  <2> QED
    BY <1>4, <1>5, <1>6, <2>2, <2>3, <2>4, <2>5 DEF WindowOK
<1>11. CASE ~ch.good
  <2>1. s.post_left = 0
    BY DEF Quiet
  <2>2. InitFile(s, f) \in State /\ InitFile(s, f).mem = s.mem /\ StartedOK(InitFile(s, f), a, p)
    BY <1>1, <1>2, <2>1, FileOK
  <2>3. At(Put(w, c, InitFile(s, f)), c, InitFile(s, f), a, p)
    BY <2>2, PutAt
  <2> QED
    BY <1>1, <1>3, <1>11, <2>2, <2>3
<1>12. CASE ch.good /\ (body > 0 \/ p.body = 0)
  <2>1. DataOK(t, b, p, body)
    <3>1. /\ t.mem = "heap" /\ t.pcb = "open" /\ PeerOK(p) /\ p.sent > 0
          /\ t.retries < HTTPD_MAX_RETRIES /\ ~t.handle /\ t.hdrs = 0 /\ t.left = 0 /\ ~t.unacked
          /\ ~t.post_finished
      BY <1>7 DEF StartedOK, Quiet
    <3>2. /\ b.begun /\ ~b.cut /\ b.finished = 0
          /\ opt.header + b.got + body = p.sent /\ t.post_left + p.sent = Length(p) + body
      BY <1>4, <1>5, <1>7, <1>8
    <3>3. IF t.no_auto_wnd
          THEN opt.manual /\ opt.header + t.unrecved <= p.sent /\ body <= t.unrecved
          ELSE t.unrecved = 0
      BY <1>2, <1>4, <1>5, <1>6a, <1>7
    <3> QED
      BY <1>10, <3>1, <3>2, <3>3 DEF DataOK
  <2>2. \E u \in State, d \in App :
          At(PostRxpbuf(v, c, body, ch1), c, u, d, p) /\ StartedOK(u, d, p) /\ u.req = t.req
    BY <1>2, <1>5, <1>9, <2>1, PostRxpbufOK
  <2> QED
    BY <1>3, <1>12, <2>2
<1>13. CASE ch.good /\ ~(body > 0 \/ p.body = 0)
  <2>1. body = 0 /\ p.body > 0 /\ p.sent = opt.header /\ unrecved = 0
    BY <1>4, <1>5, <1>6, <1>13
  <2>2. PostingOK(t, b, p)
    BY <1>4, <1>7, <1>8, <2>1 DEF PostingOK, Quiet
  <2>3. ManualOK(t, b, p)
    BY <1>2, <1>4, <1>7, <1>8, <2>1 DEF ManualOK
  <2>4. ToldOK(t, b, p)
    BY <1>4, <1>7, <1>8, <2>1 DEF ToldOK
  <2>5. StartedOK(t, b, p)
    BY <1>7, <1>10, <2>2, <2>3, <2>4 DEF StartedOK
  <2> QED
    BY <1>3, <1>7, <1>8, <1>9, <1>13, <2>5
<1> QED
  BY <1>11, <1>12, <1>13

(* A request that is none.                                                  *)
LEMMA BadOK ==
  ASSUME opt \in Options, NEW w, NEW c \in Conns, NEW s, NEW a, NEW p, At(w, c, s, a, p),
         StartedOK(s, a, p), s.post_left = 0, NEW ch, ch.k \in Nat
  PROVE  WorldOK(Parsed(FindErrorFile(w, c), c, TRUE, ch))
<1>1. /\ s \in State /\ a \in App /\ p \in Peer /\ w.hs[c] = s
  BY AtTypes DEF At
<1>2. CASE opt.page404
  <2> DEFINE t == InitFile(s, TRUE)
  <2>1. FindErrorFile(w, c) = Put(w, c, t)
    BY <1>1, <1>2 DEF FindErrorFile
  <2>2. t \in State /\ t.mem = s.mem /\ StartedOK(t, a, p)
    BY <1>1, FileOK
  <2> HIDE DEF t
  <2>3. At(Put(w, c, t), c, t, a, p)
    BY <2>2, PutAt
  <2> QED
    BY <2>1, <2>2, <2>3, ParsedOK
<1>3. CASE ~opt.page404
  <2>1. FindErrorFile(w, c) = w
    BY <1>3 DEF FindErrorFile
  <2> QED
    BY <2>1, ParsedOK
<1> QED
  BY <1>2, <1>3

LEMMA KeepIs ==
  ASSUME opt \in Options, NEW s \in State, NEW a, NEW p \in Peer, StartedOK(s, a, p)
  PROVE  LET t == [s EXCEPT !.keepalive = opt.keepalive /\ p.keep] IN
         /\ t \in State /\ t.mem = s.mem /\ t.req = s.req /\ t.post_left = s.post_left
         /\ t.no_auto_wnd = s.no_auto_wnd /\ t.post_finished = s.post_finished
         /\ (Quiet(s) => Quiet(t)) /\ StartedOK(t, a, p)
<1> DEFINE k == (opt.keepalive /\ p.keep)
           t == [s EXCEPT !.keepalive = k]
<1>1. k \in BOOLEAN
  OBVIOUS
<1> HIDE DEF k
<1>2. /\ t \in State /\ t.mem = s.mem /\ t.pcb = s.pcb /\ t.handle = s.handle /\ t.hdrs = s.hdrs
      /\ t.left = s.left /\ t.req = s.req /\ t.retries = s.retries
      /\ t.post_left = s.post_left /\ t.no_auto_wnd = s.no_auto_wnd /\ t.unrecved = s.unrecved
      /\ t.post_finished = s.post_finished /\ t.unacked = s.unacked /\ t.debt = s.debt
  BY <1>1 DEF State
<1> HIDE DEF t
<1>3. StartedOK(t, a, p) /\ (Quiet(s) => Quiet(t))
  BY <1>2 DEF StartedOK, PostingOK, ManualOK, ToldOK, WindowOK, Quiet
<1> QED
  BY <1>2, <1>3 DEF t, k

(* http_parse_request(): a request that has all the pieces the peer has     *)
(* sent is the first since the last answer; any other is none.              *)
LEMMA ParseRequestOK ==
  ASSUME opt \in Options, NEW w, NEW c \in Conns, NEW s, NEW a, NEW p, At(w, c, s, a, p),
         StartedOK(s, a, p), s.post_left = 0,
         s.req.tot_len = p.sent =>
           Quiet(s) /\ ~a.begun /\ ~s.no_auto_wnd /\ ~s.post_finished,
         NEW ch \in Choice
  PROVE  WorldOK(ParseRequest(w, c, ch))
<1> DEFINE whole == s.req.tot_len >= opt.header
           t == [s EXCEPT !.keepalive = opt.keepalive /\ p.keep]
           keep == Put(w, c, t)
           bad == Parsed(FindErrorFile(w, c), c, TRUE, ch)
<1>1. /\ s \in State /\ a \in App /\ p \in Peer /\ w.hs[c] = s /\ w.peer[c] = p
      /\ ch.k \in Nat
  BY AtTypes DEF At, Choice
<1>2. ParseRequest(w, c, ch)
        = IF p.method = "PUT" \/ p.sent # s.req.tot_len THEN bad
          ELSE IF ~whole /\ s.req.clen <= QueueLen THEN w
          ELSE IF ~whole THEN bad
          ELSE IF p.method = "nolength" THEN Parsed(FindErrorFile(keep, c), c, TRUE, ch)
          ELSE IF p.method = "POST" THEN Parsed(PostRequest(keep, c, ch), c, FALSE, ch)
          ELSE Parsed(Put(keep, c, FindFile(keep.hs[c], p.found)), c, FALSE, ch)
  BY <1>1 DEF ParseRequest
<1>3. WorldOK(bad)
  BY <1>1, BadOK
<1>4. /\ t \in State /\ t.mem = s.mem /\ t.req = s.req /\ t.post_left = s.post_left
      /\ t.no_auto_wnd = s.no_auto_wnd /\ t.post_finished = s.post_finished
      /\ (Quiet(s) => Quiet(t)) /\ StartedOK(t, a, p)
  BY <1>1, KeepIs
<1> HIDE DEF bad, t
<1>5. At(keep, c, t, a, p) /\ keep.hs[c] = t
  <2>1. At(keep, c, t, a, p)
    BY <1>4, PutAt
  <2> QED
    BY <2>1, AtTypes
<1> HIDE DEF keep
<1>6. CASE p.method = "PUT" \/ p.sent # s.req.tot_len
  BY <1>2, <1>3, <1>6
<1>7. CASE ~(p.method = "PUT" \/ p.sent # s.req.tot_len) /\ ~whole /\ s.req.clen <= QueueLen
  <2>1. Quiet(s) /\ ~a.begun /\ ~s.no_auto_wnd /\ ~s.post_finished /\ s.req.tot_len = p.sent
    BY <1>7
  <2>2. p.sent \in Nat /\ p.sent < opt.header
    BY <1>1, <1>7, Builds DEF Peer
  <2>3. Bounded(s)
    BY <1>7 DEF Bounded, StartedOK
  <2>4. WaitOK(s, a, p)
    BY <2>1, <2>2 DEF WaitOK, StartedOK
  <2>5. ConnOK(s, a, p)
    BY <2>1, <2>3, <2>4 DEF ConnOK, ReadyOK, StartedOK, FreshOK
  <2>6. ParseRequest(w, c, ch) = w
    BY <1>2, <1>7
  <2> QED
    BY <2>5, <2>6, WholeWorld
<1>8. CASE ~(p.method = "PUT" \/ p.sent # s.req.tot_len) /\ ~whole /\ ~(s.req.clen <= QueueLen)
  BY <1>2, <1>3, <1>8
<1>9. CASE ~(p.method = "PUT" \/ p.sent # s.req.tot_len) /\ whole
  <2>1. Quiet(t) /\ ~a.begun /\ ~t.no_auto_wnd /\ ~t.post_finished /\ t.req.tot_len = p.sent
    BY <1>4, <1>9
  <2>2. p.sent >= opt.header
    BY <1>9
  <2>3. CASE p.method = "nolength"
    <3>1. ParseRequest(w, c, ch) = Parsed(FindErrorFile(keep, c), c, TRUE, ch)
      BY <1>2, <1>9, <2>3
    <3> QED
      BY <1>1, <1>4, <1>5, <3>1, BadOK
  <2>4. CASE p.method = "POST"
    <3>1. ParseRequest(w, c, ch) = Parsed(PostRequest(keep, c, ch), c, FALSE, ch)
      BY <1>2, <1>9, <2>4
    <3>2. \E u \in State, d \in App :
            At(PostRequest(keep, c, ch), c, u, d, p) /\ StartedOK(u, d, p)
      BY <1>4, <1>5, <2>1, <2>2, <2>4, PostRequestOK
    <3> QED
      BY <1>1, <3>1, <3>2, ParsedOK
  <2>5. CASE p.method # "nolength" /\ p.method # "POST"
    <3> DEFINE f == p.found \/ opt.page404
               u == InitFile(t, f)
    <3>1. ParseRequest(w, c, ch) = Parsed(Put(keep, c, u), c, FALSE, ch)
      BY <1>2, <1>5, <1>9, <2>5 DEF FindFile
    <3>2. f \in BOOLEAN
      OBVIOUS
    <3> HIDE DEF f
    <3>3. u \in State /\ u.mem = t.mem /\ StartedOK(u, a, p)
      BY <1>1, <1>4, <3>2, FileOK
    <3> HIDE DEF u
    <3>4. At(Put(keep, c, u), c, u, a, p)
      BY <1>5, <3>3, PutAt
    <3> QED
      BY <1>1, <3>1, <3>3, <3>4, ParsedOK
  <2> QED
    BY <2>3, <2>4, <2>5
<1> QED
  BY <1>6, <1>7, <1>8, <1>9

-----------------------------------------------------------------------------
(* The callbacks.                                                           *)

LEMMA HereAt ==
  ASSUME HttpdInv, NEW c \in Conns
  PROVE  /\ opt \in Options /\ WorldOK(World) /\ World \in Worlds
         /\ At(World, c, hs[c], app[c], peer[c]) /\ ConnOK(hs[c], app[c], peer[c])
         /\ hs[c] \in State /\ app[c] \in App /\ peer[c] \in Peer
         /\ World.hs = hs /\ World.list = list /\ World.app = app /\ World.peer = peer
<1>1. World.hs = hs /\ World.list = list /\ World.app = app /\ World.peer = peer
  BY DEF World
<1>2. opt \in Options /\ WorldOK(World) /\ World \in Worlds /\ ListOK(World)
      /\ \A d \in Conns : ConnOK(World.hs[d], World.app[d], World.peer[d])
  BY DEF HttpdInv, WorldOK
<1>3. At(World, c, hs[c], app[c], peer[c]) /\ ConnOK(hs[c], app[c], peer[c])
  BY <1>1, <1>2 DEF At
<1> QED
  BY <1>1, <1>2, <1>3, AtTypes

LEMMA OpenIs ==
  ASSUME HttpdInv, NEW c \in Conns, InState(c)
  PROVE  ReadyOK(hs[c], app[c], peer[c]) /\ FreshOK(hs[c])
  BY HereAt DEF InState, ConnOK, GoneOK

(* A state for c, which joins the list.                                     *)
LEMMA AddedAt ==
  ASSUME opt \in Options, NEW w, NEW c \in Conns, NEW s, NEW a, NEW p, At(w, c, s, a, p),
         s.mem # "heap", NEW t \in State, t.mem = "heap"
  PROVE  At(AddConnection(Put(w, c, t), c), c, t, a, p)
<1> DEFINE v == AddConnection(Put(w, c, t), c)
<1>1. /\ s \in State /\ a \in App /\ p \in Peer /\ w \in Worlds /\ ListOK(w)
      /\ w.hs[c] = s /\ w.app[c] = a /\ w.peer[c] = p
  BY AtTypes DEF At
<1>2. v = [hs |-> [w.hs EXCEPT ![c] = t], list |-> IF opt.kill THEN <<c>> \o w.list ELSE w.list,
           app |-> w.app, peer |-> w.peer]
  <2>1. Put(w, c, t) = [hs |-> [w.hs EXCEPT ![c] = t], list |-> w.list, app |-> w.app,
                        peer |-> w.peer]
    BY <1>1, PutIs
  <2> DEFINE u == Put(w, c, t)
  <2>2. CASE opt.kill
    <3> HIDE DEF u
    <3>1. v = [u EXCEPT !.list = <<c>> \o u.list]
      BY <2>2 DEF AddConnection, u
    <3>2. u.list = w.list /\ u.hs = [w.hs EXCEPT ![c] = t] /\ u.app = w.app /\ u.peer = w.peer
          /\ u = [hs |-> u.hs, list |-> u.list, app |-> u.app, peer |-> u.peer]
      BY <2>1 DEF u
    <3>3. v = [hs |-> u.hs, list |-> <<c>> \o u.list, app |-> u.app, peer |-> u.peer]
      BY <3>1, <3>2
    <3> QED
      BY <2>2, <3>2, <3>3
  <2>3. CASE ~opt.kill
    BY <2>1, <2>3 DEF AddConnection
  <2> QED
    BY <2>2, <2>3
<1>3. \A d \in Conns : IF d = c THEN v.hs[d] = t ELSE v.hs[d] = w.hs[d]
  BY <1>1, <1>2 DEF Worlds
<1>4. ListOK(v) /\ v.list \in Seq(Conns)
  <2>1. CASE opt.kill
    <3>1. IsInjective(w.list) /\ Range(w.list) = {d \in Conns : w.hs[d].mem = "heap"}
          /\ w.list \in Seq(Conns)
      BY <1>1, <2>1 DEF ListOK, Worlds
    <3>2. v.list = <<c>> \o w.list /\ c \notin Range(w.list)
      BY <1>1, <1>2, <2>1, <3>1
    <3> HIDE DEF v
    <3>3. v.list \in Seq(Conns) /\ IsInjective(v.list) /\ Range(v.list) = Range(w.list) \cup {c}
      BY <3>1, <3>2, PrependKeeps
    <3>4. Range(w.list) \cup {c} = {d \in Conns : v.hs[d].mem = "heap"}
      BY <1>1, <1>3, <3>1
    <3> QED
      BY <2>1, <3>3, <3>4 DEF ListOK
  <2>2. CASE ~opt.kill
    <3>1. v.list = w.list
      BY <1>2, <2>2
    <3> HIDE DEF v
    <3> QED
      BY <1>1, <2>2, <3>1 DEF ListOK, Worlds
  <2> HIDE DEF v
  <2> QED
    BY <2>1, <2>2, Zenon
<1>5. v \in Worlds
  <2>1. [w.hs EXCEPT ![c] = t] \in [Conns -> State] /\ v.hs = [w.hs EXCEPT ![c] = t]
    BY <1>1, <1>2 DEF Worlds
  <2>2. v = [hs |-> v.hs, list |-> v.list, app |-> w.app, peer |-> w.peer]
    BY <1>2
  <2> HIDE DEF v
  <2> QED
    BY <1>1, <1>4, <2>1, <2>2 DEF Worlds
<1>6. \A d \in Conns \ {c} : ConnOK(v.hs[d], v.app[d], v.peer[d])
  <2>1. v.app = w.app /\ v.peer = w.peer
    BY <1>2
  <2> QED
    BY <1>3, <2>1 DEF At
<1>7. v.hs[c] = t /\ v.app[c] = a /\ v.peer[c] = p
  BY <1>1, <1>2, <1>3
<1> HIDE DEF v
<1>8. At(v, c, t, a, p)
  BY <1>4, <1>5, <1>6, <1>7 DEF At
<1> QED
  BY <1>8 DEF v

(* A connection that is closed is the only one that changes.                *)
LEMMA CloseLeaves ==
  ASSUME NEW w \in Worlds, NEW d \in Conns, NEW c \in Conns, c # d, NEW how
  PROVE  CloseOrAbort(w, d, how).hs[c] = w.hs[c]
<1> DEFINE s == w.hs[d]
           told == s.post_left # 0 \/ (s.no_auto_wnd /\ s.unrecved # 0)
           u == IF told THEN PostFinished(w, d) ELSE w
           x == Freed(StateEof(u.hs[d]))
           y == u.app
           r == [hs |-> [w.hs EXCEPT ![d] = x], list |-> w.list, app |-> y,
                 peer |-> [w.peer EXCEPT ![d] = NoPeer]]
           pcb == IF how = "fails" THEN "closing" ELSE "over"
<1>1. u = [hs |-> w.hs, list |-> w.list, app |-> y, peer |-> w.peer]
  BY DEF PostFinished, Worlds
<1>2. CloseOrAbort(w, d, how) = [StateFree(u, d) EXCEPT !.hs[d].pcb = pcb]
  BY DEF CloseOrAbort
<1>3. StateFree(u, d) = RemoveConnection([Put(u, d, x) EXCEPT !.peer[d] = NoPeer], d)
  BY DEF StateFree
<1> HIDE DEF y, x
<1>4. [Put(u, d, x) EXCEPT !.peer[d] = NoPeer] = r
  <2> DEFINE z == [hs |-> w.hs, list |-> w.list, app |-> y, peer |-> w.peer]
  <2>1. Put(z, d, x) = [hs |-> [w.hs EXCEPT ![d] = x], list |-> w.list, app |-> y,
                        peer |-> w.peer]
    BY DEF Put
  <2>2. u = z
    BY <1>1
  <2> HIDE DEF u, z
  <2> QED
    BY <2>1, <2>2
<1> HIDE DEF u
<1>5. [RemoveConnection(r, d) EXCEPT !.hs[d].pcb = pcb].hs[c] = w.hs[c]
  BY DEF Worlds, RemoveConnection
<1> QED
  BY <1>2, <1>3, <1>4, <1>5

(* http_accept(), with or without the death of another connection.          *)
LEMMA AcceptOK ==
  ASSUME HttpdInv, NEW c \in Conns, Accept(c)
  PROVE  \E w : Becomes(w) /\ WorldOK(w)
<1> DEFINE w == Alloc(World)
           new == [NoState EXCEPT !.mem = "heap", !.pcb = "open"]
<1>1. /\ opt \in Options /\ WorldOK(World) /\ World \in Worlds
      /\ At(World, c, hs[c], app[c], peer[c]) /\ ConnOK(hs[c], app[c], peer[c])
      /\ World.hs = hs /\ World.list = list /\ World.app = app /\ World.peer = peer
  BY HereAt
<1>2. hs[c].pcb = "none" /\ hs[c].mem # "heap"
  BY <1>1 DEF Accept, ConnOK, ReadyOK
<1>3. WorldOK(w) /\ w.hs[c] = hs[c]
  <2>1. CASE Full(World) /\ Len(list) > 1
    <3> DEFINE d == Last(list)
    <3>1. w = CloseOrAbort(World, d, "abort")
      BY <1>1, <2>1 DEF Alloc
    <3>2. list \in Seq(Conns) /\ ListOK(World)
      BY <1>1 DEF Worlds, WorldOK
    <3>3. opt.kill
      BY <1>1, <2>1, <3>2 DEF ListOK
    <3>4. d \in Range(list)
      BY <2>1, <3>2, MemInRange DEF Last
    <3>5. d \in Conns /\ hs[d].mem = "heap"
      BY <1>1, <3>2, <3>3, <3>4 DEF ListOK
    <3> HIDE DEF d
    <3>6. /\ At(World, d, hs[d], app[d], peer[d]) /\ ReadyOK(hs[d], app[d], peer[d])
      BY <3>5, HereAt DEF ConnOK
    <3>7. WorldOK(CloseOrAbort(World, d, "abort"))
      BY <1>1, <3>5, <3>6, CloseOK DEF ReadyOK
    <3>8. CloseOrAbort(World, d, "abort").hs[c] = World.hs[c]
      BY <1>1, <1>2, <3>5, CloseLeaves
    <3> QED
      BY <1>1, <3>1, <3>7, <3>8
  <2>2. CASE ~(Full(World) /\ Len(list) > 1)
    BY <1>1, <2>2 DEF Alloc
  <2> QED
    BY <2>1, <2>2
<1>4. Becomes(IF Full(w) THEN [w EXCEPT !.hs[c].pcb = "over"]
              ELSE AddConnection(Put(w, c, new), c))
  BY DEF Accept
<1> HIDE DEF w
<1>5. At(w, c, hs[c], NoApp, NoPeer)
  <2>1. ConnOK(w.hs[c], w.app[c], w.peer[c])
    BY <1>3 DEF WorldOK
  <2>2. w.app[c] = NoApp /\ w.peer[c] = NoPeer
    BY <1>2, <1>3, <2>1 DEF ConnOK, GoneOK
  <2> QED
    BY <1>3, <2>2 DEF WorldOK, At
<1>6. GoneOK(hs[c], NoApp, NoPeer)
  <2>1. ConnOK(w.hs[c], w.app[c], w.peer[c]) /\ w.app[c] = NoApp /\ w.peer[c] = NoPeer
    BY <1>3, <1>5 DEF WorldOK, At
  <2> QED
    BY <1>2, <1>3, <2>1 DEF ConnOK
<1>7. CASE Full(w)
  <2> DEFINE t == [hs[c] EXCEPT !.pcb = "over"]
             v == [w EXCEPT !.hs[c].pcb = "over"]
  <2>1. At(v, c, t, NoApp, NoPeer)
    BY <1>5, PcbAt
  <2>2. hs[c] \in State
    BY HereAt
  <2>3. ConnOK(t, NoApp, NoPeer)
    <3>1. /\ t.mem = hs[c].mem /\ t.pcb = "over" /\ t.handle = hs[c].handle /\ t.hdrs = hs[c].hdrs
          /\ t.left = hs[c].left /\ t.req = hs[c].req /\ t.retries = hs[c].retries
          /\ t.keepalive = hs[c].keepalive /\ t.post_left = hs[c].post_left
          /\ t.no_auto_wnd = hs[c].no_auto_wnd /\ t.unrecved = hs[c].unrecved
          /\ t.post_finished = hs[c].post_finished /\ t.unacked = hs[c].unacked
          /\ t.debt = hs[c].debt
      BY <2>2 DEF State
    <3> HIDE DEF t
    <3> QED
      BY <1>2, <1>6, <3>1 DEF ConnOK, GoneOK, Empty
  <2>4. WorldOK(v)
    BY <2>1, <2>3, WholeWorld
  <2>5. Becomes(v)
    BY <1>4, <1>7
  <2> QED
    BY <2>4, <2>5
<1>8. CASE ~Full(w)
  <2> DEFINE v == AddConnection(Put(w, c, new), c)
  <2>1. /\ new \in State /\ new.mem = "heap" /\ new.pcb = "open" /\ Empty(new) /\ ~new.unacked
        /\ new.debt = 0
    BY NoStateIs DEF State, Empty
  <2> HIDE DEF new
  <2>2. At(v, c, new, NoApp, NoPeer)
    BY <1>1, <1>2, <1>5, <2>1, AddedAt
  <2> HIDE DEF v
  <2>3. Bounded(new) /\ FreshOK(new)
    BY <2>1, HttpdAssumption DEF Bounded, FreshOK, Empty, NoReq
  <2>4. /\ WaitOK(new, NoApp, NoPeer) /\ PostingOK(new, NoApp, NoPeer)
        /\ ManualOK(new, NoApp, NoPeer) /\ ToldOK(new, NoApp, NoPeer)
    BY <2>1, NoPeerIs DEF WaitOK, PostingOK, ManualOK, ToldOK, Empty, Quiet
  <2>5. WindowOK(new, NoApp, NoPeer)
    <3>1. Room(NoApp, NoPeer) = 0 * MaxBody /\ MaxBody \in Nat
      BY NoPeerIs, HttpdAssumption DEF Room
    <3>2. Room(NoApp, NoPeer) = 0
      BY <3>1
    <3> QED
      BY <2>1, <3>2 DEF WindowOK, Empty
  <2>6. ConnOK(new, NoApp, NoPeer)
    BY <1>1, <2>1, <2>3, <2>4, <2>5, NoPeerOK DEF ConnOK, ReadyOK
  <2>7. WorldOK(v)
    BY <2>2, <2>6, WholeWorld
  <2>8. Becomes(v)
    BY <1>4, <1>8 DEF v
  <2> QED
    BY <2>7, <2>8
<1> QED
  BY <1>7, <1>8

(* The peer asks when it has the answer to its last request, so nothing is  *)
(* left of that.                                                            *)
LEMMA AskOK ==
  ASSUME HttpdInv, NEW c \in Conns, Ask(c)
  PROVE  \E w : Becomes(w) /\ WorldOK(w)
<1> DEFINE s == hs[c]
           a == app[c]
           p == peer[c]
<1>1. /\ opt \in Options /\ World \in Worlds /\ At(World, c, s, a, p)
      /\ s \in State /\ a \in App /\ p \in Peer
      /\ World.hs = hs /\ World.list = list /\ World.app = app /\ World.peer = peer
  BY HereAt
<1>2. ReadyOK(s, a, p) /\ FreshOK(s)
  BY OpenIs DEF Ask
<1>3. PICK m \in Methods, f \in {TRUE, opt.page404}, b \in 0 .. MaxBody,
           k \in {FALSE, opt.keepalive} :
        /\ m # "POST" => b = 0
        /\ peer' = [peer EXCEPT ![c] = [method |-> m, found |-> f, body |-> b, keep |-> k,
                                        sent |-> 0, count |-> p.count + 1]]
  BY DEF Ask
<1> DEFINE q == [method |-> m, found |-> f, body |-> b, keep |-> k, sent |-> 0,
                 count |-> p.count + 1]
           w == [hs |-> hs, list |-> list, app |-> [app EXCEPT ![c] = NoApp],
                 peer |-> [peer EXCEPT ![c] = q]]
<1>4. Becomes(w)
  BY <1>3 DEF Becomes, Ask
<1>5. /\ p.count < opt.requests /\ (p.count = 0 \/ p.sent >= Length(p))
      /\ ~s.handle /\ s.hdrs = 0 /\ ~s.unacked /\ s.post_left + s.unrecved = 0
  BY DEF Ask
<1>6. /\ q \in Peer /\ q.method = m /\ q.body = b /\ q.sent = 0 /\ q.count = p.count + 1
  <2>1. f \in BOOLEAN /\ k \in BOOLEAN
    <3>1. opt.page404 \in BOOLEAN /\ opt.keepalive \in BOOLEAN
      BY <1>1, Builds
    <3>2. f = TRUE \/ f = opt.page404
      OBVIOUS
    <3>3. k = FALSE \/ k = opt.keepalive
      OBVIOUS
    <3>4. f \in BOOLEAN
      BY <3>1, <3>2, Zenon
    <3>5. k \in BOOLEAN
      BY <3>1, <3>3, Zenon
    <3> QED
      BY <3>4, <3>5
  <2>2. m \in {"GET", "PUT", "POST", "nolength"} /\ b \in Nat /\ p.count + 1 \in Nat
    BY <1>1, HttpdAssumption DEF Methods, Peer
  <2> QED
    BY <2>1, <2>2 DEF Peer
<1>7. /\ s.post_left = 0 /\ s.unrecved = 0 /\ ~s.no_auto_wnd /\ ~s.post_finished
      /\ s.debt \in Int /\ p.count \in Nat /\ opt.requests \in Nat /\ opt.header \in Nat
      /\ opt.header > 0 /\ MaxBody \in Nat
  <2>1. s.post_left \in Nat /\ s.unrecved \in Nat /\ s.debt \in Int /\ p.count \in Nat
    BY <1>1 DEF State, Peer
  <2>2. s.post_left = 0 /\ s.unrecved = 0
    BY <1>5, <2>1
  <2>3. ~s.no_auto_wnd /\ ~s.post_finished
    BY <1>2, <1>5, <2>2 DEF FreshOK
  <2> QED
    BY <1>1, <2>1, <2>2, <2>3, Builds
<1>8. s.req = NoReq
  <2>1. Length(p) >= opt.header /\ Length(p) \in Int /\ p.sent \in Nat
    BY <1>1, <1>7 DEF Length, Peer
  <2>2. CASE p.count = 0
    BY <1>2, <2>2 DEF ReadyOK, PeerOK, WaitOK
  <2>3. CASE p.sent >= Length(p)
    <3>1. ~(p.sent < opt.header)
      BY <1>7, <2>1, <2>3
    <3> QED
      BY <1>2, <3>1 DEF ReadyOK, WaitOK
  <2> QED
    BY <1>5, <2>2, <2>3
<1> HIDE DEF q
<1>9. At(w, c, s, NoApp, q)
  <2>1. w = [hs |-> [World.hs EXCEPT ![c] = s], list |-> World.list,
             app |-> [World.app EXCEPT ![c] = NoApp], peer |-> [World.peer EXCEPT ![c] = q]]
    BY <1>1 DEF Worlds
  <2> HIDE DEF w
  <2> QED
    BY <1>1, <1>6, <2>1, NoPeerIs, ChangeAt
<1> HIDE DEF w
<1>10. PeerOK(q)
  BY <1>3, <1>5, <1>6, <1>7 DEF PeerOK, Length
<1>11. /\ WaitOK(s, NoApp, q) /\ PostingOK(s, NoApp, q) /\ ManualOK(s, NoApp, q)
       /\ ToldOK(s, NoApp, q)
  BY <1>5, <1>7, <1>8, NoPeerIs DEF WaitOK, PostingOK, ManualOK, ToldOK, Quiet
<1>12. WindowOK(s, NoApp, q)
  <2> DEFINE r == p.count * MaxBody
  <2>1. Room(NoApp, q) = r
    <3>1. q.count # 0 /\ q.count - 1 = p.count
      BY <1>6, <1>7
    <3> QED
      BY <3>1, NoPeerIs DEF Room
  <2>2. r \in Int /\ Room(a, p) \in Int /\ Room(a, p) <= r
    <3>1. CASE p.count = 0 \/ a.begun
      BY <1>7, <3>1 DEF Room
    <3>2. CASE ~(p.count = 0 \/ a.begun)
      <4>1. p.count > 0
        BY <1>7, <3>2
      <4> DEFINE r0 == (p.count - 1) * MaxBody
      <4>2. r0 \in Nat /\ r = r0 + MaxBody
        BY <1>7, <4>1, AnotherBody
      <4>3. Room(a, p) = r0
        BY <3>2 DEF Room
      <4> HIDE DEF r, r0
      <4> QED
        BY <1>7, <4>2, <4>3
    <3> QED
      BY <3>1, <3>2
  <2>3. s.debt <= 0 /\ 0 <= s.debt + Room(a, p)
    BY <1>2, <1>7 DEF ReadyOK, WindowOK
  <2> HIDE DEF r
  <2>4. 0 <= s.debt + Room(NoApp, q)
    BY <1>7, <2>1, <2>2, <2>3
  <2> QED
    BY <1>7, <2>3, <2>4 DEF WindowOK
<1>13. ConnOK(s, NoApp, q)
  BY <1>2, <1>10, <1>11, <1>12 DEF ConnOK, ReadyOK
<1> QED
  BY <1>4, <1>9, <1>13, WholeWorld

(* http_sent(): nothing is unacknowledged while data of a POST is expected, *)
(* nor before the header of a request is there.                             *)
LEMMA SentOK ==
  ASSUME HttpdInv, NEW c \in Conns, Sent(c)
  PROVE  \E w : Becomes(w) /\ WorldOK(w)
<1> DEFINE s == hs[c]
           a == app[c]
           p == peer[c]
           t == [s EXCEPT !.unacked = FALSE, !.retries = 0]
           v == Put(World, c, t)
<1>1. /\ opt \in Options /\ World \in Worlds /\ At(World, c, s, a, p)
      /\ s \in State /\ a \in App /\ p \in Peer
  BY HereAt
<1>2. ReadyOK(s, a, p) /\ s.unacked
  BY OpenIs DEF Sent
<1>3. PICK ch \in SendChoice : Becomes(Send(v, c, ch))
  BY DEF Sent
<1>4. /\ t \in State /\ t.mem = s.mem /\ t.pcb = s.pcb /\ t.handle = s.handle /\ t.hdrs = s.hdrs
      /\ t.left = s.left /\ t.req = s.req /\ t.retries = 0
      /\ t.post_left = s.post_left /\ t.no_auto_wnd = s.no_auto_wnd /\ t.unrecved = s.unrecved
      /\ t.post_finished = s.post_finished /\ t.unacked = FALSE /\ t.debt = s.debt
  BY <1>1 DEF State
<1> HIDE DEF t
<1>5. s.post_left = 0 /\ s.req = NoReq /\ p.sent > 0
  BY <1>1, <1>2 DEF ReadyOK, PostingOK, WaitOK, Quiet, State, Peer
<1>6. At(v, c, t, a, p)
  BY <1>1, <1>4, PutAt
<1>7. ReadyOK(t, a, p)
  <2>1. Bounded(t)
    BY <1>2, <1>4, HttpdAssumption DEF ReadyOK, Bounded
  <2>2. WaitOK(t, a, p) /\ PostingOK(t, a, p) /\ ManualOK(t, a, p)
    BY <1>1, <1>2, <1>4, <1>5 DEF ReadyOK, WaitOK, PostingOK, ManualOK, Peer
  <2>3. ToldOK(t, a, p) /\ WindowOK(t, a, p)
    BY <1>2, <1>4 DEF ReadyOK, ToldOK, WindowOK
  <2> QED
    BY <1>2, <1>4, <2>1, <2>2, <2>3 DEF ReadyOK
<1>8. ch.k \in Nat
  BY DEF SendChoice
<1> HIDE DEF v
<1> QED
  BY <1>1, <1>3, <1>4, <1>5, <1>6, <1>7, <1>8, SendOK

(* http_poll().                                                             *)
LEMMA PollOK ==
  ASSUME HttpdInv, NEW c \in Conns, Poll(c)
  PROVE  \E w : Becomes(w) /\ WorldOK(w)
<1> DEFINE s == hs[c]
           a == app[c]
           p == peer[c]
           retries == s.retries + 1
           t == [s EXCEPT !.retries = retries]
           v == Put(World, c, t)
<1>1. /\ opt \in Options /\ World \in Worlds /\ At(World, c, s, a, p)
      /\ s \in State /\ a \in App /\ p \in Peer
  BY HereAt
<1>2. ReadyOK(s, a, p) /\ FreshOK(s)
  BY OpenIs DEF Poll
<1>3. PICK ch \in SendChoice :
        Becomes(IF v.hs[c].retries = HTTPD_MAX_RETRIES THEN CloseOrAbort(v, c, ch.how)
                ELSE IF s.handle THEN Send(v, c, ch) ELSE v)
  BY DEF Poll
<1>4. retries \in Nat /\ retries <= HTTPD_MAX_RETRIES /\ HTTPD_MAX_RETRIES \in Nat
  <2>1. s.retries \in Nat /\ s.retries < HTTPD_MAX_RETRIES /\ HTTPD_MAX_RETRIES \in Nat
    BY <1>1, <1>2, HttpdAssumption DEF State, ReadyOK, Bounded
  <2> QED
    BY <2>1
<1> HIDE DEF retries
<1>5. /\ t \in State /\ t.mem = s.mem /\ t.pcb = s.pcb /\ t.handle = s.handle /\ t.hdrs = s.hdrs
      /\ t.left = s.left /\ t.req = s.req /\ t.retries = retries
      /\ t.post_left = s.post_left /\ t.no_auto_wnd = s.no_auto_wnd /\ t.unrecved = s.unrecved
      /\ t.post_finished = s.post_finished /\ t.unacked = s.unacked /\ t.debt = s.debt
  BY <1>1, <1>4 DEF State
<1> HIDE DEF t
<1>6. At(v, c, t, a, p)
  BY <1>1, <1>5, PutAt
<1>7. v.hs[c] = t
  BY <1>6 DEF At
<1> HIDE DEF v
<1>8. /\ PeerOK(p) /\ PostingOK(t, a, p) /\ ManualOK(t, a, p) /\ ToldOK(t, a, p)
      /\ WindowOK(t, a, p) /\ FreshOK(t)
  BY <1>2, <1>5 DEF ReadyOK, PostingOK, ManualOK, ToldOK, WindowOK, FreshOK
<1>9. WaitOK(t, a, p)
  BY <1>2, <1>5 DEF ReadyOK, WaitOK, Quiet
<1>10. retries # HTTPD_MAX_RETRIES => ReadyOK(t, a, p)
  <2> SUFFICES ASSUME retries # HTTPD_MAX_RETRIES PROVE ReadyOK(t, a, p)
    OBVIOUS
  <2>1. retries < HTTPD_MAX_RETRIES
    BY <1>4
  <2>2. Bounded(t)
    BY <1>2, <1>5, <2>1 DEF ReadyOK, Bounded
  <2> QED
    BY <1>2, <1>5, <1>8, <1>9, <2>2 DEF ReadyOK
<1>11. CASE retries = HTTPD_MAX_RETRIES
  <2>1. Becomes(CloseOrAbort(v, c, ch.how))
    BY <1>3, <1>5, <1>7, <1>11
  <2> QED
    BY <1>1, <1>6, <1>8, <2>1, CloseOK
<1>12. CASE retries # HTTPD_MAX_RETRIES /\ s.handle
  <2>1. Becomes(Send(v, c, ch))
    BY <1>3, <1>5, <1>7, <1>12
  <2>2. t.post_left = 0 /\ t.req = NoReq /\ p.sent > 0
    BY <1>1, <1>2, <1>5, <1>12 DEF ReadyOK, PostingOK, WaitOK, Quiet, State, Peer
  <2>3. ch.k \in Nat
    BY DEF SendChoice
  <2> QED
    BY <1>1, <1>6, <1>10, <1>12, <2>1, <2>2, <2>3, SendOK
<1>13. CASE retries # HTTPD_MAX_RETRIES /\ ~s.handle
  <2>1. Becomes(v)
    BY <1>3, <1>5, <1>7, <1>13
  <2>2. ConnOK(t, a, p)
    BY <1>8, <1>10, <1>13 DEF ConnOK, ReadyOK
  <2> QED
    BY <1>6, <2>1, <2>2, WholeWorld
<1> QED
  BY <1>11, <1>12, <1>13

LEMMA PollClosingOK ==
  ASSUME HttpdInv, NEW c \in Conns, PollClosing(c)
  PROVE  \E w : Becomes(w) /\ WorldOK(w)
<1> DEFINE s == hs[c]
           t == [s EXCEPT !.pcb = "over"]
           v == [World EXCEPT !.hs[c].pcb = "over"]
<1>1. /\ At(World, c, s, app[c], peer[c]) /\ ConnOK(s, app[c], peer[c]) /\ s \in State
  BY HereAt
<1>2. s.pcb = "closing" /\ Becomes(v)
  BY DEF PollClosing
<1>3. At(v, c, t, app[c], peer[c])
  BY <1>1, PcbAt
<1>4. /\ t.mem = s.mem /\ t.pcb = "over" /\ t.handle = s.handle /\ t.hdrs = s.hdrs
      /\ t.left = s.left /\ t.req = s.req /\ t.retries = s.retries /\ t.keepalive = s.keepalive
      /\ t.post_left = s.post_left /\ t.no_auto_wnd = s.no_auto_wnd /\ t.unrecved = s.unrecved
      /\ t.post_finished = s.post_finished /\ t.unacked = s.unacked /\ t.debt = s.debt
  BY <1>1 DEF State
<1> HIDE DEF t
<1>5. ConnOK(t, app[c], peer[c])
  BY <1>1, <1>2, <1>4 DEF ConnOK, ReadyOK, GoneOK, Empty
<1> QED
  BY <1>2, <1>3, <1>5, WholeWorld

LEMMA FinOK ==
  ASSUME HttpdInv, NEW c \in Conns, Fin(c)
  PROVE  \E w : Becomes(w) /\ WorldOK(w)
<1>1. opt \in Options /\ At(World, c, hs[c], app[c], peer[c])
  BY HereAt
<1>2. ReadyOK(hs[c], app[c], peer[c])
  BY OpenIs DEF Fin
<1>3. PICK how \in {"ok", "fails"} : Becomes(CloseOrAbort(World, c, how))
  BY DEF Fin
<1>4. WorldOK(CloseOrAbort(World, c, how))
  BY <1>1, <1>2, CloseOK DEF ReadyOK
<1> QED
  BY <1>3, <1>4

(* An application that hears nothing.                                       *)
LEMMA CutAt ==
  ASSUME NEW w, NEW c \in Conns, NEW s, NEW a, NEW p, At(w, c, s, a, p), NEW cut \in BOOLEAN
  PROVE  LET b == [a EXCEPT !.cut = cut] IN
         /\ b \in App /\ b.cut = cut /\ b.got = a.got
         /\ At([w EXCEPT !.app[c].cut = cut], c, s, b, p)
<1> DEFINE b == [a EXCEPT !.cut = cut]
           v == [w EXCEPT !.app[c].cut = cut]
<1>1. s \in State /\ a \in App /\ p \in Peer /\ w \in Worlds /\ w.hs[c] = s
      /\ w.app[c] = a /\ w.peer[c] = p
  BY AtTypes DEF At
<1>2. b \in App /\ b.cut = cut /\ b.got = a.got
  BY <1>1 DEF App
<1>3. v = [hs |-> [w.hs EXCEPT ![c] = s], list |-> w.list,
           app |-> [w.app EXCEPT ![c] = b], peer |-> [w.peer EXCEPT ![c] = p]]
  <2>1. w.hs = [w.hs EXCEPT ![c] = s] /\ w.peer = [w.peer EXCEPT ![c] = p]
    BY <1>1 DEF Worlds
  <2>2. w.app \in [Conns -> App] /\ [w.app EXCEPT ![c].cut = cut] = [w.app EXCEPT ![c] = b]
    BY <1>1 DEF Worlds
  <2>3. v = [hs |-> w.hs, list |-> w.list, app |-> [w.app EXCEPT ![c].cut = cut], peer |-> w.peer]
    BY <1>1 DEF Worlds
  <2> QED
    BY <2>1, <2>2, <2>3
<1> HIDE DEF b, v
<1>4. At(v, c, s, b, p)
  BY <1>1, <1>2, <1>3, ChangeAt
<1> QED
  BY <1>2, <1>4 DEF b, v

(* http_err(): a POST is cut short.                                         *)
LEMMA ErrOK ==
  ASSUME HttpdInv, NEW c \in Conns, Err(c)
  PROVE  \E w : Becomes(w) /\ WorldOK(w)
<1> DEFINE s == hs[c]
           a == app[c]
           p == peer[c]
           g == Gone(s)
           v == StateFree(World, c)
           t == [g EXCEPT !.pcb = "over"]
           b == [a EXCEPT !.cut = TRUE]
           u == [v EXCEPT !.hs[c].pcb = "over", !.app[c].cut = TRUE]
<1>1. /\ opt \in Options /\ At(World, c, s, a, p)
      /\ s \in State /\ a \in App /\ p \in Peer
  BY HereAt
<1>2. ReadyOK(s, a, p)
  BY OpenIs DEF Err
<1>3. Becomes(u)
  BY DEF Err
<1>4. At(v, c, g, a, NoPeer)
  BY <1>1, FreeAt
<1>5. g \in State /\ g.mem = "freed" /\ Empty(g) /\ ~g.unacked /\ g.debt = 0
  BY <1>1, GoneIs
<1> HIDE DEF g, v
<1>6. t \in State /\ t.mem = "freed" /\ t.pcb = "over" /\ Empty(t) /\ ~t.unacked /\ t.debt = 0
  BY <1>5 DEF State, Empty
<1>7. b \in App /\ b.cut = TRUE /\ b.got = a.got
  BY <1>1 DEF App
<1>8. At(u, c, t, b, NoPeer)
  <2> DEFINE y == [v EXCEPT !.hs[c].pcb = "over"]
             z == [y EXCEPT !.app[c].cut = TRUE]
  <2>1. At(y, c, t, a, NoPeer)
    BY <1>4, PcbAt
  <2>2. u = z
    OBVIOUS
  <2> HIDE DEF y, t, u
  <2>3. At(z, c, t, b, NoPeer)
    BY <2>1, CutAt
  <2> HIDE DEF z
  <2> QED
    BY <2>2, <2>3
<1> HIDE DEF t, b, u
<1>9. b.got <= MaxBody
  BY <1>1, <1>2, <1>7, Builds DEF ReadyOK, ToldOK, PeerOK, Length, App, Peer
<1>10. ConnOK(t, b, NoPeer)
  BY <1>1, <1>6, <1>7, <1>9, NoPeerOK DEF ConnOK, GoneOK
<1> QED
  BY <1>3, <1>8, <1>10, WholeWorld

(* httpd_post_data_recved(): the window is held for a POST.                 *)
LEMMA PostDataRecvedOK ==
  ASSUME HttpdInv, NEW c \in Conns, PostDataRecved(c)
  PROVE  \E w : Becomes(w) /\ WorldOK(w)
<1> DEFINE s == hs[c]
           a == app[c]
           p == peer[c]
<1>1. /\ opt \in Options /\ World \in Worlds /\ At(World, c, s, a, p)
      /\ s \in State /\ a \in App /\ p \in Peer
  BY HereAt
<1>2. ReadyOK(s, a, p) /\ s.no_auto_wnd /\ a.finished = 0
  BY OpenIs DEF PostDataRecved
<1>3. PICK n \in 1 .. s.unrecved, ch \in SendChoice :
        LET v == Put(World, c, [s EXCEPT !.unrecved = @ - n, !.debt = @ - n]) IN
        Becomes(IF v.hs[c].post_left + v.hs[c].unrecved = 0
                THEN Send(HandlePostFinished(v, c), c, ch) ELSE v)
  BY DEF PostDataRecved
<1> DEFINE unrecved == s.unrecved - n
           debt == s.debt - n
           t == [s EXCEPT !.unrecved = unrecved, !.debt = debt]
           v == Put(World, c, t)
<1>4. Becomes(IF v.hs[c].post_left + v.hs[c].unrecved = 0
              THEN Send(HandlePostFinished(v, c), c, ch) ELSE v)
  BY <1>3
<1>5. /\ s.post_left \in Nat /\ s.unrecved \in Nat /\ s.debt \in Int /\ n \in Nat /\ n > 0
      /\ n <= s.unrecved /\ p.sent \in Nat /\ a.got \in Nat /\ opt.header \in Nat
      /\ opt.header > 0 /\ Room(a, p) \in Int
  <2>1. Room(a, p) \in Int
    BY <1>1, HttpdAssumption DEF Room, Peer
  <2> QED
    BY <1>1, <2>1, Builds DEF State, App, Peer
<1>6. /\ unrecved \in Nat /\ debt \in Int /\ unrecved <= s.unrecved
      /\ unrecved = debt + (s.unrecved - s.debt)
  BY <1>5
<1> HIDE DEF unrecved, debt
<1>7. /\ t \in State /\ t.mem = s.mem /\ t.pcb = s.pcb /\ t.handle = s.handle /\ t.hdrs = s.hdrs
      /\ t.left = s.left /\ t.req = s.req /\ t.retries = s.retries
      /\ t.post_left = s.post_left /\ t.no_auto_wnd = s.no_auto_wnd /\ t.unrecved = unrecved
      /\ t.post_finished = s.post_finished /\ t.unacked = s.unacked /\ t.debt = debt
  BY <1>1, <1>6 DEF State
<1> HIDE DEF t
<1>8. At(v, c, t, a, p)
  BY <1>1, <1>7, PutAt
<1>9. v.hs[c] = t
  BY <1>8 DEF At
<1> HIDE DEF v
<1>10. s.req = NoReq /\ p.sent > 0 /\ a.begun /\ opt.manual /\ ~s.post_finished
  BY <1>2, <1>5 DEF ReadyOK, WaitOK, Quiet, ManualOK, ToldOK
<1>11. WindowOK(t, a, p)
  BY <1>2, <1>5, <1>6, <1>7 DEF ReadyOK, WindowOK
<1>12. CASE t.post_left + t.unrecved = 0
  <2>1. Becomes(Send(HandlePostFinished(v, c), c, ch))
    BY <1>4, <1>9, <1>12
  <2>2. t.post_left = 0 /\ t.unrecved = 0
    BY <1>5, <1>6, <1>7, <1>12
  <2>3. \E u \in State, b \in App :
          /\ At(HandlePostFinished(v, c), c, u, b, p)
          /\ StartedOK(u, b, p) /\ u.req = t.req /\ u.post_left = 0
    <3>1. /\ t.mem = "heap" /\ t.pcb = "open" /\ PeerOK(p) /\ ~t.post_finished
          /\ (t.no_auto_wnd => opt.manual)
      BY <1>2, <1>7, <1>10 DEF ReadyOK
    <3>2. /\ p.method = "POST" /\ opt.header + a.got <= p.sent
          /\ ~a.cut => opt.header + a.got = p.sent /\ p.sent = Length(p)
      BY <1>2, <1>7, <1>10, <2>2 DEF ReadyOK, ToldOK
    <3> QED
      BY <1>1, <1>2, <1>8, <1>10, <1>11, <2>2, <3>1, <3>2, HandlePostFinishedOK
  <2>4. PICK u \in State, b \in App :
          /\ At(HandlePostFinished(v, c), c, u, b, p)
          /\ StartedOK(u, b, p) /\ u.req = t.req /\ u.post_left = 0
    BY <2>3
  <2>5. ReadyOK(u, b, p) /\ u.req = NoReq
    BY <1>1, <1>7, <1>10, <2>4, StartedReady
  <2>6. ch.k \in Nat
    BY DEF SendChoice
  <2> QED
    BY <1>1, <1>10, <2>1, <2>4, <2>5, <2>6, SendOK
<1>13. CASE t.post_left + t.unrecved # 0
  <2>1. Becomes(v)
    BY <1>4, <1>9, <1>13
  <2>2. Bounded(t) /\ WaitOK(t, a, p) /\ PostingOK(t, a, p)
    BY <1>2, <1>5, <1>7, <1>10 DEF ReadyOK, Bounded, WaitOK, PostingOK
  <2>3. ManualOK(t, a, p)
    BY <1>2, <1>5, <1>6, <1>7, <1>10 DEF ReadyOK, ManualOK
  <2>4. ToldOK(t, a, p)
    <3>1. t.post_left > 0 \/ t.unrecved > 0
      BY <1>5, <1>6, <1>7, <1>13
    <3> QED
      BY <1>2, <1>7, <1>10, <3>1 DEF ReadyOK, ToldOK
  <2>5. FreshOK(t)
    BY <1>13 DEF FreshOK
  <2>6. ConnOK(t, a, p)
    BY <1>2, <1>7, <1>11, <2>2, <2>3, <2>4, <2>5 DEF ConnOK, ReadyOK
  <2> QED
    BY <1>8, <2>1, <2>6, WholeWorld
<1> QED
  BY <1>12, <1>13

(* n more pieces from the peer, for a connection that expects no data.      *)
LEMMA MoreOK ==
  ASSUME opt \in Options, NEW s \in State, NEW a \in App, NEW p \in Peer, NEW q \in Peer,
         ReadyOK(s, a, p), s.post_left = 0, p.count > 0, NEW n \in Nat, n > 0,
         q.method = p.method, q.body = p.body, q.count = p.count, q.sent = p.sent + n, PeerOK(q),
         NEW t \in State, t.mem = s.mem, t.pcb = s.pcb, t.handle = s.handle, t.hdrs = s.hdrs,
         t.left = s.left, t.retries = s.retries, t.post_left = s.post_left,
         t.no_auto_wnd = s.no_auto_wnd, t.post_finished = s.post_finished,
         t.unrecved = s.unrecved + (IF s.no_auto_wnd THEN n ELSE 0),
         t.debt = s.debt + (IF s.no_auto_wnd THEN n ELSE 0)
  PROVE  StartedOK(t, a, q)
<1>1. /\ s.unrecved \in Nat /\ s.debt \in Int /\ p.sent \in Nat /\ p.body \in Nat /\ a.got \in Nat
      /\ opt.header \in Nat /\ opt.header > 0 /\ Length(q) = Length(p) /\ Length(p) \in Int
  BY Builds DEF State, Peer, App, Length
<1>2. WindowOK(t, a, q)
  <2>1. Room(a, q) = Room(a, p) /\ Room(a, p) \in Int
    BY HttpdAssumption DEF Room, Peer
  <2>2. s.debt <= s.unrecved /\ s.unrecved <= s.debt + Room(a, p)
    BY DEF ReadyOK, WindowOK
  <2>3. CASE s.no_auto_wnd
    <3>1. t.unrecved = s.unrecved + n /\ t.debt = s.debt + n
      BY <2>3
    <3> QED
      BY <1>1, <2>1, <2>2, <3>1 DEF WindowOK
  <2>4. CASE ~s.no_auto_wnd
    <3>1. t.unrecved = s.unrecved /\ t.debt = s.debt
      BY <1>1, <2>4
    <3> QED
      BY <1>1, <2>1, <2>2, <3>1 DEF WindowOK
  <2> QED
    BY <2>3, <2>4
<1>3. ManualOK(t, a, q)
  <2>1. CASE s.no_auto_wnd
    <3>1. a.begun /\ opt.manual /\ opt.header + s.unrecved <= p.sent /\ t.unrecved = s.unrecved + n
      BY <2>1 DEF ReadyOK, ManualOK
    <3> QED
      BY <1>1, <2>1, <3>1 DEF ManualOK
  <2>2. CASE ~s.no_auto_wnd
    <3>1. s.unrecved = 0 /\ t.unrecved = s.unrecved
      BY <1>1, <2>2 DEF ReadyOK, ManualOK
    <3> QED
      BY <2>2, <3>1 DEF ManualOK
  <2> QED
    BY <2>1, <2>2
<1>4. ToldOK(t, a, q)
  <2>1. a.begun => p.method = "POST" /\ opt.header + a.got <= q.sent
    BY <1>1 DEF ReadyOK, ToldOK
  <2>2. a.begun => a.cut
    <3> SUFFICES ASSUME a.begun, ~a.cut PROVE FALSE
      OBVIOUS
    <3>1. p.sent = Length(p)
      BY DEF ReadyOK, ToldOK
    <3>2. p.sent + n <= Length(p)
      BY <1>1 DEF PeerOK
    <3> QED
      BY <1>1, <3>1, <3>2
  <2>3. ~a.begun => a.finished = 0 /\ a.got = 0
    BY DEF ReadyOK, ToldOK
  <2>4. t.post_finished => a.finished > 0
    BY DEF ReadyOK, ToldOK
  <2> QED
    BY <2>1, <2>2, <2>3, <2>4 DEF ToldOK
<1>5. PostingOK(t, a, q)
  BY DEF PostingOK
<1>6. q.sent > 0
  BY <1>1
<1> QED
  BY <1>2, <1>3, <1>4, <1>5, <1>6 DEF StartedOK, ReadyOK, Bounded

(* http_recv(): data of a POST, pieces of a request, or what is thrown away.*)
LEMMA RecvOK ==
  ASSUME HttpdInv, NEW c \in Conns, Recv(c)
  PROVE  \E w : Becomes(w) /\ WorldOK(w)
<1> DEFINE s == hs[c]
           a == app[c]
           p == peer[c]
<1>1. /\ opt \in Options /\ World \in Worlds /\ At(World, c, s, a, p)
      /\ s \in State /\ a \in App /\ p \in Peer
      /\ World.hs = hs /\ World.list = list /\ World.app = app /\ World.peer = peer
  BY HereAt
<1>2. ReadyOK(s, a, p) /\ FreshOK(s) /\ p.count > 0
  BY OpenIs DEF Recv
<1>3. PICK n \in 1 .. opt.header + MaxBody, ch \in Choice :
        LET t == IF s.no_auto_wnd THEN [s EXCEPT !.unrecved = @ + n, !.debt = @ + n] ELSE s
            w == [World EXCEPT !.peer[c].sent = @ + n]
            body == PostRxpbuf(Put(w, c, [t EXCEPT !.retries = 0]), c, n, ch)
        IN /\ w.peer[c].sent <= Length(p)
           /\ Becomes(IF s.post_left > 0
                      THEN IF body.hs[c].post_left = 0 THEN Send(body, c, ch) ELSE body
                      ELSE IF ~s.handle THEN ParseRequest(Put(w, c, RecvQueued(t, n)), c, ch)
                      ELSE Put(w, c, t))
  BY DEF Recv
<1> DEFINE t == IF s.no_auto_wnd THEN [s EXCEPT !.unrecved = @ + n, !.debt = @ + n] ELSE s
           w == [World EXCEPT !.peer[c].sent = @ + n]
           q == [p EXCEPT !.sent = @ + n]
           z == [t EXCEPT !.retries = 0]
           x == RecvQueued(t, n)
           body == PostRxpbuf(Put(w, c, z), c, n, ch)
           more == IF s.no_auto_wnd THEN n ELSE 0
<1>4. /\ w.peer[c].sent <= Length(p)
      /\ Becomes(IF s.post_left > 0
                 THEN IF body.hs[c].post_left = 0 THEN Send(body, c, ch) ELSE body
                 ELSE IF ~s.handle THEN ParseRequest(Put(w, c, x), c, ch)
                 ELSE Put(w, c, t))
  BY <1>3
<1>5. /\ n \in Nat /\ n > 0 /\ s.unrecved \in Nat /\ s.debt \in Int /\ s.post_left \in Nat
      /\ p.sent \in Nat /\ p.body \in Nat /\ a.got \in Nat /\ opt.header \in Nat /\ opt.header > 0
      /\ ch.k \in Nat /\ ch.good \in BOOLEAN /\ ch.ack \in Nat
  <2>1. n \in Nat /\ n > 0
    BY <1>1, Builds
  <2>2. ch.k \in Nat /\ ch.good \in BOOLEAN /\ ch.ack \in Nat
    BY DEF Choice
  <2> QED
    BY <1>1, <2>1, <2>2, Builds DEF State, Peer, App
<1>6. /\ q \in Peer /\ q.method = p.method /\ q.body = p.body /\ q.count = p.count
      /\ q.sent = p.sent + n
  <2>1. p.sent + n \in Nat
    BY <1>5
  <2> QED
    BY <1>1, <2>1 DEF Peer
<1>7. At(w, c, s, a, q) /\ w.peer[c] = q
  <2>1. w = [hs |-> [World.hs EXCEPT ![c] = s], list |-> World.list,
             app |-> [World.app EXCEPT ![c] = a], peer |-> [World.peer EXCEPT ![c] = q]]
    BY <1>1 DEF Worlds
  <2> HIDE DEF w, q
  <2>2. At(w, c, s, a, q)
    BY <1>1, <1>6, <2>1, ChangeAt
  <2> QED
    BY <2>2, AtTypes
<1>8. PeerOK(q) /\ Length(q) = Length(p) /\ Length(p) \in Int
  <2>1. q.sent <= Length(p)
    BY <1>4, <1>7
  <2> HIDE DEF q
  <2>2. Length(q) = Length(p) /\ Length(p) \in Int
    BY <1>5, <1>6 DEF Length
  <2> QED
    BY <1>2, <1>6, <2>1, <2>2 DEF ReadyOK, PeerOK
<1> HIDE DEF w, q
<1>9. /\ t \in State /\ t.mem = s.mem /\ t.pcb = s.pcb /\ t.handle = s.handle /\ t.hdrs = s.hdrs
      /\ t.left = s.left /\ t.req = s.req /\ t.retries = s.retries
      /\ t.post_left = s.post_left /\ t.no_auto_wnd = s.no_auto_wnd
      /\ t.unrecved = s.unrecved + more /\ t.debt = s.debt + more
      /\ t.post_finished = s.post_finished /\ t.unacked = s.unacked
  <2>1. CASE s.no_auto_wnd
    <3>1. s.unrecved + n \in Nat /\ s.debt + n \in Int
      BY <1>5
    <3> QED
      BY <1>1, <2>1, <3>1 DEF State
  <2>2. CASE ~s.no_auto_wnd
    BY <1>1, <1>5, <2>2
  <2> QED
    BY <2>1, <2>2
<1>10. more \in Nat /\ (s.no_auto_wnd => more = n) /\ (~s.no_auto_wnd => more = 0)
  BY <1>5
<1> HIDE DEF t
<1>11. CASE s.post_left > 0
  <2>1. /\ z \in State /\ z.mem = s.mem /\ z.pcb = s.pcb /\ z.handle = s.handle /\ z.hdrs = s.hdrs
        /\ z.left = s.left /\ z.req = s.req /\ z.retries = 0
        /\ z.post_left = s.post_left /\ z.no_auto_wnd = s.no_auto_wnd
        /\ z.unrecved = s.unrecved + more /\ z.debt = s.debt + more
        /\ z.post_finished = s.post_finished /\ z.unacked = s.unacked
    BY <1>9 DEF State
  <2> HIDE DEF z
  <2>2. At(Put(w, c, z), c, z, a, q)
    BY <1>7, <2>1, PutAt
  <2>3. /\ a.begun /\ ~a.cut /\ ~s.handle /\ s.hdrs = 0 /\ ~s.unacked
        /\ s.post_left + p.sent = Length(p)
    BY <1>2, <1>11 DEF ReadyOK, PostingOK
  <2>4. p.method = "POST" /\ opt.header + a.got = p.sent /\ a.finished = 0 /\ ~s.post_finished
    BY <1>2, <1>11, <2>3 DEF ReadyOK, ToldOK
  <2>5. s.left = 0 /\ s.req = NoReq
    BY <1>2, <1>5, <1>11, <2>3 DEF ReadyOK, Bounded, WaitOK, Quiet
  <2>6. WindowOK(z, a, q)
    <3>1. Room(a, q) = Room(a, p) /\ Room(a, p) \in Int
      BY <1>1, <1>6, HttpdAssumption DEF Room, Peer
    <3>2. s.debt <= s.unrecved /\ s.unrecved <= s.debt + Room(a, p)
      BY <1>2 DEF ReadyOK, WindowOK
    <3> HIDE DEF more
    <3> QED
      BY <1>5, <1>10, <2>1, <3>1, <3>2 DEF WindowOK
  <2>7. DataOK(z, a, q, n)
    <3> HIDE DEF more
    <3>1. IF z.no_auto_wnd THEN opt.manual /\ opt.header + z.unrecved <= q.sent /\ n <= z.unrecved
          ELSE z.unrecved = 0
      <4>1. CASE s.no_auto_wnd
        <5>1. opt.manual /\ opt.header + s.unrecved <= p.sent
          BY <1>2, <4>1 DEF ReadyOK, ManualOK
        <5> QED
          BY <1>5, <1>6, <1>10, <2>1, <4>1, <5>1
      <4>2. CASE ~s.no_auto_wnd
        <5>1. s.unrecved = 0
          BY <1>2, <4>2 DEF ReadyOK, ManualOK
        <5> QED
          BY <1>10, <2>1, <4>2, <5>1
      <4> QED
        BY <4>1, <4>2
    <3>2. opt.header + a.got + n = q.sent /\ z.post_left + q.sent = Length(q) + n /\ q.sent > 0
      BY <1>5, <1>6, <1>8, <2>1, <2>3, <2>4
    <3>3. z.mem = "heap" /\ z.pcb = "open" /\ z.retries < HTTPD_MAX_RETRIES
      BY <1>2, <2>1, HttpdAssumption DEF ReadyOK
    <3> QED
      BY <1>6, <1>8, <2>1, <2>3, <2>4, <2>5, <2>6, <3>1, <3>2, <3>3 DEF DataOK
  <2>8. PICK u \in State, b \in App :
          At(body, c, u, b, q) /\ StartedOK(u, b, q) /\ u.req = z.req
    <3>1. \E u \in State, b \in App :
            At(PostRxpbuf(Put(w, c, z), c, n, ch), c, u, b, q) /\ StartedOK(u, b, q)
              /\ u.req = z.req
      <4> HIDE DEF s, a, p, more, body
      <4>1. n \in Nat /\ ch.good \in BOOLEAN /\ ch.ack \in Nat /\ opt \in Options
        BY <1>1, <1>5
      <4> QED
        BY <2>2, <2>7, <4>1, PostRxpbufOK
    <3> QED
      BY <3>1
  <2>9. body.hs[c] = u
    BY <2>8 DEF At
  <2> HIDE DEF body
  <2>10. ReadyOK(u, b, q) /\ u.req = NoReq
    BY <1>6, <2>1, <2>5, <2>8, StartedReady
  <2>11. CASE u.post_left = 0
    <3>1. Becomes(Send(body, c, ch))
      BY <1>4, <1>11, <2>9, <2>11
    <3>2. q.sent > 0
      BY <2>8 DEF StartedOK
    <3> QED
      BY <1>1, <1>5, <2>8, <2>10, <2>11, <3>1, <3>2, SendOK
  <2>12. CASE u.post_left # 0
    <3>1. Becomes(body)
      BY <1>4, <1>11, <2>9, <2>12
    <3>2. ConnOK(u, b, q)
      BY <2>10, <2>12 DEF ConnOK, ReadyOK, FreshOK
    <3> QED
      BY <2>8, <3>1, <3>2, WholeWorld
  <2> QED
    BY <2>11, <2>12
<1>12. CASE ~(s.post_left > 0) /\ ~s.handle
  <2>1. Becomes(ParseRequest(Put(w, c, x), c, ch))
    BY <1>4, <1>12
  <2>2. s.req.clen \in Nat /\ s.req.tot_len \in Nat
    BY <1>1 DEF State
  <2>3. /\ x \in State /\ x.mem = t.mem /\ x.pcb = t.pcb /\ x.handle = t.handle /\ x.hdrs = t.hdrs
        /\ x.left = t.left /\ x.retries = t.retries /\ x.req.tot_len = s.req.tot_len + n
        /\ x.post_left = t.post_left /\ x.no_auto_wnd = t.no_auto_wnd
        /\ x.unrecved = t.unrecved /\ x.debt = t.debt
        /\ x.post_finished = t.post_finished /\ x.unacked = t.unacked
    <3> DEFINE r == [t.req EXCEPT !.clen = @ + 1, !.tot_len = @ + n]
    <3>1. r \in [clen : Nat, tot_len : Nat] /\ r.tot_len = s.req.tot_len + n
      <4>1. t.req.clen + 1 \in Nat /\ t.req.tot_len + n \in Nat
        BY <1>5, <1>9, <2>2
      <4> QED
        BY <1>9, <4>1 DEF State
    <3>2. x = [t EXCEPT !.req = r]
      BY <1>9 DEF RecvQueued, State
    <3> HIDE DEF r, x
    <3> QED
      BY <1>9, <3>1, <3>2 DEF State
  <2> HIDE DEF x
  <2>4. At(Put(w, c, x), c, x, a, q)
    BY <1>7, <1>9, <2>3, PutAt
  <2>5. s.post_left = 0
    BY <1>5, <1>12
  <2>6. StartedOK(x, a, q)
    <3> HIDE DEF s, a, p, more
    <3> QED
      BY <1>1, <1>2, <1>5, <1>6, <1>8, <1>9, <2>3, <2>5, MoreOK DEF more
  <2>7. ASSUME x.req.tot_len = q.sent
        PROVE  Quiet(x) /\ ~a.begun /\ ~x.no_auto_wnd /\ ~x.post_finished
    <3>1. s.req.tot_len = p.sent
      BY <1>5, <1>6, <2>2, <2>3, <2>7
    <3>2. Quiet(s) /\ ~a.begun
      <4>1. CASE p.sent = 0
        BY <1>2, <1>5, <4>1 DEF ReadyOK, WaitOK, ToldOK
      <4>2. CASE p.sent # 0
        <5>1. s.req # NoReq
          BY <3>1, <4>2 DEF NoReq
        <5> QED
          BY <1>2, <5>1 DEF ReadyOK, WaitOK
      <4> QED
        BY <4>1, <4>2
    <3>3. ~s.no_auto_wnd /\ ~s.post_finished
      BY <1>2, <3>2 DEF FreshOK, Quiet
    <3>4. t.unrecved = 0
      BY <1>9, <1>10, <3>2, <3>3 DEF Quiet
    <3> QED
      BY <1>9, <2>3, <3>2, <3>3, <3>4 DEF Quiet
  <2>8. WorldOK(ParseRequest(Put(w, c, x), c, ch))
    BY <1>1, <1>9, <2>3, <2>4, <2>5, <2>6, <2>7, ParseRequestOK
  <2> QED
    BY <2>1, <2>8
<1>13. CASE ~(s.post_left > 0) /\ s.handle
  <2>1. Becomes(Put(w, c, t))
    BY <1>4, <1>13
  <2>2. At(Put(w, c, t), c, t, a, q)
    BY <1>7, <1>9, PutAt
  <2>3. s.post_left = 0
    BY <1>5, <1>13
  <2>4. StartedOK(t, a, q)
    <3> HIDE DEF s, a, p, more
    <3> QED
      BY <1>1, <1>2, <1>5, <1>6, <1>8, <1>9, <2>3, MoreOK DEF more
  <2>5. t.req = NoReq
    BY <1>2, <1>9, <1>13 DEF ReadyOK, WaitOK, Quiet
  <2>6. ReadyOK(t, a, q)
    BY <1>6, <2>4, <2>5, StartedReady
  <2>7. ConnOK(t, a, q)
    BY <1>9, <1>13, <2>6 DEF ConnOK, ReadyOK, FreshOK
  <2> QED
    BY <2>1, <2>2, <2>7, WholeWorld
<1> QED
  BY <1>11, <1>12, <1>13

-----------------------------------------------------------------------------
LEMMA Initially ==
  ASSUME Init
  PROVE  HttpdInv
<1>1. /\ opt \in Options /\ World.hs = [c \in Conns |-> NoState] /\ World.list = <<>>
      /\ World.app = [c \in Conns |-> NoApp] /\ World.peer = [c \in Conns |-> NoPeer]
      /\ World = [hs |-> World.hs, list |-> World.list, app |-> World.app, peer |-> World.peer]
  BY DEF Init, World
<1> DEFINE w == World
<1>2. w = [hs |-> w.hs, list |-> w.list, app |-> w.app, peer |-> w.peer]
  BY <1>1
<1>3. /\ w.hs \in [Conns -> State] /\ w.list \in Seq(Conns) /\ w.app \in [Conns -> App]
      /\ w.peer \in [Conns -> Peer]
  BY <1>1, NoStateIs, NoPeerIs
<1> HIDE DEF w
<1>4. w \in Worlds
  BY <1>2, <1>3 DEF Worlds
<1>5. ASSUME NEW c \in Conns
      PROVE  w.hs[c] = NoState /\ w.app[c] = NoApp /\ w.peer[c] = NoPeer
  BY <1>1 DEF w
<1>6. ListOK(w)
  <2>1. {d \in Conns : w.hs[d].mem = "heap"} = {}
    BY <1>5, NoStateIs
  <2>2. w.list = <<>> /\ IsInjective(<<>>) /\ Range(<<>>) = {}
    BY <1>1 DEF w, IsInjective, Range
  <2> QED
    BY <2>1, <2>2 DEF ListOK
<1>7. GoneOK(NoState, NoApp, NoPeer)
  <2>1. 0 <= MaxBody
    BY HttpdAssumption
  <2> QED
    BY <1>1, <2>1, NoStateIs, NoPeerIs, NoPeerOK DEF GoneOK
<1>8. ConnOK(NoState, NoApp, NoPeer)
  BY <1>7, NoStateIs DEF ConnOK
<1>9. WorldOK(w)
  BY <1>4, <1>5, <1>6, <1>8 DEF WorldOK
<1> QED
  BY <1>1, <1>9 DEF HttpdInv, w

LEMMA BecomesOK ==
  ASSUME HttpdInv, NEW w, Becomes(w), WorldOK(w)
  PROVE  HttpdInv'
<1>1. opt' = opt /\ opt \in Options
  BY DEF Becomes, HttpdInv
<1>2. w \in Worlds
  BY DEF WorldOK
<1>3. World' = w
  <2>1. w = [hs |-> w.hs, list |-> w.list, app |-> w.app, peer |-> w.peer]
    BY <1>2 DEF Worlds
  <2>2. World' = [hs |-> w.hs, list |-> w.list, app |-> w.app, peer |-> w.peer]
    BY DEF Becomes, World
  <2> QED
    BY <2>1, <2>2, Zenon
<1>4. WorldOK(w)'
  BY <1>1 DEF WorldOK, ListOK, Worlds, Conns, ConnOK, ReadyOK, GoneOK, FreshOK, PeerOK, Bounded,
     WaitOK, PostingOK, ManualOK, ToldOK, WindowOK, Room, Length, Methods, Quiet, Empty, State,
     App, Peer
<1> QED
  BY <1>1, <1>3, <1>4 DEF HttpdInv

LEMMA Inductive ==
  ASSUME HttpdInv, [Next]_vars
  PROVE  HttpdInv'
<1>1. CASE Next
  <2>1. PICK c \in Conns : \/ Accept(c) \/ Ask(c) \/ Recv(c) \/ PostDataRecved(c) \/ Sent(c)
                           \/ Poll(c) \/ PollClosing(c) \/ Fin(c) \/ Err(c)
    BY <1>1 DEF Next
  <2>2. \E w : Becomes(w) /\ WorldOK(w)
    BY <2>1, AcceptOK, AskOK, RecvOK, PostDataRecvedOK, SentOK, PollOK, PollClosingOK, FinOK, ErrOK
  <2> QED
    BY <2>2, BecomesOK
<1>2. CASE UNCHANGED vars
  <2>1. Becomes(World)
    BY <1>2 DEF vars, Becomes, World
  <2>2. WorldOK(World)
    BY DEF HttpdInv
  <2> QED
    BY <2>1, <2>2, BecomesOK
<1> QED
  BY <1>1, <1>2

(* The invariant, in every build and for every number of connections.       *)
THEOREM HttpdInvariant == Spec => []HttpdInv
<1>1. Init => HttpdInv
  BY Initially
<1>2. HttpdInv /\ [Next]_vars => HttpdInv'
  BY Inductive
<1> QED
  BY <1>1, <1>2, PTL DEF Spec

-----------------------------------------------------------------------------
(* A list that has nobody twice is no longer than there are connections.    *)
LEMMA ShortList ==
  ASSUME opt \in Options, NEW q \in Seq(Conns), IsInjective(q)
  PROVE  q \in SeqOf(Conns, opt.conns)
<1>1. opt.conns \in Nat /\ Len(q) \in Nat /\ q \in [1 .. Len(q) -> Conns]
  BY Builds
<1>2. IsFiniteSet(1 .. Len(q)) /\ Cardinality(1 .. Len(q)) = Len(q)
  <2>1. 1 \in Int /\ Len(q) \in Int /\ (IF 1 > Len(q) THEN 0 ELSE Len(q) - 1 + 1) = Len(q)
    BY <1>1
  <2> QED
    BY <2>1, FS_Interval
<1>3. IsFiniteSet(Conns) /\ Cardinality(Conns) = opt.conns
  BY <1>1, FS_Interval DEF Conns
<1>4. Len(q) <= opt.conns
  <2> SUFFICES ASSUME ~(Len(q) <= opt.conns) PROVE FALSE
    OBVIOUS
  <2>1. Cardinality(Conns) < Cardinality(1 .. Len(q))
    BY <1>1, <1>2, <1>3
  <2>2. \E x, y \in 1 .. Len(q) : x # y /\ q[x] = q[y]
    BY <1>1, <1>2, <1>3, <2>1, FS_PigeonHole
  <2> QED
    BY <1>1, <2>2 DEF IsInjective
<1>5. Len(q) \in 0 .. opt.conns
  BY <1>1, <1>4
<1> QED
  BY <1>1, <1>5 DEF SeqOf

LEMMA RoomIsBounded ==
  ASSUME opt \in Options, NEW a \in App, NEW p \in Peer, p.count <= opt.requests
  PROVE  /\ Room(a, p) \in Int /\ Room(a, p) <= opt.requests * MaxBody
         /\ opt.requests * MaxBody \in Nat
<1> DEFINE k == IF a.begun \/ p.count = 0 THEN p.count ELSE p.count - 1
           j == opt.requests - k
<1>1. p.count \in Nat /\ opt.requests \in Nat /\ MaxBody \in Nat
  BY Builds DEF Peer
<1>2. k \in Nat /\ j \in Nat /\ opt.requests = k + j
  BY <1>1
<1>3. Room(a, p) = k * MaxBody
  BY DEF Room
<1> HIDE DEF k, j
<1>4. /\ k * MaxBody \in Nat /\ j * MaxBody \in Nat /\ opt.requests * MaxBody \in Nat
      /\ (k + j) * MaxBody = k * MaxBody + j * MaxBody
  BY <1>1, <1>2
<1> QED
  BY <1>2, <1>3, <1>4

(* What is more than the types says what is less than the bounds.           *)
LEMMA ConnBounds ==
  ASSUME opt \in Options, NEW s \in State, NEW a \in App, NEW p \in Peer, ConnOK(s, a, p)
  PROVE  /\ s.hdrs \in 0 .. 1 /\ s.left \in 0 .. FileLen /\ s.retries \in 0 .. HTTPD_MAX_RETRIES
         /\ s.req.clen \in 0 .. QueueLen /\ s.req.tot_len \in 0 .. opt.header + MaxBody
         /\ s.post_left \in 0 .. MaxBody /\ s.unrecved \in 0 .. MaxBody
         /\ s.debt \in -(opt.requests * MaxBody) .. MaxBody
         /\ a.got \in 0 .. MaxBody
         /\ p.method \in Methods /\ p.body \in 0 .. MaxBody
         /\ p.sent \in 0 .. opt.header + MaxBody /\ p.count \in 0 .. opt.requests
<1>1. /\ {MaxBody, FileLen, QueueLen, HTTPD_MAX_RETRIES, opt.header, opt.requests} \subseteq Nat
      /\ {s.hdrs, s.left, s.retries, s.req.clen, s.req.tot_len, s.post_left, s.unrecved} \subseteq Nat
      /\ {a.got, p.body, p.sent, p.count} \subseteq Nat /\ s.debt \in Int
      /\ HTTPD_MAX_RETRIES > 0
  BY Builds DEF State, App, Peer
<1>2. PeerOK(p)
  BY DEF ConnOK, ReadyOK, GoneOK
<1>3. p.body <= MaxBody /\ p.count <= opt.requests /\ p.sent <= opt.header + p.body
  BY <1>1, <1>2 DEF PeerOK, Length
<1>4. p.method \in Methods /\ p.sent <= opt.header + MaxBody
  BY <1>1, <1>2, <1>3 DEF PeerOK
<1>5. Room(a, p) \in Int /\ Room(a, p) <= opt.requests * MaxBody
      /\ opt.requests * MaxBody \in Nat
  BY <1>3, RoomIsBounded
<1>6. /\ s.hdrs <= 1 /\ s.left <= FileLen /\ s.retries <= HTTPD_MAX_RETRIES
      /\ s.req.clen <= QueueLen /\ s.req.tot_len <= opt.header + MaxBody
      /\ s.post_left <= MaxBody /\ s.unrecved <= MaxBody /\ a.got <= MaxBody
      /\ s.debt <= MaxBody /\ -(opt.requests * MaxBody) <= s.debt
  <2>1. CASE s.mem = "heap"
    <3>1. ReadyOK(s, a, p)
      BY <2>1 DEF ConnOK
    <3>2. s.hdrs <= 1 /\ s.left <= FileLen /\ s.retries <= HTTPD_MAX_RETRIES /\ s.req.clen <= QueueLen
      BY <1>1, <3>1 DEF ReadyOK, Bounded
    <3>3. s.req.tot_len <= opt.header + MaxBody
      BY <1>1, <3>1 DEF ReadyOK, WaitOK, NoReq
    <3>4. a.begun => opt.header + a.got <= p.sent
      BY <3>1 DEF ReadyOK, ToldOK
    <3>5. ~a.begun => a.got = 0
      BY <3>1 DEF ReadyOK, ToldOK
    <3>6. a.got <= MaxBody
      BY <1>1, <1>4, <3>4, <3>5
    <3>7. s.post_left > 0 => a.begun /\ s.post_left + p.sent = Length(p)
      BY <3>1 DEF ReadyOK, PostingOK
    <3>8. Length(p) <= opt.header + p.body /\ Length(p) \in Int
      BY <1>1 DEF Length
    <3>9. s.post_left <= MaxBody
      BY <1>1, <1>3, <3>4, <3>7, <3>8
    <3>10. s.unrecved <= MaxBody
      BY <1>1, <1>4, <3>1 DEF ReadyOK, ManualOK
    <3>11. s.debt <= s.unrecved /\ s.unrecved <= s.debt + Room(a, p)
      BY <3>1 DEF ReadyOK, WindowOK
    <3>12. s.debt <= MaxBody /\ -(opt.requests * MaxBody) <= s.debt
      <4> DEFINE all == opt.requests * MaxBody
                 room == Room(a, p)
      <4>1. all \in Nat /\ room \in Int /\ room <= all /\ s.unrecved <= s.debt + room
        BY <1>5, <3>11
      <4> HIDE DEF all, room
      <4>2. s.debt <= MaxBody /\ -all <= s.debt
        BY <1>1, <3>10, <3>11, <4>1
      <4> QED
        BY <4>2 DEF all
    <3> QED
      BY <3>2, <3>3, <3>6, <3>9, <3>10, <3>12
  <2>2. CASE s.mem # "heap"
    <3>1. /\ s.hdrs = 0 /\ s.left = 0 /\ s.retries = 0 /\ s.req = NoReq /\ s.post_left = 0
          /\ s.unrecved = 0 /\ s.debt = 0 /\ a.got <= MaxBody
      BY <2>2 DEF ConnOK, GoneOK, Empty
    <3>2. -(opt.requests * MaxBody) <= 0
      BY <1>5
    <3> QED
      BY <1>1, <3>1, <3>2 DEF NoReq
  <2> QED
    BY <2>1, <2>2
<1>7. s.debt \in -(opt.requests * MaxBody) .. MaxBody
  <2> DEFINE all == opt.requests * MaxBody
  <2>1. all \in Nat /\ -all <= s.debt
    BY <1>5, <1>6
  <2> HIDE DEF all
  <2>2. s.debt \in -all .. MaxBody
    BY <1>1, <1>6, <2>1
  <2> QED
    BY <2>2 DEF all
<1>8. /\ s.hdrs \in 0 .. 1 /\ s.left \in 0 .. FileLen /\ s.retries \in 0 .. HTTPD_MAX_RETRIES
      /\ s.req.clen \in 0 .. QueueLen /\ s.req.tot_len \in 0 .. opt.header + MaxBody
      /\ s.post_left \in 0 .. MaxBody /\ s.unrecved \in 0 .. MaxBody /\ a.got \in 0 .. MaxBody
  <2>1. s.hdrs \in 0 .. 1 /\ s.left \in 0 .. FileLen /\ s.retries \in 0 .. HTTPD_MAX_RETRIES
    <3>1. s.hdrs \in 0 .. 1
      BY <1>6 DEF State
    <3>2. s.left \in 0 .. FileLen
      BY <1>1, <1>6
    <3>3. s.retries \in 0 .. HTTPD_MAX_RETRIES
      BY <1>1, <1>6
    <3> QED
      BY <3>1, <3>2, <3>3
  <2>2. s.req.clen \in 0 .. QueueLen
    BY <1>1, <1>6
  <2>3. s.req.tot_len \in 0 .. opt.header + MaxBody
    <3>1. s.req.tot_len \in Nat /\ opt.header + MaxBody \in Int
      BY <1>1
    <3> QED
      BY <1>6, <3>1
  <2>4. s.post_left \in 0 .. MaxBody /\ s.unrecved \in 0 .. MaxBody /\ a.got \in 0 .. MaxBody
    BY <1>1, <1>6
  <2> QED
    BY <2>1, <2>2, <2>3, <2>4
<1>9. p.body \in 0 .. MaxBody /\ p.sent \in 0 .. opt.header + MaxBody /\ p.count \in 0 .. opt.requests
  BY <1>1, <1>3, <1>4
<1> QED
  BY <1>4, <1>7, <1>8, <1>9

LEMMA Types ==
  ASSUME HttpdInv
  PROVE  TypeOK
<1> DEFINE H == [mem : {"none", "heap", "freed"}, pcb : {"none", "open", "closing", "over"},
                 handle : BOOLEAN, hdrs : 0 .. 1, left : 0 .. FileLen,
                 req : [clen : 0 .. QueueLen, tot_len : 0 .. opt.header + MaxBody],
                 retries : 0 .. HTTPD_MAX_RETRIES, keepalive : BOOLEAN,
                 post_left : 0 .. MaxBody, no_auto_wnd : BOOLEAN,
                 unrecved : 0 .. MaxBody, post_finished : BOOLEAN,
                 unacked : BOOLEAN, debt : -(opt.requests * MaxBody) .. MaxBody]
           A == [begun : BOOLEAN, finished : 0 .. 2, got : 0 .. MaxBody, cut : BOOLEAN]
           P == [method : Methods, found : BOOLEAN, body : 0 .. MaxBody, keep : BOOLEAN,
                 sent : 0 .. opt.header + MaxBody, count : 0 .. opt.requests]
<1>1. /\ opt \in Options /\ hs \in [Conns -> State] /\ app \in [Conns -> App]
      /\ peer \in [Conns -> Peer] /\ list \in Seq(Conns) /\ ListOK(World) /\ World.list = list
      /\ \A c \in Conns : ConnOK(hs[c], app[c], peer[c])
  <2>1. World.hs = hs /\ World.list = list /\ World.app = app /\ World.peer = peer
    BY DEF World
  <2> QED
    BY <2>1 DEF HttpdInv, WorldOK, Worlds
<1>2. ASSUME NEW c \in Conns
      PROVE  hs[c] \in H /\ app[c] \in A /\ peer[c] \in P
  <2> DEFINE s == hs[c]
             a == app[c]
             p == peer[c]
  <2>1. s \in State /\ a \in App /\ p \in Peer /\ ConnOK(s, a, p)
    BY <1>1
  <2> HIDE DEF s, a, p
  <2>2. /\ s.hdrs \in 0 .. 1 /\ s.left \in 0 .. FileLen /\ s.retries \in 0 .. HTTPD_MAX_RETRIES
        /\ s.req.clen \in 0 .. QueueLen /\ s.req.tot_len \in 0 .. opt.header + MaxBody
        /\ s.post_left \in 0 .. MaxBody /\ s.unrecved \in 0 .. MaxBody
        /\ s.debt \in -(opt.requests * MaxBody) .. MaxBody
        /\ a.got \in 0 .. MaxBody
        /\ p.method \in Methods /\ p.body \in 0 .. MaxBody
        /\ p.sent \in 0 .. opt.header + MaxBody /\ p.count \in 0 .. opt.requests
    BY <1>1, <2>1, ConnBounds
  <2>3. s \in H
    BY <2>1, <2>2, Zenon DEF State
  <2>4. a \in A
    BY <2>1, <2>2 DEF App
  <2>5. p \in P
    BY <2>1, <2>2 DEF Peer
  <2> QED
    BY <2>3, <2>4, <2>5 DEF s, a, p
<1> HIDE DEF H, A, P
<1>3. hs \in [Conns -> H] /\ app \in [Conns -> A] /\ peer \in [Conns -> P]
  BY <1>1, <1>2
<1>4. list \in SeqOf(Conns, opt.conns)
  <2>1. IsInjective(list)
    <3>1. IsInjective(<<>>)
      BY DEF IsInjective
    <3> QED
      BY <1>1, <3>1 DEF ListOK
  <2> QED
    BY <1>1, <2>1, ShortList
<1> QED
  BY <1>1, <1>3, <1>4 DEF TypeOK, H, A, P

(* States and pcbs die together, what is freed holds nothing, and the list  *)
(* has every state once (httpd.c: http_state_alloc(), http_state_free()),   *)
(* whoever is killed for whom.                                              *)
THEOREM DanglingCorrect == Spec => []NoDangling
<1>1. ASSUME HttpdInv PROVE NoDangling
  <2>1. TypeOK
    BY <1>1, Types
  <2>2. ASSUME NEW c \in Conns
        PROVE  /\ hs[c].mem = "heap" <=> hs[c].pcb = "open"
               /\ hs[c].mem = "freed" => ~hs[c].handle /\ hs[c].req = NoReq
    <3>1. ConnOK(hs[c], app[c], peer[c])
      BY <1>1, HereAt
    <3> QED
      BY <3>1 DEF ConnOK, ReadyOK, GoneOK, Empty
  <2>3. opt.kill => /\ IsInjective(list)
                    /\ Range(list) = {c \in Conns : hs[c].mem = "heap"}
    <3>1. World.hs = hs /\ World.list = list
      BY DEF World
    <3> QED
      BY <1>1, <3>1 DEF HttpdInv, WorldOK, ListOK
  <2> QED
    BY <2>1, <2>2, <2>3 DEF NoDangling
<1> QED
  BY <1>1, HttpdInvariant, PTL

(* A request waits with all its pieces and no other's, a POST that is       *)
(* finished was received whole, and the window is given back for all of it, *)
(* over any number of requests of a connection that is kept alive.          *)
THEOREM StepCorrect == Spec => []InStep
<1>1. ASSUME HttpdInv PROVE InStep
  <2>1. ASSUME NEW c \in Conns
        PROVE  LET s == hs[c] p == peer[c] IN
               /\ s.mem = "heap" => s.debt <= s.unrecved
               /\ s.req # NoReq => s.req.tot_len = p.sent
               /\ s.post_left > 0 => s.post_left + p.sent = Length(p)
               /\ s.mem = "heap" /\ app[c].finished = 1 /\ ~app[c].cut => app[c].got = p.body
    <3> DEFINE s == hs[c]
               a == app[c]
               p == peer[c]
    <3>1. opt \in Options /\ ConnOK(s, a, p) /\ s \in State /\ a \in App /\ p \in Peer
      BY <1>1, HereAt
    <3> HIDE DEF s, a, p
    <3>2. CASE s.mem = "heap"
      <4>1. ReadyOK(s, a, p)
        BY <3>1, <3>2 DEF ConnOK
      <4>2. ASSUME a.finished = 1, ~a.cut PROVE a.got = p.body
        <5>1. a.begun
          BY <4>1, <4>2 DEF ReadyOK, ToldOK
        <5>2. /\ p.method = "POST" /\ opt.header + a.got = p.sent
              /\ s.post_left = 0 => p.sent = Length(p)
              /\ ~(s.post_left > 0)
          BY <4>1, <4>2, <5>1 DEF ReadyOK, ToldOK
        <5>3. s.post_left = 0 /\ opt.header \in Nat /\ a.got \in Nat /\ p.body \in Nat
          BY <3>1, <5>2, Builds DEF State, App, Peer
        <5> QED
          BY <5>2, <5>3 DEF Length
      <4> QED
        BY <4>1, <4>2 DEF ReadyOK, WindowOK, WaitOK, PostingOK, s, a, p
    <3>3. CASE s.mem # "heap"
      <4>1. s.req = NoReq /\ s.post_left = 0
        BY <3>1, <3>3 DEF ConnOK, GoneOK, Empty
      <4> QED
        BY <3>3, <4>1 DEF s, a, p
    <3> QED
      BY <3>2, <3>3
  <2> QED
    BY <2>1 DEF InStep, WindowGivenBack
<1> QED
  BY <1>1, HttpdInvariant, PTL

(* httpd_post_finished() is called once for every POST that was begun, on   *)
(* every way a POST or its connection can end.                              *)
THEOREM PostCorrect == Spec => []PostFinishedOnce
<1>1. ASSUME HttpdInv PROVE PostFinishedOnce
  <2>1. ASSUME NEW c \in Conns
        PROVE  LET s == hs[c] IN
               app[c].begun /\ ~app[c].cut =>
                 app[c].finished = IF s.mem = "heap" /\ (s.post_left > 0 \/ s.unrecved > 0)
                                   THEN 0 ELSE 1
    <3>1. ConnOK(hs[c], app[c], peer[c])
      BY <1>1, HereAt
    <3>2. CASE hs[c].mem = "heap"
      BY <3>1, <3>2 DEF ConnOK, ReadyOK, ToldOK
    <3>3. CASE hs[c].mem # "heap"
      BY <3>1, <3>3 DEF ConnOK, GoneOK
    <3> QED
      BY <3>2, <3>3
  <2> QED
    BY <2>1 DEF PostFinishedOnce
<1> QED
  BY <1>1, HttpdInvariant, PTL

-----------------------------------------------------------------------------
(* The sessions of iperf.                                                   *)

(* What a session is made of.                                               *)
Session ==
  [mem : {"none", "heap", "freed"}, kind : {"none", "listener", "server", "client"},
   pcb : {"none", "connecting", "open", "closing", "over"}, master : {0} \cup Sessions,
   report : BOOLEAN, reports : 0 .. 1, poll_count : 0 .. MaxIdle,
   bytes : 0 .. MaxStream + 2 * Header, have : BOOLEAN, flags : Flags, specific : BOOLEAN,
   tradeoff : BOOLEAN, timeup : BOOLEAN, unacked : BOOLEAN, sent : 0 .. MaxStream,
   shifted : BOOLEAN, short : BOOLEAN, answers : 0 .. 2, result : Results]

(* A test that has been asked for is answered at once, or at its end.       *)
Answered(s, result) ==
  /\ s.kind = "server" =>
       s.answers = IF s.flags = "now" \/ (s.flags = "test" /\ result = "done_server") THEN 1 ELSE 0
  /\ s.kind = "client" /\ s.master # 0 => s.flags = "none"

(* The bytes that are counted are the bytes that came, but for those that   *)
(* came behind the first settings.                                          *)
Streamed(s) ==
  /\ s.have <=> s.sent > 0
  /\ ~s.have => s.bytes = 0 /\ s.flags = "none"
  /\ s.have => s.bytes >= Header
  /\ s.bytes <= s.sent
  /\ ~s.shifted => s.bytes = s.sent

(* A session whose callbacks may come.                                      *)
HeapOK(s) ==
  /\ s.report /\ s.reports = 0 /\ s.result = "none" /\ s.poll_count < MaxIdle
  /\ Answered(s, "none")
  /\ CASE s.kind = "listener" ->
              s.pcb = "open" /\ (s.specific => s.master = 1 /\ (s.tradeoff <=> mode = "tradeoff"))
       [] s.kind = "server"   -> s.pcb = "open" /\ ~s.unacked /\ Streamed(s)
       [] s.kind = "client"   -> s.pcb # "over"
       [] OTHER               -> FALSE

(* A session that has ended.                                                *)
FreedOK(s) ==
  /\ s.pcb = "over" /\ s.kind # "none" /\ s.poll_count = 0 /\ Answered(s, s.result)
  /\ s.reports = IF s.kind = "listener" THEN 0 ELSE 1
  /\ s.kind = "server" /\ ~s.shifted /\ s.result = "dataerror" => s.short

(* Each session is what it says that it is.                                 *)
SessionOK(s) ==
  CASE s.mem = "none"  -> s = NoSession
    [] s.mem = "heap"  -> HeapOK(s)
    [] s.mem = "freed" -> FreedOK(s)

(* Sessions and the list of them.                                           *)
SessionWorlds == [ss : [Sessions -> Session], list : Seq(Sessions)]

(* While a callback runs, what is right about the sessions that it has not  *)
(* got in hand.                                                             *)
Right(w, hand) ==
  /\ w \in SessionWorlds /\ IsInjective(w.list)
  /\ \A j \in Sessions \ hand :
       SessionOK(w.ss[j]) /\ (j \in Range(w.list) <=> w.ss[j].mem = "heap")

(* Nothing but session i is different in v from what it is in w.            *)
SameBut(v, w, i) ==
  \A j \in Sessions \ {i} : v.ss[j] = w.ss[j] /\ (j \in Range(v.list) <=> j \in Range(w.list))

(* The sketch starts with one client, which lwiperf_abort() frees when the  *)
(* listener for its answer cannot be made.                                  *)
StartOK ==
  /\ up = "start" => ss = [i \in Sessions |-> NoSession]
  /\ up \in {"listen", "aborted"} =>
       /\ ss[1].kind = "client" /\ ss[1].master = 0 /\ ss[1].poll_count = 0
       /\ \A i \in Sessions \ {1} : ss[i] = NoSession

(* What every step keeps.                                                   *)
IperfInv ==
  /\ mode \in Modes /\ up \in {"start", "listen", "none", "aborted"}
  /\ StartOK
  /\ Right(Now, IF up = "aborted" THEN {1} ELSE {})

-----------------------------------------------------------------------------
(* What the constants are.                                                  *)
LEMMA Limits ==
  /\ Header \in Nat \ {0} /\ Block \in Nat \ {0} /\ MaxStream \in Nat \ {0}
  /\ MaxIdle \in Nat \ {0} /\ MaxSessions \in Nat \ {0, 1}
  /\ Sessions \subseteq Nat \ {0} /\ 1 \in Sessions /\ 2 \in Sessions
  BY IperfAssumption DEF Sessions

(* The fields of an unused session.                                         *)
LEMMA NoSessionIs ==
  /\ NoSession \in Session /\ NoSession.mem = "none" /\ NoSession.report = TRUE
  /\ NoSession.reports = 0 /\ NoSession.result = "none" /\ NoSession.answers = 0
  /\ NoSession.flags = "none" /\ NoSession.kind = "none" /\ NoSession.pcb = "none"
  /\ NoSession.master = 0 /\ NoSession.have = FALSE /\ NoSession.sent = 0
  /\ NoSession.bytes = 0 /\ NoSession.specific = FALSE /\ NoSession.poll_count = 0
  /\ NoSession.shifted = FALSE /\ NoSession.short = FALSE /\ NoSession.unacked = FALSE
<1>1. 0 \in 0 .. MaxIdle /\ 0 \in 0 .. MaxStream + 2 * Header /\ 0 \in 0 .. MaxStream
  BY Limits
<1> QED
  BY <1>1 DEF NoSession, Session, Flags, Results

(* What is kept of a session for its report.                                *)
Kept(s) ==
  /\ s.kind \in {"none", "listener", "server", "client"} /\ s.master \in {0} \cup Sessions
  /\ s.report \in BOOLEAN /\ s.reports \in 0 .. 1 /\ s.result \in Results
  /\ s.answers \in 0 .. 2 /\ s.flags \in Flags /\ s.specific \in BOOLEAN
  /\ s.shifted \in BOOLEAN /\ s.short \in BOOLEAN

(* A freed session is a session.                                            *)
LEMMA KeptIs == ASSUME NEW s, Kept(s) PROVE FreedSession(s) \in Session
<1>1. 0 \in 0 .. MaxIdle /\ 0 \in 0 .. MaxStream + 2 * Header /\ 0 \in 0 .. MaxStream
  BY Limits
<1> QED
  BY <1>1 DEF FreedSession, NoSession, Session, Kept

(* What is left of a freed session.                                         *)
LEMMA FreedIs ==
  ASSUME NEW s \in Session
  PROVE  LET f == FreedSession(s) IN
         /\ f \in Session /\ f.mem = "freed" /\ f.kind = s.kind /\ f.pcb = "over"
         /\ f.master = s.master /\ f.report = s.report /\ f.reports = s.reports
         /\ f.result = s.result /\ f.answers = s.answers /\ f.flags = s.flags
         /\ f.specific = s.specific /\ f.shifted = s.shifted /\ f.short = s.short
         /\ f.poll_count = 0
<1>1. FreedSession(s) \in Session
  BY KeptIs DEF Session, Kept
<1> QED
  BY <1>1 DEF FreedSession, NoSession

(* The report of a test that has had none.                                  *)
LEMMA ReportIs ==
  ASSUME NEW s \in Session, NEW type \in Results, s.reports = 0
  PROVE  LET r == Report(s, type) IN
         /\ r \in Session /\ r.mem = s.mem /\ r.kind = s.kind /\ r.master = s.master
         /\ r.answers = s.answers /\ r.flags = s.flags /\ r.shifted = s.shifted /\ r.short = s.short
         /\ r.reports = IF s.report THEN 1 ELSE 0
         /\ r.result = IF s.report THEN type ELSE s.result
<1>1. ASSUME NEW n \in 0 .. 1 PROVE [s EXCEPT !.reports = n, !.result = type] \in Session
  BY DEF Session
<1>3. s.report => Report(s, type) = [s EXCEPT !.reports = 1, !.result = type]
  BY DEF Report
<1>4. ~s.report => Report(s, type) = s
  BY DEF Report
<1>5. 1 \in 0 .. 1 /\ s.report \in BOOLEAN
  BY DEF Session
<1>6. CASE s.report
  <2>1. Report(s, type) \in Session
    BY <1>1, <1>3, <1>5, <1>6
  <2>2. LET r == Report(s, type) IN
        /\ r.mem = s.mem /\ r.kind = s.kind /\ r.master = s.master
        /\ r.answers = s.answers /\ r.flags = s.flags /\ r.shifted = s.shifted /\ r.short = s.short
        /\ r.reports = 1 /\ r.result = type
    BY <1>3, <1>6 DEF Session
  <2> QED
    BY <1>6, <2>1, <2>2
<1>7. CASE ~s.report
  BY <1>4, <1>7
<1> QED
  BY <1>6, <1>7

(* A session that may be closed with this report.                           *)
Closes(s, type) ==
  /\ s \in Session /\ type \in Results /\ s.reports = 0 /\ s.kind # "none"
  /\ s.report <=> s.kind # "listener"
  /\ Answered(s, type)
  /\ s.kind = "server" /\ ~s.shifted /\ type = "dataerror" => s.short

(* Reported and freed, a session has ended as it should.                    *)
LEMMA ClosedIs ==
  ASSUME NEW s, NEW type, Closes(s, type)
  PROVE  LET f == FreedSession(Report(s, type)) IN
         f \in Session /\ f.mem = "freed" /\ FreedOK(f) /\ f.kind = s.kind
<1> DEFINE r == Report(s, type)
           f == FreedSession(r)
<1>1. /\ r \in Session /\ r.mem = s.mem /\ r.kind = s.kind /\ r.master = s.master
      /\ r.answers = s.answers /\ r.flags = s.flags /\ r.shifted = s.shifted /\ r.short = s.short
      /\ r.reports = IF s.report THEN 1 ELSE 0
      /\ r.result = IF s.report THEN type ELSE s.result
  BY ReportIs DEF Closes
<1> HIDE DEF r
<1>2. /\ f \in Session /\ f.mem = "freed" /\ f.kind = r.kind /\ f.pcb = "over"
      /\ f.master = r.master /\ f.reports = r.reports
      /\ f.result = r.result /\ f.answers = r.answers /\ f.flags = r.flags
      /\ f.shifted = r.shifted /\ f.short = r.short /\ f.poll_count = 0
  BY <1>1, FreedIs
<1> HIDE DEF f
<1>3. FreedOK(f)
  BY <1>1, <1>2 DEF FreedOK, Closes, Answered
<1> QED
  BY <1>1, <1>2, <1>3 DEF f, r

(* The cases of SessionOK.                                                  *)
LEMMA SessionIs ==
  ASSUME NEW s
  PROVE  /\ s.mem = "heap" => (SessionOK(s) <=> HeapOK(s))
         /\ s.mem = "freed" => (SessionOK(s) <=> FreedOK(s))
         /\ s.mem = "none" => (SessionOK(s) <=> s = NoSession)
  BY DEF SessionOK

-----------------------------------------------------------------------------
(* Changes of a world.                                                      *)

LEMMA PutSessionIs ==
  ASSUME NEW w \in SessionWorlds, NEW i \in Sessions, NEW t
  PROVE  PutSession(w, i, t) = [ss |-> [w.ss EXCEPT ![i] = t], list |-> w.list]
<1>1. w = [ss |-> w.ss, list |-> w.list]
  BY DEF SessionWorlds
<1>2. PutSession(w, i, t) = [w EXCEPT !.ss = [w.ss EXCEPT ![i] = t]]
  BY DEF PutSession
<1> QED
  BY <1>1, <1>2

(* Whatever session i becomes, the others stay right.                       *)
LEMMA PutRight ==
  ASSUME NEW hand, NEW w, Right(w, hand), NEW i \in Sessions, NEW t \in Session
  PROVE  Right(PutSession(w, i, t), hand \cup {i})
<1>1. w \in SessionWorlds /\ w.ss \in [Sessions -> Session] /\ w.list \in Seq(Sessions)
  BY DEF Right, SessionWorlds
<1>2. PutSession(w, i, t) = [ss |-> [w.ss EXCEPT ![i] = t], list |-> w.list]
  BY <1>1, PutSessionIs
<1> QED
  BY <1>1, <1>2 DEF Right, SessionWorlds

(* A session that is right again is given out of hand.                      *)
LEMMA Settled ==
  ASSUME NEW hand, NEW w, Right(w, hand), NEW i \in Sessions, SessionOK(w.ss[i]),
         i \in Range(w.list) <=> w.ss[i].mem = "heap"
  PROVE  Right(w, hand \ {i})
  BY DEF Right

(* iperf_list_add(): the session in hand becomes listed.                    *)
LEMMA AddRight ==
  ASSUME NEW hand, NEW w, Right(w, hand), NEW i \in Sessions, i \notin Range(w.list),
         SessionOK(w.ss[i]), w.ss[i].mem = "heap"
  PROVE  /\ Right(ListAdd(w, i), hand \ {i}) /\ ListAdd(w, i).ss = w.ss
         /\ SameBut(ListAdd(w, i), w, i)
<1> DEFINE v == ListAdd(w, i)
<1>0. w \in SessionWorlds /\ w.list \in Seq(Sessions) /\ w = [ss |-> w.ss, list |-> w.list]
  BY DEF Right, SessionWorlds
<1>a. v = [w EXCEPT !.list = <<i>> \o w.list]
  BY DEF ListAdd
<1>1. v.list = <<i>> \o w.list /\ v.ss = w.ss /\ v = [ss |-> w.ss, list |-> <<i>> \o w.list]
  BY <1>0, <1>a
<1>2. v.list \in Seq(Sessions) /\ IsInjective(v.list) /\ Range(v.list) = Range(w.list) \cup {i}
  BY <1>0, <1>1, PrependKeeps DEF Right
<1>3. v \in SessionWorlds
  BY <1>0, <1>1, <1>2 DEF SessionWorlds
<1> HIDE DEF v
<1>4. Right(v, hand \ {i})
  BY <1>0, <1>1, <1>2, <1>3 DEF Right
<1>5. SameBut(v, w, i)
  BY <1>0, <1>1, <1>2 DEF SameBut
<1> QED
  BY <1>1, <1>4, <1>5 DEF v

(* lwiperf_tcp_close(): the session is freed, reported and off the list.    *)
LEMMA CloseRight ==
  ASSUME NEW hand, NEW w, Right(w, hand), NEW i \in Sessions, NEW type,
         Closes(w.ss[i], type)
  PROVE  LET v == Close(w, i, type) IN
         /\ Right(v, hand \ {i}) /\ v.ss[i].mem = "freed" /\ v.ss[i].kind = w.ss[i].kind
         /\ SameBut(v, w, i)
<1> DEFINE f == FreedSession(Report(w.ss[i], type))
           u == PutSession(w, i, f)
           v == ListRemove(u, i)
<1>1. f \in Session /\ f.mem = "freed" /\ FreedOK(f) /\ f.kind = w.ss[i].kind
  BY ClosedIs
<1>2. SessionOK(f)
  BY <1>1, SessionIs
<1> HIDE DEF f
<1>b. w \in SessionWorlds /\ w.ss \in [Sessions -> Session]
  BY DEF Right, SessionWorlds
<1>c. u = [ss |-> [w.ss EXCEPT ![i] = f], list |-> w.list]
  BY <1>b, PutSessionIs
<1>d. Right(u, hand \cup {i})
  BY <1>1, PutRight
<1> HIDE DEF u
<1>3. /\ Right(u, hand \cup {i}) /\ u.ss[i] = f /\ u.list = w.list
      /\ \A j \in Sessions \ {i} : u.ss[j] = w.ss[j]
  BY <1>b, <1>c, <1>d
<1>a. u = [ss |-> u.ss, list |-> u.list] /\ v = [u EXCEPT !.list = RemoveFirst(u.list, i)]
  BY <1>3 DEF ListRemove, Right, SessionWorlds
<1>4. /\ v.list = RemoveFirst(u.list, i) /\ v.ss = u.ss
      /\ v = [ss |-> u.ss, list |-> RemoveFirst(u.list, i)]
  BY <1>a
<1>5. u.list \in Seq(Sessions) /\ IsInjective(u.list)
  BY <1>3 DEF Right, SessionWorlds
<1>6. /\ v.list \in Seq(Sessions) /\ IsInjective(v.list)
      /\ Range(v.list) = Range(u.list) \ {i}
  BY <1>4, <1>5, RemoveFirstKeeps
<1>7. v \in SessionWorlds
  BY <1>3, <1>4, <1>6 DEF Right, SessionWorlds
<1> HIDE DEF v
<1>8. Right(v, hand \ {i})
  BY <1>1, <1>2, <1>3, <1>4, <1>6, <1>7 DEF Right
<1>9. Close(w, i, type) = v
  BY DEF Close, v, u, f
<1>10. SameBut(v, w, i)
  BY <1>3, <1>4, <1>6 DEF SameBut
<1> QED
  BY <1>1, <1>3, <1>4, <1>8, <1>9, <1>10

-----------------------------------------------------------------------------
(* What a callback relies on in the session it is for.                      *)
LEMMA LiveIs ==
  ASSUME NEW w, Right(w, {}), NEW i \in Sessions, w.ss[i].mem = "heap"
  PROVE  /\ w \in SessionWorlds /\ w.ss[i] \in Session /\ HeapOK(w.ss[i])
         /\ i \in Range(w.list)
<1>1. w \in SessionWorlds /\ w.ss[i] \in Session /\ SessionOK(w.ss[i]) /\ i \in Range(w.list)
  BY DEF Right, SessionWorlds
<1> QED
  BY <1>1, SessionIs

(* A session that lives on.                                                 *)
LEMMA UpdateOK ==
  ASSUME NEW w, Right(w, {}), NEW i \in Sessions, w.ss[i].mem = "heap",
         NEW t \in Session, t.mem = "heap", HeapOK(t)
  PROVE  Right(PutSession(w, i, t), {})
<1> DEFINE u == PutSession(w, i, t)
<1>1. w \in SessionWorlds /\ i \in Range(w.list)
  BY LiveIs
<1>2. u = [ss |-> [w.ss EXCEPT ![i] = t], list |-> w.list] /\ Right(u, {} \cup {i})
  BY <1>1, PutSessionIs, PutRight
<1>3. SessionOK(t)
  BY SessionIs
<1>4. u.ss[i] = t /\ i \in Range(u.list)
  BY <1>1, <1>2 DEF SessionWorlds
<1> HIDE DEF u
<1>5. Right(u, {i} \ {i})
  BY <1>2, <1>3, <1>4, Settled
<1>6. {i} \ {i} = {}
  OBVIOUS
<1> QED
  BY <1>5, <1>6 DEF u

(* A session that ends.                                                     *)
LEMMA EndOK ==
  ASSUME NEW w, Right(w, {}), NEW i \in Sessions, w.ss[i].mem = "heap",
         w.ss[i].kind # "listener", NEW type \in Results, Answered(w.ss[i], type),
         type = "dataerror" => w.ss[i].short
  PROVE  Right(Close(w, i, type), {})
<1>1. w.ss[i] \in Session /\ HeapOK(w.ss[i])
  BY LiveIs
<1>2. Closes(w.ss[i], type)
  BY <1>1 DEF Closes, HeapOK
<1>3. Right(Close(w, i, type), {} \ {i})
  BY <1>2, CloseRight
<1>4. {} \ {i} = {}
  OBVIOUS
<1> QED
  BY <1>3, <1>4

(* lwiperf_tcp_client_send_more() goes on or ends the test.                 *)
LEMMA SendMoreOK ==
  ASSUME NEW w, Right(w, {}), NEW i \in Sessions, w.ss[i].mem = "heap",
         w.ss[i].kind = "client", NEW k \in 0 .. 1
  PROVE  Right(SendMore(w, i, k), {})
<1> DEFINE s == w.ss[i]
<1>1. s \in Session /\ HeapOK(s)
  BY LiveIs
<1>2. CASE s.timeup
  <2>1. Answered(s, "done_client") /\ "done_client" \in Results
    BY <1>1 DEF HeapOK, Answered, Results
  <2>2. Right(Close(w, i, "done_client"), {})
    BY <2>1, EndOK
  <2> QED
    BY <1>2, <2>2 DEF SendMore
<1>3. CASE ~s.timeup /\ k = 0
  BY <1>3 DEF SendMore
<1>4. CASE ~s.timeup /\ k # 0
  <2> DEFINE b == IF s.bytes = 0 THEN Header ELSE 2 * Header
             t == [s EXCEPT !.unacked = TRUE, !.bytes = b]
  <2>1. b \in 0 .. MaxStream + 2 * Header
    BY Limits
  <2>2. SendMore(w, i, k) = PutSession(w, i, t)
    BY <1>4 DEF SendMore
  <2> HIDE DEF s, b
  <2>3. t \in Session
    BY <1>1, <2>1 DEF Session
  <2>4. /\ t.mem = s.mem /\ t.kind = s.kind /\ t.report = s.report /\ t.reports = s.reports
        /\ t.result = s.result /\ t.poll_count = s.poll_count /\ t.pcb = s.pcb
        /\ t.answers = s.answers /\ t.flags = s.flags /\ t.master = s.master
    BY <1>1 DEF Session
  <2> HIDE DEF t
  <2>5. HeapOK(t) /\ t.mem = "heap"
    BY <1>1, <2>4 DEF HeapOK, Answered, s
  <2>6. Right(PutSession(w, i, t), {})
    BY <2>3, <2>5, UpdateOK
  <2> QED
    BY <2>2, <2>6
<1> QED
  BY <1>2, <1>3, <1>4

(* What two changes leave alone.                                            *)
LEMMA SameIs ==
  ASSUME NEW u, NEW v, NEW w, NEW i \in Sessions, SameBut(v, u, i), SameBut(u, w, i)
  PROVE  SameBut(v, w, i)
  BY DEF SameBut

(* The session of lwiperf_tx_start_impl().                                  *)
LEMMA StartIs ==
  ASSUME NEW m \in {0} \cup Sessions, NEW flags \in Flags
  PROVE  [NoSession EXCEPT !.mem = "heap", !.kind = "client", !.pcb = "connecting",
                           !.master = m, !.flags = flags, !.have = TRUE] \in Session
<1> DEFINE s == [NoSession EXCEPT !.mem = "heap", !.kind = "client", !.pcb = "connecting"]
           t == [s EXCEPT !.master = m, !.flags = flags]
<1>1. s \in Session
  BY NoSessionIs DEF Session
<1> HIDE DEF s
<1>2. t \in Session
  BY <1>1 DEF Session
<1> HIDE DEF t
<1>3. ASSUME NEW on \in BOOLEAN PROVE [t EXCEPT !.have = on] \in Session
  BY <1>2, <1>3 DEF Session
<1>4. [t EXCEPT !.have = TRUE] \in Session
  BY <1>3, Zenon
<1> QED
  BY <1>4 DEF t, s

(* lwiperf_tx_start_impl() adds a client, or one that has failed, or none.  *)
LEMMA TxStartOK ==
  ASSUME NEW hand, NEW w, Right(w, hand), NEW j \in Sessions \ hand, w.ss[j].mem = "none",
         NEW m \in {0} \cup Sessions, NEW flags \in Flags, m # 0 => flags = "none",
         NEW how \in Hows
  PROVE  LET v == TxStart(w, j, m, flags, how) IN
         /\ Right(v, hand)
         /\ SameBut(v, w, j)
         /\ how = "ok" => v.ss[j].kind = "client" /\ v.ss[j].master = m /\ v.ss[j].poll_count = 0
<1> DEFINE s == [NoSession EXCEPT !.mem = "heap", !.kind = "client", !.pcb = "connecting",
                                  !.master = m, !.flags = flags, !.have = TRUE]
           u == PutSession(w, j, s)
           v == TxStart(w, j, m, flags, how)
<1>1. /\ s.mem = "heap" /\ s.kind = "client" /\ s.pcb = "connecting" /\ s.master = m
      /\ s.flags = flags /\ s.report = TRUE /\ s.reports = 0 /\ s.result = "none"
      /\ s.poll_count = 0
  BY DEF NoSession
<1>2. s \in Session
  BY StartIs
<1>3. \/ how = "ok" /\ v = ListAdd(u, j)
      \/ how = "fail" /\ v = Close(u, j, "local")
      \/ how = "mem" /\ v = w
  BY DEF TxStart, Hows
<1> HIDE DEF s, v
<1>4. 0 < MaxIdle /\ "local" \in Results
  BY Limits DEF Results
<1>5. HeapOK(s) /\ SessionOK(s) /\ Closes(s, "local")
  <2>1. Answered(s, "none") /\ Answered(s, "local")
    BY <1>1 DEF Answered
  <2>2. HeapOK(s)
    BY <1>1, <1>4, <2>1 DEF HeapOK
  <2>3. Closes(s, "local")
    BY <1>1, <1>2, <1>4, <2>1 DEF Closes
  <2> QED
    BY <1>1, <2>2, <2>3, SessionIs
<1>6. w \in SessionWorlds /\ w.ss \in [Sessions -> Session] /\ j \notin Range(w.list)
  BY DEF Right, SessionWorlds
<1>7. u = [ss |-> [w.ss EXCEPT ![j] = s], list |-> w.list] /\ Right(u, hand \cup {j})
  BY <1>2, <1>6, PutSessionIs, PutRight
<1>8. /\ u.ss[j] = s /\ u.list = w.list
      /\ SameBut(u, w, j)
  BY <1>6, <1>7 DEF SameBut
<1>9. (hand \cup {j}) \ {j} = hand
  OBVIOUS
<1> HIDE DEF u
<1>10. CASE how = "ok" /\ v = ListAdd(u, j)
  <2>1. /\ Right(ListAdd(u, j), (hand \cup {j}) \ {j}) /\ ListAdd(u, j).ss = u.ss
        /\ SameBut(ListAdd(u, j), u, j)
    BY <1>1, <1>5, <1>6, <1>7, <1>8, AddRight
  <2>2. Right(v, hand) /\ v.ss = u.ss /\ SameBut(v, u, j)
    BY <1>9, <1>10, <2>1
  <2> QED
    BY <1>1, <1>8, <2>2, SameIs DEF v
<1>11. CASE how = "fail" /\ v = Close(u, j, "local")
  <2>1. /\ Right(Close(u, j, "local"), (hand \cup {j}) \ {j})
        /\ SameBut(Close(u, j, "local"), u, j)
    BY <1>5, <1>7, <1>8, CloseRight
  <2>2. Right(v, hand) /\ SameBut(v, u, j)
    BY <1>9, <1>11, <2>1
  <2> QED
    BY <1>8, <1>11, <2>2, SameIs DEF v
<1>12. CASE how = "mem" /\ v = w
  <2>1. SameBut(w, w, j)
    BY DEF SameBut
  <2> QED
    BY <1>12, <2>1 DEF v
<1> QED
  BY <1>3, <1>10, <1>11, <1>12

(* A session that begins.                                                   *)
LEMMA BeginOK ==
  ASSUME NEW hand, NEW w, Right(w, hand), NEW i \in Sessions, w.ss[i].mem = "none", i \notin hand,
         NEW t \in Session, t.mem = "heap", HeapOK(t)
  PROVE  Right(ListAdd(PutSession(w, i, t), i), hand)
<1> DEFINE u == PutSession(w, i, t)
<1>1. w \in SessionWorlds /\ w.ss \in [Sessions -> Session] /\ i \notin Range(w.list)
  BY DEF Right, SessionWorlds
<1>2. u = [ss |-> [w.ss EXCEPT ![i] = t], list |-> w.list] /\ Right(u, hand \cup {i})
  BY <1>1, PutSessionIs, PutRight
<1>3. SessionOK(t)
  BY SessionIs
<1>4. u.ss[i] = t /\ i \notin Range(u.list)
  BY <1>1, <1>2
<1> HIDE DEF u
<1>5. Right(ListAdd(u, i), (hand \cup {i}) \ {i})
  BY <1>2, <1>3, <1>4, AddRight
<1>6. (hand \cup {i}) \ {i} = hand
  OBVIOUS
<1> QED
  BY <1>5, <1>6 DEF u

-----------------------------------------------------------------------------
(* Steps of the sketch.                                                     *)

(* The next state is the world that an action makes.                        *)
LEMMA ThenOK ==
  ASSUME NEW hand, NEW w, Then(w), Right(w, hand), mode' = mode
  PROVE  Right(Now, hand)'
<1>1. w \in SessionWorlds /\ w = [ss |-> w.ss, list |-> w.list]
  BY DEF Right, SessionWorlds
<1>2. Now' = w
  BY <1>1 DEF Then, Now
<1>3. \A s : SessionOK(s)' <=> SessionOK(s)
  BY DEF SessionOK, HeapOK, FreedOK
<1> QED
  BY <1>2, <1>3 DEF Right

(* What the variables are by the invariant.                                 *)
LEMMA NowIs ==
  ASSUME IperfInv
  PROVE  /\ Now.ss = ss /\ Now.list = connections
         /\ Right(Now, {1}) /\ (up # "aborted" => Right(Now, {}))
         /\ ss \in [Sessions -> Session] /\ Now \in SessionWorlds
         /\ \A j \in Unused : j \in Sessions /\ ss[j].mem = "none"
  BY DEF IperfInv, Now, Right, SessionWorlds, Unused

(* What a callback begins with.                                             *)
LEMMA ReadyIs ==
  ASSUME IperfInv, NEW i \in Sessions, Ready(i)
  PROVE  /\ Right(Now, {}) /\ ss[i].mem = "heap" /\ ss[i] \in Session /\ HeapOK(ss[i])
         /\ (ss[i].kind = "server" \/ ss[i].kind = "client" \/ ss[i].kind = "listener")
         /\ up = "none" /\ up' = up /\ mode' = mode
<1>1. up = "none" /\ ss[i].mem = "heap" /\ up' = up /\ mode' = mode
  BY DEF Ready
<1>2. Right(Now, {}) /\ Now.ss = ss
  BY <1>1, NowIs
<1>3. ss[i] \in Session /\ HeapOK(ss[i])
  BY <1>1, <1>2, LiveIs
<1> QED
  BY <1>1, <1>2, <1>3 DEF HeapOK

(* The start: nothing yet.                                                  *)
LEMMA StartInit == IperfInit => IperfInv
<1> SUFFICES ASSUME IperfInit PROVE IperfInv
  OBVIOUS
<1>1. Now = [ss |-> [i \in Sessions |-> NoSession], list |-> <<>>]
  BY DEF IperfInit, Now
<1>2. [i \in Sessions |-> NoSession] \in [Sessions -> Session] /\ NoSession.mem = "none"
  BY NoSessionIs
<1>3. <<>> \in Seq(Sessions) /\ IsInjective(<<>>) /\ Range(<<>>) = {}
  BY DEF IsInjective, Range
<1>4. SessionOK(NoSession)
  BY <1>2, SessionIs
<1>5. Right(Now, {})
  BY <1>1, <1>2, <1>3, <1>4 DEF Right, SessionWorlds
<1> QED
  BY <1>5 DEF IperfInit, IperfInv, StartOK

(* A listener of the sketch, or of a client.                                *)
Listener(m, one, later) ==
  [NoSession EXCEPT !.mem = "heap", !.kind = "listener", !.pcb = "open",
                    !.master = m, !.specific = one, !.tradeoff = later]

(* It is right from its start.                                              *)
LEMMA ListenerIs ==
  ASSUME NEW m \in {0} \cup Sessions, NEW one \in BOOLEAN, NEW later \in BOOLEAN,
         one => m = 1 /\ (later <=> mode = "tradeoff")
  PROVE  /\ Listener(m, one, later) \in Session /\ Listener(m, one, later).mem = "heap"
         /\ HeapOK(Listener(m, one, later))
<1> DEFINE s == [NoSession EXCEPT !.mem = "heap", !.kind = "listener", !.pcb = "open"]
           t == [s EXCEPT !.master = m, !.specific = one, !.tradeoff = later]
<1>1. s \in Session /\ s.mem = "heap" /\ s.kind = "listener" /\ s.pcb = "open" /\ s.report = TRUE
      /\ s.reports = 0 /\ s.result = "none" /\ s.poll_count = 0
  BY NoSessionIs DEF Session
<1> HIDE DEF s
<1>2. /\ t \in Session /\ t.mem = "heap" /\ t.kind = "listener" /\ t.pcb = "open" /\ t.report = TRUE
      /\ t.reports = 0 /\ t.result = "none" /\ t.poll_count = 0
      /\ t.master = m /\ t.specific = one /\ t.tradeoff = later
  BY <1>1 DEF Session
<1> HIDE DEF t
<1>3. HeapOK(t)
  BY <1>2, Limits DEF HeapOK, Answered
<1> QED
  BY <1>2, <1>3 DEF t, s, Listener

(* The sketch starts a server, or fails to.                                 *)
LEMMA StartServerOK ==
  ASSUME IperfInv, StartServer
  PROVE  IperfInv'
<1>1. /\ up = "start" /\ up' = "none" /\ mode' = mode
      /\ \/ Then(ListAdd(PutSession(Now, 1, [NoSession EXCEPT !.mem = "heap", !.kind = "listener",
                                                             !.pcb = "open"]), 1))
         \/ UNCHANGED <<ss, connections>>
  BY DEF StartServer
<1>2. Right(Now, {}) /\ Now.ss = ss /\ ss[1].mem = "none" /\ 1 \in Sessions /\ 1 \notin {}
  BY <1>1, NowIs, NoSessionIs, Limits DEF IperfInv, StartOK
<1>3. \E w : Then(w) /\ Right(w, {})
  <2>1. CASE UNCHANGED <<ss, connections>>
    BY <1>2, <2>1 DEF Then, Now
  <2> DEFINE s == [NoSession EXCEPT !.mem = "heap", !.kind = "listener", !.pcb = "open"]
  <2>2. CASE Then(ListAdd(PutSession(Now, 1, s), 1))
    <3>1. s \in Session /\ s.mem = "heap" /\ s.kind = "listener" /\ s.pcb = "open" /\ s.report = TRUE
          /\ s.reports = 0 /\ s.result = "none" /\ s.poll_count = 0 /\ s.specific = FALSE
      BY NoSessionIs DEF Session
    <3> HIDE DEF s
    <3>2. HeapOK(s)
      BY <3>1, Limits DEF HeapOK, Answered
    <3>3. Right(ListAdd(PutSession(Now, 1, s), 1), {})
      BY <1>2, <3>1, <3>2, BeginOK
    <3> QED
      BY <2>2, <3>3
  <2> QED
    BY <1>1, <2>1, <2>2
<1>4. Right(Now, {})'
  BY <1>1, <1>3, ThenOK
<1> QED
  BY <1>1, <1>4 DEF IperfInv, StartOK

(* The sketch starts a client, or fails to.                                 *)
LEMMA StartClientOK ==
  ASSUME IperfInv, StartClient
  PROVE  IperfInv'
<1> DEFINE flags == CASE mode = "client" -> "none" [] mode = "dual" -> "now"
                      [] mode = "tradeoff" -> "test"
<1>1. PICK how \in Hows :
        /\ Then(TxStart(Now, 1, 0, flags, how))
        /\ up' = IF how = "ok" /\ mode # "client" THEN "listen" ELSE "none"
  BY DEF StartClient
<1>2. /\ Right(Now, {}) /\ Now.ss = ss /\ ss = [i \in Sessions |-> NoSession]
      /\ 1 \in Sessions /\ ss[1].mem = "none" /\ mode' = mode /\ mode \in Modes
  BY NowIs, NoSessionIs, Limits DEF IperfInv, StartOK, StartClient
<1>3. flags \in Flags
  BY <1>2, IperfAssumption DEF StartClient, Flags
<1> DEFINE v == TxStart(Now, 1, 0, flags, how)
<1> HIDE DEF flags
<1>4. /\ Right(v, {}) /\ SameBut(v, Now, 1)
      /\ how = "ok" => v.ss[1].kind = "client" /\ v.ss[1].master = 0 /\ v.ss[1].poll_count = 0
  BY <1>2, <1>3, TxStartOK
<1> HIDE DEF v
<1>5. Then(v)
  BY <1>1 DEF v
<1>6. Right(Now, {})'
  BY <1>2, <1>4, <1>5, ThenOK
<1>7. StartOK'
  BY <1>1, <1>2, <1>4, <1>5 DEF StartOK, Then, SameBut
<1> QED
  BY <1>1, <1>2, <1>6, <1>7 DEF IperfInv

(* The client gets its listener, or is aborted.                             *)
LEMMA StartListenerOK ==
  ASSUME IperfInv, StartListener
  PROVE  IperfInv'
<1>1. /\ Right(Now, {}) /\ Now.ss = ss /\ \A i \in Sessions \ {1} : ss[i] = NoSession
      /\ 1 \in Sessions /\ 2 \in Sessions \ {1} /\ ss[2].mem = "none" /\ mode' = mode /\ mode \in Modes
      /\ ss[1].kind = "client" /\ ss[1].master = 0 /\ ss[1].poll_count = 0
      /\ ss \in [Sessions -> Session] /\ Now \in SessionWorlds
  BY NowIs, NoSessionIs, Limits DEF IperfInv, StartOK, StartListener
<1>2. CASE up' = "none" /\ Then(ListAdd(PutSession(Now, 2, [NoSession EXCEPT !.mem = "heap",
             !.kind = "listener", !.pcb = "open", !.master = 1, !.specific = TRUE,
             !.tradeoff = mode = "tradeoff"]), 2))
  <2> DEFINE t == Listener(1, TRUE, mode = "tradeoff")
  <2>1. ASSUME NEW one \in BOOLEAN, NEW later \in BOOLEAN, later <=> mode = "tradeoff"
        PROVE  /\ Listener(1, one, later) \in Session /\ Listener(1, one, later).mem = "heap"
               /\ HeapOK(Listener(1, one, later))
    BY <1>1, <2>1, ListenerIs
  <2>2. t \in Session /\ t.mem = "heap" /\ HeapOK(t)
    <3>1. TRUE \in BOOLEAN /\ (mode = "tradeoff") \in BOOLEAN
      OBVIOUS
    <3> QED
      BY <2>1, <3>1, Zenon
  <2>3. Right(ListAdd(PutSession(Now, 2, t), 2), {})
    <3> HIDE DEF t
    <3> QED
      BY <1>1, <2>2, BeginOK
  <2>4. Then(ListAdd(PutSession(Now, 2, t), 2))
    BY <1>2 DEF Listener
  <2> HIDE DEF t
  <2>5. Right(Now, {})'
    BY <1>1, <2>3, <2>4, ThenOK
  <2> QED
    BY <1>1, <1>2, <2>5 DEF IperfInv, StartOK
<1>3. CASE up' = "aborted" /\ Then(Abort(Now))
  <2> DEFINE t == [ss[1] EXCEPT !.mem = "freed"]
             u == PutSession(Now, 1, t)
  <2>1. t \in Session /\ t.kind = "client" /\ t.master = 0 /\ t.poll_count = 0
    BY <1>1 DEF Session
  <2>2. Then(u)
    BY <1>1, <1>3 DEF Abort
  <2> HIDE DEF t
  <2>3. u = [ss |-> [ss EXCEPT ![1] = t], list |-> Now.list] /\ Right(u, {} \cup {1})
    BY <1>1, <2>1, PutSessionIs, PutRight
  <2> HIDE DEF u
  <2>4. {} \cup {1} = {1}
    OBVIOUS
  <2>5. Right(Now, {1})'
    BY <1>1, <2>2, <2>3, <2>4, ThenOK
  <2>6. ss'[1] = t /\ \A i \in Sessions \ {1} : ss'[i] = NoSession
    BY <1>1, <2>2, <2>3 DEF Then
  <2> QED
    BY <1>1, <1>3, <2>1, <2>5, <2>6 DEF IperfInv, StartOK
<1> QED
  BY <1>2, <1>3 DEF StartListener

-----------------------------------------------------------------------------
(* A listener that its next connection is the last for.                     *)
Served(w, l) ==
  w.ss[l].specific /\ (~w.ss[l].tradeoff \/ w.ss[l].master \notin Range(w.list))

(* The list after lwiperf_tcp_accept().                                     *)
LEMMA ListenerServedOK ==
  ASSUME NEW hand, NEW w, Right(w, hand), NEW l \in Sessions \ hand, w.ss[l].mem = "heap",
         w.ss[l].kind = "listener"
  PROVE  LET v == ListenerServed(w, l) IN
         /\ Right(v, hand) /\ SameBut(v, w, l)
         /\ Served(w, l) => v.ss[l].mem = "freed"
<1> DEFINE s == w.ss[l]
           t == [s EXCEPT !.report = FALSE]
           u == PutSession(w, l, t)
           v == ListenerServed(w, l)
<1>1. w \in SessionWorlds /\ s \in Session /\ SessionOK(s) /\ w.ss \in [Sessions -> Session]
  BY DEF Right, SessionWorlds
<1>2. HeapOK(s)
  BY <1>1, SessionIs
<1>3. CASE v = w /\ ~Served(w, l)
  <2>1. SameBut(w, w, l)
    BY DEF SameBut
  <2> QED
    BY <1>3, <2>1
<1>4. CASE v = Close([w EXCEPT !.ss[l].report = FALSE], l, "local")
  <2>1. u = [w EXCEPT !.ss[l].report = FALSE]
    <3>1. [w EXCEPT !.ss[l].report = FALSE] = [w EXCEPT !.ss = [w.ss EXCEPT ![l] = t]]
      OBVIOUS
    <3> QED
      BY <3>1 DEF PutSession
  <2>2. ASSUME NEW on \in BOOLEAN PROVE [s EXCEPT !.report = on] \in Session
    BY <1>1, <2>2 DEF Session
  <2>3. t \in Session
    BY <2>2, Zenon
  <2>4. t.kind = "listener" /\ t.reports = 0 /\ t.report = FALSE
    BY <1>1, <1>2 DEF Session, HeapOK
  <2> HIDE DEF t
  <2>5. Closes(t, "local")
    BY <2>3, <2>4 DEF Closes, Answered, Results
  <2>6. u = [ss |-> [w.ss EXCEPT ![l] = t], list |-> w.list] /\ Right(u, hand \cup {l})
    BY <1>1, <2>3, PutSessionIs, PutRight
  <2>7. u.ss[l] = t /\ SameBut(u, w, l)
    BY <1>1, <2>6 DEF SameBut
  <2>8. v = Close(u, l, "local")
    BY <1>4, <2>1
  <2> HIDE DEF u, v
  <2>9. Right(v, (hand \cup {l}) \ {l}) /\ SameBut(v, u, l) /\ v.ss[l].mem = "freed"
    <3>1. Closes(u.ss[l], "local")
      BY <2>5, <2>7
    <3>0. Right(u, hand \cup {l}) /\ l \in Sessions
      BY <2>6
    <3>2. /\ Right(Close(u, l, "local"), (hand \cup {l}) \ {l})
          /\ Close(u, l, "local").ss[l].mem = "freed"
          /\ SameBut(Close(u, l, "local"), u, l)
      BY <3>0, <3>1, CloseRight
    <3> QED
      BY <2>8, <3>2
  <2>10. (hand \cup {l}) \ {l} = hand
    OBVIOUS
  <2>11. Right(v, hand) /\ SameBut(v, w, l) /\ v.ss[l].mem = "freed"
    BY <2>7, <2>9, <2>10, SameIs
  <2> QED
    BY <2>11 DEF v
<1> QED
  BY <1>3, <1>4 DEF ListenerServed, ListFind, Served

(* A connection that has been accepted is right.                            *)
LEMMA ServerIs ==
  ASSUME NEW m \in {0} \cup Sessions
  PROVE  LET c == [NoSession EXCEPT !.mem = "heap", !.kind = "server", !.pcb = "open", !.master = m]
         IN c \in Session /\ c.mem = "heap" /\ HeapOK(c)
<1> DEFINE s == [NoSession EXCEPT !.mem = "heap", !.kind = "server", !.pcb = "open"]
           c == [s EXCEPT !.master = m]
<1>1. /\ s \in Session /\ s.mem = "heap" /\ s.kind = "server" /\ s.pcb = "open" /\ s.report = TRUE
      /\ s.reports = 0 /\ s.result = "none" /\ s.poll_count = 0 /\ s.answers = 0
      /\ s.flags = "none" /\ s.have = FALSE /\ s.sent = 0 /\ s.bytes = 0 /\ s.unacked = FALSE
  BY NoSessionIs DEF Session
<1> HIDE DEF s
<1>2. /\ c \in Session /\ c.mem = "heap" /\ c.kind = "server" /\ c.pcb = "open" /\ c.report = TRUE
      /\ c.reports = 0 /\ c.result = "none" /\ c.poll_count = 0 /\ c.answers = 0
      /\ c.flags = "none" /\ c.have = FALSE /\ c.sent = 0 /\ c.bytes = 0 /\ c.unacked = FALSE
  BY <1>1 DEF Session
<1> HIDE DEF c
<1>3. Streamed(c)
  BY <1>2 DEF Streamed
<1>4. HeapOK(c)
  BY <1>2, <1>3, Limits DEF HeapOK, Answered
<1> QED
  BY <1>2, <1>4 DEF c, s

(* lwiperf_tcp_accept(), and the end of a listener that has served.         *)
LEMMA TcpAcceptOK ==
  ASSUME IperfInv, NEW l \in Sessions, TcpAccept(l)
  PROVE  \E w : Then(w) /\ Right(w, {}) /\ (Served(Now, l) => w.ss[l].mem = "freed")
<1>1. PICK i \in Unused :
        LET c == [NoSession EXCEPT !.mem = "heap", !.kind = "server", !.pcb = "open",
                                   !.master = IF ss[l].specific THEN ss[l].master ELSE l]
        IN Then(ListAdd(ListenerServed(PutSession(Now, i, c), l), i))
  BY DEF TcpAccept
<1>2. /\ Right(Now, {}) /\ ss[l].mem = "heap" /\ ss[l] \in Session /\ ss[l].kind = "listener"
      /\ Now.ss = ss /\ Now.list = connections /\ Now \in SessionWorlds
      /\ ss \in [Sessions -> Session] /\ i \in Sessions /\ ss[i].mem = "none" /\ i # l
  BY NowIs, ReadyIs DEF TcpAccept
<1> DEFINE m == IF ss[l].specific THEN ss[l].master ELSE l
           c == [NoSession EXCEPT !.mem = "heap", !.kind = "server", !.pcb = "open", !.master = m]
           u == PutSession(Now, i, c)
           v == ListenerServed(u, l)
           w == ListAdd(v, i)
<1>3. m \in {0} \cup Sessions
  BY <1>2 DEF Session
<1>4. Then(w)
  BY <1>1
<1> HIDE DEF m
<1>5. c \in Session /\ c.mem = "heap" /\ HeapOK(c) /\ SessionOK(c)
  BY <1>3, ServerIs, SessionIs
<1> HIDE DEF c
<1>6. u = [ss |-> [ss EXCEPT ![i] = c], list |-> connections] /\ Right(u, {} \cup {i})
  BY <1>2, <1>5, PutSessionIs, PutRight
<1>7. {} \cup {i} = {i} /\ {i} \ {i} = {} /\ l \in Sessions \ {i}
  BY <1>2
<1>8. /\ Right(u, {i}) /\ u.ss[i] = c /\ u.ss[l] = ss[l] /\ u.list = connections
      /\ i \notin Range(connections)
  BY <1>2, <1>6, <1>7 DEF Right
<1> HIDE DEF u
<1>9. /\ Right(v, {i}) /\ SameBut(v, u, l)
      /\ Served(u, l) => v.ss[l].mem = "freed"
  BY <1>2, <1>7, <1>8, ListenerServedOK
<1>a. Served(u, l) <=> Served(Now, l)
  BY <1>2, <1>8 DEF Served
<1> HIDE DEF v
<1>10. v.ss[i] = c /\ i \notin Range(v.list)
  BY <1>2, <1>8, <1>9 DEF SameBut
<1>11. Right(w, {i} \ {i}) /\ w.ss = v.ss
  BY <1>2, <1>5, <1>9, <1>10, AddRight
<1> QED
  BY <1>4, <1>7, <1>9, <1>a, <1>11

(* Sessions that go on with other marks.                                    *)
LEMMA TouchOK ==
  ASSUME IperfInv, NEW i \in Sessions, Ready(i), NEW t \in Session, t.mem = "heap", HeapOK(t)
  PROVE  LET w == PutSession(Now, i, t) IN
         /\ Right(w, {}) /\ w.ss[i] = t /\ \A j \in Sessions \ {i} : w.ss[j] = ss[j]
         /\ w = [ss |-> [ss EXCEPT ![i] = t], list |-> connections]
<1> DEFINE w == PutSession(Now, i, t)
<1>1. /\ Right(Now, {}) /\ ss[i].mem = "heap" /\ Now.ss = ss /\ Now.list = connections
      /\ Now \in SessionWorlds /\ ss \in [Sessions -> Session]
  BY NowIs, ReadyIs
<1>2. Right(w, {})
  BY <1>1, UpdateOK
<1>3. w = [ss |-> [ss EXCEPT ![i] = t], list |-> connections]
  BY <1>1, PutSessionIs
<1> QED
  BY <1>1, <1>2, <1>3

(* Updates of one field of a session.                                       *)
LEMMA PutNow ==
  ASSUME NEW i \in Sessions
  PROVE  /\ \A x : [Now EXCEPT !.ss[i].pcb = x] = PutSession(Now, i, [ss[i] EXCEPT !.pcb = x])
         /\ \A x : [Now EXCEPT !.ss[i].timeup = x] = PutSession(Now, i, [ss[i] EXCEPT !.timeup = x])
         /\ [Now EXCEPT !.ss[i].poll_count = @ + 1]
              = PutSession(Now, i, [ss[i] EXCEPT !.poll_count = ss[i].poll_count + 1])
  BY DEF PutSession, Now

(* lwiperf_tcp_client_connected().                                          *)
LEMMA ClientConnectedOK ==
  ASSUME IperfInv, NEW i \in Sessions, ClientConnected(i)
  PROVE  \E w : Then(w) /\ Right(w, {})
<1> DEFINE s == ss[i]
           t == [s EXCEPT !.pcb = "open", !.poll_count = 0]
           u == PutSession(Now, i, t)
<1>1. PICK k \in 0 .. 1 : Then(SendMore(u, i, k))
  BY DEF ClientConnected
<1>2. s \in Session /\ s.mem = "heap" /\ HeapOK(s) /\ Ready(i) /\ s.pcb = "connecting"
  BY ReadyIs DEF ClientConnected
<1>3. s.kind = "client" /\ 0 < MaxIdle /\ 0 \in 0 .. MaxIdle
  BY <1>2, Limits DEF HeapOK
<1> HIDE DEF s
<1>4. /\ t \in Session /\ t.mem = s.mem /\ t.kind = s.kind /\ t.report = s.report
      /\ t.reports = s.reports /\ t.result = s.result /\ t.poll_count = 0 /\ t.pcb = "open"
      /\ t.answers = s.answers /\ t.flags = s.flags /\ t.master = s.master
  BY <1>2, <1>3 DEF Session
<1> HIDE DEF t
<1>5. HeapOK(t) /\ t.mem = "heap" /\ t.kind = "client"
  BY <1>2, <1>3, <1>4 DEF HeapOK, Answered
<1>6. Right(u, {}) /\ u.ss[i] = t
  BY <1>2, <1>4, <1>5, TouchOK
<1> HIDE DEF u
<1>7. Right(SendMore(u, i, k), {})
  BY <1>5, <1>6, SendMoreOK
<1> QED
  BY <1>1, <1>7

(* The time of a client is over.                                            *)
LEMMA TimeUpOK ==
  ASSUME IperfInv, NEW i \in Sessions, TimeUp(i)
  PROVE  \E w : Then(w) /\ Right(w, {})
<1> DEFINE s == ss[i]
           u(on) == PutSession(Now, i, [s EXCEPT !.timeup = on])
<1>1. s \in Session /\ s.mem = "heap" /\ HeapOK(s) /\ Ready(i) /\ s.kind = "client"
  BY ReadyIs DEF TimeUp
<1>2. ASSUME NEW on \in BOOLEAN PROVE Right(u(on), {})
  <2> DEFINE t == [s EXCEPT !.timeup = on]
  <2> HIDE DEF s
  <2>1. /\ t \in Session /\ t.mem = s.mem /\ t.kind = s.kind /\ t.report = s.report
        /\ t.reports = s.reports /\ t.result = s.result /\ t.poll_count = s.poll_count
        /\ t.answers = s.answers /\ t.flags = s.flags /\ t.master = s.master /\ t.pcb = s.pcb
    BY <1>1, <1>2 DEF Session
  <2> HIDE DEF t
  <2>2. HeapOK(t) /\ t.mem = "heap"
    BY <1>1, <2>1 DEF HeapOK, Answered
  <2>3. Right(PutSession(Now, i, t), {})
    BY <1>1, <2>1, <2>2, TouchOK
  <2> QED
    BY <2>3 DEF t
<1>3. Then(u(TRUE))
  BY PutNow DEF TimeUp
<1> HIDE DEF u
<1>4. Right(u(TRUE), {})
  BY <1>2, Zenon
<1> QED
  BY <1>3, <1>4

(* lwiperf_tcp_client_sent().                                               *)
LEMMA ClientSentOK ==
  ASSUME IperfInv, NEW i \in Sessions, ClientSent(i)
  PROVE  \E w : Then(w) /\ Right(w, {})
<1> DEFINE s == ss[i]
           t(on) == [s EXCEPT !.unacked = on, !.poll_count = 0]
           u(on) == PutSession(Now, i, t(on))
<1>1. PICK k \in 0 .. 1 : Then(SendMore(u(FALSE), i, k))
  BY DEF ClientSent
<1>2. s \in Session /\ s.mem = "heap" /\ HeapOK(s) /\ Ready(i) /\ s.unacked /\ s.kind # "listener"
  BY ReadyIs DEF ClientSent, Connected
<1>3. s.kind = "client" /\ 0 < MaxIdle /\ 0 \in 0 .. MaxIdle
  BY <1>2, Limits DEF HeapOK
<1> HIDE DEF s
<1>4. ASSUME NEW on \in BOOLEAN
      PROVE  Right(u(on), {}) /\ u(on).ss[i].mem = "heap" /\ u(on).ss[i].kind = "client"
  <2>1. /\ t(on) \in Session /\ t(on).mem = s.mem /\ t(on).kind = s.kind /\ t(on).report = s.report
        /\ t(on).reports = s.reports /\ t(on).result = s.result /\ t(on).poll_count = 0
        /\ t(on).answers = s.answers /\ t(on).flags = s.flags /\ t(on).master = s.master
        /\ t(on).pcb = s.pcb
    BY <1>2, <1>3, <1>4 DEF Session
  <2> HIDE DEF t
  <2>2. HeapOK(t(on)) /\ t(on).mem = "heap" /\ t(on).kind = "client"
    BY <1>2, <1>3, <2>1 DEF HeapOK, Answered
  <2>3. Right(u(on), {}) /\ u(on).ss[i] = t(on)
    BY <1>2, <2>1, <2>2, TouchOK
  <2> QED
    BY <2>2, <2>3
<1> HIDE DEF u
<1>5. Right(u(FALSE), {}) /\ u(FALSE).ss[i].mem = "heap" /\ u(FALSE).ss[i].kind = "client"
  BY <1>4, Zenon
<1> DEFINE v == u(FALSE)
<1>6. Then(SendMore(v, i, k)) /\ Right(v, {}) /\ v.ss[i].mem = "heap" /\ v.ss[i].kind = "client"
  BY <1>1, <1>5
<1> HIDE DEF v
<1>7. Right(SendMore(v, i, k), {})
  BY <1>6, SendMoreOK
<1> QED
  BY <1>6, <1>7

(* lwiperf_tcp_poll().                                                      *)
LEMMA TcpPollOK ==
  ASSUME IperfInv, NEW i \in Sessions, TcpPoll(i)
  PROVE  \E w : Then(w) /\ Right(w, {})
<1> DEFINE s == ss[i]
           n == s.poll_count + 1
           t == [s EXCEPT !.poll_count = n]
           u == PutSession(Now, i, t)
<1>1. /\ s \in Session /\ s.mem = "heap" /\ HeapOK(s) /\ Ready(i) /\ s.kind \in {"server", "client"}
      /\ Right(Now, {}) /\ Now.ss = ss /\ Now.list = connections /\ Now \in SessionWorlds
      /\ ss \in [Sessions -> Session]
  BY NowIs, ReadyIs DEF TcpPoll
<1>2. PICK k \in 0 .. 1 :
        Then(IF u.ss[i].poll_count >= MaxIdle THEN Close(u, i, "local")
             ELSE IF s.kind = "client" THEN SendMore(u, i, k) ELSE u)
  <2>1. [Now EXCEPT !.ss[i].poll_count = @ + 1] = u
    BY <1>1, PutNow
  <2> HIDE DEF u
  <2> QED
    BY <2>1 DEF TcpPoll
<1>3. n \in 0 .. MaxIdle
  BY <1>1, Limits DEF HeapOK, Session
<1> HIDE DEF s, n
<1>4. /\ t \in Session /\ t.mem = s.mem /\ t.kind = s.kind /\ t.report = s.report
      /\ t.reports = s.reports /\ t.result = s.result /\ t.poll_count = n /\ t.pcb = s.pcb
      /\ t.answers = s.answers /\ t.flags = s.flags /\ t.master = s.master
      /\ t.unacked = s.unacked /\ t.have = s.have /\ t.sent = s.sent /\ t.bytes = s.bytes
      /\ t.shifted = s.shifted
  BY <1>1, <1>3 DEF Session
<1> HIDE DEF t
<1>5. u = [ss |-> [ss EXCEPT ![i] = t], list |-> connections] /\ Right(u, {} \cup {i})
  BY <1>1, <1>4, PutSessionIs, PutRight
<1>6. u.ss[i] = t
  BY <1>1, <1>5
<1> HIDE DEF u
<1>7. CASE n >= MaxIdle
  <2>1. Closes(t, "local")
    BY <1>1, <1>4 DEF Closes, HeapOK, Answered, Results
  <2>2. Right(Close(u, i, "local"), ({} \cup {i}) \ {i})
    BY <1>5, <1>6, <2>1, CloseRight
  <2>3. ({} \cup {i}) \ {i} = {}
    OBVIOUS
  <2>4. Then(Close(u, i, "local"))
    BY <1>2, <1>4, <1>6, <1>7
  <2> QED
    BY <2>2, <2>3, <2>4
<1>8. CASE ~(n >= MaxIdle)
  <2>1. n < MaxIdle
    BY <1>3, <1>8, Limits
  <2>2. Streamed(s) => Streamed(t)
    BY <1>4 DEF Streamed
  <2>3. HeapOK(t) /\ t.mem = "heap"
    BY <1>1, <1>4, <2>1, <2>2 DEF HeapOK, Answered
  <2>4. Right(PutSession(Now, i, t), {})
    BY <1>1, <1>4, <2>3, TouchOK
  <2>5. Right(u, {})
    BY <2>4 DEF u
  <2>6. CASE s.kind = "client"
    <3>1. Then(SendMore(u, i, k))
      BY <1>2, <1>4, <1>6, <1>8, <2>6
    <3>2. Right(SendMore(u, i, k), {})
      BY <1>4, <1>6, <2>3, <2>5, <2>6, SendMoreOK
    <3> QED
      BY <3>1, <3>2
  <2>7. CASE s.kind # "client"
    BY <1>2, <1>4, <1>6, <1>8, <2>5, <2>7
  <2> QED
    BY <2>6, <2>7
<1> QED
  BY <1>7, <1>8

(* lwiperf_tcp_err().                                                       *)
LEMMA TcpErrOK ==
  ASSUME IperfInv, NEW i \in Sessions, TcpErr(i)
  PROVE  \E w : Then(w) /\ Right(w, {})
<1>1. /\ ss[i] \in Session /\ ss[i].mem = "heap" /\ HeapOK(ss[i]) /\ ss[i].kind # "listener"
      /\ Right(Now, {}) /\ Now.ss = ss /\ Then(Close(Now, i, "remote"))
  BY NowIs, ReadyIs DEF TcpErr
<1>2. Answered(ss[i], "remote") /\ "remote" \in Results
  BY <1>1 DEF HeapOK, Answered, Results
<1>3. Right(Close(Now, i, "remote"), {})
  BY <1>1, <1>2, EndOK
<1> QED
  BY <1>1, <1>3

(* The pcb of a client goes on its own.                                     *)
LEMMA ClientFinOK ==
  ASSUME IperfInv, NEW i \in Sessions, ClientFin(i) \/ ClientGone(i)
  PROVE  \E w : Then(w) /\ Right(w, {})
<1> DEFINE s == ss[i]
<1>1. PICK pcb \in {"closing", "none"} : Then(PutSession(Now, i, [s EXCEPT !.pcb = pcb]))
  BY PutNow DEF ClientFin, ClientGone
<1>2. s \in Session /\ s.mem = "heap" /\ HeapOK(s) /\ Ready(i)
      /\ (s.kind = "client" \/ s.pcb = "closing")
  BY ReadyIs DEF ClientFin, ClientGone
<1>3. s.kind = "client"
  BY <1>2 DEF HeapOK
<1> DEFINE t == [s EXCEPT !.pcb = pcb]
<1> HIDE DEF s
<1>4. /\ t \in Session /\ t.mem = s.mem /\ t.kind = s.kind /\ t.report = s.report
      /\ t.reports = s.reports /\ t.result = s.result /\ t.poll_count = s.poll_count
      /\ t.answers = s.answers /\ t.flags = s.flags /\ t.master = s.master /\ t.pcb = pcb
  BY <1>2 DEF Session
<1> HIDE DEF t
<1>5. HeapOK(t) /\ t.mem = "heap"
  BY <1>2, <1>3, <1>4 DEF HeapOK, Answered
<1>6. Right(PutSession(Now, i, t), {})
  BY <1>2, <1>4, <1>5, TouchOK
<1> QED
  BY <1>1, <1>6 DEF t

(* A session with other marks, in the hand of a callback.                   *)
LEMMA PutOK ==
  ASSUME NEW w, NEW i \in Sessions, Right(w, {i}), i \in Range(w.list),
         NEW t \in Session, t.mem = "heap", HeapOK(t)
  PROVE  Right(PutSession(w, i, t), {})
<1> DEFINE u == PutSession(w, i, t)
<1>1. w \in SessionWorlds
  BY DEF Right
<1>2. u = [ss |-> [w.ss EXCEPT ![i] = t], list |-> w.list] /\ Right(u, {i} \cup {i})
  BY <1>1, PutSessionIs, PutRight
<1>3. SessionOK(t)
  BY SessionIs
<1>4. u.ss[i] = t /\ i \in Range(u.list)
  BY <1>1, <1>2 DEF SessionWorlds
<1> HIDE DEF u
<1>5. Right(u, ({i} \cup {i}) \ {i})
  BY <1>2, <1>3, <1>4, Settled
<1>6. ({i} \cup {i}) \ {i} = {}
  OBVIOUS
<1> QED
  BY <1>5, <1>6 DEF u

(* The session in hand ends.                                                *)
LEMMA ShutOK ==
  ASSUME NEW w, NEW i \in Sessions, Right(w, {i}), NEW type, Closes(w.ss[i], type)
  PROVE  Right(Close(w, i, type), {})
<1>1. Right(Close(w, i, type), {i} \ {i})
  BY CloseRight
<1>2. {i} \ {i} = {}
  OBVIOUS
<1> QED
  BY <1>1, <1>2

(* lwiperf_tx_start_passive() for a session that has not been answered.     *)
LEMMA PassiveOK ==
  ASSUME NEW w, NEW i \in Sessions, Right(w, {i}), i \in Range(w.list), w.ss[i].answers = 0,
         \A j \in Unused : w.ss[j].mem = "none" /\ j # i, NEW how \in Hows
  PROVE  LET v == Passive(w, i, how).w IN
         /\ Right(v, {i}) /\ v.ss[i] = [w.ss[i] EXCEPT !.answers = 1] /\ i \in Range(v.list)
<1> DEFINE s == w.ss[i]
           t == [s EXCEPT !.answers = 1]
           u == [w EXCEPT !.ss[i].answers = @ + 1]
           v == Passive(w, i, how).w
<1>1. w \in SessionWorlds /\ s \in Session /\ w.ss \in [Sessions -> Session]
  BY DEF Right, SessionWorlds
<1>2. t \in Session /\ t.master = s.master /\ s.master \in {0} \cup Sessions
  BY <1>1 DEF Session
<1>3. u = PutSession(w, i, t)
  <2>1. w = [ss |-> w.ss, list |-> w.list]
    BY <1>1 DEF SessionWorlds
  <2>2. [s EXCEPT !.answers = s.answers + 1] = t
    OBVIOUS
  <2>3. u = [w EXCEPT !.ss = [w.ss EXCEPT ![i] = [s EXCEPT !.answers = s.answers + 1]]]
    BY <1>1
  <2> QED
    BY <2>2, <2>3 DEF PutSession
<1>4. v = IF Unused = {} THEN u
          ELSE TxStart(u, CHOOSE j \in Unused : TRUE, u.ss[i].master, "none", how)
  BY DEF Passive
<1> HIDE DEF t, v
<1>5. u = [ss |-> [w.ss EXCEPT ![i] = t], list |-> w.list] /\ Right(u, {i} \cup {i})
  BY <1>1, <1>2, <1>3, PutSessionIs, PutRight
<1> HIDE DEF u
<1>6. {i} \cup {i} = {i}
  OBVIOUS
<1>7. /\ Right(u, {i}) /\ u.ss[i] = t /\ u.list = w.list
      /\ \A j \in Sessions \ {i} : u.ss[j] = w.ss[j]
  BY <1>1, <1>5, <1>6
<1>8. CASE Unused = {}
  BY <1>1, <1>4, <1>7, <1>8 DEF t, v
<1>9. CASE Unused # {}
  <2> DEFINE j == CHOOSE j \in Unused : TRUE
  <2>1. j \in Unused
    BY <1>9
  <2> HIDE DEF j
  <2>2. j \in Sessions \ {i} /\ u.ss[j].mem = "none"
    BY <1>7, <2>1 DEF Unused
  <2>3. v = TxStart(u, j, t.master, "none", how) /\ t.master \in {0} \cup Sessions /\ "none" \in Flags
    BY <1>2, <1>4, <1>7, <1>9 DEF j, Flags
  <2>4. /\ Right(v, {i})
        /\ SameBut(v, u, j)
    BY <1>7, <2>2, <2>3, TxStartOK
  <2>5. i \in Sessions \ {j}
    BY <2>2
  <2>6. Right(v, {i}) /\ v.ss[i] = t /\ i \in Range(v.list)
    BY <1>1, <1>7, <2>4, <2>5 DEF SameBut
  <2> QED
    BY <2>6 DEF t, v
<1> QED
  BY <1>8, <1>9

(* A server in the hand of its receive callback.                            *)
Receiving(s) ==
  /\ s \in Session /\ s.mem = "heap" /\ s.kind = "server" /\ s.pcb = "open" /\ s.report
  /\ s.reports = 0 /\ s.result = "none" /\ s.poll_count = 0 /\ ~s.unacked

(* What is missing for it to go on, or to end.                              *)
LEMMA ReceivingIs ==
  ASSUME NEW s, Receiving(s), Answered(s, "none")
  PROVE  /\ Streamed(s) => HeapOK(s)
         /\ Closes(s, "txerror") /\ ((~s.shifted => s.short) => Closes(s, "dataerror"))
  BY Limits DEF Receiving, HeapOK, Closes, Answered, Results

(* Counting changes the bytes alone.                                        *)
LEMMA CountIs ==
  ASSUME NEW s, Receiving(s), NEW n \in Nat, NEW b \in 0 .. MaxStream + 2 * Header,
         b = IF s.bytes = 0 THEN Header ELSE s.bytes + n
  PROVE  LET t == Count(s, n) IN
         /\ Receiving(t) /\ t.bytes = b /\ t.have = s.have /\ t.flags = s.flags
         /\ t.sent = s.sent /\ t.shifted = s.shifted /\ t.answers = s.answers
         /\ t.master = s.master
<1> DEFINE t == [s EXCEPT !.bytes = b]
<1>1. Count(s, n) = t
  BY DEF Count
<1>2. t \in Session
  BY DEF Receiving, Session
<1>3. /\ t.mem = s.mem /\ t.kind = s.kind /\ t.pcb = s.pcb /\ t.report = s.report
      /\ t.reports = s.reports /\ t.result = s.result /\ t.poll_count = s.poll_count
      /\ t.unacked = s.unacked
      /\ t.bytes = b /\ t.have = s.have /\ t.flags = s.flags
      /\ t.sent = s.sent /\ t.shifted = s.shifted /\ t.answers = s.answers
      /\ t.master = s.master
  BY DEF Receiving, Session
<1> HIDE DEF t
<1>4. Receiving(t)
  BY <1>2, <1>3 DEF Receiving
<1> QED
  BY <1>1, <1>3, <1>4

(* The first settings, whatever they ask for.                               *)
LEMMA RecvSettingsOK ==
  ASSUME NEW w, NEW i \in Sessions, Right(w, {i}), i \in Range(w.list),
         Receiving(w.ss[i]), Answered(w.ss[i], "none"), ~w.ss[i].have,
         w.ss[i].flags = "none", w.ss[i].bytes = 0, NEW n \in Header .. MaxStream,
         w.ss[i].sent = n, ~w.ss[i].shifted => n = Header,
         \A j \in Unused : w.ss[j].mem = "none" /\ j # i,
         NEW flags \in Flags, NEW how \in Hows
  PROVE  Right(RecvSettings(w, i, n, flags, how), {})
<1> DEFINE o == w.ss[i]
           s(on) == [o EXCEPT !.have = on, !.flags = flags]
           u(on) == PutSession(w, i, s(on))
           p == Passive(u(TRUE), i, how)
<1>1. RecvSettings(w, i, n, flags, how) =
        IF flags = "now" /\ p.err THEN Close(p.w, i, "txerror")
        ELSE IF flags = "now" THEN PutSession(p.w, i, Count(p.w.ss[i], n))
        ELSE PutSession(w, i, Count(s(TRUE), n))
  BY DEF RecvSettings
<1>2. ASSUME NEW on \in BOOLEAN
      PROVE  /\ Receiving(s(on)) /\ s(on).have = on /\ s(on).flags = flags /\ s(on).bytes = 0
             /\ s(on).sent = n /\ s(on).shifted = o.shifted /\ s(on).answers = 0
             /\ s(on).master = o.master
  <2>1. s(on) \in Session
    BY <1>2 DEF Receiving, Session
  <2>2. o.answers = 0
    BY DEF Answered, Receiving
  <2> HIDE DEF o
  <2>3. o \in Session /\ Receiving(o) /\ o.bytes = 0 /\ o.sent = n
    BY DEF o, Receiving
  <2>4. /\ s(on).mem = o.mem /\ s(on).kind = o.kind /\ s(on).pcb = o.pcb
        /\ s(on).report = o.report /\ s(on).reports = o.reports /\ s(on).result = o.result
        /\ s(on).poll_count = o.poll_count /\ s(on).unacked = o.unacked
        /\ s(on).have = on /\ s(on).flags = flags /\ s(on).bytes = o.bytes
        /\ s(on).sent = o.sent /\ s(on).shifted = o.shifted /\ s(on).answers = o.answers
        /\ s(on).master = o.master
    BY <1>2, <2>3 DEF Session
  <2> HIDE DEF s
  <2> QED
    BY <2>1, <2>2, <2>3, <2>4 DEF Receiving
<1> HIDE DEF s
<1>3. ASSUME NEW on \in BOOLEAN
      PROVE  /\ Right(u(on), {i}) /\ i \in Range(u(on).list) /\ u(on).ss[i] = s(on)
             /\ \A j \in Unused : u(on).ss[j].mem = "none" /\ j # i
  <2>1. w \in SessionWorlds /\ s(on) \in Session /\ {i} \cup {i} = {i}
    BY <1>2, <1>3 DEF Right, Receiving
  <2>2. /\ u(on) = [ss |-> [w.ss EXCEPT ![i] = s(on)], list |-> w.list]
        /\ Right(u(on), {i} \cup {i})
    BY <2>1, PutSessionIs, PutRight
  <2>3. w.ss \in [Sessions -> Session] /\ \A j \in Unused : j \in Sessions
    BY <2>1 DEF SessionWorlds, Unused
  <2> HIDE DEF u
  <2>4. u(on).ss[i] = s(on) /\ u(on).list = w.list /\ Right(u(on), {i})
    BY <2>1, <2>2, <2>3
  <2>5. \A j \in Sessions \ {i} : u(on).ss[j] = w.ss[j]
    BY <2>2, <2>3
  <2> QED
    BY <2>3, <2>4, <2>5
<1> HIDE DEF u
<1> DEFINE x == s(TRUE)
           y == u(TRUE)
<1>4. /\ Receiving(x) /\ x.have = TRUE /\ x.flags = flags /\ x.bytes = 0
      /\ x.sent = n /\ x.shifted = o.shifted /\ x.answers = 0 /\ x.master = o.master
  BY <1>2, Zenon
<1>5. /\ Right(y, {i}) /\ i \in Range(y.list) /\ y.ss[i] = x
      /\ \A j \in Unused : y.ss[j].mem = "none" /\ j # i
  BY <1>3, Zenon
<1>6. p = Passive(y, i, how)
  OBVIOUS
<1>7. n \in Nat /\ n > 0 /\ n >= Header /\ Header \in 0 .. MaxStream + 2 * Header
  BY Limits
<1> HIDE DEF x, y, p
<1>8. CASE flags = "now"
  <2> DEFINE v == p.w
             z == [x EXCEPT !.answers = 1]
  <2>0. v = Passive(y, i, how).w
    BY <1>6
  <2>1. Right(v, {i}) /\ v.ss[i] = z /\ i \in Range(v.list)
    <3>1. y.ss[i].answers = 0 /\ [y.ss[i] EXCEPT !.answers = 1] = z
      BY <1>4, <1>5
    <3> HIDE DEF v, z
    <3> QED
      BY <1>5, <2>0, <3>1, PassiveOK
  <2>2. z \in Session
    BY <1>4 DEF Receiving, Session
  <2>3. /\ z.mem = x.mem /\ z.kind = x.kind /\ z.pcb = x.pcb
        /\ z.report = x.report /\ z.reports = x.reports /\ z.result = x.result
        /\ z.poll_count = x.poll_count /\ z.unacked = x.unacked
        /\ z.have = x.have /\ z.flags = x.flags /\ z.bytes = x.bytes
        /\ z.sent = x.sent /\ z.shifted = x.shifted /\ z.answers = 1
        /\ z.master = x.master
    BY <1>4 DEF Receiving, Session
  <2> HIDE DEF z, v
  <2>4. Receiving(z) /\ Answered(z, "none")
    BY <1>4, <1>8, <2>2, <2>3 DEF Receiving, Answered
  <2>5. Right(Close(v, i, "txerror"), {})
    BY <2>1, <2>4, ReceivingIs, ShutOK
  <2> DEFINE t == Count(z, n)
  <2>6. /\ Receiving(t) /\ t.bytes = Header /\ t.have = z.have /\ t.flags = z.flags
        /\ t.sent = z.sent /\ t.shifted = z.shifted /\ t.answers = z.answers
        /\ t.master = z.master
    BY <1>4, <1>7, <2>3, <2>4, CountIs
  <2> HIDE DEF t
  <2>7. Streamed(t) /\ Answered(t, "none")
    BY <1>4, <1>7, <1>8, <2>3, <2>4, <2>6 DEF Streamed, Answered, Receiving, o
  <2>8. HeapOK(t) /\ t \in Session /\ t.mem = "heap"
    BY <2>6, <2>7, ReceivingIs DEF Receiving
  <2>9. Right(PutSession(v, i, t), {})
    BY <2>1, <2>8, PutOK
  <2> QED
    BY <1>1, <1>8, <2>1, <2>5, <2>9 DEF t, v
<1>9. CASE flags # "now"
  <2> DEFINE t == Count(x, n)
  <2>1. /\ Receiving(t) /\ t.bytes = Header /\ t.have = x.have /\ t.flags = x.flags
        /\ t.sent = x.sent /\ t.shifted = x.shifted /\ t.answers = x.answers
        /\ t.master = x.master
    BY <1>4, <1>7, CountIs
  <2> HIDE DEF t
  <2>2. Streamed(t) /\ Answered(t, "none")
    BY <1>4, <1>7, <1>9, <2>1 DEF Streamed, Answered, Receiving, o, Flags
  <2>3. HeapOK(t) /\ t \in Session /\ t.mem = "heap"
    BY <2>1, <2>2, ReceivingIs DEF Receiving
  <2>4. Right(PutSession(w, i, t), {})
    BY <2>3, PutOK
  <2> QED
    BY <1>1, <1>9, <2>4 DEF t, x
<1> QED
  BY <1>8, <1>9

(* The session of a tcp_recv callback, marked.                              *)
Marked(o, pos, sh, st) ==
  [o EXCEPT !.poll_count = 0, !.sent = pos, !.shifted = sh, !.short = st]

(* It differs in its marks alone.                                           *)
LEMMA MarkedIs ==
  ASSUME NEW o \in Session, o.mem = "heap", HeapOK(o), o.kind = "server",
         NEW pos \in 0 .. MaxStream, NEW sh \in BOOLEAN, NEW st \in BOOLEAN
  PROVE  LET s == Marked(o, pos, sh, st) IN
         /\ Receiving(s) /\ s.have = o.have /\ s.flags = o.flags /\ s.bytes = o.bytes
         /\ s.sent = pos /\ s.shifted = sh /\ s.short = st /\ s.answers = o.answers
         /\ s.master = o.master
<1> DEFINE r == [o EXCEPT !.poll_count = 0, !.sent = pos]
           t == [r EXCEPT !.shifted = sh, !.short = st]
<1>0. 0 \in 0 .. MaxIdle
  BY Limits
<1>1. r \in Session
  BY <1>0 DEF Session
<1>2. /\ r.mem = o.mem /\ r.kind = o.kind /\ r.pcb = o.pcb /\ r.report = o.report
      /\ r.reports = o.reports /\ r.result = o.result /\ r.unacked = o.unacked
      /\ r.have = o.have /\ r.flags = o.flags /\ r.bytes = o.bytes
      /\ r.answers = o.answers /\ r.master = o.master /\ r.sent = pos /\ r.poll_count = 0
  BY DEF Session
<1> HIDE DEF r
<1>3. t \in Session
  BY <1>1 DEF Session
<1>4. /\ t.mem = r.mem /\ t.kind = r.kind /\ t.pcb = r.pcb /\ t.report = r.report
      /\ t.reports = r.reports /\ t.result = r.result /\ t.unacked = r.unacked
      /\ t.have = r.have /\ t.flags = r.flags /\ t.bytes = r.bytes
      /\ t.answers = r.answers /\ t.master = r.master /\ t.sent = r.sent
      /\ t.poll_count = r.poll_count /\ t.shifted = sh /\ t.short = st
  BY <1>1 DEF Session
<1> HIDE DEF t
<1>5. Receiving(t)
  BY <1>2, <1>3, <1>4 DEF Receiving, HeapOK
<1> QED
  BY <1>2, <1>4, <1>5 DEF t, r, Marked

(* lwiperf_tcp_recv().                                                      *)
LEMMA TcpRecvOK ==
  ASSUME IperfInv, NEW i \in Sessions, TcpRecv(i)
  PROVE  \E w : Then(w) /\ Right(w, {})
<1> DEFINE o == ss[i]
<1>1. PICK n \in 1 .. MaxStream - o.sent, flags \in Flags, how \in Hows :
        LET s == [o EXCEPT !.poll_count = 0, !.sent = o.sent + n,
                           !.shifted = o.shifted \/ (o.sent = 0 /\ n > Header),
                           !.short = Settings(o) /\ n < Header]
            w == PutSession(Now, i, s)
        IN Then(IF s.short THEN Close(w, i, "dataerror")
                ELSE IF ~s.have THEN RecvSettings(w, i, n, flags, how)
                ELSE IF Settings(s) /\ s.flags # "none" /\ ~HeaderAt(o.sent)
                THEN Close(w, i, "dataerror")
                ELSE PutSession(w, i, Count(s, n)))
  BY DEF TcpRecv
<1> DEFINE pos == o.sent + n
           sh == o.shifted \/ (o.sent = 0 /\ n > Header)
           st == Settings(o) /\ n < Header
           s == [o EXCEPT !.poll_count = 0, !.sent = pos, !.shifted = sh, !.short = st]
           w == PutSession(Now, i, s)
<1>2. Then(IF s.short THEN Close(w, i, "dataerror")
           ELSE IF ~s.have THEN RecvSettings(w, i, n, flags, how)
           ELSE IF Settings(s) /\ s.flags # "none" /\ ~HeaderAt(o.sent)
           THEN Close(w, i, "dataerror")
           ELSE PutSession(w, i, Count(s, n)))
  BY <1>1
<1> HIDE DEF s, w
<1>3. /\ o \in Session /\ o.mem = "heap" /\ HeapOK(o) /\ Ready(i) /\ o.kind = "server"
      /\ Right(Now, {}) /\ Now.ss = ss /\ Now.list = connections /\ Now \in SessionWorlds
      /\ ss \in [Sessions -> Session]
      /\ \A j \in Unused : j \in Sessions /\ ss[j].mem = "none" /\ j # i
  BY NowIs, ReadyIs DEF TcpRecv, Connected
<1>4. Streamed(o) /\ Answered(o, "none")
  BY <1>3 DEF HeapOK
<1> HIDE DEF o
<1>5. /\ n \in Nat /\ n > 0 /\ o.sent \in Nat /\ pos = o.sent + n /\ pos \in 0 .. MaxStream
      /\ o.bytes \in Nat
  BY <1>3, Limits DEF Session
<1> HIDE DEF pos
<1>6. sh \in BOOLEAN /\ st \in BOOLEAN
  BY <1>3 DEF Session, Settings
<1> HIDE DEF sh, st
<1>7. /\ Receiving(s) /\ s.have = o.have /\ s.flags = o.flags /\ s.bytes = o.bytes
      /\ s.sent = pos /\ s.shifted = sh /\ s.short = st /\ s.answers = o.answers
      /\ s.master = o.master
  <2>1. s = Marked(o, pos, sh, st)
    BY DEF s, Marked
  <2>2. o \in Session /\ o.mem = "heap" /\ HeapOK(o) /\ o.kind = "server"
    BY <1>3
  <2>3. pos \in 0 .. MaxStream
    BY <1>5
  <2> QED
    BY <1>6, <2>1, <2>2, <2>3, MarkedIs
<1>a. (s.short <=> st) /\ (s.shifted <=> sh) /\ (s.have <=> o.have)
  BY <1>7
<1> USE DEF sh, st
<1>8. w = [ss |-> [ss EXCEPT ![i] = s], list |-> connections] /\ Right(w, {} \cup {i})
  BY <1>3, <1>7, PutSessionIs, PutRight DEF w, Receiving
<1>9. i \in Range(connections)
  BY <1>3, LiveIs DEF o
<1>10. /\ Right(w, {i}) /\ w.ss[i] = s /\ i \in Range(w.list)
       /\ \A j \in Unused : w.ss[j].mem = "none" /\ j # i
  <2>1. {} \cup {i} = {i}
    OBVIOUS
  <2>2. w.ss = [ss EXCEPT ![i] = s] /\ w.list = connections
    BY <1>8
  <2>3. \A j \in Sessions \ {i} : w.ss[j] = ss[j]
    BY <1>3, <2>2
  <2> QED
    BY <1>3, <1>8, <1>9, <2>1, <2>2, <2>3
<1>11. Answered(s, "none")
  BY <1>3, <1>4, <1>7 DEF Answered, Receiving
<1>12. CASE s.short
  <2>1. Right(Close(w, i, "dataerror"), {})
    BY <1>7, <1>10, <1>11, <1>12, ReceivingIs, ShutOK
  <2> QED
    BY <1>2, <1>12, <2>1
<1>13. CASE ~s.short /\ ~s.have
  <2>1. o.bytes = 0 /\ o.sent = 0 /\ o.flags = "none" /\ pos = n /\ n >= Header
    BY <1>4, <1>5, <1>a, <1>13, Limits DEF Streamed, Settings, pos
  <2>2. n \in Header .. MaxStream /\ (~s.shifted => n = Header)
    BY <1>5, <1>a, <2>1, Limits
  <2>3. Right(RecvSettings(w, i, n, flags, how), {})
    BY <1>7, <1>10, <1>11, <1>13, <2>1, <2>2, RecvSettingsOK
  <2> QED
    BY <1>2, <1>13, <2>3
<1>14. CASE ~s.short /\ s.have /\ Settings(s) /\ s.flags # "none" /\ ~HeaderAt(o.sent)
  <2>1. s.shifted
    <3> SUFFICES ASSUME ~s.shifted PROVE FALSE
      OBVIOUS
    <3>1. ~o.shifted /\ o.bytes = o.sent
      BY <1>4, <1>7 DEF Streamed
    <3> QED
      BY <1>7, <1>14, <3>1 DEF Settings, HeaderAt
  <2>2. Right(Close(w, i, "dataerror"), {})
    BY <1>7, <1>10, <1>11, <2>1, ReceivingIs, ShutOK
  <2> QED
    BY <1>2, <1>14, <2>2
<1>15. CASE ~s.short /\ s.have /\ ~(Settings(s) /\ s.flags # "none" /\ ~HeaderAt(o.sent))
  <2> DEFINE t == Count(s, n)
             b == s.bytes + n
  <2>1. /\ s.bytes # 0 /\ b = s.bytes + n /\ b \in 0 .. MaxStream + 2 * Header /\ b >= Header
        /\ b <= s.sent /\ (~s.shifted => b = s.sent) /\ s.sent > 0
    BY <1>4, <1>5, <1>7, <1>a, <1>15, Limits DEF Streamed, pos
  <2> HIDE DEF b
  <2>2. /\ Receiving(t) /\ t.bytes = b /\ t.have = s.have /\ t.flags = s.flags
        /\ t.sent = s.sent /\ t.shifted = s.shifted /\ t.answers = s.answers
        /\ t.master = s.master
    BY <1>5, <1>7, <2>1, CountIs
  <2> HIDE DEF t
  <2>3. Streamed(t) /\ Answered(t, "none")
    BY <1>7, <1>11, <1>15, <2>1, <2>2 DEF Streamed, Answered, Receiving
  <2>4. HeapOK(t) /\ t \in Session /\ t.mem = "heap"
    BY <2>2, <2>3, ReceivingIs DEF Receiving
  <2>5. Right(PutSession(w, i, t), {})
    BY <1>10, <2>4, PutOK
  <2> QED
    BY <1>2, <1>15, <2>5 DEF t
<1> QED
  BY <1>12, <1>13, <1>14, <1>15

(* The end of the peer's data: the session is answered, if it is to be, and *)
(* closed.                                                                  *)
LEMMA RecvFinOK ==
  ASSUME IperfInv, NEW i \in Sessions, RecvFin(i)
  PROVE  \E w : Then(w) /\ Right(w, {})
<1> DEFINE s == ss[i]
<1>1. PICK how \in Hows :
        Then(Close(IF s.flags = "test" THEN Passive(Now, i, how).w ELSE Now, i, "done_server"))
  BY DEF RecvFin
<1>2. /\ s \in Session /\ s.mem = "heap" /\ HeapOK(s) /\ s.kind = "server"
      /\ Right(Now, {}) /\ Now.ss = ss /\ Now.list = connections
      /\ \A j \in Unused : Now.ss[j].mem = "none" /\ j # i
  BY NowIs, ReadyIs DEF RecvFin, Connected
<1>3. i \in Range(Now.list) /\ Right(Now, {i}) /\ "done_server" \in Results
  BY <1>2, LiveIs DEF Right, Results
<1>4. CASE s.flags # "test"
  <2>1. Answered(s, "done_server")
    BY <1>2, <1>4 DEF HeapOK, Answered
  <2>2. Right(Close(Now, i, "done_server"), {})
    BY <1>2, <1>3, <2>1, EndOK
  <2> QED
    BY <1>1, <1>4, <2>2
<1>5. CASE s.flags = "test"
  <2> DEFINE v == Passive(Now, i, how).w
             t == [s EXCEPT !.answers = 1]
  <2>1. s.answers = 0 /\ s.report /\ s.reports = 0
    BY <1>2, <1>5 DEF HeapOK, Answered
  <2>2. Right(v, {i}) /\ v.ss[i] = t
    <3>1. Now.ss[i].answers = 0 /\ [Now.ss[i] EXCEPT !.answers = 1] = t
      BY <1>2, <2>1
    <3> HIDE DEF t, s
    <3>2. LET x == Passive(Now, i, how).w IN
          /\ Right(x, {i}) /\ x.ss[i] = [Now.ss[i] EXCEPT !.answers = 1] /\ i \in Range(x.list)
      BY <1>2, <1>3, <3>1, PassiveOK
    <3> QED
      BY <3>1, <3>2
  <2> HIDE DEF s, v
  <2>3. /\ t \in Session /\ t.mem = s.mem /\ t.kind = s.kind /\ t.report = s.report
        /\ t.reports = s.reports /\ t.answers = 1 /\ t.flags = s.flags /\ t.master = s.master
    BY <1>2 DEF Session
  <2> HIDE DEF t
  <2>4. Closes(t, "done_server")
    BY <1>2, <1>3, <1>5, <2>1, <2>3 DEF Closes, Answered
  <2>5. Right(Close(v, i, "done_server"), {})
    BY <2>2, <2>4, ShutOK
  <2>6. Then(Close(v, i, "done_server"))
    BY <1>1, <1>5 DEF v, s
  <2> QED
    BY <2>5, <2>6
<1> QED
  BY <1>4, <1>5

(* A callback leaves the mode and the sketch alone.                         *)
LEMMA CallbackOK ==
  ASSUME IperfInv, NEW i \in Sessions, Ready(i), \E w : Then(w) /\ Right(w, {})
  PROVE  IperfInv'
<1>1. up = "none" /\ up' = up /\ mode' = mode
  BY DEF Ready
<1>2. Right(Now, {})'
  BY <1>1, ThenOK
<1> QED
  BY <1>1, <1>2 DEF IperfInv, StartOK

(* The invariant is inductive.                                              *)
LEMMA NextIperf == IperfInv /\ [IperfNext]_iperfVars => IperfInv'
<1> SUFFICES ASSUME IperfInv, [IperfNext]_iperfVars PROVE IperfInv'
  OBVIOUS
<1>1. CASE StartServer
  BY <1>1, StartServerOK
<1>2. CASE StartClient
  BY <1>2, StartClientOK
<1>3. CASE StartListener
  BY <1>3, StartListenerOK
<1>4. ASSUME NEW i \in Sessions, TcpAccept(i) PROVE IperfInv'
  BY <1>4, TcpAcceptOK, CallbackOK DEF TcpAccept
<1>5. ASSUME NEW i \in Sessions, ClientConnected(i) PROVE IperfInv'
  BY <1>5, ClientConnectedOK, CallbackOK DEF ClientConnected
<1>6. ASSUME NEW i \in Sessions, TimeUp(i) PROVE IperfInv'
  BY <1>6, TimeUpOK, CallbackOK DEF TimeUp
<1>7. ASSUME NEW i \in Sessions, ClientSent(i) PROVE IperfInv'
  BY <1>7, ClientSentOK, CallbackOK DEF ClientSent, Connected
<1>8. ASSUME NEW i \in Sessions, TcpPoll(i) PROVE IperfInv'
  BY <1>8, TcpPollOK, CallbackOK DEF TcpPoll
<1>9. ASSUME NEW i \in Sessions, TcpErr(i) PROVE IperfInv'
  BY <1>9, TcpErrOK, CallbackOK DEF TcpErr
<1>10. ASSUME NEW i \in Sessions, ClientFin(i) \/ ClientGone(i) PROVE IperfInv'
  BY <1>10, ClientFinOK, CallbackOK DEF ClientFin, ClientGone
<1>11. ASSUME NEW i \in Sessions, TcpRecv(i) PROVE IperfInv'
  BY <1>11, TcpRecvOK, CallbackOK DEF TcpRecv, Connected
<1>12. ASSUME NEW i \in Sessions, RecvFin(i) PROVE IperfInv'
  BY <1>12, RecvFinOK, CallbackOK DEF RecvFin, Connected
<1>13. CASE UNCHANGED iperfVars
  <2>1. \A s : SessionOK(s)' <=> SessionOK(s)
    BY <1>13 DEF SessionOK, HeapOK, FreedOK, iperfVars
  <2> QED
    BY <1>13, <2>1 DEF iperfVars, IperfInv, StartOK, Right, Now
<1> QED
  BY <1>1, <1>2, <1>3, <1>4, <1>5, <1>6, <1>7, <1>8, <1>9, <1>10, <1>11, <1>12, <1>13
  DEF IperfNext

(* Sessions are right at every step, in all modes, with whatever fails.     *)
THEOREM IperfInvariant == IperfSpec => []IperfInv
  BY StartInit, NextIperf, PTL DEF IperfSpec

(* What the properties want of a session.                                   *)
LEMMA SessionSound ==
  ASSUME NEW s \in Session, SessionOK(s)
  PROVE  /\ s.poll_count < MaxIdle /\ Answered(s, s.result)
         /\ s.pcb \in {"connecting", "open", "closing"} => s.mem = "heap"
         /\ s.reports = IF s.mem = "freed" /\ s.kind # "listener" THEN 1 ELSE 0
         /\ s.kind = "server" /\ ~s.shifted =>
              /\ s.mem = "heap" => s.bytes = s.sent
              /\ s.result = "dataerror" => s.short
<1>1. CASE s.mem = "none"
  <2>1. s = NoSession
    BY <1>1, SessionIs
  <2> QED
    BY <1>1, <2>1, NoSessionIs, Limits DEF Answered
<1>2. CASE s.mem = "heap"
  <2>1. HeapOK(s)
    BY <1>2, SessionIs
  <2> QED
    BY <1>2, <2>1 DEF HeapOK, Streamed
<1>3. CASE s.mem = "freed"
  <2>1. FreedOK(s)
    BY <1>3, SessionIs
  <2> QED
    BY <1>3, <2>1, Limits DEF FreedOK
<1> QED
  BY <1>1, <1>2, <1>3 DEF Session

(* A list of different sessions is no longer than there are sessions.       *)
LEMMA ListBound ==
  ASSUME NEW listed \in Seq(Sessions), IsInjective(listed)
  PROVE  listed \in SeqOf(Sessions, MaxSessions)
<1>1. Len(listed) \in Nat /\ listed \in [1 .. Len(listed) -> Sessions] /\ MaxSessions \in Nat
  BY Limits
<1>2. /\ IsFiniteSet(1 .. Len(listed)) /\ Cardinality(1 .. Len(listed)) = Len(listed)
      /\ IsFiniteSet(1 .. MaxSessions) /\ Cardinality(1 .. MaxSessions) = MaxSessions
  <2>1. /\ 1 \in Int /\ Len(listed) \in Int /\ MaxSessions \in Int /\ ~(1 > MaxSessions)
        /\ (IF 1 > Len(listed) THEN 0 ELSE Len(listed) - 1 + 1) = Len(listed)
        /\ MaxSessions - 1 + 1 = MaxSessions
    BY <1>1, Limits
  <2> QED
    BY <2>1, FS_Interval
<1>3. Len(listed) <= MaxSessions
  <2> SUFFICES ASSUME MaxSessions < Len(listed) PROVE FALSE
    BY <1>1
  <2>1. \E x, y \in 1 .. Len(listed) : x # y /\ listed[x] = listed[y]
    BY <1>1, <1>2, FS_PigeonHole DEF Sessions
  <2> QED
    BY <1>1, <2>1 DEF IsInjective
<1>4. Len(listed) \in 0 .. MaxSessions
  BY <1>1, <1>3
<1> QED
  BY <1>1, <1>4 DEF SeqOf

(* Whether or not lwiperf_abort() has been called.                          *)
LEMMA IperfSound == IperfInv => SessionsSound /\ SessionsInStep
<1> SUFFICES ASSUME IperfInv PROVE SessionsSound /\ SessionsInStep
  OBVIOUS
<1>1. /\ mode \in Modes /\ up \in {"start", "listen", "none", "aborted"} /\ StartOK
      /\ ss \in [Sessions -> Session] /\ connections \in Seq(Sessions) /\ IsInjective(connections)
  BY DEF IperfInv, Right, SessionWorlds, Now
<1>2. connections \in SeqOf(Sessions, MaxSessions)
  BY <1>1, ListBound
<1>3. up # "aborted" =>
        \A i \in Sessions :
          SessionOK(ss[i]) /\ (i \in Range(connections) <=> ss[i].mem = "heap")
  BY DEF IperfInv, Right, Now
<1>4. up = "aborted" =>
        /\ 1 \in Sessions /\ ss[1].kind = "client" /\ ss[1].master = 0 /\ ss[1].poll_count = 0
        /\ \A i \in Sessions \ {1} : SessionOK(ss[i])
  BY Limits DEF IperfInv, Right, Now, StartOK
<1>5. ASSUME NEW i \in Sessions
      PROVE  ss[i].poll_count < MaxIdle /\ Answered(ss[i], ss[i].result)
  <2>1. CASE SessionOK(ss[i])
    BY <1>1, <2>1, SessionSound
  <2>2. CASE ~SessionOK(ss[i])
    <3>1. i = 1 /\ ss[i].kind = "client" /\ ss[i].master = 0 /\ ss[i].poll_count = 0
      BY <1>3, <1>4, <2>2
    <3> QED
      BY <3>1, Limits DEF Answered
  <2> QED
    BY <2>1, <2>2
<1>6. IperfTypeOK
  <2> DEFINE S == [mem : {"none", "heap", "freed"}, kind : {"none", "listener", "server", "client"},
        pcb : {"none", "connecting", "open", "closing", "over"}, master : {0} \cup Sessions,
        report : BOOLEAN, reports : 0 .. 1, poll_count : 0 .. MaxIdle - 1,
        bytes : 0 .. MaxStream + 2 * Header, have : BOOLEAN, flags : Flags, specific : BOOLEAN,
        tradeoff : BOOLEAN, timeup : BOOLEAN, unacked : BOOLEAN, sent : 0 .. MaxStream,
        shifted : BOOLEAN, short : BOOLEAN, answers : 0 .. 2, result : Results]
  <2>1. ASSUME NEW s \in Session, s.poll_count < MaxIdle PROVE s \in S
    <3>1. s.poll_count \in 0 .. MaxIdle - 1
      BY <2>1, Limits DEF Session
    <3> QED
      BY <3>1 DEF Session
  <2>2. \A i \in Sessions : ss[i] \in S
    BY <1>1, <1>5, <2>1
  <2> HIDE DEF S
  <2>3. ss \in [Sessions -> S]
    BY <1>1, <2>2
  <2> QED
    BY <1>1, <1>2, <2>3 DEF IperfTypeOK, S
<1>7. NoDanglingSession
  <2> SUFFICES ASSUME up # "aborted" PROVE NoDanglingSession
    BY DEF NoDanglingSession
  <2>1. Range(connections) \subseteq Sessions
    BY <1>1 DEF Range
  <2>2. Range(connections) = {i \in Sessions : ss[i].mem = "heap"}
    BY <1>3, <2>1
  <2>3. \A i \in Sessions : ss[i].pcb \in {"connecting", "open", "closing"} => ss[i].mem = "heap"
    BY <1>1, <1>3, SessionSound
  <2> QED
    BY <1>1, <2>2, <2>3 DEF NoDanglingSession
<1>8. ReportedOnce
  BY <1>1, <1>3, SessionSound DEF ReportedOnce
<1>9. AnsweredOnce
  BY <1>5 DEF AnsweredOnce, Answered
<1>10. SessionsInStep
  <2> SUFFICES ASSUME NEW i \in Sessions, ss[i].kind = "server", ~ss[i].shifted
               PROVE  /\ ss[i].mem = "heap" => ss[i].bytes = ss[i].sent
                      /\ ss[i].result = "dataerror" => ss[i].short
    BY DEF SessionsInStep
  <2>1. SessionOK(ss[i])
    BY <1>3, <1>4
  <2> QED
    BY <1>1, <2>1, SessionSound
<1> QED
  BY <1>6, <1>7, <1>8, <1>9, <1>10 DEF SessionsSound

(* However many sessions there are and in whatever order lwIP calls back,   *)
(* those that are there are listed once, and each test is reported and      *)
(* answered once.                                                           *)
THEOREM SessionsCorrect == IperfSpec => []SessionsSound
  BY IperfSound, IperfInvariant, PTL

(* Bytes counted are bytes sent, in streams of any length cut anywhere, and *)
(* a peer that sends the settings in one pbuf is not accused of bad data.   *)
THEOREM StreamsCorrect == IperfSpec => []SessionsInStep
  BY IperfSound, IperfInvariant, PTL

(* The listener of a client waits for one connection.                       *)
THEOREM OneAnswerCorrect == IperfSpec => OneAnswerOnly
<1> DEFINE A == \A l \in Sessions :
       TcpAccept(l) /\ ss[l].specific /\ (mode = "dual" \/ ss[1].mem # "heap")
         => ss'[l].mem = "freed"
<1>1. IperfInv => A
  <2> SUFFICES ASSUME IperfInv, NEW l \in Sessions, TcpAccept(l), ss[l].specific,
                      mode = "dual" \/ ss[1].mem # "heap"
               PROVE  ss'[l].mem = "freed"
    OBVIOUS
  <2>1. /\ HeapOK(ss[l]) /\ ss[l].kind = "listener" /\ Right(Now, {}) /\ Now.ss = ss
        /\ Now.list = connections
    BY NowIs, ReadyIs DEF TcpAccept
  <2>2. ss[l].master = 1 /\ (ss[l].tradeoff <=> mode = "tradeoff")
    BY <2>1 DEF HeapOK
  <2>3. 1 \in Range(connections) <=> ss[1].mem = "heap"
    BY <2>1, Limits DEF Right
  <2>4. Served(Now, l)
    BY <2>1, <2>2, <2>3 DEF Served
  <2> QED
    BY <2>4, TcpAcceptOK DEF Then
<1> HIDE DEF A
<1>2. IperfSpec => [][A]_iperfVars
  BY <1>1, IperfInvariant, PTL DEF IperfSpec
<1> QED
  BY <1>2 DEF OneAnswerOnly, A
=============================================================================
