------------------------------ MODULE HttpdSend ------------------------------
(***************************************************************************)
(* How httpd sends one answer: the header strings it makes itself, then a  *)
(* file that is in memory, is read piece by piece, or has SSI tags whose   *)
(* inserts it adds.  One step is one turn of a loop of http_send(); all of *)
(* them run in tcpip_thread, so nothing happens between the steps of a     *)
(* call, and lwIP's callbacks (Sent, Poll, Continue) start the next call.  *)
(* A file and what is sent of it are sequences of characters, which are    *)
(* strings of one.                                                         *)
(***************************************************************************)
EXTENDS Integers, Sequences, SequencesExt, FiniteSets

CONSTANTS
  Pages,             (* the answers: their file, their kind, their header  *)
  TagDesc,           (* http_ssi_tag_desc: lead-in and lead-out            *)
  Known,             (* tag name -> the parts the SSI handler returns      *)
  MaxName,           (* LWIP_HTTPD_MAX_TAG_NAME_LEN                        *)
  SndBuf,            (* TCP_SND_BUF                                        *)
  HTTPD_MAX_RETRIES,
  IncludeTag         (* LWIP_HTTPD_SSI_INCLUDE_TAG                         *)

ASSUME HttpdSendAssumption ==
  /\ \A p \in Pages :
       /\ p.kind \in {"memory", "ssi", "read", "none"}
       /\ p.text \in Seq(STRING) /\ p.hdrs \in Seq(Seq(STRING))
       /\ p.kind = "none" => p.text = <<>>
  /\ \A name \in DOMAIN Known : Known[name] \in Seq(Seq(STRING)) \ {<<>>}
  /\ {MaxName, SndBuf, HTTPD_MAX_RETRIES} \subseteq Nat \ {0}
  /\ IncludeTag \subseteq BOOLEAN

VARIABLES
  page,     (* the answer                                                   *)
  include,
  hs,       (* struct http_state                                            *)
  ssi,      (* struct http_ssi_state                                        *)
  run,      (* where http_send() is, and its len and err                    *)
  queued,   (* bytes written and not acknowledged                           *)
  out,      (* everything written                                           *)
  end       (* how the answer ended                                         *)

sendVars == <<page, include, hs, ssi, run, queued, out, end>>

Text == page.text
LastPart == -1
NoSsi == [state |-> "NONE", type |-> 1, index |-> 0, parsed |-> 1, parse_left |-> 0,
          started |-> 1, tag_end |-> 1, name |-> <<>>, insert |-> <<>>, part |-> LastPart]
(* run.ok: no write, and no allocation, of this call has failed.            *)
Returned(ok) == [pc |-> "idle", len |-> 0, ok |-> ok]

(* The first unsent character of what is in memory is hs.file.              *)
Buffered == IF page.kind = "read" THEN hs.index ELSE Len(Text)
BytesLeft == IF page.kind = "read" THEN Len(Text) - hs.index ELSE 0

SendTypeOK ==
  /\ page \in Pages /\ include \in IncludeTag
  /\ hs.hdr_index \in 1 .. Len(page.hdrs) + 1 /\ hs.hdr_pos \in Nat
  /\ hs.file \in 1 .. Len(Text) + 1 /\ hs.index \in 0 .. Len(Text)
  /\ hs.left = Buffered - hs.file + 1 /\ hs.left >= 0
  /\ hs.retries \in 0 .. HTTPD_MAX_RETRIES
  /\ ssi.state \in {"NONE", "LEADIN", "FOUND", "LEADOUT", "SENDING"}
  /\ ssi.parse_left \in 0 .. Len(Text) /\ Len(ssi.name) <= MaxName
  /\ ssi.index \in 0 .. 4 + MaxName
  /\ run.pc \in {"idle", "headers", "left", "data", "first", "loop", "tail", "check"}
  /\ queued \in 0 .. SndBuf
  /\ end \in {"no", "eof", "retries", "err"}

(* http_init_file().                                                        *)
SendInit ==
  /\ page \in Pages /\ include \in IncludeTag
  /\ hs = [hdr_index |-> 1, hdr_pos |-> 0, file |-> 1, index |-> 0, buf |-> 0, retries |-> 0, wait |-> "no",
           left |-> IF page.kind \in {"memory", "ssi"} THEN Len(page.text) ELSE 0]
  /\ ssi = [NoSsi EXCEPT !.parse_left = IF page.kind = "ssi" THEN Len(page.text) ELSE 0]
  /\ run = [Returned(TRUE) EXCEPT !.pc = "headers"]
  /\ queued = 0 /\ out = <<>> /\ end = "no"

-----------------------------------------------------------------------------
Room == SndBuf - queued

LesserOf(a, b) == IF a < b THEN a ELSE b

(* http_write() of len characters: what fits, or half of it, or a quarter,  *)
(* as long as that is more than one; or nothing.                            *)
Sizes(len) ==
  LET k == LesserOf(len, Room) IN
  {k} \cup {n \in 2 .. k : \E i \in 1 .. k : n = k \div (2 ^ i)}

Outcomes(len) == {[n |-> n, ok |-> TRUE] : n \in Sizes(len)}
                 \cup (IF len = 0 THEN {} ELSE {[n |-> 0, ok |-> FALSE]})

Written(data, w) ==
  /\ out' = out \o SubSeq(data, 1, w.n)
  /\ queued' = queued + w.n

Eof == end' = "eof"

-----------------------------------------------------------------------------
(* http_send_headers(), one write.                                          *)
NumHdrs == Len(page.hdrs)
NextHdr(i) ==
  LET left == {j \in i + 1 .. NumHdrs : page.hdrs[j] # <<>>}
  IN IF left = {} THEN NumHdrs + 1 ELSE CHOOSE j \in left : \A k \in left : j <= k

SendHeaderKeepsPos ==
  /\ run.pc = "headers" /\ hs.hdr_index <= NumHdrs /\ Room > 0
  /\ LET hdr == page.hdrs[hs.hdr_index]
         rest == SubSeq(hdr, hs.hdr_pos + 1, Len(hdr))
     IN \E w \in Outcomes(Len(rest)) :
          /\ Written(rest, w)
          /\ hs' = IF w.n = Len(rest) THEN [hs EXCEPT !.hdr_index = NextHdr(@), !.hdr_pos = 0] ELSE hs
          /\ run' = IF w.ok THEN run ELSE Returned(FALSE)
  /\ UNCHANGED <<page, include, ssi, end>>

SendHeader ==
  /\ run.pc = "headers" /\ hs.hdr_index <= NumHdrs /\ Room > 0
  /\ LET hdr == page.hdrs[hs.hdr_index]
         rest == SubSeq(hdr, hs.hdr_pos + 1, Len(hdr))
     IN \E w \in Outcomes(Len(rest)) :
          /\ Written(rest, w)
          /\ hs' = IF w.n = Len(rest) THEN [hs EXCEPT !.hdr_index = NextHdr(@), !.hdr_pos = 0]
                   ELSE [hs EXCEPT !.hdr_pos = @ + w.n]
          /\ run' = IF w.ok THEN run ELSE Returned(FALSE)
  /\ UNCHANGED <<page, include, ssi, end>>

HeadersDone ==
  /\ run.pc = "headers" /\ (hs.hdr_index > NumHdrs \/ Room = 0)
  /\ run' = IF hs.hdr_index > NumHdrs THEN [run EXCEPT !.pc = "left"] ELSE Returned(run.ok)
  /\ UNCHANGED <<page, include, hs, ssi, queued, out, end>>

-----------------------------------------------------------------------------
(* http_check_eof() when nothing is left in memory: the end, or a piece of  *)
(* the file, in a buffer as large as the first piece.  No memory, or a read *)
(* that takes its time (once for each piece), ends the call.                *)
NoBuffer == hs.buf = 0 /\ run' = Returned(FALSE) /\ UNCHANGED <<hs, end>>

ReadDelayed(count) ==
  /\ hs.wait = "no"
  /\ hs' = [hs EXCEPT !.buf = count, !.wait = "yes"]
  /\ run' = Returned(run.ok)
  /\ UNCHANGED end

Loaded(count) ==
  /\ LET read == LesserOf(count, BytesLeft) IN
     hs' = [hs EXCEPT !.buf = count, !.index = @ + read, !.left = read, !.wait = "no"]
  /\ run' = [run EXCEPT !.pc = "data"]
  /\ UNCHANGED end

CheckEof ==
  IF BytesLeft <= 0
  THEN Eof /\ run' = Returned(run.ok) /\ UNCHANGED hs
  ELSE LET count == IF hs.buf > 0 THEN hs.buf ELSE LesserOf(Room, BytesLeft) IN
       NoBuffer \/ (count > 0 /\ (ReadDelayed(count) \/ Loaded(count)))

Left ==
  /\ run.pc = "left"
  /\ IF hs.left = 0 THEN CheckEof
     ELSE /\ run' = [run EXCEPT !.pc = IF page.kind = "ssi" THEN "first" ELSE "data"]
          /\ UNCHANGED <<hs, end>>
  /\ UNCHANGED <<page, include, ssi, queued, out>>

(* What is sent of hs.file.                                                 *)
Sending(n) == hs' = [hs EXCEPT !.file = @ + n, !.left = @ - n]

(* http_send_data_nonssi().                                                 *)
SendData ==
  /\ run.pc = "data"
  /\ \E w \in Outcomes(hs.left) :
       /\ Written(SubSeq(Text, hs.file, Len(Text)), w)
       /\ Sending(w.n)
       /\ run' = [run EXCEPT !.pc = "check", !.ok = w.ok]
  /\ UNCHANGED <<page, include, ssi, end>>

(* The end of http_send().                                                  *)
Check ==
  /\ run.pc = "check"
  /\ IF hs.left = 0 /\ BytesLeft <= 0 THEN Eof ELSE UNCHANGED end
  /\ run' = Returned(run.ok)
  /\ UNCHANGED <<page, include, hs, ssi, queued, out>>

-----------------------------------------------------------------------------
(* http_send_data_ssi(): first what an earlier call has parsed and not sent. *)
SsiFirst ==
  /\ run.pc = "first"
  /\ IF ssi.parsed > hs.file
     THEN \E w \in Outcomes(ssi.parsed - hs.file) :
            /\ Written(SubSeq(Text, hs.file, ssi.parsed - 1), w)
            /\ Sending(w.n)
            /\ run' = [pc |-> IF Room = w.n THEN "check" ELSE "loop", len |-> w.n, ok |-> w.ok]
     ELSE run' = [pc |-> "loop", len |-> Room, ok |-> TRUE] /\ UNCHANGED <<hs, queued, out>>
  /\ UNCHANGED <<page, include, ssi, end>>

(* Then a loop over the characters, and over the writes of an insert.       *)
More == (ssi.state = "SENDING" \/ ssi.parse_left > 0) /\ run.ok

Turn(state) == run.pc = "loop" /\ More /\ run.len > 0 /\ ssi.state = state

Char == Text[Len(Text) - ssi.parse_left + 1]
Desc == TagDesc[ssi.type]
Advance(s) == [s EXCEPT !.parsed = @ + 1, !.parse_left = @ - 1]

TagNone ==
  /\ Turn("NONE")
  /\ LET types == {t \in DOMAIN TagDesc : TagDesc[t].lead_in[1] = Char} IN
     ssi' = Advance(IF types = {} THEN ssi
                    ELSE [ssi EXCEPT !.type = CHOOSE t \in types : TRUE, !.state = "LEADIN",
                                     !.index = 1, !.started = ssi.parsed])
  /\ UNCHANGED <<page, include, hs, run, queued, out, end>>

TagLeadIn ==
  /\ Turn("LEADIN")
  /\ ssi' = IF ssi.index = Len(Desc.lead_in)
            THEN [ssi EXCEPT !.index = 0, !.state = "FOUND", !.name = <<>>]
            ELSE Advance(IF Char = Desc.lead_in[ssi.index + 1] THEN [ssi EXCEPT !.index = @ + 1]
                         ELSE [ssi EXCEPT !.state = "NONE"])
  /\ UNCHANGED <<page, include, hs, run, queued, out, end>>

EndsName == Char \in {Desc.lead_out[1], " "}

TagFound ==
  /\ Turn("FOUND")
  /\ ssi' = Advance(
       IF ssi.index = 0 /\ Char = " " THEN ssi
       ELSE IF EndsName /\ ssi.index > 0
       THEN [ssi EXCEPT !.state = "LEADOUT", !.index = IF Char = " " THEN 0 ELSE 1]
       ELSE IF ~EndsName /\ ssi.index < MaxName
       THEN [ssi EXCEPT !.name = Append(@, Char), !.index = @ + 1]
       ELSE [ssi EXCEPT !.state = "NONE"])
  /\ UNCHANGED <<page, include, hs, run, queued, out, end>>

(* get_tag_insert(): the handler's text, or part of it, or that the tag is  *)
(* not known.                                                               *)
Unknown(name) == <<"?">> \o name \o <<"?">>

GetTagInsert(s) ==
  LET parts == IF s.name \in DOMAIN Known THEN Known[s.name] ELSE <<Unknown(s.name)>> IN
  [s EXCEPT !.index = 0, !.insert = parts[s.part + 1],
            !.part = IF s.part + 1 < Len(parts) THEN s.part + 1 ELSE LastPart]

(* The text up to the tag, and the tag itself or, if tags are left out, a   *)
(* step over it.                                                            *)
SendUpToTag(s) ==
  LET bound == IF include THEN s.tag_end ELSE s.started IN
  \E w \in Outcomes(bound - hs.file) :
    /\ Written(SubSeq(Text, hs.file, bound - 1), w)
    /\ LET n == IF w.ok /\ ~include /\ s.started <= hs.file
                THEN w.n + s.tag_end - s.started ELSE w.n
       IN Sending(n) /\ run' = [run EXCEPT !.len = n, !.ok = w.ok]

TagEnded ==
  LET s == GetTagInsert([Advance(ssi) EXCEPT !.part = 0]) IN
  [s EXCEPT !.state = "SENDING", !.tag_end = s.parsed, !.parsed = IF include THEN @ ELSE s.started]

TagLeadOut ==
  /\ Turn("LEADOUT")
  /\ IF Char = Desc.lead_out[ssi.index + 1] /\ ssi.index + 1 = Len(Desc.lead_out)
     THEN /\ ssi' = TagEnded
          /\ SendUpToTag(ssi')
     ELSE /\ ssi' = Advance(IF ssi.index = 0 /\ Char = " " THEN ssi
                            ELSE IF Char = Desc.lead_out[ssi.index + 1]
                            THEN [ssi EXCEPT !.index = @ + 1]
                            ELSE [ssi EXCEPT !.state = "NONE"])
          /\ UNCHANGED <<hs, run, queued, out>>
  /\ UNCHANGED <<page, include, end>>

TagSendingText ==
  /\ Turn("SENDING") /\ ssi.tag_end > hs.file
  /\ SendUpToTag(ssi)
  /\ UNCHANGED <<page, include, ssi, end>>

NextPart ==
  IF ssi.index >= Len(ssi.insert) /\ ssi.part # LastPart THEN GetTagInsert(ssi) ELSE ssi

TagSendingInsert ==
  /\ Turn("SENDING") /\ ssi.tag_end <= hs.file
  /\ LET s == NextPart
         rest == SubSeq(s.insert, s.index + 1, Len(s.insert))
     IN IF rest # <<>>
        THEN \E w \in Outcomes(Len(rest)) :
               /\ Written(rest, w)
               /\ ssi' = [s EXCEPT !.index = @ + w.n]
               /\ run' = [run EXCEPT !.len = w.n, !.ok = w.ok]
        ELSE /\ ssi' = IF s.part # LastPart THEN s
                       ELSE [s EXCEPT !.index = 0, !.state = "NONE",
                                      !.parsed = IF include THEN @ ELSE s.tag_end]
             /\ UNCHANGED <<run, queued, out>>
  /\ UNCHANGED <<page, include, hs, end>>

(* With nothing sent in the last turn the call returns; else the rest of    *)
(* what has been parsed follows.                                            *)
LoopEnds ==
  /\ run.pc = "loop" /\ (~More \/ run.len = 0)
  /\ run' = [run EXCEPT !.pc = IF More THEN "check" ELSE "tail"]
  /\ UNCHANGED <<page, include, hs, ssi, queued, out, end>>

SsiTail ==
  /\ run.pc = "tail"
  /\ IF ssi.state # "SENDING" /\ ssi.parsed > hs.file
     THEN \E w \in Outcomes(ssi.parsed - hs.file) :
            /\ Written(SubSeq(Text, hs.file, ssi.parsed - 1), w)
            /\ Sending(w.n)
            /\ run' = [run EXCEPT !.pc = "check", !.ok = @ /\ w.ok]
     ELSE run' = [run EXCEPT !.pc = "check"] /\ UNCHANGED <<hs, queued, out>>
  /\ UNCHANGED <<page, include, ssi, end>>

-----------------------------------------------------------------------------
(* The callbacks of lwIP and of the file system.  A file that is not ready   *)
(* keeps http_send() from starting.                                         *)
HttpSend(s) == run' = IF s.wait = "yes" THEN run ELSE [Returned(TRUE) EXCEPT !.pc = "headers"]

Sent(k) ==
  /\ run.pc = "idle" /\ end = "no" /\ k <= queued
  /\ queued' = queued - k
  /\ hs' = [hs EXCEPT !.retries = 0]
  /\ HttpSend(hs)
  /\ UNCHANGED <<page, include, ssi, out, end>>

PollForever ==
  /\ run.pc = "idle" /\ end = "no"
  /\ hs' = [hs EXCEPT !.retries = IF @ + 1 = HTTPD_MAX_RETRIES THEN 0 ELSE @ + 1]
  /\ IF page.kind # "none" THEN HttpSend(hs) ELSE UNCHANGED run
  /\ UNCHANGED <<page, include, ssi, queued, out, end>>

Poll ==
  /\ run.pc = "idle" /\ end = "no"
  /\ hs' = [hs EXCEPT !.retries = @ + 1]
  /\ IF hs'.retries = HTTPD_MAX_RETRIES THEN end' = "retries" /\ UNCHANGED run
     ELSE /\ UNCHANGED end
          /\ IF page.kind # "none" THEN HttpSend(hs) ELSE UNCHANGED run
  /\ UNCHANGED <<page, include, ssi, queued, out>>

ContinueLater ==
  /\ run.pc = "idle" /\ end = "no" /\ hs.wait = "yes"
  /\ hs' = [hs EXCEPT !.wait = "over"]
  /\ UNCHANGED <<page, include, ssi, run, queued, out, end>>

Continue ==
  /\ run.pc = "idle" /\ end = "no" /\ hs.wait = "yes"
  /\ hs' = [hs EXCEPT !.wait = "over"]
  /\ HttpSend(hs')
  /\ UNCHANGED <<page, include, ssi, queued, out, end>>

Err ==
  /\ run.pc = "idle" /\ end = "no"
  /\ end' = "err"
  /\ UNCHANGED <<page, include, hs, ssi, run, queued, out>>

Call == \/ SendHeader \/ HeadersDone \/ Left \/ SendData \/ Check
        \/ SsiFirst \/ TagNone \/ TagLeadIn \/ TagFound \/ TagLeadOut \/ TagSendingText
        \/ TagSendingInsert \/ LoopEnds \/ SsiTail

SendNext == Call \/ Poll \/ Continue \/ Err \/ \E k \in 1 .. SndBuf : Sent(k)

SendSpec == SendInit /\ [][SendNext]_sendVars
FairSendSpec == SendSpec /\ WF_sendVars(Call) /\ WF_sendVars(Poll)

-----------------------------------------------------------------------------
(* What a page should look like, without the parser: a tag is a lead-in, a  *)
(* name of at most MaxName characters with spaces around it, a lead-out.    *)
Blank(i, j) == \A k \in i .. j : Text[k] = " "

TagName(d, i, j) ==
  LET first == i + Len(d.lead_in)
      last == j - Len(d.lead_out)
      IsName(a, b) ==
        /\ a <= b /\ b < a + MaxName
        /\ Blank(first, a - 1) /\ Blank(b + 1, last)
        /\ \A k \in a .. b : Text[k] \notin {" ", d.lead_out[1]}
  IN IF first <= last /\ SubSeq(Text, i, first - 1) = d.lead_in /\ SubSeq(Text, last + 1, j) = d.lead_out
     THEN LET names == {ab \in (first .. last) \X (first .. last) : IsName(ab[1], ab[2])} IN
          {SubSeq(Text, ab[1], ab[2]) : ab \in names}
     ELSE {}

TagsAt(i) ==
  UNION {{j} \X UNION {TagName(TagDesc[t], i, j) : t \in DOMAIN TagDesc} : j \in i .. Len(Text)}

InsertOf(name) == IF name \in DOMAIN Known THEN FlattenSeq(Known[name]) ELSE Unknown(name)

Rendered ==
  LET f[i \in 1 .. Len(Text) + 1] ==
        IF i > Len(Text) THEN <<>>
        ELSE IF TagsAt(i) = {} THEN <<Text[i]>> \o f[i + 1]
        ELSE LET t == CHOOSE t \in TagsAt(i) : TRUE IN
             (IF include THEN SubSeq(Text, i, t[1]) ELSE <<>>) \o InsertOf(t[2]) \o f[t[1] + 1]
  IN f[1]

Expected == FlattenSeq(page.hdrs) \o (IF page.kind = "ssi" THEN Rendered ELSE Text)

EndsInTag == page.kind = "ssi" /\ \E i \in 1 .. Len(Text) : \E t \in TagsAt(i) : t[1] = Len(Text)

(* However much lwIP takes at a time, and whenever a write fails, what has  *)
(* been written is the beginning of the page: headers once and in order, no *)
(* character lost or repeated, every insert behind its tag.                 *)
InOrder == run.pc = "idle" => IsPrefix(out, Expected)

(* A connection that http_send() itself ends has been sent the whole page.  *)
(* Not so when the last thing of the page is a tag: the end of the file     *)
(* counts, not that of the insert.                                          *)
WholePage == end = "eof" /\ ~EndsInTag => out = Expected

(* Between two calls either something is on its way, whose acknowledgement  *)
(* starts the next one, or the file system will, or a write has failed and  *)
(* it is left to the poll.                                                  *)
NoStall == run.pc = "idle" /\ end = "no" /\ queued = 0 => hs.wait = "yes" \/ ~run.ok

(* A peer that acknowledges nothing, or a write that keeps failing, does    *)
(* not keep the connection: the polls run out.                              *)
AnswerEnds == <>(end # "no")

(* What is sent, at any time and at the end.                                *)
PageSent == SendTypeOK /\ InOrder /\ WholePage

=============================================================================
