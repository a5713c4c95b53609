------------------------------- MODULE Http1 -------------------------------
(****************************************************************************)
(* Reassembly of HTTP/1.x messages: ParseRequest and ParseResponse of       *)
(* internal/parser/http1.go, called by the loops at the end of Main in      *)
(* internal/sniffer/sniffer.go on what has been captured of one direction   *)
(* of a connection. Each call parses the buffer from its start again and    *)
(* consumes it only when a whole message is there.                          *)
(*                                                                          *)
(* Bytes come in tokens: a head (start line and header lines), a line end   *)
(* (CRLF, on its own or inside a body), a chunk size, a trailer line, and   *)
(* body text with or without spaces. How the tokens are cut into reads is   *)
(* up to the network and to nginx.                                          *)
(****************************************************************************)
EXTENDS Integers, Sequences, SequencesExt

CONSTANTS
  Requests,      \* messages a peer may send: [head, chunks, trailers]
  Responses,
  MaxMessages,   \* bound: messages on the connection
  MaxRead        \* bound: tokens in one read

VARIABLES
  isRequest,     \* the direction
  msgs,          \* what the peer sends
  read,          \* how many tokens of it have been captured
  buf,           \* request_buffer or response_buffer
  out            \* messages that were parsed

http1Vars == <<isRequest, msgs, read, buf, out>>

NL == [k |-> "nl"]
Word == [k |-> "word"]       \* text without a space
Text == [k |-> "text"]       \* three words or more
Line == [k |-> "line"]
Size(n) == [k |-> "size", n |-> n]

\* Content-Length, when there is none.
NoLength == 99

-----------------------------------------------------------------------------
(* The parser. A result has the number of tokens used, 0 for "not yet".     *)

\* A start line that is none says nothing about the body.
NoHead == [k |-> "head", cl |-> NoLength, te |-> FALSE, code |-> "other", version |-> "",
           connection |-> ""]
HeadOf(d) == IF d[1].k = "head" THEN d[1] ELSE NoHead

NotYet == [used |-> 0, head |-> NoHead, body |-> <<>>]
Parsed(d, used, body) == [used |-> used, head |-> HeadOf(d), body |-> body]

First(at) == IF at = {} THEN 0 ELSE Min(at)

\* Where the line that starts at p ends; 0 when its end is not there yet.
lineEnd(d, p) == First({i \in p .. Len(d) : d[i] = NL})

\* The tokens before the first blank line (bytes.Index of CRLF CRLF).
headerEnd(d) == First({i \in 1 .. Len(d) - 1 : d[i] = NL /\ d[i + 1] = NL}) - 1

\* There is a header, and its first line has the parts of a start line.
hasHeader(d) ==
  /\ headerEnd(d) >= 0
  /\ \E i \in 1 .. lineEnd(d, 1) - 1 : d[i].k \in {"head", "text"}

\* The chunk that starts at p: one line with its size, its data and a line end.
\* Variant: the line end after the data is not skipped.
nextChunk_no_crlf(p, n) == p + 2 + n
nextChunk(p, n) == p + 2 + n + 1

\* From p0 on: where the chunks end and what is in them; end 0 for "not yet".
chunks(d, p0) ==
  LET fail == [end |-> 0, body |-> <<>>]
      from[p \in 1 .. Len(d) + 1] ==
        IF lineEnd(d, p) = 0 \/ d[p].k # "size" THEN fail
        ELSE IF d[p].n = 0 THEN [end |-> p + 2, body |-> <<>>]
        ELSE IF Len(d) < p + 2 + d[p].n THEN fail
        ELSE LET rest == from[nextChunk(p, d[p].n)]
             IN [rest EXCEPT !.body = SubSeq(d, p + 2, p + 1 + d[p].n) \o @]
  IN from[p0]

\* The trailer lines from p0 on, up to and with the empty one; 0 for "not yet".
\* Variant: the body ends at the last chunk.
trailing_none(d, p0) == p0
trailing(d, p0) ==
  LET from[p \in 1 .. Len(d) + 1] ==
        IF lineEnd(d, p) = 0 THEN 0
        ELSE IF lineEnd(d, p) = p THEN p + 1
        ELSE from[lineEnd(d, p) + 1]
  IN from[p0]

chunkedBody(d) ==
  LET c == chunks(d, headerEnd(d) + 3)
      end == IF c.end = 0 THEN 0 ELSE trailing(d, c.end)
  IN IF end = 0 THEN NotYet ELSE Parsed(d, end - 1, c.body)

lengthBody(d, n) ==
  LET total == headerEnd(d) + 2 + n
  IN IF Len(d) < total THEN NotYet ELSE Parsed(d, total, SubSeq(d, headerEnd(d) + 3, total))

\* Transfer-Encoding wins over Content-Length; without either there is no body.
ParseRequest(d) ==
  IF ~hasHeader(d) THEN NotYet
  ELSE IF HeadOf(d).te THEN chunkedBody(d)
  ELSE lengthBody(d, IF HeadOf(d).cl = NoLength THEN 0 ELSE HeadOf(d).cl)

\* Variant: every status may have a body.
bodiless_never(head) == FALSE
bodiless(head) == head.code \in {"1xx", "204", "304"}

isPersistent(head) ==
  \/ head.version = "1.1" /\ head.connection # "close"
  \/ head.version = "1.0" /\ head.connection = "keep-alive"

\* Variant: the body is taken to start with the line end of the header.
untilClose_early(d) == Parsed(d, Len(d), SubSeq(d, headerEnd(d) + 2, Len(d)))
\* All there is now is the body.
untilClose(d) == Parsed(d, Len(d), SubSeq(d, headerEnd(d) + 3, Len(d)))

ParseResponse(d) ==
  LET head == HeadOf(d) IN
  IF ~hasHeader(d) THEN NotYet
  ELSE IF bodiless(head) THEN lengthBody(d, 0)
  ELSE IF head.te THEN chunkedBody(d)
  ELSE IF head.cl # NoLength THEN lengthBody(d, head.cl)
  ELSE IF isPersistent(head) THEN lengthBody(d, 0)
  ELSE untilClose(d)

Parse(d) ==
  IF d = <<>> THEN NotYet ELSE IF isRequest THEN ParseRequest(d) ELSE ParseResponse(d)

\* The loop of the sniffer: parse until there is no whole message.
drain(b) ==
  LET from[p \in 1 .. Len(b) + 1] ==
        LET r == Parse(SubSeq(b, p, Len(b))) IN
        IF r.used = 0 THEN [out |-> <<>>, rest |-> SubSeq(b, p, Len(b))]
        ELSE [from[p + r.used] EXCEPT !.out = <<[head |-> r.head, body |-> r.body]>> \o @]
  IN from[1]

-----------------------------------------------------------------------------
(* The peer and the capture.                                                *)

Content(m) == FlattenSeq(m.chunks)

Encoded(m) ==
  <<m.head, NL, NL>> \o
  IF ~m.head.te THEN Content(m)
  ELSE FlattenSeq([i \in 1 .. Len(m.chunks) |->
                     <<Size(Len(m.chunks[i])), NL>> \o m.chunks[i] \o <<NL>>])
       \o <<Size(0), NL>> \o FlattenSeq([i \in 1 .. m.trailers |-> <<Line, NL>>]) \o <<NL>>

\* A response of which only the end of the connection tells the end.
UntilClose(m) ==
  /\ ~isRequest /\ ~m.head.te /\ m.head.cl = NoLength
  /\ ~bodiless(m.head) /\ ~isPersistent(m.head)

\* What a peer sends keeps to the framing that its heads announce. A body may look
\* like anything but a head.
BodyTokens == {NL, Word, Text}
Announced(head) == IF head.cl = NoLength THEN 0 ELSE head.cl

ASSUME Http1Assumption ==
  /\ MaxMessages \in Nat /\ MaxRead \in Nat
  /\ \A m \in Requests \cup Responses :
       /\ m.head.k = "head" /\ m.head.te \in BOOLEAN /\ m.head.cl \in Nat /\ m.trailers \in Nat
       /\ m.chunks \in Seq(Seq(BodyTokens)) /\ \A i \in 1 .. Len(m.chunks) : m.chunks[i] # <<>>
  /\ \A m \in Requests : ~m.head.te => Len(Content(m)) = Announced(m.head)
  /\ \A m \in Responses :
       IF m.head.code \in {"1xx", "204", "304"} THEN ~m.head.te /\ Content(m) = <<>>
       ELSE ~m.head.te /\ (m.head.cl # NoLength \/ isPersistent(m.head)) =>
              Len(Content(m)) = Announced(m.head)

Wire(n) == FlattenSeq([i \in 1 .. n |-> Encoded(msgs[i])])

InitHttp1 ==
  /\ isRequest \in BOOLEAN
  /\ msgs \in UNION {[1 .. n -> IF isRequest THEN Requests ELSE Responses] : n \in 1 .. MaxMessages}
  /\ \A i \in 1 .. Len(msgs) - 1 : ~UntilClose(msgs[i])
  /\ read = 0
  /\ buf = <<>>
  /\ out = <<>>

\* The next n tokens are captured, written to the buffer and parsed.
Captured(n) ==
  /\ read + n <= Len(Wire(Len(msgs)))
  /\ read' = read + n
  /\ LET r == drain(buf \o SubSeq(Wire(Len(msgs)), read + 1, read + n))
     IN buf' = r.rest /\ out' = out \o r.out
  /\ UNCHANGED <<isRequest, msgs>>

NextHttp1 == \E n \in 1 .. MaxRead : Captured(n)

SpecHttp1 == InitHttp1 /\ [][NextHttp1]_http1Vars

-----------------------------------------------------------------------------
(* Properties.                                                              *)

Expected(i) == [head |-> msgs[i].head, body |-> Content(msgs[i])]

\* The messages whose end can be told from their bytes, and those of them of
\* which the last byte has been captured.
Framed == IF UntilClose(msgs[Len(msgs)]) THEN Len(msgs) - 1 ELSE Len(msgs)
Whole == Max({i \in 0 .. Framed : Len(Wire(i)) <= read})

\* However the bytes are cut into reads, ParseRequest and ParseResponse hand on a
\* message as soon as its last byte has been captured, with its own body, and
\* nothing else. A body may hold what looks like the end of a header, a status may
\* forbid the body that Content-Length announces, and trailers may follow the
\* chunks.
HandedOnWhenWhole ==
  /\ Len(out) >= Whole
  /\ SubSeq(out, 1, Whole) = [i \in 1 .. Whole |-> Expected(i)]
  /\ Len(out) > Whole => Whole = Framed /\ Framed < Len(msgs)

\* A response that the end of the connection ends is handed on as soon as its
\* header is there, with what has been captured of its body
\* (internal/parser/http1.go, the end of ParseResponse).
CloseDelimitedPrefix ==
  LET n == Len(msgs) IN
  UntilClose(msgs[n]) /\ read >= Len(Wire(n - 1)) + 3 =>
    /\ Len(out) >= n /\ out[n].head = msgs[n].head
    /\ IsPrefix(out[n].body, Content(msgs[n]))

=============================================================================
