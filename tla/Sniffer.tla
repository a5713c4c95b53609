------------------------------ MODULE Sniffer ------------------------------
(****************************************************************************)
(* The daemon's side of the plaintext capture: the loop of                  *)
(* internal/sniffer/sniffer.go that takes one event of the ring buffer at a *)
(* time, keeps a connection per SSL address, tells HTTP/1.1 from HTTP/2,    *)
(* reassembles messages, analyses requests, blocks and logs.                *)
(*                                                                          *)
(* A unit of plaintext names the session it belongs to (s), its message (m) *)
(* and its place in it (i); the first unit of a message says how many units *)
(* the message has (need), as a header block does. Message 0 of an HTTP/2   *)
(* session is the client preface. A message is bad when a detector matches. *)
(****************************************************************************)
EXTENDS Naturals, Sequences

CONSTANTS
  None,
  MaxBuf         \* maxCapturedRead

VARIABLES
  ring,          \* the ring buffer, filled by the probes
  connections,   \* SSL address -> connection
  logged,        \* messages given to the logger and printed
  blocked,       \* client addresses given to AddBlocked
  poisonLogs,    \* the connections that logPoison reported, by client (history: the
                 \* line has the reason and no address)
  unseen         \* history: <<session, direction>> of which a part was cut off and
                 \* nothing looked

userVars == <<connections, logged, blocked, poisonLogs, unseen>>

\* proto is one of "unknown", "h1" and "h2". poisoned holds the directions that
\* HTTP2Conn has given up; fedCut those that were fed a read that was cut short.
NewConnection ==
  [proto |-> "unknown", recv |-> <<>>, send |-> <<>>, poisoned |-> {}, h2logged |-> FALSE,
   fedCut |-> {}]

InitSniffer(ptrs) ==
  /\ connections = [p \in ptrs |-> None]
  /\ logged = {}
  /\ blocked = {}
  /\ poisonLogs = <<>>
  /\ unseen = {}

Preface == 2   \* units of the client preface
IsPreface(unit, i) == unit.m = 0 /\ unit.i = i

\* Variant: no bytes yet is taken for HTTP/1.1.
DetectProtoEager(buf) ==
  IF Len(buf) >= Preface /\ \A i \in 1 .. Preface : IsPreface(buf[i], i) THEN "h2" ELSE "h1"
DetectProto(buf) ==
  IF Len(buf) >= Preface
  THEN IF \A i \in 1 .. Preface : IsPreface(buf[i], i) THEN "h2" ELSE "h1"
  ELSE IF \A i \in 1 .. Len(buf) : IsPreface(buf[i], i) THEN "unknown" ELSE "h1"

-----------------------------------------------------------------------------
(* Reassembly. ParseRequest and ParseResponse are called until they find no *)
(* complete message: a buffer whose head is not the start of a message is   *)
(* never consumed. When the rest of a read was cut off, the next read       *)
(* follows in the buffer as if nothing were missing: its units complete the *)
(* message that was cut, and what is left then may begin in the middle of   *)
(* one.                                                                     *)

Complete(buf, at) ==
  /\ at < Len(buf)
  /\ buf[at + 1].i = 1
  /\ at + buf[at + 1].need <= Len(buf)

\* Where the k-th message ends.
Ends(buf) ==
  LET end[k \in 0 .. Len(buf)] ==
        IF k = 0 THEN 0
        ELSE IF Complete(buf, end[k - 1]) THEN end[k - 1] + buf[end[k - 1] + 1].need
        ELSE end[k - 1]
  IN end

Messages(buf) ==
  LET end == Ends(buf) IN
  {SubSeq(buf, end[k - 1] + 1, end[k]) : k \in {j \in 1 .. Len(buf) : end[j] > end[j - 1]}}
\* Variant: one unit too many is consumed.
RemainderOffByOne(buf) == SubSeq(buf, Ends(buf)[Len(buf)] + 2, Len(buf))
Remainder(buf) == SubSeq(buf, Ends(buf)[Len(buf)] + 1, Len(buf))

\* AnalyseReq, Decide and the logging of the messages in msgs, which came with
\* an event of client conn. AddBlocked is called for every request that has a
\* detection; an event without connection info stands for 0.0.0.0.
Detected(msg) == \E i \in 1 .. Len(msg) : msg[i].bad
\* Variant: requests are analysed and logged but never blocked on.
DeliverWithoutBlock(dir, conn, msgs) ==
  /\ logged' = logged \cup {[dir |-> dir, conn |-> conn, units |-> msg] : msg \in msgs}
  /\ UNCHANGED blocked
Deliver(dir, conn, msgs) ==
  /\ logged' = logged \cup {[dir |-> dir, conn |-> conn, units |-> msg] : msg \in msgs}
  /\ blocked' = IF dir = "recv" /\ \E msg \in msgs : Detected(msg)
                THEN blocked \cup {conn} ELSE blocked

\* FeedRequest and FeedResponse: a truncated read poisons the direction, and a
\* poisoned direction keeps no bytes.
Feed(c, dir, data, truncated) ==
  IF truncated \/ dir \in c.poisoned
  THEN [c EXCEPT !.poisoned = @ \cup {dir}, ![dir] = <<>>]
  ELSE [c EXCEPT ![dir] = Remainder(c[dir] \o data)]
Fed(c, dir, data, truncated) ==
  IF truncated \/ dir \in c.poisoned THEN {} ELSE Messages(c[dir] \o data)

\* logPoison, once per connection.
\* Variant: the flag is not kept.
ReportedAgain(c) == c
Reported(c) == [c EXCEPT !.h2logged = @ \/ c.poisoned # {}]
logPoison(e, c) ==
  poisonLogs' = IF c.poisoned # {} /\ ~c.h2logged THEN Append(poisonLogs, e.conn) ELSE poisonLogs

-----------------------------------------------------------------------------

\* Variant: a close event leaves the connection.
CloseIgnored(e) == e.dir = "close" /\ UNCHANGED userVars
Close(e) ==
  /\ e.dir = "close"
  /\ connections' = [connections EXCEPT ![e.ssl] = None]
  /\ UNCHANGED <<logged, blocked, poisonLogs, unseen>>

\* The connection of an event, made if there is none; fedCut is history.
Connection(e) ==
  LET c == IF connections[e.ssl] = None THEN NewConnection ELSE connections[e.ssl]
  IN [c EXCEPT !.fedCut = IF e.len = MaxBuf THEN @ \cup {e.dir} ELSE @]

Keep(e, c) == connections' = [connections EXCEPT ![e.ssl] = c]

\* Outside HTTP/2 nothing compares the length of a read with maxCapturedRead.
Overlook(e) ==
  unseen' = IF e.len < e.read THEN unseen \cup {<<e.of, e.dir>>} ELSE unseen

HTTP2(e) ==
  LET c == Connection(e)
      truncated == e.len = MaxBuf
      fed == Feed(c, e.dir, e.data, truncated) IN
  /\ e.dir # "close" /\ c.proto = "h2"
  /\ Deliver(e.dir, e.conn, Fed(c, e.dir, e.data, truncated))
  /\ Keep(e, Reported(fed))
  /\ logPoison(e, fed)
  /\ UNCHANGED unseen

\* Every other event is first written to its buffer.
Buffered(e) == [Connection(e) EXCEPT ![e.dir] = @ \o e.data]

Undecided(e) ==
  LET c == Buffered(e) IN
  /\ e.dir # "close" /\ c.proto = "unknown" /\ DetectProto(c.recv) = "unknown"
  /\ Keep(e, c)
  /\ Overlook(e)
  /\ UNCHANGED <<logged, blocked, poisonLogs>>

\* The preface has come: what follows it is fed as not truncated, and then the
\* responses buffered so far.
BecomesHTTP2(e) ==
  LET c == Buffered(e)
      h2 == [c EXCEPT !.proto = "h2", !.recv = <<>>, !.send = <<>>]
      requests == SubSeq(c.recv, Preface + 1, Len(c.recv))
      fed == Feed(Feed(h2, "recv", requests, FALSE), "send", c.send, FALSE) IN
  /\ e.dir # "close" /\ c.proto = "unknown" /\ DetectProto(c.recv) = "h2"
  /\ logged' = logged
       \cup {[dir |-> "recv", conn |-> e.conn, units |-> msg] : msg \in Messages(requests)}
       \cup {[dir |-> "send", conn |-> e.conn, units |-> msg] : msg \in Messages(c.send)}
  /\ blocked' = IF \E msg \in Messages(requests) : Detected(msg)
                THEN blocked \cup {e.conn} ELSE blocked
  /\ Keep(e, Reported(fed))
  /\ logPoison(e, fed)
  /\ Overlook(e)

\* HTTP/1.1 reads the buffer of the event's direction only.
HTTP1(e) ==
  LET c == Buffered(e) IN
  /\ e.dir # "close"
  /\ c.proto = "h1" \/ (c.proto = "unknown" /\ DetectProto(c.recv) = "h1")
  /\ Deliver(e.dir, e.conn, Messages(c[e.dir]))
  /\ Keep(e, [c EXCEPT !.proto = "h1", ![e.dir] = Remainder(c[e.dir])])
  /\ Overlook(e)
  /\ UNCHANGED poisonLogs

\* One turn of the loop in Main.
ReadRecord ==
  /\ ring # <<>>
  /\ ring' = Tail(ring)
  /\ LET e == Head(ring) IN
       Close(e) \/ HTTP2(e) \/ Undecided(e) \/ BecomesHTTP2(e) \/ HTTP1(e)

=============================================================================
