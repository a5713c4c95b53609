------------------------------- MODULE Http2 -------------------------------
(****************************************************************************)
(* One direction of an HTTP/2 connection as the passive parser sees it      *)
(* (h2Direction of internal/parser/http2.go): frames in wire order, header  *)
(* blocks assembled from HEADERS, PUSH_PROMISE and CONTINUATION and decoded *)
(* with the one HPACK decoder of the direction, streams kept until they end *)
(* or are reset, and the direction given up ("poisoned") when it can no     *)
(* longer be followed.                                                      *)
(*                                                                          *)
(* The peer that writes the frames is the environment. A header block is a  *)
(* number, in the order in which the peer's HPACK encoder made it; frames   *)
(* carry one fragment of a block or a few units of data.                    *)
(****************************************************************************)
EXTENDS Integers, Sequences, FiniteSets

CONSTANTS
  Streams,          \* stream identifiers, 0 excluded
  MaxStreams,       \* maxStreams
  MaxHeaderBlock,   \* maxHeaderBlock, in fragments
  MaxBody,          \* maxBodyPerStream, in units
  Faulty,           \* does the peer also send what HTTP/2 forbids?
  Pushes,           \* does it send PUSH_PROMISE (a response direction)?
  MaxBlocks,        \* bound: header blocks sent
  MaxFragments,     \* bound: fragments of one block
  MaxData,          \* bound: units of data on one stream
  DataSizes         \* units in one DATA frame

ASSUME Http2Assumption ==
  /\ Streams \subseteq Nat \ {0} /\ IsFiniteSet(Streams)
  /\ {MaxStreams, MaxHeaderBlock, MaxBody, MaxBlocks, MaxFragments, MaxData} \subseteq Nat
  /\ DataSizes \subseteq Nat
  /\ {Faulty, Pushes} \subseteq BOOLEAN

VARIABLES
  live,        \* keys of d.streams
  st,          \* the h2Stream of each
  asm,         \* assembling, contStream, target, endStream and frag
  done,        \* d.done
  delivered,   \* what FeedRequest or FeedResponse returned so far
  poisoned,
  decoded,     \* history: blocks the HPACK decoder was given, in order
  dropped,     \* history: streams whose header block finishBlock dropped
  peer,        \* what the peer did on each stream
  sending,     \* the block the peer is in the middle of
  nextBlk,     \* its next block
  sent         \* history: what it sent on each stream

dirVars == <<live, st, asm, done, delivered, poisoned, decoded, dropped>>
peerVars == <<peer, sending, nextBlk, sent>>
vars == <<dirVars, peerVars>>

NoStream == [blocks |-> <<>>, body |-> 0, bodyTrunc |-> FALSE]
NoBlock == [on |-> FALSE, cont |-> 0, target |-> 0, endStream |-> FALSE, blk |-> 0, frag |-> 0]

Init ==
  /\ live = {}
  /\ st = [s \in Streams |-> NoStream]
  /\ asm = NoBlock
  /\ done = <<>> /\ delivered = <<>>
  /\ poisoned = FALSE
  /\ decoded = <<>> /\ dropped = {}
  /\ peer = [s \in Streams |-> "idle"]
  /\ sending = NoBlock
  /\ nextBlk = 1
  /\ sent = [s \in Streams |-> NoStream]

-----------------------------------------------------------------------------
(* The parser: handleFrame and what it calls.                               *)

\* Variant: the streams and the open block are kept.
poison_keeps ==
  /\ poisoned' = TRUE
  /\ UNCHANGED <<live, st, asm, done, delivered, decoded, dropped>>
poison ==
  /\ poisoned' = TRUE
  /\ live' = {} /\ st' = [s \in Streams |-> NoStream] /\ asm' = NoBlock
  /\ UNCHANGED <<done, delivered, decoded, dropped>>

store(s, h) ==
  /\ live' = live \cup {s} /\ st' = [st EXCEPT ![s] = h]
  /\ UNCHANGED done

forget(s) == live' = live \ {s} /\ st' = [st EXCEPT ![s] = NoStream]

complete(s, h) ==
  /\ forget(s)
  /\ done' = IF h.blocks = <<>> THEN done ELSE Append(done, [sid |-> s, h |-> h])

keep(s, h, end) == IF end THEN complete(s, h) ELSE store(s, h)

\* Variant: the limit is one too many.
full_late(s) == s \notin live /\ Cardinality(live) > MaxStreams
full(s) == s \notin live /\ Cardinality(live) >= MaxStreams

\* Variant: a block is decoded only when there is room for its stream.
finishBlock_if_room(a, hpackOk) ==
  IF ~hpackOk THEN poison
  ELSE /\ asm' = NoBlock
       /\ IF full(a.target)
          THEN /\ dropped' = dropped \cup {a.target}
               /\ UNCHANGED <<live, st, done, decoded>>
          ELSE /\ keep(a.target, [st[a.target] EXCEPT !.blocks = Append(@, a.blk)], a.endStream)
               /\ decoded' = Append(decoded, a.blk)
               /\ UNCHANGED dropped
       /\ UNCHANGED <<delivered, poisoned>>

\* The decoder runs first, also for a stream that is then dropped.
finishBlock(a, hpackOk) ==
  IF ~hpackOk THEN poison
  ELSE /\ asm' = NoBlock
       /\ decoded' = Append(decoded, a.blk)
       /\ IF full(a.target)
          THEN dropped' = dropped \cup {a.target} /\ UNCHANGED <<live, st, done>>
          ELSE /\ keep(a.target, [st[a.target] EXCEPT !.blocks = Append(@, a.blk)], a.endStream)
               /\ UNCHANGED dropped
       /\ UNCHANGED <<delivered, poisoned>>

\* A fragment has been added to the block a.
fragment(a, f) ==
  IF a.frag > MaxHeaderBlock THEN poison
  ELSE IF f.endHeaders THEN finishBlock(a, f.hpackOk)
  ELSE asm' = a /\ UNCHANGED <<live, st, done, delivered, poisoned, decoded, dropped>>

\* Variant: END_STREAM is forgotten when the block goes on in another frame.
beginBlock_loses_end(cont, target, endStream, f) ==
  fragment([on |-> TRUE, cont |-> cont, target |-> target,
            endStream |-> endStream /\ f.endHeaders, blk |-> f.blk, frag |-> 1], f)
beginBlock(cont, target, endStream, f) ==
  fragment([on |-> TRUE, cont |-> cont, target |-> target, endStream |-> endStream,
            blk |-> f.blk, frag |-> 1], f)

onHeaders(f) ==
  IF f.sid = 0 \/ ~f.padOk THEN poison ELSE beginBlock(f.sid, f.sid, f.endStream, f)

onPushPromise(f) ==
  IF ~f.padOk THEN poison ELSE beginBlock(f.sid, f.promised, FALSE, f)

onContinuation(f) ==
  IF ~asm.on \/ f.sid # asm.cont THEN poison
  ELSE fragment([asm EXCEPT !.frag = @ + 1], f)

\* DATA with bad padding counts as empty; a body is cut at its limit.
\* Variant: the limit is looked at before the data is added.
withData_late(h, f) ==
  IF ~f.padOk \/ h.bodyTrunc THEN h
  ELSE IF h.body < MaxBody THEN [h EXCEPT !.body = @ + f.len]
  ELSE [h EXCEPT !.bodyTrunc = TRUE]
\* Variant: a body that reaches the limit exactly counts as cut.
withData_cut_early(h, f) ==
  IF ~f.padOk \/ h.bodyTrunc \/ h.body + f.len < MaxBody
  THEN IF f.padOk /\ ~h.bodyTrunc THEN [h EXCEPT !.body = @ + f.len] ELSE h
  ELSE [h EXCEPT !.body = MaxBody, !.bodyTrunc = TRUE]
withData(h, f) ==
  IF ~f.padOk \/ h.bodyTrunc THEN h
  ELSE IF h.body + f.len <= MaxBody THEN [h EXCEPT !.body = @ + f.len]
  ELSE [blocks |-> h.blocks, body |-> MaxBody, bodyTrunc |-> TRUE]

onData(f) ==
  IF f.sid = 0 THEN poison
  ELSE /\ IF full(f.sid) THEN UNCHANGED <<live, st, done>>
          ELSE keep(f.sid, withData(st[f.sid], f), f.endStream)
       /\ UNCHANGED <<asm, delivered, poisoned, decoded, dropped>>

\* Variant: RST_STREAM is taken for a frame without effect.
onReset_ignored(f) == UNCHANGED dirVars
onReset(f) == forget(f.sid) /\ UNCHANGED <<asm, done, delivered, poisoned, decoded, dropped>>

\* SETTINGS, PRIORITY, PING, GOAWAY, WINDOW_UPDATE and unknown types.
onOther(f) == UNCHANGED dirVars

\* Variant: a frame that interrupts a header block is let through.
interleaved_allowed(f) == FALSE
interleaved(f) == asm.on /\ (f.type # "CONTINUATION" \/ f.sid # asm.cont)

handleFrame(f) ==
  /\ ~poisoned
  /\ IF interleaved(f) THEN poison
     ELSE \/ f.type = "HEADERS" /\ onHeaders(f)
          \/ f.type = "PUSH_PROMISE" /\ onPushPromise(f)
          \/ f.type = "CONTINUATION" /\ onContinuation(f)
          \/ f.type = "DATA" /\ onData(f)
          \/ f.type = "RST_STREAM" /\ onReset(f)
          \/ f.type = "OTHER" /\ onOther(f)

\* FeedRequest and FeedResponse return what drain completed. Where a read ends
\* in the frames is up to the network.
Return ==
  /\ done # <<>>
  /\ delivered' = delivered \o done
  /\ done' = <<>>
  /\ UNCHANGED <<live, st, asm, poisoned, decoded, dropped, peerVars>>

\* A truncated read, or more bytes than maxDirBuffer.
GapOrOverflow ==
  /\ Faulty /\ ~poisoned
  /\ poison
  /\ UNCHANGED peerVars

-----------------------------------------------------------------------------
(* The peer (external). It sends one block at a time, ends each stream at   *)
(* most once and sends trailers only to end a stream.                       *)

Frame(type, sid) ==
  [type |-> type, sid |-> sid, endStream |-> FALSE, endHeaders |-> TRUE, padOk |-> TRUE,
   hpackOk |-> TRUE, blk |-> 0, promised |-> 0, len |-> 0]

CanStart == ~sending.on /\ nextBlk <= MaxBlocks
AfterEnd(end) == IF end THEN "ended" ELSE "open"

\* The block that starts on target is complete or goes on in CONTINUATIONs.
BlockSent(cont, target, end, endHeaders) ==
  /\ nextBlk' = nextBlk + 1
  /\ sending' = IF endHeaders THEN NoBlock
                ELSE [on |-> TRUE, cont |-> cont, target |-> target, endStream |-> end,
                      blk |-> nextBlk, frag |-> 1]
  /\ sent' = [sent EXCEPT ![target].blocks = Append(@, nextBlk)]
  /\ peer' = [peer EXCEPT ![target] = AfterEnd(end)]

SendHeaders(s, end, endHeaders) ==
  /\ CanStart
  /\ peer[s] = "idle" \/ (peer[s] = "open" /\ end)
  /\ BlockSent(s, s, end, endHeaders)
  /\ handleFrame([Frame("HEADERS", s) EXCEPT !.endStream = end, !.endHeaders = endHeaders,
                                            !.blk = nextBlk])

SendPush(s, p, endHeaders) ==
  /\ Pushes /\ CanStart
  /\ peer[s] = "open" /\ peer[p] = "idle"
  /\ BlockSent(s, p, FALSE, endHeaders)
  /\ handleFrame([Frame("PUSH_PROMISE", s) EXCEPT !.promised = p, !.endHeaders = endHeaders,
                                                 !.blk = nextBlk])

SendContinuation(endHeaders) ==
  /\ sending.on /\ sending.frag < MaxFragments
  /\ sending' = IF endHeaders THEN NoBlock ELSE [sending EXCEPT !.frag = @ + 1]
  /\ UNCHANGED <<peer, nextBlk, sent>>
  /\ handleFrame([Frame("CONTINUATION", sending.cont) EXCEPT !.endHeaders = endHeaders,
                                                            !.blk = sending.blk])

SendData(s, n, end) ==
  /\ ~sending.on /\ peer[s] = "open" /\ sent[s].body + n <= MaxData
  /\ sent' = [sent EXCEPT ![s].body = @ + n]
  /\ peer' = [peer EXCEPT ![s] = AfterEnd(end)]
  /\ UNCHANGED <<sending, nextBlk>>
  /\ handleFrame([Frame("DATA", s) EXCEPT !.endStream = end, !.len = n])

SendReset(s) ==
  /\ ~sending.on /\ peer[s] = "open"
  /\ peer' = [peer EXCEPT ![s] = "reset"]
  /\ UNCHANGED <<sending, nextBlk, sent>>
  /\ handleFrame(Frame("RST_STREAM", s))

SendOther ==
  /\ ~sending.on
  /\ UNCHANGED peerVars
  /\ handleFrame(Frame("OTHER", 0))

\* The other endpoint resets the stream: nothing of it shows in this direction.
Abandon(s) ==
  /\ ~sending.on /\ peer[s] = "open"
  /\ peer' = [peer EXCEPT ![s] = "abandoned"]
  /\ UNCHANGED <<dirVars, sending, nextBlk, sent>>

\* DATA whose padding is longer than the frame: it ends the stream all the same.
SendBadData(s, end) ==
  /\ Faulty /\ ~sending.on /\ peer[s] = "open"
  /\ peer' = [peer EXCEPT ![s] = AfterEnd(end)]
  /\ UNCHANGED <<sending, nextBlk, sent>>
  /\ handleFrame([Frame("DATA", s) EXCEPT !.padOk = FALSE, !.endStream = end])

\* What no correct peer sends, or what is left of a stream of which bytes were
\* not captured: stream 0, padding or HPACK that cannot be, a header block that
\* is interrupted or goes on where none is open.
FaultyFrames ==
  {Frame("HEADERS", 0), Frame("DATA", 0), Frame("OTHER", 0)}
    \cup {Frame(type, s) : type \in {"HEADERS", "DATA", "RST_STREAM"},
                           s \in {t \in Streams : sending.on}}
    \cup {[Frame("HEADERS", s) EXCEPT !.padOk = FALSE] : s \in Streams}
    \cup {[Frame("HEADERS", s) EXCEPT !.hpackOk = FALSE] : s \in Streams}
    \cup {[Frame("PUSH_PROMISE", s) EXCEPT !.padOk = FALSE] : s \in Streams}
    \cup {Frame("CONTINUATION", s) : s \in {t \in Streams : ~sending.on \/ t # sending.cont}}
SendFaulty ==
  /\ Faulty
  /\ \E f \in FaultyFrames : handleFrame(f)
  /\ UNCHANGED peerVars

Next ==
  \/ Return \/ GapOrOverflow \/ SendOther \/ SendFaulty
  \/ \E s \in Streams, end \in BOOLEAN :
       \/ \E eh \in BOOLEAN : SendHeaders(s, end, eh)
       \/ \E n \in DataSizes : SendData(s, n, end)
       \/ SendBadData(s, end)
  \/ \E s \in Streams : SendReset(s) \/ Abandon(s)
  \/ \E s, p \in Streams, eh \in BOOLEAN : SendPush(s, p, eh)
  \/ \E eh \in BOOLEAN : SendContinuation(eh)

Spec == Init /\ [][Next]_vars

-----------------------------------------------------------------------------
(* Properties.                                                              *)

Bodies == 0 .. MaxBody
StreamType == [blocks : Seq(Nat), body : Bodies, bodyTrunc : BOOLEAN]

TypeOK ==
  /\ live \subseteq Streams
  /\ st \in [Streams -> StreamType]
  /\ asm \in [on : BOOLEAN, cont : Nat, target : Streams \cup {0},
              endStream : BOOLEAN, blk : Nat, frag : Nat]
  /\ poisoned \in BOOLEAN
  /\ dropped \subseteq Streams

Emitted == delivered \o done

\* The parser never keeps more than maxStreams streams and keeps nothing for a
\* stream it does not know.
StreamsBounded ==
  /\ Cardinality(live) <= MaxStreams
  /\ \A s \in Streams \ live : st[s] = NoStream

\* Every header block the peer sends reaches the HPACK decoder once, in the
\* order in which it was encoded, whatever becomes of its stream: skipping one
\* would make every later block of the connection decode to something else.
HpackInSync ==
  ~poisoned => decoded = [i \in 1 .. nextBlk - 1 - (IF sending.on THEN 1 ELSE 0) |-> i]

\* What is handed on for a stream is what the peer sent on it: its header
\* blocks in order, then as much of its data as the limit allows. A stream of
\* which a header block was dropped for lack of room is excepted.
EmittedIsSent ==
  \A i \in 1 .. Len(Emitted) :
    LET m == Emitted[i] IN
    m.sid \notin dropped =>
      /\ peer[m.sid] = "ended"
      /\ m.h.blocks = sent[m.sid].blocks
      /\ m.h.body = IF sent[m.sid].body > MaxBody THEN MaxBody ELSE sent[m.sid].body
      /\ m.h.bodyTrunc <=> sent[m.sid].body > MaxBody

\* A stream that ended is handed on exactly once, and one that did not end or
\* was dropped at most once.
EmittedOnce ==
  \A s \in Streams :
    LET times == Cardinality({i \in 1 .. Len(Emitted) : Emitted[i].sid = s})
        ended == peer[s] = "ended" /\ ~(sending.on /\ sending.target = s)
    IN /\ times <= IF ended \/ poisoned THEN 1 ELSE 0
       /\ ended /\ ~poisoned /\ s \notin dropped => times = 1

\* Memory is given back: the parser keeps a stream only while the peer has it
\* open, or when the other endpoint reset it.
KeptStreamsAreOpen ==
  \A s \in live : peer[s] \in {"open", "abandoned"} \/ (sending.on /\ sending.target = s)

\* A header block is contiguous: from its first frame to its last one the parser
\* lets nothing happen to any other stream, however the peer behaves.
BlockStep ==
  asm.on /\ ~poisoned' =>
    \A s \in Streams \ {asm.target} :
      st'[s] = st[s] /\ (s \in live' <=> s \in live)
BlocksAreContiguous == [][BlockStep]_vars

\* A poisoned direction stays poisoned, keeps no stream, and completes no more
\* messages; what it had completed before is still returned.
PoisonStep ==
  poisoned => /\ poisoned' /\ live' = {} /\ ~asm'.on
              /\ delivered' \o done' = delivered \o done
PoisonIsFinal == [][PoisonStep]_vars

=============================================================================
