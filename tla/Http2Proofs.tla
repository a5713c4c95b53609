---------------------------- MODULE Http2Proofs ----------------------------
(* Proofs about Http2, for any set of streams, any limits and any peer.     *)
EXTENDS Http2, FiniteSetTheorems, TLAPS

AsmType == [on : BOOLEAN, cont : Nat, target : Streams \cup {0},
            endStream : BOOLEAN, blk : Nat, frag : Nat]

\* What every frame that reaches the parser is like.
FrameNumbers(f) == f.sid \in Streams \cup {0} /\ f.blk \in Nat /\ f.len \in Nat
FrameOk(f) ==
  /\ FrameNumbers(f)
  /\ f.endStream \in BOOLEAN
  /\ f.type = "PUSH_PROMISE" /\ f.padOk => f.promised \in Streams
  /\ f.type = "RST_STREAM" => f.sid \in Streams

(* The inductive invariant: types, the limit on the streams, nothing kept   *)
(* for a stream that is not live, and nothing at all once poisoned.         *)
Kept == st \in [Streams -> StreamType] /\ live \subseteq Streams /\ StreamsBounded
Open == asm \in AsmType /\ (asm.on => asm.target \in Streams)
Given == poisoned \in BOOLEAN /\ dropped \subseteq Streams
Emptied == poisoned => live = {} /\ ~asm.on
PeerType == nextBlk \in Nat \ {0} /\ sending \in AsmType /\ (sending.on => sending.cont \in Streams)
IInv == Kept /\ Open /\ Given /\ Emptied /\ PeerType

LEMMA Zero == 0 \notin Streams /\ IsFiniteSet(Streams) /\ Streams \subseteq Nat
BY Http2Assumption

LEMMA NoStreamType == NoStream \in StreamType /\ NoBlock \in AsmType /\ ~NoBlock.on
BY Http2Assumption, \A n \in Nat : <<>> \in Seq(Nat)
   DEF NoStream, StreamType, NoBlock, AsmType, Bodies

LEMMA LiveFinite == ASSUME Kept PROVE IsFiniteSet(live) /\ Cardinality(live) \in Nat
BY Zero, FS_Subset, FS_CardinalityType DEF Kept

LEMMA PoisonKept == ASSUME poison PROVE Kept' /\ Open' /\ Emptied'
BY NoStreamType, FS_EmptySet, Http2Assumption
   DEF poison, Kept, Open, Emptied, StreamsBounded

\* Removing a stream, and keeping it under the limit.
LEMMA ForgetKept ==
  ASSUME Kept, NEW s \in Streams, forget(s)
  PROVE  Kept'
<1>1. live' \subseteq Streams /\ st' \in [Streams -> StreamType]
  BY NoStreamType DEF forget, Kept
<1>2. Cardinality(live') <= MaxStreams
  <2>1. live' = live \ {s} /\ IsFiniteSet(live)
    BY LiveFinite DEF forget
  <2>2. Cardinality(live') \in {Cardinality(live), Cardinality(live) - 1}
    BY <2>1, FS_RemoveElement
  <2> QED
    BY <2>2, LiveFinite, Http2Assumption DEF Kept, StreamsBounded
<1>3. \A r \in Streams \ live' : st'[r] = NoStream
  BY DEF forget, Kept, StreamsBounded
<1> QED
  BY <1>1, <1>2, <1>3 DEF Kept, StreamsBounded

LEMMA StoreKept ==
  ASSUME Kept, NEW s \in Streams, NEW h \in StreamType, ~full(s), store(s, h)
  PROVE  Kept'
<1>1. live' \subseteq Streams /\ st' \in [Streams -> StreamType]
  BY DEF store, Kept
<1>2. Cardinality(live') <= MaxStreams
  <2>1. live' = live \cup {s} /\ IsFiniteSet(live) /\ Cardinality(live) \in Nat
    BY LiveFinite DEF store
  <2>2. Cardinality(live') = IF s \in live THEN Cardinality(live) ELSE Cardinality(live) + 1
    BY <2>1, FS_AddElement
  <2>3. MaxStreams \in Nat
    BY Http2Assumption
  <2> QED
    BY <2>1, <2>2, <2>3 DEF full, Kept, StreamsBounded
<1>3. \A r \in Streams \ live' : st'[r] = NoStream
  BY DEF store, Kept, StreamsBounded
<1> QED
  BY <1>1, <1>2, <1>3 DEF Kept, StreamsBounded

LEMMA KeepKept ==
  ASSUME Kept, NEW s \in Streams, NEW h \in StreamType, NEW end, ~full(s), keep(s, h, end)
  PROVE  Kept'
BY ForgetKept, StoreKept DEF keep, complete

LEMMA WithDataType ==
  ASSUME NEW h \in StreamType, NEW f, f.len \in Nat
  PROVE  withData(h, f) \in StreamType
<1>1. ASSUME NEW n \in Bodies PROVE [h EXCEPT !.body = n] \in StreamType
  BY <1>1 DEF StreamType
<1>2. [blocks |-> h.blocks, body |-> MaxBody, bodyTrunc |-> TRUE] \in StreamType
  BY Http2Assumption DEF StreamType, Bodies
<1>3. h.body + f.len <= MaxBody => h.body + f.len \in Bodies
  BY Http2Assumption DEF StreamType, Bodies
<1> QED
  BY <1>1, <1>2, <1>3 DEF withData

LEMMA AppendType ==
  ASSUME NEW h \in StreamType, NEW b \in Nat
  PROVE  [h EXCEPT !.blocks = Append(@, b)] \in StreamType
<1>1. Append(h.blocks, b) \in Seq(Nat)
  BY DEF StreamType
<1> QED
  BY <1>1 DEF StreamType

LEMMA FinishStep ==
  ASSUME IInv, ~poisoned, NEW a \in AsmType, a.target \in Streams, NEW ok, finishBlock(a, ok)
  PROVE  Kept' /\ Open' /\ Given' /\ Emptied'
<1>1. CASE ~ok
  BY <1>1, PoisonKept DEF finishBlock, poison, Given, IInv
<1>2. CASE ok
  <2>1. asm' = NoBlock /\ poisoned' = poisoned
    BY <1>2 DEF finishBlock
  <2>2. dropped' \subseteq Streams
    BY <1>2 DEF finishBlock, IInv, Given
  <2>3. [st[a.target] EXCEPT !.blocks = Append(@, a.blk)] \in StreamType
    BY AppendType DEF IInv, Kept, AsmType
  <2>6. Kept'
    <3>1. CASE full(a.target)
      BY <1>2, <3>1 DEF finishBlock, IInv, Kept, StreamsBounded
    <3>2. CASE ~full(a.target)
      BY <1>2, <2>3, <3>2, KeepKept DEF finishBlock, IInv
    <3> QED
      BY <3>1, <3>2
  <2> QED
    BY <2>1, <2>2, <2>6, NoStreamType DEF IInv, Open, Given, Emptied
<1> QED
  BY <1>1, <1>2

LEMMA FragmentStep ==
  ASSUME IInv, ~poisoned, NEW a \in AsmType, a.target \in Streams, NEW f, fragment(a, f)
  PROVE  Kept' /\ Open' /\ Given' /\ Emptied'
<1>1. CASE a.frag > MaxHeaderBlock
  BY <1>1, PoisonKept DEF fragment, poison, Given, IInv
<1>2. CASE ~(a.frag > MaxHeaderBlock) /\ f.endHeaders
  BY <1>2, FinishStep DEF fragment
<1>3. CASE ~(a.frag > MaxHeaderBlock) /\ ~f.endHeaders
  BY <1>3 DEF fragment, IInv, Kept, StreamsBounded, Open, Given, Emptied
<1> QED
  BY <1>1, <1>2, <1>3

LEMMA HandleStep ==
  ASSUME IInv, NEW f, FrameOk(f), handleFrame(f)
  PROVE  Kept' /\ Open' /\ Given' /\ Emptied'
<1>n. FrameNumbers(f)
  BY Zenon DEF FrameOk
<1>0. ~poisoned /\ f.sid \in Nat
  <2>1. ~poisoned
    BY Zenon DEF handleFrame
  <2>2. f.sid \in Nat
    <3>1. \A s \in Streams \cup {0} : s \in Nat
      BY Zero
    <3> QED
      BY <1>n, <3>1, Zenon DEF FrameNumbers
  <2> QED
    BY <2>1, <2>2
<1>1. CASE poison
  BY <1>1, PoisonKept DEF poison, Given, IInv
<1>2. CASE ~interleaved(f) /\ f.type = "HEADERS" /\ onHeaders(f) /\ ~poison
  <2>1. [on |-> TRUE, cont |-> f.sid, target |-> f.sid, endStream |-> f.endStream,
         blk |-> f.blk, frag |-> 1] \in AsmType
    BY <1>0 DEF FrameOk, FrameNumbers, AsmType
  <2> QED
    BY <1>0, <1>2, <2>1, FragmentStep DEF onHeaders, beginBlock, FrameOk, FrameNumbers
<1>3. CASE ~interleaved(f) /\ f.type = "PUSH_PROMISE" /\ onPushPromise(f) /\ ~poison
  <2>1. f.promised \in Streams
    BY <1>3 DEF onPushPromise, FrameOk, FrameNumbers
  <2>2. [on |-> TRUE, cont |-> f.sid, target |-> f.promised, endStream |-> FALSE,
         blk |-> f.blk, frag |-> 1] \in AsmType
    BY <1>0, <2>1 DEF FrameOk, FrameNumbers, AsmType
  <2> QED
    BY <1>0, <1>3, <2>1, <2>2, FragmentStep DEF onPushPromise, beginBlock
<1>4. CASE ~interleaved(f) /\ f.type = "CONTINUATION" /\ onContinuation(f) /\ ~poison
  <2>1. /\ [asm EXCEPT !.frag = @ + 1] \in AsmType
        /\ [asm EXCEPT !.frag = @ + 1].target \in Streams
    BY <1>4 DEF onContinuation, IInv, Open, AsmType
  <2> QED
    BY <1>0, <1>4, <2>1, FragmentStep DEF onContinuation
<1>5. CASE ~interleaved(f) /\ f.type = "DATA" /\ onData(f) /\ ~poison
  <2>1. f.sid \in Streams
    BY <1>5 DEF onData, FrameOk, FrameNumbers
  <2>2. withData(st[f.sid], f) \in StreamType
    BY <2>1, WithDataType DEF IInv, Kept, FrameOk, FrameNumbers
  <2>3. Kept'
    <3>1. CASE full(f.sid)
      BY <1>5, <3>1, <2>1, Zero DEF onData, IInv, Kept, StreamsBounded
    <3>2. CASE ~full(f.sid)
      BY <1>5, <3>2, <2>1, <2>2, Zero, KeepKept DEF onData, IInv
    <3> QED
      BY <3>1, <3>2
  <2> QED
    BY <1>0, <1>5, <2>1, <2>3, Zero DEF onData, IInv, Open, Given, Emptied
<1>6. CASE ~interleaved(f) /\ f.type = "RST_STREAM" /\ onReset(f)
  BY <1>0, <1>6, ForgetKept DEF onReset, FrameOk, FrameNumbers, IInv, Open, Given, Emptied
<1>7. CASE ~interleaved(f) /\ f.type = "OTHER" /\ onOther(f)
  BY <1>0, <1>7 DEF onOther, dirVars, IInv, Kept, StreamsBounded, Open, Given, Emptied
<1> QED
  BY <1>1, <1>2, <1>3, <1>4, <1>5, <1>6, <1>7 DEF handleFrame

-----------------------------------------------------------------------------
(* The environment: its frames are like FrameOk says, and what it knows of  *)
(* the block it is sending has a type.                                      *)

LEMMA BlockSentType ==
  ASSUME PeerType, NEW c \in Streams, NEW t \in Streams, NEW end \in BOOLEAN,
         NEW eh \in BOOLEAN, BlockSent(c, t, end, eh)
  PROVE  PeerType'
<1>1. nextBlk' \in Nat \ {0}
  BY DEF PeerType, BlockSent
<1>2. CASE eh
  BY <1>1, <1>2, NoStreamType DEF BlockSent, PeerType
<1>3. CASE ~eh
  <2>1. sending' = [on |-> TRUE, cont |-> c, target |-> t, endStream |-> end,
                    blk |-> nextBlk, frag |-> 1]
    BY <1>3 DEF BlockSent
  <2> QED
    BY <1>1, <2>1, Zero DEF PeerType, AsmType
<1> QED
  BY <1>2, <1>3

LEMMA HeadersStep ==
  ASSUME IInv, NEW s \in Streams, NEW end \in BOOLEAN, NEW eh \in BOOLEAN,
         SendHeaders(s, end, eh)
  PROVE  IInv'
<1> DEFINE f == [Frame("HEADERS", s) EXCEPT !.endStream = end, !.endHeaders = eh,
                                            !.blk = nextBlk]
<1>1. f.endStream = end
  BY Zenon DEF Frame
<1>2. f.type = "HEADERS" /\ f.sid = s /\ f.blk = nextBlk /\ f.len = 0
  BY DEF Frame
<1>4. handleFrame(f) /\ BlockSent(s, s, end, eh)
  BY DEF SendHeaders
<1> HIDE DEF f
<1>3. FrameOk(f)
  <2>1. FrameNumbers(f)
    BY <1>2 DEF FrameNumbers, IInv, PeerType
  <2> QED
    BY <1>1, <1>2, <2>1 DEF FrameOk
<1> QED
  BY <1>3, <1>4, HandleStep, BlockSentType DEF IInv

LEMMA PushStep ==
  ASSUME IInv, NEW s \in Streams, NEW p \in Streams, NEW eh \in BOOLEAN, SendPush(s, p, eh)
  PROVE  IInv'
<1> DEFINE f == [Frame("PUSH_PROMISE", s) EXCEPT !.promised = p, !.endHeaders = eh,
                                                 !.blk = nextBlk]
<1>1. f.endStream = FALSE
  BY Zenon DEF Frame
<1>2. f.type = "PUSH_PROMISE" /\ f.sid = s /\ f.blk = nextBlk /\ f.len = 0 /\ f.promised = p
  BY DEF Frame
<1>4. handleFrame(f) /\ BlockSent(s, p, FALSE, eh)
  BY DEF SendPush
<1> HIDE DEF f
<1>3. FrameOk(f)
  <2>1. FrameNumbers(f)
    BY <1>2 DEF FrameNumbers, IInv, PeerType
  <2> QED
    BY <1>1, <1>2, <2>1 DEF FrameOk
<1> QED
  BY <1>3, <1>4, HandleStep, BlockSentType DEF IInv

LEMMA ContinuationStep ==
  ASSUME IInv, NEW eh \in BOOLEAN, SendContinuation(eh)
  PROVE  IInv'
<1> DEFINE f == [Frame("CONTINUATION", sending.cont) EXCEPT !.endHeaders = eh,
                                                            !.blk = sending.blk]
<1>1. f.endStream = FALSE
  BY Zenon DEF Frame
<1>2. f.type = "CONTINUATION" /\ f.sid = sending.cont /\ f.blk = sending.blk /\ f.len = 0
  BY DEF Frame
<1>3. sending \in AsmType /\ sending.cont \in Streams /\ sending.blk \in Nat
  BY DEF SendContinuation, IInv, PeerType, AsmType
<1>6. handleFrame(f)
  BY DEF SendContinuation
<1> HIDE DEF f
<1>4. FrameOk(f)
  <2>1. FrameNumbers(f)
    BY <1>2, <1>3 DEF FrameNumbers
  <2> QED
    BY <1>1, <1>2, <2>1, Zenon DEF FrameOk
<1>5. PeerType'
  <2>1. [sending EXCEPT !.frag = @ + 1] \in AsmType
        /\ [sending EXCEPT !.frag = @ + 1].cont = sending.cont
    BY <1>3 DEF AsmType
  <2> QED
    BY <1>3, <2>1, NoStreamType DEF SendContinuation, IInv, PeerType
<1> QED
  BY <1>4, <1>5, <1>6, HandleStep DEF IInv

LEMMA DataStep ==
  ASSUME IInv, NEW s \in Streams, NEW n \in DataSizes, NEW end \in BOOLEAN, SendData(s, n, end)
  PROVE  IInv'
<1> DEFINE f == [Frame("DATA", s) EXCEPT !.endStream = end, !.len = n]
<1>1. f.endStream = end
  BY Zenon DEF Frame
<1>2. f.type = "DATA" /\ f.sid = s /\ f.blk = 0 /\ f.len = n
  BY DEF Frame
<1>3. handleFrame(f)
  BY DEF SendData
<1> HIDE DEF f
<1>4. FrameOk(f)
  BY <1>1, <1>2, Http2Assumption DEF FrameOk, FrameNumbers
<1> QED
  BY <1>3, <1>4, HandleStep DEF SendData, IInv, PeerType

LEMMA BadDataStep ==
  ASSUME IInv, NEW s \in Streams, NEW end \in BOOLEAN, SendBadData(s, end)
  PROVE  IInv'
<1> DEFINE f == [Frame("DATA", s) EXCEPT !.padOk = FALSE, !.endStream = end]
<1>1. f.endStream = end
  BY Zenon DEF Frame
<1>2. f.type = "DATA" /\ f.sid = s /\ f.blk = 0 /\ f.len = 0
  BY DEF Frame
<1>3. handleFrame(f)
  BY DEF SendBadData
<1> HIDE DEF f
<1>4. FrameOk(f)
  BY <1>1, <1>2 DEF FrameOk, FrameNumbers
<1> QED
  BY <1>3, <1>4, HandleStep DEF SendBadData, IInv, PeerType

LEMMA PlainFrameOk ==
  ASSUME NEW type, NEW sid \in Streams \cup {0}, type # "PUSH_PROMISE",
         type = "RST_STREAM" => sid \in Streams
  PROVE  FrameOk(Frame(type, sid))
BY DEF FrameOk, FrameNumbers, Frame

LEMMA FaultyFrameOk == \A f \in FaultyFrames : FrameOk(f)
<1>1. ASSUME NEW s \in Streams PROVE FrameOk([Frame("HEADERS", s) EXCEPT !.padOk = FALSE])
  BY DEF FrameOk, FrameNumbers, Frame
<1>2. ASSUME NEW s \in Streams PROVE FrameOk([Frame("HEADERS", s) EXCEPT !.hpackOk = FALSE])
  BY DEF FrameOk, FrameNumbers, Frame
<1>3. ASSUME NEW s \in Streams PROVE FrameOk([Frame("PUSH_PROMISE", s) EXCEPT !.padOk = FALSE])
  BY DEF FrameOk, FrameNumbers, Frame
<1> QED
  BY <1>1, <1>2, <1>3, PlainFrameOk DEF FaultyFrames

LEMMA InitIInv == Init => IInv
<1> SUFFICES ASSUME Init PROVE IInv
  OBVIOUS
<1>1. Cardinality(live) = 0 /\ MaxStreams \in Nat
  BY FS_EmptySet, Http2Assumption DEF Init
<1>2. Kept
  BY <1>1, NoStreamType DEF Init, Kept, StreamsBounded
<1>3. Open /\ Given /\ Emptied /\ PeerType
  <2>1. nextBlk \in Nat \ {0}
    BY DEF Init
  <2> QED
    BY <2>1, NoStreamType DEF Init, Open, Given, Emptied, PeerType
<1> QED
  BY <1>2, <1>3 DEF IInv

LEMMA IInvStep == IInv /\ [Next]_vars => IInv'
<1> SUFFICES ASSUME IInv, [Next]_vars PROVE IInv'
  OBVIOUS
<1>1. CASE Return
  BY <1>1 DEF Return, peerVars, IInv, Kept, StreamsBounded, Open, Given, Emptied, PeerType
<1>2. CASE GapOrOverflow
  BY <1>2, PoisonKept DEF GapOrOverflow, poison, peerVars, IInv, Given, PeerType
<1>3. CASE SendOther
  BY <1>3, PlainFrameOk, HandleStep DEF SendOther, peerVars, IInv, PeerType
<1>4. CASE SendFaulty
  BY <1>4, FaultyFrameOk, HandleStep DEF SendFaulty, peerVars, IInv, PeerType
<1>5. ASSUME NEW s \in Streams, SendReset(s) PROVE IInv'
  BY <1>5, PlainFrameOk, HandleStep DEF SendReset, IInv, PeerType
<1>6. ASSUME NEW s \in Streams, Abandon(s) PROVE IInv'
  BY <1>6 DEF Abandon, dirVars, IInv, Kept, StreamsBounded, Open, Given, Emptied, PeerType
<1>7. CASE UNCHANGED vars
  BY <1>7 DEF vars, dirVars, peerVars, IInv, Kept, StreamsBounded, Open, Given, Emptied, PeerType
<1>8. ASSUME NEW s \in Streams, NEW end \in BOOLEAN, NEW eh \in BOOLEAN, SendHeaders(s, end, eh)
      PROVE  IInv'
  BY <1>8, HeadersStep
<1>9. ASSUME NEW s \in Streams, NEW end \in BOOLEAN, NEW n \in DataSizes, SendData(s, n, end)
      PROVE  IInv'
  BY <1>9, DataStep
<1>10. ASSUME NEW s \in Streams, NEW end \in BOOLEAN, SendBadData(s, end) PROVE IInv'
  BY <1>10, BadDataStep
<1>11. ASSUME NEW s \in Streams, NEW p \in Streams, NEW eh \in BOOLEAN, SendPush(s, p, eh)
       PROVE  IInv'
  BY <1>11, PushStep
<1>12. ASSUME NEW eh \in BOOLEAN, SendContinuation(eh) PROVE IInv'
  BY <1>12, ContinuationStep
<1> QED
  BY <1>1, <1>2, <1>3, <1>4, <1>5, <1>6, <1>7, <1>8, <1>9, <1>10, <1>11, <1>12 DEF Next

LEMMA IInvAlways == Spec => []IInv
BY InitIInv, IInvStep, PTL DEF Spec

(* The parser never keeps more than maxStreams streams, whatever the peer   *)
(* sends, and nothing for a stream that it does not keep.                   *)
THEOREM StreamsAreBounded == Spec => []StreamsBounded
<1>1. IInv => StreamsBounded
  BY DEF IInv, Kept
<1> QED
  BY <1>1, IInvAlways, PTL

(* Every variable of the parser keeps its type. *)
THEOREM TypeCorrect == Spec => []TypeOK
<1>1. IInv => TypeOK
  BY DEF IInv, Kept, Open, Given, TypeOK, AsmType
<1> QED
  BY <1>1, IInvAlways, PTL

-----------------------------------------------------------------------------
(* The HPACK decoder and the peer's encoder go through the same blocks. Why: *)
(* the block being assembled is the one being sent, so that a fragment is    *)
(* never added to another one, and what the decoder has seen is every block  *)
(* before it.                                                                *)
Upto(n) == [i \in 1 .. n |-> i]
SameBlock ==
  /\ asm.cont = sending.cont /\ asm.blk = sending.blk
  /\ asm.blk = nextBlk - 1 /\ nextBlk > 1
InSync ==
  \/ poisoned
  \/ ~sending.on /\ ~asm.on /\ decoded = Upto(nextBlk - 1)
  \/ sending.on /\ asm.on /\ SameBlock /\ decoded = Upto(nextBlk - 2)

LEMMA NextBlockDecoded == ASSUME NEW n \in Nat PROVE Append(Upto(n), n + 1) = Upto(n + 1)
<1> DEFINE s == Append(Upto(n), n + 1)
<1>1. Upto(n) \in Seq(Nat) /\ Len(Upto(n)) = n
  BY DEF Upto
<1>2. s \in Seq(Nat) /\ Len(s) = n + 1 /\ DOMAIN s = 1 .. n + 1
  BY <1>1
<1>3. ASSUME NEW i \in 1 .. n + 1 PROVE s[i] = i
  BY <1>1 DEF Upto
<1>4. s = [i \in 1 .. n + 1 |-> s[i]]
  BY <1>2
<1> HIDE DEF s
<1> QED
  BY <1>3, <1>4 DEF Upto, s

\* What adding a fragment does to the decoder and to the open block.
LEMMA FragmentEffect ==
  ASSUME NEW a, NEW f, f.hpackOk, fragment(a, f)
  PROVE  \/ poisoned'
         \/ f.endHeaders /\ asm' = NoBlock /\ decoded' = Append(decoded, a.blk)
         \/ ~f.endHeaders /\ asm' = a /\ UNCHANGED decoded
<1>1. CASE a.frag > MaxHeaderBlock
  BY <1>1, Zenon DEF fragment, poison
<1>2. CASE ~(a.frag > MaxHeaderBlock) /\ f.endHeaders
  BY <1>2, Zenon DEF fragment, finishBlock
<1>3. CASE ~(a.frag > MaxHeaderBlock) /\ ~f.endHeaders
  BY <1>3, Zenon DEF fragment
<1> QED
  BY <1>1, <1>2, <1>3

\* A block that begins: the peer has just encoded it, in HEADERS or PUSH_PROMISE.
LEMMA BeginSync ==
  ASSUME InSync, ~poisoned, ~sending.on, nextBlk \in Nat \ {0},
         NEW f, NEW c, NEW t, NEW p, NEW end, NEW eh \in BOOLEAN,
         f.hpackOk, f.endHeaders = eh, f.blk = nextBlk,
         beginBlock(c, t, p, f), BlockSent(c, t, end, eh)
  PROVE  InSync'
<1>1. decoded = Upto(nextBlk - 1) /\ nextBlk' = nextBlk + 1
  BY DEF InSync, BlockSent
<1> DEFINE a == [on |-> TRUE, cont |-> c, target |-> t, endStream |-> p,
                 blk |-> f.blk, frag |-> 1]
<1>2. fragment(a, f)
  BY Zenon DEF beginBlock
<1>3. a.on
  BY Zenon
<1>4. a.cont = c /\ a.blk = nextBlk
  OBVIOUS
<1> HIDE DEF a
<1>5. CASE poisoned'
  BY <1>5 DEF InSync
<1>6. CASE eh /\ asm' = NoBlock /\ decoded' = Append(decoded, nextBlk)
  <2>1. decoded' = Upto(nextBlk)
    <3>1. nextBlk - 1 \in Nat /\ nextBlk - 1 + 1 = nextBlk
      OBVIOUS
    <3>2. Append(Upto(nextBlk - 1), nextBlk - 1 + 1) = Upto(nextBlk - 1 + 1)
      BY <3>1, NextBlockDecoded
    <3> QED
      BY <1>1, <1>6, <3>1, <3>2
  <2>2. sending' = NoBlock /\ nextBlk' - 1 = nextBlk
    BY <1>1, <1>6 DEF BlockSent
  <2> QED
    BY <1>6, <2>1, <2>2, NoStreamType DEF InSync
<1>7. CASE ~eh /\ asm' = a /\ UNCHANGED decoded
  <2>1. sending'.on
    BY <1>7, Zenon DEF BlockSent
  <2>2. sending'.cont = c /\ sending'.blk = nextBlk
    BY <1>7 DEF BlockSent
  <2>3. nextBlk' - 1 = nextBlk /\ nextBlk' - 2 = nextBlk - 1
    BY <1>1
  <2>4. SameBlock'
    BY <1>1, <1>4, <1>7, <2>2, <2>3 DEF SameBlock
  <2> QED
    BY <1>1, <1>3, <1>7, <2>1, <2>3, <2>4 DEF InSync
<1> QED
  BY <1>2, <1>4, <1>5, <1>6, <1>7, FragmentEffect

LEMMA HeadersSync ==
  ASSUME InSync, nextBlk \in Nat \ {0}, NEW s \in Streams, NEW end \in BOOLEAN,
         NEW eh \in BOOLEAN, SendHeaders(s, end, eh)
  PROVE  InSync'
<1> DEFINE f == [Frame("HEADERS", s) EXCEPT !.endStream = end, !.endHeaders = eh,
                                            !.blk = nextBlk]
<1>1. f.hpackOk /\ f.padOk /\ f.endHeaders = eh
  BY Zenon DEF Frame
<1>2. f.type = "HEADERS" /\ f.sid = s /\ f.blk = nextBlk /\ s # 0
  BY Zero DEF Frame
<1>3. handleFrame(f) /\ BlockSent(s, s, end, eh) /\ ~sending.on
  BY Zenon DEF SendHeaders, CanStart
<1> HIDE DEF f
<1>4. ~poisoned
  BY <1>3, Zenon DEF handleFrame
<1>5. poisoned' \/ onHeaders(f)
  BY <1>2, <1>3 DEF handleFrame, poison
<1>6. poisoned' \/ beginBlock(s, s, f.endStream, f)
  BY <1>1, <1>2, <1>5, Zenon DEF onHeaders, poison
<1>7. CASE poisoned'
  BY <1>7 DEF InSync
<1> QED
  BY <1>1, <1>2, <1>3, <1>4, <1>6, <1>7, BeginSync

LEMMA PushSync ==
  ASSUME InSync, nextBlk \in Nat \ {0}, NEW s \in Streams, NEW p \in Streams,
         NEW eh \in BOOLEAN, SendPush(s, p, eh)
  PROVE  InSync'
<1> DEFINE f == [Frame("PUSH_PROMISE", s) EXCEPT !.promised = p, !.endHeaders = eh,
                                                 !.blk = nextBlk]
<1>1. f.hpackOk /\ f.padOk /\ f.endHeaders = eh
  BY Zenon DEF Frame
<1>2. f.type = "PUSH_PROMISE" /\ f.sid = s /\ f.promised = p /\ f.blk = nextBlk
  BY DEF Frame
<1>3. handleFrame(f) /\ BlockSent(s, p, FALSE, eh) /\ ~sending.on
  BY Zenon DEF SendPush, CanStart
<1> HIDE DEF f
<1>4. ~poisoned
  BY <1>3, Zenon DEF handleFrame
<1>5. poisoned' \/ onPushPromise(f)
  BY <1>2, <1>3 DEF handleFrame, poison
<1>6. poisoned' \/ beginBlock(s, p, FALSE, f)
  BY <1>1, <1>2, <1>5, Zenon DEF onPushPromise, poison
<1>7. CASE poisoned'
  BY <1>7 DEF InSync
<1> QED
  BY <1>1, <1>2, <1>3, <1>4, <1>6, <1>7, BeginSync

LEMMA ContinuationSync ==
  ASSUME InSync, nextBlk \in Nat, asm \in AsmType, sending \in AsmType,
         NEW eh \in BOOLEAN, SendContinuation(eh)
  PROVE  InSync'
<1> DEFINE f == [Frame("CONTINUATION", sending.cont) EXCEPT !.endHeaders = eh,
                                                            !.blk = sending.blk]
<1> DEFINE a == [asm EXCEPT !.frag = @ + 1]
<1>1. f.hpackOk /\ f.endHeaders = eh
  BY Zenon DEF Frame
<1>2. f.type = "CONTINUATION" /\ f.sid = sending.cont
  BY DEF Frame
<1>3. handleFrame(f) /\ sending.on /\ UNCHANGED nextBlk
  BY Zenon DEF SendContinuation
<1>4. a.cont = asm.cont /\ a.blk = asm.blk
  BY DEF AsmType
<1>5. a.on = asm.on
  BY Zenon DEF AsmType
<1>6. onContinuation(f) => poison \/ fragment(a, f)
  BY DEF onContinuation
<1> HIDE DEF f, a
<1>7. ~poisoned
  BY <1>3, Zenon DEF handleFrame
<1>8. asm.on /\ SameBlock /\ decoded = Upto(nextBlk - 2)
  BY <1>3, <1>7 DEF InSync
<1>9. poisoned' \/ onContinuation(f)
  BY <1>2, <1>3 DEF handleFrame, poison
<1>10. poisoned' \/ fragment(a, f)
  BY <1>6, <1>9, Zenon DEF poison
<1>11. CASE poisoned'
  BY <1>11 DEF InSync
<1>12. CASE eh /\ asm' = NoBlock /\ decoded' = Append(decoded, a.blk)
  <2>1. sending' = NoBlock
    BY <1>12, Zenon DEF SendContinuation
  <2>2. nextBlk - 2 \in Nat /\ nextBlk - 2 + 1 = nextBlk - 1 /\ a.blk = nextBlk - 2 + 1
    BY <1>4, <1>8 DEF SameBlock
  <2>3. Append(Upto(nextBlk - 2), nextBlk - 2 + 1) = Upto(nextBlk - 2 + 1)
    BY <2>2, NextBlockDecoded
  <2>4. decoded' = Upto(nextBlk' - 1)
    BY <1>3, <1>8, <1>12, <2>2, <2>3
  <2> QED
    BY <1>12, <2>1, <2>4, NoStreamType DEF InSync
<1>13. CASE ~eh /\ asm' = a /\ UNCHANGED decoded
  <2>1. sending' = [sending EXCEPT !.frag = @ + 1]
    BY <1>13, Zenon DEF SendContinuation
  <2>2. sending'.cont = sending.cont /\ sending'.blk = sending.blk
    BY <2>1 DEF AsmType
  <2>3. sending'.on
    BY <1>3, <2>1, Zenon DEF AsmType
  <2>4. SameBlock'
    BY <1>3, <1>4, <1>8, <1>13, <2>2 DEF SameBlock
  <2> QED
    BY <1>3, <1>5, <1>8, <1>13, <2>3, <2>4 DEF InSync
<1> QED
  BY <1>1, <1>10, <1>11, <1>12, <1>13, FragmentEffect

\* The other frames leave the block and the decoder alone, or poison.
LEMMA OtherSync ==
  ASSUME NEW f, f.type \in {"DATA", "RST_STREAM", "OTHER"}, handleFrame(f)
  PROVE  poisoned' \/ UNCHANGED <<asm, decoded>>
<1>1. CASE poison
  BY <1>1, Zenon DEF poison
<1>2. CASE f.type = "DATA" /\ onData(f) /\ ~poison
  BY <1>2, Zenon DEF onData
<1>3. CASE f.type = "RST_STREAM" /\ onReset(f)
  BY <1>3, Zenon DEF onReset
<1>4. CASE f.type = "OTHER" /\ onOther(f)
  BY <1>4, Zenon DEF onOther, dirVars
<1> QED
  BY <1>1, <1>2, <1>3, <1>4 DEF handleFrame

\* The frames that a faulty peer sends, by what is wrong with them.
LEMMA FaultyKinds ==
  ASSUME NEW f \in FaultyFrames
  PROVE  \/ f.type = "HEADERS" /\ (f.sid = 0 \/ ~f.padOk \/ sending.on)
         \/ f.type = "HEADERS" /\ ~f.hpackOk /\ f.endHeaders
         \/ f.type = "PUSH_PROMISE" /\ ~f.padOk
         \/ f.type = "CONTINUATION" /\ (~sending.on \/ f.sid # sending.cont)
         \/ f.type = "DATA" /\ (f.sid = 0 \/ sending.on)
         \/ f.type = "RST_STREAM" /\ sending.on
         \/ f.type = "OTHER"
<1>1. CASE f \in {Frame("HEADERS", 0), Frame("DATA", 0), Frame("OTHER", 0)}
  BY <1>1 DEF Frame
<1>2. CASE \E t \in {"HEADERS", "DATA", "RST_STREAM"}, s \in Streams :
             sending.on /\ f = Frame(t, s)
  BY <1>2 DEF Frame
<1>3. CASE \E s \in Streams : f = [Frame("HEADERS", s) EXCEPT !.padOk = FALSE]
  <2>1. f.type = "HEADERS"
    BY <1>3 DEF Frame
  <2>2. ~f.padOk
    BY <1>3, Zenon DEF Frame
  <2> QED
    BY <2>1, <2>2
<1>4. CASE \E s \in Streams : f = [Frame("HEADERS", s) EXCEPT !.hpackOk = FALSE]
  <2>1. f.type = "HEADERS"
    BY <1>4 DEF Frame
  <2>2. ~f.hpackOk /\ f.endHeaders
    BY <1>4, Zenon DEF Frame
  <2> QED
    BY <2>1, <2>2
<1>5. CASE \E s \in Streams : f = [Frame("PUSH_PROMISE", s) EXCEPT !.padOk = FALSE]
  <2>1. f.type = "PUSH_PROMISE"
    BY <1>5 DEF Frame
  <2>2. ~f.padOk
    BY <1>5, Zenon DEF Frame
  <2> QED
    BY <2>1, <2>2
<1>6. CASE \E s \in Streams : (~sending.on \/ s # sending.cont) /\ f = Frame("CONTINUATION", s)
  BY <1>6 DEF Frame
<1> QED
  BY <1>1, <1>2, <1>3, <1>4, <1>5, <1>6 DEF FaultyFrames

\* Whatever a faulty peer sends, the direction is poisoned or has skipped nothing.
LEMMA FaultyOutcome ==
  ASSUME InSync, NEW f \in FaultyFrames, handleFrame(f)
  PROVE  poison \/ UNCHANGED dirVars
<1>0. ~poisoned
  BY Zenon DEF handleFrame
<1>1. CASE interleaved(f)
  BY <1>1, Zenon DEF handleFrame
<1>2. CASE /\ ~interleaved(f)
           /\ \/ f.type = "DATA" /\ (f.sid = 0 \/ sending.on)
              \/ f.type = "RST_STREAM" /\ sending.on
              \/ f.type = "OTHER"
  <2>1. f.type # "CONTINUATION"
    BY <1>2
  <2>2. ~sending.on
    BY <1>0, <1>2, <2>1 DEF InSync, interleaved
  <2>3. CASE f.type = "DATA" /\ f.sid = 0
    <3>1. onData(f)
      BY <1>2, <2>3 DEF handleFrame
    <3> QED BY <2>3, <3>1, Zenon DEF onData
  <2>4. CASE f.type = "OTHER"
    <3>1. onOther(f)
      BY <1>0, <1>2, <2>4 DEF handleFrame
    <3> QED BY <3>1, Zenon DEF onOther
  <2> QED BY <1>2, <2>2, <2>3, <2>4
<1>3. CASE ~interleaved(f) /\ f.type = "HEADERS" /\ (f.sid = 0 \/ ~f.padOk \/ sending.on)
  <2>1. onHeaders(f)
    BY <1>3 DEF handleFrame
  <2>2. ~sending.on
    BY <1>3 DEF InSync, interleaved, handleFrame
  <2> QED
    BY <1>3, <2>1, <2>2, Zenon DEF onHeaders
<1>4. CASE ~interleaved(f) /\ f.type = "HEADERS" /\ ~f.hpackOk /\ f.endHeaders
  <2>1. onHeaders(f)
    BY <1>4 DEF handleFrame
  <2>2. \A c, t, end : beginBlock(c, t, end, f) => poison
    BY <1>4, ZenonT(60) DEF beginBlock, fragment, finishBlock
  <2> QED
    BY <2>1, <2>2, Zenon DEF onHeaders
<1>5. CASE ~interleaved(f) /\ f.type = "PUSH_PROMISE" /\ ~f.padOk
  <2>1. onPushPromise(f)
    BY <1>5 DEF handleFrame
  <2> QED
    BY <1>5, <2>1, Zenon DEF onPushPromise
<1>6. CASE /\ ~interleaved(f) /\ f.type = "CONTINUATION"
           /\ ~sending.on \/ f.sid # sending.cont
  <2>1. onContinuation(f)
    BY <1>6 DEF handleFrame
  <2>2. ~asm.on \/ f.sid # asm.cont
    BY <1>6 DEF InSync, SameBlock, handleFrame
  <2> QED
    BY <2>1, <2>2, Zenon DEF onContinuation
<1> QED
  BY <1>1, <1>2, <1>3, <1>4, <1>5, <1>6, FaultyKinds

LEMMA FaultySync ==
  ASSUME InSync, NEW f \in FaultyFrames, handleFrame(f)
  PROVE  poisoned' \/ UNCHANGED <<asm, decoded>>
BY FaultyOutcome, Zenon DEF poison, dirVars

\* A step that touches neither keeps them in step.
LEMMA QuietSync ==
  ASSUME InSync, UNCHANGED <<sending, nextBlk>>, poisoned' \/ UNCHANGED <<asm, decoded>>,
         poisoned => poisoned'
  PROVE  InSync'
BY DEF InSync, SameBlock

LEMMA SyncStep == IInv /\ InSync /\ [Next]_vars => InSync'
<1> SUFFICES ASSUME IInv, InSync, [Next]_vars PROVE InSync'
  OBVIOUS
<1>0. asm \in AsmType /\ sending \in AsmType /\ nextBlk \in Nat \ {0}
  BY DEF IInv, Open, PeerType
<1>1. CASE Return
  BY <1>1, QuietSync DEF Return, peerVars
<1>2. CASE GapOrOverflow
  BY <1>2, Zenon DEF GapOrOverflow, poison, InSync
<1>3. CASE SendOther
  <2>1. Frame("OTHER", 0).type = "OTHER"
    BY DEF Frame
  <2>2. poisoned' \/ UNCHANGED <<asm, decoded>>
    BY <1>3, <2>1, OtherSync DEF SendOther
  <2>3. ~poisoned
    BY <1>3, Zenon DEF SendOther, handleFrame
  <2> QED
    BY <1>3, <2>2, <2>3, QuietSync DEF SendOther, peerVars
<1>4. CASE SendFaulty
  <2>1. PICK f \in FaultyFrames : handleFrame(f)
    BY <1>4 DEF SendFaulty
  <2>2. ~poisoned
    BY <2>1, Zenon DEF handleFrame
  <2> QED
    BY <1>4, <2>1, <2>2, FaultySync, QuietSync DEF SendFaulty, peerVars
<1>5. ASSUME NEW s \in Streams, SendReset(s) PROVE InSync'
  <2>1. Frame("RST_STREAM", s).type = "RST_STREAM"
    BY DEF Frame
  <2>2. poisoned' \/ UNCHANGED <<asm, decoded>>
    BY <1>5, <2>1, OtherSync DEF SendReset
  <2>3. ~poisoned
    BY <1>5, Zenon DEF SendReset, handleFrame
  <2> QED
    BY <1>5, <2>2, <2>3, QuietSync DEF SendReset
<1>6. ASSUME NEW s \in Streams, Abandon(s) PROVE InSync'
  BY <1>6, QuietSync DEF Abandon, dirVars
<1>7. CASE UNCHANGED vars
  BY <1>7, QuietSync DEF vars, dirVars, peerVars
<1>8. ASSUME NEW s \in Streams, NEW end \in BOOLEAN, NEW eh \in BOOLEAN, SendHeaders(s, end, eh)
      PROVE  InSync'
  BY <1>0, <1>8, HeadersSync
<1>9. ASSUME NEW s \in Streams, NEW end \in BOOLEAN, NEW n \in DataSizes, SendData(s, n, end)
      PROVE  InSync'
  <2> DEFINE f == [Frame("DATA", s) EXCEPT !.endStream = end, !.len = n]
  <2>1. f.type = "DATA"
    BY DEF Frame
  <2>2. handleFrame(f)
    BY <1>9 DEF SendData
  <2> HIDE DEF f
  <2>3. ~poisoned
    BY <2>2, Zenon DEF handleFrame
  <2> QED
    BY <1>9, <2>1, <2>2, <2>3, OtherSync, QuietSync DEF SendData
<1>10. ASSUME NEW s \in Streams, NEW end \in BOOLEAN, SendBadData(s, end) PROVE InSync'
  <2> DEFINE f == [Frame("DATA", s) EXCEPT !.padOk = FALSE, !.endStream = end]
  <2>1. f.type = "DATA"
    BY DEF Frame
  <2>2. handleFrame(f)
    BY <1>10 DEF SendBadData
  <2> HIDE DEF f
  <2>3. ~poisoned
    BY <2>2, Zenon DEF handleFrame
  <2> QED
    BY <1>10, <2>1, <2>2, <2>3, OtherSync, QuietSync DEF SendBadData
<1>11. ASSUME NEW s \in Streams, NEW p \in Streams, NEW eh \in BOOLEAN, SendPush(s, p, eh)
       PROVE  InSync'
  BY <1>0, <1>11, PushSync
<1>12. ASSUME NEW eh \in BOOLEAN, SendContinuation(eh) PROVE InSync'
  BY <1>0, <1>12, ContinuationSync
<1> QED
  BY <1>1, <1>2, <1>3, <1>4, <1>5, <1>6, <1>7, <1>8, <1>9, <1>10, <1>11, <1>12 DEF Next

LEMMA InitInSync == Init => InSync
<1> SUFFICES ASSUME Init PROVE InSync
  OBVIOUS
<1>1. decoded = Upto(nextBlk - 1)
  BY DEF Init, Upto
<1> QED
  BY <1>1, NoStreamType DEF Init, InSync

(* The HPACK decoder of a direction is given every header block the peer     *)
(* sends, once and in the order of the encoder, as long as the direction is  *)
(* not poisoned: also those of streams for which there is no room, and       *)
(* whatever faulty frames come in between.                                   *)
THEOREM DecoderInStep == Spec => []HpackInSync
<1>1. IInv /\ InSync => HpackInSync
  <2> SUFFICES ASSUME IInv, InSync, ~poisoned PROVE HpackInSync
    BY DEF HpackInSync
  <2>1. CASE sending.on
    BY <2>1 DEF IInv, PeerType, InSync, HpackInSync, Upto
  <2>2. CASE ~sending.on
    BY <2>2 DEF IInv, PeerType, InSync, HpackInSync, Upto
  <2> QED
    BY <2>1, <2>2
<1> QED
  BY <1>1, InitIInv, IInvStep, InitInSync, SyncStep, PTL DEF Spec

-----------------------------------------------------------------------------
(* What the parser has of a stream is what the peer has sent on it. Why: the *)
(* open block is the one being sent, frame for frame, so that a block ends   *)
(* with the stream that it began with; a stream that the peer has open is    *)
(* kept unless a block of it was dropped; and what is handed on is of a      *)
(* stream that has ended, on which the peer cannot send again.               *)

Completed == [sid : Streams, h : StreamType]
Pending(s) == sending.on /\ sending.target = s
Ended(s) == peer[s] = "ended" /\ ~Pending(s)
EmittedFor(s) == \E i \in 1 .. Len(Emitted) : Emitted[i].sid = s

\* The stream h holds all that t says was sent.
BodyOf(h, t) ==
  /\ h.body = IF t.body > MaxBody THEN MaxBody ELSE t.body
  /\ h.bodyTrunc <=> t.body > MaxBody
Whole(h, t) == h.blocks = t.blocks /\ BodyOf(h, t)

PeerStates ==
  /\ peer \in [Streams -> {"idle", "open", "ended", "reset", "abandoned"}]
  /\ sent \in [Streams -> [blocks : Seq(Nat), body : Nat, bodyTrunc : BOOLEAN]]
  /\ sending.on => sending.target \in Streams /\ peer[sending.target] = AfterEnd(sending.endStream)
Handed == done \in Seq(Completed) /\ delivered \in Seq(Completed)
SameAsm == poisoned \/ asm = sending

FollowedWhole(s) ==
  /\ peer[s] \in {"idle", "open", "abandoned"} \/ Pending(s) =>
       /\ sent[s].blocks = IF Pending(s) THEN Append(st[s].blocks, sending.blk) ELSE st[s].blocks
       /\ BodyOf(st[s], sent[s])
  /\ peer[s] # "idle" => sent[s].blocks # <<>>
  /\ peer[s] = "open" /\ ~Pending(s) => s \in live
  /\ Ended(s) => EmittedFor(s)
Followed(s) ==
  /\ peer[s] = "idle" => sent[s] = NoStream
  /\ s \in live => peer[s] \in {"open", "abandoned"} \/ Pending(s)
  /\ s \notin dropped => FollowedWhole(s)

WholeAt(i) ==
  /\ Ended(Emitted[i].sid)
  /\ Emitted[i].sid \notin dropped => Whole(Emitted[i].h, sent[Emitted[i].sid])
EmittedWhole ==
  /\ \A i \in 1 .. Len(Emitted) : WholeAt(i)
  /\ \A i, j \in 1 .. Len(Emitted) : Emitted[i].sid = Emitted[j].sid => i = j

Exchange ==
  /\ PeerStates /\ Handed /\ SameAsm /\ EmittedWhole
  /\ ~poisoned => \A s \in Streams : Followed(s)

\* No step takes an end back or sends after it.
EndsAreFinal == \A s \in Streams : Ended(s) => Ended(s)' /\ sent'[s] = sent[s]

LEMMA EmittedType ==
  ASSUME Handed
  PROVE  Emitted \in Seq(Completed) /\ \A i \in 1 .. Len(Emitted) : Emitted[i].sid \in Streams
<1>1. Emitted \in Seq(Completed)
  BY DEF Handed, Emitted
<1>2. \A i \in 1 .. Len(Emitted) : Emitted[i] \in Completed
  BY <1>1
<1> QED BY <1>1, <1>2 DEF Completed

LEMMA OneMore ==
  ASSUME Handed, NEW m \in Completed, done' = Append(done, m), delivered' = delivered
  PROVE  Handed' /\ Emitted' = Append(Emitted, m)
<1>1. Handed'
  BY DEF Handed
<1>2. ASSUME NEW d \in Seq(Completed), NEW e \in Seq(Completed)
      PROVE  d \o Append(e, m) = Append(d \o e, m)
  <2>1. Len(d \o Append(e, m)) = Len(Append(d \o e, m)) /\ d \o Append(e, m) \in Seq(Completed)
        /\ Append(d \o e, m) \in Seq(Completed)
    OBVIOUS
  <2>2. \A i \in 1 .. Len(d \o Append(e, m)) : (d \o Append(e, m))[i] = Append(d \o e, m)[i]
    OBVIOUS
  <2> QED BY <2>1, <2>2
<1>3. Emitted' = Append(Emitted, m)
  BY <1>2 DEF Handed, Emitted
<1> QED BY <1>1, <1>3

LEMMA ReturnedAll ==
  ASSUME Handed, Return
  PROVE  Handed' /\ Emitted' = Emitted
<1>1. ASSUME NEW d \in Seq(Completed) PROVE d \o <<>> = d
  OBVIOUS
<1>2. delivered \o done \in Seq(Completed)
  BY DEF Handed
<1>3. delivered' = delivered \o done /\ done' = <<>>
  BY DEF Return
<1>4. Handed'
  BY <1>2, <1>3 DEF Handed
<1> QED BY <1>1, <1>2, <1>3, <1>4 DEF Emitted

-----------------------------------------------------------------------------
(* What is handed on.                                                       *)

LEMMA SameEmitted ==
  ASSUME Handed, EmittedWhole, Emitted' = Emitted, dropped \subseteq dropped', EndsAreFinal
  PROVE  EmittedWhole'
<1>1. \A i \in 1 .. Len(Emitted) : Emitted[i].sid \in Streams
  BY EmittedType
<1>2. ASSUME NEW i \in 1 .. Len(Emitted') PROVE WholeAt(i)'
  <2>1. PICK s \in Streams : s = Emitted[i].sid /\ s = Emitted'[i].sid
    BY <1>1
  <2>2. /\ Ended(s)' /\ sent'[s] = sent[s]
        /\ s \notin dropped' => Whole(Emitted[i].h, sent[s])
    BY <2>1 DEF EmittedWhole, WholeAt, EndsAreFinal
  <2> QED BY <2>1, <2>2 DEF WholeAt, Ended, Pending, Whole, BodyOf
<1>3. \A i, j \in 1 .. Len(Emitted') : Emitted'[i].sid = Emitted'[j].sid => i = j
  BY DEF EmittedWhole
<1> QED BY <1>2, <1>3 DEF EmittedWhole

LEMMA MoreEmitted ==
  ASSUME Handed, EmittedWhole, NEW m \in Completed, Emitted' = Append(Emitted, m),
         dropped' = dropped, EndsAreFinal, ~Ended(m.sid), Ended(m.sid)',
         m.sid \notin dropped => Whole(m.h, sent'[m.sid])
  PROVE  /\ EmittedWhole'
         /\ \A s \in Streams : EmittedFor(s)' <=> EmittedFor(s) \/ s = m.sid
<1>1. Emitted \in Seq(Completed) /\ \A i \in 1 .. Len(Emitted) : Emitted[i].sid \in Streams
  BY EmittedType
<1>2. /\ Len(Emitted') = Len(Emitted) + 1 /\ Len(Emitted) \in Nat
      /\ Emitted'[Len(Emitted) + 1] = m
      /\ \A i \in 1 .. Len(Emitted) : Emitted'[i] = Emitted[i]
  BY <1>1
<1>3. \A i \in 1 .. Len(Emitted') : i \in 1 .. Len(Emitted) \/ i = Len(Emitted) + 1
  BY <1>2
<1>4. \A i \in 1 .. Len(Emitted) : Ended(Emitted[i].sid) /\ Emitted[i].sid # m.sid
  BY DEF EmittedWhole, WholeAt
<1>5. ASSUME NEW i \in 1 .. Len(Emitted') PROVE WholeAt(i)'
  <2>1. CASE i \in 1 .. Len(Emitted)
    <3>1. PICK s \in Streams : s = Emitted[i].sid /\ s = Emitted'[i].sid
      BY <2>1, <1>1, <1>2
    <3>2. /\ Ended(s)' /\ sent'[s] = sent[s] /\ Emitted'[i].h = Emitted[i].h
          /\ s \notin dropped' => Whole(Emitted[i].h, sent[s])
      BY <2>1, <3>1, <1>2 DEF EmittedWhole, WholeAt, EndsAreFinal
    <3> QED BY <3>1, <3>2 DEF WholeAt, Ended, Pending, Whole, BodyOf
  <2>2. CASE i = Len(Emitted) + 1
    BY <2>2, <1>2 DEF WholeAt, Ended, Pending, Whole, BodyOf
  <2> QED BY <2>1, <2>2, <1>3
<1>6. \A i, j \in 1 .. Len(Emitted') : Emitted'[i].sid = Emitted'[j].sid => i = j
  <2> SUFFICES ASSUME NEW i \in 1 .. Len(Emitted'), NEW j \in 1 .. Len(Emitted'),
                      Emitted'[i].sid = Emitted'[j].sid
               PROVE  i = j
    OBVIOUS
  <2>1. CASE i \in 1 .. Len(Emitted) /\ j \in 1 .. Len(Emitted)
    BY <2>1, <1>2 DEF EmittedWhole
  <2> QED BY <2>1, <1>2, <1>3, <1>4
<1>7. ASSUME NEW s \in Streams PROVE EmittedFor(s)' <=> EmittedFor(s) \/ s = m.sid
  <2>1. EmittedFor(s) => EmittedFor(s)'
    BY <1>2 DEF EmittedFor
  <2>2. s = m.sid => EmittedFor(s)'
    <3>1. Len(Emitted) + 1 \in 1 .. Len(Emitted')
      BY <1>2
    <3> QED BY <3>1, <1>2 DEF EmittedFor
  <2>3. EmittedFor(s)' => EmittedFor(s) \/ s = m.sid
    BY <1>2, <1>3 DEF EmittedFor
  <2> QED BY <2>1, <2>2, <2>3
<1> QED BY <1>5, <1>6, <1>7 DEF EmittedWhole

-----------------------------------------------------------------------------
(* What the parser has of the streams.                                      *)

\* A stream that a step leaves alone, on both sides.
LEMMA LeftAlone ==
  ASSUME NEW r \in Streams, Followed(r), peer'[r] = peer[r], sent'[r] = sent[r], st'[r] = st[r],
         r \in live' <=> r \in live, r \in dropped' <=> r \in dropped,
         Pending(r)' <=> Pending(r), Pending(r) => sending'.blk = sending.blk,
         EmittedFor(r) => EmittedFor(r)'
  PROVE  Followed(r)'
<1>1. ASSUME r \notin dropped PROVE FollowedWhole(r)'
  <2>1. FollowedWhole(r)
    BY <1>1 DEF Followed
  <2>2. peer'[r] \in {"idle", "open", "abandoned"} \/ Pending(r)' =>
          /\ sent'[r].blocks = IF Pending(r)' THEN Append(st'[r].blocks, sending'.blk) ELSE st'[r].blocks
          /\ BodyOf(st'[r], sent'[r])
    BY <2>1 DEF FollowedWhole
  <2>3. /\ peer'[r] # "idle" => sent'[r].blocks # <<>>
        /\ peer'[r] = "open" /\ ~Pending(r)' => r \in live'
        /\ Ended(r)' => EmittedFor(r)'
    BY <2>1 DEF FollowedWhole, Ended
  <2> QED BY <2>2, <2>3 DEF FollowedWhole, BodyOf
<1>2. /\ peer'[r] = "idle" => sent'[r] = NoStream
      /\ r \in live' => peer'[r] \in {"open", "abandoned"} \/ Pending(r)'
  BY DEF Followed
<1> QED BY <1>1, <1>2 DEF Followed, NoStream

LEMMA EmittedForStays ==
  ASSUME Emitted' = Emitted, NEW s
  PROVE  EmittedFor(s)' <=> EmittedFor(s)
BY DEF EmittedFor

\* The parser keeps or completes the stream t, with what the peer has sent on it.
LEMMA KeptFollowed ==
  ASSUME Handed, EmittedWhole, Kept, \A s \in Streams : Followed(s), EndsAreFinal,
         NEW t \in Streams, NEW h \in StreamType, NEW end \in BOOLEAN,
         keep(t, h, end), UNCHANGED <<delivered, dropped>>,
         peer'[t] = AfterEnd(end), ~Ended(t), ~sending'.on,
         \A r \in Streams \ {t} : peer'[r] = peer[r] /\ sent'[r] = sent[r] /\ ~Pending(r),
         t \notin dropped => Whole(h, sent'[t]) /\ sent'[t].blocks # <<>>
  PROVE  Handed' /\ EmittedWhole' /\ \A r \in Streams : Followed(r)'
<1>0. \A r \in Streams : ~Pending(r)'
  BY DEF Pending
<1>1. \A r \in Streams \ {t} : st'[r] = st[r] /\ (r \in live' <=> r \in live)
  BY DEF keep, complete, forget, store, Kept
<1>2. CASE end /\ h.blocks # <<>>
  <2>1. PICK m \in Completed : m.sid = t /\ m.h = h /\ done' = Append(done, m)
    <3> DEFINE m == [sid |-> t, h |-> h]
    <3>1. m \in Completed /\ m.sid = t /\ m.h = h
      BY DEF Completed
    <3>2. done' = Append(done, m)
      BY <1>2 DEF keep, complete
    <3> HIDE DEF m
    <3> QED BY <3>1, <3>2
  <2>2. Ended(t)'
    BY <1>0, <1>2 DEF Ended, AfterEnd
  <2>3. Handed' /\ Emitted' = Append(Emitted, m)
    BY <2>1, OneMore
  <2>4. EmittedWhole' /\ \A s \in Streams : EmittedFor(s)' <=> EmittedFor(s) \/ s = t
    <3>1. /\ ~Ended(m.sid) /\ Ended(m.sid)' /\ m.sid = t
          /\ m.sid \notin dropped => Whole(m.h, sent'[m.sid])
      BY <2>1, <2>2 DEF Ended, Pending
    <3> QED BY <2>3, <3>1, MoreEmitted
  <2>5. ASSUME NEW r \in Streams \ {t} PROVE Followed(r)'
    BY <1>0, <1>1, <2>4, LeftAlone
  <2>6. Followed(t)'
    <3>1. t \notin live' /\ peer'[t] = "ended"
      BY <1>2 DEF keep, complete, forget, AfterEnd
    <3>2. t \notin dropped => sent'[t].blocks # <<>>
      OBVIOUS
    <3>3. EmittedFor(t)'
      BY <2>4
    <3> QED BY <1>0, <3>1, <3>2, <3>3 DEF Followed, FollowedWhole
  <2> QED BY <2>3, <2>4, <2>5, <2>6
<1>3. CASE ~end \/ h.blocks = <<>>
  <2>1. Handed' /\ Emitted' = Emitted
    <3>1. done' = done
      BY <1>3 DEF keep, complete, store
    <3> QED BY <3>1 DEF Handed, Emitted
  <2>2. EmittedWhole'
    BY <2>1, SameEmitted
  <2>3. ASSUME NEW r \in Streams \ {t} PROVE Followed(r)'
    BY <1>0, <1>1, <2>1, <2>3, LeftAlone, EmittedForStays
  <2>4. Followed(t)'
    <3>1. CASE end
      <4>1. t \in dropped
        BY <1>3, <3>1 DEF Whole
      <4>2. t \notin live' /\ peer'[t] = "ended"
        BY <3>1 DEF keep, complete, forget, AfterEnd
      <4> QED BY <4>1, <4>2 DEF Followed
    <3>2. CASE ~end
      <4>1. t \in live' /\ st'[t] = h /\ peer'[t] = "open"
        BY <3>2 DEF keep, store, AfterEnd, Kept
      <4>2. t \notin dropped => Whole(st'[t], sent'[t]) /\ sent'[t].blocks # <<>>
        BY <4>1
      <4> QED BY <1>0, <4>1, <4>2 DEF Followed, FollowedWhole, Ended, Whole, BodyOf
    <3> QED BY <3>1, <3>2
  <2> QED BY <2>1, <2>2, <2>3, <2>4
<1> QED BY <1>2, <1>3

\* The parser keeps nothing of what the peer has sent on the stream t.
LEMMA DroppedFollowed ==
  ASSUME Handed, EmittedWhole, \A s \in Streams : Followed(s), EndsAreFinal,
         NEW t \in Streams, NEW end \in BOOLEAN, t \notin live,
         UNCHANGED <<live, st, done, delivered>>, dropped' = dropped \cup {t},
         peer'[t] = AfterEnd(end), ~sending'.on,
         \A r \in Streams \ {t} : peer'[r] = peer[r] /\ sent'[r] = sent[r] /\ ~Pending(r)
  PROVE  Handed' /\ EmittedWhole' /\ \A r \in Streams : Followed(r)'
<1>0. \A r \in Streams : ~Pending(r)'
  BY DEF Pending
<1>1. Handed' /\ Emitted' = Emitted
  BY DEF Handed, Emitted
<1>2. EmittedWhole'
  BY <1>1, SameEmitted
<1>3. ASSUME NEW r \in Streams \ {t} PROVE Followed(r)'
  BY <1>0, <1>1, <1>3, LeftAlone, EmittedForStays
<1>4. Followed(t)'
  BY DEF Followed, AfterEnd
<1> QED BY <1>1, <1>2, <1>3, <1>4

\* Nothing becomes of a stream that the peer goes on with.
LEMMA GoesOnFollowed ==
  ASSUME Handed, EmittedWhole, \A s \in Streams : Followed(s), EndsAreFinal,
         UNCHANGED <<live, st, done, delivered, dropped>>,
         \A r \in Streams : Followed(r)' \/ /\ peer'[r] = peer[r] /\ sent'[r] = sent[r]
                                            /\ Pending(r)' <=> Pending(r)
                                            /\ Pending(r) => sending'.blk = sending.blk
  PROVE  Handed' /\ EmittedWhole' /\ \A r \in Streams : Followed(r)'
<1>1. Handed' /\ Emitted' = Emitted
  BY DEF Handed, Emitted
<1>2. EmittedWhole'
  BY <1>1, SameEmitted
<1>3. ASSUME NEW r \in Streams PROVE Followed(r)'
  BY <1>1, LeftAlone, EmittedForStays
<1> QED BY <1>1, <1>2, <1>3

\* A poisoned direction hands on no more.
LEMMA PoisonedExchange ==
  ASSUME Exchange, poison, EndsAreFinal, PeerStates'
  PROVE  Exchange'
<1>1. Handed' /\ Emitted' = Emitted
  BY DEF poison, Exchange, Handed, Emitted
<1>2. EmittedWhole'
  BY <1>1, SameEmitted DEF Exchange, poison
<1> QED BY <1>1, <1>2 DEF Exchange, SameAsm, poison

-----------------------------------------------------------------------------
(* The steps of the peer and what the parser does with each.                *)

Waits == UNCHANGED <<live, st, done, delivered, poisoned, dropped>>
Finished(t, b, end) ==
  /\ UNCHANGED <<delivered, poisoned>>
  /\ \/ full(t) /\ dropped' = dropped \cup {t} /\ UNCHANGED <<live, st, done>>
     \/ ~full(t) /\ keep(t, [st[t] EXCEPT !.blocks = Append(@, b)], end) /\ UNCHANGED dropped

LEMMA FragmentOutcome ==
  ASSUME NEW a, NEW f, f.hpackOk, fragment(a, f)
  PROVE  \/ poison
         \/ f.endHeaders /\ asm' = NoBlock /\ Finished(a.target, a.blk, a.endStream)
         \/ ~f.endHeaders /\ asm' = a /\ Waits
<1>1. CASE a.frag > MaxHeaderBlock
  BY <1>1, Zenon DEF fragment
<1>2. CASE ~(a.frag > MaxHeaderBlock) /\ f.endHeaders
  BY <1>2, Zenon DEF fragment, finishBlock, Finished
<1>3. CASE ~(a.frag > MaxHeaderBlock) /\ ~f.endHeaders
  BY <1>3, Zenon DEF fragment, Waits
<1> QED BY <1>1, <1>2, <1>3

LEMMA BeginOutcome ==
  ASSUME NEW c, NEW t, NEW end, NEW f, NEW b, f.hpackOk, f.blk = b, beginBlock(c, t, end, f)
  PROVE  \/ poison
         \/ f.endHeaders /\ asm' = NoBlock /\ Finished(t, b, end)
         \/ /\ ~f.endHeaders /\ Waits
            /\ asm' = [on |-> TRUE, cont |-> c, target |-> t, endStream |-> end, blk |-> b, frag |-> 1]
<1> DEFINE a == [on |-> TRUE, cont |-> c, target |-> t, endStream |-> end, blk |-> b, frag |-> 1]
<1>1. fragment(a, f)
  BY Zenon DEF beginBlock
<1>2. a.target = t /\ a.blk = b
  OBVIOUS
<1>3. a.endStream = end
  BY Zenon
<1> HIDE DEF a
<1>4. \/ poison
      \/ f.endHeaders /\ asm' = NoBlock /\ Finished(a.target, a.blk, a.endStream)
      \/ ~f.endHeaders /\ asm' = a /\ Waits
  BY <1>1, FragmentOutcome
<1>5. \/ poison
      \/ f.endHeaders /\ asm' = NoBlock /\ Finished(t, b, end)
      \/ ~f.endHeaders /\ asm' = a /\ Waits
  BY <1>2, <1>3, <1>4, Zenon
<1> QED BY <1>5, Zenon DEF a

\* A block that ends, with what the peer has sent in it.
LEMMA BlockEnds ==
  ASSUME IInv, Exchange, ~poisoned, NEW t \in Streams, NEW b \in Nat, NEW end \in BOOLEAN,
         Finished(t, b, end), asm' = NoBlock, sending' = NoBlock, EndsAreFinal, PeerStates',
         peer'[t] = AfterEnd(end), ~Ended(t),
         \A r \in Streams \ {t} : peer'[r] = peer[r] /\ sent'[r] = sent[r] /\ ~Pending(r),
         t \notin dropped => sent'[t].blocks = Append(st[t].blocks, b) /\ BodyOf(st[t], sent'[t])
  PROVE  Exchange'
<1>1. Handed /\ EmittedWhole /\ Kept /\ (\A s \in Streams : Followed(s)) /\ ~sending'.on
  BY NoStreamType DEF Exchange, IInv
<1>2. CASE full(t) /\ dropped' = dropped \cup {t} /\ UNCHANGED <<live, st, done>>
  <2>1. t \notin live /\ delivered' = delivered
    BY <1>2 DEF full, Finished
  <2>2. Handed' /\ EmittedWhole' /\ \A r \in Streams : Followed(r)'
    BY <1>1, <1>2, <2>1, DroppedFollowed
  <2> QED BY <2>2 DEF Exchange, SameAsm
<1>3. CASE ~full(t) /\ keep(t, [st[t] EXCEPT !.blocks = Append(@, b)], end) /\ UNCHANGED dropped
  <2>1. PICK h \in StreamType : /\ h = [st[t] EXCEPT !.blocks = Append(@, b)]
                                /\ h.blocks = Append(st[t].blocks, b) /\ h.blocks # <<>>
                                /\ h.body = st[t].body
    <3>1. st[t] \in StreamType /\ [st[t] EXCEPT !.blocks = Append(@, b)] \in StreamType
      BY AppendType, <1>1 DEF Kept
    <3>2. st[t].blocks \in Seq(Nat)
      BY <3>1 DEF StreamType
    <3>3. Append(st[t].blocks, b) # <<>>
      <4>1. \A seq \in Seq(Nat) : Append(seq, b) # <<>>
        OBVIOUS
      <4> QED BY <3>2, <4>1, Zenon
    <3>4. /\ [st[t] EXCEPT !.blocks = Append(@, b)].blocks = Append(st[t].blocks, b)
          /\ [st[t] EXCEPT !.blocks = Append(@, b)].body = st[t].body
      BY <3>1 DEF StreamType
    <3> QED BY <3>1, <3>3, <3>4
  <2>2. h.bodyTrunc <=> st[t].bodyTrunc
    <3>1. st[t] \in StreamType
      BY <1>1 DEF Kept
    <3> QED BY <2>1, <3>1, Zenon DEF StreamType
  <2>3. t \notin dropped => Whole(h, sent'[t]) /\ sent'[t].blocks # <<>>
    BY <2>1, <2>2 DEF Whole, BodyOf
  <2>4. keep(t, h, end) /\ UNCHANGED <<delivered, dropped>>
    BY <1>3, <2>1 DEF Finished
  <2>5. Handed' /\ EmittedWhole' /\ \A r \in Streams : Followed(r)'
    BY <1>1, <2>3, <2>4, KeptFollowed
  <2> QED BY <2>5 DEF Exchange, SameAsm
<1> QED BY <1>2, <1>3 DEF Finished

\* What a block does to what the peer knows.
LEMMA BlockSentPeer ==
  ASSUME PeerStates, PeerType, ~sending.on, NEW c, NEW t \in Streams, NEW end \in BOOLEAN,
         NEW eh \in BOOLEAN, peer[t] \in {"idle", "open"}, BlockSent(c, t, end, eh)
  PROVE  /\ PeerStates' /\ EndsAreFinal /\ peer'[t] = AfterEnd(end) /\ ~Ended(t)
         /\ sent'[t].blocks = Append(sent[t].blocks, nextBlk) /\ sent'[t].body = sent[t].body
         /\ \A r \in Streams \ {t} : peer'[r] = peer[r] /\ sent'[r] = sent[r] /\ ~Pending(r)
         /\ sent'[t].blocks # <<>>
<1>1. /\ peer' = [peer EXCEPT ![t] = AfterEnd(end)]
      /\ sent' = [sent EXCEPT ![t].blocks = Append(@, nextBlk)]
      /\ AfterEnd(end) \in {"open", "ended"} /\ nextBlk \in Nat
  BY DEF BlockSent, AfterEnd, PeerType
<1>2. sent[t].blocks \in Seq(Nat) /\ sent[t] \in [blocks : Seq(Nat), body : Nat, bodyTrunc : BOOLEAN]
  BY DEF PeerStates
<1>3. Append(sent[t].blocks, nextBlk) \in Seq(Nat) /\ Append(sent[t].blocks, nextBlk) # <<>>
  BY <1>1, <1>2
<1>4. /\ [sent[t] EXCEPT !.blocks = Append(@, nextBlk)]
           \in [blocks : Seq(Nat), body : Nat, bodyTrunc : BOOLEAN]
      /\ [sent[t] EXCEPT !.blocks = Append(@, nextBlk)].blocks = Append(sent[t].blocks, nextBlk)
      /\ [sent[t] EXCEPT !.blocks = Append(@, nextBlk)].body = sent[t].body
  BY <1>2, <1>3
<1>5. sent'[t] = [sent[t] EXCEPT !.blocks = Append(@, nextBlk)]
      /\ \A r \in Streams \ {t} : sent'[r] = sent[r] /\ peer'[r] = peer[r]
  BY <1>1 DEF PeerStates
<1>6. /\ peer' \in [Streams -> {"idle", "open", "ended", "reset", "abandoned"}]
      /\ sent' \in [Streams -> [blocks : Seq(Nat), body : Nat, bodyTrunc : BOOLEAN]]
      /\ peer'[t] = AfterEnd(end)
  <2>1. sent' = [r \in Streams |-> IF r = t THEN [sent[t] EXCEPT !.blocks = Append(@, nextBlk)]
                                            ELSE sent[r]]
    BY <1>1 DEF PeerStates
  <2> QED BY <1>1, <1>4, <2>1 DEF PeerStates
<1>7. CASE eh
  <2>1. ~sending'.on
    BY <1>7, NoStreamType DEF BlockSent
  <2> QED BY <1>3, <1>4, <1>5, <1>6, <2>1 DEF PeerStates, EndsAreFinal, Ended, Pending
<1>8. CASE ~eh
  <2>1. sending' = [on |-> TRUE, cont |-> c, target |-> t, endStream |-> end, blk |-> nextBlk, frag |-> 1]
    BY <1>8 DEF BlockSent
  <2>2. sending'.target = t
    BY <2>1
  <2>3. AfterEnd(sending'.endStream) = AfterEnd(end)
    BY <2>1, Zenon
  <2>4. PeerStates'
    BY <1>6, <2>2, <2>3 DEF PeerStates, AfterEnd
  <2> QED BY <1>3, <1>4, <1>5, <1>6, <2>2, <2>4 DEF EndsAreFinal, Ended, Pending
<1> QED BY <1>7, <1>8

\* A block begins, in HEADERS or PUSH_PROMISE.
LEMMA BeginExchange ==
  ASSUME IInv, Exchange, ~poisoned, ~sending.on, NEW c, NEW t \in Streams, NEW end \in BOOLEAN,
         NEW eh \in BOOLEAN, peer[t] \in {"idle", "open"}, BlockSent(c, t, end, eh),
         NEW f, f.hpackOk, f.endHeaders = eh, f.blk = nextBlk, poison \/ beginBlock(c, t, end, f)
  PROVE  Exchange'
<1>1. /\ PeerStates' /\ EndsAreFinal /\ peer'[t] = AfterEnd(end) /\ ~Ended(t)
      /\ sent'[t].blocks = Append(sent[t].blocks, nextBlk) /\ sent'[t].body = sent[t].body
      /\ \A r \in Streams \ {t} : peer'[r] = peer[r] /\ sent'[r] = sent[r] /\ ~Pending(r)
      /\ sent'[t].blocks # <<>>
  <2>1. PeerStates /\ PeerType
    BY DEF Exchange, IInv
  <2> QED BY <2>1, BlockSentPeer, ZenonT(60)
<1>2. Followed(t) /\ ~Pending(t) /\ nextBlk \in Nat
  BY DEF Exchange, Pending, IInv, PeerType
<1>3. t \notin dropped =>
        sent'[t].blocks = Append(st[t].blocks, nextBlk) /\ BodyOf(st[t], sent'[t])
  BY <1>1, <1>2 DEF Followed, FollowedWhole, BodyOf
<1>4. CASE poison
  BY <1>1, <1>4, PoisonedExchange
<1>5. CASE eh /\ asm' = NoBlock /\ Finished(t, nextBlk, end)
  <2>1. sending' = NoBlock
    BY <1>5 DEF BlockSent
  <2> QED BY <1>1, <1>2, <1>3, <1>5, <2>1, BlockEnds
<1>6. CASE /\ ~eh /\ Waits
           /\ asm' = [on |-> TRUE, cont |-> c, target |-> t, endStream |-> end, blk |-> nextBlk,
                      frag |-> 1]
  <2>1. sending' = asm'
    BY <1>6, Zenon DEF BlockSent
  <2>2. sending'.on
    BY <1>6, <2>1, Zenon
  <2>3. sending'.target = t /\ sending'.blk = nextBlk
    BY <1>6, <2>1
  <2>4. Followed(t)'
    <3>1. peer'[t] # "idle" /\ (peer'[t] = "open" \/ peer'[t] = "ended") /\ Pending(t)'
      BY <1>1, <2>2, <2>3 DEF AfterEnd, Pending
    <3>2. t \notin dropped' =>
            sent'[t].blocks = Append(st'[t].blocks, sending'.blk) /\ BodyOf(st'[t], sent'[t])
      BY <1>3, <1>6, <2>3 DEF Waits
    <3> QED BY <1>1, <3>1, <3>2 DEF Followed, FollowedWhole, Ended, BodyOf
  <2>5. ASSUME NEW r \in Streams \ {t}
        PROVE  peer'[r] = peer[r] /\ sent'[r] = sent[r] /\ ~Pending(r) /\ ~Pending(r)'
    BY <1>1, <2>3 DEF Pending
  <2>6. Handed' /\ EmittedWhole' /\ \A r \in Streams : Followed(r)'
    <3>1. Handed /\ EmittedWhole /\ \A s \in Streams : Followed(s)
      BY DEF Exchange
    <3> QED BY <1>1, <1>6, <2>4, <2>5, <3>1, GoesOnFollowed DEF Waits
  <2> QED BY <1>1, <2>1, <2>6 DEF Exchange, SameAsm
<1>7. \/ poison
      \/ eh /\ asm' = NoBlock /\ Finished(t, nextBlk, end)
      \/ /\ ~eh /\ Waits
         /\ asm' = [on |-> TRUE, cont |-> c, target |-> t, endStream |-> end, blk |-> nextBlk,
                    frag |-> 1]
  <2>1. CASE poison
    BY <2>1
  <2>2. CASE beginBlock(c, t, end, f)
    <3>1. \/ poison
          \/ f.endHeaders /\ asm' = NoBlock /\ Finished(t, nextBlk, end)
          \/ /\ ~f.endHeaders /\ Waits
             /\ asm' = [on |-> TRUE, cont |-> c, target |-> t, endStream |-> end, blk |-> nextBlk,
                        frag |-> 1]
      BY <2>2, BeginOutcome
    <3> QED BY <3>1, Zenon
  <2> QED BY <2>1, <2>2
<1> QED BY <1>4, <1>5, <1>6, <1>7

LEMMA HeadersExchange ==
  ASSUME IInv, Exchange, NEW s \in Streams, NEW end \in BOOLEAN, NEW eh \in BOOLEAN,
         SendHeaders(s, end, eh)
  PROVE  Exchange'
<1> DEFINE f == [Frame("HEADERS", s) EXCEPT !.endStream = end, !.endHeaders = eh,
                                            !.blk = nextBlk]
<1>1. f.hpackOk /\ f.padOk /\ f.endHeaders = eh /\ f.endStream = end
  BY Zenon DEF Frame
<1>2. f.type = "HEADERS" /\ f.sid = s /\ f.blk = nextBlk /\ s # 0
  BY Zero DEF Frame
<1>3. handleFrame(f) /\ BlockSent(s, s, end, eh) /\ ~sending.on
  BY Zenon DEF SendHeaders, CanStart
<1> HIDE DEF f
<1>4. ~poisoned
  BY <1>3, Zenon DEF handleFrame
<1>5. poison \/ onHeaders(f)
  BY <1>2, <1>3 DEF handleFrame
<1>6. poison \/ beginBlock(s, s, end, f)
  BY <1>1, <1>2, <1>5, Zenon DEF onHeaders
<1>7. peer[s] \in {"idle", "open"}
  BY DEF SendHeaders
<1> QED BY <1>1, <1>2, <1>3, <1>4, <1>6, <1>7, BeginExchange

LEMMA PushExchange ==
  ASSUME IInv, Exchange, NEW s \in Streams, NEW p \in Streams, NEW eh \in BOOLEAN,
         SendPush(s, p, eh)
  PROVE  Exchange'
<1> DEFINE f == [Frame("PUSH_PROMISE", s) EXCEPT !.promised = p, !.endHeaders = eh,
                                                 !.blk = nextBlk]
<1>1. f.hpackOk /\ f.padOk /\ f.endHeaders = eh
  BY Zenon DEF Frame
<1>2. f.type = "PUSH_PROMISE" /\ f.sid = s /\ f.promised = p /\ f.blk = nextBlk
  BY DEF Frame
<1>3. handleFrame(f) /\ BlockSent(s, p, FALSE, eh) /\ ~sending.on
  BY Zenon DEF SendPush, CanStart
<1> HIDE DEF f
<1>4. ~poisoned
  BY <1>3, Zenon DEF handleFrame
<1>5. poison \/ onPushPromise(f)
  BY <1>2, <1>3 DEF handleFrame
<1>6. poison \/ beginBlock(s, p, FALSE, f)
  BY <1>1, <1>2, <1>5, Zenon DEF onPushPromise
<1>7. peer[p] \in {"idle", "open"}
  BY DEF SendPush
<1> QED BY <1>1, <1>2, <1>3, <1>4, <1>6, <1>7, BeginExchange

\* A block goes on or ends in CONTINUATION.
LEMMA ContinuationExchange ==
  ASSUME IInv, Exchange, NEW eh \in BOOLEAN, SendContinuation(eh)
  PROVE  Exchange'
<1> DEFINE f == [Frame("CONTINUATION", sending.cont) EXCEPT !.endHeaders = eh,
                                                            !.blk = sending.blk]
<1> DEFINE a == [asm EXCEPT !.frag = @ + 1]
<1>1. f.hpackOk /\ f.endHeaders = eh
  BY Zenon DEF Frame
<1>2. f.type = "CONTINUATION" /\ f.sid = sending.cont
  BY DEF Frame
<1>3. handleFrame(f) /\ sending.on
  BY Zenon DEF SendContinuation
<1>4. onContinuation(f) => poison \/ fragment(a, f)
  BY DEF onContinuation
<1>5. a.target = asm.target /\ a.blk = asm.blk
  BY DEF IInv, Open, AsmType
<1>6. a.endStream = asm.endStream
  BY Zenon DEF IInv, Open, AsmType
<1>7. a = [asm EXCEPT !.frag = @ + 1]
  OBVIOUS
<1> HIDE DEF f, a
<1>8. ~poisoned
  BY <1>3, Zenon DEF handleFrame
<1>9. asm = sending
  BY <1>8 DEF Exchange, SameAsm
<1>10. poison \/ fragment(a, f)
  BY <1>2, <1>3, <1>4 DEF handleFrame
<1> PICK t \in Streams : t = sending.target
  BY <1>3 DEF Exchange, PeerStates
<1> PICK end \in BOOLEAN : end = sending.endStream
  BY Zenon DEF IInv, PeerType, AsmType
<1>11. /\ peer' = peer /\ sent' = sent /\ nextBlk' = nextBlk
       /\ sending' = IF eh THEN NoBlock ELSE [sending EXCEPT !.frag = @ + 1]
  BY Zenon DEF SendContinuation
<1>12. sending \in AsmType /\ sending.blk \in Nat
  BY DEF IInv, PeerType, AsmType
<1>13. ASSUME NEW r \in Streams PROVE Ended(r) => Ended(r)'
  <2>1. CASE eh
    BY <1>11, <2>1, NoStreamType DEF Ended, Pending
  <2>2. CASE ~eh
    <3>1. sending'.target = sending.target
      BY <1>11, <1>12, <2>2 DEF AsmType
    <3> QED BY <1>3, <1>11, <3>1 DEF Ended, Pending
  <2> QED BY <2>1, <2>2
<1>14. EndsAreFinal
  BY <1>11, <1>13 DEF EndsAreFinal
<1>15. PeerStates'
  <2>1. CASE eh
    BY <1>11, <2>1, NoStreamType DEF Exchange, PeerStates
  <2>2. CASE ~eh
    <3>1. sending' = [sending EXCEPT !.frag = @ + 1]
      BY <1>11, <2>2, Zenon
    <3>2. sending'.target = sending.target
      BY <1>12, <3>1 DEF AsmType
    <3>3. sending'.endStream = sending.endStream
      BY <1>12, <3>1, Zenon DEF AsmType
    <3>4. AfterEnd(sending'.endStream) = AfterEnd(sending.endStream)
      BY <3>3, Zenon
    <3> QED BY <1>3, <1>11, <3>2, <3>4 DEF Exchange, PeerStates, AfterEnd
  <2> QED BY <2>1, <2>2
<1>16. CASE poison
  BY <1>14, <1>15, <1>16, PoisonedExchange
<1>17. CASE eh /\ asm' = NoBlock /\ Finished(t, sending.blk, end)
  <2>1. Pending(t) /\ Followed(t) /\ \A r \in Streams \ {t} : ~Pending(r)
    BY <1>3, <1>8 DEF Pending, Exchange
  <2>2. t \notin dropped => sent'[t].blocks = Append(st[t].blocks, sending.blk) /\ BodyOf(st[t], sent'[t])
    BY <1>11, <2>1 DEF Followed, FollowedWhole
  <2>3. peer[t] = AfterEnd(end)
    <3>1. peer[sending.target] = AfterEnd(sending.endStream)
      BY <1>3 DEF Exchange, PeerStates
    <3> QED BY <3>1, Zenon
  <2> QED BY <1>8, <1>11, <1>12, <1>14, <1>15, <1>17, <2>1, <2>2, <2>3, BlockEnds DEF Ended
<1>18. CASE ~eh /\ asm' = a /\ Waits
  <2>1. sending' = asm'
    BY <1>7, <1>9, <1>11, <1>18, Zenon
  <2>2. sending' = [sending EXCEPT !.frag = @ + 1]
    BY <1>11, <1>18, Zenon
  <2>3. sending'.target = sending.target /\ sending'.blk = sending.blk
    BY <1>12, <2>2 DEF AsmType
  <2>4. sending'.on = sending.on
    BY <1>12, <2>2, Zenon DEF AsmType
  <2>5. \A r \in Streams : Pending(r)' <=> Pending(r)
    BY <2>3, <2>4 DEF Pending
  <2>6. Handed /\ EmittedWhole /\ \A s \in Streams : Followed(s)
    BY <1>8 DEF Exchange
  <2>7. Handed' /\ EmittedWhole' /\ \A r \in Streams : Followed(r)'
    BY <1>11, <1>14, <1>18, <2>3, <2>5, <2>6, GoesOnFollowed DEF Waits
  <2> QED BY <1>15, <2>1, <2>7 DEF Exchange, SameAsm
<1>19. \/ poison
       \/ eh /\ asm' = NoBlock /\ Finished(t, sending.blk, end)
       \/ ~eh /\ asm' = a /\ Waits
  <2>1. CASE poison
    BY <2>1
  <2>2. CASE fragment(a, f)
    <3>1. \/ poison
          \/ f.endHeaders /\ asm' = NoBlock /\ Finished(a.target, a.blk, a.endStream)
          \/ ~f.endHeaders /\ asm' = a /\ Waits
      BY <1>1, <2>2, FragmentOutcome
    <3>2. a.target = t /\ a.blk = sending.blk
      BY <1>5, <1>9
    <3>3. a.endStream = end
      BY <1>6, <1>9, Zenon
    <3> QED BY <1>1, <3>1, <3>2, <3>3, Zenon
  <2> QED BY <1>10, <2>1, <2>2
<1> QED BY <1>16, <1>17, <1>18, <1>19

\* A body is followed up to its limit, and then marked as cut.
LEMMA WithDataFollows ==
  ASSUME NEW h \in StreamType, NEW f, f.len \in Nat, NEW t, NEW u, t.body \in Nat, BodyOf(h, t),
         u.body = t.body + (IF f.padOk THEN f.len ELSE 0)
  PROVE  BodyOf(withData(h, f), u) /\ withData(h, f).blocks = h.blocks
<1>0. MaxBody \in Nat /\ h.body \in Nat /\ h.bodyTrunc \in BOOLEAN
  BY Http2Assumption DEF StreamType, Bodies
<1>1. h.bodyTrunc <=> t.body > MaxBody
  BY DEF BodyOf
<1>2. CASE ~f.padOk \/ h.bodyTrunc
  <2>1. withData(h, f) = h
    BY <1>2 DEF withData
  <2>2. (u.body > MaxBody <=> t.body > MaxBody) /\ (u.body = t.body \/ t.body > MaxBody)
    BY <1>0, <1>1, <1>2
  <2> QED BY <2>1, <2>2 DEF BodyOf
<1>3. CASE f.padOk /\ ~h.bodyTrunc /\ h.body + f.len <= MaxBody
  <2>1. withData(h, f) = [h EXCEPT !.body = @ + f.len]
    BY <1>3 DEF withData
  <2>2. withData(h, f).body = h.body + f.len /\ withData(h, f).blocks = h.blocks
    BY <2>1 DEF StreamType
  <2>3. ~withData(h, f).bodyTrunc
    BY <1>3, <2>1, Zenon DEF StreamType
  <2>4. h.body = t.body /\ u.body = h.body + f.len
    BY <1>0, <1>1, <1>3 DEF BodyOf
  <2>5. ~(u.body > MaxBody)
    BY <1>0, <1>3, <2>4
  <2> QED BY <2>2, <2>3, <2>4, <2>5 DEF BodyOf
<1>4. CASE f.padOk /\ ~h.bodyTrunc /\ ~(h.body + f.len <= MaxBody)
  <2>1. withData(h, f) = [blocks |-> h.blocks, body |-> MaxBody, bodyTrunc |-> TRUE]
    BY <1>4 DEF withData
  <2>2. withData(h, f).body = MaxBody /\ withData(h, f).blocks = h.blocks
    BY <2>1
  <2>3. withData(h, f).bodyTrunc = TRUE
    BY <2>1
  <2>4. h.body = t.body
    BY <1>0, <1>1, <1>4 DEF BodyOf
  <2>5. u.body > MaxBody
    BY <1>0, <1>4, <2>4
  <2> QED BY <2>2, <2>3, <2>5 DEF BodyOf
<1> QED BY <1>2, <1>3, <1>4

\* DATA, with good padding or with bad.
LEMMA DataExchange ==
  ASSUME IInv, Exchange, NEW s \in Streams, NEW end \in BOOLEAN, NEW f, f.type = "DATA", f.sid = s,
         f.endStream = end, f.len \in Nat, handleFrame(f), ~sending.on, peer[s] = "open",
         peer' = [peer EXCEPT ![s] = AfterEnd(end)], sending' = sending,
         sent' \in [Streams -> [blocks : Seq(Nat), body : Nat, bodyTrunc : BOOLEAN]],
         \A r \in Streams \ {s} : sent'[r] = sent[r],
         sent'[s].blocks = sent[s].blocks,
         sent'[s].body = sent[s].body + (IF f.padOk THEN f.len ELSE 0)
  PROVE  Exchange'
<1>1. ~poisoned /\ asm = sending
  BY DEF handleFrame, Exchange, SameAsm
<1>2. /\ Handed /\ EmittedWhole /\ (\A r \in Streams : Followed(r)) /\ PeerStates
      /\ Kept /\ s # 0
  BY <1>1, Zero DEF Exchange, IInv
<1>3. /\ \A r \in Streams : ~Pending(r) /\ ~Pending(r)'
      /\ AfterEnd(end) \in {"open", "ended"} /\ peer'[s] = AfterEnd(end)
      /\ \A r \in Streams \ {s} : peer'[r] = peer[r]
  BY <1>2 DEF Pending, AfterEnd, PeerStates
<1>4. PeerStates' /\ EndsAreFinal /\ ~Ended(s)
  <2>1. peer' \in [Streams -> {"idle", "open", "ended", "reset", "abandoned"}]
    BY <1>2, <1>3 DEF PeerStates
  <2>2. PeerStates'
    BY <2>1 DEF PeerStates
  <2>3. ASSUME NEW r \in Streams, Ended(r) PROVE Ended(r)' /\ sent'[r] = sent[r]
    BY <1>3, <2>3 DEF Ended
  <2> QED BY <2>2, <2>3 DEF EndsAreFinal, Ended
<1>5. CASE poison
  BY <1>4, <1>5, PoisonedExchange
<1>6. CASE ~poison
  <2>1. onData(f)
    BY <1>6 DEF handleFrame
  <2>2. /\ UNCHANGED <<asm, delivered, poisoned, dropped>>
        /\ full(s) => UNCHANGED <<live, st, done>>
        /\ ~full(s) => keep(s, withData(st[s], f), end)
    BY <1>2, <2>1, Zenon DEF onData
  <2>3. CASE full(s)
    <3>1. s \notin live /\ s \in dropped
      BY <1>2, <1>3, <2>3 DEF full, Followed, FollowedWhole
    <3>2. Followed(s)'
      BY <1>3, <2>2, <2>3, <3>1 DEF Followed
    <3>3. Handed' /\ EmittedWhole' /\ \A r \in Streams : Followed(r)'
      BY <1>2, <1>3, <1>4, <2>2, <2>3, <3>2, GoesOnFollowed
    <3> QED BY <1>1, <1>4, <2>2, <3>3 DEF Exchange, SameAsm
  <2>4. CASE ~full(s)
    <3>1. st[s] \in StreamType /\ sent[s].body \in Nat
      BY <1>2 DEF Kept, PeerStates
    <3>2. withData(st[s], f) \in StreamType
      BY <3>1, WithDataType
    <3>3. s \notin dropped => Whole(withData(st[s], f), sent'[s]) /\ sent'[s].blocks # <<>>
      <4> SUFFICES ASSUME s \notin dropped
                   PROVE  Whole(withData(st[s], f), sent'[s]) /\ sent'[s].blocks # <<>>
        OBVIOUS
      <4>1. FollowedWhole(s)
        BY <1>2 DEF Followed
      <4>2. st[s].blocks = sent[s].blocks /\ BodyOf(st[s], sent[s]) /\ sent[s].blocks # <<>>
        BY <1>3, <4>1 DEF FollowedWhole
      <4>3. BodyOf(withData(st[s], f), sent'[s]) /\ withData(st[s], f).blocks = st[s].blocks
        BY <3>1, <4>2, WithDataFollows
      <4> QED BY <4>2, <4>3 DEF Whole
    <3>4. Handed' /\ EmittedWhole' /\ \A r \in Streams : Followed(r)'
      BY <1>2, <1>3, <1>4, <2>2, <2>4, <3>2, <3>3, KeptFollowed
    <3> QED BY <1>1, <1>4, <2>2, <3>4 DEF Exchange, SameAsm
  <2> QED BY <2>3, <2>4
<1> QED BY <1>5, <1>6

LEMMA SendDataExchange ==
  ASSUME IInv, Exchange, NEW s \in Streams, NEW n \in DataSizes, NEW end \in BOOLEAN,
         SendData(s, n, end)
  PROVE  Exchange'
<1> DEFINE f == [Frame("DATA", s) EXCEPT !.endStream = end, !.len = n]
<1>1. f.endStream = end /\ f.padOk
  BY Zenon DEF Frame
<1>2. f.type = "DATA" /\ f.sid = s /\ f.len = n /\ n \in Nat
  BY Http2Assumption DEF Frame
<1>3. handleFrame(f)
  BY DEF SendData
<1> HIDE DEF f
<1>4. /\ ~sending.on /\ peer[s] = "open" /\ sending' = sending
      /\ peer' = [peer EXCEPT ![s] = AfterEnd(end)]
      /\ sent' = [sent EXCEPT ![s].body = @ + n]
  BY DEF SendData
<1>5. sent \in [Streams -> [blocks : Seq(Nat), body : Nat, bodyTrunc : BOOLEAN]]
  BY DEF Exchange, PeerStates
<1>6. /\ sent' \in [Streams -> [blocks : Seq(Nat), body : Nat, bodyTrunc : BOOLEAN]]
      /\ \A r \in Streams \ {s} : sent'[r] = sent[r]
      /\ sent'[s].blocks = sent[s].blocks /\ sent'[s].body = sent[s].body + n
  <2>1. sent[s] \in [blocks : Seq(Nat), body : Nat, bodyTrunc : BOOLEAN] /\ sent[s].body + n \in Nat
    BY <1>2, <1>5
  <2>2. /\ [sent[s] EXCEPT !.body = @ + n] \in [blocks : Seq(Nat), body : Nat, bodyTrunc : BOOLEAN]
        /\ [sent[s] EXCEPT !.body = @ + n].blocks = sent[s].blocks
        /\ [sent[s] EXCEPT !.body = @ + n].body = sent[s].body + n
    BY <2>1
  <2>3. sent' = [r \in Streams |-> IF r = s THEN [sent[s] EXCEPT !.body = @ + n] ELSE sent[r]]
    BY <1>4, <1>5
  <2> QED BY <1>5, <2>2, <2>3
<1>7. sent'[s].body = sent[s].body + (IF f.padOk THEN f.len ELSE 0)
  BY <1>1, <1>2, <1>6
<1> QED BY <1>1, <1>2, <1>3, <1>4, <1>6, <1>7, DataExchange

LEMMA SendBadDataExchange ==
  ASSUME IInv, Exchange, NEW s \in Streams, NEW end \in BOOLEAN, SendBadData(s, end)
  PROVE  Exchange'
<1> DEFINE f == [Frame("DATA", s) EXCEPT !.padOk = FALSE, !.endStream = end]
<1>1. f.endStream = end /\ ~f.padOk
  BY Zenon DEF Frame
<1>2. f.type = "DATA" /\ f.sid = s /\ f.len = 0
  BY DEF Frame
<1>3. handleFrame(f)
  BY DEF SendBadData
<1> HIDE DEF f
<1>4. /\ ~sending.on /\ peer[s] = "open" /\ sending' = sending
      /\ peer' = [peer EXCEPT ![s] = AfterEnd(end)] /\ sent' = sent
  BY DEF SendBadData
<1>5. sent \in [Streams -> [blocks : Seq(Nat), body : Nat, bodyTrunc : BOOLEAN]]
  BY DEF Exchange, PeerStates
<1>6. sent'[s].body = sent[s].body + (IF f.padOk THEN f.len ELSE 0)
  BY <1>1, <1>4, <1>5
<1>7. /\ sent' \in [Streams -> [blocks : Seq(Nat), body : Nat, bodyTrunc : BOOLEAN]]
      /\ \A r \in Streams \ {s} : sent'[r] = sent[r]
      /\ sent'[s].blocks = sent[s].blocks /\ f.len \in Nat
  BY <1>2, <1>4, <1>5
<1> QED BY <1>1, <1>2, <1>3, <1>4, <1>6, <1>7, DataExchange

LEMMA ResetExchange ==
  ASSUME IInv, Exchange, NEW s \in Streams, SendReset(s)
  PROVE  Exchange'
<1>1. /\ ~sending.on /\ peer[s] = "open" /\ sending' = sending /\ sent' = sent
      /\ peer' = [peer EXCEPT ![s] = "reset"] /\ handleFrame(Frame("RST_STREAM", s))
  BY DEF SendReset
<1>2. ~poisoned /\ asm = sending
  BY <1>1 DEF handleFrame, Exchange, SameAsm
<1>3. /\ Handed /\ EmittedWhole /\ (\A r \in Streams : Followed(r)) /\ PeerStates /\ Kept
  BY <1>2 DEF Exchange, IInv
<1>4. \A r \in Streams : ~Pending(r) /\ ~Pending(r)'
  BY <1>1 DEF Pending
<1>5. PeerStates' /\ EndsAreFinal
  <2>1. peer' \in [Streams -> {"idle", "open", "ended", "reset", "abandoned"}]
    BY <1>1, <1>3 DEF PeerStates
  <2>2. ASSUME NEW r \in Streams, Ended(r) PROVE Ended(r)' /\ sent'[r] = sent[r]
    BY <1>1, <1>3, <1>4, <2>2 DEF Ended, PeerStates
  <2> QED BY <1>1, <1>3, <2>1, <2>2 DEF PeerStates, EndsAreFinal
<1>6. poison \/ onReset(Frame("RST_STREAM", s))
  <2>1. Frame("RST_STREAM", s).type = "RST_STREAM"
    BY DEF Frame
  <2> QED BY <1>1, <2>1 DEF handleFrame
<1>7. CASE onReset(Frame("RST_STREAM", s))
  <2>1. forget(s) /\ UNCHANGED <<asm, done, delivered, poisoned, dropped>>
    <3>1. Frame("RST_STREAM", s).sid = s
      BY DEF Frame
    <3> QED BY <1>7, <3>1, Zenon DEF onReset
  <2>2. Handed' /\ Emitted' = Emitted
    BY <1>3, <2>1 DEF Handed, Emitted
  <2>3. EmittedWhole'
    BY <1>3, <1>5, <2>1, <2>2, SameEmitted
  <2>4. ASSUME NEW r \in Streams \ {s} PROVE Followed(r)'
    <3>1. st'[r] = st[r] /\ (r \in live' <=> r \in live) /\ peer'[r] = peer[r]
      BY <1>1, <1>3, <2>1 DEF forget, Kept, PeerStates
    <3> QED BY <1>1, <1>3, <1>4, <2>1, <2>2, <3>1, LeftAlone, EmittedForStays
  <2>5. Followed(s)'
    <3>1. s \notin live' /\ peer'[s] = "reset" /\ sent'[s] = sent[s]
      BY <1>1, <1>3, <2>1 DEF forget, PeerStates
    <3>2. s \notin dropped => sent[s].blocks # <<>>
      BY <1>1, <1>3 DEF Followed, FollowedWhole
    <3> QED BY <1>4, <2>1, <3>1, <3>2 DEF Followed, FollowedWhole, Ended
  <2> QED BY <1>1, <1>2, <1>5, <2>1, <2>2, <2>3, <2>4, <2>5 DEF Exchange, SameAsm
<1> QED BY <1>5, <1>6, <1>7, PoisonedExchange

LEMMA AbandonExchange ==
  ASSUME IInv, Exchange, NEW s \in Streams, Abandon(s)
  PROVE  Exchange'
<1>1. /\ ~sending.on /\ peer[s] = "open" /\ sending' = sending /\ sent' = sent
      /\ peer' = [peer EXCEPT ![s] = "abandoned"]
      /\ UNCHANGED <<live, st, asm, done, delivered, poisoned, dropped>>
  BY DEF Abandon, dirVars
<1>2. Handed /\ EmittedWhole /\ PeerStates /\ \A r \in Streams : ~Pending(r) /\ ~Pending(r)'
  BY <1>1 DEF Exchange, Pending
<1>3. PeerStates' /\ EndsAreFinal
  <2>1. peer' \in [Streams -> {"idle", "open", "ended", "reset", "abandoned"}]
    BY <1>1, <1>2 DEF PeerStates
  <2>2. ASSUME NEW r \in Streams, Ended(r) PROVE Ended(r)' /\ sent'[r] = sent[r]
    BY <1>1, <1>2, <2>2 DEF Ended, PeerStates
  <2> QED BY <1>1, <1>2, <2>1, <2>2 DEF PeerStates, EndsAreFinal
<1>4. Handed' /\ EmittedWhole'
  <2>1. Handed' /\ Emitted' = Emitted
    BY <1>1, <1>2 DEF Handed, Emitted
  <2> QED BY <1>1, <1>2, <1>3, <2>1, SameEmitted
<1>5. ASSUME ~poisoned PROVE \A r \in Streams : Followed(r)'
  <2>1. \A r \in Streams : Followed(r)
    BY <1>5 DEF Exchange
  <2>2. Followed(s)'
    <3>1. peer'[s] = "abandoned"
      BY <1>1, <1>2 DEF PeerStates
    <3>2. FollowedWhole(s) => FollowedWhole(s)'
      BY <1>1, <1>2, <3>1 DEF FollowedWhole, Ended, BodyOf
    <3> QED BY <1>1, <2>1, <3>1, <3>2 DEF Followed
  <2>3. \A r \in Streams \ {s} : peer'[r] = peer[r]
    BY <1>1, <1>2 DEF PeerStates
  <2> QED BY <1>1, <1>2, <1>3, <2>1, <2>2, <2>3, GoesOnFollowed
<1> QED BY <1>1, <1>3, <1>4, <1>5 DEF Exchange, SameAsm

\* A step in which the peer does nothing and the parser keeps what it has.
LEMMA QuietExchange ==
  ASSUME Exchange, UNCHANGED peerVars, UNCHANGED <<live, st, asm, poisoned, dropped>>,
         Handed', Emitted' = Emitted
  PROVE  Exchange'
<1>1. /\ \A r \in Streams : Pending(r)' <=> Pending(r)
      /\ sending' = sending /\ peer' = peer /\ sent' = sent
  BY DEF peerVars, Pending
<1>2. PeerStates' /\ EndsAreFinal
  <2>1. PeerStates'
    BY <1>1 DEF Exchange, PeerStates
  <2>2. ASSUME NEW r \in Streams, Ended(r) PROVE Ended(r)' /\ sent'[r] = sent[r]
    BY <1>1, <2>2 DEF Ended
  <2> QED BY <2>1, <2>2 DEF EndsAreFinal
<1>3. EmittedWhole'
  BY <1>2, SameEmitted DEF Exchange
<1>4. ASSUME ~poisoned, NEW r \in Streams PROVE Followed(r)'
  BY <1>1, <1>4, LeftAlone, EmittedForStays DEF Exchange
<1> QED BY <1>1, <1>2, <1>3, <1>4 DEF Exchange, SameAsm

LEMMA NothingExchange ==
  ASSUME Exchange, UNCHANGED peerVars, poison \/ UNCHANGED dirVars
  PROVE  Exchange'
<1>1. CASE poison
  <2>1. PeerStates' /\ EndsAreFinal
    BY DEF peerVars, Exchange, PeerStates, EndsAreFinal, Ended, Pending
  <2> QED BY <1>1, <2>1, PoisonedExchange
<1>2. CASE UNCHANGED dirVars
  BY <1>2, QuietExchange DEF dirVars, Exchange, Handed, Emitted
<1> QED BY <1>1, <1>2

LEMMA ExchangeStep == IInv /\ InSync /\ Exchange /\ [Next]_vars => Exchange'
<1> SUFFICES ASSUME IInv, InSync, Exchange, [Next]_vars PROVE Exchange'
  OBVIOUS
<1>1. CASE Return
  <2>1. Handed' /\ Emitted' = Emitted
    BY <1>1, ReturnedAll DEF Exchange
  <2> QED BY <1>1, <2>1, QuietExchange DEF Return
<1>2. CASE GapOrOverflow
  BY <1>2, NothingExchange DEF GapOrOverflow
<1>3. CASE SendOther
  <2>1. Frame("OTHER", 0).type = "OTHER"
    BY DEF Frame
  <2>2. poison \/ UNCHANGED dirVars
    BY <1>3, <2>1 DEF SendOther, handleFrame, onOther
  <2> QED BY <1>3, <2>2, NothingExchange DEF SendOther
<1>4. CASE SendFaulty
  BY <1>4, FaultyOutcome, NothingExchange DEF SendFaulty
<1>5. CASE UNCHANGED vars
  BY <1>5, NothingExchange DEF vars
<1> QED
  BY <1>1, <1>2, <1>3, <1>4, <1>5, ResetExchange, AbandonExchange, HeadersExchange, PushExchange,
     ContinuationExchange, SendDataExchange, SendBadDataExchange DEF Next

LEMMA InitExchange == Init => Exchange
<1> SUFFICES ASSUME Init PROVE Exchange
  OBVIOUS
<1>1. NoStream \in [blocks : Seq(Nat), body : Nat, bodyTrunc : BOOLEAN] /\ ~sending.on
  BY NoStreamType DEF Init, NoStream
<1>2. PeerStates /\ SameAsm
  BY <1>1 DEF Init, PeerStates, SameAsm
<1>3. Handed /\ Emitted = <<>>
  BY DEF Init, Handed, Emitted
<1>4. EmittedWhole
  BY <1>3 DEF EmittedWhole
<1>5. ASSUME NEW s \in Streams PROVE Followed(s)
  <2>1. BodyOf(NoStream, NoStream)
    BY Http2Assumption DEF BodyOf, NoStream
  <2> QED BY <1>1, <2>1 DEF Init, Followed, FollowedWhole, Pending, Ended
<1> QED BY <1>2, <1>3, <1>4, <1>5 DEF Exchange

LEMMA ExchangeAlways == Spec => [](IInv /\ InSync /\ Exchange)
BY InitIInv, IInvStep, InitInSync, SyncStep, InitExchange, ExchangeStep, PTL DEF Spec

(* What FeedRequest and FeedResponse return for a stream is all that the     *)
(* peer sent on it, in its order and up to the limit on bodies, unless a     *)
(* header block of the stream was dropped for lack of room: whatever comes   *)
(* in between, and whether the direction is poisoned later or not.           *)
THEOREM EmittedAsSent == Spec => []EmittedIsSent
<1>1. Exchange => EmittedIsSent
  BY DEF Exchange, EmittedWhole, WholeAt, Ended, Whole, BodyOf, EmittedIsSent
<1> QED BY <1>1, ExchangeAlways, PTL

(* A stream that the peer has ended is returned once; one that was dropped,  *)
(* is not finished, or ended in a direction that is poisoned at most once.   *)
THEOREM EndedStreamsAreEmittedOnce == Spec => []EmittedOnce
<1>1. ASSUME Exchange, NEW s \in Streams
      PROVE  LET times == Cardinality({i \in 1 .. Len(Emitted) : Emitted[i].sid = s})
                 ended == peer[s] = "ended" /\ ~(sending.on /\ sending.target = s)
             IN  /\ times <= IF ended \/ poisoned THEN 1 ELSE 0
                 /\ ended /\ ~poisoned /\ s \notin dropped => times = 1
  <2> DEFINE places == {i \in 1 .. Len(Emitted) : Emitted[i].sid = s}
  <2>1. CASE EmittedFor(s)
    <3>1. PICK i \in 1 .. Len(Emitted) : Emitted[i].sid = s
      BY <2>1 DEF EmittedFor
    <3>2. Ended(s)
      BY <1>1, <3>1 DEF Exchange, EmittedWhole, WholeAt
    <3>3. places = {i}
      BY <1>1, <3>1 DEF Exchange, EmittedWhole
    <3>4. Cardinality(places) = 1
      BY <3>3, FS_Singleton
    <3> QED BY <3>2, <3>4 DEF Ended, Pending
  <2>2. CASE ~EmittedFor(s)
    <3>1. places = {}
      BY <2>2 DEF EmittedFor
    <3>2. Cardinality(places) = 0
      BY <3>1, FS_EmptySet
    <3>3. Ended(s) /\ s \notin dropped => poisoned
      BY <1>1, <2>2 DEF Exchange, Followed, FollowedWhole
    <3> QED BY <3>2, <3>3 DEF Ended, Pending
  <2> QED BY <2>1, <2>2
<1>2. Exchange => EmittedOnce
  BY <1>1 DEF EmittedOnce
<1> QED BY <1>2, ExchangeAlways, PTL

(* The parser gives back what it keeps for a stream when the stream is over: *)
(* it only has streams that the peer has open, that the other endpoint       *)
(* reset, or to which the block in hand belongs.                             *)
THEOREM KeptAreOpen == Spec => []KeptStreamsAreOpen
<1>1. IInv /\ Exchange => KeptStreamsAreOpen
  BY DEF IInv, Emptied, Kept, Exchange, Followed, Pending, KeptStreamsAreOpen
<1> QED BY <1>1, ExchangeAlways, PTL

-----------------------------------------------------------------------------
(* What no step does.                                                       *)

LEMMA OnlyReturns ==
  ASSUME IInv, Exchange, poisoned, [Next]_vars
  PROVE  poisoned' /\ delivered' \o done' = delivered \o done
<1>1. \A f : ~handleFrame(f)
  BY Zenon DEF handleFrame
<1>2. CASE Return
  <2>1. Emitted' = Emitted /\ poisoned' = poisoned
    BY <1>2, ReturnedAll DEF Exchange, Return
  <2> QED BY <2>1 DEF Emitted
<1>3. CASE \E s \in Streams : Abandon(s)
  BY <1>3 DEF Abandon, dirVars
<1>4. CASE UNCHANGED vars
  BY <1>4 DEF vars, dirVars
<1>5. ~(\/ GapOrOverflow \/ SendOther \/ SendFaulty
        \/ \E s \in Streams, end \in BOOLEAN :
             \/ \E eh \in BOOLEAN : SendHeaders(s, end, eh)
             \/ \E n \in DataSizes : SendData(s, n, end)
             \/ SendBadData(s, end)
        \/ \E s \in Streams : SendReset(s)
        \/ \E s, p \in Streams, eh \in BOOLEAN : SendPush(s, p, eh)
        \/ \E eh \in BOOLEAN : SendContinuation(eh))
  BY <1>1, Zenon DEF GapOrOverflow, SendOther, SendFaulty, SendHeaders, SendData, SendBadData,
                     SendReset, SendPush, SendContinuation
<1> QED BY <1>2, <1>3, <1>4, <1>5, Zenon DEF Next

(* A poisoned direction never parses again and keeps nothing, and what it    *)
(* had completed is still returned, in order and once.                       *)
THEOREM PoisonedForGood == Spec => PoisonIsFinal
<1>1. IInv /\ IInv' /\ Exchange /\ [Next]_vars => PoisonStep
  <2> SUFFICES ASSUME IInv, IInv', Exchange, [Next]_vars, poisoned PROVE PoisonStep
    BY DEF PoisonStep
  <2>1. poisoned' /\ delivered' \o done' = delivered \o done
    BY OnlyReturns
  <2>2. live' = {} /\ ~asm'.on
    BY <2>1 DEF IInv, Emptied
  <2> QED BY <2>1, <2>2 DEF PoisonStep
<1> QED BY <1>1, ExchangeAlways, PTL DEF Spec, PoisonIsFinal

\* What completes a block touches only the stream that the block belongs to.
LEMMA OnlyTheTarget ==
  ASSUME IInv, NEW t \in Streams, NEW b, NEW end, Finished(t, b, end)
  PROVE  \A s \in Streams \ {t} : st'[s] = st[s] /\ (s \in live' <=> s \in live)
BY DEF IInv, Kept, Finished, keep, complete, forget, store

(* While a header block is open, nothing happens to any stream but the one   *)
(* it belongs to; a peer that lets another frame interrupt the block is no   *)
(* longer followed.                                                          *)
THEOREM BlocksAreWhole == Spec => BlocksAreContiguous
<1>1. IInv /\ InSync /\ Exchange /\ [Next]_vars => BlockStep
  <2> SUFFICES ASSUME IInv, InSync, Exchange, [Next]_vars, asm.on, ~poisoned',
                      NEW s \in Streams, s # asm.target
               PROVE  st'[s] = st[s] /\ (s \in live' <=> s \in live)
    BY DEF BlockStep
  <2>1. ~poisoned /\ asm = sending /\ sending.on
    BY OnlyReturns DEF Exchange, SameAsm
  <2>2. CASE \E eh \in BOOLEAN : SendContinuation(eh)
    <3> PICK eh \in BOOLEAN : SendContinuation(eh)
      BY <2>2
    <3> DEFINE f == [Frame("CONTINUATION", sending.cont) EXCEPT !.endHeaders = eh,
                                                                !.blk = sending.blk]
    <3> DEFINE a == [asm EXCEPT !.frag = @ + 1]
    <3>1. f.hpackOk
      BY Zenon DEF Frame
    <3>2. f.type = "CONTINUATION" /\ f.sid = sending.cont
      BY DEF Frame
    <3>3. handleFrame(f)
      BY Zenon DEF SendContinuation
    <3>4. onContinuation(f) => poison \/ fragment(a, f)
      BY DEF onContinuation
    <3>5. a.target = asm.target
      BY DEF IInv, Open, AsmType
    <3> HIDE DEF f, a
    <3>6. fragment(a, f)
      BY <3>2, <3>3, <3>4 DEF handleFrame, poison
    <3>7. CASE Finished(a.target, a.blk, a.endStream)
      BY <3>5, <3>7, OnlyTheTarget DEF IInv, Open
    <3>8. CASE Waits
      BY <3>8 DEF Waits
    <3> QED BY <3>1, <3>6, <3>7, <3>8, FragmentOutcome DEF poison
  <2>3. CASE Return \/ GapOrOverflow \/ UNCHANGED vars
    BY <2>3 DEF Return, GapOrOverflow, poison, vars, dirVars
  <2>4. CASE SendFaulty
    BY <2>4, FaultyOutcome DEF SendFaulty, poison, dirVars
  <2>5. CASE \E r \in Streams : Abandon(r)
    BY <2>5 DEF Abandon, dirVars
  <2>6. ~(\/ SendOther
          \/ \E r \in Streams, end \in BOOLEAN :
               \/ \E eh \in BOOLEAN : SendHeaders(r, end, eh)
               \/ \E n \in DataSizes : SendData(r, n, end)
               \/ SendBadData(r, end)
          \/ \E r \in Streams : SendReset(r)
          \/ \E r, p \in Streams, eh \in BOOLEAN : SendPush(r, p, eh))
    BY <2>1, Zenon DEF SendOther, SendHeaders, SendData, SendBadData, SendReset, SendPush, CanStart
  <2> QED BY <2>2, <2>3, <2>4, <2>5, <2>6, Zenon DEF Next
<1> QED BY <1>1, ExchangeAlways, PTL DEF Spec, BlocksAreContiguous

=============================================================================
